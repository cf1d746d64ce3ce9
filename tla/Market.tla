------------------------------- MODULE Market -------------------------------
(***************************************************************************)
(* One event group: its legs, the venues they trade on, and what a leg      *)
(* costs.                                                                   *)
(*                                                                          *)
(* A price is a number of ticks, Unit of them to the dollar a winning       *)
(* contract pays.  A venue's fee is rate * price * (1 - price) with the     *)
(* rate in percent, so money is counted in 1/(100 * Unit * Unit) of a       *)
(* dollar: every cost below is exact, as the code's decimals are.           *)
(***************************************************************************)
EXTENDS Integers

CONSTANTS
  Venues,      \* venue ids
  Outcomes,    \* the legs of the event group
  VenueOf,     \* the venue an outcome trades on
  IsYesSide,   \* which side of the event an outcome is
  Position,    \* a leg's place in the group's list of legs
  Unit,        \* price ticks in a dollar
  FeeRate      \* per venue, the taker coefficient in percent

ASSUME MarketAssumption ==
  /\ VenueOf \in [Outcomes -> Venues]
  /\ IsYesSide \in [Outcomes -> BOOLEAN]
  /\ Position \in [Outcomes -> Nat]
  /\ \A o, p \in Outcomes : Position[o] = Position[p] => o = p
  /\ Unit \in Nat \ {0}
  /\ FeeRate \in [Venues -> Nat]

\* What a winning contract pays.
Payout == 100 * Unit * Unit

Price(px) == 100 * Unit * px
FeePerContract(o, px) == FeeRate[VenueOf[o]] * px * (Unit - px)

\* leg_unit_cost: one contract bought at px, its fee included.
UnitCost(o, px) == Price(px) + FeePerContract(o, px)
=============================================================================
