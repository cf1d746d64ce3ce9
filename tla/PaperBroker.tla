----------------------------- MODULE PaperBroker -----------------------------
(***************************************************************************)
(* The paper brokers of every venue (shared/paper_broker.py), the router    *)
(* that fills an arbitrage ticket across them (shared/execution_router.py)  *)
(* and the cash sweep between them (shared/cash.py), for one two-sided      *)
(* event group: the money that moves, and when.                             *)
(*                                                                          *)
(* The program is one asyncio loop, so only an await lets another task in.  *)
(* A commit never awaits: its legs are separate steps here (an account is   *)
(* half filled between them), and no other action is enabled meanwhile.     *)
(*                                                                          *)
(* Money is counted in whole units, Unit of them to the dollar a winning    *)
(* contract pays.  The code keeps an average price per outcome and uses it  *)
(* only multiplied by the quantity: `basis` is that product.                *)
(***************************************************************************)
EXTENDS Integers, Sequences, FiniteSets, Functions

CONSTANTS
  Accounts,     \* paper account ids
  Venues,       \* venue ids, one paper broker each
  Outcomes,     \* the legs of the event group
  VenueOf,      \* the venue an outcome trades on
  IsYesSide,    \* which side of the event an outcome is
  Unit,         \* money units a dollar is divided into
  FeeRate,      \* per venue, the taker coefficient in percent
  SlippageBps,  \* adverse slippage, in basis points
  Asks,         \* the ask prices a quote may show
  Sizes,        \* the resting sizes a quote may show, a size not reported
                \* (None) being one no ticket exceeds
  TicketQtys,   \* the quantities the detectors may size a ticket to
  StartCash,    \* cash each venue is seeded with
  MinTransfer,  \* the sweep's floor, in money units
  Resolutions,  \* what a contract of the YES side may resolve to
  MaxTickets    \* bound: tickets that reach the router

ASSUME FiniteAssumption == IsFiniteSet(Venues) /\ IsFiniteSet(Outcomes)
ASSUME VenueAssumption == VenueOf \in [Outcomes -> Venues]
ASSUME SideAssumption == IsYesSide \in [Outcomes -> BOOLEAN]
ASSUME MoneyAssumption ==
  /\ Unit \in Nat /\ Unit >= 100   \* a cent is a whole number of units
  /\ FeeRate \in [Venues -> Nat]
  /\ SlippageBps \in Nat
  /\ Asks \subseteq 0..Unit
  /\ Sizes \subseteq Nat
  /\ StartCash \in Nat
  /\ MinTransfer \in Nat \ {0}
  /\ Resolutions \subseteq 0..Unit
ASSUME RateAssumption == \A v \in Venues : FeeRate[v] <= 100
ASSUME TicketAssumption ==
  /\ TicketQtys \subseteq Nat \ {0}
  /\ MaxTickets \in Nat

VARIABLES
  quote,      \* top of book per outcome: live, ask, and the size resting there
  cash,       \* free cash per account and venue
  qty,        \* contracts held per account and outcome
  basis,      \* what the held contracts cost, without fees
  openFees,   \* fees carried against the held contracts
  realized,   \* realized profit per account and outcome, net of fees
  buyer,      \* the account of the ticket being committed
  legs,       \* the legs of it still to be filled; empty outside a commit
  snap,       \* snapshot_account's copies, taken before the first fill
  net,        \* history: cash that actually moved on account of an outcome
  crossVenueOnly, \* ARBYS_CROSS_VENUE_ONLY, read when the engine is built
  yesPays,    \* environment: what a YES contract resolves to
  settled,    \* outcomes settled so far
  submitted   \* tickets submitted so far (MaxTickets bounds it)

account == <<cash, qty, basis, openFees, realized, net>>
commit  == <<buyer, legs, snap>>
world   == <<crossVenueOnly, yesPays>>
vars    == <<quote, account, commit, world, settled, submitted>>

-----------------------------------------------------------------------------
(* Prices and fees.                                                         *)

MinOf(x, y) == IF x <= y THEN x ELSE y

\* rate * price * (1 - price) * qty, the shape of every venue's model.
FeeSigned(v, px, n) == (FeeRate[v] * px * (px - Unit) * n) \div (100 * Unit)
Fee(v, px, n) == (FeeRate[v] * px * (Unit - px) * n) \div (100 * Unit)

\* Buying raises the price, never above a dollar.
ApplySlippage(ask) == MinOf(Unit, ask + ((ask * SlippageBps) \div 10000))

Legs == [outcome : Outcomes, qty : TicketQtys, limit : Asks]

\* What the detector priced the leg at: its limit is the ask it saw.
QuotedCost(leg) ==
  leg.limit * leg.qty + Fee(VenueOf[leg.outcome], leg.limit, leg.qty)

\* A YES and a NO of the same quantity that cost less than they pay.
ProfitableSameSide(y, n) ==
  /\ VenueOf[y.outcome] # VenueOf[n.outcome]
  /\ y.qty = n.qty
  /\ QuotedCost(y) + QuotedCost(n) < Unit * y.qty
Profitable(y, n) ==
  /\ IsYesSide[y.outcome] /\ ~IsYesSide[n.outcome]
  /\ y.qty = n.qty
  /\ QuotedCost(y) + QuotedCost(n) < Unit * y.qty

\* detect_cross_venue_two_leg's pairs, and detect_complementary_set's unless
\* evaluate_now skips them.
Tickets == {t \in Legs \X Legs : Profitable(t[1], t[2])}

TwoVenues(t) == VenueOf[t[1].outcome] # VenueOf[t[2].outcome]

FillPrice(leg) == ApplySlippage(quote[leg.outcome].ask)
FillFee(leg)   == Fee(VenueOf[leg.outcome], FillPrice(leg), leg.qty)
FillCost(leg)  == FillPrice(leg) * leg.qty + FillFee(leg)

\* _preview_fill accepts a buy: a live quote, resting size enough, and the
\* slipped price within the limit.
PreviewFill(leg) ==
  /\ quote[leg.outcome].live
  /\ quote[leg.outcome].size >= leg.qty
  /\ FillPrice(leg) <= leg.limit

AffordsBeforeFees(a, leg) ==
  FillPrice(leg) * leg.qty <= cash[a][VenueOf[leg.outcome]]
Affords(a, leg) == FillCost(leg) <= cash[a][VenueOf[leg.outcome]]

-----------------------------------------------------------------------------
NoQuote == [live |-> FALSE, ask |-> 0, size |-> 0]
Quotes  == [live : {TRUE}, ask : Asks, size : Sizes] \cup {NoQuote}

ZeroPerVenue   == [v \in Venues |-> 0]
ZeroPerOutcome == [o \in Outcomes |-> 0]

NoSnap == [cash |-> ZeroPerVenue, qty |-> ZeroPerOutcome,
           basis |-> ZeroPerOutcome, realized |-> ZeroPerOutcome,
           net |-> ZeroPerOutcome]

Init ==
  /\ quote = [o \in Outcomes |-> NoQuote]
  /\ cash = [a \in Accounts |-> [v \in Venues |-> StartCash]]
  /\ qty = [a \in Accounts |-> ZeroPerOutcome]
  /\ basis = [a \in Accounts |-> ZeroPerOutcome]
  /\ openFees = [a \in Accounts |-> ZeroPerOutcome]
  /\ realized = [a \in Accounts |-> ZeroPerOutcome]
  /\ net = [a \in Accounts |-> ZeroPerOutcome]
  /\ buyer \in Accounts
  /\ legs = <<>>
  /\ snap = NoSnap
  /\ crossVenueOnly \in BOOLEAN
  /\ yesPays \in Resolutions
  /\ settled = {}
  /\ submitted = 0

\* No commit holds the event loop.
LoopFree == legs = <<>>

-----------------------------------------------------------------------------
(* The book, as the ingest workers move it.                                 *)

\* A worker upserts a quote, or the book withholds a stale one.
UpsertMidCommit(o) ==
  /\ \E q \in Quotes : quote' = [quote EXCEPT ![o] = q]
  /\ UNCHANGED <<account, commit, world, settled, submitted>>
Upsert(o) ==
  /\ LoopFree
  /\ \E q \in Quotes : quote' = [quote EXCEPT ![o] = q]
  /\ UNCHANGED <<account, commit, world, settled, submitted>>

-----------------------------------------------------------------------------
(* ExecutionRouter.submit and _commit_atomically.                           *)

\* Every leg previews clean and is affordable on its own; the snapshot is
\* taken.  A ticket that fails the preview changes nothing.
Submit(a, ticket) ==
  /\ LoopFree
  /\ submitted < MaxTickets
  /\ settled = {}
  /\ crossVenueOnly => TwoVenues(ticket)
  /\ \A i \in DOMAIN ticket : PreviewFill(ticket[i]) /\ Affords(a, ticket[i])
  /\ buyer' = a
  /\ legs' = ticket
  /\ snap' = [cash |-> cash[a], qty |-> qty[a], basis |-> basis[a],
              realized |-> realized[a], net |-> net[a]]
  /\ submitted' = submitted + 1
  /\ UNCHANGED <<quote, account, world, settled>>

\* apply_fill on the next leg: the fee is carried, the cash debited, the
\* position acquired.
ApplyFill ==
  /\ legs # <<>>
  /\ LET leg == Head(legs)
         o   == leg.outcome
     IN /\ PreviewFill(leg)
        /\ Affords(buyer, leg)
        /\ openFees' = [openFees EXCEPT ![buyer][o] = @ + FillFee(leg)]
        /\ cash' = [cash EXCEPT ![buyer][VenueOf[o]] = @ - FillCost(leg)]
        /\ net' = [net EXCEPT ![buyer][o] = @ - FillCost(leg)]
        /\ qty' = [qty EXCEPT ![buyer][o] = @ + leg.qty]
        /\ basis' = [basis EXCEPT ![buyer][o] = @ + FillPrice(leg) * leg.qty]
  /\ legs' = Tail(legs)
  /\ snap' = IF Tail(legs) = <<>> THEN NoSnap ELSE snap
  /\ UNCHANGED <<quote, realized, buyer, world, settled, submitted>>

\* apply_fill rejects the next leg: restore_account puts the copies back.
\* There is no copy of open_fees_by_outcome among them.
RollBackCashOnly ==
  /\ legs # <<>>
  /\ ~(PreviewFill(Head(legs)) /\ Affords(buyer, Head(legs)))
  /\ cash' = [cash EXCEPT ![buyer] = snap.cash]
  /\ net' = [net EXCEPT ![buyer] = snap.net]
  /\ legs' = <<>>
  /\ snap' = NoSnap
  /\ UNCHANGED <<quote, qty, basis, realized, openFees, buyer, world, settled, submitted>>
RollBack ==
  /\ legs # <<>>
  /\ ~(PreviewFill(Head(legs)) /\ Affords(buyer, Head(legs)))
  /\ cash' = [cash EXCEPT ![buyer] = snap.cash]
  /\ qty' = [qty EXCEPT ![buyer] = snap.qty]
  /\ basis' = [basis EXCEPT ![buyer] = snap.basis]
  /\ realized' = [realized EXCEPT ![buyer] = snap.realized]
  /\ net' = [net EXCEPT ![buyer] = snap.net]
  /\ legs' = <<>>
  /\ snap' = NoSnap
  /\ UNCHANGED <<quote, openFees, buyer, world, settled, submitted>>

-----------------------------------------------------------------------------
(* Settlement, and the sweep between venues.                                *)

ResolvedValue(o) == IF IsYesSide[o] THEN yesPays ELSE Unit - yesPays

\* What closing the position takes out of its proceeds: its cost, and the
\* fees carried against it.
CarriedCostNoFees(a, o) == basis[a][o]
CarriedCost(a, o) == basis[a][o] + openFees[a][o]

\* settle_outcome_async up to its first await: every account holding the
\* outcome is paid, its fees and cost are realized, its position is zeroed.
SettleOutcome(o) ==
  LET Pays(a)  == ResolvedValue(o) * qty[a][o]
      Holders  == {a \in Accounts : qty[a][o] # 0}
      Close(f) == [a \in Accounts |->
                     IF a \in Holders THEN [f[a] EXCEPT ![o] = 0] ELSE f[a]]
  IN /\ LoopFree
     /\ o \notin settled
     /\ realized' = [a \in Accounts |->
          IF a \in Holders
          THEN [realized[a] EXCEPT ![o] = @ + Pays(a) - CarriedCost(a, o)]
          ELSE realized[a]]
     /\ cash' = [a \in Accounts |-> [cash[a] EXCEPT ![VenueOf[o]] = @ + Pays(a)]]
     /\ net' = [a \in Accounts |-> [net[a] EXCEPT ![o] = @ + Pays(a)]]
     /\ openFees' = Close(openFees)
     /\ qty' = Close(qty)
     /\ basis' = Close(basis)
     /\ settled' = settled \cup {o}
     /\ UNCHANGED <<quote, commit, world, submitted>>

Cent == Unit \div 100

\* Between two venues plan_transfers moves the richer one's surplus over the
\* equal share, rounded down to the cent.
PlannedAmount(a, from, to) ==
  (((cash[a][from] - cash[a][to]) \div 2) \div Cent) * Cent

\* CashSweepService.sweep_once: withdraw refuses an overdraft, and then
\* nothing is deposited.
SweepRoundedUp(a, from, to) ==
  LET amount == PlannedAmount(a, from, to)
  IN /\ LoopFree
     /\ from # to
     /\ amount >= MinTransfer
     /\ amount <= cash[a][from]
     /\ cash' = [cash EXCEPT ![a] = [cash[a] EXCEPT
                    ![from] = cash[a][from] - amount,
                    ![to] = cash[a][to] + amount + Cent]]
     /\ UNCHANGED <<quote, qty, basis, openFees, realized, net, commit,
                    world, settled, submitted>>
Sweep(a, from, to) ==
  LET amount == PlannedAmount(a, from, to)
  IN /\ LoopFree
     /\ from # to
     /\ amount >= MinTransfer
     /\ amount <= cash[a][from]
     /\ cash' = [cash EXCEPT ![a] = [cash[a] EXCEPT
                    ![from] = cash[a][from] - amount,
                    ![to] = cash[a][to] + amount]]
     /\ UNCHANGED <<quote, qty, basis, openFees, realized, net, commit,
                    world, settled, submitted>>

-----------------------------------------------------------------------------
Next ==
  \/ \E o \in Outcomes : Upsert(o)
  \/ \E a \in Accounts, ticket \in Tickets : Submit(a, ticket)
  \/ ApplyFill
  \/ RollBack
  \/ \E o \in Outcomes : SettleOutcome(o)
  \/ \E a \in Accounts, from, to \in Venues : Sweep(a, from, to)

Spec == Init /\ [][Next]_vars
-----------------------------------------------------------------------------
(* Properties.                                                              *)

Amounts(S, T) == [S -> [T -> Nat]]

\* Every ledger entry is of its kind; quantities, costs, fees and cash are
\* never negative, a profit may be (apply_fill, settle_outcome_async, withdraw).
TypeOK ==
  /\ quote \in [Outcomes -> Quotes]
  /\ cash \in [Accounts -> [Venues -> Int]]
  /\ qty \in Amounts(Accounts, Outcomes)
  /\ basis \in Amounts(Accounts, Outcomes)
  /\ openFees \in Amounts(Accounts, Outcomes)
  /\ realized \in [Accounts -> [Outcomes -> Int]]
  /\ net \in [Accounts -> [Outcomes -> Int]]
  /\ buyer \in Accounts
  /\ legs \in Seq(Legs)
  /\ snap \in [cash : [Venues -> Int], qty : [Outcomes -> Nat],
               basis : [Outcomes -> Nat], realized : [Outcomes -> Int],
               net : [Outcomes -> Int]]
  /\ crossVenueOnly \in BOOLEAN
  /\ yesPays \in Resolutions
  /\ settled \subseteq Outcomes
  /\ submitted \in Nat

\* No venue's free cash goes negative: not between the legs of a ticket, not
\* by a rollback, not by a sweep that lands beside them (apply_fill's funds
\* check, withdraw's refusal).
NoOverdraft == \A a \in Accounts, v \in Venues : cash[a][v] >= 0

\* The profit reported for an outcome is the cash that moved on its account,
\* plus what the open position cost: no fee is charged to it twice or never
\* (_consume_fees, settle_outcome_async).
RealizedMatchesCash ==
  crossVenueOnly => \A a \in Accounts, o \in Outcomes :
    realized[a][o] = net[a][o] + basis[a][o] + openFees[a][o]

\* With same-venue tickets, whose commit can be refused half way, reported
\* profit may fall short of the cash gained but never exceeds it
\* (restore_account).
RealizedNeverOverstated ==
  \A a \in Accounts, o \in Outcomes :
    realized[a][o] <= net[a][o] + basis[a][o] + openFees[a][o]

\* Between tickets and before settlement an account holds as many YES as NO
\* contracts: a ticket fills on every leg or on none (_commit_atomically:
\* "no naked leg").
NoNakedLeg ==
  LoopFree /\ settled = {} =>
    \A a \in Accounts :
      SumFunctionOnSet(qty[a], {o \in Outcomes : IsYesSide[o]}) =
      SumFunctionOnSet(qty[a], {o \in Outcomes : ~IsYesSide[o]})

\* No operation creates or destroys money: free cash, and what open positions
\* cost, less the profit reported, is always what the account started with
\* (apply_fill, settle_outcome_async, apply_transfers together).
MoneyConserved ==
  crossVenueOnly => \A a \in Accounts :
    SumFunctionOnSet(cash[a], Venues)
      + SumFunctionOnSet(basis[a], Outcomes) + SumFunctionOnSet(openFees[a], Outcomes)
      - SumFunctionOnSet(realized[a], Outcomes)
    = StartCash * Cardinality(Venues)

\* Once the preview has passed, no leg of a commit is refused: the loop is
\* not released between them, and legs on different venues do not spend the
\* same cash (_commit_atomically's "nothing can interleave here").
CommitNeverRefused ==
  crossVenueOnly /\ ~LoopFree => PreviewFill(Head(legs)) /\ Affords(buyer, Head(legs))

\* An account whose every position in the game has settled, at whatever
\* value, has gained: what the detector promised survives re-pricing, fees
\* and partial settlement orders (net_edge_per_contract, limit_price).
LockedProfit ==
  \A a \in Accounts :
    /\ settled = Outcomes
    /\ \E o \in Outcomes : net[a][o] # 0
    => SumFunctionOnSet(net[a], Outcomes) > 0

\* Fees are carried "on the currently open quantity of each outcome ... until
\* that position closes" (paper_broker.py:79): outside a commit, none is
\* carried against an outcome nobody holds.
FeesOnlyOnOpenQuantity ==
  LoopFree => \A a \in Accounts, o \in Outcomes :
                qty[a][o] = 0 => openFees[a][o] = 0

-----------------------------------------------------------------------------
(* The abstract ticket.                                                     *)

\* A commit shows only when it is over: until then the buyer's account is
\* what the snapshot holds.
CommittedCash == IF LoopFree THEN cash ELSE [cash EXCEPT ![buyer] = snap.cash]
CommittedQty  == IF LoopFree THEN qty ELSE [qty EXCEPT ![buyer] = snap.qty]

Atomic == INSTANCE AtomicTicket WITH cash <- CommittedCash, qty <- CommittedQty

\* A ticket fills on both legs at once or not at all, one leg of each side and
\* for less than the pair will pay, and what a rollback leaves is what was
\* there before: the two applied fills, the refused ones and the restored
\* account are one atomic step or none (_commit_atomically: "a partial ticket
\* leaves no trace and no naked leg").
RefinesAtomicTicket == Atomic!Spec
=============================================================================
