------------------------------ MODULE Detector ------------------------------
(***************************************************************************)
(* What an event group's quotes are worth: the edges the engine publishes   *)
(* (shared/arb_engine.py, sized by shared/qty.py) and the pair the          *)
(* /monitored row names (list_monitored and _rank_pairs, backend/app.py).   *)
(* The code computes the two apart, and the frontend joins them by leg.     *)
(*                                                                          *)
(* `q` is always the quotes read for the group: per leg an ask and the size *)
(* resting there, or NoQuote.  A quantity counts DEFAULT_QTY_TICKs.         *)
(***************************************************************************)
EXTENDS Market, FiniteSets

CONSTANTS
  MaxStake,    \* the ticket budget; zero when it is disabled
  MinQty,      \* the size floor
  FallbackQty  \* LEGACY_UNBOUNDED_QTY: no depth reported and no budget

ASSUME SizingAssumption ==
  /\ MaxStake \in Nat
  /\ MinQty \in Nat
  /\ FallbackQty \in Nat \ {0}

\* A size the venue did not report (None) is not a size of zero.
Unknown == -1

QuoteOf(ask, size) == [ask |-> ask, size |-> size]
NoQuote == QuoteOf(Unit + 1, 0)

Smallest(S) == CHOOSE x \in S : \A y \in S : x <= y

\* tradeable_qty: a leg known empty stops the ticket, a leg of unknown depth
\* sets no ceiling, the budget buys what it buys.
MinOf(x, y) == IF x <= y THEN x ELSE y

\* The smaller of two depths, one not reported being no ceiling at all.
Depth(d, e) ==
  IF d = Unknown THEN e ELSE IF e = Unknown THEN d ELSE MinOf(d, e)

TradeableQty(cost, depth, stake) ==
  LET budget == stake \div cost
  IN IF stake > 0 /\ cost > 0
     THEN IF depth = Unknown THEN budget ELSE MinOf(depth, budget)
     ELSE IF depth = Unknown THEN FallbackQty ELSE depth

-----------------------------------------------------------------------------
(* detect_cross_venue_two_leg.                                              *)

\* A YES and a NO on different venues, both quoted.
CrossPairs == {p \in Outcomes \X Outcomes :
                 IsYesSide[p[1]] /\ ~IsYesSide[p[2]] /\ VenueOf[p[1]] # VenueOf[p[2]]}
Pairs(q) == {p \in CrossPairs : q[p[1]] # NoQuote /\ q[p[2]] # NoQuote}

PairCost(q, p) == UnitCost(p[1], q[p[1]].ask) + UnitCost(p[2], q[p[2]].ask)
NetEdge(q, p)  == Payout - PairCost(q, p)
PairQty(q, p, stake) ==
  TradeableQty(PairCost(q, p), Depth(q[p[1]].size, q[p[2]].size), stake)

\* The payoff less the whole stake, computed at the ticket's own quantity.
LegStake(o, px, n) == Price(px) * n + FeePerContract(o, px) * n
GuaranteedProfit(q, p) ==
  LET n == PairQty(q, p, MaxStake)
  IN Payout * n - LegStake(p[1], q[p[1]].ask, n) - LegStake(p[2], q[p[2]].ask, n)

\* The loops run over the YES legs, then over the NO legs; a later pair must
\* be strictly better to be taken.
Earlier(p, r) == \/ Position[p[1]] < Position[r[1]]
                 \/ p[1] = r[1] /\ Position[p[2]] < Position[r[2]]

Executable(q) == {p \in Pairs(q) :
                    /\ NetEdge(q, p) > 0
                    /\ PairQty(q, p, MaxStake) > 0
                    /\ PairQty(q, p, MaxStake) >= MinQty
                    /\ GuaranteedProfit(q, p) > 0}

\* The most profitable pair, the first of them on a tie: one or none.
Detected(q) ==
  LET S == Executable(q) IN
  {p \in S : \A r \in S \ {p} :
     \/ GuaranteedProfit(q, r) < GuaranteedProfit(q, p)
     \/ GuaranteedProfit(q, r) = GuaranteedProfit(q, p) /\ Earlier(p, r)}

-----------------------------------------------------------------------------
(* detect_complementary_set: every leg of one venue, so that one pays.      *)

LegsOn(v) == {o \in Outcomes : VenueOf[o] = v}

\* The two legs of a venue, in the group's order.
SameVenuePairs ==
  {p \in Outcomes \X Outcomes :
     /\ VenueOf[p[1]] = VenueOf[p[2]] /\ Position[p[1]] < Position[p[2]]
     /\ Cardinality(LegsOn(VenueOf[p[1]])) = 2}

Complementary(q, v) ==
  {p \in SameVenuePairs :
     /\ VenueOf[p[1]] = v
     /\ q[p[1]] # NoQuote /\ q[p[2]] # NoQuote
     /\ NetEdge(q, p) > 0
     /\ PairQty(q, p, MaxStake) > 0
     /\ PairQty(q, p, MaxStake) >= MinQty
     /\ GuaranteedProfit(q, p) > 0}

\* A published opportunity: its legs, their prices and its size, which is all
\* that _opp_fingerprint compares.
OfferOf(q, p) == [legs |-> p, prices |-> <<q[p[1]].ask, q[p[2]].ask>>,
                  qty |-> PairQty(q, p, MaxStake)]

\* evaluate_now.
Offers(q, crossVenueOnly) ==
  {OfferOf(q, p) : p \in Detected(q)}
    \cup (IF crossVenueOnly THEN {}
          ELSE {OfferOf(q, p) : p \in UNION {Complementary(q, v) : v \in Venues}})

-----------------------------------------------------------------------------
(* The /monitored row.                                                      *)

\* The cheapest ask of a side; a dollar and a tick when none is quoted.
BestAsk(q, side) ==
  Smallest({q[o].ask : o \in {x \in Outcomes : IsYesSide[x] = side}} \cup {Unit + 1})

HasArb(q) == BestAsk(q, TRUE) + BestAsk(q, FALSE) < Unit

\* _rank_pairs.  Among the pairs that clear fees and can be filled, the net
\* profit ranks; when there is none, a pair with depth before one without,
\* then the better price per contract.
Fillable(q) == {p \in Pairs(q) :
                  /\ NetEdge(q, p) > 0
                  /\ PairQty(q, p, MaxStake) > 0
                  /\ PairQty(q, p, MaxStake) >= MinQty}

NetProfit(q, p) == NetEdge(q, p) * PairQty(q, p, MaxStake)

HasDepth(q, p) == PairQty(q, p, MaxStake) > 0
BetterPriced(q, p, r) ==
  \/ HasDepth(q, p) /\ ~HasDepth(q, r)
  \/ HasDepth(q, p) = HasDepth(q, r) /\ NetEdge(q, p) > NetEdge(q, r)
SamePriced(q, p, r) ==
  HasDepth(q, p) = HasDepth(q, r) /\ NetEdge(q, p) = NetEdge(q, r)

RankedByProfit(q) ==
  LET S == Fillable(q) IN
  {p \in S : \A r \in S \ {p} :
     \/ NetProfit(q, p) > NetProfit(q, r)
     \/ NetProfit(q, p) = NetProfit(q, r) /\ Earlier(p, r)}
RankedByPrice(q) ==
  LET S == Pairs(q) IN
  {p \in S : \A r \in S \ {p} :
     \/ BetterPriced(q, p, r)
     \/ SamePriced(q, p, r) /\ Earlier(p, r)}

Displayed(q) == IF Fillable(q) # {} THEN RankedByProfit(q) ELSE RankedByPrice(q)

\* What the book alone would allow, the budget aside; None when neither leg
\* reports a depth.
UncappedQty(q, p) ==
  IF Depth(q[p[1]].size, q[p[2]].size) = Unknown THEN Unknown ELSE PairQty(q, p, 0)

-----------------------------------------------------------------------------
\* What a book may hold of a group: a price within the dollar, a size or None.
LegQuotes == {QuoteOf(ask, size) : ask \in 0..Unit, size \in Nat \cup {Unknown}} \cup {NoQuote}
GroupQuotes == [Outcomes -> LegQuotes]

\* "These two must agree on which pair a group's edge IS" (list_monitored):
\* what the engine publishes is the pair the row names, on a row sorted among
\* the arbitrages, at a size the book alone allows, whatever the quotes.
RowNamesOffer ==
  \A q \in GroupQuotes : \A p \in Detected(q) :
    /\ Displayed(q) = {p}
    /\ HasArb(q)
    /\ UncappedQty(q, p) # Unknown => PairQty(q, p, MaxStake) <= UncappedQty(q, p)
=============================================================================
