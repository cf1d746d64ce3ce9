----------------------------- MODULE DeskProofs -----------------------------
(***************************************************************************)
(* The desk's two halves, for any legs, venues, fees, budgets and queues.   *)
(* The detector: the engine and the /monitored row agree on a group's pair. *)
(* The feed: the ladder mirrors the venue, the live opportunities are what  *)
(* the detector finds, and a subscriber hears of every one.  The account:   *)
(* what LedgerProofs proves of it, of the desk's specification.             *)
(***************************************************************************)
EXTENDS Desk, LedgerProofs

-----------------------------------------------------------------------------
(* Arithmetic.                                                              *)

\* A nonempty set of naturals has a least member, which Smallest names.
LEMMA SmallestIsLeast ==
  ASSUME NEW S \in SUBSET Nat, S # {}
  PROVE  Smallest(S) \in S /\ \A y \in S : Smallest(S) <= y
<1>1. \E x \in S : \A y \in S : ~(<<y, x>> \in OpToRel(<, Nat))
  BY NatLessThanWellFounded, WFMin
<1>2. \E x \in S : \A y \in S : x <= y
  <2>1. PICK x \in S : \A y \in S : ~(<<y, x>> \in OpToRel(<, Nat))
    BY <1>1
  <2>2. \A y \in S : ~(y < x)
    BY <2>1 DEF OpToRel
  <2> QED BY <2>2
<1> QED BY <1>2 DEF Smallest

\* One contract, or a thousand: the stake is the unit cost times the quantity
\* (LegStake, which the code computes from the fee on the whole quantity).
LEMMA StakeScales ==
  ASSUME NEW a \in Int, NEW b \in Int, NEW c \in Int, NEW d \in Int, NEW e \in Int,
         NEW n \in Int
  PROVE  a * n - (b * n + c * n) - (d * n + e * n) = (a - ((b + c) + (d + e))) * n
OBVIOUS

LEMMA ProductPositive ==
  ASSUME NEW a \in Int, NEW b \in Int, a > 0, b > 0
  PROVE  a * b > 0
OBVIOUS

-----------------------------------------------------------------------------
(* What a quoted leg costs.                                                 *)

\* A quote that is there has a price within the dollar and a size or none.
LEMMA QuotedLeg ==
  ASSUME NEW q \in GroupQuotes, NEW o \in Outcomes, q[o] # NoQuote
  PROVE  q[o].ask \in 0..Unit /\ q[o].size \in Nat \cup {Unknown}
<1>1. q[o] \in LegQuotes
  BY DEF GroupQuotes
<1> QED BY <1>1 DEF LegQuotes, QuoteOf

LEMMA AskInRange ==
  ASSUME NEW q \in GroupQuotes, NEW o \in Outcomes
  PROVE  q[o].ask \in 0..(Unit + 1)
<1>1. q[o] \in LegQuotes
  BY DEF GroupQuotes
<1> QED BY <1>1, MarketAssumption DEF LegQuotes, QuoteOf, NoQuote

-----------------------------------------------------------------------------
(* Sizing.                                                                  *)

LEMMA DepthType ==
  ASSUME NEW d \in Nat \cup {Unknown}, NEW e \in Nat \cup {Unknown}
  PROVE  Depth(d, e) \in Nat \cup {Unknown}
BY DEF Depth, MinOf

\* A ticket is of a natural quantity, and the budget only lowers what the book
\* allows (tradeable_qty).
LEMMA SizeBounded ==
  ASSUME NEW cost \in Nat, NEW depth \in Nat \cup {Unknown}, NEW stake \in Nat
  PROVE  /\ TradeableQty(cost, depth, stake) \in Nat
         /\ depth # Unknown => TradeableQty(cost, depth, stake) <= depth
         /\ depth # Unknown => TradeableQty(cost, depth, 0) = depth
<1>1. FallbackQty \in Nat
  BY SizingAssumption
<1>2. cost > 0 => stake \div cost \in Nat
  OBVIOUS
<1> QED BY <1>1, <1>2 DEF TradeableQty, MinOf

-----------------------------------------------------------------------------
(* A pair.                                                                  *)

LEMMA PairLegs ==
  ASSUME NEW q \in GroupQuotes, NEW p \in Pairs(q)
  PROVE  /\ p[1] \in Outcomes /\ p[2] \in Outcomes /\ p = <<p[1], p[2]>>
         /\ IsYesSide[p[1]] = TRUE /\ IsYesSide[p[2]] = FALSE
         /\ q[p[1]].ask \in 0..Unit /\ q[p[1]].size \in Nat \cup {Unknown}
         /\ q[p[2]].ask \in 0..Unit /\ q[p[2]].size \in Nat \cup {Unknown}
<1>1. p \in Outcomes \X Outcomes /\ IsYesSide[p[1]] /\ ~IsYesSide[p[2]]
      /\ q[p[1]] # NoQuote /\ q[p[2]] # NoQuote
  BY DEF Pairs, CrossPairs
<1>2. IsYesSide[p[1]] \in BOOLEAN /\ IsYesSide[p[2]] \in BOOLEAN
  BY <1>1, MarketAssumption
<1> QED BY <1>1, <1>2, QuotedLeg

LEMMA PairTypes ==
  ASSUME NEW q \in GroupQuotes, NEW p \in Pairs(q)
  PROVE  /\ PairCost(q, p) \in Nat
         /\ NetEdge(q, p) \in Int
         /\ PairQty(q, p, MaxStake) \in Nat
<1>1. UnitCost(p[1], q[p[1]].ask) \in Nat /\ UnitCost(p[2], q[p[2]].ask) \in Nat
  BY PairLegs, CostTypes
<1>2. PairCost(q, p) \in Nat
  BY <1>1 DEF PairCost
<1>3. Payout \in Int
  <2>1. Unit \in Int
    BY MarketAssumption
  <2> QED BY <2>1 DEF Payout
<1>4. NetEdge(q, p) \in Int
  BY <1>2, <1>3 DEF NetEdge
<1>5. PairQty(q, p, MaxStake) \in Nat
  <2>1. Depth(q[p[1]].size, q[p[2]].size) \in Nat \cup {Unknown}
    BY PairLegs, DepthType
  <2>2. MaxStake \in Nat
    BY SizingAssumption
  <2> QED BY <1>2, <2>1, <2>2, SizeBounded DEF PairQty
<1> QED BY <1>2, <1>4, <1>5

\* The profit the detector computes on the ticket is the net edge per contract
\* times the quantity, which is what the row ranks by.
LEMMA ProfitIsEdgeTimesSize ==
  ASSUME NEW q \in GroupQuotes, NEW p \in Pairs(q)
  PROVE  GuaranteedProfit(q, p) = NetProfit(q, p)
<1> DEFINE y == q[p[1]].ask
           n == q[p[2]].ask
           k == PairQty(q, p, MaxStake)
<1>1. /\ Price(y) \in Int /\ FeePerContract(p[1], y) \in Int
      /\ Price(n) \in Int /\ FeePerContract(p[2], n) \in Int
      /\ UnitCost(p[1], y) = Price(y) + FeePerContract(p[1], y)
      /\ UnitCost(p[2], n) = Price(n) + FeePerContract(p[2], n)
  <2>1. p[1] \in Outcomes /\ y \in 0..Unit /\ p[2] \in Outcomes /\ n \in 0..Unit
    BY PairLegs
  <2>2. \A z \in Nat : z \in Int
    OBVIOUS
  <2> HIDE DEF y, n
  <2>3. /\ Price(y) \in Nat /\ FeePerContract(p[1], y) \in Nat
        /\ UnitCost(p[1], y) = Price(y) + FeePerContract(p[1], y)
    BY <2>1, CostTypes
  <2>4. /\ Price(n) \in Nat /\ FeePerContract(p[2], n) \in Nat
        /\ UnitCost(p[2], n) = Price(n) + FeePerContract(p[2], n)
    BY <2>1, CostTypes
  <2> QED BY <2>2, <2>3, <2>4
<1>2. k \in Int
  BY PairTypes
<1>3. Payout \in Int
  <2>1. Unit \in Int
    BY MarketAssumption
  <2> QED BY <2>1 DEF Payout
<1>4. GuaranteedProfit(q, p)
        = Payout * k - (Price(y) * k + FeePerContract(p[1], y) * k)
                     - (Price(n) * k + FeePerContract(p[2], n) * k)
  BY DEF GuaranteedProfit, LegStake
<1>5. NetProfit(q, p) = (Payout - (UnitCost(p[1], y) + UnitCost(p[2], n))) * k
  BY DEF NetProfit, NetEdge, PairCost
<1> HIDE DEF y, n, k
<1> QED BY <1>1, <1>2, <1>3, <1>4, <1>5, StakeScales

\* Whatever clears fees and can be filled makes a profit: the detector's last
\* guard never refuses what the row ranks.
LEMMA FillableIsExecutable ==
  ASSUME NEW q \in GroupQuotes
  PROVE  Executable(q) = Fillable(q)
<1>1. ASSUME NEW p \in Pairs(q), NetEdge(q, p) > 0, PairQty(q, p, MaxStake) > 0
      PROVE  GuaranteedProfit(q, p) > 0
  <2>1. NetProfit(q, p) > 0
    BY <1>1, PairTypes, ProductPositive DEF NetProfit
  <2> QED BY <2>1, <1>1, ProfitIsEdgeTimesSize
<1> QED BY <1>1 DEF Executable, Fillable

-----------------------------------------------------------------------------
(* The choice.                                                              *)

LEMMA EarlierIsAsymmetric ==
  ASSUME NEW p \in Outcomes \X Outcomes, NEW r \in Outcomes \X Outcomes, Earlier(p, r)
  PROVE  ~Earlier(r, p)
<1>1. Position[p[1]] \in Nat /\ Position[p[2]] \in Nat
      /\ Position[r[1]] \in Nat /\ Position[r[2]] \in Nat
  BY MarketAssumption
<1> QED BY <1>1 DEF Earlier

LEMMA DetectedIsRanked ==
  ASSUME NEW q \in GroupQuotes
  PROVE  Detected(q) = RankedByProfit(q)
<1>1. Executable(q) = Fillable(q)
  BY FillableIsExecutable
<1>2. \A p \in Fillable(q) : p \in Pairs(q)
  BY DEF Fillable
<1>3. \A p \in Fillable(q) :
        GuaranteedProfit(q, p) = NetProfit(q, p) /\ NetProfit(q, p) \in Int
  <2>1. \A x, y \in Int : x * y \in Int
    OBVIOUS
  <2>2. \A p \in Fillable(q) : NetEdge(q, p) \in Int /\ PairQty(q, p, MaxStake) \in Int
    BY <1>2, PairTypes
  <2>3. \A p \in Fillable(q) : NetProfit(q, p) \in Int
    BY <2>1, <2>2 DEF NetProfit
  <2> QED BY <1>2, <2>3, ProfitIsEdgeTimesSize
<1> DEFINE GP(x) == GuaranteedProfit(q, x)
           NP(x) == NetProfit(q, x)
<1>4. Detected(q) = {p \in Fillable(q) : \A r \in Fillable(q) \ {p} :
                       GP(r) < GP(p) \/ (GP(r) = GP(p) /\ Earlier(p, r))}
  BY <1>1 DEF Detected
<1>5. RankedByProfit(q) = {p \in Fillable(q) : \A r \in Fillable(q) \ {p} :
                             NP(p) > NP(r) \/ (NP(p) = NP(r) /\ Earlier(p, r))}
  BY DEF RankedByProfit
<1>6. \A p, r \in Fillable(q) : /\ GP(r) < GP(p) <=> NP(p) > NP(r)
                                /\ GP(r) = GP(p) <=> NP(p) = NP(r)
  BY <1>3
<1> HIDE DEF GP, NP
<1> QED BY <1>4, <1>5, <1>6

\* The ranking names one pair at most.
LEMMA RankedIsOne ==
  ASSUME NEW q \in GroupQuotes, NEW p \in RankedByProfit(q)
  PROVE  RankedByProfit(q) = {p}
<1> SUFFICES ASSUME NEW r \in RankedByProfit(q), r # p
             PROVE  FALSE
  OBVIOUS
<1>1. p \in Fillable(q) /\ r \in Fillable(q)
  BY DEF RankedByProfit
<1>2. p \in Outcomes \X Outcomes /\ r \in Outcomes \X Outcomes
  BY <1>1 DEF Fillable, Pairs, CrossPairs
<1> DEFINE P == NetProfit(q, p)
           R == NetProfit(q, r)
<1>3. P \in Int /\ R \in Int
  <2>1. \A x, y \in Int : x * y \in Int
    OBVIOUS
  <2>2. p \in Pairs(q) /\ r \in Pairs(q)
    BY <1>1 DEF Fillable
  <2> QED BY <2>1, <2>2, PairTypes DEF NetProfit
<1>4. P > R \/ (P = R /\ Earlier(p, r))
  BY <1>1 DEF RankedByProfit
<1>5. R > P \/ (R = P /\ Earlier(r, p))
  BY <1>1 DEF RankedByProfit
<1> HIDE DEF P, R
<1> QED BY <1>2, <1>3, <1>4, <1>5, EarlierIsAsymmetric

-----------------------------------------------------------------------------
(* The theorem.                                                             *)

\* The cheapest asks of the two sides undercut those of any pair.
LEMMA BestAskUndercuts ==
  ASSUME NEW q \in GroupQuotes, NEW o \in Outcomes, NEW side \in BOOLEAN,
         IsYesSide[o] = side
  PROVE  BestAsk(q, side) \in Nat /\ BestAsk(q, side) <= q[o].ask
<1> DEFINE asks == {q[x].ask : x \in {z \in Outcomes : IsYesSide[z] = side}} \cup {Unit + 1}
<1>1. asks \in SUBSET Nat
  <2>1. Unit + 1 \in Nat /\ 0..(Unit + 1) \subseteq Nat
    BY MarketAssumption
  <2> QED BY <2>1, AskInRange
<1>2. q[o].ask \in asks
  OBVIOUS
<1>3. BestAsk(q, side) = Smallest(asks)
  BY DEF BestAsk
<1> HIDE DEF asks
<1>4. asks # {}
  BY <1>2
<1>5. Smallest(asks) \in asks /\ \A a \in asks : Smallest(asks) <= a
  BY <1>1, <1>4, SmallestIsLeast
<1> QED BY <1>1, <1>2, <1>3, <1>5

LEMMA EdgeShowsOnRow ==
  ASSUME NEW q \in GroupQuotes, NEW p \in Pairs(q), NetEdge(q, p) > 0
  PROVE  HasArb(q)
<1> DEFINE y == q[p[1]].ask
           n == q[p[2]].ask
           fy == FeePerContract(p[1], y)
           fn == FeePerContract(p[2], n)
<1>1. /\ p[1] \in Outcomes /\ p[2] \in Outcomes /\ y \in 0..Unit /\ n \in 0..Unit
      /\ IsYesSide[p[1]] = TRUE /\ IsYesSide[p[2]] = FALSE
  BY PairLegs
<1>2. /\ fy \in Nat /\ fn \in Nat
      /\ UnitCost(p[1], y) = Price(y) + fy /\ UnitCost(p[2], n) = Price(n) + fn
  BY <1>1, CostTypes
<1>3. Unit \in Nat /\ Unit > 0
  BY MarketAssumption
<1>4. Payout - ((Price(y) + fy) + (Price(n) + fn)) > 0
  BY <1>2 DEF NetEdge, PairCost
<1>5. y + n < Unit
  <2> HIDE DEF y, n, fy, fn
  <2> SUFFICES ASSUME y + n >= Unit
               PROVE  FALSE
    BY <1>1, <1>3
  <2> DEFINE u == 100 * Unit
  <2>1. Payout = u * Unit /\ Price(y) = u * y /\ Price(n) = u * n
    BY DEF Payout, Price
  <2>2. u \in Nat /\ y \in Nat /\ n \in Nat
    BY <1>1, <1>3
  <2>3. u * y + u * n = u * (y + n)
    BY <2>2
  <2>4. \A a, b, c \in Nat : b <= c => a * b <= a * c
    OBVIOUS
  <2>5. u * Unit <= u * (y + n)
    BY <2>2, <2>4, <1>3
  <2>6. u * Unit \in Int /\ u * y \in Int /\ u * n \in Int /\ u * (y + n) \in Int
    BY <2>2, <1>3
  <2>7. u * Unit - ((u * y + fy) + (u * n + fn)) > 0
    BY <1>4, <2>1
  <2> HIDE DEF u
  <2> QED BY <1>2, <2>3, <2>5, <2>6, <2>7
<1>6. BestAsk(q, TRUE) \in Nat /\ BestAsk(q, TRUE) <= y
  BY <1>1, BestAskUndercuts
<1>7. BestAsk(q, FALSE) \in Nat /\ BestAsk(q, FALSE) <= n
  BY <1>1, BestAskUndercuts
<1>8. y \in Nat /\ n \in Nat
  BY <1>1, <1>3
<1>9. BestAsk(q, TRUE) + BestAsk(q, FALSE) < Unit
  <2> DEFINE a == BestAsk(q, TRUE)
             b == BestAsk(q, FALSE)
  <2>1. a \in Nat /\ b \in Nat /\ a <= y /\ b <= n
    BY <1>6, <1>7
  <2> HIDE DEF y, n, a, b
  <2>2. a + b < Unit
    BY <2>1, <1>3, <1>5, <1>8
  <2> QED BY <2>2 DEF a, b
<1> QED BY <1>9 DEF HasArb

\* The published opportunity of a group is the pair its row names, on a row
\* that is sorted among the arbitrages, and the row's uncapped size is no
\* smaller: the Fill button of a live edge is never on another pair
\* (list_monitored, detect_cross_venue_two_leg).
THEOREM RowAgreesWithEngine == RowNamesOffer
<1> SUFFICES ASSUME NEW q \in GroupQuotes, NEW p \in Detected(q)
             PROVE  /\ Displayed(q) = {p}
                    /\ HasArb(q)
                    /\ UncappedQty(q, p) # Unknown =>
                         PairQty(q, p, MaxStake) <= UncappedQty(q, p)
  BY DEF RowNamesOffer
<1>1. p \in RankedByProfit(q)
  BY DetectedIsRanked
<1>2. p \in Fillable(q)
  BY <1>1 DEF RankedByProfit
<1>3. p \in Pairs(q) /\ NetEdge(q, p) > 0
  BY <1>2 DEF Fillable
<1>4. Displayed(q) = {p}
  BY <1>1, <1>2, RankedIsOne DEF Displayed
<1>5. HasArb(q)
  BY <1>3, EdgeShowsOnRow
<1>6. ASSUME UncappedQty(q, p) # Unknown
      PROVE  PairQty(q, p, MaxStake) <= UncappedQty(q, p)
  <2> DEFINE depth == Depth(q[p[1]].size, q[p[2]].size)
             cost  == PairCost(q, p)
  <2>1. depth # Unknown /\ UncappedQty(q, p) = PairQty(q, p, 0)
    BY <1>6 DEF UncappedQty
  <2>2. depth \in Nat \cup {Unknown} /\ cost \in Nat /\ MaxStake \in Nat
    BY <1>3, PairLegs, DepthType, PairTypes, SizingAssumption
  <2>3. /\ PairQty(q, p, 0) = TradeableQty(cost, depth, 0)
        /\ PairQty(q, p, MaxStake) = TradeableQty(cost, depth, MaxStake)
    BY DEF PairQty
  <2> HIDE DEF depth, cost
  <2> QED BY <2>1, <2>2, <2>3, SizeBounded
<1> QED BY <1>4, <1>5, <1>6

-----------------------------------------------------------------------------
(* The feed: what kinds of values it holds.                                 *)

Books == [Outcomes -> [quote : LegQuotes, age : 0..(MaxAge + 1)]]
FrameKinds == {Snapshot(levels) : levels \in Levels}
                \cup UNION {{Delta(side, price, change) :
                               price \in LadderPrices[side], change \in Int} : side \in Sides}
\* What adding the changes up may leave.
Ladders == [yes : [LadderPrices["yes"] -> Nat], no : [LadderPrices["no"] -> Nat]]
AllOffers == {OfferOf(q, p) : q \in GroupQuotes, p \in Outcomes \X Outcomes}

\* The types, with the kinds of the frames on the wire and of what is queued.
FeedKinds ==
  /\ resting \in Levels
  /\ polled \in BOOLEAN
  /\ connected \in BOOLEAN
  /\ frames \in Seq(FrameKinds) /\ Len(frames) <= MaxFrames
  /\ ladder \in Ladders
  /\ inHand \in {<<>>, <<"no">>, <<"yes", "no">>}
  /\ book \in Books
  /\ pushing \in BOOLEAN
  /\ unevaluated \in BOOLEAN
  /\ byHand \subseteq Sides
  /\ offers \subseteq AllOffers
  /\ listening \in BOOLEAN
  /\ queue \in Seq(AllOffers) /\ Len(queue) <= QueueMax
  /\ told \subseteq offers
  /\ missed \subseteq offers
  /\ ~listening => missed = {}

\* Ladders by side: lots at each price.
LEMMA BySide ==
  ASSUME NEW levels, NEW Y, NEW N
  PROVE  levels \in [yes : Y, no : N] <=> /\ levels = [side \in Sides |-> levels[side]]
                                          /\ levels["yes"] \in Y /\ levels["no"] \in N
BY DEF Sides

LEMMA LevelsBySide ==
  ASSUME NEW levels
  PROVE  /\ levels \in Levels <=>
              /\ levels = [side \in Sides |-> levels[side]]
              /\ \A side \in Sides : levels[side] \in [LadderPrices[side] -> 0..MaxLots]
         /\ levels \in Ladders <=>
              /\ levels = [side \in Sides |-> levels[side]]
              /\ \A side \in Sides : levels[side] \in [LadderPrices[side] -> Nat]
         /\ levels \in Levels => levels \in Ladders
<1>1. levels \in Levels <=>
        /\ levels = [side \in Sides |-> levels[side]]
        /\ levels["yes"] \in [LadderPrices["yes"] -> 0..MaxLots]
        /\ levels["no"] \in [LadderPrices["no"] -> 0..MaxLots]
  BY BySide DEF Levels
<1>2. levels \in Ladders <=>
        /\ levels = [side \in Sides |-> levels[side]]
        /\ levels["yes"] \in [LadderPrices["yes"] -> Nat]
        /\ levels["no"] \in [LadderPrices["no"] -> Nat]
  BY BySide DEF Ladders
<1>3. \A side \in Sides : side = "yes" \/ side = "no"
  BY DEF Sides
<1>4. "yes" \in Sides /\ "no" \in Sides
  BY DEF Sides
<1>5. \A side \in Sides : [LadderPrices[side] -> 0..MaxLots] \subseteq [LadderPrices[side] -> Nat]
  BY FeedAssumption
<1>6. levels \in Levels <=>
        /\ levels = [side \in Sides |-> levels[side]]
        /\ \A side \in Sides : levels[side] \in [LadderPrices[side] -> 0..MaxLots]
  BY <1>1, <1>3, <1>4
<1>7. levels \in Ladders <=>
        /\ levels = [side \in Sides |-> levels[side]]
        /\ \A side \in Sides : levels[side] \in [LadderPrices[side] -> Nat]
  BY <1>2, <1>3, <1>4
<1> QED BY <1>5, <1>6, <1>7

LEMMA QuoteKinds == AllQuotes = LegQuotes
<1>1. Unit \in Nat
  BY MarketAssumption
<1>2. NoQuote \in [ask : 0..(Unit + 1), size : Nat \cup {Unknown}]
  BY <1>1 DEF NoQuote, QuoteOf
<1>3. \A ask \in 0..Unit, size \in Nat \cup {Unknown} :
        QuoteOf(ask, size) \in [ask : 0..(Unit + 1), size : Nat \cup {Unknown}]
        /\ QuoteOf(ask, size).ask <= Unit
  BY <1>1 DEF QuoteOf
<1>4. \A q \in [ask : 0..(Unit + 1), size : Nat \cup {Unknown}] :
        q.ask <= Unit => \E ask \in 0..Unit, size \in Nat \cup {Unknown} : q = QuoteOf(ask, size)
  <2> TAKE q \in [ask : 0..(Unit + 1), size : Nat \cup {Unknown}]
  <2> HAVE q.ask <= Unit
  <2>1. q.ask \in 0..Unit /\ q.size \in Nat \cup {Unknown}
    BY <1>1
  <2>2. q = QuoteOf(q.ask, q.size)
    BY DEF QuoteOf
  <2> QED BY <2>1, <2>2
<1>5. AllQuotes \subseteq LegQuotes
  BY <1>4 DEF AllQuotes, LegQuotes
<1>6. LegQuotes \subseteq AllQuotes
  BY <1>2, <1>3 DEF AllQuotes, LegQuotes
<1> QED BY <1>5, <1>6

\* The best bid of a ladder that holds one is a bid of it.
LEMMA HighestIsHeld ==
  ASSUME NEW S \in SUBSET (1..(Unit - 1)), S # {}
  PROVE  Highest(S) \in S
<1>1. Unit \in Nat
  BY MarketAssumption
<1> DEFINE below == {Unit - x : x \in S}
<1>2. below \in SUBSET Nat /\ below # {}
  <2>1. \A x \in S : Unit - x \in Nat
    BY <1>1
  <2> QED BY <2>1
<1>3. Smallest(below) \in below /\ \A y \in below : Smallest(below) <= y
  BY <1>2, SmallestIsLeast
<1>4. PICK x \in S : Smallest(below) = Unit - x
  BY <1>3
<1>5. \A y \in S : Unit - x <= Unit - y
  BY <1>3, <1>4
<1>6. \A y \in S : y <= x
  BY <1>1, <1>5
<1> QED BY <1>6 DEF Highest

LEMMA KalshiQuoteKind ==
  ASSUME NEW side \in Sides, NEW levels \in Ladders
  PROVE  KalshiQuote(side, levels) \in LegQuotes
<1> DEFINE other == Opposite(side)
           bids == Bids(levels, other)
<1>1. other \in Sides
  BY DEF Opposite, Sides
<1>2. levels[other] \in [LadderPrices[other] -> Nat] /\ LadderPrices[other] \subseteq 1..(Unit - 1)
  <2> HIDE DEF other
  <2> QED BY <1>1, LevelsBySide, FeedAssumption
<1>3. bids \in SUBSET (1..(Unit - 1)) /\ bids \subseteq LadderPrices[other]
  BY <1>2 DEF Bids
<1>4. Unit \in Nat
  BY MarketAssumption
<1>5. KalshiQuote(side, levels) = IF bids = {} THEN QuoteOf(Unit, 0)
                                  ELSE QuoteOf(Unit - Highest(bids), levels[other][Highest(bids)])
  BY DEF KalshiQuote
<1> HIDE DEF bids, other
<1>6. CASE bids = {}
  BY <1>4, <1>5, <1>6 DEF LegQuotes
<1>7. CASE bids # {}
  <2>1. Highest(bids) \in bids
    BY <1>3, <1>7, HighestIsHeld
  <2>2. Unit - Highest(bids) \in 0..Unit
    <3>1. Highest(bids) \in 1..(Unit - 1)
      BY <1>3, <2>1
    <3>2. \A n \in 1..(Unit - 1) : Unit - n \in 0..Unit
      BY <1>4
    <3> QED BY <3>1, <3>2
  <2>3. levels[other][Highest(bids)] \in Nat
    BY <1>2, <1>3, <2>1
  <2> QED BY <1>5, <1>7, <2>2, <2>3 DEF LegQuotes
<1> QED BY <1>6, <1>7

LEMMA PmQuoteKind ==
  ASSUME NEW o \in Outcomes, NEW b \in PmBooks
  PROVE  PmQuote(o, b) \in LegQuotes
<1> DEFINE bid == IF b.bid = Missing THEN b.ask ELSE b.bid
           ask == IF b.ask = Missing THEN b.bid ELSE b.ask
           bidSize == IF b.bid = Missing THEN 0 ELSE b.bidSize
           askSize == IF b.ask = Missing THEN 0 ELSE b.askSize
<1>1. /\ b.bid \in 0..Unit \cup {Missing} /\ b.ask \in 0..Unit \cup {Missing}
      /\ b.bidSize \in Nat \cup {Unknown} /\ b.askSize \in Nat \cup {Unknown}
  BY FeedAssumption
<1>2. Unit \in Nat
  BY MarketAssumption
<1>3. bid # Missing => bid \in 0..Unit /\ ask \in 0..Unit
  BY <1>1
<1>4. bidSize \in Nat \cup {Unknown} /\ askSize \in Nat \cup {Unknown}
  BY <1>1
<1>5. PmQuote(o, b) = IF bid = Missing \/ bid > ask THEN NoQuote
                      ELSE IF IsYesSide[o] THEN QuoteOf(ask, askSize)
                      ELSE QuoteOf(Unit - bid, bidSize)
  BY DEF PmQuote
<1> HIDE DEF bid, ask, bidSize, askSize
<1>6. bid # Missing => Unit - bid \in 0..Unit
  BY <1>2, <1>3
<1> QED BY <1>3, <1>4, <1>5, <1>6 DEF LegQuotes

LEMMA UpsertedKind ==
  ASSUME book \in Books, NEW o \in Outcomes, NEW q \in LegQuotes, NEW age \in 0..(MaxAge + 1)
  PROVE  Upserted(o, q, age) \in Books
BY DEF Upserted, Books

LEMMA GetFromKind ==
  ASSUME NEW b \in Books
  PROVE  GetFrom(b) \in GroupQuotes
BY DEF GetFrom, GroupQuotes, Books, LegQuotes

\* What an evaluation finds is one offer for some of the group's pairs.
LEMMA FoundKind ==
  ASSUME NEW q \in GroupQuotes
  PROVE  /\ Offers(q, CrossVenueOnly) \subseteq AllOffers
         /\ IsFiniteSet(Offers(q, CrossVenueOnly))
<1> DEFINE Found == {p \in Outcomes \X Outcomes : OfferOf(q, p) \in Offers(q, CrossVenueOnly)}
<1>1. Detected(q) \subseteq Outcomes \X Outcomes
  BY DEF Detected, Executable, Pairs, CrossPairs
<1>2. \A v \in Venues : Complementary(q, v) \subseteq Outcomes \X Outcomes
  BY DEF Complementary, SameVenuePairs
<1>3. \A f \in Offers(q, CrossVenueOnly) : \E p \in Outcomes \X Outcomes : f = OfferOf(q, p)
  BY <1>1, <1>2 DEF Offers
<1>4. Offers(q, CrossVenueOnly) = {OfferOf(q, p) : p \in Found}
  BY <1>3
<1>5. IsFiniteSet(Outcomes \X Outcomes)
  BY LegsAssumption, FS_Product
<1>6. IsFiniteSet(Found)
  <2>1. Found \subseteq Outcomes \X Outcomes
    OBVIOUS
  <2> HIDE DEF Found
  <2> QED BY <1>5, <2>1, FS_Subset
<1>7. IsFiniteSet({OfferOf(q, p) : p \in Found})
  <2> DEFINE T == {OfferOf(q, p) : p \in Found}
             f == [p \in Found |-> OfferOf(q, p)]
  <2>1. f \in Surjection(Found, T)
    BY DEF Surjection
  <2> HIDE DEF Found, f
  <2> QED BY <1>6, <2>1, FS_Surjection
<1>8. Offers(q, CrossVenueOnly) \subseteq AllOffers
  BY <1>3 DEF AllOffers
<1> QED BY <1>4, <1>7, <1>8

-----------------------------------------------------------------------------
(* An evaluation.                                                           *)

\* What is sent goes behind what was queued: nothing queued is lost, all of
\* it is queued, and the queue stays within its limit.
LEMMA Queued ==
  ASSUME queue \in Seq(AllOffers), Len(queue) <= QueueMax,
         NEW news \in SUBSET AllOffers, IsFiniteSet(news),
         NEW sent \in RoomFor(news), NEW s \in Ordered(sent)
  PROVE  /\ queue \o s \in Seq(AllOffers)
         /\ Len(queue \o s) <= QueueMax
         /\ \A i \in DOMAIN queue : \E j \in DOMAIN (queue \o s) : (queue \o s)[j] = queue[i]
         /\ \A f \in sent : \E j \in DOMAIN (queue \o s) : (queue \o s)[j] = f
<1>1. sent \subseteq news /\ IsFiniteSet(sent)
  <2>1. sent \subseteq news
    BY DEF RoomFor
  <2> QED BY <2>1, FS_Subset
<1>2. Cardinality(sent) \in Nat /\ Cardinality(news) \in Nat
  BY <1>1, FS_CardinalityType
<1>3. Len(queue) + Cardinality(sent) <= QueueMax
  <2>1. QueueMax \in Nat /\ Len(queue) \in Nat
    BY FeedAssumption
  <2>2. Cardinality(sent) = IF Cardinality(news) <= QueueMax - Len(queue)
                            THEN Cardinality(news) ELSE QueueMax - Len(queue)
    BY DEF RoomFor
  <2> QED BY <1>2, <2>1, <2>2
<1>4. s \in [1..Cardinality(sent) -> sent] /\ \A f \in sent : \E i \in DOMAIN s : s[i] = f
  BY DEF Ordered
<1>5. s \in Seq(AllOffers) /\ Len(s) = Cardinality(sent) /\ DOMAIN s = 1..Cardinality(sent)
  <2>1. s \in [1..Cardinality(sent) -> AllOffers]
    BY <1>1, <1>4
  <2> QED BY <1>2, <2>1
<1>6. /\ queue \o s \in Seq(AllOffers)
      /\ Len(queue \o s) = Len(queue) + Len(s)
      /\ DOMAIN (queue \o s) = 1..(Len(queue) + Len(s))
  BY <1>5
<1>7. \A i \in 1..Len(queue) : (queue \o s)[i] = queue[i]
  BY <1>5
<1>8. \A i \in 1..Len(s) : (queue \o s)[Len(queue) + i] = s[i]
  BY <1>5
<1>9. \A i \in DOMAIN queue : i \in DOMAIN (queue \o s) /\ (queue \o s)[i] = queue[i]
  BY <1>5, <1>6, <1>7
<1>10. \A i \in DOMAIN s : Len(queue) + i \in DOMAIN (queue \o s)
                           /\ (queue \o s)[Len(queue) + i] = s[i]
  BY <1>5, <1>6, <1>8
<1> QED BY <1>3, <1>4, <1>5, <1>6, <1>9, <1>10

Heard(offer) == \/ \E i \in DOMAIN queue : queue[i] = offer
                \/ offer \in told
                \/ offer \in missed

LEMMA OffersHeardIs == OffersHeard <=> (listening => \A offer \in offers : Heard(offer))
BY DEF OffersHeard, Heard

\* The group's offers are what the detector finds in the new book, and the
\* subscriber has been told of them, is about to be, or had no room.
LEMMA Evaluated ==
  ASSUME FeedKinds, NEW newBook \in Books, Evaluate(newBook)
  PROVE  /\ book' = newBook /\ ~unevaluated' /\ unevaluated' \in BOOLEAN
         /\ offers' = Offers(GetFrom(newBook), CrossVenueOnly)
         /\ offers' \subseteq AllOffers
         /\ listening' \in BOOLEAN
         /\ queue' \in Seq(AllOffers) /\ Len(queue') <= QueueMax
         /\ told' \subseteq offers'
         /\ missed' \subseteq offers'
         /\ ~listening' => missed' = {}
         /\ OffersHeard => OffersHeard'
<1> DEFINE found == Offers(GetFrom(newBook), CrossVenueOnly)
           news == News(found)
<1>1. found \subseteq AllOffers /\ IsFiniteSet(found)
  BY GetFromKind, FoundKind
<1>2. /\ book' = newBook /\ unevaluated' = FALSE /\ offers' = found
      /\ told' = told \cap found /\ listening' = listening
  BY DEF Evaluate, LiveAfter
<1>3. news = found \ offers
  BY DEF News
<1> HIDE DEF found
<1>4. news \subseteq AllOffers /\ IsFiniteSet(news)
  BY <1>1, <1>3, FS_Subset
<1>5. CASE listening
  <2>1. PICK sent \in RoomFor(news) :
          /\ \E s \in Ordered(sent) : queue' = queue \o s
          /\ missed' = (missed \cap found) \cup (news \ sent)
    BY <1>5 DEF Evaluate, found
  <2>2. PICK s \in Ordered(sent) : queue' = queue \o s
    BY <2>1
  <2> HIDE DEF news
  <2>3. /\ queue' \in Seq(AllOffers) /\ Len(queue') <= QueueMax
        /\ \A i \in DOMAIN queue : \E j \in DOMAIN queue' : queue'[j] = queue[i]
        /\ \A f \in sent : \E j \in DOMAIN queue' : queue'[j] = f
    <3>1. queue \in Seq(AllOffers) /\ Len(queue) <= QueueMax
      BY DEF FeedKinds
    <3> QED BY <1>4, <2>2, <3>1, Queued
  <2>4. missed' \subseteq offers'
    BY <1>2, <1>3, <2>1
  <2>5. ASSUME OffersHeard
        PROVE  OffersHeard'
    <3>1. SUFFICES ASSUME NEW f \in found
                   PROVE  Heard(f)'
      BY <1>2, OffersHeardIs DEF OffersHeard, Heard
    <3>2. CASE f \in offers
      <4>1. Heard(f)
        BY <1>5, <2>5, <3>2, OffersHeardIs
      <4> QED BY <1>2, <2>1, <2>3, <3>1, <4>1 DEF Heard
    <3>3. CASE f \in sent
      BY <2>3, <3>3 DEF Heard
    <3>4. CASE f \in news \ sent
      BY <2>1, <3>4 DEF Heard
    <3> QED BY <1>3, <3>1, <3>2, <3>3, <3>4
  <2>6. listening \in BOOLEAN /\ told' \subseteq offers'
    BY <1>2 DEF FeedKinds
  <2> QED BY <1>1, <1>2, <1>5, <2>3, <2>4, <2>5, <2>6 DEF found
<1>6. CASE ~listening
  <2>1. queue' = queue /\ missed' = missed
    BY <1>6 DEF Evaluate
  <2>2. missed = {}
    BY <1>6 DEF FeedKinds
  <2>3. queue \in Seq(AllOffers) /\ Len(queue) <= QueueMax /\ listening \in BOOLEAN
    BY DEF FeedKinds
  <2>4. OffersHeard'
    BY <1>2, <1>6 DEF OffersHeard
  <2>5. told' \subseteq offers'
    BY <1>2
  <2> QED BY <1>1, <1>2, <1>6, <2>1, <2>2, <2>3, <2>4, <2>5 DEF found
<1> QED BY <1>5, <1>6

-----------------------------------------------------------------------------
(* Every step keeps the kinds.                                              *)

LEMMA EmptyKind == EmptyLadder \in Levels /\ EmptyLadder \in Ladders
<1>1. EmptyLadder = [side \in Sides |-> EmptyLadder[side]]
  BY DEF EmptyLadder
<1>2. \A side \in Sides : EmptyLadder[side] \in [LadderPrices[side] -> 0..MaxLots]
  BY FeedAssumption DEF EmptyLadder
<1> QED BY <1>1, <1>2, LevelsBySide

LEMMA FeedKindsInit == FeedInit => FeedKinds
<1> SUFFICES ASSUME FeedInit PROVE FeedKinds
  OBVIOUS
<1>1. EmptyLadder \in Ladders
  BY EmptyKind
<1>2. [o \in Outcomes |-> NoEntry] \in Books
  BY FeedAssumption DEF Books, NoEntry, LegQuotes
<1>3. \A T : <<>> \in Seq(T) /\ Len(<<>>) = 0
  OBVIOUS
<1>4. Len(frames) <= MaxFrames /\ Len(queue) <= QueueMax
  BY <1>3, FeedAssumption DEF FeedInit
<1> QED BY <1>1, <1>2, <1>3, <1>4 DEF FeedInit, FeedKinds

\* The changes of the book that an evaluation follows.
LEMMA EvaluatedKinds ==
  ASSUME FeedKinds, NEW newBook \in Books, Evaluate(newBook),
         UNCHANGED <<resting, polled, connected, frames, ladder>>,
         inHand' \in {<<>>, <<"no">>, <<"yes", "no">>}, pushing' \in BOOLEAN,
         byHand' \subseteq Sides
  PROVE  FeedKinds'
<1>1. /\ book' = newBook /\ unevaluated' \in BOOLEAN
      /\ offers' \subseteq AllOffers /\ listening' \in BOOLEAN
      /\ queue' \in Seq(AllOffers) /\ Len(queue') <= QueueMax
      /\ told' \subseteq offers' /\ missed' \subseteq offers' /\ (~listening' => missed' = {})
  BY Evaluated
<1>2. /\ resting' \in Levels /\ polled' \in BOOLEAN /\ connected' \in BOOLEAN
      /\ frames' \in Seq(FrameKinds) /\ Len(frames') <= MaxFrames /\ ladder' \in Ladders
  BY DEF FeedKinds
<1> QED BY <1>1, <1>2 DEF FeedKinds

LEMMA KalshiLegKind ==
  ASSUME NEW side \in Sides
  PROVE  KalshiLeg[side] \in Outcomes /\ VenueOf[KalshiLeg[side]] = Kalshi
         /\ IsYesSide[KalshiLeg[side]] = (side = "yes")
<1>1. \E o \in Outcomes : VenueOf[o] = Kalshi /\ IsYesSide[o] = (side = "yes")
  BY LegsAssumption
<1>2. KalshiLeg[side] =
        CHOOSE o \in Outcomes : VenueOf[o] = Kalshi /\ IsYesSide[o] = (side = "yes")
  BY DEF KalshiLeg
<1> HIDE DEF KalshiLeg
<1> QED BY <1>1, <1>2

LEMMA PushedKind ==
  ASSUME NEW o \in Outcomes, NEW q \in PushedQuotes[o]
  PROVE  q \in LegQuotes
<1>1. q \in [ask : 0..Unit, size : Nat \cup {Unknown}]
  BY FeedAssumption
<1>2. q = QuoteOf(q.ask, q.size) /\ q.ask \in 0..Unit /\ q.size \in Nat \cup {Unknown}
  BY <1>1 DEF QuoteOf
<1> QED BY <1>2 DEF LegQuotes

LEMMA HeadKind ==
  ASSUME frames \in Seq(FrameKinds), frames # <<>>
  PROVE  /\ Head(frames) \in FrameKinds
         /\ Tail(frames) \in Seq(FrameKinds)
         /\ Len(Tail(frames)) = Len(frames) - 1
OBVIOUS

\* A frame is a snapshot of the venue's levels or the change of one of them.
LEMMA FrameIs ==
  ASSUME NEW frame \in FrameKinds
  PROVE  \/ frame.type = "snapshot" /\ frame.levels \in Levels
         \/ /\ frame.type = "delta" /\ frame.side \in Sides
            /\ frame.price \in LadderPrices[frame.side] /\ frame.change \in Int
BY DEF FrameKinds, Snapshot, Delta

\* What a frame leaves at a level.
LEMMA AppliedIs ==
  ASSUME ladder \in Ladders, NEW frame \in FrameKinds, NEW s \in Sides,
         NEW p \in LadderPrices[s]
  PROVE  /\ frame.type = "snapshot" => Applied(frame)[s][p] = frame.levels[s][p]
         /\ frame.type # "snapshot" /\ frame.side = s /\ frame.price = p =>
              LET lots == ladder[s][p] + frame.change
              IN  Applied(frame)[s][p] = IF lots <= 0 THEN 0 ELSE lots
         /\ frame.type # "snapshot" /\ ~(frame.side = s /\ frame.price = p) =>
              Applied(frame)[s][p] = ladder[s][p]
<1>1. CASE frame.type = "snapshot"
  BY <1>1 DEF Applied
<1>2. CASE frame.type = "delta"
  <2>1. /\ frame.side \in Sides /\ frame.price \in LadderPrices[frame.side]
        /\ frame.change \in Int
    BY <1>2, FrameIs
  <2>2. ladder = [x \in Sides |-> ladder[x]]
        /\ \A x \in Sides : ladder[x] \in [LadderPrices[x] -> Nat]
    BY LevelsBySide
  <2> DEFINE lots == ladder[frame.side][frame.price] + frame.change
             left == IF lots <= 0 THEN 0 ELSE lots
  <2>3. Applied(frame) = [ladder EXCEPT ![frame.side][frame.price] = left]
    BY <1>2 DEF Applied, ChangedBy
  <2> HIDE DEF left
  <2>4. Applied(frame)[s] = IF frame.side = s THEN [ladder[s] EXCEPT ![frame.price] = left]
                            ELSE ladder[s]
    BY <2>1, <2>2, <2>3
  <2>5. Applied(frame)[s][p] = IF frame.side = s /\ frame.price = p THEN left ELSE ladder[s][p]
    BY <2>1, <2>2, <2>4
  <2> QED BY <1>2, <2>5 DEF left
<1> QED BY <1>1, <1>2, FrameIs

LEMMA AppliedKind ==
  ASSUME ladder \in Ladders, NEW frame \in FrameKinds
  PROVE  Applied(frame) \in Ladders
<1>1. CASE frame.type = "snapshot"
  BY <1>1, FrameIs, LevelsBySide DEF Applied
<1>2. CASE frame.type = "delta"
  <2>1. /\ frame.side \in Sides /\ frame.price \in LadderPrices[frame.side]
        /\ frame.change \in Int
    BY <1>2, FrameIs
  <2>2. ladder = [x \in Sides |-> ladder[x]]
        /\ \A x \in Sides : ladder[x] \in [LadderPrices[x] -> Nat]
    BY LevelsBySide
  <2> DEFINE lots == ladder[frame.side][frame.price] + frame.change
             left == IF lots <= 0 THEN 0 ELSE lots
             applied == [ladder EXCEPT ![frame.side][frame.price] = left]
  <2>3. Applied(frame) = applied
    BY <1>2 DEF Applied, ChangedBy
  <2>4. left \in Nat
    <3>1. ladder[frame.side][frame.price] \in Nat
      BY <2>1, <2>2
    <3> QED BY <2>1, <3>1
  <2> HIDE DEF left
  <2>5. applied = [x \in Sides |-> applied[x]]
    BY <2>1, <2>2
  <2>6. \A x \in Sides : applied[x] \in [LadderPrices[x] -> Nat]
    BY <2>1, <2>2, <2>4
  <2> HIDE DEF applied
  <2>7. applied \in Ladders
    BY <2>5, <2>6, LevelsBySide
  <2> QED BY <2>3, <2>7
<1> QED BY <1>1, <1>2, FrameIs

\* One level moves at the venue.
LEMMA MovedKind ==
  ASSUME resting \in Levels, NEW side \in Sides, NEW price \in LadderPrices[side],
         NEW left \in 0..MaxLots
  PROVE  /\ [resting EXCEPT ![side][price] = left] \in Levels
         /\ \A s \in Sides : \A p \in LadderPrices[s] :
              [resting EXCEPT ![side][price] = left][s][p]
                = IF s = side /\ p = price THEN left ELSE resting[s][p]
<1> DEFINE moved == [resting EXCEPT ![side][price] = left]
<1>1. resting = [x \in Sides |-> resting[x]]
      /\ \A x \in Sides : resting[x] \in [LadderPrices[x] -> 0..MaxLots]
  BY LevelsBySide
<1>2. \A x \in Sides : moved[x] = IF x = side THEN [resting[x] EXCEPT ![price] = left]
                                   ELSE resting[x]
  BY <1>1
<1>3. moved = [x \in Sides |-> moved[x]]
  BY <1>1
<1> HIDE DEF moved
<1>4. \A x \in Sides : moved[x] \in [LadderPrices[x] -> 0..MaxLots]
  BY <1>1, <1>2
<1>5. moved \in Levels
  BY <1>3, <1>4, LevelsBySide
<1>6. \A s \in Sides : \A p \in LadderPrices[s] :
        moved[s][p] = IF s = side /\ p = price THEN left ELSE resting[s][p]
  BY <1>1, <1>2
<1> QED BY <1>5, <1>6 DEF moved

LEMMA FeedKindsStep == FeedKinds /\ [FeedNext]_feedVars => FeedKinds'
<1> SUFFICES ASSUME FeedKinds, [FeedNext]_feedVars
             PROVE  FeedKinds'
  OBVIOUS
<1>a. book \in Books
  BY DEF FeedKinds
<1>1. CASE UNCHANGED feedVars
  BY <1>1 DEF feedVars, socket, push, subscriber, FeedKinds
<1>2. ASSUME NEW side \in Sides, NEW price \in LadderPrices[side], NEW left \in 0..MaxLots,
             VenueMoves(side, price, left)
      PROVE  FeedKinds'
  <2> DEFINE change == left - resting[side][price]
  <2>1. resting' \in Levels
    BY <1>2, MovedKind DEF VenueMoves, FeedKinds
  <2>2. change \in Int
    <3>1. resting[side][price] \in 0..MaxLots
      BY LevelsBySide DEF FeedKinds
    <3> QED BY <3>1, FeedAssumption
  <2>3. frames' = IF connected THEN Append(frames, Delta(side, price, change)) ELSE frames
    BY <1>2 DEF VenueMoves
  <2> HIDE DEF change
  <2>4. frames' \in Seq(FrameKinds) /\ Len(frames') <= MaxFrames
    <3>1. frames \in Seq(FrameKinds) /\ Len(frames) <= MaxFrames
      BY DEF FeedKinds
    <3>2. CASE connected
      <4>1. Delta(side, price, change) \in FrameKinds
        <5>1. Delta(side, price, change)
                \in {Delta(side, p, c) : p \in LadderPrices[side], c \in Int}
          BY <2>2
        <5> QED BY <5>1 DEF FrameKinds
      <4>2. Len(frames) < MaxFrames
        BY <1>2, <3>2 DEF VenueMoves
      <4>3. MaxFrames \in Nat
        BY FeedAssumption
      <4> QED BY <2>3, <3>1, <3>2, <4>1, <4>2, <4>3
    <3>3. CASE ~connected
      BY <2>3, <3>1, <3>3
    <3> QED BY <3>2, <3>3
  <2> QED BY <1>2, <2>1, <2>4 DEF VenueMoves, push, subscriber, FeedKinds
<1>3. CASE Connect
  <2>1. resting \in Levels /\ MaxFrames \in Nat \ {0}
    BY FeedAssumption DEF FeedKinds
  <2>2. Snapshot(resting) \in FrameKinds
    BY <2>1 DEF FrameKinds
  <2>3. frames' \in Seq(FrameKinds) /\ Len(frames') = 1
    BY <1>3, <2>2 DEF Connect
  <2>4. Len(frames') <= MaxFrames
    BY <2>1, <2>3
  <2> QED BY <1>3, <2>3, <2>4 DEF Connect, push, subscriber, FeedKinds
<1>4. CASE Disconnect \/ RestartFeed
  <2>1. frames' = <<>>
    BY <1>4 DEF Disconnect, RestartFeed
  <2>2. frames' \in Seq(FrameKinds) /\ Len(frames') <= MaxFrames
    BY <2>1, FeedAssumption
  <2>3. EmptyLadder \in Ladders
    BY EmptyKind
  <2> QED BY <1>4, <2>2, <2>3 DEF Disconnect, RestartFeed, push, subscriber, FeedKinds
<1>5. CASE ReadFrame
  <2>1. frames \in Seq(FrameKinds) /\ frames # <<>> /\ Len(frames) <= MaxFrames
    BY <1>5 DEF ReadFrame, FeedKinds
  <2>2. /\ Head(frames) \in FrameKinds /\ Tail(frames) \in Seq(FrameKinds)
        /\ Len(Tail(frames)) = Len(frames) - 1
    BY <2>1, HeadKind
  <2>3. ladder' \in Ladders
    BY <1>5, <2>2, AppliedKind DEF ReadFrame, FeedKinds
  <2>4. Len(frames) \in Nat /\ MaxFrames \in Nat
    BY <2>1, FeedAssumption
  <2>5. frames' \in Seq(FrameKinds) /\ Len(frames') <= MaxFrames
    BY <1>5, <2>1, <2>2, <2>4 DEF ReadFrame
  <2> QED BY <1>5, <2>3, <2>5 DEF ReadFrame, push, subscriber, FeedKinds
<1>6. CASE PumpQuote
  <2>1. inHand \in {<<"no">>, <<"yes", "no">>}
    BY <1>6 DEF PumpQuote, FeedKinds
  <2>2. Head(inHand) \in Sides /\ inHand' \in {<<>>, <<"no">>, <<"yes", "no">>}
    <3>1. inHand' = Tail(inHand)
      BY <1>6 DEF PumpQuote
    <3>2. CASE inHand = <<"no">>
      <4>1. Head(inHand) = "no" /\ Tail(inHand) = <<>>
        BY <3>2
      <4> QED BY <3>1, <4>1 DEF Sides
    <3>3. CASE inHand = <<"yes", "no">>
      <4>1. Head(inHand) = "yes" /\ Tail(inHand) = <<"no">>
        BY <3>3
      <4> QED BY <3>1, <4>1 DEF Sides
    <3> QED BY <2>1, <3>2, <3>3
  <2>3. KalshiLeg[Head(inHand)] \in Outcomes
    BY <2>2, KalshiLegKind
  <2>4. KalshiQuote(Head(inHand), ladder) \in LegQuotes
    BY <2>2, KalshiQuoteKind DEF FeedKinds
  <2>5. 0 \in 0..(MaxAge + 1)
    BY FeedAssumption
  <2>6. Upserted(KalshiLeg[Head(inHand)], KalshiQuote(Head(inHand), ladder), 0) \in Books
    BY <1>a, <2>3, <2>4, <2>5, UpsertedKind
  <2>7. /\ Evaluate(Upserted(KalshiLeg[Head(inHand)], KalshiQuote(Head(inHand), ladder), 0))
        /\ UNCHANGED <<resting, polled, connected, frames, ladder>>
        /\ pushing' \in BOOLEAN /\ byHand' \subseteq Sides
    BY <1>6 DEF PumpQuote, FeedKinds
  <2> QED BY <2>2, <2>6, <2>7, EvaluatedKinds
<1>7. ASSUME NEW side \in Sides, PollKalshi(side)
      PROVE  FeedKinds'
  <2>1. KalshiLeg[side] \in Outcomes /\ KalshiQuote(side, resting) \in LegQuotes
    BY KalshiLegKind, KalshiQuoteKind, LevelsBySide DEF FeedKinds
  <2>2. 0 \in 0..(MaxAge + 1)
    BY FeedAssumption
  <2>3. Upserted(KalshiLeg[side], KalshiQuote(side, resting), 0) \in Books
    BY <1>a, <2>1, <2>2, UpsertedKind
  <2>4. /\ Evaluate(Upserted(KalshiLeg[side], KalshiQuote(side, resting), 0))
        /\ UNCHANGED <<resting, polled, connected, frames, ladder>>
        /\ inHand' \in {<<>>, <<"no">>, <<"yes", "no">>} /\ pushing' \in BOOLEAN
        /\ byHand' \subseteq Sides
    BY <1>7 DEF PollKalshi, socket, FeedKinds
  <2> QED BY <2>3, <2>4, EvaluatedKinds
<1>8. ASSUME NEW o \in PmLegs, QuoteArrives(o)
      PROVE  FeedKinds'
  <2>1. PICK b \in PmBooks, age \in SourceAges : Evaluate(Upserted(o, PmQuote(o, b), age))
    BY <1>8 DEF QuoteArrives
  <2>2. o \in Outcomes /\ age \in 0..(MaxAge + 1)
    BY FeedAssumption DEF PmLegs
  <2>3. Upserted(o, PmQuote(o, b), age) \in Books
    BY <1>a, <2>2, PmQuoteKind, UpsertedKind
  <2>4. /\ UNCHANGED <<resting, polled, connected, frames, ladder>>
        /\ inHand' \in {<<>>, <<"no">>, <<"yes", "no">>} /\ pushing' \in BOOLEAN
        /\ byHand' \subseteq Sides
    BY <1>8 DEF QuoteArrives, socket, FeedKinds
  <2> QED BY <2>1, <2>3, <2>4, EvaluatedKinds
<1>9. ASSUME NEW o \in Outcomes, PushQuote(o)
      PROVE  FeedKinds'
  <2>1. PICK q \in PushedQuotes[o] : book' = Upserted(o, q, 0)
    BY <1>9 DEF PushQuote
  <2>2. q \in LegQuotes
    BY PushedKind
  <2>3. 0 \in 0..(MaxAge + 1)
    BY FeedAssumption
  <2>4. book' \in Books
    BY <1>a, <2>1, <2>2, <2>3, UpsertedKind
  <2>5. byHand' \subseteq Sides
    BY <1>9 DEF PushQuote, FeedKinds
  <2> QED BY <1>9, <2>4, <2>5 DEF PushQuote, socket, subscriber, FeedKinds
<1>10. CASE PushRecorded
  <2>1. /\ Evaluate(book)
        /\ UNCHANGED <<resting, polled, connected, frames, ladder>>
        /\ inHand' \in {<<>>, <<"no">>, <<"yes", "no">>} /\ pushing' \in BOOLEAN
        /\ byHand' \subseteq Sides
    BY <1>10 DEF PushRecorded, socket, FeedKinds
  <2> QED BY <1>a, <2>1, EvaluatedKinds
<1>11. CASE PushFails
  BY <1>11 DEF PushFails, socket, subscriber, FeedKinds
<1>12. CASE Ages
  <2>1. MaxAge \in Nat
    BY FeedAssumption
  <2>2. \A o \in Outcomes : book[o].age \in 0..(MaxAge + 1) /\ book[o].quote \in LegQuotes
                            /\ book[o] \in [quote : LegQuotes, age : 0..(MaxAge + 1)]
    BY <1>a DEF Books
  <2>3. \A x \in 0..(MaxAge + 1) : (IF x <= MaxAge THEN x + 1 ELSE x) \in 0..(MaxAge + 1)
    BY <2>1
  <2>4. book' = [o \in Outcomes |->
                   [book[o] EXCEPT !.age = IF @ <= MaxAge THEN @ + 1 ELSE @]]
    BY <1>12 DEF Ages
  <2>5. \A o \in Outcomes : book'[o] \in [quote : LegQuotes, age : 0..(MaxAge + 1)]
    BY <2>2, <2>3, <2>4
  <2>6. book' \in Books
    BY <2>4, <2>5 DEF Books
  <2> QED BY <1>12, <2>6 DEF Ages, socket, push, subscriber, FeedKinds
<1>13. CASE Subscribe \/ Unsubscribe
  <2>1. queue' = <<>>
    BY <1>13 DEF Subscribe, Unsubscribe
  <2>2. queue' \in Seq(AllOffers) /\ Len(queue') <= QueueMax
    BY <2>1, FeedAssumption
  <2> QED BY <1>13, <2>2 DEF Subscribe, Unsubscribe, socket, push, FeedKinds
<1>14. CASE Deliver
  <2>1. queue \in Seq(AllOffers) /\ queue # <<>> /\ Len(queue) <= QueueMax /\ QueueMax \in Nat
    BY <1>14, FeedAssumption DEF Deliver, FeedKinds
  <2>2. queue' \in Seq(AllOffers) /\ Len(queue') = Len(queue) - 1 /\ Len(queue) \in Nat
    BY <1>14, <2>1 DEF Deliver
  <2>3. Len(queue') <= QueueMax
    BY <2>1, <2>2
  <2>4. told' \subseteq offers'
    BY <1>14 DEF Deliver, FeedKinds
  <2> QED BY <1>14, <2>2, <2>3, <2>4 DEF Deliver, socket, push, FeedKinds
<1> QED BY <1>1, <1>2, <1>3, <1>4, <1>5, <1>6, <1>7, <1>8, <1>9, <1>10, <1>11, <1>12, <1>13,
           <1>14 DEF FeedNext

-----------------------------------------------------------------------------
(* Quotes that go stale.                                                    *)

LEMMA ProfitKind ==
  ASSUME NEW q \in GroupQuotes, NEW p \in Executable(q)
  PROVE  /\ p \in Pairs(q) /\ p \in Outcomes \X Outcomes
         /\ GuaranteedProfit(q, p) \in Int
<1>1. p \in Pairs(q) /\ p \in Outcomes \X Outcomes
  BY DEF Executable, Pairs, CrossPairs
<1>2. NetEdge(q, p) \in Int /\ PairQty(q, p, MaxStake) \in Int
  BY <1>1, PairTypes
<1>3. \A x, y \in Int : x * y \in Int
  OBVIOUS
<1>4. NetProfit(q, p) \in Int
  BY <1>2, <1>3 DEF NetProfit
<1> QED BY <1>1, <1>4, ProfitIsEdgeTimesSize

\* The loops meet one pair before the other.
LEMMA EarlierOrders ==
  /\ \A p, r \in Outcomes \X Outcomes : p = r \/ Earlier(p, r) \/ Earlier(r, p)
  /\ \A p, r, s \in Outcomes \X Outcomes : Earlier(p, r) /\ Earlier(r, s) => Earlier(p, s)
<1>1. /\ \A o \in Outcomes : Position[o] \in Nat
      /\ \A o, x \in Outcomes : Position[o] = Position[x] => o = x
  BY MarketAssumption
<1>2. ASSUME NEW p \in Outcomes \X Outcomes, NEW r \in Outcomes \X Outcomes
      PROVE  p = r \/ Earlier(p, r) \/ Earlier(r, p)
  <2>1. Position[p[1]] # Position[r[1]] => Earlier(p, r) \/ Earlier(r, p)
    BY <1>1 DEF Earlier
  <2>2. Position[p[2]] # Position[r[2]] /\ p[1] = r[1] => Earlier(p, r) \/ Earlier(r, p)
    BY <1>1 DEF Earlier
  <2> QED BY <1>1, <2>1, <2>2
<1>3. ASSUME NEW p \in Outcomes \X Outcomes, NEW r \in Outcomes \X Outcomes,
             NEW s \in Outcomes \X Outcomes, Earlier(p, r), Earlier(r, s)
      PROVE  Earlier(p, s)
  BY <1>1, <1>3 DEF Earlier
<1> QED BY <1>2, <1>3

\* The detector's preference.
Beats(q, r, p) == \/ GuaranteedProfit(q, r) > GuaranteedProfit(q, p)
                  \/ GuaranteedProfit(q, r) = GuaranteedProfit(q, p) /\ Earlier(r, p)

LEMMA BeatsOrders ==
  ASSUME NEW q \in GroupQuotes
  PROVE  /\ \A p \in Executable(q) : ~Beats(q, p, p)
         /\ \A p, r \in Executable(q) : p = r \/ Beats(q, p, r) \/ Beats(q, r, p)
         /\ \A p, r, s \in Executable(q) : Beats(q, p, r) /\ Beats(q, r, s) => Beats(q, p, s)
<1>1. \A p \in Executable(q) : GuaranteedProfit(q, p) \in Int /\ p \in Outcomes \X Outcomes
  BY ProfitKind
<1>2. ASSUME NEW p \in Executable(q)
      PROVE  ~Beats(q, p, p)
  <2>1. ~Earlier(p, p)
    BY <1>1, EarlierIsAsymmetric
  <2> QED BY <1>1, <2>1 DEF Beats
<1>3. ASSUME NEW p \in Executable(q), NEW r \in Executable(q)
      PROVE  p = r \/ Beats(q, p, r) \/ Beats(q, r, p)
  <2>1. p = r \/ Earlier(p, r) \/ Earlier(r, p)
    BY <1>1, EarlierOrders
  <2> QED BY <1>1, <2>1 DEF Beats
<1>4. ASSUME NEW p \in Executable(q), NEW r \in Executable(q), NEW s \in Executable(q),
             Beats(q, p, r), Beats(q, r, s)
      PROVE  Beats(q, p, s)
  <2>1. Earlier(p, r) /\ Earlier(r, s) => Earlier(p, s)
    BY <1>1, EarlierOrders
  <2> QED BY <1>1, <1>4, <2>1 DEF Beats
<1> QED BY <1>2, <1>3, <1>4

\* A group with an executable pair has an opportunity: among finitely many
\* pairs one is beaten by none, the one that the fewest others beat.
LEMMA BestExists ==
  ASSUME NEW q \in GroupQuotes, Executable(q) # {}
  PROVE  Detected(q) # {}
<1> DEFINE S == Executable(q)
           Better(p) == {r \in S : Beats(q, r, p)}
           counts == {Cardinality(Better(p)) : p \in S}
<1>1. IsFiniteSet(S)
  <2>1. IsFiniteSet(Outcomes \X Outcomes)
    BY LegsAssumption, FS_Product
  <2>2. S \subseteq Outcomes \X Outcomes
    BY ProfitKind
  <2> HIDE DEF S
  <2> QED BY <2>1, <2>2, FS_Subset
<1>2. \A p \in S : IsFiniteSet(Better(p)) /\ Cardinality(Better(p)) \in Nat
  <2>1. \A p \in S : Better(p) \subseteq S
    OBVIOUS
  <2> HIDE DEF Better, S
  <2> QED BY <1>1, <2>1, FS_Subset, FS_CardinalityType
<1>3. PICK p \in S : \A r \in S : Cardinality(Better(p)) <= Cardinality(Better(r))
  <2>1. counts \in SUBSET Nat /\ counts # {}
    BY <1>2
  <2>2. Smallest(counts) \in counts /\ \A n \in counts : Smallest(counts) <= n
    BY <2>1, SmallestIsLeast
  <2>3. \A r \in S : Cardinality(Better(r)) \in counts
    OBVIOUS
  <2>4. \E p \in S : Smallest(counts) = Cardinality(Better(p))
    BY <2>2
  <2> HIDE DEF counts
  <2> QED BY <2>2, <2>3, <2>4
<1>4. \A r \in S : ~Beats(q, r, p)
  <2> SUFFICES ASSUME NEW r \in S, Beats(q, r, p)
               PROVE  FALSE
    OBVIOUS
  <2>1. Better(r) \subseteq Better(p) /\ Better(r) # Better(p)
    <3>1. r \in Better(p) /\ r \notin Better(r)
      BY BeatsOrders
    <3>2. \A s \in S : Beats(q, s, r) => Beats(q, s, p)
      BY BeatsOrders
    <3> QED BY <3>1, <3>2
  <2> HIDE DEF Better, S
  <2>2. Cardinality(Better(r)) < Cardinality(Better(p))
    BY <1>2, <2>1, FS_Subset
  <2>3. Cardinality(Better(p)) <= Cardinality(Better(r))
    BY <1>3
  <2> QED BY <1>2, <2>2, <2>3
<1>5. \A r \in S \ {p} : Beats(q, p, r)
  BY <1>4, BeatsOrders
<1>6. \A r \in S : GuaranteedProfit(q, r) \in Int
  BY ProfitKind
<1>7. p \in Detected(q)
  BY <1>5, <1>6 DEF Detected, Beats
<1> QED BY <1>7

LEMMA DetectedIsOne ==
  ASSUME NEW q \in GroupQuotes, NEW p \in Detected(q), NEW r \in Detected(q)
  PROVE  p = r
BY DetectedIsRanked, RankedIsOne

\* What a pair is worth is a matter of its own legs' quotes.
SameLegs(q, r, p) == r[p[1]] = q[p[1]] /\ r[p[2]] = q[p[2]]
LEMMA SameWorth ==
  ASSUME NEW q, NEW r, NEW p, SameLegs(q, r, p)
  PROVE  /\ NetEdge(r, p) = NetEdge(q, p)
         /\ PairQty(r, p, MaxStake) = PairQty(q, p, MaxStake)
         /\ GuaranteedProfit(r, p) = GuaranteedProfit(q, p)
         /\ OfferOf(r, p) = OfferOf(q, p)
<1>1. PairCost(r, p) = PairCost(q, p)
  BY DEF SameLegs, PairCost
<1>2. NetEdge(r, p) = NetEdge(q, p)
  BY <1>1 DEF NetEdge
<1>3. PairQty(r, p, MaxStake) = PairQty(q, p, MaxStake)
  BY <1>1 DEF SameLegs, PairQty
<1>4. GuaranteedProfit(r, p) = GuaranteedProfit(q, p)
  BY <1>3 DEF SameLegs, GuaranteedProfit
<1>5. OfferOf(r, p) = OfferOf(q, p)
  BY <1>3 DEF SameLegs, OfferOf
<1> QED BY <1>2, <1>3, <1>4, <1>5

\* `r` is `q` with some quotes withheld.
Withheld(q, r) == \A o \in Outcomes : r[o] = q[o] \/ r[o] = NoQuote

LEMMA WithheldPairs ==
  ASSUME NEW q \in GroupQuotes, NEW r \in GroupQuotes, Withheld(q, r)
  PROVE  /\ \A p \in Executable(r) : SameLegs(q, r, p) /\ p \in Executable(q)
         /\ \A p \in Executable(q) : SameLegs(q, r, p) => p \in Executable(r)
         /\ \A v \in Venues : \A p \in Complementary(r, v) :
              SameLegs(q, r, p) /\ p \in Complementary(q, v)
         /\ \A v \in Venues : \A p \in Complementary(q, v) :
              SameLegs(q, r, p) => p \in Complementary(r, v)
<1>1. ASSUME NEW p \in Executable(r)
      PROVE  SameLegs(q, r, p) /\ p \in Executable(q)
  <2>1. p \in CrossPairs /\ r[p[1]] # NoQuote /\ r[p[2]] # NoQuote
        /\ p[1] \in Outcomes /\ p[2] \in Outcomes
    BY DEF Executable, Pairs, CrossPairs
  <2>2. SameLegs(q, r, p)
    BY <2>1 DEF Withheld, SameLegs
  <2> QED BY <2>1, <2>2, SameWorth DEF Executable, Pairs, SameLegs
<1>2. ASSUME NEW p \in Executable(q), SameLegs(q, r, p)
      PROVE  p \in Executable(r)
  BY <1>2, SameWorth DEF Executable, Pairs, SameLegs
<1>3. ASSUME NEW v \in Venues, NEW p \in Complementary(r, v)
      PROVE  SameLegs(q, r, p) /\ p \in Complementary(q, v)
  <2>1. r[p[1]] # NoQuote /\ r[p[2]] # NoQuote /\ p[1] \in Outcomes /\ p[2] \in Outcomes
    BY DEF Complementary, SameVenuePairs
  <2>2. SameLegs(q, r, p)
    BY <2>1 DEF Withheld, SameLegs
  <2> QED BY <2>1, <2>2, SameWorth DEF Complementary, SameLegs
<1>4. ASSUME NEW v \in Venues, NEW p \in Complementary(q, v), SameLegs(q, r, p)
      PROVE  p \in Complementary(r, v)
  BY <1>4, SameWorth DEF Complementary, SameLegs
<1> QED BY <1>1, <1>2, <1>3, <1>4

\* Withholding quotes that no opportunity uses changes none: a pair that is
\* gone was beaten, and the one that beat it stands.
LEMMA OffersStand ==
  ASSUME NEW q \in GroupQuotes, NEW r \in GroupQuotes, Withheld(q, r),
         \A f \in Offers(q, CrossVenueOnly) : SameLegs(q, r, f.legs)
  PROVE  Offers(r, CrossVenueOnly) = Offers(q, CrossVenueOnly)
<1>1. \A p \in Detected(q) : SameLegs(q, r, p)
  <2>1. \A p \in Detected(q) : OfferOf(q, p) \in Offers(q, CrossVenueOnly)
    BY DEF Offers
  <2> QED BY <2>1 DEF OfferOf
<1>2. ~CrossVenueOnly => \A v \in Venues : \A p \in Complementary(q, v) : SameLegs(q, r, p)
  <2>1. ~CrossVenueOnly => \A v \in Venues : \A p \in Complementary(q, v) :
          OfferOf(q, p) \in Offers(q, CrossVenueOnly)
    BY DEF Offers
  <2> QED BY <2>1 DEF OfferOf
<1>3. \A p \in Detected(q) : p \in Detected(r)
  <2> TAKE p \in Detected(q)
  <2>1. p \in Executable(q) /\ SameLegs(q, r, p)
    BY <1>1 DEF Detected
  <2>2. p \in Executable(r)
    BY <2>1, WithheldPairs
  <2>3. \A s \in Executable(r) \ {p} :
           \/ GuaranteedProfit(r, s) < GuaranteedProfit(r, p)
           \/ GuaranteedProfit(r, s) = GuaranteedProfit(r, p) /\ Earlier(p, s)
    <3> TAKE s \in Executable(r) \ {p}
    <3>1. SameLegs(q, r, s) /\ s \in Executable(q) \ {p}
      BY WithheldPairs
    <3>2. /\ GuaranteedProfit(r, s) = GuaranteedProfit(q, s)
          /\ GuaranteedProfit(r, p) = GuaranteedProfit(q, p)
      BY <2>1, <3>1, SameWorth
    <3>3. \/ GuaranteedProfit(q, s) < GuaranteedProfit(q, p)
          \/ GuaranteedProfit(q, s) = GuaranteedProfit(q, p) /\ Earlier(p, s)
      BY <3>1 DEF Detected
    <3> QED BY <3>2, <3>3
  <2> QED BY <2>2, <2>3 DEF Detected
<1>4. \A p \in Detected(r) : p \in Detected(q)
  <2> TAKE p \in Detected(r)
  <2>1. Executable(q) # {}
    BY WithheldPairs DEF Detected
  <2>2. PICK d \in Detected(q) : TRUE
    BY <2>1, BestExists
  <2> QED BY <1>3, <2>2, DetectedIsOne
<1>5. Detected(r) = Detected(q)
  BY <1>3, <1>4
<1>6. \A p \in Detected(q) : OfferOf(r, p) = OfferOf(q, p)
  BY <1>1, SameWorth
<1>7. ASSUME ~CrossVenueOnly, NEW v \in Venues
      PROVE  Complementary(r, v) = Complementary(q, v)
  <2>1. \A p \in Complementary(r, v) : p \in Complementary(q, v)
    BY WithheldPairs
  <2>2. \A p \in Complementary(q, v) : p \in Complementary(r, v)
    BY <1>2, <1>7, WithheldPairs
  <2> QED BY <2>1, <2>2
<1>8. ~CrossVenueOnly => \A v \in Venues : \A p \in Complementary(q, v) :
        OfferOf(r, p) = OfferOf(q, p)
  BY <1>2, SameWorth
<1>9. {OfferOf(r, p) : p \in Detected(r)} = {OfferOf(q, p) : p \in Detected(q)}
  BY <1>5, <1>6
<1>10. ASSUME ~CrossVenueOnly
       PROVE  {OfferOf(r, p) : p \in UNION {Complementary(r, v) : v \in Venues}}
                = {OfferOf(q, p) : p \in UNION {Complementary(q, v) : v \in Venues}}
  BY <1>7, <1>8, <1>10
<1>11. CASE CrossVenueOnly
  BY <1>9, <1>11 DEF Offers
<1>12. CASE ~CrossVenueOnly
  BY <1>9, <1>10, <1>12 DEF Offers
<1> QED BY <1>11, <1>12

-----------------------------------------------------------------------------
(* The live set.                                                            *)

\* Time only withholds quotes; it brings none and changes none.
LEMMA AgingWithholds ==
  ASSUME FeedKinds, Ages
  PROVE  /\ Withheld(GetFrom(book), GetFrom(book'))
         /\ \A o \in Outcomes : Fresh(o)' => Fresh(o) /\ GetFrom(book')[o] = GetFrom(book)[o]
<1>1. MaxAge \in Nat
  BY FeedAssumption
<1>2. \A o \in Outcomes : /\ book[o].age \in 0..(MaxAge + 1)
                          /\ book[o] \in [quote : LegQuotes, age : 0..(MaxAge + 1)]
  BY DEF FeedKinds, Books
<1>3. \A o \in Outcomes : /\ book'[o].quote = book[o].quote
                          /\ book'[o].age = IF book[o].age <= MaxAge THEN book[o].age + 1
                                            ELSE book[o].age
  BY <1>2 DEF Ages
<1>4. \A o \in Outcomes : book'[o].age <= MaxAge => book[o].age <= MaxAge
  BY <1>1, <1>2, <1>3
<1> QED BY <1>3, <1>4 DEF Withheld, GetFrom, Fresh

\* An offer is of two legs of the group.
LEMMA OfferLegs ==
  ASSUME NEW f \in AllOffers
  PROVE  /\ f.legs[1] \in Outcomes /\ f.legs[2] \in Outcomes
         /\ LegsFresh(f) => Fresh(f.legs[1]) /\ Fresh(f.legs[2])
         /\ LegsFresh(f)' => Fresh(f.legs[1])' /\ Fresh(f.legs[2])'
         /\ Fresh(f.legs[1]) /\ Fresh(f.legs[2]) => LegsFresh(f)
<1>1. PICK p \in Outcomes \X Outcomes : f.legs = p
  BY DEF AllOffers, OfferOf
<1>2. DOMAIN p = {1, 2} /\ p[1] \in Outcomes /\ p[2] \in Outcomes
  OBVIOUS
<1>3. 1 \in DOMAIN f.legs /\ 2 \in DOMAIN f.legs /\ \A i \in DOMAIN f.legs : i = 1 \/ i = 2
  BY <1>1, <1>2
<1> QED BY <1>1, <1>2, <1>3 DEF LegsFresh

LEMMA OffersMatchStep ==
  FeedKinds /\ OffersMatchDetector /\ [FeedNext]_feedVars => OffersMatchDetector'
<1> SUFFICES ASSUME FeedKinds, OffersMatchDetector, [FeedNext]_feedVars
             PROVE  OffersMatchDetector'
  OBVIOUS
<1>a. book \in Books /\ offers \subseteq AllOffers
  BY DEF FeedKinds
<1>b. ASSUME NEW newBook \in Books, Evaluate(newBook)
      PROVE  OffersMatchDetector'
  <2>1. book' = newBook /\ offers' = Offers(GetFrom(newBook), CrossVenueOnly)
    BY <1>b, Evaluated
  <2> QED BY <2>1 DEF OffersMatchDetector
<1>c. ASSUME UNCHANGED <<book, unevaluated, offers>>, LoopFree' => LoopFree
      PROVE  OffersMatchDetector'
  BY <1>c DEF OffersMatchDetector, LegsFresh, Fresh
<1>1. CASE UNCHANGED feedVars
  BY <1>1, <1>c DEF feedVars, socket, push, LoopFree
<1>2. ASSUME NEW side \in Sides, NEW price \in LadderPrices[side], NEW left \in 0..MaxLots,
             VenueMoves(side, price, left)
      PROVE  OffersMatchDetector'
  BY <1>2, <1>c DEF VenueMoves, push
<1>3. CASE Connect \/ Disconnect \/ RestartFeed
  BY <1>3, <1>c DEF Connect, Disconnect, RestartFeed, push
<1>4. CASE ReadFrame
  BY <1>4, <1>c DEF ReadFrame, push
<1>5. CASE PumpQuote
  <2>1. PICK newBook : Evaluate(newBook)
    BY <1>5 DEF PumpQuote
  <2>2. book' = newBook
    BY <2>1 DEF Evaluate
  <2>3. newBook \in Books
    BY <2>2, FeedKindsStep DEF FeedKinds
  <2> QED BY <1>b, <2>1, <2>3
<1>6. ASSUME NEW side \in Sides, PollKalshi(side)
      PROVE  OffersMatchDetector'
  <2>1. PICK newBook : Evaluate(newBook)
    BY <1>6 DEF PollKalshi
  <2>2. book' = newBook
    BY <2>1 DEF Evaluate
  <2>3. newBook \in Books
    BY <2>2, FeedKindsStep DEF FeedKinds
  <2> QED BY <1>b, <2>1, <2>3
<1>7. ASSUME NEW o \in PmLegs, QuoteArrives(o)
      PROVE  OffersMatchDetector'
  <2>1. PICK newBook : Evaluate(newBook)
    BY <1>7 DEF QuoteArrives
  <2>2. book' = newBook
    BY <2>1 DEF Evaluate
  <2>3. newBook \in Books
    BY <2>2, FeedKindsStep DEF FeedKinds
  <2> QED BY <1>b, <2>1, <2>3
<1>8. ASSUME NEW o \in Outcomes, PushQuote(o)
      PROVE  OffersMatchDetector'
  BY <1>8 DEF PushQuote, OffersMatchDetector
<1>9. CASE PushRecorded
  <2>1. Evaluate(book)
    BY <1>9 DEF PushRecorded
  <2> QED BY <1>a, <1>b, <2>1
<1>10. CASE PushFails
  BY <1>10, <1>c DEF PushFails
<1>11. CASE Ages
  <2> SUFFICES ASSUME LoopFree', ~unevaluated', \A f \in offers' : LegsFresh(f)'
               PROVE  offers' = Offers(GetFrom(book'), CrossVenueOnly)
    BY DEF OffersMatchDetector
  <2>1. offers' = offers /\ LoopFree /\ ~unevaluated
    BY <1>11 DEF Ages, push
  <2>2. \A f \in offers : /\ f.legs[1] \in Outcomes /\ f.legs[2] \in Outcomes
                          /\ Fresh(f.legs[1])' /\ Fresh(f.legs[2])'
    BY <1>a, <2>1, OfferLegs
  <2>3. \A f \in offers : /\ LegsFresh(f)
                          /\ SameLegs(GetFrom(book), GetFrom(book'), f.legs)
    <3>1. \A o \in Outcomes : Fresh(o)' => Fresh(o) /\ GetFrom(book')[o] = GetFrom(book)[o]
      BY <1>11, AgingWithholds
    <3> QED BY <1>a, <2>2, <3>1, OfferLegs DEF SameLegs
  <2>4. offers = Offers(GetFrom(book), CrossVenueOnly)
    BY <2>1, <2>3 DEF OffersMatchDetector
  <2>5. GetFrom(book) \in GroupQuotes /\ GetFrom(book') \in GroupQuotes
    BY <1>a, FeedKindsStep, GetFromKind DEF FeedKinds
  <2>6. Withheld(GetFrom(book), GetFrom(book'))
    BY <1>11, AgingWithholds
  <2> QED BY <2>1, <2>3, <2>4, <2>5, <2>6, OffersStand
<1>12. CASE Subscribe \/ Unsubscribe
  BY <1>12, <1>c DEF Subscribe, Unsubscribe, socket, push, LoopFree
<1>13. CASE Deliver
  BY <1>13, <1>c DEF Deliver, socket, push, LoopFree
<1> QED BY <1>1, <1>2, <1>3, <1>4, <1>5, <1>6, <1>7, <1>8, <1>9, <1>10, <1>11, <1>12, <1>13
    DEF FeedNext

-----------------------------------------------------------------------------
(* The subscriber.                                                          *)

LEMMA OffersHeardStep ==
  FeedKinds /\ OffersHeard /\ [FeedNext]_feedVars => OffersHeard'
<1> SUFFICES ASSUME FeedKinds, OffersHeard, [FeedNext]_feedVars
             PROVE  OffersHeard'
  OBVIOUS
<1>a. ASSUME UNCHANGED <<offers, listening, queue, told, missed>>
      PROVE  OffersHeard'
  BY <1>a DEF OffersHeard
<1>b. ASSUME NEW newBook, Evaluate(newBook)
      PROVE  OffersHeard'
  <2>1. book' = newBook
    BY <1>b DEF Evaluate
  <2>2. newBook \in Books
    BY <2>1, FeedKindsStep DEF FeedKinds
  <2> QED BY <1>b, <2>2, Evaluated
<1>1. CASE UNCHANGED feedVars
  BY <1>1, <1>a DEF feedVars, subscriber
<1>2. ASSUME NEW side \in Sides, NEW price \in LadderPrices[side], NEW left \in 0..MaxLots,
             VenueMoves(side, price, left)
      PROVE  OffersHeard'
  BY <1>2, <1>a DEF VenueMoves, subscriber
<1>3. CASE Connect \/ Disconnect \/ RestartFeed
  BY <1>3, <1>a DEF Connect, Disconnect, RestartFeed, subscriber
<1>4. CASE ReadFrame
  BY <1>4, <1>a DEF ReadFrame, subscriber
<1>5. CASE PumpQuote
  BY <1>5, <1>b DEF PumpQuote
<1>6. ASSUME NEW side \in Sides, PollKalshi(side)
      PROVE  OffersHeard'
  BY <1>6, <1>b DEF PollKalshi
<1>7. ASSUME NEW o \in PmLegs, QuoteArrives(o)
      PROVE  OffersHeard'
  BY <1>7, <1>b DEF QuoteArrives
<1>8. ASSUME NEW o \in Outcomes, PushQuote(o)
      PROVE  OffersHeard'
  BY <1>8, <1>a DEF PushQuote, subscriber
<1>9. CASE PushRecorded
  BY <1>9, <1>b DEF PushRecorded
<1>10. CASE PushFails
  BY <1>10, <1>a DEF PushFails, subscriber
<1>11. CASE Ages
  BY <1>11, <1>a DEF Ages, subscriber
<1>12. CASE Subscribe \/ Unsubscribe
  BY <1>12 DEF Subscribe, Unsubscribe, OffersHeard
<1>13. CASE Deliver
  <2>1. queue \in Seq(AllOffers) /\ queue # <<>>
    BY <1>13 DEF Deliver, FeedKinds
  <2>2. /\ queue' = Tail(queue) /\ offers' = offers /\ listening' = listening
        /\ missed' = missed /\ told' = told \cup ({Head(queue)} \cap offers)
    BY <1>13 DEF Deliver
  <2>3. ASSUME NEW i \in DOMAIN queue
        PROVE  queue[i] = Head(queue) \/ \E j \in DOMAIN queue' : queue'[j] = queue[i]
    <3>1. CASE i = 1
      BY <2>1, <3>1
    <3>2. CASE i # 1
      <4>1. i \in 2..Len(queue)
        BY <2>1, <3>2
      <4>2. i - 1 \in 1..Len(Tail(queue)) /\ Tail(queue)[i - 1] = queue[i]
        BY <2>1, <4>1
      <4>3. Tail(queue) \in Seq(AllOffers)
        BY <2>1
      <4>4. i - 1 \in DOMAIN Tail(queue)
        BY <4>2, <4>3
      <4> QED BY <2>2, <4>2, <4>4
    <3> QED BY <3>1, <3>2
  <2>4. ASSUME listening, NEW f \in offers
        PROVE  Heard(f)'
    <3>1. Heard(f)
      BY <2>4, OffersHeardIs
    <3>2. CASE \E i \in DOMAIN queue : queue[i] = f
      BY <2>2, <2>3, <2>4, <3>2 DEF Heard
    <3>3. CASE f \in told \/ f \in missed
      BY <2>2, <3>3 DEF Heard
    <3> QED BY <3>1, <3>2, <3>3 DEF Heard
  <2> QED BY <2>2, <2>4 DEF OffersHeard, Heard
<1> QED BY <1>1, <1>2, <1>3, <1>4, <1>5, <1>6, <1>7, <1>8, <1>9, <1>10, <1>11, <1>12, <1>13
    DEF FeedNext

-----------------------------------------------------------------------------
(* The ladder.                                                              *)

\* What a frame makes of the lots at a level.
Leaves(frame, side, price, lots) ==
  IF frame.type = "snapshot" THEN frame.levels[side][price]
  ELSE IF frame.side = side /\ frame.price = price THEN lots + frame.change
  ELSE lots

\* The lots at a level as the frames on the wire are read, one after the other.
Replays(h, side, price) ==
  /\ h \in [0..Len(frames) -> 0..MaxLots]
  /\ h[0] = ladder[side][price]
  /\ \A i \in 1..Len(frames) : h[i] = Leaves(frames[i], side, price, h[i - 1])
  /\ h[Len(frames)] = resting[side][price]

\* Reading what is on the wire brings the level from where the ladder has it to
\* where the venue has it, by way of lots the venue may hold.
CaughtUp(side, price) == \E h : Replays(h, side, price)

\* The ladder is of this connection: its snapshot has been read.
Synced == connected /\ \A i \in DOMAIN frames : frames[i].type # "snapshot"

QuotedFromLadder(side) ==
  side \in byHand \/ book[KalshiLeg[side]].quote = KalshiQuote(side, ladder)

\* A streamed market is not polled, what is unread brings the ladder up to
\* date, and the two outcomes are quoted from it, but for those in hand or
\* pushed by hand.
MirrorInv ==
  /\ ladder \in Levels
  /\ connected => ~polled
  /\ ~connected => frames = <<>>
  /\ connected => \A side \in Sides : \A price \in LadderPrices[side] : CaughtUp(side, price)
  /\ Synced /\ inHand # <<"yes", "no">> => QuotedFromLadder("yes")
  /\ Synced /\ inHand = <<>> => QuotedFromLadder("no")

LEMMA SameLevels ==
  ASSUME NEW x \in Levels, NEW y \in Levels,
         \A s \in Sides : \A p \in LadderPrices[s] : x[s][p] = y[s][p]
  PROVE  x = y
<1>1. /\ x = [s \in Sides |-> x[s]] /\ \A s \in Sides : x[s] \in [LadderPrices[s] -> 0..MaxLots]
      /\ y = [s \in Sides |-> y[s]] /\ \A s \in Sides : y[s] \in [LadderPrices[s] -> 0..MaxLots]
  BY LevelsBySide
<1>2. \A s \in Sides : x[s] = y[s]
  BY <1>1
<1> QED BY <1>1, <1>2

LEMMA MirrorImplies == FeedKinds /\ MirrorInv => LadderMirrorsVenue
<1> SUFFICES ASSUME FeedKinds, MirrorInv, connected, frames = <<>>, LoopFree
             PROVE  /\ ladder = resting
                    /\ \A side \in Sides \ byHand :
                         book[KalshiLeg[side]].quote = KalshiQuote(side, resting)
  BY DEF LadderMirrorsVenue
<1>1. DOMAIN frames = {} /\ Len(frames) = 0
  OBVIOUS
<1>2. \A side \in Sides : \A price \in LadderPrices[side] :
        ladder[side][price] = resting[side][price]
  BY <1>1 DEF MirrorInv, CaughtUp, Replays
<1>3. ladder \in Levels /\ resting \in Levels
  BY DEF FeedKinds, MirrorInv
<1>4. ladder = resting
  BY <1>2, <1>3, SameLevels
<1>5. inHand = <<>> /\ inHand # <<"yes", "no">>
  BY DEF LoopFree
<1>6. QuotedFromLadder("yes") /\ QuotedFromLadder("no")
  BY <1>1, <1>5 DEF MirrorInv, Synced
<1> QED BY <1>4, <1>6 DEF QuotedFromLadder, Sides

LEMMA FramesAre ==
  ASSUME FeedKinds
  PROVE  /\ Len(frames) \in Nat /\ DOMAIN frames = 1..Len(frames)
         /\ \A i \in 1..Len(frames) : frames[i] \in FrameKinds
BY DEF FeedKinds

\* A level moves at the venue and the change is sent.
LEMMA SentKeepsUp ==
  ASSUME FeedKinds, MirrorInv, connected, NEW side \in Sides, NEW price \in LadderPrices[side],
         NEW left \in 0..MaxLots, VenueMoves(side, price, left),
         NEW s \in Sides, NEW p \in LadderPrices[s]
  PROVE  CaughtUp(s, p)'
<1> DEFINE change == left - resting[side][price]
           sent == Delta(side, price, change)
           n == Len(frames)
<1>1. PICK h : Replays(h, s, p)
  BY DEF MirrorInv, CaughtUp
<1>2. /\ frames' = Append(frames, sent) /\ ladder' = ladder
      /\ resting' = [resting EXCEPT ![side][price] = left]
  BY DEF VenueMoves
<1>3. sent.type = "delta" /\ sent.side = side /\ sent.price = price /\ sent.change = change
  BY DEF Delta
<1>4. /\ resting'[s][p] = IF s = side /\ p = price THEN left ELSE resting[s][p]
      /\ resting[s][p] \in 0..MaxLots
  BY <1>2, MovedKind, LevelsBySide DEF FeedKinds
<1>5. n \in Nat /\ frames \in Seq(FrameKinds) /\ DOMAIN frames = 1..n
  BY FramesAre DEF FeedKinds
<1>6. MaxLots \in Nat
  BY FeedAssumption
<1>7. h \in [0..n -> 0..MaxLots] /\ h[0] = ladder[s][p] /\ h[n] = resting[s][p]
      /\ \A i \in 1..n : h[i] = Leaves(frames[i], s, p, h[i - 1])
  BY <1>1 DEF Replays
<1>8. s = side /\ p = price => h[n] + change = left
  BY <1>4, <1>6, <1>7
<1> HIDE DEF change, sent
<1>9. /\ Len(frames') = n + 1 /\ frames'[n + 1] = sent
      /\ \A i \in 1..n : frames'[i] = frames[i]
  BY <1>2, <1>5
<1> HIDE DEF n
<1> DEFINE g == [i \in 0..(n + 1) |-> IF i = n + 1 THEN resting'[s][p] ELSE h[i]]
<1>10. /\ g \in [0..(n + 1) -> 0..MaxLots] /\ g[n + 1] = resting'[s][p]
       /\ \A i \in 0..n : g[i] = h[i]
  <2>1. resting'[s][p] \in 0..MaxLots
    BY <1>4
  <2>2. \A i \in 0..(n + 1) : i = n + 1 \/ i \in 0..n
    BY <1>5
  <2>3. n + 1 \in 0..(n + 1) /\ n + 1 \notin 0..n /\ 0..n \subseteq 0..(n + 1)
    BY <1>5
  <2> QED BY <1>7, <2>1, <2>2, <2>3
<1> HIDE DEF g
<1>11. ASSUME NEW i \in 1..(n + 1)
       PROVE  g[i] = Leaves(frames'[i], s, p, g[i - 1])
  <2>1. CASE i = n + 1
    <3>1. i - 1 = n /\ n \in 0..n
      BY <1>5, <2>1
    <3>2. Leaves(sent, s, p, g[n]) = IF s = side /\ p = price THEN h[n] + change ELSE h[n]
      BY <1>3, <1>10, <3>1 DEF Leaves
    <3> QED BY <1>4, <1>7, <1>8, <1>9, <1>10, <2>1, <3>1, <3>2
  <2>2. CASE i # n + 1
    <3>1. i \in 1..n /\ i \in 0..n /\ i - 1 \in 0..n
      BY <1>5, <2>2
    <3> QED BY <1>7, <1>9, <1>10, <3>1
  <2> QED BY <2>1, <2>2
<1>12. 0 \in 0..n
  BY <1>5
<1> QED BY <1>2, <1>7, <1>9, <1>10, <1>11, <1>12 DEF CaughtUp, Replays

\* A frame is read: the ladder takes over what it leaves.
LEMMA ReadKeepsUp ==
  ASSUME FeedKinds, MirrorInv, connected, ReadFrame, NEW s \in Sides, NEW p \in LadderPrices[s]
  PROVE  CaughtUp(s, p)' /\ ladder'[s][p] \in 0..MaxLots
<1> DEFINE n == Len(frames)
<1>1. PICK h : Replays(h, s, p)
  BY DEF MirrorInv, CaughtUp
<1>2. frames' = Tail(frames) /\ ladder' = Applied(Head(frames)) /\ resting' = resting
  BY DEF ReadFrame
<1>3. frames # <<>> /\ frames \in Seq(FrameKinds)
  BY DEF ReadFrame, FeedKinds
<1>4. /\ n \in Nat /\ n > 0 /\ Len(frames') = n - 1 /\ Head(frames) = frames[1]
      /\ Head(frames) \in FrameKinds /\ \A i \in 1..(n - 1) : frames'[i] = frames[i + 1]
  BY <1>2, <1>3
<1>5. h \in [0..n -> 0..MaxLots] /\ h[0] = ladder[s][p] /\ h[n] = resting[s][p]
      /\ \A i \in 1..n : h[i] = Leaves(frames[i], s, p, h[i - 1])
  BY <1>1 DEF Replays
<1> HIDE DEF n
<1>6. h[1] \in 0..MaxLots /\ h[1] = Leaves(Head(frames), s, p, ladder[s][p])
  <2>1. 1 \in 0..n /\ 1 \in 1..n /\ 1 - 1 = 0
    BY <1>4
  <2> QED BY <1>4, <1>5, <2>1
<1>7. Applied(Head(frames))[s][p] = h[1]
  <2>1. ladder \in Ladders /\ MaxLots \in Nat
    BY FeedAssumption DEF FeedKinds
  <2> DEFINE frame == Head(frames)
  <2>2. CASE frame.type = "snapshot"
    BY <1>4, <1>6, <2>1, <2>2, AppliedIs DEF Leaves
  <2>3. CASE frame.type # "snapshot" /\ frame.side = s /\ frame.price = p
    <3>1. h[1] = ladder[s][p] + frame.change
      BY <1>6, <2>3 DEF Leaves
    <3>2. Applied(frame)[s][p] = IF h[1] <= 0 THEN 0 ELSE h[1]
      BY <1>4, <2>1, <2>3, <3>1, AppliedIs
    <3> QED BY <1>6, <2>1, <3>2
  <2>4. CASE frame.type # "snapshot" /\ ~(frame.side = s /\ frame.price = p)
    BY <1>4, <1>6, <2>1, <2>4, AppliedIs DEF Leaves
  <2> QED BY <2>2, <2>3, <2>4
<1> DEFINE g == [i \in 0..(n - 1) |-> h[i + 1]]
<1>8. /\ \A i \in 0..(n - 1) : i + 1 \in 0..n
      /\ \A i \in 1..(n - 1) : i + 1 \in 1..n /\ i \in 0..(n - 1) /\ i - 1 \in 0..(n - 1)
                               /\ (i - 1) + 1 = i /\ (i + 1) - 1 = i
      /\ 0 \in 0..(n - 1) /\ n - 1 \in 0..(n - 1) /\ (n - 1) + 1 = n
  BY <1>4
<1>9. g \in [0..(n - 1) -> 0..MaxLots] /\ \A i \in 0..(n - 1) : g[i] = h[i + 1]
  BY <1>5, <1>8
<1> HIDE DEF g
<1>10. g[0] = ladder'[s][p]
  BY <1>2, <1>7, <1>8, <1>9
<1>11. g[n - 1] = resting'[s][p]
  BY <1>2, <1>5, <1>8, <1>9
<1>12. ASSUME NEW i \in 1..(n - 1)
       PROVE  g[i] = Leaves(frames'[i], s, p, g[i - 1])
  <2>1. g[i] = h[i + 1] /\ g[i - 1] = h[i] /\ frames'[i] = frames[i + 1]
    BY <1>4, <1>8, <1>9
  <2>2. h[i + 1] = Leaves(frames[i + 1], s, p, h[i])
    BY <1>5, <1>8
  <2> QED BY <2>1, <2>2
<1>13. CaughtUp(s, p)'
  BY <1>4, <1>9, <1>10, <1>11, <1>12 DEF CaughtUp, Replays
<1> QED BY <1>2, <1>6, <1>7, <1>13

\* The first frame of a connection speaks of every level.
LEMMA ConnectKeepsUp ==
  ASSUME FeedKinds, MirrorInv, Connect, NEW s \in Sides, NEW p \in LadderPrices[s]
  PROVE  CaughtUp(s, p)'
<1>1. frames' = <<Snapshot(resting)>> /\ resting' = resting /\ ladder' = ladder
  BY DEF Connect
<1>2. Len(frames') = 1 /\ frames'[1] = Snapshot(resting)
  BY <1>1
<1>3. frames'[1].type = "snapshot" /\ frames'[1].levels = resting
  BY <1>2 DEF Snapshot
<1>4. resting[s][p] \in 0..MaxLots /\ ladder[s][p] \in 0..MaxLots
  BY LevelsBySide DEF FeedKinds, MirrorInv
<1> DEFINE h == [i \in 0..1 |-> IF i = 0 THEN ladder[s][p] ELSE resting[s][p]]
<1>5. h \in [0..1 -> 0..MaxLots] /\ h[0] = ladder'[s][p] /\ h[1] = resting'[s][p]
  BY <1>1, <1>4
<1> HIDE DEF h
<1>6. \A i \in 1..1 : h[i] = Leaves(frames'[i], s, p, h[i - 1])
  BY <1>1, <1>3, <1>5 DEF Leaves
<1> QED BY <1>2, <1>5, <1>6 DEF CaughtUp, Replays

\* A quote as old as the moment is never refused, and goes to its own leg.
LEMMA FreshQuote ==
  ASSUME book \in Books, NEW o \in Outcomes, NEW q, NEW x \in Outcomes
  PROVE  Upserted(o, q, 0)[x].quote = IF x = o THEN q ELSE book[x].quote
<1>1. book[o].age \in Nat /\ Tolerance \in Nat
  BY FeedAssumption DEF Books
<1>2. ~(0 > book[o].age + Tolerance)
  BY <1>1
<1>3. Upserted(o, q, 0) = [book EXCEPT ![o] = [quote |-> q, age |-> 0]]
  BY <1>2 DEF Upserted
<1> QED BY <1>3 DEF Books

\* The other venue's quotes do not touch the Kalshi legs.
LEMMA OtherVenuesQuote ==
  ASSUME book \in Books, NEW o \in PmLegs, NEW q, NEW age, NEW side \in Sides
  PROVE  Upserted(o, q, age)[KalshiLeg[side]] = book[KalshiLeg[side]]
<1>1. o # KalshiLeg[side]
  BY KalshiLegKind DEF PmLegs
<1> QED BY <1>1 DEF Upserted, Books

LEMMA MirrorInit == FeedInit => MirrorInv
BY EmptyKind DEF FeedInit, MirrorInv, Synced

LEMMA MirrorStep == FeedKinds /\ MirrorInv /\ [FeedNext]_feedVars => MirrorInv'
<1> SUFFICES ASSUME FeedKinds, MirrorInv, [FeedNext]_feedVars
             PROVE  MirrorInv'
  OBVIOUS
<1>a. book \in Books
  BY DEF FeedKinds
<1>b. ASSUME UNCHANGED <<resting, polled, connected, frames, ladder, inHand>>,
             byHand \subseteq byHand',
             \A side \in Sides : \/ side \in byHand'
                               \/ book'[KalshiLeg[side]].quote = book[KalshiLeg[side]].quote
      PROVE  MirrorInv'
  <2>1. \A side \in Sides : \A price \in LadderPrices[side] :
          CaughtUp(side, price) => CaughtUp(side, price)'
    BY <1>b DEF CaughtUp, Replays
  <2>2. \A side \in Sides : QuotedFromLadder(side) => QuotedFromLadder(side)'
    BY <1>b DEF QuotedFromLadder
  <2>3. "yes" \in Sides /\ "no" \in Sides /\ (Synced' <=> Synced)
    BY <1>b DEF Sides, Synced
  <2> QED BY <1>b, <2>1, <2>2, <2>3 DEF MirrorInv
<1>1. CASE UNCHANGED feedVars
  BY <1>1, <1>b DEF feedVars, socket, push
<1>2. ASSUME NEW side \in Sides, NEW price \in LadderPrices[side], NEW left \in 0..MaxLots,
             VenueMoves(side, price, left)
      PROVE  MirrorInv'
  <2>1. CASE connected
    <3>1. \A s \in Sides : \A p \in LadderPrices[s] : CaughtUp(s, p)'
      BY <1>2, <2>1, SentKeepsUp
    <3>2. UNCHANGED <<polled, connected, ladder, inHand, book, byHand>>
      BY <1>2 DEF VenueMoves, push
    <3>3. Synced' => Synced
      <4>1. frames' = Append(frames, Delta(side, price, left - resting[side][price]))
        BY <1>2, <2>1 DEF VenueMoves
      <4>2. frames \in Seq(FrameKinds)
        BY DEF FeedKinds
      <4>3. \A i \in DOMAIN frames : i \in DOMAIN frames' /\ frames'[i] = frames[i]
        BY <4>1, <4>2
      <4> QED BY <3>2, <4>3 DEF Synced
    <3> QED BY <2>1, <3>1, <3>2, <3>3 DEF MirrorInv, QuotedFromLadder
  <2>2. CASE ~connected
    BY <1>2, <2>2 DEF VenueMoves, MirrorInv, Synced
  <2> QED BY <2>1, <2>2
<1>3. CASE Connect
  <2>1. \A s \in Sides : \A p \in LadderPrices[s] : CaughtUp(s, p)'
    BY <1>3, ConnectKeepsUp
  <2>2. ~Synced'
    <3>1. frames' = <<Snapshot(resting)>>
      BY <1>3 DEF Connect
    <3>2. 1 \in DOMAIN frames' /\ frames'[1].type = "snapshot"
      BY <3>1 DEF Snapshot
    <3> QED BY <3>2 DEF Synced
  <2>3. ~polled' /\ connected' /\ ladder' \in Levels
    BY <1>3 DEF Connect, MirrorInv
  <2> QED BY <2>1, <2>2, <2>3 DEF MirrorInv
<1>4. CASE Disconnect \/ RestartFeed
  <2>1. ~connected' /\ frames' = <<>> /\ ladder' \in Levels
    BY <1>4, EmptyKind DEF Disconnect, RestartFeed, MirrorInv
  <2> QED BY <2>1 DEF MirrorInv, Synced
<1>5. CASE ReadFrame
  <2>1. connected /\ connected' /\ polled' = polled
    BY <1>5 DEF ReadFrame, MirrorInv
  <2>2. \A s \in Sides : \A p \in LadderPrices[s] : CaughtUp(s, p)'
    BY <1>5, <2>1, ReadKeepsUp
  <2>3. inHand' = <<"yes", "no">>
    BY <1>5 DEF ReadFrame
  <2>4. inHand' # <<>>
    BY <2>3
  <2>5. ladder' \in Levels
    <3>1. ladder' \in Ladders
      BY FeedKindsStep DEF FeedKinds
    <3>2. /\ ladder' = [s \in Sides |-> ladder'[s]]
          /\ \A s \in Sides : ladder'[s] \in [LadderPrices[s] -> Nat]
      BY <3>1, LevelsBySide
    <3>3. \A s \in Sides : \A p \in LadderPrices[s] : ladder'[s][p] \in 0..MaxLots
      BY <1>5, <2>1, ReadKeepsUp
    <3>4. \A s \in Sides : ladder'[s] \in [LadderPrices[s] -> 0..MaxLots]
      BY <3>2, <3>3
    <3> QED BY <3>2, <3>4, LevelsBySide
  <2> QED BY <2>1, <2>2, <2>3, <2>4, <2>5 DEF MirrorInv
<1>6. CASE PumpQuote
  <2> DEFINE side == Head(inHand)
  <2>1. /\ Evaluate(Upserted(KalshiLeg[side], KalshiQuote(side, ladder), 0))
        /\ inHand' = Tail(inHand)
        /\ UNCHANGED <<resting, polled, connected, frames, ladder>>
    BY <1>6 DEF PumpQuote
  <2>2. book' = Upserted(KalshiLeg[side], KalshiQuote(side, ladder), 0)
    BY <2>1 DEF Evaluate
  <2>3. \/ inHand = <<"no">> /\ side = "no" /\ inHand' = <<>>
        \/ inHand = <<"yes", "no">> /\ side = "yes" /\ inHand' = <<"no">>
    <3>1. inHand \in {<<"no">>, <<"yes", "no">>}
      BY <1>6 DEF PumpQuote, FeedKinds
    <3>2. Head(<<"no">>) = "no" /\ Tail(<<"no">>) = <<>>
          /\ Head(<<"yes", "no">>) = "yes" /\ Tail(<<"yes", "no">>) = <<"no">>
      OBVIOUS
    <3> QED BY <2>1, <3>1, <3>2
  <2> HIDE DEF side
  <2>4. /\ KalshiLeg["yes"] \in Outcomes /\ KalshiLeg["no"] \in Outcomes
        /\ KalshiLeg["yes"] # KalshiLeg["no"]
    <3>1. "yes" \in Sides /\ "no" \in Sides
      BY DEF Sides
    <3>2. /\ IsYesSide[KalshiLeg["yes"]] = ("yes" = "yes")
          /\ IsYesSide[KalshiLeg["no"]] = ("no" = "yes")
      BY <3>1, KalshiLegKind
    <3>3. KalshiLeg["yes"] # KalshiLeg["no"]
      BY <3>2
    <3> QED BY <3>1, <3>3, KalshiLegKind
  <2>5. /\ (connected => \A s \in Sides : \A p \in LadderPrices[s] : CaughtUp(s, p))'
        /\ ladder' \in Levels /\ (Synced' => Synced)
    BY <2>1 DEF MirrorInv, CaughtUp, Replays, Synced
  <2>6. CASE side = "yes"
    <3>1. QuotedFromLadder("yes")'
      BY <1>a, <2>1, <2>2, <2>4, <2>6, FreshQuote DEF QuotedFromLadder
    <3>2. inHand' # <<>>
      BY <2>3, <2>6
    <3> QED BY <2>1, <2>5, <3>1, <3>2 DEF MirrorInv
  <2>7. CASE side = "no"
    <3>1. QuotedFromLadder("no")'
      BY <1>a, <2>1, <2>2, <2>4, <2>7, FreshQuote DEF QuotedFromLadder
    <3>2. inHand # <<"yes", "no">>
      BY <2>3, <2>7
    <3>3. Synced => QuotedFromLadder("yes")
      BY <3>2 DEF MirrorInv
    <3>4. /\ book'[KalshiLeg["yes"]].quote = book[KalshiLeg["yes"]].quote
          /\ "yes" \in byHand => "yes" \in byHand'
      <4>1. byHand' = byHand \ {"no"}
        BY <1>6, <2>7 DEF PumpQuote, side
      <4> QED BY <1>a, <2>2, <2>4, <2>7, <4>1, FreshQuote
    <3>5. Synced' => QuotedFromLadder("yes")'
      BY <2>1, <2>5, <3>3, <3>4 DEF QuotedFromLadder
    <3> QED BY <2>1, <2>5, <3>1, <3>5 DEF MirrorInv
  <2> QED BY <2>3, <2>6, <2>7
<1>7. ASSUME NEW side \in Sides, PollKalshi(side)
      PROVE  MirrorInv'
  <2>1. polled /\ UNCHANGED <<polled, socket>>
    BY <1>7 DEF PollKalshi
  <2>2. ~connected' /\ frames' = <<>> /\ ladder' \in Levels
    BY <2>1 DEF socket, MirrorInv
  <2> QED BY <2>2 DEF MirrorInv, Synced
<1>8. ASSUME NEW o \in PmLegs, QuoteArrives(o)
      PROVE  MirrorInv'
  <2>1. PICK b \in PmBooks, age \in SourceAges : Evaluate(Upserted(o, PmQuote(o, b), age))
    BY <1>8 DEF QuoteArrives
  <2>2. book' = Upserted(o, PmQuote(o, b), age)
    BY <2>1 DEF Evaluate
  <2>3. \A side \in Sides : book'[KalshiLeg[side]].quote = book[KalshiLeg[side]].quote
    BY <1>a, <2>2, OtherVenuesQuote
  <2> QED BY <1>8, <1>b, <2>3 DEF QuoteArrives, socket
<1>9. ASSUME NEW o \in Outcomes, PushQuote(o)
      PROVE  MirrorInv'
  <2>1. PICK q \in PushedQuotes[o] : book' = Upserted(o, q, 0)
    BY <1>9 DEF PushQuote
  <2>2. byHand' = byHand \cup {side \in Sides : KalshiLeg[side] = o}
    BY <1>9 DEF PushQuote
  <2>3. ASSUME NEW side \in Sides
        PROVE  \/ side \in byHand'
               \/ book'[KalshiLeg[side]].quote = book[KalshiLeg[side]].quote
    <3>1. CASE KalshiLeg[side] = o
      BY <2>2, <3>1
    <3>2. CASE KalshiLeg[side] # o
      BY <1>a, <2>1, <3>2, FreshQuote, KalshiLegKind
    <3> QED BY <3>1, <3>2
  <2> QED BY <1>9, <1>b, <2>2, <2>3 DEF PushQuote, socket
<1>10. CASE PushRecorded
  <2>1. book' = book
    BY <1>10 DEF PushRecorded, Evaluate
  <2> QED BY <1>10, <1>b, <2>1 DEF PushRecorded, socket
<1>11. CASE PushFails
  BY <1>11, <1>b DEF PushFails, socket, push
<1>12. CASE Ages
  <2>1. \A o \in Outcomes : book'[o].quote = book[o].quote
    BY <1>12 DEF Ages, FeedKinds, Books
  <2>2. \A side \in Sides : book'[KalshiLeg[side]].quote = book[KalshiLeg[side]].quote
    BY <2>1, KalshiLegKind
  <2> QED BY <1>12, <1>b, <2>2 DEF Ages, socket, push
<1>13. CASE Subscribe \/ Unsubscribe
  BY <1>13, <1>b DEF Subscribe, Unsubscribe, socket, push
<1>14. CASE Deliver
  BY <1>14, <1>b DEF Deliver, socket, push
<1> QED BY <1>1, <1>2, <1>3, <1>4, <1>5, <1>6, <1>7, <1>8, <1>9, <1>10, <1>11, <1>12, <1>13,
           <1>14 DEF FeedNext

-----------------------------------------------------------------------------
(* The feed's theorems, of the desk's specification: while the account runs *)
(* the feed stutters.                                                       *)

LEMMA DeskRunsFeed == DeskSpec => FeedInit /\ [][FeedNext]_feedVars
<1>1. DeskInit => FeedInit
  BY DEF DeskInit
<1>2. [DeskNext]_deskVars => [FeedNext]_feedVars
  BY DEF DeskNext, deskVars
<1> QED BY <1>1, <1>2, PTL DEF DeskSpec

LEMMA FeedKindsHold == DeskSpec => []FeedKinds
<1>1. FeedInit /\ [][FeedNext]_feedVars => []FeedKinds
  BY FeedKindsInit, FeedKindsStep, PTL
<1> QED BY <1>1, DeskRunsFeed, PTL

LEMMA MirrorHolds == DeskSpec => []MirrorInv
<1>1. FeedInit /\ [][FeedNext]_feedVars => [](FeedKinds /\ MirrorInv)
  BY FeedKindsInit, FeedKindsStep, MirrorInit, MirrorStep, PTL
<1> QED BY <1>1, DeskRunsFeed, PTL

\* Every part of the feed keeps its kind: ladders hold no more than the venue
\* may, quotes are priced within a dollar, the queue stays within its limit,
\* and what was told or missed is live (KalshiWsAdapter, QuoteBook, put_nowait).
LEMMA FeedTypes == DeskSpec => []FeedTypeOK
<1>1. FeedKinds /\ MirrorInv => FeedTypeOK
  BY QuoteKinds DEF FeedKinds, MirrorInv, FeedTypeOK, Books
<1> QED BY <1>1, FeedKindsHold, MirrorHolds, PTL

\* After any drops, restarts and pushes, and however many changes of however
\* many lots were on the wire, the ladder that has read everything sent is the
\* venue's book, lot for lot, and each outcome is quoted from it unless its
\* quote was pushed by hand since the last frame (_MarketBook.apply_snapshot
\* and apply_delta, POST /quotes).
THEOREM LadderIsVenues == DeskSpec => []LadderMirrorsVenue
BY FeedKindsHold, MirrorHolds, MirrorImplies, PTL

\* The live opportunities are what the detector finds in the book as it is,
\* whatever arrived in whatever order, unless one has gone stale or a pushed
\* quote was not told (AppState._set_group_opportunities).
THEOREM LiveSetIsDetected == DeskSpec => []OffersMatchDetector
<1>1. FeedInit => OffersMatchDetector
  <2> SUFFICES ASSUME FeedInit
               PROVE  offers = Offers(GetFrom(book), CrossVenueOnly)
    BY DEF OffersMatchDetector
  <2>1. \A o \in Outcomes : GetFrom(book)[o] = NoQuote
    <3>1. MaxAge \in Nat
      BY FeedAssumption
    <3> QED BY <3>1 DEF FeedInit, GetFrom, NoEntry
  <2>2. Detected(GetFrom(book)) = {}
    BY <2>1 DEF Detected, Executable, Pairs, CrossPairs
  <2>3. \A v \in Venues : Complementary(GetFrom(book), v) = {}
    BY <2>1 DEF Complementary, SameVenuePairs
  <2> QED BY <2>2, <2>3 DEF Offers, FeedInit
<1>2. FeedInit /\ [][FeedNext]_feedVars => [](FeedKinds /\ OffersMatchDetector)
  BY <1>1, FeedKindsInit, FeedKindsStep, OffersMatchStep, PTL
<1> QED BY <1>2, DeskRunsFeed, PTL

\* A subscriber hears of every opportunity that goes live, or had no room for
\* it at that moment (put_nowait, /ws/opportunities).
THEOREM SubscriberHears == DeskSpec => []OffersHeard
<1>1. FeedInit => OffersHeard
  BY DEF FeedInit, OffersHeard
<1>2. FeedInit /\ [][FeedNext]_feedVars => [](FeedKinds /\ OffersHeard)
  BY <1>1, FeedKindsInit, FeedKindsStep, OffersHeardStep, PTL
<1> QED BY <1>2, DeskRunsFeed, PTL

-----------------------------------------------------------------------------
(* The account's theorems, of the desk's specification: while the feed runs *)
(* the account stutters.                                                    *)

LEMMA DeskRunsReports == DeskSpec => ReportsSpec
<1>1. DeskInit => ReportsInit
  BY DEF DeskInit
<1>2. [DeskNext]_deskVars => [ReportsNext]_reportsVars
  BY DEF DeskNext, deskVars
<1> QED BY <1>1, <1>2, PTL DEF DeskSpec, ReportsSpec

\* Every variable of the feed, of the account and of a page under way is of its
\* kind in every reachable state: the queue within its limit
\* (AppState.publish), cash never below zero (PaperBroker), a transaction of
\* rows the tables have.
THEOREM DeskTypes == DeskSpec => []DeskTypeOK
BY FeedTypes, DeskRunsReports, PagesRunLedger, LedgerTypes, PageTypes, PTL DEF DeskTypeOK

\* "DB and the in-memory state cannot diverge" (paper_broker.py), of the desk:
\* with no write left, every balance and position row is what memory holds,
\* but for one whose last reading was given up or overtaken by an older one.
THEOREM DeskStoreFollows == DeskSpec => []StoreMatchesMemory
BY DeskRunsReports, PagesRunLedger, StoreFollowsMemory, PTL

\* The account pages, of the desk (performance.py, repositories.py): a page
\* answered while the account goes on agrees with itself but for what came or
\* went between its statements, and once nothing is under way, was given up or
\* was overtaken, the rows explain every venue's cash and the settled tickets
\* netted what the brokers realized.
THEOREM DeskReportsAgree == DeskSpec => []ReportsAgree
BY DeskRunsReports, ReportsAreTrue, PTL
=============================================================================
