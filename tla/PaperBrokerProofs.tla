-------------------------- MODULE PaperBrokerProofs --------------------------
(***************************************************************************)
(* What the paper brokers keep for every set of accounts, venues, outcomes, *)
(* prices, fee rates and tickets: cash never goes negative, no step creates *)
(* or destroys money, a cross-venue commit is never refused half way, and   *)
(* the profit reported is the cash that moved.  The second half shows that  *)
(* the brokers and the router implement the atomic ticket: what the buyer's *)
(* account shows outside a commit moves by whole tickets only, so no leg of *)
(* one stays naked, and settled it has paid.                                *)
(***************************************************************************)
EXTENDS PaperBroker, Sums

-----------------------------------------------------------------------------
(* The helpers.                                                             *)

\* A fee is a natural number at every price a quote may show (fees.py).
LEMMA FeeNat ==
  ASSUME NEW v \in Venues, NEW px \in 0..Unit, NEW n \in Nat
  PROVE  Fee(v, px, n) \in Nat
<1> DEFINE num == FeeRate[v] * px * (Unit - px) * n
           den == 100 * Unit
<1>1. FeeRate[v] \in Nat /\ px \in Nat /\ Unit - px \in Nat
  BY MoneyAssumption
<1>2. FeeRate[v] * px \in Nat
  BY <1>1
<1>3. (FeeRate[v] * px) * (Unit - px) \in Nat
  <2> HIDE DEF num
  <2>1. \A x, y \in Nat : x * y \in Nat
    OBVIOUS
  <2> QED BY <2>1, <1>1, <1>2
<1>4. num \in Nat
  <2>1. \A x, y \in Nat : x * y \in Nat
    OBVIOUS
  <2> QED BY <2>1, <1>3
<1>5. den \in Nat \ {0}
  BY MoneyAssumption
<1> HIDE DEF num, den
<1>6. num \div den \in Nat
  BY <1>4, <1>5
<1> QED BY <1>6 DEF Fee, num, den

\* A slipped price is still a price (_apply_slippage).
LEMMA SlippageInRange ==
  ASSUME NEW ask \in 0..Unit
  PROVE  ApplySlippage(ask) \in 0..Unit
<1>1. ask * SlippageBps \in Nat
  <2>1. \A x, y \in Nat : x * y \in Nat
    OBVIOUS
  <2> QED BY <2>1, MoneyAssumption
<1>2. (ask * SlippageBps) \div 10000 \in Nat
  BY <1>1
<1>3. ask + ((ask * SlippageBps) \div 10000) \in Nat
  BY <1>2, MoneyAssumption
<1> QED BY <1>3, MoneyAssumption DEF ApplySlippage, MinOf

\* A fill at the current book costs a natural number of units, and its parts
\* are natural numbers too (_preview_fill).
LEMMA FillNat ==
  ASSUME quote \in [Outcomes -> Quotes], NEW leg \in Legs
  PROVE  /\ FillPrice(leg) \in Nat
         /\ FillFee(leg) \in Nat
         /\ FillPrice(leg) * leg.qty \in Nat
         /\ FillCost(leg) \in Nat
<1>1. leg.outcome \in Outcomes /\ leg.qty \in Nat
  BY TicketAssumption DEF Legs
<1>2. quote[leg.outcome].ask \in 0..Unit
  <2>1. quote[leg.outcome] \in Quotes
    BY <1>1
  <2>2. CASE quote[leg.outcome] \in [live : {TRUE}, ask : Asks, size : Sizes]
    BY <2>2, MoneyAssumption
  <2>3. CASE quote[leg.outcome] = NoQuote
    <3>1. quote[leg.outcome].ask = 0
      BY <2>3 DEF NoQuote
    <3> QED BY <3>1, MoneyAssumption
  <2> QED BY <2>1, <2>2, <2>3 DEF Quotes
<1>3. FillPrice(leg) \in 0..Unit
  BY <1>2, SlippageInRange DEF FillPrice
<1>4. VenueOf[leg.outcome] \in Venues
  BY <1>1, VenueAssumption
<1>5. FillFee(leg) \in Nat
  BY <1>1, <1>3, <1>4, FeeNat DEF FillFee
<1>6. FillPrice(leg) * leg.qty \in Nat
  <2>1. \A x, y \in Nat : x * y \in Nat
    OBVIOUS
  <2>2. FillPrice(leg) \in Nat
    BY <1>3, MoneyAssumption
  <2> QED BY <2>1, <2>2, <1>1
<1> QED BY <1>3, <1>5, <1>6, MoneyAssumption DEF FillCost

\* What an outcome resolves to is a natural number of units per contract.
LEMMA PayoutNat ==
  ASSUME yesPays \in Resolutions, NEW o \in Outcomes, NEW n \in Nat
  PROVE  ResolvedValue(o) * n \in Nat
<1>1. ResolvedValue(o) \in Nat
  BY MoneyAssumption DEF ResolvedValue
<1>2. \A x, y \in Nat : x * y \in Nat
  OBVIOUS
<1> QED BY <1>1, <1>2

-----------------------------------------------------------------------------
(* The inductive invariant: the ledger invariants, what the snapshot of an   *)
(* unfinished commit would put back, and why a cross-venue commit finishes.  *)

\* Restoring the snapshot would satisfy the ledger invariants; fees carried
\* since it was taken only widen the inequality.
SnapshotSound ==
  ~LoopFree =>
    /\ \A v \in Venues : snap.cash[v] >= 0
    /\ \A o \in Outcomes :
         snap.realized[o] <= snap.net[o] + snap.basis[o] + openFees[buyer][o]

\* Every leg left to fill still previews clean and is affordable, and no two
\* of them spend the same venue's cash.
CommitFits ==
  crossVenueOnly =>
    /\ \A i \in DOMAIN legs : PreviewFill(legs[i]) /\ Affords(buyer, legs[i])
    /\ \A i, j \in DOMAIN legs :
         i # j => VenueOf[legs[i].outcome] # VenueOf[legs[j].outcome]

IInv ==
  /\ TypeOK
  /\ NoOverdraft
  /\ RealizedNeverOverstated
  /\ RealizedMatchesCash
  /\ SnapshotSound
  /\ CommitFits

LEMMA InitIInv == Init => IInv
<1> SUFFICES ASSUME Init PROVE IInv
  OBVIOUS
<1>1. TypeOK
  BY MoneyAssumption DEF Init, TypeOK, Amounts, ZeroPerVenue, ZeroPerOutcome,
     NoSnap, Quotes
<1>2. NoOverdraft
  BY MoneyAssumption DEF Init, NoOverdraft
<1>3. RealizedNeverOverstated /\ RealizedMatchesCash
  BY DEF Init, RealizedNeverOverstated, RealizedMatchesCash, ZeroPerOutcome
<1>4. SnapshotSound /\ CommitFits
  BY DEF Init, SnapshotSound, CommitFits, LoopFree
<1> QED BY <1>1, <1>2, <1>3, <1>4 DEF IInv

-----------------------------------------------------------------------------
(* One lemma per action.                                                     *)

\* A ticket is two legs of the group.
LEMMA TicketShape ==
  ASSUME NEW t \in Tickets
  PROVE  /\ t \in Seq(Legs)
         /\ DOMAIN t = {1, 2}
         /\ t # <<>>
<1>1. PICK y \in Legs, n \in Legs : t = <<y, n>>
  BY DEF Tickets
<1>2. <<y, n>> \in Seq(Legs) /\ DOMAIN <<y, n>> = {1, 2} /\ <<y, n>> # <<>>
  OBVIOUS
<1> QED BY <1>1, <1>2

LEMMA UpsertStep ==
  ASSUME IInv, NEW o \in Outcomes, Upsert(o)
  PROVE  IInv'
<1> USE DEF IInv
<1>1. TypeOK'
  BY DEF Upsert, TypeOK, account, commit, world
<1>2. NoOverdraft' /\ RealizedNeverOverstated' /\ RealizedMatchesCash'
  BY DEF Upsert, NoOverdraft, RealizedNeverOverstated, RealizedMatchesCash,
     account, world
<1>3. legs' = <<>>
  BY DEF Upsert, LoopFree, commit
<1>4. SnapshotSound' /\ CommitFits'
  BY <1>3 DEF SnapshotSound, CommitFits, LoopFree
<1> QED BY <1>1, <1>2, <1>4

LEMMA SubmitStep ==
  ASSUME IInv, NEW a \in Accounts, NEW t \in Tickets, Submit(a, t)
  PROVE  IInv'
<1> USE DEF IInv
<1>1. t \in Seq(Legs) /\ DOMAIN t = {1, 2}
  BY TicketShape
<1>2. TypeOK'
  BY <1>1 DEF Submit, TypeOK, Amounts, account, world
<1>3. NoOverdraft' /\ RealizedNeverOverstated' /\ RealizedMatchesCash'
  BY DEF Submit, NoOverdraft, RealizedNeverOverstated, RealizedMatchesCash,
     account, world
<1>4. SnapshotSound'
  <2>1. snap'.cash = cash[a] /\ snap'.realized = realized[a] /\ snap'.net = net[a]
        /\ snap'.basis = basis[a] /\ buyer' = a /\ openFees' = openFees
    BY DEF Submit, account
  <2> QED BY <2>1 DEF SnapshotSound, NoOverdraft, RealizedNeverOverstated
<1>5. CommitFits'
  <2> SUFFICES ASSUME crossVenueOnly'
               PROVE  /\ \A i \in DOMAIN t : PreviewFill(t[i])' /\ Affords(a, t[i])'
                      /\ \A i, j \in DOMAIN t :
                           i # j => VenueOf[t[i].outcome] # VenueOf[t[j].outcome]
    BY DEF CommitFits, Submit, Affords, FillCost, FillFee, FillPrice, PreviewFill
  <2>1. quote' = quote /\ cash' = cash
    BY DEF Submit, account
  <2>2. \A i \in DOMAIN t : PreviewFill(t[i])' /\ Affords(a, t[i])'
    BY <2>1 DEF Submit, PreviewFill, Affords, FillCost, FillFee, FillPrice
  <2>3. TwoVenues(t)
    BY DEF Submit, world
  <2> QED BY <2>2, <2>3, <1>1 DEF TwoVenues
<1> QED BY <1>2, <1>3, <1>4, <1>5

\* A leg that is not the head keeps its place in what is left.
LEMMA TailShape ==
  ASSUME legs \in Seq(Legs), legs # <<>>
  PROVE  /\ Head(legs) \in Legs
         /\ Tail(legs) \in Seq(Legs)
         /\ \A i \in DOMAIN Tail(legs) :
              i + 1 \in DOMAIN legs /\ Tail(legs)[i] = legs[i + 1] /\ i + 1 # 1
         /\ 1 \in DOMAIN legs /\ Head(legs) = legs[1]
OBVIOUS

\* Updating one entry of a table.
LEMMA TableUpdate ==
  ASSUME NEW A, NEW B, NEW S, NEW f \in [A -> [B -> S]],
         NEW a \in A, NEW b \in B, NEW x \in S,
         NEW g, g = [f EXCEPT ![a][b] = x]
  PROVE  /\ g \in [A -> [B -> S]]
         /\ g[a][b] = x
         /\ \A c \in A, d \in B : (c # a \/ d # b) => g[c][d] = f[c][d]
OBVIOUS

LEMMA ApplyFillStep ==
  ASSUME IInv, ApplyFill
  PROVE  IInv'
<1> DEFINE leg  == Head(legs)
           o    == leg.outcome
           v    == VenueOf[o]
           n    == leg.qty
           fee  == FillFee(leg)
           paid == FillPrice(leg) * leg.qty
           cost == FillCost(leg)
<1>1. TypeOK /\ NoOverdraft /\ RealizedNeverOverstated /\ RealizedMatchesCash
      /\ SnapshotSound /\ CommitFits
  BY DEF IInv
<1>2. /\ leg \in Legs /\ o \in Outcomes /\ v \in Venues /\ n \in Nat
      /\ Tail(legs) \in Seq(Legs)
  BY <1>1, TailShape, VenueAssumption, TicketAssumption DEF ApplyFill, TypeOK, Legs
<1>3. paid \in Nat /\ fee \in Nat /\ cost \in Nat /\ cost = paid + fee
  BY <1>1, <1>2, FillNat DEF TypeOK, FillCost
<1>4. cash' = [cash EXCEPT ![buyer][v] = cash[buyer][v] - cost]
  BY DEF ApplyFill
<1>5. net' = [net EXCEPT ![buyer][o] = net[buyer][o] - cost]
  BY DEF ApplyFill
<1>6. openFees' = [openFees EXCEPT ![buyer][o] = openFees[buyer][o] + fee]
  BY DEF ApplyFill
<1>7. qty' = [qty EXCEPT ![buyer][o] = qty[buyer][o] + n]
  BY DEF ApplyFill
<1>8. basis' = [basis EXCEPT ![buyer][o] = basis[buyer][o] + paid]
  BY DEF ApplyFill
<1>9. /\ realized' = realized /\ quote' = quote /\ buyer' = buyer
      /\ crossVenueOnly' = crossVenueOnly /\ yesPays' = yesPays
      /\ settled' = settled /\ submitted' = submitted
      /\ legs' = Tail(legs)
      /\ snap' = snap \/ snap' = NoSnap
      /\ legs' # <<>> => snap' = snap
  BY DEF ApplyFill, world
<1>10. cash[buyer][v] >= cost
  BY <1>1, <1>2, <1>3 DEF ApplyFill, Affords, TypeOK
<1> HIDE DEF leg, o, v, n, fee, paid, cost
<1>11. buyer \in Accounts
  BY <1>1 DEF TypeOK
<1>12. /\ cash' \in [Accounts -> [Venues -> Int]]
       /\ cash'[buyer][v] = cash[buyer][v] - cost
       /\ \A a \in Accounts, w \in Venues :
            (a # buyer \/ w # v) => cash'[a][w] = cash[a][w]
  <2>1. cash \in [Accounts -> [Venues -> Int]] /\ cash[buyer][v] - cost \in Int
    BY <1>1, <1>2, <1>3, <1>11 DEF TypeOK
  <2> QED BY <2>1, <1>2, <1>4, <1>11, TableUpdate
<1>13. /\ net' \in [Accounts -> [Outcomes -> Int]]
       /\ net'[buyer][o] = net[buyer][o] - cost
       /\ \A a \in Accounts, p \in Outcomes :
            (a # buyer \/ p # o) => net'[a][p] = net[a][p]
  <2>1. net \in [Accounts -> [Outcomes -> Int]] /\ net[buyer][o] - cost \in Int
    BY <1>1, <1>2, <1>3, <1>11 DEF TypeOK
  <2> QED BY <2>1, <1>2, <1>5, <1>11, TableUpdate
<1>14. /\ openFees' \in [Accounts -> [Outcomes -> Nat]]
       /\ openFees'[buyer][o] = openFees[buyer][o] + fee
       /\ \A a \in Accounts, p \in Outcomes :
            (a # buyer \/ p # o) => openFees'[a][p] = openFees[a][p]
  <2>1. openFees \in [Accounts -> [Outcomes -> Nat]] /\ openFees[buyer][o] + fee \in Nat
    BY <1>1, <1>2, <1>3, <1>11 DEF TypeOK, Amounts
  <2> QED BY <2>1, <1>2, <1>6, <1>11, TableUpdate
<1>15. qty' \in [Accounts -> [Outcomes -> Nat]]
  <2>1. qty \in [Accounts -> [Outcomes -> Nat]] /\ qty[buyer][o] + n \in Nat
    BY <1>1, <1>2, <1>11 DEF TypeOK, Amounts
  <2> QED BY <2>1, <1>2, <1>7, <1>11, TableUpdate
<1>16. /\ basis' \in [Accounts -> [Outcomes -> Nat]]
       /\ basis'[buyer][o] = basis[buyer][o] + paid
       /\ \A a \in Accounts, p \in Outcomes :
            (a # buyer \/ p # o) => basis'[a][p] = basis[a][p]
  <2>1. basis \in [Accounts -> [Outcomes -> Nat]] /\ basis[buyer][o] + paid \in Nat
    BY <1>1, <1>2, <1>3, <1>11 DEF TypeOK, Amounts
  <2> QED BY <2>1, <1>2, <1>8, <1>11, TableUpdate
<1>17. TypeOK'
  <2>1. snap' \in [cash : [Venues -> Int], qty : [Outcomes -> Nat],
                   basis : [Outcomes -> Nat], realized : [Outcomes -> Int],
                   net : [Outcomes -> Int]]
    BY <1>1, <1>9 DEF TypeOK, NoSnap, ZeroPerVenue, ZeroPerOutcome
  <2> QED BY <1>1, <1>2, <1>9, <1>12, <1>13, <1>14, <1>15, <1>16, <2>1
          DEF TypeOK, Amounts
<1>18. NoOverdraft'
  <2> SUFFICES ASSUME NEW a \in Accounts, NEW w \in Venues PROVE cash'[a][w] >= 0
    BY DEF NoOverdraft
  <2>1. CASE a = buyer /\ w = v
    <3>1. cash[buyer][v] \in Int
      BY <1>1, <1>2, <1>11 DEF TypeOK
    <3> QED BY <2>1, <3>1, <1>3, <1>10, <1>12
  <2>2. CASE a # buyer \/ w # v
    BY <2>2, <1>1, <1>12 DEF NoOverdraft
  <2> QED BY <2>1, <2>2
<1>19. ASSUME NEW a \in Accounts, NEW p \in Outcomes
       PROVE  net'[a][p] + basis'[a][p] + openFees'[a][p]
                = net[a][p] + basis[a][p] + openFees[a][p]
  <2>1. CASE a = buyer /\ p = o
    <3>1. /\ net[buyer][o] \in Int /\ basis[buyer][o] \in Int
          /\ openFees[buyer][o] \in Int
      BY <1>1, <1>2, <1>11 DEF TypeOK, Amounts
    <3>2. /\ net'[a][p] = net[a][p] - cost
          /\ basis'[a][p] = basis[a][p] + paid
          /\ openFees'[a][p] = openFees[a][p] + fee
      BY <2>1, <1>13, <1>14, <1>16
    <3> QED BY <2>1, <3>1, <3>2, <1>3
  <2>2. CASE a # buyer \/ p # o
    BY <2>2, <1>13, <1>14, <1>16
  <2> QED BY <2>1, <2>2
<1>20. RealizedNeverOverstated' /\ RealizedMatchesCash'
  BY <1>1, <1>9, <1>19 DEF RealizedNeverOverstated, RealizedMatchesCash
<1>21. SnapshotSound'
  <2> SUFFICES ASSUME legs' # <<>>
               PROVE  /\ \A w \in Venues : snap'.cash[w] >= 0
                      /\ \A p \in Outcomes :
                           snap'.realized[p] <=
                             snap'.net[p] + snap'.basis[p] + openFees'[buyer'][p]
    BY DEF SnapshotSound, LoopFree
  <2>1. ~LoopFree
    BY DEF ApplyFill, LoopFree
  <2>2. snap' = snap /\ buyer' = buyer
    BY <1>9
  <2>3. \A w \in Venues : snap.cash[w] >= 0
    BY <1>1, <2>1 DEF SnapshotSound
  <2>4. ASSUME NEW p \in Outcomes
        PROVE  snap.realized[p] <= snap.net[p] + snap.basis[p] + openFees'[buyer][p]
    <3>1. snap.realized[p] <= snap.net[p] + snap.basis[p] + openFees[buyer][p]
      BY <1>1, <2>1 DEF SnapshotSound
    <3>2. openFees[buyer][p] \in Nat /\ openFees'[buyer][p] \in Nat
      BY <1>1, <1>11, <1>14 DEF TypeOK, Amounts
    <3>3. openFees'[buyer][p] >= openFees[buyer][p]
      BY <1>3, <1>11, <1>14, <3>2
    <3>4. snap.realized[p] \in Int /\ snap.net[p] \in Int /\ snap.basis[p] \in Int
      BY <1>1 DEF TypeOK
    <3> QED BY <3>1, <3>2, <3>3, <3>4
  <2> QED BY <2>2, <2>3, <2>4
<1>22. CommitFits'
  <2> SUFFICES ASSUME crossVenueOnly
               PROVE  /\ \A i \in DOMAIN legs' :
                           PreviewFill(legs[i])' /\ Affords(buyer, legs[i])'
                      /\ \A i, j \in DOMAIN legs' : i # j =>
                           VenueOf[legs'[i].outcome] # VenueOf[legs'[j].outcome]
    BY <1>9 DEF CommitFits
  <2>1. /\ \A i \in DOMAIN legs : PreviewFill(legs[i]) /\ Affords(buyer, legs[i])
        /\ \A i, j \in DOMAIN legs :
             i # j => VenueOf[legs[i].outcome] # VenueOf[legs[j].outcome]
    BY <1>1 DEF CommitFits
  <2>2. /\ \A i \in DOMAIN legs' :
             i + 1 \in DOMAIN legs /\ legs'[i] = legs[i + 1] /\ i + 1 # 1
        /\ 1 \in DOMAIN legs /\ leg = legs[1]
    BY <1>1, <1>9, TailShape DEF ApplyFill, TypeOK, leg
  <2>3. \A i \in DOMAIN legs' : i \in Nat
    BY <1>2, <1>9
  <2>4. ASSUME NEW i \in DOMAIN legs'
        PROVE  PreviewFill(legs[i])' /\ Affords(buyer, legs[i])'
    <3>1. /\ PreviewFill(legs[i + 1]) /\ Affords(buyer, legs[i + 1])
          /\ VenueOf[legs[i + 1].outcome] # v /\ legs'[i] = legs[i + 1]
      BY <2>1, <2>2 DEF o, v
    <3>2. legs[i + 1] \in Legs
      BY <1>1, <2>2 DEF TypeOK
    <3>3. VenueOf[legs[i + 1].outcome] \in Venues
      BY <3>2, VenueAssumption DEF Legs
    <3>4. cash'[buyer][VenueOf[legs[i + 1].outcome]]
            = cash[buyer][VenueOf[legs[i + 1].outcome]]
      BY <1>11, <1>12, <3>1, <3>3
    <3>5. PreviewFill(legs[i])'
      BY <1>9, <3>1 DEF PreviewFill, FillPrice
    <3>6. FillCost(legs[i])' = FillCost(legs[i + 1])
      BY <1>9, <3>1 DEF FillCost, FillFee, FillPrice
    <3>7. Affords(buyer, legs[i])'
      BY <1>9, <3>1, <3>4, <3>6 DEF Affords
    <3> QED BY <3>5, <3>7
  <2>5. ASSUME NEW i \in DOMAIN legs', NEW j \in DOMAIN legs', i # j
        PROVE  VenueOf[legs'[i].outcome] # VenueOf[legs'[j].outcome]
    <3>1. i + 1 # j + 1
      BY <2>3, <2>5
    <3> QED BY <2>1, <2>2, <3>1
  <2> QED BY <2>4, <2>5
<1> QED BY <1>17, <1>18, <1>20, <1>21, <1>22 DEF IInv

\* A cross-venue commit is never rolled back.
LEMMA NoRollBack ==
  ASSUME IInv, RollBack
  PROVE  ~crossVenueOnly
<1> SUFFICES ASSUME crossVenueOnly PROVE FALSE
  OBVIOUS
<1>1. 1 \in DOMAIN legs /\ Head(legs) = legs[1]
  BY TailShape DEF RollBack, IInv, TypeOK
<1>2. PreviewFill(Head(legs)) /\ Affords(buyer, Head(legs))
  BY <1>1 DEF IInv, CommitFits
<1> QED BY <1>2 DEF RollBack

LEMMA RollBackStep ==
  ASSUME IInv, RollBack
  PROVE  IInv'
<1>1. TypeOK /\ NoOverdraft /\ RealizedNeverOverstated /\ RealizedMatchesCash
      /\ SnapshotSound /\ CommitFits /\ legs \in Seq(Legs) /\ buyer \in Accounts
  BY DEF IInv, TypeOK
<1>2. /\ cash' = [cash EXCEPT ![buyer] = snap.cash]
      /\ qty' = [qty EXCEPT ![buyer] = snap.qty]
      /\ basis' = [basis EXCEPT ![buyer] = snap.basis]
      /\ realized' = [realized EXCEPT ![buyer] = snap.realized]
      /\ net' = [net EXCEPT ![buyer] = snap.net]
      /\ legs' = <<>> /\ snap' = NoSnap /\ openFees' = openFees
      /\ quote' = quote /\ buyer' = buyer /\ crossVenueOnly' = crossVenueOnly
      /\ yesPays' = yesPays /\ settled' = settled /\ submitted' = submitted
  BY DEF RollBack, world
<1>3. ~LoopFree
  BY DEF RollBack, LoopFree
<1>4. TypeOK'
  <2>1. legs' \in Seq(Legs)
    BY <1>2
  <2>2. snap' \in [cash : [Venues -> Int], qty : [Outcomes -> Nat],
                   basis : [Outcomes -> Nat], realized : [Outcomes -> Int],
                   net : [Outcomes -> Int]]
    BY <1>2 DEF NoSnap, ZeroPerVenue, ZeroPerOutcome
  <2> QED BY <1>1, <1>2, <2>1, <2>2 DEF TypeOK, Amounts
<1>5. NoOverdraft'
  <2> SUFFICES ASSUME NEW a \in Accounts, NEW w \in Venues PROVE cash'[a][w] >= 0
    BY DEF NoOverdraft
  <2>1. CASE a = buyer
    BY <2>1, <1>1, <1>2, <1>3 DEF SnapshotSound, TypeOK
  <2>2. CASE a # buyer
    BY <2>2, <1>1, <1>2 DEF NoOverdraft, TypeOK
  <2> QED BY <2>1, <2>2
<1>6. RealizedNeverOverstated'
  <2> SUFFICES ASSUME NEW a \in Accounts, NEW p \in Outcomes
               PROVE  realized'[a][p] <= net'[a][p] + basis'[a][p] + openFees'[a][p]
    BY DEF RealizedNeverOverstated
  <2>1. CASE a = buyer
    <3>1. /\ realized'[a] = snap.realized /\ net'[a] = snap.net
          /\ basis'[a] = snap.basis /\ openFees'[a] = openFees[buyer]
      BY <2>1, <1>1, <1>2 DEF TypeOK, Amounts
    <3> QED BY <3>1, <1>1, <1>3 DEF SnapshotSound
  <2>2. CASE a # buyer
    BY <2>2, <1>1, <1>2 DEF RealizedNeverOverstated, TypeOK, Amounts
  <2> QED BY <2>1, <2>2
<1>7. ~crossVenueOnly
  BY NoRollBack
<1>8. RealizedMatchesCash' /\ CommitFits'
  BY <1>2, <1>7 DEF RealizedMatchesCash, CommitFits
<1>9. SnapshotSound'
  BY <1>2 DEF SnapshotSound, LoopFree
<1> QED BY <1>4, <1>5, <1>6, <1>8, <1>9 DEF IInv

\* What one account's entries become when outcome o settles.
LEMMA SettleEntries ==
  ASSUME TypeOK, NEW o \in Outcomes, SettleOutcome(o), NEW a \in Accounts
  PROVE  LET pays == ResolvedValue(o) * qty[a][o]
         IN /\ pays \in Nat
            /\ cash'[a] = [cash[a] EXCEPT ![VenueOf[o]] = cash[a][VenueOf[o]] + pays]
            /\ net'[a] = [net[a] EXCEPT ![o] = net[a][o] + pays]
            /\ qty[a][o] # 0 =>
                 /\ realized'[a] = [realized[a] EXCEPT ![o] =
                        realized[a][o] + pays - (basis[a][o] + openFees[a][o])]
                 /\ qty'[a] = [qty[a] EXCEPT ![o] = 0]
                 /\ basis'[a] = [basis[a] EXCEPT ![o] = 0]
                 /\ openFees'[a] = [openFees[a] EXCEPT ![o] = 0]
            /\ qty[a][o] = 0 =>
                 /\ pays = 0
                 /\ realized'[a] = realized[a] /\ qty'[a] = qty[a]
                 /\ basis'[a] = basis[a] /\ openFees'[a] = openFees[a]
<1> DEFINE pays == ResolvedValue(o) * qty[a][o]
<1>1. qty[a][o] \in Nat
  BY DEF TypeOK, Amounts
<1>2. ResolvedValue(o) \in Nat
  BY MoneyAssumption DEF TypeOK, ResolvedValue
<1>3. pays \in Nat
  BY <1>1, PayoutNat DEF TypeOK
<1>4. qty[a][o] = 0 => pays = 0
  BY <1>2
<1>5. /\ cash'[a] = [cash[a] EXCEPT ![VenueOf[o]] = cash[a][VenueOf[o]] + pays]
      /\ net'[a] = [net[a] EXCEPT ![o] = net[a][o] + pays]
  BY DEF SettleOutcome
<1>6. ASSUME qty[a][o] # 0
      PROVE  /\ realized'[a] = [realized[a] EXCEPT ![o] =
                    realized[a][o] + pays - (basis[a][o] + openFees[a][o])]
             /\ qty'[a] = [qty[a] EXCEPT ![o] = 0]
             /\ basis'[a] = [basis[a] EXCEPT ![o] = 0]
             /\ openFees'[a] = [openFees[a] EXCEPT ![o] = 0]
  BY <1>6 DEF SettleOutcome, CarriedCost
<1>7. ASSUME qty[a][o] = 0
      PROVE  /\ realized'[a] = realized[a] /\ qty'[a] = qty[a]
             /\ basis'[a] = basis[a] /\ openFees'[a] = openFees[a]
  BY <1>7 DEF SettleOutcome
<1> QED BY <1>3, <1>4, <1>5, <1>6, <1>7

LEMMA SettleStep ==
  ASSUME IInv, NEW o \in Outcomes, SettleOutcome(o)
  PROVE  IInv'
<1> DEFINE v == VenueOf[o]
           pays(a) == ResolvedValue(o) * qty[a][o]
<1>1. TypeOK /\ NoOverdraft /\ RealizedNeverOverstated /\ RealizedMatchesCash
      /\ v \in Venues
  BY VenueAssumption DEF IInv
<1>2. /\ legs' = <<>> /\ snap' = snap /\ quote' = quote /\ buyer' = buyer
      /\ crossVenueOnly' = crossVenueOnly /\ yesPays' = yesPays
      /\ settled' = settled \cup {o} /\ submitted' = submitted
  BY DEF SettleOutcome, LoopFree, commit, world
<1>3. ASSUME NEW a \in Accounts
      PROVE  /\ cash'[a] \in [Venues -> Int]
             /\ qty'[a] \in [Outcomes -> Nat] /\ basis'[a] \in [Outcomes -> Nat]
             /\ openFees'[a] \in [Outcomes -> Nat]
             /\ realized'[a] \in [Outcomes -> Int] /\ net'[a] \in [Outcomes -> Int]
             /\ \A w \in Venues : cash'[a][w] >= cash[a][w]
             /\ \A p \in Outcomes :
                  net'[a][p] + basis'[a][p] + openFees'[a][p] - realized'[a][p]
                    = net[a][p] + basis[a][p] + openFees[a][p] - realized[a][p]
  <2> DEFINE x == pays(a)
  <2>1. /\ cash[a] \in [Venues -> Int]
        /\ qty[a] \in [Outcomes -> Nat] /\ basis[a] \in [Outcomes -> Nat]
        /\ openFees[a] \in [Outcomes -> Nat]
        /\ realized[a] \in [Outcomes -> Int] /\ net[a] \in [Outcomes -> Int]
    BY <1>1 DEF TypeOK, Amounts
  <2>2. /\ x \in Nat
        /\ cash'[a] = [cash[a] EXCEPT ![v] = cash[a][v] + x]
        /\ net'[a] = [net[a] EXCEPT ![o] = net[a][o] + x]
    BY <1>1, SettleEntries
  <2>3. CASE qty[a][o] # 0
    <3>1. /\ realized'[a] = [realized[a] EXCEPT ![o] =
                realized[a][o] + x - (basis[a][o] + openFees[a][o])]
          /\ qty'[a] = [qty[a] EXCEPT ![o] = 0]
          /\ basis'[a] = [basis[a] EXCEPT ![o] = 0]
          /\ openFees'[a] = [openFees[a] EXCEPT ![o] = 0]
      BY <2>3, <1>1, SettleEntries
    <3> HIDE DEF x, v
    <3> QED BY <2>1, <2>2, <3>1, <1>1
  <2>4. CASE qty[a][o] = 0
    <3>1. /\ x = 0 /\ realized'[a] = realized[a] /\ qty'[a] = qty[a]
          /\ basis'[a] = basis[a] /\ openFees'[a] = openFees[a]
      BY <2>4, <1>1, SettleEntries
    <3> HIDE DEF x, v
    <3> QED BY <2>1, <2>2, <3>1, <1>1
  <2> QED BY <2>3, <2>4
<1>4. TypeOK'
  <2>1. /\ cash' = [a \in Accounts |-> cash'[a]] /\ qty' = [a \in Accounts |-> qty'[a]]
        /\ basis' = [a \in Accounts |-> basis'[a]]
        /\ openFees' = [a \in Accounts |-> openFees'[a]]
        /\ realized' = [a \in Accounts |-> realized'[a]]
        /\ net' = [a \in Accounts |-> net'[a]]
    BY DEF SettleOutcome
  <2>2. legs' \in Seq(Legs)
    BY <1>2
  <2>3. /\ cash' \in [Accounts -> [Venues -> Int]]
        /\ qty' \in Amounts(Accounts, Outcomes) /\ basis' \in Amounts(Accounts, Outcomes)
        /\ openFees' \in Amounts(Accounts, Outcomes)
        /\ realized' \in [Accounts -> [Outcomes -> Int]]
        /\ net' \in [Accounts -> [Outcomes -> Int]]
    BY <1>3, <2>1 DEF Amounts
  <2> QED BY <1>1, <1>2, <2>2, <2>3 DEF TypeOK
<1>5. NoOverdraft'
  <2> SUFFICES ASSUME NEW a \in Accounts, NEW w \in Venues PROVE cash'[a][w] >= 0
    BY DEF NoOverdraft
  <2>1. cash'[a][w] \in Int /\ cash[a][w] \in Int
    BY <1>1, <1>4 DEF TypeOK
  <2> QED BY <2>1, <1>1, <1>3 DEF NoOverdraft
<1>6. ASSUME NEW a \in Accounts, NEW p \in Outcomes
      PROVE  /\ net'[a][p] + basis'[a][p] + openFees'[a][p] - realized'[a][p]
                  = net[a][p] + basis[a][p] + openFees[a][p] - realized[a][p]
             /\ net'[a][p] \in Int /\ basis'[a][p] \in Int /\ openFees'[a][p] \in Int
             /\ realized'[a][p] \in Int /\ net[a][p] \in Int /\ basis[a][p] \in Int
             /\ openFees[a][p] \in Int /\ realized[a][p] \in Int
  BY <1>1, <1>3, <1>4 DEF TypeOK, Amounts
<1>7. RealizedNeverOverstated'
  BY <1>1, <1>6 DEF RealizedNeverOverstated
<1>8. RealizedMatchesCash'
  <2> SUFFICES ASSUME crossVenueOnly, NEW a \in Accounts, NEW p \in Outcomes
               PROVE  realized'[a][p] = net'[a][p] + basis'[a][p] + openFees'[a][p]
    BY <1>2 DEF RealizedMatchesCash
  <2>1. realized[a][p] = net[a][p] + basis[a][p] + openFees[a][p]
    BY <1>1 DEF RealizedMatchesCash
  <2>2. /\ net'[a][p] + basis'[a][p] + openFees'[a][p] - realized'[a][p]
             = net[a][p] + basis[a][p] + openFees[a][p] - realized[a][p]
        /\ net'[a][p] \in Int /\ basis'[a][p] \in Int /\ openFees'[a][p] \in Int
        /\ realized'[a][p] \in Int /\ net[a][p] \in Int /\ basis[a][p] \in Int
        /\ openFees[a][p] \in Int /\ realized[a][p] \in Int
    BY <1>6
  <2>3. \A r1, n1, b1, f1, r, n, b, f \in Int :
          n1 + b1 + f1 - r1 = n + b + f - r /\ r = n + b + f => r1 = n1 + b1 + f1
    OBVIOUS
  <2> QED BY <2>1, <2>2, <2>3
<1>9. SnapshotSound' /\ CommitFits'
  BY <1>2 DEF SnapshotSound, CommitFits, LoopFree
<1> QED BY <1>4, <1>5, <1>7, <1>8, <1>9 DEF IInv

\* The plan is a whole number of cents.
LEMMA PlannedInt ==
  ASSUME TypeOK, NEW a \in Accounts, NEW from \in Venues, NEW to \in Venues
  PROVE  PlannedAmount(a, from, to) \in Int
<1>1. cash[a][from] - cash[a][to] \in Int
  BY DEF TypeOK
<1>2. Cent \in Nat \ {0}
  BY MoneyAssumption DEF Cent
<1>3. ((cash[a][from] - cash[a][to]) \div 2) \div Cent \in Int
  BY <1>1, <1>2
<1>4. \A x, y \in Int : x * y \in Int
  OBVIOUS
<1> QED BY <1>2, <1>3, <1>4 DEF PlannedAmount

LEMMA SweepStep ==
  ASSUME IInv, NEW a \in Accounts, NEW from \in Venues, NEW to \in Venues,
         Sweep(a, from, to)
  PROVE  IInv'
<1> DEFINE amount == PlannedAmount(a, from, to)
<1>1. TypeOK /\ NoOverdraft /\ RealizedNeverOverstated /\ RealizedMatchesCash
  BY DEF IInv
<1>2. /\ legs' = <<>> /\ snap' = snap /\ quote' = quote /\ buyer' = buyer
      /\ crossVenueOnly' = crossVenueOnly /\ yesPays' = yesPays
      /\ settled' = settled /\ submitted' = submitted
      /\ qty' = qty /\ basis' = basis /\ openFees' = openFees
      /\ realized' = realized /\ net' = net
  BY DEF Sweep, LoopFree, commit, world
<1>3. /\ from # to /\ amount >= MinTransfer /\ amount <= cash[a][from]
      /\ cash' = [cash EXCEPT ![a] = [cash[a] EXCEPT ![from] = cash[a][from] - amount,
                                                     ![to] = cash[a][to] + amount]]
  BY DEF Sweep
<1>4. amount \in Int
  BY <1>1, PlannedInt
<1> HIDE DEF amount
<1>5. TypeOK'
  <2>1. cash' \in [Accounts -> [Venues -> Int]]
    BY <1>1, <1>3, <1>4 DEF TypeOK
  <2> QED BY <1>1, <1>2, <2>1 DEF TypeOK
<1>6. NoOverdraft'
  <2> SUFFICES ASSUME NEW b \in Accounts, NEW w \in Venues PROVE cash'[b][w] >= 0
    BY DEF NoOverdraft
  <2>1. cash[b][w] >= 0 /\ cash[b][w] \in Int /\ cash[b] \in [Venues -> Int]
    BY <1>1 DEF NoOverdraft, TypeOK
  <2>2. CASE b # a
    <3>1. cash'[b] = cash[b]
      BY <2>2, <1>3, <1>1 DEF TypeOK
    <3> QED BY <3>1, <2>1
  <2>3. CASE b = a
    <3>1. cash'[a] = [cash[a] EXCEPT ![from] = cash[a][from] - amount,
                                     ![to] = cash[a][to] + amount]
      BY <1>3, <1>1 DEF TypeOK
    <3>2. CASE w = from
      BY <3>1, <3>2, <2>1, <2>3, <1>3, <1>4
    <3>3. CASE w = to
      <4>1. amount >= 0
        BY <1>3, <1>4, MoneyAssumption
      <4> QED BY <4>1, <3>1, <3>3, <2>1, <2>3, <1>3, <1>4
    <3>4. CASE w # from /\ w # to
      BY <3>1, <3>4, <2>1, <2>3
    <3> QED BY <3>2, <3>3, <3>4
  <2> QED BY <2>2, <2>3
<1>7. RealizedNeverOverstated' /\ RealizedMatchesCash'
  BY <1>1, <1>2 DEF RealizedNeverOverstated, RealizedMatchesCash
<1>8. SnapshotSound' /\ CommitFits'
  BY <1>2 DEF SnapshotSound, CommitFits, LoopFree
<1> QED BY <1>5, <1>6, <1>7, <1>8 DEF IInv

-----------------------------------------------------------------------------
(* The theorems.                                                             *)

LEMMA InvariantStep == IInv /\ [Next]_vars => IInv'
<1> SUFFICES ASSUME IInv, [Next]_vars PROVE IInv'
  OBVIOUS
<1>1. CASE UNCHANGED vars
  BY <1>1 DEF IInv, TypeOK, NoOverdraft, RealizedNeverOverstated, RealizedMatchesCash,
     SnapshotSound, CommitFits, LoopFree, PreviewFill, Affords, FillCost, FillFee,
     FillPrice, vars, account, commit, world
<1>2. CASE \E o \in Outcomes : Upsert(o)
  BY <1>2, UpsertStep
<1>3. CASE \E a \in Accounts, t \in Tickets : Submit(a, t)
  BY <1>3, SubmitStep
<1>4. CASE ApplyFill
  BY <1>4, ApplyFillStep
<1>5. CASE RollBack
  BY <1>5, RollBackStep
<1>6. CASE \E o \in Outcomes : SettleOutcome(o)
  BY <1>6, SettleStep
<1>7. CASE \E a \in Accounts, from, to \in Venues : Sweep(a, from, to)
  BY <1>7, SweepStep
<1> QED BY <1>1, <1>2, <1>3, <1>4, <1>5, <1>6, <1>7 DEF Next

\* The strengthening is an invariant of the brokers.
THEOREM InvariantHolds == Spec => []IInv
BY InitIInv, InvariantStep, PTL DEF Spec

\* Every ledger entry keeps its kind: no quantity, cost or carried fee is ever
\* negative (apply_fill, restore_account, settle_outcome_async).
THEOREM TypeCorrect == Spec => []TypeOK
BY InvariantHolds, PTL DEF IInv

\* No venue's free cash goes negative, mid-ticket or otherwise (apply_fill,
\* withdraw, restore_account).
THEOREM CashCovered == Spec => []NoOverdraft
BY InvariantHolds, PTL DEF IInv

\* Reported profit is exactly the cash that moved, as long as tickets pair
\* legs across venues (_consume_fees, settle_outcome_async).
THEOREM ProfitIsCash == Spec => []RealizedMatchesCash
BY InvariantHolds, PTL DEF IInv

\* With tickets of any kind the profit reported is never more than that
\* (restore_account).
THEOREM ProfitNotOverstated == Spec => []RealizedNeverOverstated
BY InvariantHolds, PTL DEF IInv

\* A cross-venue ticket that passed its preview fills on every leg
\* (ExecutionRouter.submit, _commit_atomically).
THEOREM PreviewedTicketsFill == Spec => []CommitNeverRefused
<1>1. IInv => CommitNeverRefused
  <2> SUFFICES ASSUME IInv, crossVenueOnly, ~LoopFree
               PROVE  PreviewFill(Head(legs)) /\ Affords(buyer, Head(legs))
    BY DEF CommitNeverRefused
  <2>1. 1 \in DOMAIN legs /\ Head(legs) = legs[1]
    BY TailShape DEF IInv, TypeOK, LoopFree
  <2> QED BY <2>1 DEF IInv, CommitFits
<1> QED BY <1>1, InvariantHolds, PTL

-----------------------------------------------------------------------------
(* The money: what each step does to an account's sums.                     *)

\* An account's free cash, and what its open positions cost, less the profit
\* reported.
Funds(a) ==
  SumFunctionOnSet(cash[a], Venues)
    + SumFunctionOnSet(basis[a], Outcomes) + SumFunctionOnSet(openFees[a], Outcomes)
    - SumFunctionOnSet(realized[a], Outcomes)

\* One entry of a balance rewritten moves its sum by the difference.
LEMMA EntrySum ==
  ASSUME NEW S, IsFiniteSet(S), NEW f \in [S -> Int], NEW x \in S, NEW k \in Int
  PROVE  /\ SumFunctionOnSet(f, S) \in Int
         /\ SumFunctionOnSet([f EXCEPT ![x] = k], S) = SumFunctionOnSet(f, S) + (k - f[x])
<1> DEFINE g == [f EXCEPT ![x] = k]
<1>1. /\ \A y \in S : f[y] \in Int /\ g[y] \in Int
      /\ \A y \in S \ {x} : g[y] = f[y]
      /\ g[x] = k
  OBVIOUS
<1> HIDE DEF g
<1>2. /\ SumFunctionOnSet(f, S) \in Int
      /\ SumFunctionOnSet(g, S) = SumFunctionOnSet(f, S) + (g[x] - f[x])
  BY <1>1, SumUpdate
<1> QED BY <1>1, <1>2 DEF g

\* Every balance of an account has a sum.
LEMMA BalanceSums ==
  ASSUME TypeOK, NEW a \in Accounts
  PROVE  /\ cash[a] \in [Venues -> Int] /\ basis[a] \in [Outcomes -> Int]
         /\ openFees[a] \in [Outcomes -> Int] /\ realized[a] \in [Outcomes -> Int]
         /\ net[a] \in [Outcomes -> Int] /\ qty[a] \in [Outcomes -> Int]
         /\ SumFunctionOnSet(cash[a], Venues) \in Int
         /\ SumFunctionOnSet(basis[a], Outcomes) \in Int
         /\ SumFunctionOnSet(openFees[a], Outcomes) \in Int
         /\ SumFunctionOnSet(realized[a], Outcomes) \in Int
         /\ SumFunctionOnSet(net[a], Outcomes) \in Int
         /\ SumFunctionOnSet(qty[a], Outcomes) \in Int
<1>1. /\ cash[a] \in [Venues -> Int] /\ basis[a] \in [Outcomes -> Int]
      /\ openFees[a] \in [Outcomes -> Int] /\ realized[a] \in [Outcomes -> Int]
      /\ net[a] \in [Outcomes -> Int] /\ qty[a] \in [Outcomes -> Int]
  BY DEF TypeOK, Amounts
<1>2. \A f \in [Venues -> Int] : SumFunctionOnSet(f, Venues) \in Int
  BY FiniteAssumption, SumSplit
<1>3. \A f \in [Outcomes -> Int] : SumFunctionOnSet(f, Outcomes) \in Int
  BY FiniteAssumption, SumSplit
<1> QED BY <1>1, <1>2, <1>3

\* What the buyer's entries become when a leg fills, and nobody else's.
LEMMA FillEntries ==
  ASSUME TypeOK, ApplyFill
  PROVE  LET leg  == Head(legs)
             o    == leg.outcome
             v    == VenueOf[o]
             paid == FillPrice(leg) * leg.qty
         IN /\ leg \in Legs /\ o \in Outcomes /\ v \in Venues /\ leg.qty \in Nat
            /\ paid \in Nat /\ FillFee(leg) \in Nat
            /\ FillCost(leg) = paid + FillFee(leg)
            /\ cash'[buyer] = [cash[buyer] EXCEPT ![v] = cash[buyer][v] - FillCost(leg)]
            /\ net'[buyer] = [net[buyer] EXCEPT ![o] = net[buyer][o] - FillCost(leg)]
            /\ basis'[buyer] = [basis[buyer] EXCEPT ![o] = basis[buyer][o] + paid]
            /\ openFees'[buyer] =
                 [openFees[buyer] EXCEPT ![o] = openFees[buyer][o] + FillFee(leg)]
            /\ qty'[buyer] = [qty[buyer] EXCEPT ![o] = qty[buyer][o] + leg.qty]
            /\ realized' = realized
            /\ \A a \in Accounts \ {buyer} :
                 /\ cash'[a] = cash[a] /\ net'[a] = net[a] /\ basis'[a] = basis[a]
                 /\ openFees'[a] = openFees[a] /\ qty'[a] = qty[a]
<1> DEFINE leg  == Head(legs)
           o    == leg.outcome
           v    == VenueOf[o]
           fee  == FillFee(leg)
           paid == FillPrice(leg) * leg.qty
           cost == FillCost(leg)
<1>1. /\ leg \in Legs /\ o \in Outcomes /\ v \in Venues /\ leg.qty \in Nat
  BY TailShape, VenueAssumption, TicketAssumption DEF ApplyFill, TypeOK, Legs
<1>2. paid \in Nat /\ fee \in Nat /\ cost = paid + fee
  BY <1>1, FillNat DEF TypeOK, FillCost
<1>3. /\ cash' = [cash EXCEPT ![buyer][v] = cash[buyer][v] - cost]
      /\ net' = [net EXCEPT ![buyer][o] = net[buyer][o] - cost]
      /\ basis' = [basis EXCEPT ![buyer][o] = basis[buyer][o] + paid]
      /\ openFees' = [openFees EXCEPT ![buyer][o] = openFees[buyer][o] + fee]
      /\ qty' = [qty EXCEPT ![buyer][o] = qty[buyer][o] + leg.qty]
      /\ realized' = realized
  BY DEF ApplyFill
<1>4. /\ buyer \in Accounts
      /\ DOMAIN cash = Accounts /\ DOMAIN net = Accounts /\ DOMAIN basis = Accounts
      /\ DOMAIN openFees = Accounts /\ DOMAIN qty = Accounts
  BY DEF TypeOK, Amounts
<1> HIDE DEF leg, o, v, fee, paid, cost
<1>6. /\ cash'[buyer] = [cash[buyer] EXCEPT ![v] = cash[buyer][v] - cost]
      /\ \A a \in Accounts \ {buyer} : cash'[a] = cash[a]
  BY <1>3, <1>4
<1>7. /\ net'[buyer] = [net[buyer] EXCEPT ![o] = net[buyer][o] - cost]
      /\ \A a \in Accounts \ {buyer} : net'[a] = net[a]
  BY <1>3, <1>4
<1>8. /\ basis'[buyer] = [basis[buyer] EXCEPT ![o] = basis[buyer][o] + paid]
      /\ \A a \in Accounts \ {buyer} : basis'[a] = basis[a]
  BY <1>3, <1>4
<1>9. /\ openFees'[buyer] = [openFees[buyer] EXCEPT ![o] = openFees[buyer][o] + fee]
      /\ \A a \in Accounts \ {buyer} : openFees'[a] = openFees[a]
  BY <1>3, <1>4
<1>10. /\ qty'[buyer] = [qty[buyer] EXCEPT ![o] = qty[buyer][o] + leg.qty]
       /\ \A a \in Accounts \ {buyer} : qty'[a] = qty[a]
  BY <1>3, <1>4
<1> QED
  BY <1>1, <1>2, <1>3, <1>6, <1>7, <1>8, <1>9, <1>10 DEF leg, o, v, fee, paid, cost

\* A fill turns free cash into cost and carried fee.
LEMMA FillKeepsFunds ==
  ASSUME TypeOK, ApplyFill, NEW a \in Accounts
  PROVE  Funds(a)' = Funds(a)
<1> DEFINE leg  == Head(legs)
           o    == leg.outcome
           v    == VenueOf[o]
           fee  == FillFee(leg)
           paid == FillPrice(leg) * leg.qty
           cost == FillCost(leg)
<1>1. CASE a # buyer
  <2>1. /\ cash'[a] = cash[a] /\ basis'[a] = basis[a] /\ openFees'[a] = openFees[a]
        /\ realized'[a] = realized[a]
    BY <1>1, FillEntries
  <2> QED BY <2>1 DEF Funds
<1>2. CASE a = buyer
  <2>1. /\ o \in Outcomes /\ v \in Venues /\ paid \in Int /\ fee \in Int
        /\ cost = paid + fee
        /\ cash'[a] = [cash[a] EXCEPT ![v] = cash[a][v] - cost]
        /\ basis'[a] = [basis[a] EXCEPT ![o] = basis[a][o] + paid]
        /\ openFees'[a] = [openFees[a] EXCEPT ![o] = openFees[a][o] + fee]
        /\ realized'[a] = realized[a]
    BY <1>2, FillEntries
  <2> HIDE DEF leg, o, v, fee, paid, cost
  <2>2. /\ cash[a] \in [Venues -> Int] /\ cash[a][v] \in Int
        /\ basis[a] \in [Outcomes -> Int] /\ basis[a][o] \in Int
        /\ openFees[a] \in [Outcomes -> Int] /\ openFees[a][o] \in Int
        /\ SumFunctionOnSet(realized[a], Outcomes) \in Int
    BY <2>1, BalanceSums
  <2>3. /\ SumFunctionOnSet(cash[a], Venues) \in Int
        /\ SumFunctionOnSet(cash'[a], Venues) = SumFunctionOnSet(cash[a], Venues) - cost
    <3>1. cash[a][v] - cost \in Int
      BY <2>1, <2>2
    <3>2. SumFunctionOnSet(cash[a], Venues) \in Int
      BY BalanceSums
    <3>3. SumFunctionOnSet(cash'[a], Venues)
            = SumFunctionOnSet(cash[a], Venues) + ((cash[a][v] - cost) - cash[a][v])
      BY <2>1, <2>2, <3>1, EntrySum, FiniteAssumption
    <3> QED BY <2>1, <2>2, <3>2, <3>3
  <2>4. /\ SumFunctionOnSet(basis[a], Outcomes) \in Int
        /\ SumFunctionOnSet(basis'[a], Outcomes) = SumFunctionOnSet(basis[a], Outcomes) + paid
    <3>1. basis[a][o] + paid \in Int
      BY <2>1, <2>2
    <3>2. SumFunctionOnSet(basis[a], Outcomes) \in Int
      BY BalanceSums
    <3>3. SumFunctionOnSet(basis'[a], Outcomes)
            = SumFunctionOnSet(basis[a], Outcomes) + ((basis[a][o] + paid) - basis[a][o])
      BY <2>1, <2>2, <3>1, EntrySum, FiniteAssumption
    <3> QED BY <2>1, <2>2, <3>2, <3>3
  <2>5. /\ SumFunctionOnSet(openFees[a], Outcomes) \in Int
        /\ SumFunctionOnSet(openFees'[a], Outcomes)
             = SumFunctionOnSet(openFees[a], Outcomes) + fee
    <3>1. openFees[a][o] + fee \in Int
      BY <2>1, <2>2
    <3>2. SumFunctionOnSet(openFees[a], Outcomes) \in Int
      BY BalanceSums
    <3>3. SumFunctionOnSet(openFees'[a], Outcomes)
            = SumFunctionOnSet(openFees[a], Outcomes) + ((openFees[a][o] + fee) - openFees[a][o])
      BY <2>1, <2>2, <3>1, EntrySum, FiniteAssumption
    <3> QED BY <2>1, <2>2, <3>2, <3>3
  <2> QED BY <2>1, <2>2, <2>3, <2>4, <2>5 DEF Funds
<1> QED BY <1>1, <1>2

\* A settlement turns what was carried, and the profit on it, into cash.
LEMMA SettleKeepsFunds ==
  ASSUME TypeOK, NEW o \in Outcomes, SettleOutcome(o), NEW a \in Accounts
  PROVE  Funds(a)' = Funds(a)
<1> DEFINE v    == VenueOf[o]
           pays == ResolvedValue(o) * qty[a][o]
<1>1. /\ v \in Venues /\ pays \in Nat
      /\ cash'[a] = [cash[a] EXCEPT ![v] = cash[a][v] + pays]
  BY VenueAssumption, SettleEntries
<1>2. /\ cash[a] \in [Venues -> Int]
      /\ basis[a] \in [Outcomes -> Int] /\ openFees[a] \in [Outcomes -> Int]
      /\ realized[a] \in [Outcomes -> Int]
  BY BalanceSums
<1>3. /\ SumFunctionOnSet(cash[a], Venues) \in Int
      /\ SumFunctionOnSet(basis[a], Outcomes) \in Int
      /\ SumFunctionOnSet(openFees[a], Outcomes) \in Int
      /\ SumFunctionOnSet(realized[a], Outcomes) \in Int
  BY BalanceSums
<1>4. qty[a][o] = 0 => pays = 0 /\ realized'[a] = realized[a]
                       /\ basis'[a] = basis[a] /\ openFees'[a] = openFees[a]
  BY SettleEntries
<1>5. qty[a][o] # 0 =>
        /\ realized'[a] = [realized[a] EXCEPT ![o] =
                realized[a][o] + pays - (basis[a][o] + openFees[a][o])]
        /\ basis'[a] = [basis[a] EXCEPT ![o] = 0]
        /\ openFees'[a] = [openFees[a] EXCEPT ![o] = 0]
  BY SettleEntries
<1> HIDE DEF v, pays
<1>6. SumFunctionOnSet(cash'[a], Venues) = SumFunctionOnSet(cash[a], Venues) + pays
  <2>1. cash[a][v] \in Int /\ cash[a][v] + pays \in Int
    BY <1>1, <1>2
  <2>2. SumFunctionOnSet(cash'[a], Venues)
          = SumFunctionOnSet(cash[a], Venues) + ((cash[a][v] + pays) - cash[a][v])
    BY <1>1, <1>2, <2>1, EntrySum, FiniteAssumption
  <2> QED BY <1>1, <1>3, <2>1, <2>2
<1>7. CASE qty[a][o] = 0
  BY <1>1, <1>3, <1>4, <1>6, <1>7 DEF Funds
<1>8. CASE qty[a][o] # 0
  <2> DEFINE gain == realized[a][o] + pays - (basis[a][o] + openFees[a][o])
  <2>1. /\ realized[a][o] \in Int /\ basis[a][o] \in Int /\ openFees[a][o] \in Int
        /\ gain \in Int
    BY <1>1, <1>2
  <2>2. realized'[a] = [realized[a] EXCEPT ![o] = gain]
    BY <1>5, <1>8
  <2> HIDE DEF gain
  <2>3. SumFunctionOnSet(realized'[a], Outcomes)
          = SumFunctionOnSet(realized[a], Outcomes) + (gain - realized[a][o])
    BY <1>2, <2>1, <2>2, EntrySum, FiniteAssumption
  <2>4. SumFunctionOnSet(basis'[a], Outcomes)
          = SumFunctionOnSet(basis[a], Outcomes) + (0 - basis[a][o])
    BY <1>2, <1>5, <1>8, <2>1, EntrySum, FiniteAssumption
  <2>5. SumFunctionOnSet(openFees'[a], Outcomes)
          = SumFunctionOnSet(openFees[a], Outcomes) + (0 - openFees[a][o])
    BY <1>2, <1>5, <1>8, <2>1, EntrySum, FiniteAssumption
  <2>6. gain = realized[a][o] + pays - (basis[a][o] + openFees[a][o])
    BY DEF gain
  <2> QED BY <1>1, <1>3, <1>6, <2>1, <2>3, <2>4, <2>5, <2>6 DEF Funds
<1> QED BY <1>7, <1>8

\* What a sweep withdraws from one venue it deposits with the other.
LEMMA SweepKeepsFunds ==
  ASSUME TypeOK, NEW b \in Accounts, NEW from \in Venues, NEW to \in Venues,
         Sweep(b, from, to), NEW a \in Accounts
  PROVE  Funds(a)' = Funds(a)
<1> DEFINE amount == PlannedAmount(b, from, to)
           taken  == [cash[b] EXCEPT ![from] = cash[b][from] - amount]
<1>1. basis' = basis /\ openFees' = openFees /\ realized' = realized
  BY DEF Sweep
<1>2. amount \in Int /\ cash[b] \in [Venues -> Int] /\ from # to
  <2>1. cash[b] \in [Venues -> Int]
    BY BalanceSums
  <2>2. amount \in Int
    BY PlannedInt
  <2> QED BY <2>1, <2>2 DEF Sweep
<1>3. /\ a # b => cash'[a] = cash[a]
      /\ a = b => cash'[a] = [cash[b] EXCEPT ![from] = cash[b][from] - amount,
                                             ![to] = cash[b][to] + amount]
  BY DEF Sweep, TypeOK
<1> HIDE DEF amount
<1>4. CASE a # b
  BY <1>1, <1>3, <1>4 DEF Funds
<1>5. CASE a = b
  <2>1. /\ taken \in [Venues -> Int] /\ taken[to] = cash[b][to]
        /\ cash[b][from] - amount \in Int /\ taken[to] + amount \in Int
        /\ cash[b][from] \in Int /\ cash[b][to] \in Int
    BY <1>2
  <2>2. cash'[a] = [taken EXCEPT ![to] = taken[to] + amount]
    BY <1>2, <1>3, <1>5
  <2>3. SumFunctionOnSet(taken, Venues)
          = SumFunctionOnSet(cash[b], Venues) + ((cash[b][from] - amount) - cash[b][from])
    BY <1>2, <2>1, EntrySum, FiniteAssumption
  <2> HIDE DEF taken
  <2>4. SumFunctionOnSet(cash'[a], Venues)
          = SumFunctionOnSet(taken, Venues) + ((taken[to] + amount) - taken[to])
    <3> DEFINE more == taken[to] + amount
    <3>1. more \in Int
      BY <2>1
    <3> HIDE DEF more
    <3>2. SumFunctionOnSet([taken EXCEPT ![to] = more], Venues)
            = SumFunctionOnSet(taken, Venues) + (more - taken[to])
      BY <2>1, <3>1, EntrySum, FiniteAssumption
    <3> QED BY <2>2, <3>2 DEF more
  <2>5. SumFunctionOnSet(cash[b], Venues) \in Int
    BY BalanceSums
  <2>6. SumFunctionOnSet(cash'[a], Venues) = SumFunctionOnSet(cash[a], Venues)
    BY <1>2, <1>5, <2>1, <2>3, <2>4, <2>5
  <2> QED BY <1>1, <2>6 DEF Funds
<1> QED BY <1>4, <1>5

\* No step of a desk whose tickets cross venues changes what an account has:
\* such a commit is never rolled back.
LEMMA FundsKept ==
  ASSUME IInv, [Next]_vars, crossVenueOnly
  PROVE  crossVenueOnly' /\ \A a \in Accounts : Funds(a)' = Funds(a)
<1>1. TypeOK
  BY DEF IInv
<1>2. ASSUME UNCHANGED <<account, world>>
      PROVE  crossVenueOnly' /\ \A a \in Accounts : Funds(a)' = Funds(a)
  BY <1>2 DEF Funds, account, world
<1>3. CASE UNCHANGED vars
  BY <1>2, <1>3 DEF vars
<1>4. CASE \E o \in Outcomes : Upsert(o)
  BY <1>2, <1>4 DEF Upsert
<1>5. CASE \E a \in Accounts, t \in Tickets : Submit(a, t)
  BY <1>2, <1>5 DEF Submit
<1>6. CASE ApplyFill
  BY <1>1, <1>6, FillKeepsFunds DEF ApplyFill, world
<1>7. CASE RollBack
  BY <1>7, NoRollBack
<1>8. CASE \E o \in Outcomes : SettleOutcome(o)
  BY <1>1, <1>8, SettleKeepsFunds DEF SettleOutcome, world
<1>9. CASE \E a \in Accounts, from, to \in Venues : Sweep(a, from, to)
  BY <1>1, <1>9, SweepKeepsFunds DEF Sweep, world
<1> QED BY <1>3, <1>4, <1>5, <1>6, <1>7, <1>8, <1>9 DEF Next

\* No step creates or destroys money: what the venues hold and what positions
\* cost, less the profit reported, stays what was seeded (apply_fill,
\* settle_outcome_async, apply_transfers).
THEOREM MoneyIsConserved == Spec => []MoneyConserved
<1>1. MoneyConserved <=> (crossVenueOnly => \A a \in Accounts :
                            Funds(a) = StartCash * Cardinality(Venues))
  BY DEF MoneyConserved, Funds
<1>2. Init => MoneyConserved
  <2> SUFFICES ASSUME Init, NEW a \in Accounts
               PROVE  Funds(a) = StartCash * Cardinality(Venues)
    BY <1>1
  <2>1. /\ \A v \in Venues : cash[a][v] = StartCash
        /\ \A o \in Outcomes : basis[a][o] = 0 /\ openFees[a][o] = 0 /\ realized[a][o] = 0
    BY DEF Init, ZeroPerOutcome
  <2>2. SumFunctionOnSet(cash[a], Venues) = StartCash * Cardinality(Venues)
    BY <2>1, FiniteAssumption, MoneyAssumption, SumConstant
  <2>3. /\ SumFunctionOnSet(basis[a], Outcomes) = 0 * Cardinality(Outcomes)
        /\ SumFunctionOnSet(openFees[a], Outcomes) = 0 * Cardinality(Outcomes)
        /\ SumFunctionOnSet(realized[a], Outcomes) = 0 * Cardinality(Outcomes)
    BY <2>1, FiniteAssumption, SumConstant
  <2>4. /\ 0 * Cardinality(Outcomes) = 0
        /\ StartCash * Cardinality(Venues) \in Int
    <3>1. Cardinality(Outcomes) \in Nat /\ Cardinality(Venues) \in Nat
      BY FiniteAssumption, FS_CardinalityType
    <3>2. \A x, y \in Nat : x * y \in Int /\ 0 * x = 0
      OBVIOUS
    <3> QED BY <3>1, <3>2, MoneyAssumption
  <2> QED BY <2>2, <2>3, <2>4 DEF Funds
<1>3. IInv /\ MoneyConserved /\ [Next]_vars => MoneyConserved'
  <2> SUFFICES ASSUME IInv, MoneyConserved, [Next]_vars, crossVenueOnly', NEW a \in Accounts
               PROVE  Funds(a)' = StartCash * Cardinality(Venues)
    BY DEF MoneyConserved, Funds
  <2>1. crossVenueOnly' = crossVenueOnly
    BY DEF Next, Upsert, Submit, ApplyFill, RollBack, SettleOutcome, Sweep, vars, world
  <2> QED BY <1>1, <2>1, FundsKept
<1> QED BY <1>2, <1>3, InvariantHolds, PTL DEF Spec

-----------------------------------------------------------------------------
(* What whole tickets cost.                                                 *)

\* A fee coefficient is at most one, so what a lower price saves outweighs the
\* fee it may add: filling below the limit costs no more, fee included, than
\* the detector priced (limit_price, taker_fee).
LEMMA CheaperFill ==
  ASSUME NEW v \in Venues, NEW px \in 0..Unit, NEW lim \in 0..Unit, px <= lim,
         NEW n \in Nat
  PROVE  px * n + Fee(v, px, n) <= lim * n + Fee(v, lim, n)
<1> DEFINE r   == FeeRate[v]
           den == 100 * Unit
           p   == r * px * (Unit - px) * n
           l   == r * lim * (Unit - lim) * n
           A   == px * n
           B   == lim * n
<1>1. r \in 0..100 /\ Unit \in Nat /\ Unit >= 100
  BY MoneyAssumption, RateAssumption
<1>2. den \in Nat /\ den > 0
  BY <1>1
<1>3. A \in Int /\ B \in Int /\ p \in Int /\ l \in Int
  <2>1. \A x, y \in Int : x * y \in Int
    OBVIOUS
  <2>2. r * px \in Int /\ r * lim \in Int /\ Unit - px \in Int /\ Unit - lim \in Int
    BY <1>1, <2>1
  <2>3. (r * px) * (Unit - px) \in Int /\ (r * lim) * (Unit - lim) \in Int
    BY <2>1, <2>2
  <2> HIDE DEF r
  <2> QED BY <2>1, <2>3
<1>4. den * A + p <= den * B + l
  <2> DEFINE d == lim - px
             s == Unit - lim - px
  <2>1. d \in Nat /\ s \in Int /\ -Unit <= s
    BY <1>1
  <2>2. r * s >= -(100 * Unit)
    <3>1. r * s >= r * (-Unit)
      <4>1. \A x \in Nat, y, z \in Int : z <= y => x * z <= x * y
        OBVIOUS
      <4> HIDE DEF r, s
      <4> QED BY <1>1, <2>1, <4>1
    <3>2. r * (-Unit) = -(r * Unit)
      BY <1>1
    <3>3. r * Unit <= 100 * Unit
      <4>1. \A x, y, z \in Nat : x <= y => x * z <= y * z
        OBVIOUS
      <4> HIDE DEF r
      <4> QED BY <1>1, <4>1
    <3>4. r * s \in Int /\ r * Unit \in Int
      BY <1>1, <2>1
    <3> HIDE DEF r, s
    <3> QED BY <1>1, <3>1, <3>2, <3>3, <3>4
  <2>3. 100 * Unit + r * s \in Nat
    <3>1. r * s \in Int
      BY <1>1, <2>1
    <3> HIDE DEF r, s
    <3> QED BY <1>1, <2>2, <3>1
  <2>4. (n * d) * (100 * Unit + r * s) \in Nat
    <3>1. \A x, y \in Nat : x * y \in Nat
      OBVIOUS
    <3>2. n * d \in Nat
      <4> HIDE DEF d
      <4> QED BY <2>1, <3>1
    <3> HIDE DEF d, r, s
    <3> QED BY <2>3, <3>1, <3>2
  <2>5. (den * B + l) - (den * A + p) = (n * d) * (100 * Unit + r * s)
    <3>1. r \in Int /\ Unit \in Int /\ px \in Int /\ lim \in Int /\ n \in Int
      BY <1>1
    <3> HIDE DEF r
    <3> QED BY <3>1
  <2>6. den * A \in Int /\ den * B \in Int
    <3>1. \A x, y \in Int : x * y \in Int
      OBVIOUS
    <3> HIDE DEF den, A, B
    <3> QED BY <1>2, <1>3, <3>1
  <2> HIDE DEF den, p, l, A, B, d, s, r
  <2> QED BY <1>2, <1>3, <2>4, <2>5, <2>6
<1>5. A + p \div den <= B + l \div den
  <2> HIDE DEF den, p, l, A, B
  <2> DEFINE x == p \div den
             y == l \div den
  <2>1. x \in Int /\ y \in Int /\ den * x <= p /\ l < den * y + den
    BY <1>2, <1>3
  <2> HIDE DEF x, y
  <2>2. den * (A + x) < den * (B + y + 1)
    <3>1. den * (A + x) = den * A + den * x
      BY <1>2, <1>3, <2>1
    <3>2. den * (B + y + 1) = den * B + den * y + den
      BY <1>2, <1>3, <2>1
    <3>3. /\ den * A \in Int /\ den * x \in Int /\ den * B \in Int /\ den * y \in Int
      BY <1>2, <1>3, <2>1
    <3> QED BY <1>2, <1>3, <1>4, <2>1, <3>1, <3>2, <3>3
  <2>3. \A i, j \in Int : den * i < den * j => i < j
    BY <1>2
  <2>4. A + x < B + y + 1
    BY <1>3, <2>1, <2>2, <2>3
  <2> QED BY <1>3, <2>1, <2>4 DEF x, y
<1> QED BY <1>5 DEF Fee

\* A quoted cost is an amount.
LEMMA QuotedNat ==
  ASSUME NEW leg \in Legs
  PROVE  QuotedCost(leg) \in Nat
<1>1. leg.outcome \in Outcomes /\ leg.qty \in Nat /\ leg.limit \in 0..Unit
  BY TicketAssumption, MoneyAssumption DEF Legs
<1>2. VenueOf[leg.outcome] \in Venues
  BY <1>1, VenueAssumption
<1>3. Fee(VenueOf[leg.outcome], leg.limit, leg.qty) \in Nat
  BY <1>1, <1>2, FeeNat
<1>4. leg.limit * leg.qty \in Nat
  <2>1. \A x, y \in Nat : x * y \in Nat
    OBVIOUS
  <2>2. leg.limit \in Nat
    BY <1>1, MoneyAssumption
  <2> QED BY <1>1, <2>1, <2>2
<1> QED BY <1>3, <1>4 DEF QuotedCost

\* A fill the router accepts costs what the detector priced or less
\* (_preview_fill's limit check).
LEMMA FillWithinQuote ==
  ASSUME quote \in [Outcomes -> Quotes], NEW leg \in Legs, PreviewFill(leg)
  PROVE  FillCost(leg) \in Nat /\ QuotedCost(leg) \in Nat /\ FillCost(leg) <= QuotedCost(leg)
<1>1. leg.outcome \in Outcomes /\ leg.qty \in Nat /\ leg.limit \in 0..Unit
  BY TicketAssumption, MoneyAssumption DEF Legs
<1>2. VenueOf[leg.outcome] \in Venues
  BY <1>1, VenueAssumption
<1>3. FillPrice(leg) \in 0..Unit /\ FillPrice(leg) <= leg.limit
  <2>1. FillPrice(leg) \in Nat
    BY FillNat
  <2> QED BY <2>1, <1>1, MoneyAssumption DEF PreviewFill
<1>4. QuotedCost(leg) \in Nat
  BY QuotedNat
<1>5. FillCost(leg) <= QuotedCost(leg)
  BY <1>1, <1>2, <1>3, CheaperFill DEF FillCost, FillFee, QuotedCost
<1> QED BY <1>4, <1>5, FillNat

-----------------------------------------------------------------------------
(* What the buyer's account is in the middle of a commit.                   *)

\* Nothing is filled yet, or the first leg alone is.
Unfilled ==
  /\ legs \in Tickets
  /\ cash[buyer] = snap.cash
  /\ qty[buyer] = snap.qty
  /\ net[buyer] = snap.net
HalfFilledBy(y, n, paid) ==
  /\ Profitable(y, n)
  /\ legs = <<n>>
  /\ paid <= QuotedCost(y)
  /\ cash[buyer] = [snap.cash EXCEPT ![VenueOf[y.outcome]] = @ - paid]
  /\ qty[buyer] = [snap.qty EXCEPT ![y.outcome] = @ + y.qty]
  /\ net[buyer] = [snap.net EXCEPT ![y.outcome] = @ - paid]
HalfFilled == \E y, n \in Legs, paid \in Nat : HalfFilledBy(y, n, paid)
CommitUnderWay == ~LoopFree => settled = {} /\ (Unfilled \/ HalfFilled)

RInv == IInv /\ CommitUnderWay

LEMMA RInvInit == Init => RInv
BY InitIInv DEF RInv, Init, CommitUnderWay, LoopFree

\* The parts of a ticket that is a pair of legs.
LEMMA TicketParts ==
  ASSUME NEW t \in Tickets
  PROVE  /\ t = <<t[1], t[2]>> /\ t[1] \in Legs /\ t[2] \in Legs
         /\ Profitable(t[1], t[2])
         /\ Head(t) = t[1] /\ Tail(t) = <<t[2]>> /\ t # <<>>
<1>1. PICK y \in Legs, n \in Legs : t = <<y, n>>
  BY DEF Tickets
<1>2. Profitable(t[1], t[2])
  BY DEF Tickets
<1>3. Head(<<y, n>>) = y /\ Tail(<<y, n>>) = <<n>> /\ <<y, n>> # <<>>
  OBVIOUS
<1> QED BY <1>1, <1>2, <1>3

LEMMA SubmitUnderWay ==
  ASSUME RInv, NEW a \in Accounts, NEW t \in Tickets, Submit(a, t)
  PROVE  CommitUnderWay'
<1>1. Unfilled'
  BY DEF Submit, Unfilled, account, Tickets, Profitable, QuotedCost, Fee
<1>2. settled' = {}
  BY DEF Submit
<1> QED BY <1>1, <1>2 DEF CommitUnderWay

\* The first leg fills, and the second is left; or the second does.
LEMMA FillUnderWay ==
  ASSUME RInv, ApplyFill
  PROVE  CommitUnderWay'
<1>1. TypeOK /\ settled = {} /\ (Unfilled \/ HalfFilled)
  BY DEF RInv, IInv, CommitUnderWay, ApplyFill, LoopFree
<1>2. CASE Unfilled
  <2>1. PICK y \in Legs, n \in Legs :
           /\ Profitable(y, n) /\ Head(legs) = y /\ Tail(legs) = <<n>> /\ <<n>> # <<>>
    <3>1. legs[1] \in Legs /\ legs[2] \in Legs /\ Profitable(legs[1], legs[2])
          /\ Head(legs) = legs[1] /\ Tail(legs) = <<legs[2]>> /\ <<legs[2]>> # <<>>
      BY <1>2, TicketParts DEF Unfilled
    <3> QED BY <3>1
  <2>2. PICK paid \in Nat : paid = FillCost(y) /\ paid <= QuotedCost(y)
    BY <1>1, <2>1, FillWithinQuote DEF ApplyFill, TypeOK
  <2>3. /\ cash' = [cash EXCEPT ![buyer][VenueOf[y.outcome]] = @ - paid]
        /\ qty' = [qty EXCEPT ![buyer][y.outcome] = @ + y.qty]
        /\ net' = [net EXCEPT ![buyer][y.outcome] = @ - paid]
        /\ legs' = <<n>> /\ snap' = snap /\ buyer' = buyer /\ settled' = settled
    BY <2>1, <2>2 DEF ApplyFill
  <2>4. buyer \in Accounts /\ cash \in [Accounts -> [Venues -> Int]]
        /\ qty \in [Accounts -> [Outcomes -> Nat]]
        /\ net \in [Accounts -> [Outcomes -> Int]]
    BY <1>1 DEF TypeOK, Amounts
  <2>5. /\ cash'[buyer] = [snap.cash EXCEPT ![VenueOf[y.outcome]] = @ - paid]
        /\ qty'[buyer] = [snap.qty EXCEPT ![y.outcome] = @ + y.qty]
        /\ net'[buyer] = [snap.net EXCEPT ![y.outcome] = @ - paid]
    BY <1>2, <2>3, <2>4 DEF Unfilled
  <2>6. HalfFilledBy(y, n, paid)'
    BY <2>1, <2>2, <2>3, <2>5 DEF HalfFilledBy, Profitable, QuotedCost, Fee
  <2> QED BY <1>1, <2>3, <2>6 DEF CommitUnderWay, HalfFilled
<1>3. CASE HalfFilled
  <2>1. PICK n \in Legs : legs = <<n>>
    BY <1>3 DEF HalfFilled, HalfFilledBy
  <2>2. legs' = <<>>
    BY <2>1 DEF ApplyFill
  <2> QED BY <2>2 DEF CommitUnderWay, LoopFree
<1> QED BY <1>1, <1>2, <1>3

LEMMA RInvStep == RInv /\ [Next]_vars => RInv'
<1> SUFFICES ASSUME RInv, [Next]_vars PROVE RInv'
  OBVIOUS
<1>1. IInv'
  BY InvariantStep DEF RInv
<1>2. CommitUnderWay'
  <2>1. CASE UNCHANGED vars
    <3>1. legs' = legs /\ snap' = snap /\ buyer' = buyer /\ cash' = cash /\ qty' = qty
          /\ net' = net /\ settled' = settled
      BY <2>1 DEF vars, account, commit
    <3> QED BY <3>1 DEF RInv, CommitUnderWay, LoopFree, Unfilled, HalfFilled, HalfFilledBy
  <2>2. CASE \E o \in Outcomes : Upsert(o)
    BY <2>2 DEF Upsert, CommitUnderWay, LoopFree, commit
  <2>3. CASE \E a \in Accounts, t \in Tickets : Submit(a, t)
    BY <2>3, SubmitUnderWay
  <2>4. CASE ApplyFill
    BY <2>4, FillUnderWay
  <2>5. CASE RollBack
    BY <2>5 DEF RollBack, CommitUnderWay, LoopFree
  <2>6. CASE \E o \in Outcomes : SettleOutcome(o)
    BY <2>6 DEF SettleOutcome, CommitUnderWay, LoopFree, commit
  <2>7. CASE \E a \in Accounts, from, to \in Venues : Sweep(a, from, to)
    BY <2>7 DEF Sweep, CommitUnderWay, LoopFree, commit
  <2> QED BY <2>1, <2>2, <2>3, <2>4, <2>5, <2>6, <2>7 DEF Next
<1> QED BY <1>1, <1>2 DEF RInv

-----------------------------------------------------------------------------
(* Every step of the brokers is a step of the atomic ticket, or none.       *)

LEMMA RefinesInit == Init => Atomic!Init
BY DEF Init, Atomic!Init, CommittedCash, CommittedQty, LoopFree, ZeroPerVenue,
   ZeroPerOutcome

\* Nothing an observer of committed accounts sees changes.
Unseen == UNCHANGED <<CommittedCash, CommittedQty, yesPays, settled>>

LEMMA UpsertUnseen ==
  ASSUME NEW o \in Outcomes, Upsert(o)
  PROVE  Unseen
BY DEF Upsert, Unseen, CommittedCash, CommittedQty, LoopFree, account, commit, world

LEMMA SubmitUnseen ==
  ASSUME RInv, NEW a \in Accounts, NEW t \in Tickets, Submit(a, t)
  PROVE  Unseen
<1>1. legs' = t /\ t # <<>> /\ buyer' = a /\ snap'.cash = cash[a] /\ snap'.qty = qty[a]
      /\ cash' = cash /\ qty' = qty /\ yesPays' = yesPays /\ settled' = settled
  BY TicketParts DEF Submit, account, world
<1>2. cash \in [Accounts -> [Venues -> Int]] /\ qty \in [Accounts -> [Outcomes -> Nat]]
  BY DEF RInv, IInv, TypeOK, Amounts
<1>3. LoopFree
  BY DEF Submit
<1> QED BY <1>1, <1>2, <1>3 DEF Unseen, CommittedCash, CommittedQty, LoopFree

LEMMA RollBackUnseen ==
  ASSUME RollBack
  PROVE  Unseen
BY DEF RollBack, Unseen, CommittedCash, CommittedQty, LoopFree, world

LEMMA FirstFillUnseen ==
  ASSUME RInv, ApplyFill, Unfilled
  PROVE  Unseen
<1>1. TypeOK
  BY DEF RInv, IInv
<1>2. Tail(legs) # <<>> /\ legs # <<>>
  BY TicketParts DEF Unfilled
<1>3. Head(legs) \in Legs /\ Head(legs).outcome \in Outcomes
      /\ VenueOf[Head(legs).outcome] \in Venues
  BY TicketParts, VenueAssumption DEF Unfilled, Legs
<1>4. /\ cash \in [Accounts -> [Venues -> Int]] /\ qty \in [Accounts -> [Outcomes -> Nat]]
      /\ buyer \in Accounts
  BY <1>1 DEF TypeOK, Amounts
<1>5. PICK c, k :
        /\ cash' = [cash EXCEPT ![buyer][VenueOf[Head(legs).outcome]] = c]
        /\ qty' = [qty EXCEPT ![buyer][Head(legs).outcome] = k]
  BY DEF ApplyFill
<1>6. /\ legs' # <<>> /\ snap' = snap /\ buyer' = buyer
      /\ yesPays' = yesPays /\ settled' = settled
  BY <1>2 DEF ApplyFill, world
<1>7. /\ [cash' EXCEPT ![buyer] = snap.cash] = [cash EXCEPT ![buyer] = snap.cash]
      /\ [qty' EXCEPT ![buyer] = snap.qty] = [qty EXCEPT ![buyer] = snap.qty]
  BY <1>4, <1>5
<1> QED BY <1>2, <1>6, <1>7 DEF Unseen, CommittedCash, CommittedQty, LoopFree

\* The second leg fills, and the ticket shows: both legs, within the dollar.
LEMMA SecondFillShows ==
  ASSUME RInv, ApplyFill, HalfFilled
  PROVE  \E y, n \in Outcomes : Atomic!FillTicket(buyer, y, n)
<1> DEFINE C == [cash EXCEPT ![buyer] = snap.cash]
           Q == [qty EXCEPT ![buyer] = snap.qty]
<1>1. TypeOK /\ settled = {} /\ IInv'
  BY InvariantStep DEF RInv, IInv, CommitUnderWay, ApplyFill, LoopFree, Next
<1>2. PICK y \in Legs, n \in Legs, paid \in Nat :
        /\ Profitable(y, n)
        /\ legs = <<n>>
        /\ paid <= QuotedCost(y)
        /\ cash[buyer] = [snap.cash EXCEPT ![VenueOf[y.outcome]] = @ - paid]
        /\ qty[buyer] = [snap.qty EXCEPT ![y.outcome] = @ + y.qty]
  BY DEF HalfFilled, HalfFilledBy
<1> DEFINE oy == y.outcome
           on == n.outcome
           vy == VenueOf[oy]
           vn == VenueOf[on]
           k  == y.qty
           d  == FillCost(n)
<1>3. /\ oy \in Outcomes /\ on \in Outcomes /\ oy # on
      /\ IsYesSide[oy] /\ ~IsYesSide[on]
      /\ k \in Nat /\ k > 0 /\ n.qty = k
      /\ vy \in Venues /\ vn \in Venues
      /\ QuotedCost(y) + QuotedCost(n) < Unit * k
  <2>1. oy \in Outcomes /\ on \in Outcomes /\ k \in TicketQtys
    BY <1>2 DEF Legs
  <2>2. vy \in Venues /\ vn \in Venues /\ k \in Nat /\ k > 0
    <3>1. TicketQtys \subseteq Nat \ {0}
      BY TicketAssumption
    <3>2. k \in Nat /\ k > 0
      <4> HIDE DEF k
      <4> QED BY <2>1, <3>1
    <3>3. vy \in Venues /\ vn \in Venues
      <4> HIDE DEF oy, on
      <4> QED BY <2>1, VenueAssumption
    <3> QED BY <3>2, <3>3
  <2>3. /\ IsYesSide[oy] /\ ~IsYesSide[on] /\ n.qty = k
        /\ QuotedCost(y) + QuotedCost(n) < Unit * k
    BY <1>2 DEF Profitable
  <2>4. oy # on
    BY <2>3
  <2> QED BY <2>1, <2>2, <2>3, <2>4
<1>4. Head(legs) = n /\ Tail(legs) = <<>>
  BY <1>2
<1>5. d \in Nat /\ QuotedCost(n) \in Nat /\ d <= QuotedCost(n)
  <2>1. PreviewFill(n)
    BY <1>4 DEF ApplyFill
  <2> QED BY <2>1, <1>1, FillWithinQuote DEF TypeOK
<1>6. QuotedCost(y) \in Nat
  <2>1. k \in Nat /\ y.limit \in 0..Unit /\ y.limit \in Nat
    <3>1. y.limit \in 0..Unit
      BY <1>2, MoneyAssumption DEF Legs
    <3> QED BY <3>1, <1>3, MoneyAssumption
  <2>2. Fee(vy, y.limit, k) \in Nat
    BY <1>3, <2>1, FeeNat
  <2>3. y.limit * k \in Nat
    <3>1. \A i, j \in Nat : i * j \in Nat
      OBVIOUS
    <3> QED BY <2>1, <3>1
  <2> QED BY <2>2, <2>3 DEF QuotedCost
<1>7. paid + d < Unit * k
  <2>1. Unit * k \in Nat
    BY <1>3, MoneyAssumption
  <2> QED BY <1>2, <1>3, <1>5, <1>6, <2>1
<1>8. /\ cash' = [cash EXCEPT ![buyer][vn] = @ - d]
      /\ qty' = [qty EXCEPT ![buyer][on] = @ + k]
      /\ legs' = <<>> /\ buyer' = buyer /\ yesPays' = yesPays /\ settled' = settled
  BY <1>3, <1>4 DEF ApplyFill, world
<1>9. /\ CommittedCash = C /\ CommittedCash' = cash'
      /\ CommittedQty = Q /\ CommittedQty' = qty'
  BY <1>2, <1>8 DEF CommittedCash, CommittedQty, LoopFree
<1>10. /\ buyer \in Accounts
       /\ cash \in [Accounts -> [Venues -> Int]] /\ snap.cash \in [Venues -> Int]
       /\ qty \in [Accounts -> [Outcomes -> Nat]] /\ snap.qty \in [Outcomes -> Nat]
  BY <1>1 DEF TypeOK, Amounts
<1> HIDE DEF oy, on, vy, vn, k, d
<1>11. /\ C[buyer] = snap.cash /\ Q[buyer] = snap.qty
       /\ C \in [Accounts -> [Venues -> Int]] /\ Q \in [Accounts -> [Outcomes -> Nat]]
  BY <1>10
<1>12. /\ cash[buyer] = [snap.cash EXCEPT ![vy] = @ - paid]
       /\ qty[buyer] = [snap.qty EXCEPT ![oy] = @ + k]
  BY <1>2 DEF vy, oy, k
<1>13. /\ cash' = [C EXCEPT ![buyer] = [cash[buyer] EXCEPT ![vn] = @ - d]]
       /\ qty' = [Q EXCEPT ![buyer] = [qty[buyer] EXCEPT ![on] = @ + k]]
  BY <1>3, <1>8, <1>10
<1>14. qty'[buyer] = [snap.qty EXCEPT ![oy] = @ + k, ![on] = @ + k]
  BY <1>3, <1>10, <1>11, <1>12, <1>13
<1>15. qty'[buyer][oy] - Q[buyer][oy] = k
  BY <1>3, <1>10, <1>11, <1>14
<1>16. qty' = [Q EXCEPT ![buyer] = [Q[buyer] EXCEPT ![oy] = Q[buyer][oy] + k,
                                                    ![on] = Q[buyer][on] + k]]
  BY <1>3, <1>10, <1>11, <1>13, <1>14
<1>17. cash' = [C EXCEPT ![buyer] = [C[buyer] EXCEPT ![vy] = cash'[buyer][vy],
                                                     ![vn] = cash'[buyer][vn]]]
  <2>1. cash'[buyer] = [[snap.cash EXCEPT ![vy] = @ - paid] EXCEPT ![vn] = @ - d]
    BY <1>3, <1>10, <1>11, <1>12, <1>13
  <2>2. cash'[buyer] = [snap.cash EXCEPT ![vy] = cash'[buyer][vy],
                                         ![vn] = cash'[buyer][vn]]
    BY <2>1, <1>3, <1>10
  <2> QED BY <1>10, <1>11, <1>13, <2>2
<1>18. /\ vy # vn => /\ C[buyer][vy] - cash'[buyer][vy] = paid
                     /\ C[buyer][vn] - cash'[buyer][vn] = d
       /\ vy = vn => C[buyer][vy] - cash'[buyer][vy] = paid + d
  BY <1>2, <1>3, <1>5, <1>10, <1>11, <1>12, <1>13
<1>19. cash'[buyer][vy] >= 0 /\ cash'[buyer][vn] >= 0
  BY <1>1, <1>3, <1>10 DEF IInv, NoOverdraft
<1>20. C[buyer][vy] - cash'[buyer][vy] >= 0 /\ C[buyer][vn] - cash'[buyer][vn] >= 0
  BY <1>2, <1>5, <1>18
<1>21. (IF vy = vn THEN C[buyer][vy] - cash'[buyer][vy]
        ELSE (C[buyer][vy] - cash'[buyer][vy]) + (C[buyer][vn] - cash'[buyer][vn])) < Unit * k
  BY <1>7, <1>18
<1> HIDE DEF C, Q
<1>22. Atomic!FillTicket(buyer, oy, on)
  BY <1>1, <1>3, <1>8, <1>9, <1>15, <1>16, <1>17, <1>19, <1>20, <1>21
     DEF Atomic!FillTicket, vy, vn
<1> QED BY <1>3, <1>22

\* A settlement pays and closes what every account committed.
LEMMA SettleShows ==
  ASSUME RInv, NEW o \in Outcomes, SettleOutcome(o)
  PROVE  Atomic!SettleOutcome(o)
<1>1. /\ CommittedCash = cash /\ CommittedQty = qty
      /\ CommittedCash' = cash' /\ CommittedQty' = qty'
      /\ o \notin settled /\ settled' = settled \cup {o} /\ yesPays' = yesPays
  BY DEF SettleOutcome, CommittedCash, CommittedQty, LoopFree, commit, world
<1>2. qty \in [Accounts -> [Outcomes -> Nat]]
  BY DEF RInv, IInv, TypeOK, Amounts
<1>3. qty' = [a \in Accounts |-> [qty[a] EXCEPT ![o] = 0]]
  <2>1. qty' = [a \in Accounts |-> IF qty[a][o] # 0 THEN [qty[a] EXCEPT ![o] = 0] ELSE qty[a]]
    BY DEF SettleOutcome
  <2> QED BY <2>1, <1>2
<1>4. cash' = [a \in Accounts |->
                 [cash[a] EXCEPT ![VenueOf[o]] = @ + ResolvedValue(o) * qty[a][o]]]
  BY DEF SettleOutcome
<1> QED BY <1>1, <1>3, <1>4 DEF Atomic!SettleOutcome, Atomic!ResolvedValue, ResolvedValue

\* A sweep moves a positive amount the source has.
LEMMA SweepShows ==
  ASSUME RInv, NEW a \in Accounts, NEW from \in Venues, NEW to \in Venues, Sweep(a, from, to)
  PROVE  Atomic!Sweep(a, from, to)
<1> DEFINE amount == PlannedAmount(a, from, to)
<1>1. /\ CommittedCash = cash /\ CommittedQty = qty
      /\ CommittedCash' = cash' /\ CommittedQty' = qty'
      /\ settled' = settled /\ yesPays' = yesPays /\ qty' = qty /\ from # to
  BY DEF Sweep, CommittedCash, CommittedQty, LoopFree, commit, world
<1>2. cash \in [Accounts -> [Venues -> Int]]
  BY DEF RInv, IInv, TypeOK
<1>3. amount \in Int
  <2>1. Cent \in Nat \ {0}
    BY MoneyAssumption DEF Cent
  <2> QED BY <1>2, <2>1 DEF PlannedAmount
<1>4. amount > 0 /\ amount <= cash[a][from]
  BY <1>3, MoneyAssumption DEF Sweep
<1>5. cash' = [cash EXCEPT ![a] = [cash[a] EXCEPT ![from] = cash[a][from] - amount,
                                                  ![to] = cash[a][to] + amount]]
  BY DEF Sweep
<1> HIDE DEF amount
<1>6. cash'[a][from] = cash[a][from] - amount
  BY <1>1, <1>2, <1>3, <1>5
<1>7. cash[a][from] - cash'[a][from] = amount /\ cash'[a][from] >= 0
  BY <1>2, <1>3, <1>4, <1>6
<1> QED BY <1>1, <1>4, <1>5, <1>7 DEF Atomic!Sweep

LEMMA RefinesStep == RInv /\ [Next]_vars => [Atomic!Next]_(Atomic!ticketVars)
<1> SUFFICES ASSUME RInv, [Next]_vars PROVE Atomic!Next \/ Unseen
  BY DEF Unseen, Atomic!ticketVars
<1>1. CASE UNCHANGED vars
  BY <1>1 DEF Unseen, CommittedCash, CommittedQty, LoopFree, vars, account, commit, world
<1>2. CASE \E o \in Outcomes : Upsert(o)
  BY <1>2, UpsertUnseen
<1>3. CASE \E a \in Accounts, t \in Tickets : Submit(a, t)
  BY <1>3, SubmitUnseen
<1>4. CASE ApplyFill
  <2>1. Unfilled \/ HalfFilled
    BY <1>4 DEF RInv, CommitUnderWay, ApplyFill, LoopFree
  <2>2. buyer \in Accounts
    BY DEF RInv, IInv, TypeOK
  <2> QED BY <1>4, <2>1, <2>2, FirstFillUnseen, SecondFillShows DEF Atomic!Next
<1>5. CASE RollBack
  BY <1>5, RollBackUnseen
<1>6. CASE \E o \in Outcomes : SettleOutcome(o)
  BY <1>6, SettleShows DEF Atomic!Next
<1>7. CASE \E a \in Accounts, from, to \in Venues : Sweep(a, from, to)
  BY <1>7, SweepShows DEF Atomic!Next
<1> QED BY <1>1, <1>2, <1>3, <1>4, <1>5, <1>6, <1>7 DEF Next

\* The brokers and the router implement the atomic ticket: every ticket fills
\* on both legs at once, one of each side and for less than it will pay, or
\* leaves the accounts as they were (ExecutionRouter.submit,
\* _commit_atomically, restore_account).
THEOREM TicketsAreAtomic == Spec => RefinesAtomicTicket
<1>1. RInv /\ [Next]_vars => RInv'
  BY RInvStep
<1> QED BY RInvInit, <1>1, RefinesInit, RefinesStep, PTL
        DEF Spec, RefinesAtomicTicket, Atomic!Spec

-----------------------------------------------------------------------------
(* As many YES as NO contracts.                                             *)

YesSide == {o \in Outcomes : IsYesSide[o]}
NoSide  == {o \in Outcomes : ~IsYesSide[o]}
Balanced(held) == SumFunctionOnSet(held, YesSide) = SumFunctionOnSet(held, NoSide)

\* Outside a commit every account is balanced; inside one, the buyer's would
\* be if the snapshot were put back.
PairInv ==
  settled = {} =>
    /\ \A a \in Accounts : LoopFree \/ a # buyer => Balanced(qty[a])
    /\ ~LoopFree => Balanced(snap.qty)

\* One more holding of an outcome counts on its own side alone.
LEMMA SideSum ==
  ASSUME NEW S \in SUBSET Outcomes, NEW f \in [Outcomes -> Int], NEW x \in Outcomes,
         NEW k \in Int, NEW g \in [Outcomes -> Int], g[x] = f[x] + k,
         \A y \in Outcomes \ {x} : g[y] = f[y]
  PROVE  /\ SumFunctionOnSet(f, S) \in Int
         /\ x \in S => SumFunctionOnSet(g, S) = SumFunctionOnSet(f, S) + k
         /\ x \notin S => SumFunctionOnSet(g, S) = SumFunctionOnSet(f, S)
<1>1. /\ \A y \in S : f[y] \in Int /\ g[y] \in Int
      /\ \A y \in S \ {x} : g[y] = f[y]
      /\ f[x] \in Int
  OBVIOUS
<1>2. IsFiniteSet(S)
  BY FiniteAssumption, FS_Subset
<1>3. SumFunctionOnSet(f, S) \in Int
  BY <1>1, <1>2, SumSplit
<1>4. ASSUME x \in S
      PROVE  SumFunctionOnSet(g, S) = SumFunctionOnSet(f, S) + k
  <2>1. SumFunctionOnSet(g, S) = SumFunctionOnSet(f, S) + (g[x] - f[x])
    BY <1>1, <1>2, <1>4, SumUpdate
  <2> QED BY <1>1, <1>3, <2>1
<1>5. ASSUME x \notin S
      PROVE  SumFunctionOnSet(g, S) = SumFunctionOnSet(f, S)
  <2>1. \A y \in S : g[y] \in Int /\ g[y] = f[y]
    BY <1>1, <1>5
  <2> QED BY <1>2, <2>1, SumSame
<1> QED BY <1>3, <1>4, <1>5

\* As many of a YES as of a NO keeps a balance.
LEMMA PairBalances ==
  ASSUME NEW f \in [Outcomes -> Int], Balanced(f), NEW k \in Int,
         NEW y \in YesSide, NEW n \in NoSide
  PROVE  LET g == [f EXCEPT ![y] = f[y] + k]
         IN Balanced([g EXCEPT ![n] = g[n] + k])
<1> DEFINE g == [f EXCEPT ![y] = f[y] + k]
           h == [g EXCEPT ![n] = g[n] + k]
<1>1. /\ YesSide \in SUBSET Outcomes /\ NoSide \in SUBSET Outcomes
      /\ y \in Outcomes /\ n \in Outcomes /\ y \notin NoSide /\ n \notin YesSide
  BY DEF YesSide, NoSide
<1>2. g \in [Outcomes -> Int] /\ g[y] = f[y] + k /\ \A z \in Outcomes \ {y} : g[z] = f[z]
  BY <1>1
<1> HIDE DEF g
<1>3. h \in [Outcomes -> Int] /\ h[n] = g[n] + k /\ \A z \in Outcomes \ {n} : h[z] = g[z]
  BY <1>1, <1>2
<1> HIDE DEF h
<1>4. /\ SumFunctionOnSet(f, YesSide) \in Int
      /\ SumFunctionOnSet(g, YesSide) = SumFunctionOnSet(f, YesSide) + k
  BY <1>1, <1>2, SideSum
<1>5. SumFunctionOnSet(g, NoSide) = SumFunctionOnSet(f, NoSide)
  <2>1. \A z \in NoSide : f[z] \in Int /\ f[z] = g[z]
    BY <1>1, <1>2
  <2>2. IsFiniteSet(NoSide)
    BY <1>1, FiniteAssumption, FS_Subset
  <2> QED BY <2>1, <2>2, SumSame
<1>6. SumFunctionOnSet(h, NoSide) = SumFunctionOnSet(g, NoSide) + k
  BY <1>1, <1>2, <1>3, SideSum
<1>7. SumFunctionOnSet(h, YesSide) = SumFunctionOnSet(g, YesSide)
  BY <1>1, <1>2, <1>3, SideSum
<1>8. Balanced(h)
  BY <1>4, <1>5, <1>6, <1>7 DEF Balanced
<1> QED BY <1>8 DEF g, h

\* What the buyer holds, and what has moved on its account, once the second
\* leg fills.
SecondFillOf(y, n, p, c) ==
  /\ Profitable(y, n) /\ p <= QuotedCost(y) /\ c <= QuotedCost(n)
  /\ QuotedCost(y) \in Nat /\ QuotedCost(n) \in Nat
  /\ qty[buyer] = [snap.qty EXCEPT ![y.outcome] = snap.qty[y.outcome] + y.qty]
  /\ qty'[buyer] = [qty[buyer] EXCEPT ![n.outcome] = qty[buyer][n.outcome] + n.qty]
  /\ net[buyer] = [snap.net EXCEPT ![y.outcome] = snap.net[y.outcome] - p]
  /\ net'[buyer] = [net[buyer] EXCEPT ![n.outcome] = net[buyer][n.outcome] - c]
  /\ legs' = <<>> /\ snap' = NoSnap

LEMMA SecondFill ==
  ASSUME RInv, ApplyFill, HalfFilled
  PROVE  \E y, n \in Legs, p, c \in Nat : SecondFillOf(y, n, p, c)
<1>1. TypeOK
  BY DEF RInv, IInv
<1>2. PICK y \in Legs, n \in Legs, p \in Nat : HalfFilledBy(y, n, p)
  BY DEF HalfFilled
<1>3. Head(legs) = n /\ Tail(legs) = <<>>
  BY <1>2 DEF HalfFilledBy
<1>4. /\ FillCost(n) \in Nat /\ FillCost(n) <= QuotedCost(n) /\ QuotedCost(n) \in Nat
  BY <1>1, <1>3, FillWithinQuote DEF ApplyFill, TypeOK
<1>5. QuotedCost(y) \in Nat
  BY QuotedNat
<1>6. /\ qty'[buyer] = [qty[buyer] EXCEPT ![n.outcome] = qty[buyer][n.outcome] + n.qty]
      /\ net'[buyer] = [net[buyer] EXCEPT ![n.outcome] = net[buyer][n.outcome] - FillCost(n)]
  BY <1>1, <1>3, FillEntries
<1>7. legs' = <<>> /\ snap' = NoSnap
  BY <1>3 DEF ApplyFill
<1>8. PICK c \in Nat : c = FillCost(n)
  BY <1>4
<1>9. SecondFillOf(y, n, p, c)
  BY <1>2, <1>4, <1>5, <1>6, <1>7, <1>8 DEF SecondFillOf, HalfFilledBy
<1> QED BY <1>9

LEMMA PairStep ==
  ASSUME RInv, PairInv, [Next]_vars
  PROVE  PairInv'
<1>1. TypeOK
  BY DEF RInv, IInv
<1>2. CASE UNCHANGED <<qty, legs, snap, buyer, settled>>
  BY <1>2 DEF PairInv, LoopFree, Balanced
<1>3. CASE UNCHANGED vars
  BY <1>2, <1>3 DEF vars, account, commit
<1>4. CASE \E o \in Outcomes : Upsert(o)
  BY <1>2, <1>4 DEF Upsert, account, commit
<1>5. CASE \E a \in Accounts, t \in Tickets : Submit(a, t)
  <2>1. /\ LoopFree /\ qty' = qty /\ settled' = settled /\ buyer' \in Accounts
        /\ snap'.qty = qty[buyer']
    BY <1>5 DEF Submit, account
  <2> QED BY <2>1 DEF PairInv, Balanced
<1>6. CASE ApplyFill
  <2>1. settled' = settled /\ settled = {} /\ buyer' = buyer /\ ~LoopFree
    BY <1>6 DEF ApplyFill, LoopFree, RInv, CommitUnderWay
  <2>2. \A a \in Accounts : a # buyer => qty'[a] = qty[a]
    BY <1>1, <1>6, FillEntries
  <2>3. CASE Unfilled
    <3>1. legs' # <<>> /\ snap' = snap
      BY <1>6, <2>3, TicketParts DEF ApplyFill, Unfilled
    <3> QED BY <2>1, <2>2, <3>1 DEF PairInv, LoopFree, Balanced
  <2>4. CASE HalfFilled
    <3>6. PICK y \in Legs, n \in Legs, p \in Nat, c \in Nat : SecondFillOf(y, n, p, c)
      BY <1>6, <2>4, SecondFill
    <3>1. /\ Profitable(y, n)
          /\ qty[buyer] = [snap.qty EXCEPT ![y.outcome] = snap.qty[y.outcome] + y.qty]
          /\ qty'[buyer] = [qty[buyer] EXCEPT ![n.outcome] = qty[buyer][n.outcome] + n.qty]
          /\ legs' = <<>>
      BY <3>6 DEF SecondFillOf
    <3>2. y.outcome \in YesSide /\ n.outcome \in NoSide /\ n.qty = y.qty
      BY <3>1 DEF Profitable, Legs, YesSide, NoSide
    <3> DEFINE k == y.qty
    <3>5. k \in Int
      <4>1. k \in TicketQtys
        BY DEF Legs
      <4> HIDE DEF k
      <4> QED BY <4>1, TicketAssumption
    <3>3. snap.qty \in [Outcomes -> Int] /\ Balanced(snap.qty)
      BY <1>1, <2>1 DEF TypeOK, PairInv
    <3>4. Balanced(qty'[buyer])
      <4> DEFINE g == [snap.qty EXCEPT ![y.outcome] = snap.qty[y.outcome] + k]
      <4>1. qty'[buyer] = [g EXCEPT ![n.outcome] = g[n.outcome] + k]
        BY <3>1, <3>2
      <4> HIDE DEF k
      <4>2. Balanced([g EXCEPT ![n.outcome] = g[n.outcome] + k])
        BY <3>2, <3>3, <3>5, PairBalances
      <4> QED BY <4>1, <4>2
    <3> QED BY <2>1, <2>2, <3>1, <3>4 DEF PairInv, LoopFree, Balanced
  <2> QED BY <2>1, <2>3, <2>4 DEF RInv, CommitUnderWay
<1>7. CASE RollBack
  <2>1. /\ settled' = settled /\ settled = {} /\ buyer' = buyer /\ ~LoopFree
        /\ legs' = <<>> /\ buyer \in Accounts
        /\ qty' = [qty EXCEPT ![buyer] = snap.qty]
    BY <1>1, <1>7 DEF RollBack, LoopFree, RInv, CommitUnderWay, TypeOK
  <2>2. qty'[buyer] = snap.qty /\ \A a \in Accounts : a # buyer => qty'[a] = qty[a]
    BY <1>1, <2>1 DEF TypeOK, Amounts
  <2> QED BY <2>1, <2>2 DEF PairInv, LoopFree, Balanced
<1>8. CASE \E o \in Outcomes : SettleOutcome(o)
  <2>1. settled' # {}
    BY <1>8 DEF SettleOutcome
  <2> QED BY <2>1 DEF PairInv
<1>9. CASE \E a \in Accounts, from, to \in Venues : Sweep(a, from, to)
  BY <1>2, <1>9 DEF Sweep, commit
<1> QED BY <1>3, <1>4, <1>5, <1>6, <1>7, <1>8, <1>9 DEF Next

\* No account is left with a leg the other side does not cover: between
\* tickets, and until the game settles, it holds as many YES as NO contracts,
\* whichever legs were refused on the way (_commit_atomically: "no naked leg").
THEOREM NoLegIsNaked == Spec => []NoNakedLeg
<1>1. Init => PairInv
  <2> SUFFICES ASSUME Init, NEW a \in Accounts PROVE Balanced(qty[a])
    BY DEF PairInv, Init, LoopFree
  <2>1. \A o \in Outcomes : qty[a][o] = 0
    BY DEF Init, ZeroPerOutcome
  <2>2. \A S \in SUBSET Outcomes : SumFunctionOnSet(qty[a], S) = 0
    <3> SUFFICES ASSUME NEW S \in SUBSET Outcomes PROVE SumFunctionOnSet(qty[a], S) = 0
      OBVIOUS
    <3>1. IsFiniteSet(S) /\ Cardinality(S) \in Nat
      BY FiniteAssumption, FS_Subset, FS_CardinalityType
    <3>2. SumFunctionOnSet(qty[a], S) = 0 * Cardinality(S)
      BY <2>1, <3>1, SumConstant
    <3> QED BY <3>1, <3>2
  <2>3. YesSide \in SUBSET Outcomes /\ NoSide \in SUBSET Outcomes
    BY DEF YesSide, NoSide
  <2> QED BY <2>2, <2>3 DEF Balanced
<1>2. PairInv => NoNakedLeg
  BY DEF PairInv, NoNakedLeg, Balanced, YesSide, NoSide
<1> QED BY <1>1, <1>2, RInvInit, RInvStep, PairStep, PTL DEF Spec

-----------------------------------------------------------------------------
(* A settled game has paid.                                                  *)

\* What has moved on account of each outcome, and what its contracts will
\* still pay.
WorthOf(pays, moved, held) == [o \in Outcomes |-> moved[o] + held[o] * pays[o]]
Worth(pays, moved, held)   == SumFunctionOnSet(WorthOf(pays, moved, held), Outcomes)

\* An account that ever traded the game is worth more than it put in.
Gains(pays, moved, held) ==
  \/ Worth(pays, moved, held) > 0
  \/ \A o \in Outcomes : moved[o] = 0 /\ held[o] = 0

Payout == [o \in Outcomes |-> ResolvedValue(o)]

\* Outside a commit every account gains; inside one, the buyer's would if the
\* snapshot were put back.  A settled outcome is held by nobody.
GainInv ==
  /\ \A a \in Accounts : LoopFree \/ a # buyer => Gains(Payout, net[a], qty[a])
  /\ ~LoopFree => Gains(Payout, snap.net, snap.qty)
  /\ \A o \in settled, a \in Accounts : qty[a][o] = 0

\* What a contract pays is an amount, and a YES and a NO together pay a dollar.
LEMMA PairPays ==
  ASSUME TypeOK
  PROVE  /\ Payout \in [Outcomes -> Int]
         /\ \A y, n \in Outcomes : IsYesSide[y] /\ ~IsYesSide[n] =>
              Payout[y] + Payout[n] = Unit
<1>1. yesPays \in Int /\ Unit \in Int
  BY MoneyAssumption DEF TypeOK
<1> QED BY <1>1 DEF ResolvedValue, Payout

\* One entry per outcome, and one of them changed.
LEMMA OutcomeSum ==
  ASSUME NEW f \in [Outcomes -> Int], NEW g \in [Outcomes -> Int], NEW x \in Outcomes,
         \A y \in Outcomes \ {x} : g[y] = f[y]
  PROVE  /\ SumFunctionOnSet(f, Outcomes) \in Int
         /\ SumFunctionOnSet(g, Outcomes) = SumFunctionOnSet(f, Outcomes) + (g[x] - f[x])
<1>1. \A y \in Outcomes : f[y] \in Int /\ g[y] \in Int
  OBVIOUS
<1> QED BY <1>1, FiniteAssumption, SumUpdate

\* A worth is a sum of integers.
LEMMA WorthTyped ==
  ASSUME NEW w \in [Outcomes -> Int], NEW m \in [Outcomes -> Int],
         NEW h \in [Outcomes -> Int]
  PROVE  WorthOf(w, m, h) \in [Outcomes -> Int] /\ Worth(w, m, h) \in Int
<1>1. \A o \in Outcomes : m[o] + h[o] * w[o] \in Int
  <2> SUFFICES ASSUME NEW o \in Outcomes PROVE m[o] + h[o] * w[o] \in Int
    OBVIOUS
  <2>1. m[o] \in Int /\ h[o] \in Int /\ w[o] \in Int
    OBVIOUS
  <2>2. \A x, y, z \in Int : x + y * z \in Int
    OBVIOUS
  <2> QED BY <2>1, <2>2
<1>2. WorthOf(w, m, h) \in [Outcomes -> Int]
  BY <1>1 DEF WorthOf
<1>3. \A o \in Outcomes : WorthOf(w, m, h)[o] \in Int
  BY <1>2
<1> QED BY <1>2, <1>3, FiniteAssumption, SumSplit DEF Worth

\* Two accounts that differ in outcome x alone.
OneLegApart(w, x, m, h, m1, h1) ==
  /\ w \in [Outcomes -> Int] /\ x \in Outcomes
  /\ m \in [Outcomes -> Int] /\ h \in [Outcomes -> Int]
  /\ m1 \in [Outcomes -> Int] /\ h1 \in [Outcomes -> Int]
  /\ \A y \in Outcomes \ {x} : m1[y] = m[y] /\ h1[y] = h[y]

\* One leg more: the worth loses what it cost and gains what it will pay.
LEMMA LegWorth ==
  ASSUME NEW w, NEW x, NEW m, NEW h, NEW m1, NEW h1, OneLegApart(w, x, m, h, m1, h1)
  PROVE  /\ Worth(w, m1, h1) = Worth(w, m, h) + (m1[x] - m[x]) + (h1[x] - h[x]) * w[x]
         /\ Worth(w, m, h) \in Int /\ Worth(w, m1, h1) \in Int
<1> USE DEF OneLegApart
<1>1. PICK f \in [Outcomes -> Int], g \in [Outcomes -> Int] :
        f = WorthOf(w, m, h) /\ g = WorthOf(w, m1, h1)
  BY WorthTyped
<1>2. \A y \in Outcomes \ {x} : g[y] = f[y]
  BY <1>1 DEF WorthOf
<1> DEFINE r == w[x]
<1>3. f[x] = m[x] + h[x] * r /\ g[x] = m1[x] + h1[x] * r
  BY <1>1 DEF WorthOf
<1>4. m[x] \in Int /\ h[x] \in Int /\ r \in Int /\ m1[x] \in Int /\ h1[x] \in Int
  OBVIOUS
<1> HIDE DEF r
<1>5. /\ SumFunctionOnSet(f, Outcomes) \in Int
      /\ SumFunctionOnSet(g, Outcomes) = SumFunctionOnSet(f, Outcomes) + (g[x] - f[x])
  BY <1>2, OutcomeSum
<1>6. g[x] - f[x] = (m1[x] - m[x]) + (h1[x] - h[x]) * r
  <2>1. \A a, b, c, d, e \in Int : (c + d * e) - (a + b * e) = (c - a) + (d - b) * e
    OBVIOUS
  <2> QED BY <1>3, <1>4, <2>1
<1>7. (h1[x] - h[x]) * r \in Int
  <2>1. \A a, b, c \in Int : (a - b) * c \in Int
    OBVIOUS
  <2> QED BY <1>4, <2>1
<1>8. Worth(w, m, h) \in Int /\ Worth(w, m1, h1) \in Int
  BY WorthTyped
<1> QED BY <1>1, <1>4, <1>5, <1>6, <1>7, <1>8 DEF Worth, r

\* Nobody is worth less than nothing.
LEMMA GainsNat ==
  ASSUME NEW w \in [Outcomes -> Int], NEW m \in [Outcomes -> Int],
         NEW h \in [Outcomes -> Int], Gains(w, m, h)
  PROVE  Worth(w, m, h) \in Nat
<1>1. Worth(w, m, h) \in Int
  BY WorthTyped
<1>2. CASE \A o \in Outcomes : m[o] = 0 /\ h[o] = 0
  <2>1. \A o \in Outcomes : WorthOf(w, m, h)[o] = 0
    BY <1>2 DEF WorthOf
  <2>2. Worth(w, m, h) = 0 * Cardinality(Outcomes)
    BY <2>1, FiniteAssumption, SumConstant DEF Worth
  <2>3. Cardinality(Outcomes) \in Nat
    BY FiniteAssumption, FS_CardinalityType
  <2> QED BY <2>2, <2>3
<1> QED BY <1>1, <1>2 DEF Gains

\* A pair bought leg by leg, for less than the dollar it pays.
PairBought(w, y, n, k, p, c, m, h, m1, h1, m2, h2) ==
  /\ OneLegApart(w, y, m, h, m1, h1) /\ m1[y] = m[y] - p /\ h1[y] = h[y] + k
  /\ OneLegApart(w, n, m1, h1, m2, h2) /\ m2[n] = m1[n] - c /\ h2[n] = h1[n] + k
  /\ w[y] + w[n] = Unit
  /\ k \in Nat /\ p \in Nat /\ c \in Nat /\ p + c < Unit * k

\* A whole ticket gains: the pair pays a dollar, and cost less.
LEMMA TicketGains ==
  ASSUME NEW w, NEW y, NEW n, NEW k, NEW p, NEW c, NEW m, NEW h, NEW m1, NEW h1,
         NEW m2, NEW h2, PairBought(w, y, n, k, p, c, m, h, m1, h1, m2, h2),
         Gains(w, m, h)
  PROVE  Gains(w, m2, h2)
<1>1. /\ OneLegApart(w, y, m, h, m1, h1) /\ OneLegApart(w, n, m1, h1, m2, h2)
      /\ k \in Int /\ p \in Int /\ c \in Int /\ p + c < Unit * k
  BY DEF PairBought
<1>2. /\ m1[y] - m[y] = -p /\ h1[y] - h[y] = k
      /\ m2[n] - m1[n] = -c /\ h2[n] - h1[n] = k
  <2>1. m[y] \in Int /\ h[y] \in Int /\ m1[n] \in Int /\ h1[n] \in Int
    BY <1>1 DEF OneLegApart
  <2> QED BY <1>1, <2>1 DEF PairBought
<1>3. /\ Worth(w, m1, h1) = Worth(w, m, h) - p + k * w[y]
      /\ Worth(w, m1, h1) \in Int
  <2>1. /\ Worth(w, m1, h1) = Worth(w, m, h) + (m1[y] - m[y]) + (h1[y] - h[y]) * w[y]
        /\ Worth(w, m, h) \in Int /\ Worth(w, m1, h1) \in Int
    BY <1>1, LegWorth
  <2> QED BY <1>1, <1>2, <2>1
<1>4. Worth(w, m2, h2) = Worth(w, m1, h1) - c + k * w[n]
  <2>1. Worth(w, m2, h2) = Worth(w, m1, h1) + (m2[n] - m1[n]) + (h2[n] - h1[n]) * w[n]
    BY <1>1, LegWorth
  <2> QED BY <1>1, <1>2, <1>3, <2>1
<1>5. Worth(w, m, h) \in Nat
  BY <1>1, GainsNat DEF OneLegApart
<1>6. w[y] \in Int /\ w[n] \in Int /\ w[y] + w[n] = Unit
  BY <1>1 DEF OneLegApart, PairBought
<1>7. k * w[y] + k * w[n] = Unit * k /\ k * w[y] \in Int /\ k * w[n] \in Int
  <2>1. \A a, b, d \in Int : d * a + d * b = (a + b) * d /\ d * a \in Int
    OBVIOUS
  <2> QED BY <1>1, <1>6, <2>1
<1> QED BY <1>1, <1>3, <1>4, <1>5, <1>7 DEF Gains

\* The second leg of a commit leaves the buyer worth more than it put in.
LEMMA SecondFillGains ==
  ASSUME RInv, ApplyFill, HalfFilled, Gains(Payout, snap.net, snap.qty)
  PROVE  Gains(Payout, net'[buyer], qty'[buyer])
<1>1. TypeOK
  BY DEF RInv, IInv
<1>2. PICK y \in Legs, n \in Legs, p \in Nat, c \in Nat : SecondFillOf(y, n, p, c)
  BY SecondFill
<1> DEFINE k == y.qty
           i == y.outcome
           j == n.outcome
<1>3. /\ i \in Outcomes /\ j \in Outcomes /\ i # j /\ n.qty = k
      /\ IsYesSide[i] /\ ~IsYesSide[j] /\ k \in TicketQtys
      /\ QuotedCost(y) + QuotedCost(n) < Unit * k
  BY <1>2 DEF SecondFillOf, Profitable, Legs
<1> HIDE DEF k, i, j
<1>4. k \in Nat /\ k \in Int
  BY <1>3, TicketAssumption
<1>5. /\ qty'[buyer] = [qty[buyer] EXCEPT ![j] = qty[buyer][j] + k]
      /\ qty[buyer] = [snap.qty EXCEPT ![i] = snap.qty[i] + k]
      /\ net'[buyer] = [net[buyer] EXCEPT ![j] = net[buyer][j] - c]
      /\ net[buyer] = [snap.net EXCEPT ![i] = snap.net[i] - p]
  BY <1>2, <1>3 DEF SecondFillOf, i, j, k
<1>6. /\ snap.qty \in [Outcomes -> Int] /\ snap.net \in [Outcomes -> Int]
      /\ qty[buyer] \in [Outcomes -> Int] /\ net[buyer] \in [Outcomes -> Int]
      /\ Payout \in [Outcomes -> Int] /\ Payout[i] + Payout[j] = Unit
      /\ net'[buyer] \in [Outcomes -> Int] /\ qty'[buyer] \in [Outcomes -> Int]
  <2>1. Payout \in [Outcomes -> Int] /\ Payout[i] + Payout[j] = Unit
    BY <1>1, <1>3, PairPays
  <2>2. snap.qty \in [Outcomes -> Int] /\ snap.net \in [Outcomes -> Int]
    BY <1>1 DEF TypeOK
  <2>3. qty[buyer] \in [Outcomes -> Int] /\ net[buyer] \in [Outcomes -> Int]
    BY <1>1 DEF TypeOK, Amounts
  <2>4. TypeOK' /\ buyer \in Accounts
    BY <1>1, InvariantStep DEF RInv, IInv, Next, TypeOK
  <2>5. net'[buyer] \in [Outcomes -> Int] /\ qty'[buyer] \in [Outcomes -> Int]
    BY <2>4 DEF TypeOK, Amounts
  <2> QED BY <2>1, <2>2, <2>3, <2>5
<1>7. /\ OneLegApart(Payout, i, snap.net, snap.qty, net[buyer], qty[buyer])
      /\ net[buyer][i] = snap.net[i] - p /\ qty[buyer][i] = snap.qty[i] + k
  BY <1>3, <1>5, <1>6 DEF OneLegApart
<1>8. /\ OneLegApart(Payout, j, net[buyer], qty[buyer], net'[buyer], qty'[buyer])
      /\ net'[buyer][j] = net[buyer][j] - c /\ qty'[buyer][j] = qty[buyer][j] + k
  BY <1>3, <1>4, <1>5, <1>6 DEF OneLegApart
<1>9. p + c < Unit * k
  <2>1. Unit * k \in Int
    <3>1. Unit \in Int
      BY MoneyAssumption
    <3> QED BY <1>4, <3>1
  <2> QED BY <1>2, <1>3, <2>1 DEF SecondFillOf
<1>10. PairBought(Payout, i, j, k, p, c, snap.net, snap.qty, net[buyer], qty[buyer],
                  net'[buyer], qty'[buyer])
  BY <1>4, <1>6, <1>7, <1>8, <1>9 DEF PairBought
<1> QED BY <1>10, TicketGains

\* A settlement pays what the worth had counted.
LEMMA SettleGains ==
  ASSUME TypeOK, NEW o \in Outcomes, SettleOutcome(o), NEW a \in Accounts
  PROVE  /\ Gains(Payout, net[a], qty[a]) => Gains(Payout, net'[a], qty'[a])
         /\ qty'[a][o] = 0
         /\ \A x \in Outcomes : qty[a][x] = 0 => qty'[a][x] = 0
<1> DEFINE pays == ResolvedValue(o) * qty[a][o]
<1>1. /\ pays \in Nat
      /\ net'[a] = [net[a] EXCEPT ![o] = net[a][o] + pays]
      /\ qty[a][o] # 0 => qty'[a] = [qty[a] EXCEPT ![o] = 0]
      /\ qty[a][o] = 0 => pays = 0 /\ qty'[a] = qty[a]
  BY SettleEntries
<1>2. pays = Payout[o] * qty[a][o]
  BY DEF Payout
<1> HIDE DEF pays
<1>3. /\ net[a] \in [Outcomes -> Int] /\ qty[a] \in [Outcomes -> Int]
      /\ net[a][o] \in Int /\ qty[a][o] \in Int
  BY BalanceSums
<1>4. Payout \in [Outcomes -> Int] /\ Payout[o] \in Int
  BY PairPays
<1>5. /\ qty'[a] \in [Outcomes -> Int] /\ qty'[a][o] = 0
      /\ \A x \in Outcomes \ {o} : qty'[a][x] = qty[a][x]
  BY <1>1, <1>3
<1>6. /\ net'[a] \in [Outcomes -> Int] /\ net'[a][o] = net[a][o] + pays
      /\ \A x \in Outcomes \ {o} : net'[a][x] = net[a][x]
  <2>1. net[a][o] + pays \in Int
    BY <1>1, <1>3
  <2> QED BY <1>1, <1>3, <2>1
<1>7. OneLegApart(Payout, o, net[a], qty[a], net'[a], qty'[a])
  BY <1>3, <1>4, <1>5, <1>6 DEF OneLegApart
<1>8. /\ Worth(Payout, net'[a], qty'[a])
           = Worth(Payout, net[a], qty[a])
             + (net'[a][o] - net[a][o]) + (qty'[a][o] - qty[a][o]) * Payout[o]
      /\ Worth(Payout, net[a], qty[a]) \in Int
  BY <1>7, LegWorth
<1>9. (net'[a][o] - net[a][o]) + (qty'[a][o] - qty[a][o]) * Payout[o] = 0
  <2>1. \A x, y, z \in Int : ((x + y * z) - x) + (0 - z) * y = 0
    OBVIOUS
  <2> QED BY <1>2, <1>3, <1>4, <1>5, <1>6, <2>1
<1>10. (net'[a][o] - net[a][o]) \in Int /\ (qty'[a][o] - qty[a][o]) * Payout[o] \in Int
  <2>1. \A x, y, z \in Int : (x - y) * z \in Int /\ x - y \in Int
    OBVIOUS
  <2>2. net'[a][o] \in Int /\ qty'[a][o] \in Int
    BY <1>5, <1>6
  <2> QED BY <1>3, <1>4, <2>1, <2>2
<1>11. Worth(Payout, net'[a], qty'[a]) = Worth(Payout, net[a], qty[a])
  BY <1>8, <1>9, <1>10
<1>12. (\A x \in Outcomes : net[a][x] = 0 /\ qty[a][x] = 0)
         => \A x \in Outcomes : net'[a][x] = 0 /\ qty'[a][x] = 0
  BY <1>1, <1>5, <1>6
<1> QED BY <1>5, <1>11, <1>12 DEF Gains

LEMMA GainStep ==
  ASSUME RInv, GainInv, [Next]_vars
  PROVE  GainInv'
<1>1. TypeOK /\ CommitUnderWay
  BY DEF RInv, IInv
<1>2. Payout' = Payout
  BY DEF Payout, ResolvedValue, Next, Upsert, Submit, ApplyFill, RollBack,
     SettleOutcome, Sweep, vars, world
<1>3. CASE UNCHANGED <<net, qty, legs, snap, buyer, settled>>
  BY <1>2, <1>3 DEF GainInv, LoopFree
<1>4. CASE UNCHANGED vars
  BY <1>3, <1>4 DEF vars, account, commit
<1>5. CASE \E o \in Outcomes : Upsert(o)
  BY <1>3, <1>5 DEF Upsert, account, commit
<1>6. CASE \E a \in Accounts, t \in Tickets : Submit(a, t)
  <2>1. /\ LoopFree /\ qty' = qty /\ net' = net /\ settled' = settled
        /\ buyer' \in Accounts
        /\ snap'.qty = qty[buyer'] /\ snap'.net = net[buyer']
    BY <1>6 DEF Submit, account
  <2> QED BY <1>2, <2>1 DEF GainInv
<1>7. CASE ApplyFill
  <2>1. settled' = {} /\ buyer' = buyer /\ ~LoopFree /\ Gains(Payout, snap.net, snap.qty)
    BY <1>1, <1>7 DEF ApplyFill, LoopFree, CommitUnderWay, GainInv
  <2>2. \A a \in Accounts : a # buyer => qty'[a] = qty[a] /\ net'[a] = net[a]
    BY <1>1, <1>7, FillEntries
  <2>3. CASE Unfilled
    <3>1. legs' # <<>> /\ snap' = snap
      BY <1>7, <2>3, TicketParts DEF ApplyFill, Unfilled
    <3> QED BY <1>2, <2>1, <2>2, <3>1 DEF GainInv, LoopFree
  <2>4. CASE HalfFilled
    <3>1. Gains(Payout, net'[buyer], qty'[buyer])
      BY <1>7, <2>1, <2>4, SecondFillGains
    <3>2. legs' = <<>>
      BY <1>7, <2>4 DEF ApplyFill, HalfFilled, HalfFilledBy
    <3> QED BY <1>2, <2>1, <2>2, <3>1, <3>2 DEF GainInv, LoopFree
  <2> QED BY <1>1, <2>1, <2>3, <2>4 DEF CommitUnderWay
<1>8. CASE RollBack
  <2>1. /\ settled' = {} /\ buyer' = buyer /\ ~LoopFree /\ legs' = <<>>
        /\ buyer \in Accounts
        /\ qty' = [qty EXCEPT ![buyer] = snap.qty]
        /\ net' = [net EXCEPT ![buyer] = snap.net]
    BY <1>1, <1>8 DEF RollBack, LoopFree, CommitUnderWay, TypeOK
  <2>2. /\ qty'[buyer] = snap.qty /\ \A a \in Accounts : a # buyer => qty'[a] = qty[a]
        /\ net'[buyer] = snap.net /\ \A a \in Accounts : a # buyer => net'[a] = net[a]
    BY <1>1, <2>1 DEF TypeOK, Amounts
  <2> QED BY <1>2, <2>1, <2>2 DEF GainInv, LoopFree
<1>9. CASE \E o \in Outcomes : SettleOutcome(o)
  <2>1. PICK o \in Outcomes : SettleOutcome(o)
    BY <1>9
  <2>2. /\ LoopFree /\ legs' = <<>> /\ settled' = settled \cup {o}
        /\ settled \subseteq Outcomes
    BY <1>1, <2>1 DEF SettleOutcome, LoopFree, commit, TypeOK
  <2>3. \A a \in Accounts :
          /\ Gains(Payout, net[a], qty[a]) => Gains(Payout, net'[a], qty'[a])
          /\ qty'[a][o] = 0
          /\ \A x \in Outcomes : qty[a][x] = 0 => qty'[a][x] = 0
    BY <1>1, <2>1, SettleGains
  <2> QED BY <1>2, <2>2, <2>3 DEF GainInv, LoopFree
<1>10. CASE \E a \in Accounts, from, to \in Venues : Sweep(a, from, to)
  BY <1>3, <1>10 DEF Sweep, commit
<1> QED BY <1>4, <1>5, <1>6, <1>7, <1>8, <1>9, <1>10 DEF Next

\* Whatever an account bought of the game, at whatever prices the router let
\* through, and however the game resolved, once all of it has settled more came
\* back than went out (net_edge_per_contract, limit_price, settle_outcome_async).
THEOREM ProfitIsLocked == Spec => []LockedProfit
<1>1. Init => GainInv
  BY DEF Init, GainInv, Gains, LoopFree, ZeroPerOutcome
<1>2. RInv /\ GainInv => LockedProfit
  <2> SUFFICES ASSUME RInv, GainInv, NEW a \in Accounts, settled = Outcomes,
                      NEW o \in Outcomes, net[a][o] # 0
               PROVE  SumFunctionOnSet(net[a], Outcomes) > 0
    BY DEF LockedProfit
  <2>1. TypeOK /\ LoopFree
    BY DEF RInv, IInv, CommitUnderWay
  <2>2. Worth(Payout, net[a], qty[a]) > 0
    BY <2>1 DEF GainInv, Gains
  <2>3. /\ \A x \in Outcomes : qty[a][x] = 0
        /\ \A x \in Outcomes : net[a][x] \in Int /\ Payout[x] \in Int
    BY <2>1, BalanceSums, PairPays DEF GainInv
  <2>4. \A x \in Outcomes : WorthOf(Payout, net[a], qty[a])[x] = net[a][x]
    BY <2>3 DEF WorthOf
  <2>5. SumFunctionOnSet(net[a], Outcomes) = Worth(Payout, net[a], qty[a])
    BY <2>3, <2>4, FiniteAssumption, SumSame DEF Worth
  <2> QED BY <2>2, <2>5
<1> QED BY <1>1, <1>2, RInvInit, RInvStep, GainStep, PTL DEF Spec
=============================================================================
