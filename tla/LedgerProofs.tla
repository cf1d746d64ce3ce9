---------------------------- MODULE LedgerProofs ----------------------------
(***************************************************************************)
(* The account and its rows, for any tickets, prices, venues and bounds:    *)
(* cash never falls below zero, and whatever interleaving of tickets, the   *)
(* cash sweep, settlements and resets, of transactions that land, are       *)
(* refused or given up, every step that changes the account is followed by  *)
(* a write of what it changed.  And what a page says of the rows it reads   *)
(* statement by statement while they are written: a ticket's outcome, once  *)
(* stored, stays, so that counts read apart differ by what came or went in  *)
(* between and by nothing else; figures read together agree; and once       *)
(* nothing is under way, was given up or was overtaken, the rows explain    *)
(* the cash of every venue.                                                 *)
(***************************************************************************)
EXTENDS Reports, Sums

-----------------------------------------------------------------------------
(* What a leg costs.                                                        *)

LEMMA CostTypes ==
  ASSUME NEW o \in Outcomes, NEW px \in 0..Unit
  PROVE  /\ Price(px) \in Nat
         /\ FeePerContract(o, px) \in Nat
         /\ UnitCost(o, px) = Price(px) + FeePerContract(o, px)
         /\ UnitCost(o, px) \in Nat
<1>1. Unit \in Nat /\ px \in Nat /\ Unit - px \in Nat
  BY MarketAssumption
<1>2. FeeRate[VenueOf[o]] \in Nat
  BY MarketAssumption
<1>3. \A x, y \in Nat : x * y \in Nat
  OBVIOUS
<1>4. Price(px) \in Nat
  BY <1>1, <1>3 DEF Price
<1>5. FeePerContract(o, px) \in Nat
  <2>1. FeeRate[VenueOf[o]] * px \in Nat
    BY <1>1, <1>2, <1>3
  <2>2. (FeeRate[VenueOf[o]] * px) * (Unit - px) \in Nat
    BY <2>1, <1>1, <1>3
  <2> QED BY <2>2 DEF FeePerContract
<1> QED BY <1>4, <1>5 DEF UnitCost

-----------------------------------------------------------------------------
(* The ledger: rows and transactions.                                       *)

TicketCells == {"pending", "filled", "rejected", "missed"}
Keys == Rows \cup {StatusOf(t) : t \in Tickets}

\* What a transaction, or the store, may hold under a row.
IsWrite(w) ==
  /\ DOMAIN w \subseteq Keys
  /\ \A v \in Venues : BalanceRow(v) \in DOMAIN w => w[BalanceRow(v)] \in Nat \cup {NoRow}
  /\ \A o \in Traded : PositionRow(o) \in DOMAIN w => w[PositionRow(o)] \in PositionValues \cup {NoRow}
  /\ \A t \in Tickets : TicketRow(t) \in DOMAIN w => w[TicketRow(t)] \in TicketCells \cup {NoRow}
  /\ \A t \in Tickets : StatusOf(t) \in DOMAIN w => w[StatusOf(t)] \in TicketCells
  /\ \A t \in Tickets, o \in Traded :
       FillRow(t, o) \in DOMAIN w => w[FillRow(t, o)] \in FillValues \cup {NoRow}
  /\ \A o \in Traded : SettlementRow(o) \in DOMAIN w => w[SettlementRow(o)] \in Nat \cup {NoRow}
  /\ \A v \in Venues : TransferRow(v) \in DOMAIN w => w[TransferRow(v)] \in Int \cup {NoRow}

\* A row's name says of what table it is.
LEMMA RowNames ==
  /\ \A v : BalanceRow(v)[1] = "balance" /\ BalanceRow(v)[2] = v
  /\ \A o : PositionRow(o)[1] = "position" /\ PositionRow(o)[2] = o
  /\ \A t : TicketRow(t)[1] = "ticket" /\ TicketRow(t)[2] = t
  /\ \A t : StatusOf(t)[1] = "status" /\ StatusOf(t)[2] = t
  /\ \A t, o : OrderRow(t, o)[1] = "order"
  /\ \A t, o : FillRow(t, o)[1] = "fill"
  /\ \A o : SettlementRow(o)[1] = "settlement"
  /\ \A v : TransferRow(v)[1] = "transfer"
BY DEF BalanceRow, PositionRow, TicketRow, StatusOf, OrderRow, FillRow, SettlementRow, TransferRow

LEMMA RowKeys ==
  /\ \A v \in Venues : BalanceRow(v) \in Rows /\ BalanceRow(v) \in Mirrored /\ TransferRow(v) \in Rows
  /\ \A o \in Traded : PositionRow(o) \in Rows /\ PositionRow(o) \in Mirrored /\ SettlementRow(o) \in Rows
  /\ \A t \in Tickets : TicketRow(t) \in Rows /\ StatusOf(t) \in Keys
  /\ \A t \in Tickets, o \in Traded : OrderRow(t, o) \in Rows /\ FillRow(t, o) \in Rows
  /\ Rows \subseteq Keys /\ Mirrored \subseteq Rows
BY DEF Rows, Mirrored, Keys

LEMMA MirroredRow ==
  ASSUME NEW r \in Mirrored
  PROVE  \/ \E v \in Venues : r = BalanceRow(v)
         \/ \E o \in Traded : r = PositionRow(o)
BY DEF Mirrored

LEMMA OneRow ==
  ASSUME NEW r, NEW x
  PROVE  DOMAIN Holding(r, x) = {r} /\ Holding(r, x)[r] = x
BY DEF Holding

LEMMA MoreRows ==
  ASSUME NEW f, NEW g
  PROVE  /\ DOMAIN (f ++ g) = DOMAIN f \cup DOMAIN g
         /\ \A r \in DOMAIN f : (f ++ g)[r] = f[r]
         /\ \A r \in DOMAIN g \ DOMAIN f : (f ++ g)[r] = g[r]
BY DEF ++

\* Transactions of one row: of a row of a table whose cells are typed, and of
\* a row of another.
OneCell(r, x) ==
  /\ r \in Keys
  /\ r[1] = "balance" => x \in Nat \cup {NoRow}
  /\ r[1] = "position" => x \in PositionValues \cup {NoRow}
  /\ r[1] = "ticket" => x \in TicketCells \cup {NoRow}
  /\ r[1] = "status" => x \in TicketCells
  /\ r[1] = "fill" => x \in FillValues \cup {NoRow}
  /\ r[1] = "settlement" => x \in Nat \cup {NoRow}
  /\ r[1] = "transfer" => x \in Int \cup {NoRow}

LEMMA OneCellWrites ==
  ASSUME NEW r, NEW x, OneCell(r, x)
  PROVE  IsWrite(Holding(r, x))
<1> DEFINE w == Holding(r, x)
<1>1. DOMAIN w = {r} /\ w[r] = x
  BY OneRow
<1> HIDE DEF w
<1>2. DOMAIN w \subseteq Keys
  BY <1>1 DEF OneCell
<1>3. \A v \in Venues : BalanceRow(v) \in DOMAIN w => w[BalanceRow(v)] \in Nat \cup {NoRow}
  BY <1>1, RowNames DEF OneCell
<1>4. \A o \in Traded : PositionRow(o) \in DOMAIN w => w[PositionRow(o)] \in PositionValues \cup {NoRow}
  BY <1>1, RowNames DEF OneCell
<1>5. \A t \in Tickets : TicketRow(t) \in DOMAIN w => w[TicketRow(t)] \in TicketCells \cup {NoRow}
  BY <1>1, RowNames DEF OneCell
<1>6. \A t \in Tickets : StatusOf(t) \in DOMAIN w => w[StatusOf(t)] \in TicketCells
  BY <1>1, RowNames DEF OneCell
<1>7. \A t \in Tickets, o \in Traded :
        FillRow(t, o) \in DOMAIN w => w[FillRow(t, o)] \in FillValues \cup {NoRow}
  BY <1>1, RowNames DEF OneCell
<1>8. \A o \in Traded : SettlementRow(o) \in DOMAIN w => w[SettlementRow(o)] \in Nat \cup {NoRow}
  BY <1>1, RowNames DEF OneCell
<1>9. \A v \in Venues : TransferRow(v) \in DOMAIN w => w[TransferRow(v)] \in Int \cup {NoRow}
  BY <1>1, RowNames DEF OneCell
<1>10. IsWrite(w)
  BY <1>2, <1>3, <1>4, <1>5, <1>6, <1>7, <1>8, <1>9 DEF IsWrite
<1> QED BY <1>10 DEF w

LEMMA OneRowWrites ==
  /\ \A v \in Venues, x \in Nat \cup {NoRow} : IsWrite(Holding(BalanceRow(v), x))
  /\ \A o \in Traded, x \in PositionValues \cup {NoRow} : IsWrite(Holding(PositionRow(o), x))
  /\ \A t \in Tickets, x \in TicketCells : IsWrite(Holding(TicketRow(t), x)) /\ IsWrite(Holding(StatusOf(t), x))
  /\ \A t \in Tickets, o \in Traded : \A x : IsWrite(Holding(OrderRow(t, o), x))
  /\ \A t \in Tickets, o \in Traded, x \in FillValues \cup {NoRow} : IsWrite(Holding(FillRow(t, o), x))
  /\ \A o \in Traded, x \in Nat \cup {NoRow} : IsWrite(Holding(SettlementRow(o), x))
  /\ \A v \in Venues, x \in Int \cup {NoRow} : IsWrite(Holding(TransferRow(v), x))
<1>1. ASSUME NEW v \in Venues, NEW x \in Nat \cup {NoRow}
      PROVE  IsWrite(Holding(BalanceRow(v), x))
  <2>1. OneCell(BalanceRow(v), x)
    BY RowNames, RowKeys DEF OneCell
  <2> QED BY <2>1, OneCellWrites
<1>2. ASSUME NEW o \in Traded, NEW x \in PositionValues \cup {NoRow}
      PROVE  IsWrite(Holding(PositionRow(o), x))
  <2>1. OneCell(PositionRow(o), x)
    BY RowNames, RowKeys DEF OneCell
  <2> QED BY <2>1, OneCellWrites
<1>3. ASSUME NEW t \in Tickets, NEW x \in TicketCells
      PROVE  IsWrite(Holding(TicketRow(t), x)) /\ IsWrite(Holding(StatusOf(t), x))
  <2>1. OneCell(TicketRow(t), x) /\ OneCell(StatusOf(t), x)
    BY RowNames, RowKeys DEF OneCell
  <2> QED BY <2>1, OneCellWrites
<1>4. ASSUME NEW t \in Tickets, NEW o \in Traded, NEW x
      PROVE  IsWrite(Holding(OrderRow(t, o), x))
  <2>1. OneCell(OrderRow(t, o), x)
    BY RowNames, RowKeys DEF OneCell
  <2> QED BY <2>1, OneCellWrites
<1>5. ASSUME NEW t \in Tickets, NEW o \in Traded, NEW x \in FillValues \cup {NoRow}
      PROVE  IsWrite(Holding(FillRow(t, o), x))
  <2>1. OneCell(FillRow(t, o), x)
    BY RowNames, RowKeys DEF OneCell
  <2> QED BY <2>1, OneCellWrites
<1>6. ASSUME NEW o \in Traded, NEW x \in Nat \cup {NoRow}
      PROVE  IsWrite(Holding(SettlementRow(o), x))
  <2>1. OneCell(SettlementRow(o), x)
    BY RowNames, RowKeys DEF OneCell
  <2> QED BY <2>1, OneCellWrites
<1>7. ASSUME NEW v \in Venues, NEW x \in Int \cup {NoRow}
      PROVE  IsWrite(Holding(TransferRow(v), x))
  <2>1. OneCell(TransferRow(v), x)
    BY RowNames, RowKeys DEF OneCell
  <2> QED BY <2>1, OneCellWrites
<1> QED BY <1>1, <1>2, <1>3, <1>4, <1>5, <1>6, <1>7

\* Transactions of several rows.
LEMMA JoinedWrites ==
  ASSUME NEW f, NEW g, IsWrite(f), IsWrite(g)
  PROVE  IsWrite(f ++ g)
<1> DEFINE h == f ++ g
<1>1. /\ DOMAIN h = DOMAIN f \cup DOMAIN g
      /\ \A r \in DOMAIN h : \/ r \in DOMAIN f /\ h[r] = f[r]
                             \/ r \in DOMAIN g /\ h[r] = g[r]
  <2>1. DOMAIN h = DOMAIN f \cup DOMAIN g
    BY MoreRows
  <2>2. \A r \in DOMAIN f : h[r] = f[r]
    BY MoreRows
  <2>3. \A r \in DOMAIN g \ DOMAIN f : h[r] = g[r]
    BY MoreRows
  <2> QED BY <2>1, <2>2, <2>3
<1> HIDE DEF h
<1>2. DOMAIN h \subseteq Keys
  BY <1>1 DEF IsWrite
<1>3. \A v \in Venues : BalanceRow(v) \in DOMAIN h => h[BalanceRow(v)] \in Nat \cup {NoRow}
  BY <1>1 DEF IsWrite
<1>4. \A o \in Traded : PositionRow(o) \in DOMAIN h => h[PositionRow(o)] \in PositionValues \cup {NoRow}
  BY <1>1 DEF IsWrite
<1>5. \A t \in Tickets : TicketRow(t) \in DOMAIN h => h[TicketRow(t)] \in TicketCells \cup {NoRow}
  BY <1>1 DEF IsWrite
<1>6. \A t \in Tickets : StatusOf(t) \in DOMAIN h => h[StatusOf(t)] \in TicketCells
  BY <1>1 DEF IsWrite
<1>7. \A t \in Tickets, o \in Traded :
        FillRow(t, o) \in DOMAIN h => h[FillRow(t, o)] \in FillValues \cup {NoRow}
  BY <1>1 DEF IsWrite
<1>8. \A o \in Traded : SettlementRow(o) \in DOMAIN h => h[SettlementRow(o)] \in Nat \cup {NoRow}
  BY <1>1 DEF IsWrite
<1>9. \A v \in Venues : TransferRow(v) \in DOMAIN h => h[TransferRow(v)] \in Int \cup {NoRow}
  BY <1>1 DEF IsWrite
<1>10. IsWrite(h)
  BY <1>2, <1>3, <1>4, <1>5, <1>6, <1>7, <1>8, <1>9 DEF IsWrite
<1> QED BY <1>10 DEF h

\* A transaction that writes orders only, and the one that empties the tables.
LEMMA WideWrites ==
  /\ \A t \in Tickets : IsWrite([r \in {OrderRow(t, o) : o \in Traded} |-> "rejected"])
  /\ IsWrite(Emptied)
  /\ IsWrite(NoWrite)
<1>1. ASSUME NEW t \in Tickets
      PROVE  IsWrite([r \in {OrderRow(t, o) : o \in Traded} |-> "rejected"])
  BY RowNames, RowKeys DEF IsWrite
<1>2. IsWrite(Emptied)
  <2>1. \A t : StatusOf(t) \notin Rows
    BY RowNames DEF Rows, Mirrored
  <2> QED BY <2>1, RowKeys DEF IsWrite, Emptied
<1>3. IsWrite(NoWrite)
  BY DEF IsWrite, NoWrite
<1> QED BY <1>1, <1>2, <1>3

-----------------------------------------------------------------------------
(* The ledger: what kinds of values it holds.                               *)

LegKinds == {"order", "fill", "balance", "position"}
StepKinds(k) ==
  CASE k \in Tickets  -> {<<kind, o>> : kind \in LegKinds, o \in Traded}
                           \cup {<<"submit">>, <<"legs">>, <<"status", "filled">>}
    [] k = "settle"   -> {<<"leg", Pair[2]>>, <<"done">>}
    [] k = "reset"    -> {<<"seed", v>> : v \in Venues} \cup {<<"cleared">>}
    [] OTHER          -> {}

MemoryKinds ==
  /\ cash \in [Venues -> Nat]
  /\ funded \subseteq Venues
  /\ position \in [Traded -> PositionValues]
  /\ isSettled \in BOOLEAN
StoreKinds == DOMAIN store = Rows /\ IsWrite(store)
TaskKinds ==
  /\ DOMAIN writing = Tasks /\ \A k \in Tasks : IsWrite(writing[k])
  /\ DOMAIN todo = Tasks /\ \A k \in Tasks : todo[k] \in Seq(StepKinds(k))
  /\ DOMAIN captured = Mirrored /\ \A r \in Mirrored : captured[r] \in Tasks \cup {NoRow}
StaleKinds ==
  /\ DOMAIN stale = Tickets
  /\ \A t \in Tickets : stale[t] # NoRow => stale[t] \in Accounts
HistoryKinds ==
  /\ submitted \subseteq Tickets
  /\ suspect \subseteq Mirrored
  /\ clean \in BOOLEAN

\* The types, with the kinds of what tasks write and have left to do.
LedgerKinds == MemoryKinds /\ StoreKinds /\ TaskKinds /\ StaleKinds /\ HistoryKinds

LEMMA TaskNames ==
  /\ "sweep" \in Tasks /\ "settle" \in Tasks /\ "reset" \in Tasks /\ Tickets \subseteq Tasks
  /\ \A t \in Tickets : t # "sweep" /\ t # "settle" /\ t # "reset"
  /\ \A k \in Tasks : k \in Tickets \/ k \in {"sweep", "settle", "reset"}
  /\ \A t \in Tickets : StepKinds(t) = {<<kind, o>> : kind \in LegKinds, o \in Traded}
                                         \cup {<<"submit">>, <<"legs">>, <<"status", "filled">>}
  /\ StepKinds("settle") = {<<"leg", Pair[2]>>, <<"done">>}
  /\ StepKinds("reset") = {<<"seed", v>> : v \in Venues} \cup {<<"cleared">>}
<1>1. /\ "sweep" \in Tasks /\ "settle" \in Tasks /\ "reset" \in Tasks /\ Tickets \subseteq Tasks
      /\ \A t \in Tickets : t # "sweep" /\ t # "settle" /\ t # "reset"
      /\ \A k \in Tasks : k \in Tickets \/ k \in {"sweep", "settle", "reset"}
  BY NamesAssumption DEF Tasks
<1>2. "settle" \notin Tickets /\ "reset" \notin Tickets
  BY <1>1
<1> QED BY <1>1, <1>2 DEF StepKinds

LEMMA Legs ==
  /\ Pair[1] \in Traded /\ Pair[2] \in Traded
  /\ Traded \subseteq Outcomes
  /\ \A o \in Traded : o = Pair[1] \/ o = Pair[2]
  /\ \A o \in Traded : VenueOf[o] \in Venues
  /\ VenueOf[Pair[1]] # VenueOf[Pair[2]] /\ Pair[1] # Pair[2]
BY LedgerAssumption, MarketAssumption DEF Traded

LEMMA LegCosts ==
  ASSUME NEW t \in Tickets, NEW o \in Traded
  PROVE  LegCost(t, o) \in Nat
<1>1. AskOf[t][o] \in 0..Unit /\ o \in Outcomes
  BY Legs, LedgerAssumption
<1>2. Price(AskOf[t][o]) \in Nat /\ FeePerContract(o, AskOf[t][o]) \in Nat
  BY <1>1, CostTypes
<1>3. FillOf(t, o).price = Price(AskOf[t][o]) /\ FillOf(t, o).fee = FeePerContract(o, AskOf[t][o])
  BY DEF FillOf
<1> QED BY <1>2, <1>3 DEF LegCost

LEMMA PayoutKind ==
  /\ Payout \in Nat
  /\ \A o : ResolvedValue(o) \in Nat
<1>1. Unit \in Nat
  BY MarketAssumption
<1>2. \A x, y \in Nat : x * y \in Nat
  OBVIOUS
<1>3. 100 * Unit \in Nat
  BY <1>1, <1>2
<1>4. Payout \in Nat
  BY <1>1, <1>2, <1>3 DEF Payout
<1> QED BY <1>4 DEF ResolvedValue

LEMMA NoPositionKind == NoPosition \in PositionValues
BY DEF NoPosition, PositionValues

\* The venues can be listed, so a reset lists all of them.
LEMMA BrokersListVenues ==
  /\ Brokers \in Seq(Venues)
  /\ \A v \in Venues : \E i \in DOMAIN Brokers : Brokers[i] = v
<1> DEFINE n == Cardinality(Venues)
<1>1. n \in Nat /\ ExistsBijection(1..n, Venues)
  BY LedgerAssumption, FS_CardinalityType
<1>2. PICK f \in Bijection(1..n, Venues) : TRUE
  BY <1>1 DEF ExistsBijection
<1>3. f \in [1..n -> Venues] /\ \A v \in Venues : \E i \in 1..n : f[i] = v
  BY <1>2 DEF Bijection, Injection, Surjection
<1>4. DOMAIN f = 1..n
  BY <1>3
<1>5. \E s \in [1..n -> Venues] : \A v \in Venues : \E i \in DOMAIN s : s[i] = v
  BY <1>3, <1>4
<1>6. Brokers \in [1..n -> Venues] /\ \A v \in Venues : \E i \in DOMAIN Brokers : Brokers[i] = v
  BY <1>5 DEF Brokers
<1>7. Brokers \in Seq(Venues)
  BY <1>1, <1>6
<1> QED BY <1>6, <1>7

\* A task begins a transaction, and the others are left as they were.
LEMMA BegunKinds ==
  ASSUME TaskKinds, NEW k \in Tasks, NEW w, IsWrite(w), NEW rest \in Seq(StepKinds(k)), NEW fresh \in BOOLEAN,
         Begin(k, w, rest, fresh)
  PROVE  TaskKinds'
<1>1. DOMAIN writing' = Tasks /\ \A j \in Tasks : writing'[j] = IF j = k THEN w ELSE writing[j]
  BY DEF TaskKinds, Begin
<1>2. DOMAIN todo' = Tasks /\ \A j \in Tasks : todo'[j] = IF j = k THEN rest ELSE todo[j]
  BY DEF TaskKinds, Begin
<1>3. captured' = [r \in Mirrored |-> IF r \in DOMAIN w /\ fresh THEN k ELSE captured[r]]
  BY DEF Begin
<1>4. \A j \in Tasks : IsWrite(writing'[j])
  BY <1>1 DEF TaskKinds
<1>5. \A j \in Tasks : todo'[j] \in Seq(StepKinds(j))
  BY <1>2 DEF TaskKinds
<1>6. DOMAIN captured' = Mirrored /\ \A r \in Mirrored : captured'[r] \in Tasks \cup {NoRow}
  BY <1>3 DEF TaskKinds
<1> QED BY <1>1, <1>2, <1>4, <1>5, <1>6 DEF TaskKinds

-----------------------------------------------------------------------------
(* The kinds, operation by operation.                                       *)

LEMMA LandsKinds ==
  ASSUME LedgerKinds, NEW k \in Tasks, Lands(k)
  PROVE  LedgerKinds'
<1> DEFINE w == writing[k]
<1>1. IsWrite(w) /\ IsWrite(store) /\ DOMAIN store = Rows
  BY DEF LedgerKinds, TaskKinds, StoreKinds
<1>2. store' = LandedIn(w)
  BY DEF Lands
<1>3. StoreKinds'
  <2>1. DOMAIN store' = Rows
    BY <1>2 DEF LandedIn
  <2>2. \A r \in Rows :
          store'[r] = CASE r \in DOMAIN w -> IF r[1] = "transfer" /\ NoRow \notin {w[r], store[r]}
                                             THEN store[r] + w[r] ELSE w[r]
                        [] r[1] = "ticket" /\ store[r] # NoRow /\ StatusOf(r[2]) \in DOMAIN w -> w[StatusOf(r[2])]
                        [] OTHER -> store[r]
    BY <1>2 DEF LandedIn
  <2> HIDE DEF w
  <2>3. \A v \in Venues : store'[BalanceRow(v)] \in Nat \cup {NoRow}
    <3> TAKE v \in Venues
    <3>1. BalanceRow(v) \in Rows /\ BalanceRow(v)[1] = "balance"
      BY RowKeys, RowNames
    <3>2. store'[BalanceRow(v)] = IF BalanceRow(v) \in DOMAIN w THEN w[BalanceRow(v)] ELSE store[BalanceRow(v)]
      BY <2>2, <3>1
    <3> QED BY <3>1, <3>2, <1>1 DEF IsWrite
  <2>4. \A o \in Traded : store'[PositionRow(o)] \in PositionValues \cup {NoRow}
    <3> TAKE o \in Traded
    <3>1. PositionRow(o) \in Rows /\ PositionRow(o)[1] = "position"
      BY RowKeys, RowNames
    <3>2. store'[PositionRow(o)] = IF PositionRow(o) \in DOMAIN w THEN w[PositionRow(o)] ELSE store[PositionRow(o)]
      BY <2>2, <3>1
    <3> QED BY <3>1, <3>2, <1>1 DEF IsWrite
  <2>5. \A t \in Tickets : store'[TicketRow(t)] \in TicketCells \cup {NoRow}
    <3> TAKE t \in Tickets
    <3>1. TicketRow(t) \in Rows /\ TicketRow(t)[1] = "ticket" /\ TicketRow(t)[2] = t
      BY RowKeys, RowNames
    <3>2. \/ TicketRow(t) \in DOMAIN w /\ store'[TicketRow(t)] = w[TicketRow(t)]
          \/ StatusOf(t) \in DOMAIN w /\ store'[TicketRow(t)] = w[StatusOf(t)]
          \/ store'[TicketRow(t)] = store[TicketRow(t)]
      BY <2>2, <3>1
    <3>3. TicketRow(t) \in DOMAIN w => w[TicketRow(t)] \in TicketCells \cup {NoRow}
      BY <1>1 DEF IsWrite
    <3>4. StatusOf(t) \in DOMAIN w => w[StatusOf(t)] \in TicketCells
      BY <1>1 DEF IsWrite
    <3>5. store[TicketRow(t)] \in TicketCells \cup {NoRow}
      BY <1>1, <3>1 DEF IsWrite
    <3> QED BY <3>2, <3>3, <3>4, <3>5
  <2>6. \A t \in Tickets : StatusOf(t) \notin Rows
    BY RowNames DEF Rows, Mirrored
  <2>7. Rows \subseteq Keys
    BY RowKeys
  <2>8. \A t \in Tickets, o \in Traded : store'[FillRow(t, o)] \in FillValues \cup {NoRow}
    <3> TAKE t \in Tickets, o \in Traded
    <3>1. FillRow(t, o) \in Rows /\ FillRow(t, o)[1] = "fill"
      BY RowKeys, RowNames
    <3>2. store'[FillRow(t, o)] = IF FillRow(t, o) \in DOMAIN w THEN w[FillRow(t, o)] ELSE store[FillRow(t, o)]
      BY <2>2, <3>1
    <3> QED BY <3>1, <3>2, <1>1 DEF IsWrite
  <2>9. \A o \in Traded : store'[SettlementRow(o)] \in Nat \cup {NoRow}
    <3> TAKE o \in Traded
    <3>1. SettlementRow(o) \in Rows /\ SettlementRow(o)[1] = "settlement"
      BY RowKeys, RowNames
    <3>2. store'[SettlementRow(o)] = IF SettlementRow(o) \in DOMAIN w THEN w[SettlementRow(o)] ELSE store[SettlementRow(o)]
      BY <2>2, <3>1
    <3> QED BY <3>1, <3>2, <1>1 DEF IsWrite
  <2>10. \A v \in Venues : store'[TransferRow(v)] \in Int \cup {NoRow}
    <3> TAKE v \in Venues
    <3>1. TransferRow(v) \in Rows /\ TransferRow(v)[1] = "transfer"
      BY RowKeys, RowNames
    <3>2. /\ TransferRow(v) \in DOMAIN w => w[TransferRow(v)] \in Int \cup {NoRow}
          /\ store[TransferRow(v)] \in Int \cup {NoRow}
      BY <3>1, <1>1 DEF IsWrite
    <3>3. \/ TransferRow(v) \notin DOMAIN w /\ store'[TransferRow(v)] = store[TransferRow(v)]
          \/ TransferRow(v) \in DOMAIN w /\ store'[TransferRow(v)] = w[TransferRow(v)]
          \/ /\ TransferRow(v) \in DOMAIN w /\ NoRow \notin {w[TransferRow(v)], store[TransferRow(v)]}
             /\ store'[TransferRow(v)] = store[TransferRow(v)] + w[TransferRow(v)]
      BY <2>2, <3>1
    <3> QED BY <3>2, <3>3
  <2> QED BY <2>1, <2>3, <2>4, <2>5, <2>6, <2>7, <2>8, <2>9, <2>10 DEF StoreKinds, IsWrite
<1>4. MemoryKinds'
  BY DEF LedgerKinds, MemoryKinds, Lands, memory
<1>5. TaskKinds'
  <2>1. writing' = [writing EXCEPT ![k] = NoWrite] /\ todo' = todo
    BY DEF Lands
  <2>2. DOMAIN writing' = Tasks /\ \A j \in Tasks : writing'[j] = IF j = k THEN NoWrite ELSE writing[j]
    BY <2>1 DEF LedgerKinds, TaskKinds
  <2>3. \A j \in Tasks : IsWrite(writing'[j])
    BY <2>2, WideWrites DEF LedgerKinds, TaskKinds
  <2>4. DOMAIN captured' = Mirrored /\ \A r \in Mirrored : captured'[r] \in Tasks \cup {NoRow}
    BY DEF Lands, LedgerKinds, TaskKinds
  <2> QED BY <2>1, <2>2, <2>3, <2>4 DEF LedgerKinds, TaskKinds
<1>6. StaleKinds'
  BY DEF Lands, LedgerKinds, StaleKinds
<1>7. HistoryKinds'
  BY DEF Lands, LedgerKinds, HistoryKinds
<1> QED BY <1>3, <1>4, <1>5, <1>6, <1>7 DEF LedgerKinds

LEMMA DroppedKinds ==
  ASSUME LedgerKinds, NEW k \in Tasks, Dropped(k)
  PROVE  LedgerKinds'
<1>1. MemoryKinds' /\ StoreKinds' /\ StaleKinds'
  BY DEF Dropped, LedgerKinds, MemoryKinds, StoreKinds, StaleKinds, IsWrite, memory
<1>2. TaskKinds'
  <2>1. DOMAIN writing' = Tasks /\ \A j \in Tasks : writing'[j] = IF j = k THEN NoWrite ELSE writing[j]
    BY DEF Dropped, LedgerKinds, TaskKinds
  <2>2. \A j \in Tasks : IsWrite(writing'[j])
    BY <2>1, WideWrites DEF LedgerKinds, TaskKinds
  <2>3. DOMAIN todo' = Tasks /\ \A j \in Tasks : todo'[j] = todo[j] \/ todo'[j] = <<>>
    BY DEF Dropped, LedgerKinds, TaskKinds
  <2>4. \A j \in Tasks : todo'[j] \in Seq(StepKinds(j))
    <3> TAKE j \in Tasks
    <3>1. todo[j] \in Seq(StepKinds(j))
      BY DEF LedgerKinds, TaskKinds
    <3>2. <<>> \in Seq(StepKinds(j))
      OBVIOUS
    <3> QED BY <2>3, <3>1, <3>2
  <2>5. captured' = captured
    BY DEF Dropped
  <2> QED BY <2>1, <2>2, <2>3, <2>4, <2>5 DEF LedgerKinds, TaskKinds
<1>3. HistoryKinds'
  BY DEF Dropped, LedgerKinds, HistoryKinds
<1> QED BY <1>1, <1>2, <1>3 DEF LedgerKinds

\* An operation that begins a transaction and leaves the account alone.
LEMMA WriteOnlyKinds ==
  ASSUME LedgerKinds, NEW k \in Tasks, NEW w, IsWrite(w), NEW rest \in Seq(StepKinds(k)), NEW fresh \in BOOLEAN,
         Begin(k, w, rest, fresh),
         UNCHANGED <<memory, store>>, StaleKinds', HistoryKinds'
  PROVE  LedgerKinds'
<1>1. TaskKinds'
  BY BegunKinds DEF LedgerKinds
<1>2. MemoryKinds' /\ StoreKinds'
  BY DEF LedgerKinds, MemoryKinds, StoreKinds, IsWrite, memory
<1> QED BY <1>1, <1>2 DEF LedgerKinds

LEMMA OpenTicketKinds ==
  ASSUME LedgerKinds, NEW t \in Tickets, OpenTicket(t)
  PROVE  LedgerKinds'
<1>1. PICK status \in {"rejected", "missed", "pending"} :
        Begin(t, Holding(TicketRow(t), status), IF status = "pending" THEN <<<<"submit">>>> ELSE <<>>, TRUE)
  BY DEF OpenTicket
<1> DEFINE rest == IF status = "pending" THEN <<<<"submit">>>> ELSE <<>>
<1>2. t \in Tasks /\ rest \in Seq(StepKinds(t))
  BY TaskNames
<1>3. IsWrite(Holding(TicketRow(t), status))
  BY OneRowWrites DEF TicketCells
<1>4. StaleKinds' /\ HistoryKinds'
  BY DEF OpenTicket, LedgerKinds, StaleKinds, HistoryKinds
<1>5. UNCHANGED <<memory, store>>
  BY DEF OpenTicket
<1> QED BY <1>1, <1>2, <1>3, <1>4, <1>5, WriteOnlyKinds

\* What is left of a plan after its first step.
LEMMA PlanTail ==
  ASSUME LedgerKinds, NEW k \in Tasks, todo[k] # <<>>
  PROVE  Head(todo[k]) \in StepKinds(k) /\ Tail(todo[k]) \in Seq(StepKinds(k))
BY DEF LedgerKinds, TaskKinds

\* The step a ticket is at names a leg.
LEMMA LegStep ==
  ASSUME LedgerKinds, NEW t \in Tickets, NEW kind \in LegKinds, AtStep(t, kind)
  PROVE  Head(todo[t])[2] \in Traded /\ Tail(todo[t]) \in Seq(StepKinds(t))
<1>1. t \in Tasks /\ todo[t] # <<>> /\ Head(todo[t])[1] = kind
  BY TaskNames DEF AtStep
<1>2. Head(todo[t]) \in StepKinds(t) /\ Tail(todo[t]) \in Seq(StepKinds(t))
  BY <1>1, PlanTail
<1>3. Head(todo[t]) \in {<<x, o>> : x \in LegKinds, o \in Traded}
  BY <1>1, <1>2, TaskNames DEF LegKinds
<1> QED BY <1>2, <1>3

LEMMA FillKinds ==
  ASSUME LedgerKinds, NEW t \in Tickets, Fill(t)
  PROVE  LedgerKinds'
<1>1. \A o \in Traded : LegCost(t, o) \in Nat /\ LegCost(t, o) <= cash[VenueOf[o]]
  BY LegCosts DEF Fill, Affordable
<1>2. cash' \in [Venues -> Nat]
  <2> SUFFICES ASSUME NEW v \in Venues
               PROVE  cash'[v] \in Nat
    BY DEF Fill
  <2> DEFINE o == CHOOSE x \in OnVenue(v) : TRUE
  <2>1. cash[v] \in Nat
    BY DEF LedgerKinds, MemoryKinds
  <2>2. cash'[v] = IF OnVenue(v) = {} THEN cash[v] ELSE cash[v] - LegCost(t, o)
    BY DEF Fill
  <2>3. OnVenue(v) # {} => o \in Traded /\ VenueOf[o] = v
    BY DEF OnVenue
  <2> HIDE DEF o
  <2>4. OnVenue(v) # {} => LegCost(t, o) \in Nat /\ LegCost(t, o) <= cash[v]
    BY <1>1, <2>3
  <2> QED BY <2>1, <2>2, <2>4
<1>3. position' \in [Traded -> PositionValues]
  <2> SUFFICES ASSUME NEW o \in Traded
               PROVE  [position[o] EXCEPT !.qty = @ + 1, !.cost = @ + LegCost(t, o)] \in PositionValues
    BY DEF Fill
  <2>1. position[o] \in PositionValues /\ LegCost(t, o) \in Nat
    BY <1>1 DEF LedgerKinds, MemoryKinds
  <2> DEFINE c == LegCost(t, o)
  <2> HIDE DEF c
  <2>2. \A p \in PositionValues :
          c \in Nat => [p EXCEPT !.qty = @ + 1, !.cost = @ + c] \in PositionValues
    <3> TAKE p \in PositionValues
    <3> HAVE c \in Nat
    <3>1. p.qty \in Nat /\ p.cost \in Nat /\ p.realized \in Int
      BY DEF PositionValues
    <3>2. p.qty + 1 \in Nat /\ p.cost + c \in Nat
      BY <3>1
    <3> DEFINE u == p.qty + 1
               w == p.cost + c
    <3>3. u \in Nat /\ w \in Nat
      BY <3>2
    <3> HIDE DEF u, w
    <3>4. [p EXCEPT !.qty = u, !.cost = w] \in PositionValues
      BY <3>3 DEF PositionValues
    <3> QED BY <3>4 DEF u, w
  <2>3. c \in Nat
    BY <2>1 DEF c
  <2>4. [position[o] EXCEPT !.qty = @ + 1, !.cost = @ + c] \in PositionValues
    BY <2>1, <2>2, <2>3
  <2> QED BY <2>4 DEF c
<1>4. funded' \subseteq Venues
  BY Legs DEF Fill, LedgerKinds, MemoryKinds
<1>5. MemoryKinds'
  BY <1>2, <1>3, <1>4 DEF Fill, LedgerKinds, MemoryKinds
<1> DEFINE rest == Tail(Steps(Pair[1])) \o Steps(Pair[2]) \o <<<<"status", "filled">>>>
<1>6. rest \in Seq(StepKinds(t))
  <2>1. \A o \in Traded : Steps(o) \in Seq(StepKinds(t)) /\ Tail(Steps(o)) \in Seq(StepKinds(t))
    BY TaskNames DEF Steps, LegKinds
  <2>2. <<<<"status", "filled">>>> \in Seq(StepKinds(t))
    BY TaskNames
  <2>3. Steps(Pair[2]) \in Seq(StepKinds(t)) /\ Tail(Steps(Pair[1])) \in Seq(StepKinds(t))
    BY <2>1, Legs
  <2> QED BY <2>2, <2>3
<1>7. Begin(t, Holding(OrderRow(t, Pair[1]), "filled"), rest, TRUE)
  BY DEF Fill
<1>8. IsWrite(Holding(OrderRow(t, Pair[1]), "filled")) /\ t \in Tasks
  BY OneRowWrites, Legs, TaskNames
<1> HIDE DEF rest
<1>9. TaskKinds'
  BY <1>6, <1>7, <1>8, BegunKinds DEF LedgerKinds
<1>10. StoreKinds' /\ StaleKinds' /\ HistoryKinds'
  BY DEF Fill, LedgerKinds, StoreKinds, StaleKinds, HistoryKinds, IsWrite
<1> QED BY <1>5, <1>9, <1>10 DEF LedgerKinds

LEMMA RefuseLegsKinds ==
  ASSUME LedgerKinds, NEW t \in Tickets, RefuseLegs(t)
  PROVE  LedgerKinds'
<1>1. Begin(t, Holding(StatusOf(t), "rejected"), <<<<"legs">>>>, TRUE)
  BY DEF RefuseLegs
<1>2. t \in Tasks /\ <<<<"legs">>>> \in Seq(StepKinds(t))
  BY TaskNames
<1>3. IsWrite(Holding(StatusOf(t), "rejected"))
  BY OneRowWrites DEF TicketCells
<1>4. StaleKinds' /\ HistoryKinds' /\ UNCHANGED <<memory, store>>
  BY DEF RefuseLegs, LedgerKinds, StaleKinds, HistoryKinds
<1> QED BY <1>1, <1>2, <1>3, <1>4, WriteOnlyKinds

LEMMA WriteRejectedLegsKinds ==
  ASSUME LedgerKinds, NEW t \in Tickets, WriteRejectedLegs(t)
  PROVE  LedgerKinds'
<1>1. Begin(t, [r \in {OrderRow(t, o) : o \in Traded} |-> "rejected"], <<>>, TRUE)
  BY DEF WriteRejectedLegs
<1>2. t \in Tasks /\ <<>> \in Seq(StepKinds(t))
  BY TaskNames
<1>3. IsWrite([r \in {OrderRow(t, o) : o \in Traded} |-> "rejected"])
  BY WideWrites
<1>4. StaleKinds' /\ HistoryKinds' /\ UNCHANGED <<memory, store>>
  BY DEF WriteRejectedLegs, LedgerKinds, StaleKinds, HistoryKinds
<1> QED BY <1>1, <1>2, <1>3, <1>4, WriteOnlyKinds

LEMMA WriteStatusKinds ==
  ASSUME LedgerKinds, NEW t \in Tickets, WriteStatus(t)
  PROVE  LedgerKinds'
<1>1. Begin(t, Holding(StatusOf(t), "filled"), <<>>, TRUE)
  BY DEF WriteStatus
<1>2. t \in Tasks /\ <<>> \in Seq(StepKinds(t))
  BY TaskNames
<1>3. IsWrite(Holding(StatusOf(t), "filled"))
  BY OneRowWrites DEF TicketCells
<1>4. StaleKinds' /\ HistoryKinds' /\ UNCHANGED <<memory, store>>
  BY DEF WriteStatus, LedgerKinds, StaleKinds, HistoryKinds
<1> QED BY <1>1, <1>2, <1>3, <1>4, WriteOnlyKinds

\* The account a leg's writes read, new or taken from under it.
LEMMA AccountKind ==
  ASSUME LedgerKinds, NEW t \in Tickets
  PROVE  AccountOf(t) \in Accounts
<1>1. cash \in [Venues -> Nat] /\ position \in [Traded -> PositionValues]
  BY DEF LedgerKinds, MemoryKinds
<1>2. stale[t] # NoRow => stale[t] \in Accounts
  BY DEF LedgerKinds, StaleKinds
<1> QED BY <1>1, <1>2 DEF AccountOf, Accounts

LEMMA WrittenKind ==
  ASSUME LedgerKinds, NEW t \in Tickets, NEW kind \in LegKinds, NEW o \in Traded
  PROVE  IsWrite(Written(t, kind, o))
<1>1. AccountOf(t).cash[VenueOf[o]] \in Nat /\ AccountOf(t).position[o] \in PositionValues
  BY AccountKind, Legs DEF Accounts
<1>2. VenueOf[o] \in Venues
  BY Legs
<1>3. IsWrite(Holding(OrderRow(t, o), "filled"))
  BY OneRowWrites
<1>4. IsWrite(Holding(FillRow(t, o), FillOf(t, o)))
  <2>1. o \in Outcomes /\ AskOf[t][o] \in 0..Unit
    BY Legs, LedgerAssumption
  <2>2. FillOf(t, o) \in FillValues
    BY <2>1, CostTypes DEF FillOf, FillValues
  <2> QED BY <2>2, OneRowWrites
<1>5. IsWrite(Holding(BalanceRow(VenueOf[o]), AccountOf(t).cash[VenueOf[o]]))
  BY <1>1, <1>2, OneRowWrites
<1>6. IsWrite(Holding(PositionRow(o), AccountOf(t).position[o]))
  BY <1>1, OneRowWrites
<1>7. \/ Written(t, kind, o) = Holding(OrderRow(t, o), "filled")
      \/ Written(t, kind, o) = Holding(FillRow(t, o), FillOf(t, o))
      \/ Written(t, kind, o) = Holding(BalanceRow(VenueOf[o]), AccountOf(t).cash[VenueOf[o]])
      \/ Written(t, kind, o) = Holding(PositionRow(o), AccountOf(t).position[o])
  BY DEF Written, LegKinds
<1> QED BY <1>3, <1>4, <1>5, <1>6, <1>7

LEMMA EmitKinds ==
  ASSUME LedgerKinds, NEW t \in Tickets, Emit(t)
  PROVE  LedgerKinds'
<1>1. PICK kind \in LegKinds :
        /\ AtStep(t, kind)
        /\ Begin(t, Written(t, kind, Head(todo[t])[2]), AfterEmit(t), stale[t] = NoRow)
        /\ stale' = IF kind = "position" THEN [stale EXCEPT ![t] = NoRow] ELSE stale
  BY DEF Emit, LegKinds
<1>2. Head(todo[t])[2] \in Traded /\ AfterEmit(t) \in Seq(StepKinds(t)) /\ t \in Tasks
  BY <1>1, LegStep, TaskNames DEF AfterEmit
<1>3. IsWrite(Written(t, kind, Head(todo[t])[2]))
  BY <1>2, WrittenKind
<1>4. StaleKinds'
  BY <1>1 DEF LedgerKinds, StaleKinds
<1>5. HistoryKinds' /\ UNCHANGED <<memory, store>>
  BY DEF Emit, LedgerKinds, HistoryKinds
<1>6. (stale[t] = NoRow) \in BOOLEAN
  OBVIOUS
<1> QED BY <1>1, <1>2, <1>3, <1>4, <1>5, <1>6, WriteOnlyKinds

\* A step that only drops or shortens plans.
LEMMA PlanOnlyKinds ==
  ASSUME LedgerKinds, NEW k \in Tasks, todo' = [todo EXCEPT ![k] = <<>>],
         isSettled' \in BOOLEAN,
         UNCHANGED <<cash, funded, position, submitted, store, writing, stale, history>>
  PROVE  LedgerKinds'
<1>1. \A j \in Tasks : todo'[j] \in Seq(StepKinds(j))
  <2> TAKE j \in Tasks
  <2>1. todo[j] \in Seq(StepKinds(j)) /\ <<>> \in Seq(StepKinds(j))
    BY DEF LedgerKinds, TaskKinds
  <2>2. todo'[j] = todo[j] \/ todo'[j] = <<>>
    BY DEF LedgerKinds, TaskKinds
  <2> QED BY <2>1, <2>2
<1>2. DOMAIN todo' = Tasks
  BY DEF LedgerKinds, TaskKinds
<1>3. TaskKinds'
  BY <1>1, <1>2 DEF LedgerKinds, TaskKinds, IsWrite, history
<1>4. MemoryKinds' /\ StoreKinds' /\ StaleKinds' /\ HistoryKinds'
  BY DEF LedgerKinds, MemoryKinds, StoreKinds, StaleKinds, HistoryKinds, IsWrite, history
<1> QED BY <1>3, <1>4 DEF LedgerKinds

LEMMA EmitRaisesKinds ==
  ASSUME LedgerKinds, NEW t \in Tickets, EmitRaises(t)
  PROVE  LedgerKinds'
<1>1. t \in Tasks /\ isSettled' \in BOOLEAN
  BY TaskNames DEF EmitRaises, LedgerKinds, MemoryKinds, memory
<1> QED BY <1>1, PlanOnlyKinds DEF EmitRaises, memory

LEMMA MarkSettledKinds ==
  ASSUME LedgerKinds, MarkSettled
  PROVE  LedgerKinds'
<1>1. "settle" \in Tasks /\ isSettled' \in BOOLEAN
  BY TaskNames DEF MarkSettled
<1> QED BY <1>1, PlanOnlyKinds DEF MarkSettled

LEMMA ClearSettledKinds ==
  ASSUME LedgerKinds, ClearSettled
  PROVE  LedgerKinds'
<1>1. "reset" \in Tasks
  BY TaskNames
<1>2. isSettled' \in BOOLEAN
  BY DEF ClearSettled
<1> QED BY <1>1, <1>2, PlanOnlyKinds DEF ClearSettled

\* Half of the difference, when it is worth moving, is there to be moved.
LEMMA SweepAmount ==
  ASSUME NEW x \in Nat, NEW y \in Nat, (x - y) \div 2 >= MinTransfer
  PROVE  /\ (x - y) \div 2 \in Nat
         /\ x - ((x - y) \div 2) \in Nat
         /\ y + ((x - y) \div 2) \in Nat
         /\ x # y
<1> DEFINE a == (x - y) \div 2
<1>1. MinTransfer \in Nat /\ MinTransfer # 0
  BY LedgerAssumption
<1>2. a \in Int /\ x - y = 2 * a + ((x - y) % 2) /\ ((x - y) % 2) \in 0..1
  OBVIOUS
<1> HIDE DEF a
<1>3. a >= MinTransfer
  BY DEF a
<1>4. a \in Nat /\ a > 0
  BY <1>1, <1>2, <1>3
<1>5. x - a \in Nat /\ y + a \in Nat /\ x # y
  BY <1>2, <1>4
<1> QED BY <1>4, <1>5 DEF a

LEMMA SweepKinds ==
  ASSUME LedgerKinds, NEW from \in Venues, NEW to \in Venues, Sweep(from, to)
  PROVE  LedgerKinds'
<1> DEFINE a == (cash[from] - cash[to]) \div 2
<1>1. cash \in [Venues -> Nat]
  BY DEF LedgerKinds, MemoryKinds
<1>2. a >= MinTransfer
  BY DEF Sweep
<1>3. a \in Nat /\ cash[from] - a \in Nat /\ cash[to] + a \in Nat /\ cash[from] # cash[to]
  BY <1>1, <1>2, SweepAmount
<1>4. cash' = [cash EXCEPT ![from] = @ - a, ![to] = @ + a]
  BY DEF Sweep
<1>5. Begin("sweep", Holding(TransferRow(from), -a) ++ Holding(TransferRow(to), a) ++ SweptBalances(from, to),
            <<>>, TRUE)
  BY DEF Sweep
<1> HIDE DEF a
<1>6. cash' \in [Venues -> Nat]
  BY <1>1, <1>3, <1>4
<1>7. MemoryKinds'
  BY <1>6 DEF Sweep, LedgerKinds, MemoryKinds
<1>8. IsWrite(SweptBalances(from, to))
  <2>1. IsWrite(Holding(BalanceRow(from), cash'[from]))
    BY <1>6, OneRowWrites
  <2>2. IsWrite(Holding(BalanceRow(to), cash'[to]))
    BY <1>6, OneRowWrites
  <2> QED BY <2>1, <2>2, JoinedWrites DEF SweptBalances
<1>9. IsWrite(Holding(TransferRow(from), -a)) /\ IsWrite(Holding(TransferRow(to), a))
  BY <1>1, <1>3, OneRowWrites
<1>10. IsWrite(Holding(TransferRow(from), -a) ++ Holding(TransferRow(to), a))
  BY <1>9, JoinedWrites
<1>11. IsWrite(Holding(TransferRow(from), -a) ++ Holding(TransferRow(to), a) ++ SweptBalances(from, to))
  BY <1>8, <1>10, JoinedWrites
<1>12. TaskKinds'
  <2>1. "sweep" \in Tasks /\ <<>> \in Seq(StepKinds("sweep"))
    BY TaskNames
  <2> QED BY <2>1, <1>5, <1>11, BegunKinds DEF LedgerKinds
<1>13. StoreKinds' /\ StaleKinds' /\ HistoryKinds'
  BY DEF Sweep, LedgerKinds, StoreKinds, StaleKinds, HistoryKinds, IsWrite
<1> QED BY <1>7, <1>12, <1>13 DEF LedgerKinds

LEMMA SettleLegKinds ==
  ASSUME LedgerKinds, NEW o \in Traded, NEW rest \in Seq(StepKinds("settle")), SettleLeg(o, rest),
         isSettled' \in BOOLEAN, clean' \in BOOLEAN
  PROVE  LedgerKinds'
<1> DEFINE held == position[o].qty # 0
           v == VenueOf[o]
           q == position[o]
<1>1. cash \in [Venues -> Nat] /\ position \in [Traded -> PositionValues] /\ funded \subseteq Venues
  BY DEF LedgerKinds, MemoryKinds
<1>2. v \in Venues
  BY Legs
<1>3. q \in PositionValues /\ q.qty \in Nat /\ q.cost \in Nat /\ q.realized \in Int
  BY <1>1 DEF PositionValues
<1>4. ResolvedValue(o) * q.qty \in Nat
  <2>1. \A x, y \in Nat : x * y \in Nat
    OBVIOUS
  <2> QED BY <2>1, <1>3, PayoutKind
<1>5. Closed(o) \in PositionValues
  BY <1>3, <1>4 DEF Closed, PositionValues
<1>6. position' \in [Traded -> PositionValues]
  BY <1>1, <1>5 DEF SettleLeg
<1>7. cash' \in [Venues -> Nat]
  <2>1. cash' = IF held THEN [cash EXCEPT ![v] = @ + ResolvedValue(o) * q.qty] ELSE cash
    BY DEF SettleLeg
  <2>2. cash[v] + ResolvedValue(o) * q.qty \in Nat
    BY <1>1, <1>2, <1>4
  <2> QED BY <2>1, <2>2, <1>1
<1>8. funded' \subseteq Venues
  BY <1>1, <1>2 DEF SettleLeg
<1>9. MemoryKinds'
  BY <1>6, <1>7, <1>8 DEF MemoryKinds
<1>10. Begin("settle", OnSettled(o, held), rest, TRUE)
  BY DEF SettleLeg
<1>11. IsWrite(OnSettled(o, held))
  <2>1. IsWrite(Holding(SettlementRow(o), ResolvedValue(o))) /\ IsWrite(NoWrite)
    BY PayoutKind, OneRowWrites, WideWrites
  <2>2. IsWrite(Holding(BalanceRow(v), cash'[v]))
    BY <1>2, <1>7, OneRowWrites
  <2>3. IsWrite(Holding(PositionRow(o), position'[o]))
    BY <1>6, OneRowWrites
  <2>4. IsWrite(Holding(BalanceRow(v), cash'[v]) ++ Holding(PositionRow(o), position'[o]))
    BY <2>2, <2>3, JoinedWrites
  <2> DEFINE more == IF held THEN Holding(BalanceRow(v), cash'[v]) ++ Holding(PositionRow(o), position'[o])
                     ELSE NoWrite
  <2>5. IsWrite(more)
    BY <2>1, <2>4
  <2>6. OnSettled(o, held) = Holding(SettlementRow(o), ResolvedValue(o)) ++ more
    BY DEF OnSettled
  <2> HIDE DEF more
  <2> QED BY <2>1, <2>5, <2>6, JoinedWrites
<1> DEFINE h == held
           w == OnSettled(o, h)
<1>12. TaskKinds'
  <2>1. "settle" \in Tasks /\ TRUE \in BOOLEAN /\ TaskKinds
    BY TaskNames DEF LedgerKinds
  <2>2. Begin("settle", w, rest, TRUE) /\ IsWrite(w)
    BY <1>10, <1>11
  <2> HIDE DEF w
  <2> QED BY <2>1, <2>2, BegunKinds
<1>13. StoreKinds' /\ StaleKinds' /\ HistoryKinds'
  BY DEF SettleLeg, LedgerKinds, StoreKinds, StaleKinds, HistoryKinds, IsWrite
<1> QED BY <1>9, <1>12, <1>13 DEF LedgerKinds

LEMMA SettleGameKinds ==
  ASSUME LedgerKinds, SettleGame
  PROVE  LedgerKinds'
<1> DEFINE rest == <<<<"leg", Pair[2]>>, <<"done">>>>
<1>1. rest \in Seq(StepKinds("settle"))
  BY TaskNames
<1>2. isSettled' \in BOOLEAN /\ clean' \in BOOLEAN
  BY DEF SettleGame, LedgerKinds, MemoryKinds, HistoryKinds
<1>3. SettleLeg(Pair[1], rest)
  BY DEF SettleGame
<1> HIDE DEF rest
<1> QED BY <1>1, <1>2, <1>3, Legs, SettleLegKinds

LEMMA SettleNextKinds ==
  ASSUME LedgerKinds, SettleNext
  PROVE  LedgerKinds'
<1> DEFINE rest == <<<<"done">>>>
<1>1. rest \in Seq(StepKinds("settle"))
  BY TaskNames
<1>2. isSettled' \in BOOLEAN /\ clean' \in BOOLEAN
  BY DEF SettleNext, LedgerKinds, MemoryKinds, HistoryKinds
<1>3. SettleLeg(Pair[2], rest)
  BY DEF SettleNext
<1> HIDE DEF rest
<1> QED BY <1>1, <1>2, <1>3, Legs, SettleLegKinds

LEMMA ResetKinds ==
  ASSUME LedgerKinds, Reset
  PROVE  LedgerKinds'
<1>1. MemoryKinds'
  BY NoPositionKind DEF Reset, LedgerKinds, MemoryKinds
<1> DEFINE rest == [i \in DOMAIN Brokers |-> <<"seed", Brokers[i]>>] \o <<<<"cleared">>>>
<1>2. rest \in Seq(StepKinds("reset"))
  <2>1. Brokers \in Seq(Venues)
    BY BrokersListVenues
  <2>2. PICK n \in Nat : DOMAIN Brokers = 1..n /\ \A i \in 1..n : Brokers[i] \in Venues
    BY <2>1
  <2>3. [i \in DOMAIN Brokers |-> <<"seed", Brokers[i]>>] \in Seq(StepKinds("reset"))
    BY <2>2, TaskNames
  <2>4. <<<<"cleared">>>> \in Seq(StepKinds("reset"))
    BY TaskNames
  <2> QED BY <2>3, <2>4
<1>3. Begin("reset", Emptied, rest, TRUE)
  BY DEF Reset
<1> HIDE DEF rest
<1>4. TaskKinds'
  <2>1. "reset" \in Tasks /\ TRUE \in BOOLEAN /\ TaskKinds /\ IsWrite(Emptied)
    BY TaskNames, WideWrites DEF LedgerKinds
  <2> QED BY <2>1, <1>2, <1>3, BegunKinds
<1>5. StaleKinds'
  <2>1. [cash |-> cash, position |-> position] \in Accounts
    BY DEF LedgerKinds, MemoryKinds, Accounts
  <2> QED BY <2>1 DEF Reset, LedgerKinds, StaleKinds
<1>6. StoreKinds' /\ HistoryKinds'
  BY DEF Reset, LedgerKinds, StoreKinds, HistoryKinds, IsWrite
<1> QED BY <1>1, <1>4, <1>5, <1>6 DEF LedgerKinds

LEMMA SeedVenueKinds ==
  ASSUME LedgerKinds, SeedVenue
  PROVE  LedgerKinds'
<1> DEFINE v == Head(todo["reset"])[2]
<1>1. "reset" \in Tasks /\ todo["reset"] # <<>> /\ Head(todo["reset"])[1] = "seed"
  BY TaskNames DEF SeedVenue, AtStep
<1>2. Head(todo["reset"]) \in StepKinds("reset") /\ Tail(todo["reset"]) \in Seq(StepKinds("reset"))
  BY <1>1, PlanTail
<1>3. v \in Venues
  BY <1>1, <1>2, TaskNames
<1>4. Seed \in Nat
  BY LedgerAssumption
<1>5. MemoryKinds'
  BY <1>3, <1>4 DEF SeedVenue, LedgerKinds, MemoryKinds
<1>6. TaskKinds'
  <2>1. IsWrite(Holding(BalanceRow(v), Seed))
    BY <1>3, <1>4, OneRowWrites
  <2>2. Begin("reset", Holding(BalanceRow(v), Seed), Tail(todo["reset"]), TRUE)
    BY DEF SeedVenue
  <2> QED BY <2>1, <2>2, <1>1, <1>2, BegunKinds DEF LedgerKinds
<1>7. StoreKinds' /\ StaleKinds' /\ HistoryKinds'
  BY DEF SeedVenue, LedgerKinds, StoreKinds, StaleKinds, HistoryKinds, IsWrite
<1> QED BY <1>5, <1>6, <1>7 DEF LedgerKinds

LEMMA LedgerKindsInit == LedgerInit => LedgerKinds
<1> SUFFICES ASSUME LedgerInit
             PROVE  LedgerKinds
  OBVIOUS
<1>1. MemoryKinds
  BY NoPositionKind, LedgerAssumption DEF LedgerInit, MemoryKinds
<1>2. StoreKinds
  <2>1. store = [r \in Rows |-> IF r \in {BalanceRow(v) : v \in Venues} THEN Seed ELSE NoRow]
    BY DEF LedgerInit
  <2>2. \A t \in Tickets : TicketRow(t) \notin {BalanceRow(v) : v \in Venues} /\ StatusOf(t) \notin Rows
    BY RowNames DEF Rows, Mirrored
  <2>3. /\ \A o \in Traded : {PositionRow(o), SettlementRow(o)} \cap {BalanceRow(v) : v \in Venues} = {}
        /\ \A t \in Tickets, o \in Traded : FillRow(t, o) \notin {BalanceRow(v) : v \in Venues}
        /\ \A v \in Venues : TransferRow(v) \notin {BalanceRow(u) : u \in Venues}
    BY RowNames
  <2> QED BY <2>1, <2>2, <2>3, RowKeys, LedgerAssumption DEF StoreKinds, IsWrite
<1>3. TaskKinds
  <2>1. \A k \in Tasks : <<>> \in Seq(StepKinds(k))
    OBVIOUS
  <2> QED BY <2>1, WideWrites DEF LedgerInit, TaskKinds
<1>4. StaleKinds /\ HistoryKinds
  BY DEF LedgerInit, StaleKinds, HistoryKinds
<1> QED BY <1>1, <1>2, <1>3, <1>4 DEF LedgerKinds

LEMMA LedgerKindsStep ==
  ASSUME LedgerKinds, [LedgerNext]_ledgerVars
  PROVE  LedgerKinds'
<1>1. ASSUME NEW k \in Tasks, Lands(k)
      PROVE  LedgerKinds'
  BY <1>1, LandsKinds
<1>2. ASSUME NEW k \in Tasks, GivenUp(k) \/ Refused(k)
      PROVE  LedgerKinds'
  BY <1>2, DroppedKinds DEF GivenUp, Refused
<1>3. ASSUME NEW t \in Tickets,
             \/ OpenTicket(t) \/ Fill(t) \/ RefuseLegs(t) \/ WriteRejectedLegs(t)
             \/ Emit(t) \/ EmitRaises(t) \/ WriteStatus(t)
      PROVE  LedgerKinds'
  BY <1>3, OpenTicketKinds, FillKinds, RefuseLegsKinds, WriteRejectedLegsKinds, EmitKinds,
     EmitRaisesKinds, WriteStatusKinds
<1>4. ASSUME NEW from \in Venues, NEW to \in Venues, Sweep(from, to)
      PROVE  LedgerKinds'
  BY <1>4, SweepKinds
<1>5. ASSUME SettleGame \/ SettleNext \/ MarkSettled \/ Reset \/ SeedVenue \/ ClearSettled
      PROVE  LedgerKinds'
  BY <1>5, SettleGameKinds, SettleNextKinds, MarkSettledKinds, ResetKinds, SeedVenueKinds,
     ClearSettledKinds
<1>6. CASE UNCHANGED ledgerVars
  BY <1>6 DEF ledgerVars, memory, history, LedgerKinds, MemoryKinds, StoreKinds, TaskKinds,
     StaleKinds, HistoryKinds, IsWrite
<1> QED BY <1>1, <1>2, <1>3, <1>4, <1>5, <1>6 DEF LedgerNext

LEMMA LedgerKindsAreTypes ==
  ASSUME LedgerKinds
  PROVE  LedgerTypeOK
<1>1. \A v \in Venues : store[BalanceRow(v)] \in Nat \cup {NoRow}
  BY RowKeys DEF LedgerKinds, StoreKinds, IsWrite
<1>2. \A o \in Traded : store[PositionRow(o)] \in PositionValues \cup {NoRow}
  BY RowKeys DEF LedgerKinds, StoreKinds, IsWrite
<1>3. \A t \in Tickets : store[TicketRow(t)] \in {"pending", "filled", "rejected", "missed", NoRow}
  BY RowKeys DEF LedgerKinds, StoreKinds, IsWrite, TicketCells
<1>4. \A k \in Tasks : DOMAIN writing[k] \subseteq Rows \cup {StatusOf(t) : t \in Tickets}
  BY DEF LedgerKinds, TaskKinds, IsWrite, Keys
<1> QED BY <1>1, <1>2, <1>3, <1>4 DEF LedgerKinds, MemoryKinds, StoreKinds, HistoryKinds, LedgerTypeOK

\* The types: every variable of the ledger is of its kind, and cash is never
\* below zero, whatever tickets, sweeps, settlements and resets do.
THEOREM LedgerTypes == LedgerSpec => []LedgerTypeOK
BY LedgerKindsInit, LedgerKindsStep, LedgerKindsAreTypes, PTL DEF LedgerSpec

-----------------------------------------------------------------------------
(* The ledger: what has still to be written back.                           *)

\* The mirrored row a step of a ticket's plan will write.
RowsOf(step) ==
  CASE step[1] = "balance"  -> {BalanceRow(VenueOf[step[2]])}
    [] step[1] = "position" -> {PositionRow(step[2])}
    [] OTHER -> {}
Scheduled(t, r) == \E i \in DOMAIN todo[t] : r \in RowsOf(todo[t][i])

\* A ticket will read memory for the row, and will not fail before it does.
BothFunded == \A o \in Traded : VenueOf[o] \in funded
Due(r) == BothFunded /\ \E t \in Tickets : stale[t] = NoRow /\ Scheduled(t, r)

\* The transaction of the last task to read memory for the row is under way.
Carried(k, r) == captured[r] = k /\ r \in DOMAIN writing[k]

Backed(r) ==
  \/ r \in suspect
  \/ Due(r)
  \/ \E k \in Tasks : Carried(k, r)
  \/ captured[r] = NoRow /\ Mirrors(r)
WrittenBack == \A r \in Mirrored : Backed(r)
CarriesMemory == \A k \in Tasks, r \in Mirrored : Carried(k, r) => Due(r) \/ Agrees(r, writing[k][r])

\* A ticket reads memory for a row once: its plan repeats no step, ends with
\* the status, and holds nothing else while it is to be submitted or refused.
Planned(t) ==
  /\ \A i, j \in DOMAIN todo[t] : todo[t][i] = todo[t][j] => i = j
  /\ \A i \in DOMAIN todo[t] :
       /\ todo[t][i][1] \in {"submit", "legs"} => Len(todo[t]) = 1
       /\ todo[t][i][1] = "status" => i = Len(todo[t])
ToBeFilled(t) == t \notin submitted \/ todo[t] = <<<<"submit">>>>
ReadOnce(t) ==
  /\ Planned(t)
  /\ \A r \in Mirrored : captured[r] = t => ~Scheduled(t, r)
  /\ t \notin submitted => todo[t] = <<>>
  /\ ToBeFilled(t) => stale[t] = NoRow /\ \A r \in Mirrored : captured[r] # t

\* Every step that changes a row of memory leaves a reading of it under way or
\* to come, until the row holds it.
LedgerInv == LedgerKinds /\ WrittenBack /\ CarriesMemory /\ \A t \in Tickets : ReadOnce(t)

\* The account after a step agrees with x; the step keeps what the row agrees
\* with; and what a step that begins the transaction w owes a row.
AgreesAfter(r, x) ==
  IF r[1] = "balance"
  THEN IF x = NoRow THEN r[2] \notin funded' ELSE cash'[r[2]] = x
  ELSE position'[r[2]] = IF x = NoRow THEN NoPosition ELSE x
SameRow(r) ==
  IF r[1] = "balance" THEN cash'[r[2]] = cash[r[2]] /\ (r[2] \in funded' <=> r[2] \in funded)
  ELSE position'[r[2]] = position[r[2]]
Kept(k, w, fresh, r) ==
  IF fresh /\ r \in DOMAIN w
  THEN AgreesAfter(r, w[r])
  ELSE /\ Due(r) => Due(r)'
       /\ Due(r)' \/ SameRow(r)
       /\ r \in DOMAIN w => captured[r] # k

LEMMA SameRowAgrees ==
  ASSUME NEW r, SameRow(r), NEW x, Agrees(r, x)
  PROVE  AgreesAfter(r, x)
BY DEF SameRow, Agrees, AgreesAfter

LEMMA AgreesLater ==
  ASSUME NEW r, NEW x
  PROVE  AgreesAfter(r, x) <=> Agrees(r, x)'
BY DEF AgreesAfter, Agrees

\* A task that begins a transaction and keeps every row keeps the invariant.
LEMMA BegunKeeps ==
  ASSUME LedgerInv, NEW k \in Tasks, NEW w, NEW rest, NEW fresh \in BOOLEAN,
         writing[k] = NoWrite, Begin(k, w, rest, fresh),
         store' = store, suspect' = suspect,
         \A r \in Mirrored : Kept(k, w, fresh, r)
  PROVE  WrittenBack' /\ CarriesMemory'
<1>1. \A j \in Tasks : writing'[j] = IF j = k THEN w ELSE writing[j]
  BY DEF LedgerInv, LedgerKinds, TaskKinds, Begin
<1>2. \A r \in Mirrored : captured'[r] = IF r \in DOMAIN w /\ fresh THEN k ELSE captured[r]
  BY DEF Begin
<1>3. \A r : r \notin DOMAIN writing[k]
  BY DEF NoWrite
<1>4. ASSUME NEW r \in Mirrored
      PROVE  Backed(r)'
  <2>1. CASE fresh /\ r \in DOMAIN w
    <3>1. Carried(k, r)'
      BY <1>1, <1>2, <2>1 DEF Carried
    <3> QED BY <3>1 DEF Backed
  <2>2. CASE ~(fresh /\ r \in DOMAIN w)
    <3>1. /\ Due(r) => Due(r)'
          /\ Due(r)' \/ SameRow(r)
      BY <2>2 DEF Kept
    <3>2. captured'[r] = captured[r]
      BY <1>2, <2>2
    <3>3. Backed(r)
      BY DEF LedgerInv, WrittenBack
    <3>4. CASE r \in suspect \/ Due(r) \/ Due(r)'
      BY <3>1, <3>4 DEF Backed
    <3>5. ASSUME NEW j \in Tasks, Carried(j, r)
          PROVE  Backed(r)'
      <4>1. j # k
        BY <1>3, <3>5 DEF Carried
      <4>2. Carried(j, r)'
        BY <4>1, <1>1, <3>2, <3>5 DEF Carried
      <4> QED BY <4>2 DEF Backed
    <3>6. CASE captured[r] = NoRow /\ Mirrors(r) /\ SameRow(r)
      <4>1. AgreesAfter(r, store[r])
        BY <3>6, SameRowAgrees DEF Mirrors
      <4>2. Mirrors(r)'
        BY <4>1 DEF AgreesAfter, Mirrors, Agrees
      <4> QED BY <4>2, <3>2, <3>6 DEF Backed
    <3> QED BY <3>1, <3>3, <3>4, <3>5, <3>6 DEF Backed
  <2> QED BY <2>1, <2>2
<1>5. ASSUME NEW j \in Tasks, NEW r \in Mirrored, Carried(j, r)'
      PROVE  Due(r)' \/ Agrees(r, writing[j][r])'
  <2>1. captured'[r] = j /\ r \in DOMAIN writing'[j]
    BY <1>5 DEF Carried
  <2>2. CASE fresh /\ r \in DOMAIN w
    <3>1. j = k /\ writing'[j] = w
      BY <1>1, <1>2, <2>1, <2>2
    <3>2. AgreesAfter(r, w[r])
      BY <2>2 DEF Kept
    <3> QED BY <3>1, <3>2 DEF AgreesAfter, Agrees
  <2>3. CASE ~(fresh /\ r \in DOMAIN w)
    <3>1. /\ Due(r) => Due(r)'
          /\ Due(r)' \/ SameRow(r)
          /\ r \in DOMAIN w => captured[r] # k
      BY <2>3 DEF Kept
    <3>2. captured[r] = j
      BY <1>2, <2>1, <2>3
    <3>3. j # k
      BY <1>1, <2>1, <3>1, <3>2
    <3>4. writing'[j] = writing[j]
      BY <1>1, <3>3
    <3>5. Carried(j, r)
      BY <2>1, <3>2, <3>4 DEF Carried
    <3>6. Due(r) \/ Agrees(r, writing[j][r])
      BY <3>5 DEF LedgerInv, CarriesMemory
    <3>7. CASE Due(r)'
      BY <3>7
    <3>8. CASE SameRow(r) /\ Agrees(r, writing[j][r])
      <4>1. AgreesAfter(r, writing[j][r])
        BY <3>8, SameRowAgrees
      <4> QED BY <4>1, <3>4 DEF AgreesAfter, Agrees
    <3> QED BY <3>1, <3>6, <3>7, <3>8
  <2> QED BY <2>2, <2>3
<1> QED BY <1>4, <1>5 DEF WrittenBack, CarriesMemory

LEMMA MirroredKinds ==
  ASSUME NEW r \in Mirrored
  PROVE  r[1] \in {"balance", "position"} /\ r \in Rows
BY MirroredRow, RowNames, RowKeys

\* What is due stays due while the venues keep their balances and the plans
\* keep the row's write.
LEMMA DueStays ==
  ASSUME NEW r, funded \subseteq funded', Due(r),
         \A t \in Tickets : stale[t] = NoRow /\ Scheduled(t, r) => stale'[t] = NoRow /\ Scheduled(t, r)'
  PROVE  Due(r)'
<1>1. PICK t \in Tickets : stale[t] = NoRow /\ Scheduled(t, r)
  BY DEF Due
<1>2. stale'[t] = NoRow /\ Scheduled(t, r)'
  BY <1>1
<1>3. BothFunded'
  BY DEF Due, BothFunded
<1> QED BY <1>2, <1>3 DEF Due

LEMMA DueSame ==
  ASSUME NEW r, funded \subseteq funded',
         \A t \in Tickets : stale'[t] = stale[t] /\ todo'[t] = todo[t]
  PROVE  Due(r) => Due(r)'
<1>1. \A t \in Tickets : Scheduled(t, r) => Scheduled(t, r)'
  BY DEF Scheduled
<1> QED BY <1>1, DueStays

\* A ticket whose plan and object are left alone, and that reads nothing.
LEMMA ReadOnceSame ==
  ASSUME NEW t \in Tickets, ReadOnce(t), todo'[t] = todo[t], stale'[t] = stale[t],
         t \in submitted' <=> t \in submitted,
         \A r \in Mirrored : captured'[r] = t => captured[r] = t
  PROVE  ReadOnce(t)'
<1>1. Planned(t)'
  BY DEF ReadOnce, Planned
<1>2. \A r \in Mirrored : captured'[r] = t => ~Scheduled(t, r)'
  BY DEF ReadOnce, Scheduled
<1> QED BY <1>1, <1>2 DEF ReadOnce, ToBeFilled

LEMMA LandsKeeps ==
  ASSUME LedgerInv, NEW k \in Tasks, Lands(k)
  PROVE  WrittenBack' /\ CarriesMemory'
<1> DEFINE w == writing[k]
           mine == {r \in Mirrored \cap DOMAIN w : captured[r] = k}
<1>1. \A j \in Tasks : writing'[j] = IF j = k THEN NoWrite ELSE writing[j]
  BY DEF LedgerInv, LedgerKinds, TaskKinds, Lands
<1>2. /\ suspect' = (suspect \cup (Mirrored \cap DOMAIN w)) \ mine
      /\ \A r \in Mirrored : captured'[r] = IF r \in mine THEN NoRow ELSE captured[r]
  BY DEF Lands
<1>3. \A r \in Mirrored : store'[r] = IF r \in DOMAIN w THEN w[r] ELSE store[r]
  BY MirroredKinds DEF Lands, LandedIn
<1>4. NoRow \notin Tasks
  BY NamesAssumption
<1>5. \A r \in Mirrored : Due(r) => Due(r)'
  BY DueSame DEF Lands, memory
<1>6. \A r, x : Agrees(r, x) => Agrees(r, x)'
  BY DEF Agrees, Lands, memory
<1>7. \A r \in Mirrored : r \in mine <=> r \in DOMAIN w /\ captured[r] = k
  OBVIOUS
<1> HIDE DEF w, mine
<1>8. ASSUME NEW r \in Mirrored
      PROVE  Backed(r)'
  <2>1. CASE r \in mine
    <3>1. Carried(k, r)
      BY <2>1, <1>7 DEF Carried, w
    <3>2. Due(r) \/ Agrees(r, w[r])
      BY <3>1 DEF LedgerInv, CarriesMemory, w
    <3>3. captured'[r] = NoRow /\ store'[r] = w[r]
      BY <2>1, <1>2, <1>3, <1>7
    <3>4. CASE Due(r)
      BY <3>4, <1>5 DEF Backed
    <3>5. CASE Agrees(r, w[r])
      <4>1. Agrees(r, store'[r])
        BY <3>3, <3>5
      <4>2. Mirrors(r)'
        BY <4>1 DEF Mirrors, Agrees, Lands, memory
      <4> QED BY <4>2, <3>3 DEF Backed
    <3> QED BY <3>2, <3>4, <3>5
  <2>2. CASE r \in DOMAIN w /\ r \notin mine
    BY <2>2, <1>2 DEF Backed
  <2>3. CASE r \notin DOMAIN w
    <3>1. r \notin mine /\ captured'[r] = captured[r] /\ store'[r] = store[r]
      BY <2>3, <1>2, <1>3, <1>7
    <3>2. Backed(r)
      BY DEF LedgerInv, WrittenBack
    <3>3. CASE r \in suspect
      BY <3>3, <3>1, <1>2 DEF Backed
    <3>4. CASE Due(r)
      BY <3>4, <1>5 DEF Backed
    <3>5. ASSUME NEW j \in Tasks, Carried(j, r)
          PROVE  Backed(r)'
      <4>1. j # k
        BY <2>3, <3>5 DEF Carried, w
      <4>2. Carried(j, r)'
        BY <4>1, <1>1, <3>1, <3>5 DEF Carried
      <4> QED BY <4>2 DEF Backed
    <3>6. CASE captured[r] = NoRow /\ Mirrors(r)
      <4>1. Mirrors(r)'
        BY <3>1, <3>6 DEF Mirrors, Agrees, Lands, memory
      <4> QED BY <4>1, <3>1, <3>6 DEF Backed
    <3> QED BY <3>2, <3>3, <3>4, <3>5, <3>6 DEF Backed
  <2> QED BY <2>1, <2>2, <2>3
<1>9. ASSUME NEW j \in Tasks, NEW r \in Mirrored, Carried(j, r)'
      PROVE  Due(r)' \/ Agrees(r, writing[j][r])'
  <2>1. captured'[r] = j /\ r \in DOMAIN writing'[j]
    BY <1>9 DEF Carried
  <2>2. captured[r] = j /\ r \notin mine
    BY <2>1, <1>2, <1>4
  <2>3. j # k
    BY <2>1, <1>1 DEF NoWrite
  <2>4. writing'[j] = writing[j]
    BY <1>1, <2>3
  <2>5. Due(r) \/ Agrees(r, writing[j][r])
    BY <2>1, <2>2, <2>4 DEF Carried, LedgerInv, CarriesMemory
  <2> QED BY <2>4, <2>5, <1>5 DEF Agrees, Lands, memory
<1> QED BY <1>8, <1>9 DEF WrittenBack, CarriesMemory

LEMMA LandsReads ==
  ASSUME LedgerInv, NEW k \in Tasks, Lands(k), NEW t \in Tickets
  PROVE  ReadOnce(t)'
<1>1. \A r \in Mirrored : captured'[r] = t => captured[r] = t
  BY NamesAssumption, TaskNames DEF Lands
<1> QED BY <1>1, ReadOnceSame DEF LedgerInv, Lands

LEMMA DroppedKeeps ==
  ASSUME LedgerInv, NEW k \in Tasks, Dropped(k)
  PROVE  WrittenBack' /\ CarriesMemory' /\ \A t \in Tickets : ReadOnce(t)'
<1>1. \A j \in Tasks : writing'[j] = IF j = k THEN NoWrite ELSE writing[j]
  BY DEF LedgerInv, LedgerKinds, TaskKinds, Dropped
<1>2. \A t \in Tickets : todo'[t] = todo[t]
  BY TaskNames DEF LedgerInv, LedgerKinds, TaskKinds, Dropped
<1>3. \A r \in Mirrored : Due(r) => Due(r)'
  BY <1>2, DueSame DEF Dropped, memory
<1>4. ASSUME NEW r \in Mirrored
      PROVE  Backed(r)'
  <2>1. Backed(r)
    BY DEF LedgerInv, WrittenBack
  <2>2. CASE r \in suspect
    BY <2>2 DEF Backed, Dropped
  <2>3. CASE Due(r)
    BY <2>3, <1>3 DEF Backed
  <2>4. ASSUME NEW j \in Tasks, Carried(j, r)
        PROVE  Backed(r)'
    <3>1. CASE j = k
      BY <2>4, <3>1 DEF Backed, Carried, Dropped
    <3>2. CASE j # k
      <4>1. Carried(j, r)'
        BY <2>4, <3>2, <1>1 DEF Carried, Dropped
      <4> QED BY <4>1 DEF Backed
    <3> QED BY <3>1, <3>2
  <2>5. CASE captured[r] = NoRow /\ Mirrors(r)
    BY <2>5 DEF Backed, Mirrors, Agrees, Dropped, memory
  <2> QED BY <2>1, <2>2, <2>3, <2>4, <2>5 DEF Backed
<1>5. ASSUME NEW j \in Tasks, NEW r \in Mirrored, Carried(j, r)'
      PROVE  Due(r)' \/ Agrees(r, writing[j][r])'
  <2>1. captured[r] = j /\ r \in DOMAIN writing'[j]
    BY <1>5 DEF Carried, Dropped
  <2>2. j # k /\ writing'[j] = writing[j]
    BY <2>1, <1>1 DEF NoWrite
  <2>3. Due(r) \/ Agrees(r, writing[j][r])
    BY <2>1, <2>2 DEF Carried, LedgerInv, CarriesMemory
  <2> QED BY <2>2, <2>3, <1>3 DEF Agrees, Dropped, memory
<1>6. ASSUME NEW t \in Tickets
      PROVE  ReadOnce(t)'
  BY <1>2, ReadOnceSame DEF LedgerInv, Dropped
<1> QED BY <1>4, <1>5, <1>6 DEF WrittenBack, CarriesMemory

\* A step that leaves everything but the plans of tasks that are no tickets.
LEMMA PlanOnlyKeeps ==
  ASSUME LedgerInv, UNCHANGED <<cash, funded, position, submitted, store, writing, stale, history>>,
         \A t \in Tickets : todo'[t] = todo[t]
  PROVE  WrittenBack' /\ CarriesMemory' /\ \A t \in Tickets : ReadOnce(t)'
<1>1. \A r \in Mirrored : Due(r) => Due(r)'
  BY DueSame
<1>2. \A r \in Mirrored : Backed(r) => Backed(r)'
  BY <1>1 DEF Backed, Carried, Mirrors, Agrees, history
<1>3. WrittenBack'
  BY <1>2 DEF LedgerInv, WrittenBack
<1>4. CarriesMemory'
  BY <1>1 DEF LedgerInv, CarriesMemory, Carried, Agrees, history
<1>5. \A t \in Tickets : ReadOnce(t)'
  BY ReadOnceSame DEF LedgerInv, history
<1> QED BY <1>3, <1>4, <1>5

\* The sweep, a settlement and a reset are no tickets: what they leave of the
\* tickets' plans.
LEMMA OtherTaskReads ==
  ASSUME LedgerInv, NEW k \in Tasks \ Tickets, NEW w, NEW rest, NEW fresh \in BOOLEAN,
         Begin(k, w, rest, fresh), submitted' = submitted
  PROVE  /\ \A t \in Tickets : todo'[t] = todo[t]
         /\ \A t \in Tickets : stale'[t] = stale[t] => ReadOnce(t)'
<1>1. \A t \in Tickets : todo'[t] = todo[t]
  BY TaskNames DEF LedgerInv, LedgerKinds, TaskKinds, Begin
<1>2. \A t \in Tickets, r \in Mirrored : captured'[r] = t => captured[r] = t
  BY DEF Begin
<1>3. ASSUME NEW t \in Tickets, stale'[t] = stale[t]
      PROVE  ReadOnce(t)'
  BY <1>1, <1>2, <1>3, ReadOnceSame DEF LedgerInv
<1> QED BY <1>1, <1>3

\* A fresh reading of some rows, by a task that is no ticket and touches no
\* other row of memory.
LEMMA OtherTaskKeeps ==
  ASSUME LedgerInv, NEW k \in Tasks \ Tickets, NEW w, NEW rest,
         writing[k] = NoWrite, Begin(k, w, rest, TRUE),
         store' = store, suspect' = suspect, submitted' = submitted, stale' = stale,
         funded \subseteq funded',
         \A r \in Mirrored : IF r \in DOMAIN w THEN AgreesAfter(r, w[r]) ELSE SameRow(r)
  PROVE  WrittenBack' /\ CarriesMemory' /\ \A t \in Tickets : ReadOnce(t)'
<1>1. \A t \in Tickets : todo'[t] = todo[t] /\ ReadOnce(t)'
  BY OtherTaskReads
<1>2. \A r \in Mirrored : Due(r) => Due(r)'
  BY <1>1, DueSame
<1>3. \A r \in Mirrored : Kept(k, w, TRUE, r)
  BY <1>2 DEF Kept
<1>4. WrittenBack' /\ CarriesMemory'
  BY <1>3, BegunKeeps
<1> QED BY <1>1, <1>4

LEMMA SweepKeeps ==
  ASSUME LedgerInv, NEW from \in Venues, NEW to \in Venues, Sweep(from, to)
  PROVE  WrittenBack' /\ CarriesMemory' /\ \A t \in Tickets : ReadOnce(t)'
<1> DEFINE a == (cash[from] - cash[to]) \div 2
           moved == Holding(TransferRow(from), -a) ++ Holding(TransferRow(to), a)
           w == moved ++ SweptBalances(from, to)
           f == Holding(BalanceRow(from), cash'[from])
           g == Holding(BalanceRow(to), cash'[to])
<1>1. "sweep" \in Tasks \ Tickets
  BY TaskNames
<1>2. writing["sweep"] = NoWrite /\ Begin("sweep", w, <<>>, TRUE)
  BY DEF Sweep, Starts, Idle
<1>3. store' = store /\ suspect' = suspect /\ submitted' = submitted /\ stale' = stale
      /\ position' = position /\ funded' = funded \cup {from, to}
  BY DEF Sweep
<1>4. /\ cash' = [cash EXCEPT ![from] = @ - a, ![to] = @ + a]
      /\ DOMAIN cash = Venues
  BY DEF Sweep, LedgerInv, LedgerKinds, MemoryKinds
<1>5. \A v \in Venues : v # from /\ v # to => cash'[v] = cash[v]
  <2> HIDE DEF a
  <2> QED BY <1>4
<1> HIDE DEF a
<1>6. /\ DOMAIN f = {BalanceRow(from)} /\ f[BalanceRow(from)] = cash'[from]
      /\ DOMAIN g = {BalanceRow(to)} /\ g[BalanceRow(to)] = cash'[to]
  BY OneRow
<1>7. DOMAIN moved = {TransferRow(from), TransferRow(to)}
  <2> DEFINE x == Holding(TransferRow(from), -a)
             y == Holding(TransferRow(to), a)
  <2>1. DOMAIN x = {TransferRow(from)} /\ DOMAIN y = {TransferRow(to)}
    BY OneRow
  <2> HIDE DEF x, y
  <2>2. DOMAIN (x ++ y) = DOMAIN x \cup DOMAIN y
    BY MoreRows
  <2>3. DOMAIN (x ++ y) = {TransferRow(from), TransferRow(to)}
    BY <2>1, <2>2
  <2> QED BY <2>3 DEF x, y
<1>8. SweptBalances(from, to) = f ++ g
  BY DEF SweptBalances
<1> HIDE DEF f, g, moved
<1>9. /\ DOMAIN (f ++ g) = {BalanceRow(from), BalanceRow(to)}
      /\ (f ++ g)[BalanceRow(from)] = cash'[from]
      /\ (f ++ g)[BalanceRow(to)] = cash'[to]
  <2>1. /\ DOMAIN (f ++ g) = DOMAIN f \cup DOMAIN g
        /\ \A r \in DOMAIN f : (f ++ g)[r] = f[r]
        /\ \A r \in DOMAIN g \ DOMAIN f : (f ++ g)[r] = g[r]
    BY MoreRows
  <2>2. BalanceRow(from) = BalanceRow(to) => from = to
    BY RowNames
  <2> QED BY <2>1, <2>2, <1>6
<1>10. /\ DOMAIN w = {TransferRow(from), TransferRow(to), BalanceRow(from), BalanceRow(to)}
       /\ w[BalanceRow(from)] = cash'[from]
       /\ w[BalanceRow(to)] = cash'[to]
  <2> DEFINE b == f ++ g
  <2>1. w = moved ++ b
    BY <1>8
  <2>2. /\ DOMAIN b = {BalanceRow(from), BalanceRow(to)}
        /\ b[BalanceRow(from)] = cash'[from]
        /\ b[BalanceRow(to)] = cash'[to]
    BY <1>9
  <2> HIDE DEF b, w
  <2>3. /\ DOMAIN w = DOMAIN moved \cup DOMAIN b
        /\ \A r \in DOMAIN b \ DOMAIN moved : w[r] = b[r]
    <3>1. DOMAIN (moved ++ b) = DOMAIN moved \cup DOMAIN b
      BY MoreRows
    <3>2. \A r \in DOMAIN b \ DOMAIN moved : (moved ++ b)[r] = b[r]
      BY MoreRows
    <3> QED BY <3>1, <3>2, <2>1
  <2>4. BalanceRow(from) \notin DOMAIN moved /\ BalanceRow(to) \notin DOMAIN moved
    BY <1>7, RowNames
  <2> QED BY <2>2, <2>3, <2>4, <1>7
<1> HIDE DEF w
<1>11. cash'[from] # NoRow /\ cash'[to] # NoRow
  <2>1. cash' \in [Venues -> Nat]
    BY SweepKinds DEF LedgerInv, LedgerKinds, MemoryKinds
  <2> QED BY <2>1, NamesAssumption
<1>12. ASSUME NEW r \in Mirrored
       PROVE  IF r \in DOMAIN w THEN AgreesAfter(r, w[r]) ELSE SameRow(r)
  <2>1. CASE r \in DOMAIN w
    <3>1. r = BalanceRow(from) \/ r = BalanceRow(to)
      BY <2>1, <1>10, MirroredKinds, RowNames
    <3>2. AgreesAfter(r, w[r])
      BY <3>1, <1>10, <1>11, RowNames DEF AgreesAfter
    <3> QED BY <2>1, <3>2
  <2>2. CASE r \notin DOMAIN w
    <3>1. r[1] = "balance" => r[2] \in Venues /\ r[2] # from /\ r[2] # to
      BY <2>2, <1>10, MirroredRow, RowNames
    <3>2. SameRow(r)
      BY <3>1, <1>3, <1>5 DEF SameRow
    <3> QED BY <2>2, <3>2
  <2> QED BY <2>1, <2>2
<1> QED BY <1>1, <1>2, <1>3, <1>12, OtherTaskKeeps

LEMMA SettleLegKeeps ==
  ASSUME LedgerInv, LedgerKinds', NEW o \in Traded, NEW rest, SettleLeg(o, rest), writing["settle"] = NoWrite
  PROVE  WrittenBack' /\ CarriesMemory' /\ \A t \in Tickets : ReadOnce(t)'
<1> DEFINE held == position[o].qty # 0
           v == VenueOf[o]
           w == OnSettled(o, held)
           f == Holding(BalanceRow(v), cash'[v])
           g == Holding(PositionRow(o), position'[o])
           more == IF held THEN f ++ g ELSE NoWrite
           s == Holding(SettlementRow(o), ResolvedValue(o))
<1>1. "settle" \in Tasks \ Tickets
  BY TaskNames
<1>2. Begin("settle", w, rest, TRUE) /\ store' = store /\ suspect' = suspect /\ submitted' = submitted
      /\ stale' = stale
  BY DEF SettleLeg
<1>3. v \in Venues
  BY Legs
<1>4. /\ funded' = IF held THEN funded \cup {v} ELSE funded
      /\ \A u \in Venues : ~held \/ u # v => cash'[u] = cash[u]
      /\ \A p \in Traded : ~held \/ p # o => position'[p] = position[p]
  BY DEF SettleLeg, LedgerInv, LedgerKinds, MemoryKinds
<1>5. w = s ++ more
  BY DEF OnSettled
<1>6. /\ DOMAIN f = {BalanceRow(v)} /\ f[BalanceRow(v)] = cash'[v]
      /\ DOMAIN g = {PositionRow(o)} /\ g[PositionRow(o)] = position'[o]
      /\ DOMAIN s = {SettlementRow(o)}
  BY OneRow
<1>7. cash'[v] # NoRow /\ position'[o] # NoRow
  <2>1. cash'[v] \in Nat /\ position'[o] \in PositionValues
    BY <1>3 DEF LedgerKinds, MemoryKinds
  <2> QED BY <2>1, NamesAssumption
<1> DEFINE h == held
<1>8. more = IF h THEN f ++ g ELSE NoWrite
  OBVIOUS
<1> HIDE DEF f, g, s, more, w, v, h
<1>9. /\ DOMAIN more = IF h THEN {BalanceRow(v), PositionRow(o)} ELSE {}
      /\ h => more[BalanceRow(v)] = cash'[v] /\ more[PositionRow(o)] = position'[o]
  <2>1. /\ DOMAIN (f ++ g) = DOMAIN f \cup DOMAIN g
        /\ \A r \in DOMAIN f : (f ++ g)[r] = f[r]
        /\ \A r \in DOMAIN g \ DOMAIN f : (f ++ g)[r] = g[r]
    BY MoreRows
  <2>2. BalanceRow(v) # PositionRow(o)
    BY RowNames
  <2>3. DOMAIN NoWrite = {}
    BY DEF NoWrite
  <2> QED BY <2>1, <2>2, <2>3, <1>6, <1>8
<1>10. /\ DOMAIN w = DOMAIN s \cup DOMAIN more
       /\ h => w[BalanceRow(v)] = cash'[v] /\ w[PositionRow(o)] = position'[o]
  <2>1. /\ DOMAIN w = DOMAIN s \cup DOMAIN more
        /\ \A r \in DOMAIN more \ DOMAIN s : w[r] = more[r]
    <3>1. DOMAIN (s ++ more) = DOMAIN s \cup DOMAIN more
      BY MoreRows
    <3>2. \A r \in DOMAIN more \ DOMAIN s : (s ++ more)[r] = more[r]
      BY MoreRows
    <3> QED BY <3>1, <3>2, <1>5
  <2>2. BalanceRow(v) # SettlementRow(o) /\ PositionRow(o) # SettlementRow(o)
    BY RowNames
  <2> QED BY <2>1, <2>2, <1>6, <1>9
<1>11. ASSUME NEW r \in Mirrored
       PROVE  IF r \in DOMAIN w THEN AgreesAfter(r, w[r]) ELSE SameRow(r)
  <2>1. CASE r \in DOMAIN w
    <3>1. h /\ (r = BalanceRow(v) \/ r = PositionRow(o))
      BY <2>1, <1>6, <1>9, <1>10, MirroredKinds, RowNames
    <3>2. AgreesAfter(r, w[r])
      BY <3>1, <1>7, <1>10, RowNames DEF AgreesAfter, v
    <3> QED BY <2>1, <3>2
  <2>2. CASE r \notin DOMAIN w
    <3>1. CASE h
      <4>1. r # BalanceRow(v) /\ r # PositionRow(o)
        BY <2>2, <3>1, <1>9, <1>10
      <4>2. CASE \E u \in Venues : r = BalanceRow(u)
        <5>1. PICK u \in Venues : r = BalanceRow(u)
          BY <4>2
        <5>2. u # v /\ r[1] = "balance" /\ r[2] = u
          BY <4>1, <5>1, RowNames
        <5>3. SameRow(r)
          BY <5>1, <5>2, <1>4 DEF SameRow, v
        <5> QED BY <2>2, <5>3
      <4>3. CASE \E p \in Traded : r = PositionRow(p)
        <5>1. PICK p \in Traded : r = PositionRow(p)
          BY <4>3
        <5>2. p # o /\ r[1] = "position" /\ r[2] = p
          BY <4>1, <5>1, RowNames
        <5>3. SameRow(r)
          BY <5>1, <5>2, <1>4 DEF SameRow
        <5> QED BY <2>2, <5>3
      <4> QED BY <4>2, <4>3, MirroredRow
    <3>2. CASE ~h
      <4>1. funded' = funded /\ (\A u \in Venues : cash'[u] = cash[u])
            /\ (\A p \in Traded : position'[p] = position[p])
        BY <3>2, <1>4 DEF h
      <4>2. SameRow(r)
        BY <4>1, MirroredRow, RowNames DEF SameRow
      <4> QED BY <2>2, <4>2
    <3> QED BY <3>1, <3>2
  <2> QED BY <2>1, <2>2
<1>12. funded \subseteq funded'
  BY <1>4
<1> QED BY <1>1, <1>2, <1>11, <1>12, OtherTaskKeeps

LEMMA ResetKeeps ==
  ASSUME LedgerInv, Reset
  PROVE  WrittenBack' /\ CarriesMemory' /\ \A t \in Tickets : ReadOnce(t)'
<1> DEFINE rest == [i \in DOMAIN Brokers |-> <<"seed", Brokers[i]>>] \o <<<<"cleared">>>>
<1>1. "reset" \in Tasks \ Tickets
  BY TaskNames
<1>2. writing["reset"] = NoWrite /\ Begin("reset", Emptied, rest, TRUE)
      /\ store' = store /\ suspect' = suspect /\ submitted' = submitted
  BY DEF Reset, Starts, Idle
<1>3. \A r \in Mirrored : r \in DOMAIN Emptied /\ Emptied[r] = NoRow
  BY MirroredKinds DEF Emptied
<1>4. funded' = {} /\ \A o \in Traded : position'[o] = NoPosition
  BY DEF Reset
<1> HIDE DEF rest
<1>5. ASSUME NEW r \in Mirrored
      PROVE  Kept("reset", Emptied, TRUE, r)
  <2>1. r[1] = "balance" \/ (r[1] = "position" /\ r[2] \in Traded)
    BY MirroredRow, RowNames
  <2>2. AgreesAfter(r, NoRow)
    BY <2>1, <1>4 DEF AgreesAfter
  <2> QED BY <2>2, <1>3 DEF Kept
<1>6. WrittenBack' /\ CarriesMemory'
  BY <1>1, <1>2, <1>5, BegunKeeps
<1>7. \A t \in Tickets : todo'[t] = todo[t] /\ (stale'[t] = stale[t] => ReadOnce(t)')
  BY <1>1, <1>2, OtherTaskReads
<1>8. ASSUME NEW t \in Tickets, stale'[t] # stale[t]
      PROVE  ReadOnce(t)'
  <2>1. MidLeg(t)
    BY <1>8 DEF Reset
  <2>2. ~ToBeFilled(t)
    BY <2>1 DEF MidLeg, ToBeFilled, LedgerInv, ReadOnce
  <2>3. ~ToBeFilled(t)'
    BY <2>2, <1>2, <1>7 DEF ToBeFilled
  <2>4. \A r \in Mirrored : captured'[r] # t
    BY <1>1, <1>2, <1>3 DEF Begin
  <2>5. Planned(t)'
    BY <1>7 DEF LedgerInv, ReadOnce, Planned
  <2>6. t \in submitted'
    BY <2>2, <1>2 DEF ToBeFilled
  <2> QED BY <2>3, <2>4, <2>5, <2>6 DEF ReadOnce
<1> QED BY <1>6, <1>7, <1>8

LEMMA SeedVenueKeeps ==
  ASSUME LedgerInv, SeedVenue
  PROVE  WrittenBack' /\ CarriesMemory' /\ \A t \in Tickets : ReadOnce(t)'
<1> DEFINE v == Head(todo["reset"])[2]
           w == Holding(BalanceRow(v), Seed)
           rest == Tail(todo["reset"])
<1>1. "reset" \in Tasks \ Tickets
  BY TaskNames
<1>2. writing["reset"] = NoWrite /\ Begin("reset", w, rest, TRUE)
      /\ store' = store /\ suspect' = suspect /\ submitted' = submitted /\ stale' = stale
      /\ position' = position
  BY DEF SeedVenue, AtStep
<1>3. cash' = [cash EXCEPT ![v] = Seed] /\ funded' = funded \cup {v}
  BY DEF SeedVenue
<1>4. DOMAIN w = {BalanceRow(v)} /\ w[BalanceRow(v)] = Seed
  BY OneRow
<1>5. DOMAIN cash = Venues
  BY DEF LedgerInv, LedgerKinds, MemoryKinds
<1>6. Seed # NoRow
  BY LedgerAssumption, NamesAssumption
<1> HIDE DEF w, v, rest
<1>7. ASSUME NEW r \in Mirrored
      PROVE  IF r \in DOMAIN w THEN AgreesAfter(r, w[r]) ELSE SameRow(r)
  <2>1. CASE r \in DOMAIN w
    <3>1. r = BalanceRow(v) /\ r[1] = "balance" /\ r[2] = v /\ w[r] = Seed
      BY <2>1, <1>4, RowNames
    <3>2. v \in Venues
      BY <3>1, MirroredRow, RowNames
    <3>3. AgreesAfter(r, w[r])
      BY <3>1, <3>2, <1>3, <1>5, <1>6 DEF AgreesAfter
    <3> QED BY <2>1, <3>3
  <2>2. CASE r \notin DOMAIN w
    <3>1. CASE \E u \in Venues : r = BalanceRow(u)
      <4>1. PICK u \in Venues : r = BalanceRow(u)
        BY <3>1
      <4>2. u # v /\ r[1] = "balance" /\ r[2] = u
        BY <2>2, <1>4, <4>1, RowNames
      <4>3. SameRow(r)
        BY <4>1, <4>2, <1>3, <1>5 DEF SameRow
      <4> QED BY <2>2, <4>3
    <3>2. CASE \E p \in Traded : r = PositionRow(p)
      <4>1. r[1] = "position"
        BY <3>2, RowNames
      <4>2. SameRow(r)
        BY <4>1, <1>2 DEF SameRow
      <4> QED BY <2>2, <4>2
    <3> QED BY <3>1, <3>2, MirroredRow
  <2> QED BY <2>1, <2>2
<1> QED BY <1>1, <1>2, <1>3, <1>7, OtherTaskKeeps

-----------------------------------------------------------------------------
(* The tickets.                                                             *)

\* A ticket begins a transaction of no mirrored row: nothing is read.
LEMMA TicketKeeps ==
  ASSUME LedgerInv, NEW t \in Tickets, NEW w, NEW rest, NEW fresh \in BOOLEAN,
         writing[t] = NoWrite, Begin(t, w, rest, fresh),
         store' = store, suspect' = suspect,
         DOMAIN w \cap Mirrored = {},
         \A r \in Mirrored : (Due(r) => Due(r)') /\ (Due(r)' \/ SameRow(r))
  PROVE  /\ WrittenBack' /\ CarriesMemory'
         /\ \A r \in Mirrored : captured'[r] = captured[r]
         /\ todo'[t] = rest
         /\ \A s \in Tickets \ {t} : todo'[s] = todo[s]
<1>1. t \in Tasks
  BY TaskNames
<1>2. \A r \in Mirrored : Kept(t, w, fresh, r)
  BY DEF Kept
<1>3. WrittenBack' /\ CarriesMemory'
  BY <1>1, <1>2, BegunKeeps
<1>4. \A r \in Mirrored : captured'[r] = captured[r]
  BY DEF Begin
<1>5. todo'[t] = rest /\ \A s \in Tickets \ {t} : todo'[s] = todo[s]
  BY <1>1, TaskNames DEF Begin, LedgerInv, LedgerKinds, TaskKinds
<1> QED BY <1>3, <1>4, <1>5

LEMMA NotMirrored ==
  /\ \A t, o : OrderRow(t, o) \notin Mirrored /\ FillRow(t, o) \notin Mirrored
  /\ \A t : TicketRow(t) \notin Mirrored /\ StatusOf(t) \notin Mirrored
BY RowNames DEF Mirrored

\* The same, when the plan had nothing to read and has nothing to read now.
LEMMA NothingRead ==
  ASSUME LedgerInv, NEW t \in Tickets, NEW w, NEW rest,
         writing[t] = NoWrite, Begin(t, w, rest, TRUE),
         memory' = memory, store' = store, suspect' = suspect, stale' = stale,
         DOMAIN w \cap Mirrored = {},
         \A r \in Mirrored : ~Scheduled(t, r)
  PROVE  /\ WrittenBack' /\ CarriesMemory'
         /\ \A r \in Mirrored : captured'[r] = captured[r]
         /\ todo'[t] = rest
         /\ \A s \in Tickets \ {t} : todo'[s] = todo[s]
<1>1. t \in Tasks
  BY TaskNames
<1>2. \A s \in Tickets \ {t} : todo'[s] = todo[s]
  BY <1>1, TaskNames DEF Begin, LedgerInv, LedgerKinds, TaskKinds
<1>3. ASSUME NEW r \in Mirrored
      PROVE  Due(r) => Due(r)'
  <2>1. \A s \in Tickets : Scheduled(s, r) => Scheduled(s, r)'
    BY <1>2 DEF Scheduled
  <2> QED BY <2>1, DueStays DEF memory
<1>4. \A r \in Mirrored : SameRow(r)
  BY DEF SameRow, memory
<1> QED BY <1>3, <1>4, TicketKeeps

\* The steps that end a plan read nothing.
LEMMA LastStep ==
  ASSUME LedgerInv, NEW t \in Tickets, NEW kind \in {"submit", "legs", "status"}, AtStep(t, kind)
  PROVE  /\ Len(todo[t]) = 1
         /\ \A r \in Mirrored : ~Scheduled(t, r)
         /\ t \in submitted
<1>1. todo[t] \in Seq(StepKinds(t)) /\ todo[t] # <<>> /\ todo[t][1][1] = kind
  BY TaskNames DEF LedgerInv, LedgerKinds, TaskKinds, AtStep
<1>2. 1 \in DOMAIN todo[t] /\ Len(todo[t]) \in Nat
  BY <1>1
<1>3. Len(todo[t]) = 1
  BY <1>1, <1>2 DEF LedgerInv, ReadOnce, Planned
<1>4. DOMAIN todo[t] = {1}
  BY <1>1, <1>3
<1>5. RowsOf(todo[t][1]) = {}
  BY <1>1 DEF RowsOf
<1>6. \A r \in Mirrored : ~Scheduled(t, r)
  BY <1>4, <1>5 DEF Scheduled
<1>7. t \in submitted
  BY <1>1 DEF LedgerInv, ReadOnce
<1> QED BY <1>3, <1>6, <1>7

\* A plan that is over, or of the refused legs alone, reads nothing.
LEMMA PlanOver ==
  ASSUME NEW t \in Tickets, t \in submitted', todo'[t] = <<>> \/ todo'[t] = <<<<"legs">>>>
  PROVE  ReadOnce(t)'
<1>1. CASE todo'[t] = <<>>
  <2>1. \A i : i \notin DOMAIN todo'[t]
    BY <1>1
  <2>2. todo'[t] # <<<<"submit">>>>
    BY <1>1
  <2>3. Planned(t)' /\ \A r : ~Scheduled(t, r)'
    BY <2>1 DEF Planned, Scheduled
  <2> QED BY <2>2, <2>3 DEF ReadOnce, ToBeFilled
<1>2. CASE todo'[t] = <<<<"legs">>>>
  <2>1. DOMAIN todo'[t] = {1} /\ Len(todo'[t]) = 1 /\ todo'[t][1] = <<"legs">> /\ todo'[t][1][1] = "legs"
    BY <1>2
  <2>2. todo'[t] # <<<<"submit">>>>
    BY <2>1
  <2>3. RowsOf(todo'[t][1]) = {}
    BY <2>1 DEF RowsOf
  <2>4. \A r : ~Scheduled(t, r)'
    BY <2>1, <2>3 DEF Scheduled
  <2>5. Planned(t)'
    BY <2>1 DEF Planned
  <2> QED BY <2>2, <2>4, <2>5 DEF ReadOnce, ToBeFilled
<1> QED BY <1>1, <1>2

LEMMA OpenTicketKeeps ==
  ASSUME LedgerInv, NEW t \in Tickets, OpenTicket(t)
  PROVE  WrittenBack' /\ CarriesMemory' /\ \A s \in Tickets : ReadOnce(s)'
<1>1. PICK status \in {"rejected", "missed", "pending"} :
        Begin(t, Holding(TicketRow(t), status), IF status = "pending" THEN <<<<"submit">>>> ELSE <<>>, TRUE)
  BY DEF OpenTicket
<1> DEFINE w == Holding(TicketRow(t), status)
           rest == IF status = "pending" THEN <<<<"submit">>>> ELSE <<>>
<1>2. writing[t] = NoWrite /\ todo[t] = <<>>
  BY DEF OpenTicket, Starts, Idle
<1>3. memory' = memory /\ store' = store /\ suspect' = suspect /\ stale' = stale
      /\ submitted' = submitted \cup {t}
  BY DEF OpenTicket
<1>4. DOMAIN w \cap Mirrored = {}
  <2>1. DOMAIN w = {TicketRow(t)}
    BY OneRow
  <2> QED BY <2>1, NotMirrored
<1>5. \A r \in Mirrored : ~Scheduled(t, r)
  BY <1>2 DEF Scheduled
<1>6. rest = <<>> \/ rest = <<<<"submit">>>>
  OBVIOUS
<1>7. Begin(t, w, rest, TRUE)
  BY <1>1
<1> HIDE DEF w, rest
<1>8. /\ WrittenBack' /\ CarriesMemory'
      /\ \A r \in Mirrored : captured'[r] = captured[r]
      /\ todo'[t] = rest
      /\ \A s \in Tickets \ {t} : todo'[s] = todo[s]
  BY <1>2, <1>3, <1>4, <1>5, <1>7, NothingRead
<1>9. t \notin submitted
  <2>1. PICK i \in DOMAIN TicketSeq : t = TicketSeq[i] /\ submitted = {TicketSeq[j] : j \in 1..(i - 1)}
    BY DEF OpenTicket
  <2>2. i \in Nat /\ \A j \in 1..(i - 1) : j \in DOMAIN TicketSeq /\ j # i
    <3>1. DOMAIN TicketSeq = 1..Len(TicketSeq) /\ Len(TicketSeq) \in Nat
      BY LedgerAssumption
    <3> QED BY <3>1
  <2> QED BY <2>1, <2>2, LedgerAssumption
<1>10. ReadOnce(t)'
  <2>1. CASE rest = <<>>
    BY <1>3, <1>8, <2>1, PlanOver
  <2>2. CASE rest = <<<<"submit">>>>
    <3>1. DOMAIN todo'[t] = {1} /\ Len(todo'[t]) = 1 /\ todo'[t][1] = <<"submit">> /\ todo'[t][1][1] = "submit"
      BY <1>8, <2>2
    <3>2. RowsOf(todo'[t][1]) = {}
      BY <3>1 DEF RowsOf
    <3>3. \A r : ~Scheduled(t, r)'
      BY <3>1, <3>2 DEF Scheduled
    <3>4. Planned(t)'
      BY <3>1 DEF Planned
    <3>5. stale'[t] = NoRow /\ \A r \in Mirrored : captured'[r] # t
      BY <1>3, <1>8, <1>9 DEF LedgerInv, ReadOnce, ToBeFilled
    <3>6. t \in submitted'
      BY <1>3
    <3> QED BY <3>3, <3>4, <3>5, <3>6 DEF ReadOnce
  <2> QED BY <1>6, <2>1, <2>2
<1>11. ASSUME NEW s \in Tickets \ {t}
       PROVE  ReadOnce(s)'
  BY <1>3, <1>8, ReadOnceSame DEF LedgerInv
<1> QED BY <1>8, <1>10, <1>11

\* The transaction of a step that ends a plan.
LEMMA LastStepKeeps ==
  ASSUME LedgerInv, NEW t \in Tickets, NEW kind \in {"submit", "legs", "status"}, AtStep(t, kind),
         NEW w, DOMAIN w \cap Mirrored = {}, NEW rest, rest = <<>> \/ rest = <<<<"legs">>>>,
         Begin(t, w, rest, TRUE),
         memory' = memory, store' = store, suspect' = suspect, stale' = stale, submitted' = submitted
  PROVE  WrittenBack' /\ CarriesMemory' /\ \A s \in Tickets : ReadOnce(s)'
<1>1. /\ \A r \in Mirrored : ~Scheduled(t, r)
      /\ t \in submitted /\ writing[t] = NoWrite
  BY LastStep DEF AtStep
<1>2. /\ WrittenBack' /\ CarriesMemory'
      /\ \A r \in Mirrored : captured'[r] = captured[r]
      /\ todo'[t] = rest
      /\ \A s \in Tickets \ {t} : todo'[s] = todo[s]
  BY <1>1, NothingRead
<1>3. ReadOnce(t)'
  BY <1>1, <1>2, PlanOver
<1>4. ASSUME NEW s \in Tickets \ {t}
      PROVE  ReadOnce(s)'
  BY <1>2, ReadOnceSame DEF LedgerInv
<1> QED BY <1>2, <1>3, <1>4

LEMMA RefusedTicketKeeps ==
  ASSUME LedgerInv, NEW t \in Tickets, RefuseLegs(t) \/ WriteRejectedLegs(t) \/ WriteStatus(t)
  PROVE  WrittenBack' /\ CarriesMemory' /\ \A s \in Tickets : ReadOnce(s)'
<1>1. memory' = memory /\ store' = store /\ suspect' = suspect /\ stale' = stale /\ submitted' = submitted
  BY DEF RefuseLegs, WriteRejectedLegs, WriteStatus
<1>2. CASE RefuseLegs(t)
  <2> DEFINE w == Holding(StatusOf(t), "rejected")
  <2>1. AtStep(t, "submit") /\ Begin(t, w, <<<<"legs">>>>, TRUE)
    BY <1>2 DEF RefuseLegs
  <2>2. DOMAIN w \cap Mirrored = {}
    <3>1. DOMAIN w = {StatusOf(t)}
      BY OneRow
    <3> QED BY <3>1, NotMirrored
  <2> HIDE DEF w
  <2> QED BY <1>1, <2>1, <2>2, LastStepKeeps
<1>3. CASE WriteRejectedLegs(t)
  <2> DEFINE w == [r \in {OrderRow(t, o) : o \in Traded} |-> "rejected"]
  <2>1. AtStep(t, "legs") /\ Begin(t, w, <<>>, TRUE)
    BY <1>3 DEF WriteRejectedLegs
  <2>2. DOMAIN w \cap Mirrored = {}
    BY NotMirrored
  <2> HIDE DEF w
  <2> QED BY <1>1, <2>1, <2>2, LastStepKeeps
<1>4. CASE WriteStatus(t)
  <2> DEFINE w == Holding(StatusOf(t), "filled")
  <2>1. AtStep(t, "status") /\ Begin(t, w, <<>>, TRUE)
    BY <1>4 DEF WriteStatus
  <2>2. DOMAIN w \cap Mirrored = {}
    <3>1. DOMAIN w = {StatusOf(t)}
      BY OneRow
    <3> QED BY <3>1, NotMirrored
  <2> HIDE DEF w
  <2> QED BY <1>1, <2>1, <2>2, LastStepKeeps
<1> QED BY <1>2, <1>3, <1>4

\* A ticket that fails on a missing balance: nothing is due while one is
\* missing, so nothing that was to be read is lost.
LEMMA EmitRaisesKeeps ==
  ASSUME LedgerInv, NEW t \in Tickets, EmitRaises(t)
  PROVE  WrittenBack' /\ CarriesMemory' /\ \A s \in Tickets : ReadOnce(s)'
<1>1. t \in Tasks /\ todo[t] # <<>>
  BY TaskNames DEF EmitRaises, AtStep
<1>2. todo'[t] = <<>> /\ \A s \in Tickets \ {t} : todo'[s] = todo[s]
  BY <1>1, TaskNames DEF EmitRaises, LedgerInv, LedgerKinds, TaskKinds
<1>3. ~BothFunded
  <2>1. Head(todo[t])[2] \in Traded
    BY LegStep DEF EmitRaises, LegKinds, LedgerInv
  <2> QED BY <2>1 DEF EmitRaises, NoBalance, BothFunded
<1>4. \A r : ~Due(r)
  BY <1>3 DEF Due
<1>5. /\ cash' = cash /\ funded' = funded /\ position' = position /\ submitted' = submitted
      /\ store' = store /\ writing' = writing /\ stale' = stale
      /\ captured' = captured /\ suspect' = suspect
  BY DEF EmitRaises, memory, history
<1>6. \A r \in Mirrored : Backed(r) => Backed(r)'
  BY <1>4, <1>5 DEF Backed, Carried, Mirrors, Agrees
<1>7. WrittenBack'
  BY <1>6 DEF LedgerInv, WrittenBack
<1>8. CarriesMemory'
  BY <1>4, <1>5 DEF LedgerInv, CarriesMemory, Carried, Agrees
<1>9. ReadOnce(t)'
  <2>1. t \in submitted'
    BY <1>1, <1>5 DEF LedgerInv, ReadOnce
  <2> QED BY <2>1, <1>2, PlanOver
<1>10. ASSUME NEW s \in Tickets \ {t}
       PROVE  ReadOnce(s)'
  BY <1>2, <1>5, ReadOnceSame DEF LedgerInv
<1> QED BY <1>7, <1>8, <1>9, <1>10

-----------------------------------------------------------------------------
(* A leg's writes, and the fill they come from.                             *)

\* A ticket goes on to the next step of its plan.
LEMMA PlanGoesOn ==
  ASSUME LedgerInv, NEW t \in Tickets, todo[t] # <<>>, todo'[t] = Tail(todo[t])
  PROVE  /\ Planned(t)'
         /\ \A r : Scheduled(t, r)' => Scheduled(t, r)
         /\ \A r : Scheduled(t, r) => r \in RowsOf(Head(todo[t])) \/ Scheduled(t, r)'
         /\ t \in submitted
         /\ Head(todo[t])[1] # "submit" => todo'[t] # <<<<"submit">>>> /\ ~ToBeFilled(t)
<1> DEFINE p == todo[t]
           q == Tail(p)
<1>1. p \in Seq(StepKinds(t)) /\ p # <<>>
  BY TaskNames DEF LedgerInv, LedgerKinds, TaskKinds
<1>2. /\ \A i, j \in DOMAIN p : p[i] = p[j] => i = j
      /\ \A i \in DOMAIN p : p[i][1] \in {"submit", "legs"} => Len(p) = 1
      /\ \A i \in DOMAIN p : p[i][1] = "status" => i = Len(p)
  BY DEF LedgerInv, ReadOnce, Planned
<1> HIDE DEF p
<1>3. /\ Len(p) \in Nat /\ Len(p) > 0 /\ DOMAIN p = 1..Len(p)
      /\ Len(q) = Len(p) - 1 /\ DOMAIN q = 1..(Len(p) - 1)
      /\ \A i \in DOMAIN q : q[i] = p[i + 1] /\ i + 1 \in DOMAIN p
      /\ Head(p) = p[1]
  BY <1>1
<1> HIDE DEF q
<1>4. todo'[t] = q
  BY DEF p, q
<1>5. \A i, j \in DOMAIN q : q[i] = q[j] => i = j
  <2> TAKE i, j \in DOMAIN q
  <2> HAVE q[i] = q[j]
  <2>1. i + 1 = j + 1
    BY <1>2, <1>3
  <2> QED BY <2>1, <1>3
<1>6. \A i \in DOMAIN q : q[i][1] \notin {"submit", "legs"}
  <2> TAKE i \in DOMAIN q
  <2>1. Len(p) # 1
    BY <1>3
  <2> QED BY <2>1, <1>2, <1>3
<1>7. \A i \in DOMAIN q : q[i][1] = "status" => i = Len(q)
  <2> TAKE i \in DOMAIN q
  <2> HAVE q[i][1] = "status"
  <2>1. i + 1 = Len(p)
    BY <1>2, <1>3
  <2> QED BY <2>1, <1>3
<1>8. Planned(t)'
  BY <1>4, <1>5, <1>6, <1>7 DEF Planned
<1>9. \A r : Scheduled(t, r)' => Scheduled(t, r)
  <2> SUFFICES ASSUME NEW r, Scheduled(t, r)'
               PROVE  Scheduled(t, r)
    OBVIOUS
  <2>1. PICK i \in DOMAIN q : r \in RowsOf(q[i])
    BY <1>4 DEF Scheduled
  <2>2. i + 1 \in DOMAIN p /\ r \in RowsOf(p[i + 1])
    BY <2>1, <1>3
  <2> QED BY <2>2 DEF Scheduled, p
<1>10. \A r : Scheduled(t, r) => r \in RowsOf(Head(p)) \/ Scheduled(t, r)'
  <2> SUFFICES ASSUME NEW r, Scheduled(t, r)
               PROVE  r \in RowsOf(Head(p)) \/ Scheduled(t, r)'
    OBVIOUS
  <2>1. PICK i \in DOMAIN p : r \in RowsOf(p[i])
    BY DEF Scheduled, p
  <2>2. CASE i = 1
    BY <2>1, <2>2, <1>3
  <2>3. CASE i # 1
    <3>1. i - 1 \in DOMAIN q /\ (i - 1) + 1 = i
      BY <2>3, <1>3
    <3>2. q[i - 1] = p[i]
      BY <3>1, <1>3
    <3>3. r \in RowsOf(q[i - 1])
      BY <3>2, <2>1
    <3> QED BY <3>1, <3>3, <1>4 DEF Scheduled
  <2> QED BY <2>2, <2>3
<1>11. t \in submitted
  BY <1>1 DEF LedgerInv, ReadOnce, p
<1>12. ASSUME Head(p)[1] # "submit"
       PROVE  todo'[t] # <<<<"submit">>>> /\ ~ToBeFilled(t)
  <2>1. p # <<<<"submit">>>>
    BY <1>12
  <2>2. q # <<<<"submit">>>>
    <3> SUFFICES ASSUME q = <<<<"submit">>>>
                 PROVE  FALSE
      OBVIOUS
    <3>1. 1 \in DOMAIN q /\ q[1][1] = "submit"
      OBVIOUS
    <3> QED BY <3>1, <1>6
  <2> QED BY <2>1, <2>2, <1>4, <1>11 DEF ToBeFilled, p
<1> QED BY <1>8, <1>9, <1>10, <1>11, <1>12 DEF p

\* The row a leg's write is of, and the value read for it.
LEMMA WrittenRow ==
  ASSUME LedgerInv, NEW t \in Tickets, NEW kind \in LegKinds, NEW o \in Traded
  PROVE  /\ DOMAIN Written(t, kind, o) \cap Mirrored = RowsOf(<<kind, o>>)
         /\ stale[t] = NoRow => \A r \in RowsOf(<<kind, o>>) : Agrees(r, Written(t, kind, o)[r])
<1> DEFINE w == Written(t, kind, o)
           step == <<kind, o>>
<1>1. stale[t] = NoRow => AccountOf(t).cash = cash /\ AccountOf(t).position = position
  BY DEF AccountOf
<1>2. cash[VenueOf[o]] # NoRow /\ position[o] # NoRow
  <2>1. cash[VenueOf[o]] \in Nat /\ position[o] \in PositionValues
    BY Legs DEF LedgerInv, LedgerKinds, MemoryKinds
  <2> QED BY <2>1, NamesAssumption
<1>3. CASE kind = "order"
  <2>1. DOMAIN w = {OrderRow(t, o)}
    BY <1>3, OneRow DEF Written
  <2>2. RowsOf(step) = {}
    BY <1>3 DEF RowsOf
  <2> QED BY <2>1, <2>2, NotMirrored
<1>4. CASE kind = "fill"
  <2>1. DOMAIN w = {FillRow(t, o)}
    BY <1>4, OneRow DEF Written
  <2>2. RowsOf(step) = {}
    BY <1>4 DEF RowsOf
  <2> QED BY <2>1, <2>2, NotMirrored
<1>5. CASE kind = "balance"
  <2> DEFINE row == BalanceRow(VenueOf[o])
             x == AccountOf(t).cash[VenueOf[o]]
  <2>1. w = Holding(row, x)
    BY <1>5 DEF Written
  <2>2. DOMAIN Holding(row, x) = {row} /\ Holding(row, x)[row] = x
    BY OneRow
  <2>3. RowsOf(step) = {row}
    BY <1>5 DEF RowsOf
  <2>4. row \in Mirrored /\ row[1] = "balance" /\ row[2] = VenueOf[o]
    BY Legs, RowKeys, RowNames
  <2>5. DOMAIN w = {row} /\ w[row] = x
    BY <2>1, <2>2
  <2>6. stale[t] = NoRow => x = cash[VenueOf[o]]
    BY <1>1
  <2> HIDE DEF w, x, row
  <2>7. stale[t] = NoRow => Agrees(row, w[row])
    BY <2>4, <2>5, <2>6, <1>2 DEF Agrees
  <2>8. DOMAIN w \cap Mirrored = RowsOf(step)
    BY <2>3, <2>4, <2>5
  <2> QED BY <2>3, <2>7, <2>8 DEF w
<1>6. CASE kind = "position"
  <2> DEFINE row == PositionRow(o)
             x == AccountOf(t).position[o]
  <2>1. w = Holding(row, x)
    BY <1>6 DEF Written
  <2>2. DOMAIN Holding(row, x) = {row} /\ Holding(row, x)[row] = x
    BY OneRow
  <2>3. RowsOf(step) = {row}
    BY <1>6 DEF RowsOf
  <2>4. row \in Mirrored /\ row[1] = "position" /\ row[2] = o
    BY Legs, RowKeys, RowNames
  <2>5. DOMAIN w = {row} /\ w[row] = x
    BY <2>1, <2>2
  <2>6. stale[t] = NoRow => x = position[o]
    BY <1>1
  <2> HIDE DEF w, x, row
  <2>7. stale[t] = NoRow => Agrees(row, w[row])
    BY <2>4, <2>5, <2>6, <1>2 DEF Agrees
  <2>8. DOMAIN w \cap Mirrored = RowsOf(step)
    BY <2>3, <2>4, <2>5
  <2> QED BY <2>3, <2>7, <2>8 DEF w
<1> QED BY <1>3, <1>4, <1>5, <1>6 DEF LegKinds

\* No two steps of a plan write the same mirrored row.
LEMMA RowOfOneStep ==
  ASSUME NEW t \in Tickets, NEW x \in StepKinds(t), NEW y \in StepKinds(t),
         NEW r, r \in RowsOf(x), r \in RowsOf(y)
  PROVE  x = y
<1>1. \A z \in StepKinds(t) : r \in RowsOf(z) =>
        \/ \E o \in Traded : z = <<"balance", o>> /\ r = BalanceRow(VenueOf[o])
        \/ \E o \in Traded : z = <<"position", o>> /\ r = PositionRow(o)
  <2> SUFFICES ASSUME NEW z \in StepKinds(t), r \in RowsOf(z)
               PROVE  \/ \E o \in Traded : z = <<"balance", o>> /\ r = BalanceRow(VenueOf[o])
                      \/ \E o \in Traded : z = <<"position", o>> /\ r = PositionRow(o)
    OBVIOUS
  <2>1. z[1] = "balance" \/ z[1] = "position"
    BY DEF RowsOf
  <2>2. z \in {<<kind, o>> : kind \in LegKinds, o \in Traded}
    BY <2>1, TaskNames
  <2>3. PICK kind \in LegKinds, o \in Traded : z = <<kind, o>>
    BY <2>2
  <2>4. z[1] = kind /\ z[2] = o
    BY <2>3
  <2> QED BY <2>1, <2>3, <2>4 DEF RowsOf
<1>2. \A o, p \in Traded : VenueOf[o] = VenueOf[p] => o = p
  BY Legs
<1>3. CASE \E o \in Traded : x = <<"balance", o>> /\ r = BalanceRow(VenueOf[o])
  <2>1. PICK o \in Traded : x = <<"balance", o>> /\ r = BalanceRow(VenueOf[o])
    BY <1>3
  <2>2. r[1] = "balance" /\ r[2] = VenueOf[o]
    BY <2>1, RowNames
  <2>3. PICK p \in Traded : y = <<"balance", p>> /\ r = BalanceRow(VenueOf[p])
    BY <1>1, <2>2, RowNames
  <2> QED BY <1>2, <2>1, <2>2, <2>3, RowNames
<1>4. CASE \E o \in Traded : x = <<"position", o>> /\ r = PositionRow(o)
  <2>1. PICK o \in Traded : x = <<"position", o>> /\ r = PositionRow(o)
    BY <1>4
  <2>2. r[1] = "position" /\ r[2] = o
    BY <2>1, RowNames
  <2>3. PICK p \in Traded : y = <<"position", p>> /\ r = PositionRow(p)
    BY <1>1, <2>2, RowNames
  <2> QED BY <2>1, <2>2, <2>3, RowNames
<1> QED BY <1>1, <1>3, <1>4

LEMMA HeadRowOnce ==
  ASSUME LedgerInv, NEW t \in Tickets, todo[t] # <<>>, todo'[t] = Tail(todo[t]),
         NEW r, r \in RowsOf(Head(todo[t]))
  PROVE  Scheduled(t, r) /\ ~Scheduled(t, r)'
<1> DEFINE p == todo[t]
           q == Tail(p)
<1>1. p \in Seq(StepKinds(t)) /\ p # <<>>
  BY TaskNames DEF LedgerInv, LedgerKinds, TaskKinds
<1>2. \A i, j \in DOMAIN p : p[i] = p[j] => i = j
  BY DEF LedgerInv, ReadOnce, Planned
<1> HIDE DEF p
<1>3. /\ Len(p) \in Nat /\ Len(p) > 0 /\ DOMAIN p = 1..Len(p)
      /\ DOMAIN q = 1..(Len(p) - 1)
      /\ \A i \in DOMAIN q : q[i] = p[i + 1] /\ i + 1 \in DOMAIN p
      /\ Head(p) = p[1] /\ 1 \in DOMAIN p
      /\ \A i \in DOMAIN p : p[i] \in StepKinds(t)
  BY <1>1
<1> HIDE DEF q
<1>4. todo'[t] = q
  BY DEF p, q
<1>5. Scheduled(t, r)
  BY <1>3 DEF Scheduled, p
<1>6. ASSUME Scheduled(t, r)'
      PROVE  FALSE
  <2>1. PICK i \in DOMAIN q : r \in RowsOf(q[i])
    BY <1>4, <1>6 DEF Scheduled
  <2>2. r \in RowsOf(p[i + 1]) /\ r \in RowsOf(p[1])
    BY <2>1, <1>3 DEF p
  <2>3. p[i + 1] = p[1]
    BY <2>1, <2>2, <1>3, RowOfOneStep
  <2>4. i + 1 = 1
    BY <2>1, <2>3, <1>2, <1>3
  <2> QED BY <2>1, <2>4, <1>3
<1> QED BY <1>5, <1>6

LEMMA EmitKeeps ==
  ASSUME LedgerInv, NEW t \in Tickets, Emit(t)
  PROVE  WrittenBack' /\ CarriesMemory' /\ \A s \in Tickets : ReadOnce(s)'
<1>1. PICK kind \in LegKinds :
        /\ AtStep(t, kind)
        /\ Begin(t, Written(t, kind, Head(todo[t])[2]), AfterEmit(t), stale[t] = NoRow)
        /\ stale' = IF kind = "position" THEN [stale EXCEPT ![t] = NoRow] ELSE stale
  BY DEF Emit, LegKinds
<1>2. PICK o \in Traded : Head(todo[t]) = <<kind, o>>
  <2>1. t \in Tasks /\ todo[t] # <<>> /\ Head(todo[t])[1] = kind
    BY <1>1, TaskNames DEF AtStep
  <2>2. Head(todo[t]) \in StepKinds(t)
    BY <2>1, PlanTail DEF LedgerInv
  <2>3. Head(todo[t]) \in {<<x, o>> : x \in LegKinds, o \in Traded}
    BY <2>1, <2>2, TaskNames DEF LegKinds
  <2> QED BY <2>1, <2>3
<1> DEFINE w == Written(t, kind, o)
           fresh == stale[t] = NoRow
           rest == AfterEmit(t)
<1>3. /\ t \in Tasks /\ writing[t] = NoWrite /\ todo[t] # <<>> /\ Head(todo[t])[1] = kind
      /\ Head(todo[t])[2] = o
  BY <1>1, <1>2, TaskNames DEF AtStep
<1>4. Begin(t, w, rest, fresh)
  BY <1>1, <1>3
<1>5. /\ todo'[t] = Tail(todo[t])
      /\ \A s \in Tickets \ {t} : todo'[s] = todo[s]
      /\ \A r \in Mirrored : captured'[r] = IF r \in DOMAIN w /\ fresh THEN t ELSE captured[r]
  BY <1>3, <1>4, TaskNames DEF Begin, AfterEmit, LedgerInv, LedgerKinds, TaskKinds
<1>6. memory' = memory /\ store' = store /\ suspect' = suspect /\ submitted' = submitted
  BY DEF Emit
<1>7. /\ \A s \in Tickets \ {t} : stale'[s] = stale[s]
      /\ stale[t] = NoRow => stale'[t] = NoRow
  BY <1>1 DEF LedgerInv, LedgerKinds, StaleKinds
<1>8. /\ DOMAIN w \cap Mirrored = RowsOf(Head(todo[t]))
      /\ fresh => \A r \in RowsOf(Head(todo[t])) : Agrees(r, w[r])
  BY <1>2, WrittenRow
<1>9. /\ Planned(t)'
      /\ \A r : Scheduled(t, r)' => Scheduled(t, r)
      /\ \A r : Scheduled(t, r) => r \in RowsOf(Head(todo[t])) \/ Scheduled(t, r)'
      /\ t \in submitted
      /\ todo'[t] # <<<<"submit">>>>
  <2>1. Head(todo[t])[1] # "submit"
    BY <1>3 DEF LegKinds
  <2> QED BY <2>1, <1>3, <1>5, PlanGoesOn
<1>10. \A r \in RowsOf(Head(todo[t])) : Scheduled(t, r) /\ ~Scheduled(t, r)'
  BY <1>3, <1>5, HeadRowOnce
<1> DEFINE g == fresh
<1> HIDE DEF w, rest, g
<1>11. ASSUME NEW r \in Mirrored
       PROVE  Kept(t, w, g, r)
  <2>1. CASE g /\ r \in DOMAIN w
    <3>1. Agrees(r, w[r])
      BY <2>1, <1>8 DEF g
    <3>2. SameRow(r)
      BY <1>6 DEF SameRow, memory
    <3> QED BY <2>1, <3>1, <3>2, SameRowAgrees DEF Kept
  <2>2. CASE ~(g /\ r \in DOMAIN w)
    <3>1. SameRow(r)
      BY <1>6 DEF SameRow, memory
    <3>2. ASSUME NEW s \in Tickets, stale[s] = NoRow, Scheduled(s, r)
          PROVE  stale'[s] = NoRow /\ Scheduled(s, r)'
      <4>1. CASE s = t
        <5>1. r \notin RowsOf(Head(todo[t]))
          BY <2>2, <3>2, <4>1, <1>8 DEF g
        <5> QED BY <5>1, <3>2, <4>1, <1>7, <1>9
      <4>2. CASE s # t
        BY <3>2, <4>2, <1>5, <1>7 DEF Scheduled
      <4> QED BY <4>1, <4>2
    <3>3. Due(r) => Due(r)'
      BY <3>2, <1>6, DueStays DEF memory
    <3>4. r \in DOMAIN w => captured[r] # t
      <4>1. ASSUME r \in DOMAIN w
            PROVE  captured[r] # t
        <5>1. Scheduled(t, r)
          BY <4>1, <1>8, <1>10
        <5> QED BY <5>1 DEF LedgerInv, ReadOnce
      <4> QED BY <4>1
    <3> QED BY <2>2, <3>1, <3>3, <3>4 DEF Kept
  <2> QED BY <2>1, <2>2
<1>12. Begin(t, w, rest, g) /\ g \in BOOLEAN
  BY <1>4 DEF g
<1>13. WrittenBack' /\ CarriesMemory'
  BY <1>3, <1>6, <1>11, <1>12, BegunKeeps
<1>14. ReadOnce(t)'
  <2>1. ASSUME NEW r \in Mirrored, captured'[r] = t
        PROVE  ~Scheduled(t, r)'
    <3>1. CASE r \in DOMAIN w
      BY <3>1, <1>8, <1>10
    <3>2. CASE r \notin DOMAIN w
      <4>1. captured[r] = t
        BY <2>1, <3>2, <1>5
      <4>2. ~Scheduled(t, r)
        BY <4>1 DEF LedgerInv, ReadOnce
      <4> QED BY <4>2, <1>9
    <3> QED BY <3>1, <3>2
  <2>2. ~ToBeFilled(t)'
    BY <1>6, <1>9 DEF ToBeFilled
  <2>3. t \in submitted'
    BY <1>6, <1>9
  <2> QED BY <2>1, <2>2, <2>3, <1>9 DEF ReadOnce
<1>15. ASSUME NEW s \in Tickets \ {t}
       PROVE  ReadOnce(s)'
  <2>1. \A r \in Mirrored : captured'[r] = s => captured[r] = s
    BY <1>5
  <2> QED BY <2>1, <1>5, <1>6, <1>7, ReadOnceSame DEF LedgerInv
<1> QED BY <1>13, <1>14, <1>15

\* What a ticket has left to write once its first order is on its way.
FillPlan == Tail(Steps(Pair[1])) \o Steps(Pair[2]) \o <<<<"status", "filled">>>>

LEMMA FillPlanSteps ==
  /\ Len(FillPlan) = 8 /\ DOMAIN FillPlan = 1..8
  /\ FillPlan[1] = <<"fill", Pair[1]>> /\ FillPlan[2] = <<"balance", Pair[1]>>
  /\ FillPlan[3] = <<"position", Pair[1]>> /\ FillPlan[4] = <<"order", Pair[2]>>
  /\ FillPlan[5] = <<"fill", Pair[2]>> /\ FillPlan[6] = <<"balance", Pair[2]>>
  /\ FillPlan[7] = <<"position", Pair[2]>> /\ FillPlan[8] = <<"status", "filled">>
<1>1. Len(FillPlan) = 8 /\ DOMAIN FillPlan = 1..8
  BY DEF FillPlan, Steps
<1>2. /\ FillPlan[1] = <<"fill", Pair[1]>> /\ FillPlan[2] = <<"balance", Pair[1]>>
      /\ FillPlan[3] = <<"position", Pair[1]>> /\ FillPlan[4] = <<"order", Pair[2]>>
      /\ FillPlan[5] = <<"fill", Pair[2]>> /\ FillPlan[6] = <<"balance", Pair[2]>>
      /\ FillPlan[7] = <<"position", Pair[2]>> /\ FillPlan[8] = <<"status", "filled">>
  BY DEF FillPlan, Steps
<1> QED BY <1>1, <1>2

\* Every mirrored row of the pair is in the plan, once.
LEMMA FillPlanReads ==
  ASSUME NEW t, todo'[t] = FillPlan
  PROVE  /\ Planned(t)'
         /\ \A o \in Traded : /\ Scheduled(t, BalanceRow(VenueOf[o]))'
                              /\ Scheduled(t, PositionRow(o))'
         /\ todo'[t] # <<<<"submit">>>>
<1>1. \A i, j \in 1..8 : FillPlan[i] = FillPlan[j] => i = j
  <2> DEFINE p == FillPlan
  <2>1. Pair[1] # Pair[2]
    BY Legs
  <2>2. \A i \in 1..8 : i \in {1, 2, 3, 4, 5, 6, 7, 8}
    OBVIOUS
  <2>3. /\ FillPlan[1] \notin {FillPlan[i] : i \in {2, 3, 4, 5, 6, 7, 8}}
        /\ FillPlan[2] \notin {FillPlan[i] : i \in {3, 4, 5, 6, 7, 8}}
        /\ FillPlan[3] \notin {FillPlan[i] : i \in {4, 5, 6, 7, 8}}
        /\ FillPlan[4] \notin {FillPlan[i] : i \in {5, 6, 7, 8}}
        /\ FillPlan[5] \notin {FillPlan[i] : i \in {6, 7, 8}}
        /\ FillPlan[6] \notin {FillPlan[i] : i \in {7, 8}}
        /\ FillPlan[7] # FillPlan[8]
    BY <2>1, FillPlanSteps
  <2> QED BY <2>2, <2>3
<1>2. \A i \in 1..8 : /\ FillPlan[i][1] \notin {"submit", "legs"}
                      /\ FillPlan[i][1] = "status" => i = 8
  <2>1. \A i \in 1..8 : i \in {1, 2, 3, 4, 5, 6, 7, 8}
    OBVIOUS
  <2>2. /\ FillPlan[1][1] = "fill" /\ FillPlan[2][1] = "balance" /\ FillPlan[3][1] = "position"
        /\ FillPlan[4][1] = "order" /\ FillPlan[5][1] = "fill" /\ FillPlan[6][1] = "balance"
        /\ FillPlan[7][1] = "position" /\ FillPlan[8][1] = "status"
    BY FillPlanSteps
  <2> QED BY <2>1, <2>2
<1>3. Planned(t)'
  BY <1>1, <1>2, FillPlanSteps DEF Planned
<1>4. ASSUME NEW o \in Traded
      PROVE  Scheduled(t, BalanceRow(VenueOf[o]))' /\ Scheduled(t, PositionRow(o))'
  <2>1. PICK i \in 1..8, j \in 1..8 : FillPlan[i] = <<"balance", o>> /\ FillPlan[j] = <<"position", o>>
    <3>1. CASE o = Pair[1]
      <4>1. FillPlan[2] = <<"balance", o>> /\ FillPlan[3] = <<"position", o>>
        BY <3>1, FillPlanSteps
      <4> QED BY <4>1
    <3>2. CASE o = Pair[2]
      <4>1. FillPlan[6] = <<"balance", o>> /\ FillPlan[7] = <<"position", o>>
        BY <3>2, FillPlanSteps
      <4> QED BY <4>1
    <3> QED BY <3>1, <3>2, Legs
  <2>2. BalanceRow(VenueOf[o]) \in RowsOf(<<"balance", o>>) /\ PositionRow(o) \in RowsOf(<<"position", o>>)
    BY DEF RowsOf
  <2>3. DOMAIN todo'[t] = 1..8
    BY FillPlanSteps
  <2> QED BY <2>1, <2>2, <2>3 DEF Scheduled
<1>5. todo'[t] # <<<<"submit">>>>
  <2>1. Len(<<<<"submit">>>>) = 1
    OBVIOUS
  <2> QED BY <2>1, FillPlanSteps
<1> QED BY <1>3, <1>4, <1>5

LEMMA FillKeeps ==
  ASSUME LedgerInv, NEW t \in Tickets, Fill(t)
  PROVE  WrittenBack' /\ CarriesMemory' /\ \A s \in Tickets : ReadOnce(s)'
<1> DEFINE w == Holding(OrderRow(t, Pair[1]), "filled")
<1>1. /\ Begin(t, w, FillPlan, TRUE) /\ store' = store /\ suspect' = suspect /\ stale' = stale
      /\ submitted' = submitted /\ funded' = funded \cup {VenueOf[o] : o \in Traded}
      /\ \A v \in Venues : OnVenue(v) = {} => cash'[v] = cash[v]
  BY DEF Fill, FillPlan
<1>2. AtStep(t, "submit") /\ writing[t] = NoWrite /\ t \in Tasks
  <2>1. AtStep(t, "submit")
    BY DEF Fill
  <2> QED BY <2>1, TaskNames DEF AtStep
<1>3. /\ Len(todo[t]) = 1 /\ t \in submitted
      /\ \A r \in Mirrored : ~Scheduled(t, r)
  BY <1>2, LastStep
<1>4. todo[t] = <<<<"submit">>>>
  <2>1. todo[t] \in Seq(StepKinds(t)) /\ todo[t] # <<>> /\ Head(todo[t])[1] = "submit"
    BY <1>2 DEF AtStep, LedgerInv, LedgerKinds, TaskKinds
  <2>2. Head(todo[t]) \in StepKinds(t)
    BY <2>1
  <2>3. Head(todo[t]) = <<"submit">>
    BY <2>1, <2>2, TaskNames DEF LegKinds
  <2>4. todo[t][1] = <<"submit">> /\ DOMAIN todo[t] = {1}
    BY <2>1, <2>3, <1>3
  <2> QED BY <2>1, <2>4, <1>3
<1>5. stale[t] = NoRow /\ \A r \in Mirrored : captured[r] # t
  BY <1>4 DEF LedgerInv, ReadOnce, ToBeFilled
<1>6. DOMAIN w \cap Mirrored = {}
  <2>1. DOMAIN w = {OrderRow(t, Pair[1])}
    BY OneRow
  <2> QED BY <2>1, NotMirrored
<1> HIDE DEF w
<1>7. todo'[t] = FillPlan /\ \A s \in Tickets \ {t} : todo'[s] = todo[s]
  BY <1>1, <1>2, TaskNames DEF Begin, LedgerInv, LedgerKinds, TaskKinds
<1>8. /\ Planned(t)' /\ todo'[t] # <<<<"submit">>>>
      /\ \A o \in Traded : Scheduled(t, BalanceRow(VenueOf[o]))' /\ Scheduled(t, PositionRow(o))'
  BY <1>7, FillPlanReads
<1>9. BothFunded'
  BY <1>1 DEF BothFunded
<1>10. \A r : Scheduled(t, r)' => Due(r)'
  BY <1>1, <1>5, <1>9 DEF Due
<1>11. ASSUME NEW r \in Mirrored
       PROVE  (Due(r) => Due(r)') /\ (Due(r)' \/ SameRow(r))
  <2>1. \A s \in Tickets : Scheduled(s, r) => Scheduled(s, r)'
    BY <1>3, <1>7 DEF Scheduled
  <2>2. Due(r) => Due(r)'
    BY <2>1, <1>1, DueStays
  <2>3. Due(r)' \/ SameRow(r)
    <3>1. CASE \E o \in Traded : r = PositionRow(o) \/ r = BalanceRow(VenueOf[o])
      BY <3>1, <1>8, <1>10
    <3>2. CASE \A o \in Traded : r # PositionRow(o) /\ r # BalanceRow(VenueOf[o])
      <4>1. PICK v \in Venues : r = BalanceRow(v)
        BY <3>2, MirroredRow
      <4>2. \A o \in Traded : VenueOf[o] # v
        BY <3>2, <4>1
      <4>3. OnVenue(v) = {}
        BY <4>2 DEF OnVenue
      <4>4. v \in funded' <=> v \in funded
        BY <1>1, <4>2
      <4>5. cash'[v] = cash[v]
        BY <1>1, <4>3
      <4>6. r[1] = "balance" /\ r[2] = v
        BY <4>1, RowNames
      <4> QED BY <4>4, <4>5, <4>6 DEF SameRow
    <3> QED BY <3>1, <3>2
  <2> QED BY <2>2, <2>3
<1>12. WrittenBack' /\ CarriesMemory' /\ \A r \in Mirrored : captured'[r] = captured[r]
  BY <1>1, <1>2, <1>6, <1>11, TicketKeeps
<1>13. ReadOnce(t)'
  <2>1. \A r \in Mirrored : captured'[r] # t
    BY <1>5, <1>12
  <2>2. stale'[t] = NoRow /\ t \in submitted'
    BY <1>1, <1>3, <1>5
  <2> QED BY <2>1, <2>2, <1>8 DEF ReadOnce
<1>14. ASSUME NEW s \in Tickets \ {t}
       PROVE  ReadOnce(s)'
  BY <1>1, <1>7, <1>12, ReadOnceSame DEF LedgerInv
<1> QED BY <1>12, <1>13, <1>14

-----------------------------------------------------------------------------
(* Whatever interleaves, the database follows the account.                  *)

LEMMA LedgerInvInit == LedgerInit => LedgerInv
<1> SUFFICES ASSUME LedgerInit
             PROVE  LedgerInv
  OBVIOUS
<1>1. LedgerKinds
  BY LedgerKindsInit
<1>2. \A r \in Mirrored : captured[r] = NoRow
  BY DEF LedgerInit
<1>3. ASSUME NEW r \in Mirrored
      PROVE  Mirrors(r)
  <2>1. r \in Rows /\ store[r] = IF r \in {BalanceRow(v) : v \in Venues} THEN Seed ELSE NoRow
    BY MirroredKinds DEF LedgerInit
  <2>2. CASE \E v \in Venues : r = BalanceRow(v)
    <3>1. PICK v \in Venues : r = BalanceRow(v)
      BY <2>2
    <3>2. r[1] = "balance" /\ r[2] = v /\ store[r] = Seed
      BY <2>1, <3>1, RowNames
    <3>3. Seed # NoRow /\ cash[v] = Seed
      BY LedgerAssumption, NamesAssumption DEF LedgerInit
    <3> QED BY <3>2, <3>3 DEF Mirrors, Agrees
  <2>3. CASE \E o \in Traded : r = PositionRow(o)
    <3>1. PICK o \in Traded : r = PositionRow(o)
      BY <2>3
    <3>2. r[1] = "position" /\ r[2] = o /\ r \notin {BalanceRow(v) : v \in Venues}
      BY <3>1, RowNames
    <3>3. store[r] = NoRow /\ position[o] = NoPosition
      BY <2>1, <3>2 DEF LedgerInit
    <3> QED BY <3>2, <3>3 DEF Mirrors, Agrees
  <2> QED BY <2>2, <2>3, MirroredRow
<1>4. WrittenBack
  BY <1>2, <1>3 DEF WrittenBack, Backed
<1>5. CarriesMemory
  BY <1>2, NamesAssumption DEF CarriesMemory, Carried
<1>6. ASSUME NEW t \in Tickets
      PROVE  ReadOnce(t)
  <2>1. todo[t] = <<>> /\ stale[t] = NoRow
    BY TaskNames DEF LedgerInit
  <2>2. \A i : i \notin DOMAIN todo[t]
    BY <2>1
  <2>3. Planned(t)
    BY <2>2 DEF Planned
  <2>4. \A r : ~Scheduled(t, r)
    BY <2>2 DEF Scheduled
  <2>5. \A r \in Mirrored : captured[r] # t
    BY <1>2, TaskNames, NamesAssumption
  <2> QED BY <2>1, <2>3, <2>4, <2>5 DEF ReadOnce
<1> QED BY <1>1, <1>4, <1>5, <1>6 DEF LedgerInv

LEMMA LedgerInvStep ==
  ASSUME LedgerInv, [LedgerNext]_ledgerVars
  PROVE  LedgerInv'
<1>1. LedgerKinds'
  BY LedgerKindsStep DEF LedgerInv
<1> DEFINE Follows == WrittenBack' /\ CarriesMemory' /\ \A t \in Tickets : ReadOnce(t)'
<1>2. ASSUME NEW k \in Tasks, Lands(k)
      PROVE  Follows
  BY <1>2, LandsKeeps, LandsReads
<1>3. ASSUME NEW k \in Tasks, GivenUp(k) \/ Refused(k)
      PROVE  Follows
  BY <1>3, DroppedKeeps DEF GivenUp, Refused
<1>4. ASSUME NEW t \in Tickets,
             \/ OpenTicket(t) \/ Fill(t) \/ RefuseLegs(t) \/ WriteRejectedLegs(t)
             \/ Emit(t) \/ EmitRaises(t) \/ WriteStatus(t)
      PROVE  Follows
  BY <1>4, OpenTicketKeeps, FillKeeps, RefusedTicketKeeps, EmitKeeps, EmitRaisesKeeps
<1>5. ASSUME NEW from \in Venues, NEW to \in Venues, Sweep(from, to)
      PROVE  Follows
  BY <1>5, SweepKeeps
<1>6. ASSUME SettleGame
      PROVE  Follows
  <2>1. writing["settle"] = NoWrite
    BY <1>6 DEF SettleGame, Starts, Idle
  <2>2. SettleLeg(Pair[1], <<<<"leg", Pair[2]>>, <<"done">>>>)
    BY <1>6 DEF SettleGame
  <2> QED BY <2>1, <2>2, <1>1, Legs, SettleLegKeeps
<1>7. ASSUME SettleNext
      PROVE  Follows
  <2>1. writing["settle"] = NoWrite
    BY <1>7 DEF SettleNext, AtStep
  <2>2. SettleLeg(Pair[2], <<<<"done">>>>)
    BY <1>7 DEF SettleNext
  <2> QED BY <2>1, <2>2, <1>1, Legs, SettleLegKeeps
<1>8. ASSUME MarkSettled
      PROVE  Follows
  <2>1. \A t \in Tickets : todo'[t] = todo[t]
    BY <1>8, TaskNames DEF MarkSettled, LedgerInv, LedgerKinds, TaskKinds
  <2> QED BY <1>8, <2>1, PlanOnlyKeeps DEF MarkSettled
<1>9. ASSUME ClearSettled
      PROVE  Follows
  <2>1. \A t \in Tickets : todo'[t] = todo[t]
    BY <1>9, TaskNames DEF ClearSettled, LedgerInv, LedgerKinds, TaskKinds
  <2> QED BY <1>9, <2>1, PlanOnlyKeeps DEF ClearSettled
<1>10. ASSUME Reset
      PROVE  Follows
  BY <1>10, ResetKeeps
<1>11. ASSUME SeedVenue
      PROVE  Follows
  BY <1>11, SeedVenueKeeps
<1>12. ASSUME UNCHANGED ledgerVars
      PROVE  Follows
  BY <1>12, PlanOnlyKeeps DEF ledgerVars, memory, history
<1>13. Follows
  BY <1>2, <1>3, <1>4, <1>5, <1>6, <1>7, <1>8, <1>9, <1>10, <1>11, <1>12 DEF LedgerNext
<1> QED BY <1>1, <1>13 DEF LedgerInv

\* With no write left and no reading lost, every row is what memory holds.
LEMMA NothingLeft ==
  ASSUME LedgerInv
  PROVE  StoreMatchesMemory
<1> SUFFICES ASSUME Quiet, NEW r \in Mirrored \ suspect
             PROVE  Mirrors(r)
  BY DEF StoreMatchesMemory
<1>1. \A k \in Tasks : writing[k] = NoWrite /\ todo[k] = <<>>
  BY DEF Quiet, Idle
<1>2. \A t \in Tickets : ~Scheduled(t, r)
  BY <1>1, TaskNames DEF Scheduled
<1>3. ~Due(r)
  BY <1>2 DEF Due
<1>4. \A k \in Tasks : ~Carried(k, r)
  BY <1>1 DEF Carried, NoWrite
<1>5. Backed(r)
  BY DEF LedgerInv, WrittenBack
<1> QED BY <1>3, <1>4, <1>5 DEF Backed

\* "DB and the in-memory state cannot diverge" (paper_broker.py): whenever no
\* task has a write left, every balance and position row is what memory holds,
\* but for a row whose last reading of memory was given up or overtaken by an
\* older one.
THEOREM StoreFollowsMemory == LedgerSpec => []StoreMatchesMemory
<1>1. LedgerInit => LedgerInv
  BY LedgerInvInit
<1>2. LedgerInv /\ [LedgerNext]_ledgerVars => LedgerInv'
  BY LedgerInvStep
<1>3. LedgerInv => StoreMatchesMemory
  BY NothingLeft
<1> QED BY <1>1, <1>2, <1>3, PTL DEF LedgerSpec

-----------------------------------------------------------------------------
(* The reports: what the queries find.                                      *)

LEMMA FiniteLists == IsFiniteSet(Tickets) /\ IsFiniteSet(Traded)
<1>1. TicketSeq \in Seq(Tickets)
  BY LedgerAssumption
<1>2. DOMAIN TicketSeq = 1..Len(TicketSeq) /\ Len(TicketSeq) \in Nat
  BY <1>1
<1>3. IsFiniteSet(DOMAIN TicketSeq)
  BY <1>2, FS_Interval
<1>4. IsFiniteSet({TicketSeq[i] : i \in DOMAIN TicketSeq})
  BY <1>3, ImageFinite
<1>5. IsFiniteSet(Traded)
  <2>1. IsFiniteSet({Pair[1]})
    BY FS_Singleton
  <2>2. Traded = {Pair[1]} \cup {Pair[2]}
    BY DEF Traded
  <2> QED BY <2>1, <2>2, FS_AddElement
<1> QED BY <1>4, <1>5 DEF Tickets

\* The sum of numbers is one, and a sum of equals equal.
LEMMA TotalIs ==
  ASSUME NEW S, IsFiniteSet(S), NEW f, DOMAIN f = S, \A x \in S : f[x] \in Int
  PROVE  Total(f) \in Int /\ Total(f) = SumFunctionOnSet(f, S)
<1>1. SumFunctionOnSet(f, S) \in Int
  BY SumSplit
<1> QED BY <1>1 DEF Total

\* What a page read of the rows.
PageCells == DOMAIN seen = Rows /\ IsWrite(seen)

LEMMA CellsRead ==
  ASSUME PageCells
  PROVE  /\ \A t \in Tickets : Status(t) \in TicketStatuses \cup {NoRow}
         /\ \A t \in Tickets, o \in Traded : seen[FillRow(t, o)] # NoRow =>
              /\ seen[FillRow(t, o)].price \in Nat /\ seen[FillRow(t, o)].fee \in Nat
              /\ Cost(t, o) \in Nat
         /\ \A o \in Traded : seen[SettlementRow(o)] # NoRow => seen[SettlementRow(o)] \in Nat
<1>1. DOMAIN seen = Rows /\ IsWrite(seen)
  BY DEF PageCells
<1>2. \A t \in Tickets : Status(t) \in TicketStatuses \cup {NoRow}
  BY <1>1, RowKeys DEF IsWrite, Status, TicketStatuses, TicketCells
<1>3. ASSUME NEW t \in Tickets, NEW o \in Traded, seen[FillRow(t, o)] # NoRow
      PROVE  /\ seen[FillRow(t, o)].price \in Nat /\ seen[FillRow(t, o)].fee \in Nat
             /\ Cost(t, o) \in Nat
  <2>1. seen[FillRow(t, o)] \in FillValues
    BY <1>1, <1>3, RowKeys DEF IsWrite
  <2> QED BY <2>1 DEF FillValues, Cost
<1>4. \A o \in Traded : seen[SettlementRow(o)] # NoRow => seen[SettlementRow(o)] \in Nat
  BY <1>1, RowKeys DEF IsWrite
<1> QED BY <1>2, <1>3, <1>4

\* A leg that paid was filled, and one that was filled ordered.
LEMMA LegSets ==
  ASSUME NEW t
  PROVE  /\ Resolved(t) \subseteq Filled(t) /\ Filled(t) \subseteq LegsOf(t) /\ LegsOf(t) \subseteq Traded
         /\ IsFiniteSet(Resolved(t)) /\ IsFiniteSet(Filled(t)) /\ IsFiniteSet(LegsOf(t))
<1>1. /\ Resolved(t) \subseteq Filled(t) /\ Filled(t) \subseteq LegsOf(t) /\ LegsOf(t) \subseteq Traded
  BY DEF Resolved, Filled, LegsOf
<1>2. \A S \in SUBSET Traded : IsFiniteSet(S)
  BY FiniteLists, FS_Subset
<1> QED BY <1>1, <1>2

LEMMA LegFigures ==
  ASSUME PageCells, NEW t \in Tickets
  PROVE  /\ \A o \in Filled(t) : Cost(t, o) \in Nat /\ seen[FillRow(t, o)].fee \in Nat
         /\ \A o \in Resolved(t) : seen[SettlementRow(o)] \in Nat /\ Gain(t, o) \in Int
         /\ \A o \in Resolved(t) : seen[SettlementRow(o)] = Gain(t, o) + Cost(t, o)
<1>1. \A o \in Filled(t) : o \in Traded /\ seen[FillRow(t, o)] # NoRow
  BY LegSets DEF Filled
<1>2. \A o \in Resolved(t) : o \in Filled(t) /\ o \in Traded /\ seen[SettlementRow(o)] # NoRow
  BY LegSets DEF Resolved
<1>3. \A o \in Filled(t) : Cost(t, o) \in Nat /\ seen[FillRow(t, o)].fee \in Nat
  BY <1>1, CellsRead
<1>4. \A o \in Resolved(t) : seen[SettlementRow(o)] \in Nat
  BY <1>2, CellsRead
<1>5. \A o \in Resolved(t) : Cost(t, o) \in Nat
  BY <1>2, <1>3
<1> QED BY <1>3, <1>4, <1>5 DEF Gain

\* Capital, payouts and fees are numbers; a ticket has a score once each of its
\* legs has paid, and that is what it paid less what it cost.
Scored(t) == LegsOf(t) # {} /\ Resolved(t) = LegsOf(t)
LEMMA Figures ==
  ASSUME PageCells, NEW t \in Tickets
  PROVE  /\ Capital(t) \in Int /\ Returned(t) \in Int /\ Fees(t) \in Int
         /\ ~Scored(t) => Score(t) = NoRow
         /\ Scored(t) => Score(t) \in Int /\ Score(t) = Returned(t) - Capital(t)
         /\ Score(t) = NoRow <=> ~Scored(t)
<1> DEFINE costs == [o \in Filled(t) |-> Cost(t, o)]
           pays  == [o \in Resolved(t) |-> seen[SettlementRow(o)]]
           fees  == [o \in Filled(t) |-> seen[FillRow(t, o)].fee]
           gains == [o \in LegsOf(t) |-> Gain(t, o)]
<1>1. IsFiniteSet(Filled(t)) /\ IsFiniteSet(Resolved(t)) /\ IsFiniteSet(LegsOf(t))
  BY LegSets
<1>2. /\ DOMAIN costs = Filled(t) /\ \A o \in Filled(t) : costs[o] \in Int
      /\ DOMAIN pays = Resolved(t) /\ \A o \in Resolved(t) : pays[o] \in Int
      /\ DOMAIN fees = Filled(t) /\ \A o \in Filled(t) : fees[o] \in Int
      /\ DOMAIN gains = LegsOf(t)
  BY LegFigures
<1>3. /\ Capital(t) = Total(costs) /\ Returned(t) = Total(pays) /\ Fees(t) = Total(fees)
      /\ Score(t) = IF Scored(t) THEN Total(gains) ELSE NoRow
  BY DEF Capital, Returned, Fees, Score, Scored
<1>4. Scored(t) => /\ Filled(t) = LegsOf(t) /\ Resolved(t) = LegsOf(t)
                   /\ \A o \in LegsOf(t) : gains[o] \in Int /\ pays[o] = gains[o] + costs[o]
  <2> SUFFICES ASSUME Scored(t)
               PROVE  /\ Filled(t) = LegsOf(t) /\ Resolved(t) = LegsOf(t)
                      /\ \A o \in LegsOf(t) : gains[o] \in Int /\ pays[o] = gains[o] + costs[o]
    OBVIOUS
  <2>1. Filled(t) = LegsOf(t) /\ Resolved(t) = LegsOf(t)
    BY LegSets DEF Scored
  <2>2. \A o \in LegsOf(t) : gains[o] = Gain(t, o) /\ costs[o] = Cost(t, o) /\ pays[o] = seen[SettlementRow(o)]
    BY <2>1
  <2>3. \A o \in LegsOf(t) : Gain(t, o) \in Int /\ seen[SettlementRow(o)] = Gain(t, o) + Cost(t, o)
    BY <2>1, LegFigures
  <2> HIDE DEF gains, costs, pays
  <2> QED BY <2>1, <2>2, <2>3
<1> HIDE DEF costs, pays, fees, gains
<1>5. /\ Total(costs) \in Int /\ Total(costs) = SumFunctionOnSet(costs, Filled(t))
      /\ Total(pays) \in Int /\ Total(pays) = SumFunctionOnSet(pays, Resolved(t))
      /\ Total(fees) \in Int
  BY <1>1, <1>2, TotalIs
<1>6. ASSUME Scored(t)
      PROVE  Total(gains) \in Int /\ Total(gains) = Total(pays) - Total(costs)
  <2>1. Total(gains) \in Int /\ Total(gains) = SumFunctionOnSet(gains, LegsOf(t))
    BY <1>1, <1>2, <1>4, <1>6, TotalIs
  <2>2. \A o \in LegsOf(t) : gains[o] \in Int /\ costs[o] \in Int /\ pays[o] = gains[o] + costs[o]
    BY <1>2, <1>4, <1>6
  <2>3. SumFunctionOnSet(pays, LegsOf(t)) = SumFunctionOnSet(gains, LegsOf(t)) + SumFunctionOnSet(costs, LegsOf(t))
    BY <1>1, <2>2, SumPlus
  <2>4. Filled(t) = LegsOf(t) /\ Resolved(t) = LegsOf(t)
    BY <1>4, <1>6
  <2> QED BY <2>1, <2>3, <2>4, <1>5
<1>7. NoRow \notin Int
  BY NamesAssumption
<1> QED BY <1>3, <1>5, <1>6, <1>7

\* The outer joins see an open leg where the score sees none or not all paid.
LEMMA OpenJoin ==
  ASSUME NEW t
  PROVE  JoinedOpen(t) <=> ~Scored(t)
<1>1. NoRow \notin LegsOf(t)
  BY Legs, LegSets, NamesAssumption
<1>2. CASE LegsOf(t) = {}
  BY <1>2 DEF JoinedOpen, Joined, Scored
<1>3. CASE LegsOf(t) # {}
  <2>1. JoinedOpen(t) <=> \E o \in LegsOf(t) : seen[FillRow(t, o)] = NoRow \/ seen[SettlementRow(o)] = NoRow
    BY <1>1, <1>3 DEF JoinedOpen, Joined
  <2>2. Resolved(t) = {o \in LegsOf(t) : seen[FillRow(t, o)] # NoRow /\ seen[SettlementRow(o)] # NoRow}
    BY DEF Resolved, Filled
  <2> QED BY <1>3, <2>1, <2>2 DEF Scored
<1> QED BY <1>2, <1>3

\* The sign of a score is an outcome, and no other is.
LEMMA Outcomes5 ==
  /\ \A n : BySign(n) \in {"won", "lost", "flat"}
  /\ \A t : OutcomeOf(t) \in {"won", "open", "lost", "flat", "none"}
BY DEF BySign, OutcomeOf

LEMMA OutcomesAgreeAlways == PageCells => OutcomesAgree
<1> SUFFICES ASSUME PageCells PROVE OutcomesAgree
  OBVIOUS
<1>1. CountOpen = Cardinality({t \in Tickets : Status(t) = "filled" /\ Score(t) = NoRow})
  <2>1. \A t \in Tickets : JoinedOpen(t) <=> Score(t) = NoRow
    BY OpenJoin, Figures
  <2>2. {t \in Tickets : Status(t) = "filled" /\ JoinedOpen(t)}
          = {t \in Tickets : Status(t) = "filled" /\ Score(t) = NoRow}
    BY <2>1
  <2> QED BY <2>2 DEF CountOpen
<1>2. \A t \in Population({"filled"}) : FilteredOutcome(t) = OutcomeOf(t)
  <2> SUFFICES ASSUME NEW t \in Tickets, Status(t) = "filled"
               PROVE  FilteredOutcome(t) = OutcomeOf(t)
    BY DEF Population
  <2>1. OutcomeOf(t) = IF Score(t) = NoRow THEN "open" ELSE BySign(Score(t))
    BY DEF OutcomeOf, NeverTraded
  <2>2. JoinedOpen(t) <=> Score(t) = NoRow
    BY OpenJoin, Figures
  <2>3. Score(t) # NoRow => Score(t) = Total([o \in Joined(t) |-> Gain(t, o)])
    BY DEF Score, Joined
  <2> QED BY <2>1, <2>2, <2>3 DEF FilteredOutcome
<1>3. \A outcome \in {"won", "lost", "flat"} :
        Matching(outcome) \subseteq {t \in Hydrated : OutcomeOf(t) = outcome}
  <2>1. Population({"filled"}) \subseteq Hydrated
    BY DEF Population, Hydrated, TradedStatuses
  <2> QED BY <1>2, <2>1 DEF Matching
<1> QED BY <1>1, <1>2, <1>3 DEF OutcomesAgree

-----------------------------------------------------------------------------
(* The counts.                                                              *)

LEMMA QueriesFinite ==
  /\ \A S \in SUBSET Tickets : IsFiniteSet(S) /\ Cardinality(S) \in Nat
  /\ \A statuses : Population(statuses) \in SUBSET Tickets
  /\ Attempts \in SUBSET Tickets
  /\ Hydrated \in SUBSET Tickets
  /\ SettledTickets \in SUBSET Hydrated /\ OpenTickets \in SUBSET Hydrated
  /\ IsFiniteSet(Leagues)
<1>1. \A S \in SUBSET Tickets : IsFiniteSet(S) /\ Cardinality(S) \in Nat
  BY FiniteLists, FS_Subset, FS_CardinalityType
<1>2. \A statuses : Population(statuses) \in SUBSET Tickets
  BY DEF Population
<1>3. Hydrated \in SUBSET Tickets /\ Attempts \in SUBSET Tickets
  BY DEF Population, Hydrated, Attempts
<1>4. SettledTickets \in SUBSET Hydrated /\ OpenTickets \in SUBSET Hydrated
  BY DEF SettledTickets, OpenTickets
<1>5. IsFiniteSet(Leagues)
  BY <1>1, <1>3, ImageFinite DEF Leagues
<1> QED BY <1>1, <1>2, <1>3, <1>4, <1>5

\* A set is counted in two parts.
LEMMA CountSplit ==
  ASSUME NEW A \in SUBSET Tickets, NEW B
  PROVE  /\ Cardinality(A) \in Nat /\ Cardinality(A \cap B) \in Nat /\ Cardinality(A \ B) \in Nat
         /\ Cardinality(A) = Cardinality(A \cap B) + Cardinality(A \ B)
<1> DEFINE C == A \cap B
           D == A \ B
<1>1. /\ C \in SUBSET Tickets /\ D \in SUBSET Tickets
      /\ C \cup D = A /\ C \cap D = {}
  OBVIOUS
<1> HIDE DEF C, D
<1>2. /\ IsFiniteSet(C) /\ Cardinality(C) \in Nat /\ IsFiniteSet(D) /\ Cardinality(D) \in Nat
      /\ Cardinality(A) \in Nat
  BY <1>1, QueriesFinite
<1>3. Cardinality(C \cup D) = Cardinality(C) + Cardinality(D) - Cardinality(C \cap D)
  BY <1>2, FS_Union
<1>4. Cardinality(C \cap D) = 0
  BY <1>1, FS_EmptySet
<1>5. Cardinality(A) = Cardinality(C) + Cardinality(D)
  <2>1. Cardinality(C \cup D) = Cardinality(A)
    BY <1>1
  <2> QED BY <1>2, <1>3, <1>4, <2>1
<1> QED BY <1>2, <1>5 DEF C, D

\* The outcomes a ticket that traded may have.
Slices == {"won", "open", "lost", "flat"}
LEMMA SlicesFinite == IsFiniteSet(Slices) /\ IsFiniteSet(Slices \cup {"none"}) /\ "none" \notin Slices
<1>1. IsFiniteSet({"won"})
  BY FS_Singleton
<1>2. IsFiniteSet({"won"} \cup {"open"})
  BY <1>1, FS_AddElement
<1>3. IsFiniteSet(({"won"} \cup {"open"}) \cup {"lost"})
  BY <1>2, FS_AddElement
<1>4. IsFiniteSet((({"won"} \cup {"open"}) \cup {"lost"}) \cup {"flat"})
  BY <1>3, FS_AddElement
<1>5. Slices = (({"won"} \cup {"open"}) \cup {"lost"}) \cup {"flat"}
  BY DEF Slices
<1>6. "none" \notin Slices
  BY DEF Slices
<1>7. IsFiniteSet(Slices)
  BY <1>4, <1>5
<1>8. IsFiniteSet(Slices \cup {"none"})
  BY <1>7, FS_AddElement
<1> QED BY <1>6, <1>7, <1>8

\* The slices of the tickets that traded count each of them once.
LEMMA TradedSlices ==
  ASSUME NEW mix, \A k \in Slices : mix[k] = Cardinality({t \in Hydrated : OutcomeOf(t) = k})
  PROVE  SumFunctionOnSet(mix, Slices) = Cardinality(Hydrated)
<1> DEFINE H == Hydrated
           key == [t \in H |-> OutcomeOf(t)]
           part == [k \in Slices |-> {t \in H : key[t] = k}]
<1>1. IsFiniteSet(H) /\ IsFiniteSet(Slices)
  BY QueriesFinite, SlicesFinite
<1>2. \A t \in H : key[t] \in Slices
  <2> TAKE t \in H
  <2>1. Status(t) \notin NeverTraded
    BY DEF Hydrated, Population, TradedStatuses, NeverTraded
  <2>2. OutcomeOf(t) \in Slices
    BY <2>1, Outcomes5 DEF OutcomeOf, Slices
  <2> QED BY <2>2
<1>3. \A k \in Slices : part[k] = {t \in H : key[t] = k}
  OBVIOUS
<1>4. \A k \in Slices : mix[k] = Cardinality(part[k])
  <2> TAKE k \in Slices
  <2>1. part[k] = {t \in Hydrated : OutcomeOf(t) = k}
    OBVIOUS
  <2> HIDE DEF part
  <2> QED BY <2>1
<1> HIDE DEF H, key, part
<1>5. SumFunctionOnSet(mix, Slices) = Cardinality(H)
  BY <1>1, <1>2, <1>3, <1>4, CountGrouped
<1> QED BY <1>5 DEF H

\* A ticket that had its outcome when the scalars were read has it, or is
\* erased, when the tickets are.
KeepsOutcome ==
  \A t \in Tickets : scalars[t] \in {"filled", "rejected", "missed"} => Status(t) \in {scalars[t], NoRow}

LEMMA MixAddsUp ==
  ASSUME KeepsOutcome
  PROVE  Total([outcome \in {"won", "open", "lost", "flat", "none"} |-> MixOf(outcome)])
           + Cardinality(Gone) = Attempted + Cardinality(Came)
<1> DEFINE K == {"won", "open", "lost", "flat", "none"}
           mix == [outcome \in K |-> MixOf(outcome)]
           R == {t \in Attempts : scalars[t] = "rejected"}
           M == {t \in Attempts : scalars[t] = "missed"}
           N == {t \in Attempts : scalars[t] \in NeverTraded}
           T == {t \in Attempts : scalars[t] \in TradedStatuses}
           H == Hydrated
           A == Attempts
<1>1. K = Slices \cup {"none"}
  BY DEF Slices
<1>2. SumFunctionOnSet(mix, Slices) = Cardinality(H)
  <2>1. \A k \in Slices : mix[k] = Cardinality({t \in Hydrated : OutcomeOf(t) = k})
    <3> TAKE k \in Slices
    <3>1. k \in K /\ k # "none"
      BY DEF Slices
    <3> QED BY <3>1 DEF MixOf
  <2> HIDE DEF mix
  <2> QED BY <2>1, TradedSlices
<1>3. mix["none"] = Cardinality(N) /\ mix["none"] \in Int
  <2>1. N \in SUBSET Tickets
    BY QueriesFinite
  <2>2. N \cap R = R /\ N \ R = M
    BY DEF NeverTraded
  <2>3. mix["none"] = Cardinality(R) + Cardinality(M)
    BY DEF MixOf, CountOf
  <2> HIDE DEF N, R, M, mix
  <2>4. Cardinality(N) = Cardinality(N \cap R) + Cardinality(N \ R) /\ Cardinality(N) \in Nat
    BY <2>1, CountSplit
  <2> QED BY <2>2, <2>3, <2>4
<1>4. \A k \in Slices : mix[k] \in Int
  <2> TAKE k \in Slices
  <2>1. k \in K /\ k # "none"
    BY DEF Slices
  <2>2. {t \in Hydrated : OutcomeOf(t) = k} \in SUBSET Tickets
    BY QueriesFinite
  <2>3. Cardinality({t \in Hydrated : OutcomeOf(t) = k}) \in Nat
    BY <2>2, QueriesFinite
  <2> QED BY <2>1, <2>3 DEF MixOf
<1>5. DOMAIN mix = K
  OBVIOUS
<1>6. Total(mix) = Cardinality(H) + Cardinality(N)
  <2> DEFINE W == Slices \cup {"none"}
  <2>1. /\ IsFiniteSet(W) /\ Slices \in SUBSET W /\ "none" \in W /\ "none" \notin Slices
        /\ \A k \in W : mix[k] \in Int
    BY <1>3, <1>4, SlicesFinite
  <2> HIDE DEF mix, K, N, W
  <2>2. SumFunctionOnSet(mix, Slices \cup {"none"}) = mix["none"] + SumFunctionOnSet(mix, Slices)
    BY <2>1, SumAdd
  <2>3. Cardinality(H) \in Nat /\ Cardinality(N) \in Nat
    BY QueriesFinite DEF N
  <2> QED BY <1>1, <1>2, <1>3, <1>5, <2>2, <2>3 DEF Total
<1>7. H \in SUBSET Tickets /\ A \in SUBSET Tickets /\ T \in SUBSET Tickets
  BY QueriesFinite
<1>8. A \cap T = T /\ A \ T = N
  BY DEF TradedStatuses, NeverTraded, TicketStatuses, Attempts
<1>9. H \cap A = T \cap H
  <2>1. \A t \in A : t \in H => t \in T
    <3> SUFFICES ASSUME NEW t \in A, t \in H, t \in N
                 PROVE  FALSE
      BY <1>8
    <3>1. Status(t) \in TradedStatuses /\ t \in Tickets
      BY DEF Hydrated, Population
    <3>2. scalars[t] \in {"rejected", "missed"}
      BY DEF NeverTraded
    <3>3. Status(t) \in {scalars[t], NoRow}
      BY <3>1, <3>2 DEF KeepsOutcome
    <3>4. NoRow \notin TradedStatuses
      BY StatusAssumption DEF TradedStatuses, TicketStatuses
    <3> QED BY <3>1, <3>2, <3>3, <3>4 DEF TradedStatuses
  <2> QED BY <2>1
<1>10. Gone = T \ H /\ Came = H \ A /\ Attempted = Cardinality(A)
  BY DEF Gone, Came, Attempted
<1> HIDE DEF H, A, T, N, mix, K
<1>11. /\ Cardinality(A) = Cardinality(T) + Cardinality(N)
       /\ Cardinality(T) \in Nat /\ Cardinality(N) \in Nat
  BY <1>7, <1>8, CountSplit
<1>12. /\ Cardinality(H) = Cardinality(T \cap H) + Cardinality(H \ A)
       /\ Cardinality(H \ A) \in Nat
  BY <1>7, <1>9, CountSplit
<1>13. /\ Cardinality(T) = Cardinality(T \cap H) + Cardinality(T \ H)
       /\ Cardinality(T \ H) \in Nat /\ Cardinality(T \cap H) \in Nat
  BY <1>7, CountSplit
<1>14. Total(mix) + Cardinality(Gone) = Attempted + Cardinality(Came)
  BY <1>6, <1>10, <1>11, <1>12, <1>13
<1> QED BY <1>14 DEF mix, K

LEMMA LeaguesAddUp == Total([l \in Leagues |-> LeagueCount(l)]) = Attempted
<1> DEFINE P == Attempts
           part == [l \in Leagues |-> {t \in P : League[t] = l}]
           counts == [l \in Leagues |-> LeagueCount(l)]
<1>1. IsFiniteSet(P) /\ IsFiniteSet(Leagues)
  BY QueriesFinite
<1>2. \A t \in P : League[t] \in Leagues
  BY DEF Leagues
<1>3. \A l \in Leagues : part[l] = {t \in P : League[t] = l}
  OBVIOUS
<1>4. \A l \in Leagues : counts[l] = Cardinality(part[l])
  BY DEF LeagueCount
<1>5. DOMAIN counts = Leagues
  OBVIOUS
<1> HIDE DEF P, counts, part
<1>6. SumFunctionOnSet(counts, Leagues) = Cardinality(P)
  BY <1>1, <1>2, <1>3, <1>4, CountGrouped
<1>7. Total(counts) = Cardinality(P)
  BY <1>5, <1>6 DEF Total
<1> QED BY <1>7 DEF counts, Attempted, P

\* What the scalars had of each ticket.
ScalarKinds == DOMAIN scalars = Tickets /\ \A t \in Tickets : scalars[t] \in TicketStatuses \cup {NoRow}

LEMMA CountsReconcileAlways ==
  ASSUME ScalarKinds, KeepsOutcome
  PROVE  CountsReconcile
<1>1. ASSUME withheld = {t \in Excluded : scalars[t] # NoRow}
      PROVE  Attempted + Cardinality(withheld) = Cardinality({t \in Tickets : scalars[t] # NoRow})
  <2> DEFINE S == {t \in Tickets : scalars[t] # NoRow}
  <2>1. S \in SUBSET Tickets
    OBVIOUS
  <2>2. S \cap Attempts = Attempts
    BY StatusAssumption DEF Attempts
  <2>3. S \ Attempts = withheld
    BY <1>1, ReportsAssumption DEF Attempts, ScalarKinds
  <2> HIDE DEF S
  <2>4. /\ Cardinality(S) = Cardinality(S \cap Attempts) + Cardinality(S \ Attempts)
    BY <2>1, CountSplit
  <2>5. Cardinality(S) = Attempted + Cardinality(withheld)
    BY <2>2, <2>3, <2>4 DEF Attempted
  <2> QED BY <2>5 DEF S
<1> QED BY <1>1, MixAddsUp, LeaguesAddUp DEF CountsReconcile, KeepsOutcome

-----------------------------------------------------------------------------
(* The pages of the log.                                                    *)

\* Of two tickets one is newer, by time or else by id.
LEMMA NewerOrders ==
  /\ \A t \in Tickets : ~Newer(t, t)
  /\ \A t, u \in Tickets : Newer(t, u) => ~Newer(u, t)
  /\ \A t, u \in Tickets : t # u => Newer(t, u) \/ Newer(u, t)
  /\ \A t, u, w \in Tickets : Newer(t, u) /\ Newer(u, w) => Newer(t, w)
<1>1. \A t \in Tickets : SubmittedAt[t] \in Nat /\ IdRank[t] \in Nat
  BY ReportsAssumption
<1>2. \A t, u \in Tickets : IdRank[t] = IdRank[u] => t = u
  BY ReportsAssumption
<1> QED BY <1>1, <1>2 DEF Newer

\* Some tickets have a newest and an oldest among them.
LEMMA NewestExists ==
  ASSUME NEW T \in SUBSET Tickets, T # {}
  PROVE  /\ \E t \in T : \A u \in T \ {t} : Newer(t, u)
         /\ \E t \in T : \A u \in T \ {t} : Newer(u, t)
<1> DEFINE Ends(U) == U = {} \/ /\ \E t \in U : \A u \in U \ {t} : Newer(t, u)
                                /\ \E t \in U : \A u \in U \ {t} : Newer(u, t)
           P == {U \in SUBSET T : Ends(U)}
<1>1. {} \in P
  OBVIOUS
<1>2. ASSUME NEW U \in SUBSET T, NEW x \in T, U \in P, x \notin U
      PROVE  U \cup {x} \in P
  <2>1. CASE U = {}
    <3>1. \A u \in U \cup {x} : u = x
      BY <2>1
    <3> QED BY <3>1
  <2>2. CASE U # {}
    <3>1. PICK n \in U : \A u \in U \ {n} : Newer(n, u)
      BY <1>2, <2>2
    <3>2. PICK l \in U : \A u \in U \ {l} : Newer(u, l)
      BY <1>2, <2>2
    <3>3. \A u \in U \cup {x} : u \in Tickets
      OBVIOUS
    <3>4. \E t \in U \cup {x} : \A u \in (U \cup {x}) \ {t} : Newer(t, u)
      <4>1. CASE Newer(n, x)
        BY <3>1, <4>1
      <4>2. CASE Newer(x, n)
        <5>1. \A u \in U : Newer(x, u)
          BY <3>1, <3>3, <4>2, NewerOrders
        <5> QED BY <5>1
      <4> QED BY <4>1, <4>2, <1>2, <3>3, NewerOrders
    <3>5. \E t \in U \cup {x} : \A u \in (U \cup {x}) \ {t} : Newer(u, t)
      <4>1. CASE Newer(x, l)
        BY <3>2, <4>1
      <4>2. CASE Newer(l, x)
        <5>1. \A u \in U : Newer(u, x)
          BY <3>2, <3>3, <4>2, NewerOrders
        <5> QED BY <5>1
      <4> QED BY <4>1, <4>2, <1>2, <3>3, NewerOrders
    <3> QED BY <3>4, <3>5
  <2> QED BY <2>1, <2>2
<1> HIDE DEF P
<1>3. IsFiniteSet(T)
  BY QueriesFinite
<1>4. T \in P
  BY <1>1, <1>2, <1>3, FiniteInduction
<1> QED BY <1>4 DEF P

\* Whatever was asked for, a page of one moment and what comes after it at
\* another have no ticket twice, and every one that was there both times.
LEMMA PageSplits ==
  ASSUME NEW S \in SUBSET Tickets, NEW Later \in SUBSET Tickets, NEW limit \in Nat \ {0}
  PROVE  /\ Page(S, limit) \cap Remaining(Page(S, limit), Later, limit) = {}
         /\ S \cap Later \subseteq Page(S, limit) \cup Remaining(Page(S, limit), Later, limit)
<1> DEFINE A == Page(S, limit)
           Above(t) == {u \in S : Newer(u, t)}
<1>1. A \in SUBSET S /\ \A t \in S : t \in A <=> Cardinality(Above(t)) < limit
  BY DEF Page
<1>2. \A U \in SUBSET S : IsFiniteSet(U) /\ Cardinality(U) \in Nat
  BY QueriesFinite
<1>3. \A t \in S : Above(t) \in SUBSET S
  OBVIOUS
<1>4. \A U, W \in SUBSET S : U \subseteq W => Cardinality(U) <= Cardinality(W)
  BY <1>2, FS_Subset
<1>5. \A t, u \in S : Newer(t, u) => Above(t) \subseteq Above(u)
  BY NewerOrders
<1>6. CASE Cardinality(A) = limit
  <2>1. A # {}
    <3>1. limit # 0
      OBVIOUS
    <3> QED BY <1>6, <3>1, FS_EmptySet
  <2>2. \E t \in A : \A u \in A \ {t} : Newer(u, t)
    <3>1. A \in SUBSET Tickets
      BY <1>1
    <3> HIDE DEF A
    <3> QED BY <2>1, <3>1, NewestExists
  <2> DEFINE last == LastOf(A)
  <2>3. last \in A /\ \A u \in A \ {last} : Newer(u, last)
    BY <2>2 DEF LastOf
  <2>4. Remaining(A, Later, limit) = {u \in Later : Newer(last, u)}
    BY <1>6 DEF Remaining, After
  <2> HIDE DEF last, A
  <2>5. \A u \in Later : Newer(last, u) => u \notin A
    <3> TAKE u \in Later
    <3> HAVE Newer(last, u)
    <3>1. last \in Tickets /\ u \in Tickets
      BY <1>1, <2>3
    <3>2. u # last /\ ~Newer(u, last)
      BY <3>1, NewerOrders
    <3> QED BY <2>3, <3>2
  <2>6. \A u \in S : u \in A \/ Newer(last, u)
    <3> SUFFICES ASSUME NEW u \in S, u \notin A
                 PROVE  Newer(last, u)
      OBVIOUS
    <3>1. last \in S /\ last \in Tickets /\ u \in Tickets /\ u # last
      BY <1>1, <2>3
    <3>2. ASSUME Newer(u, last)
          PROVE  FALSE
      <4>1. Cardinality(Above(u)) <= Cardinality(Above(last))
        BY <1>3, <1>4, <1>5, <3>1, <3>2
      <4>2. Cardinality(Above(last)) < limit
        BY <1>1, <2>3, <3>1
      <4>3. Cardinality(Above(u)) \in Nat /\ Cardinality(Above(last)) \in Nat
        BY <1>2, <1>3, <3>1
      <4> HIDE DEF Above
      <4>4. Cardinality(Above(u)) < limit
        BY <4>1, <4>2, <4>3
      <4> QED BY <1>1, <4>4
    <3> QED BY <3>1, <3>2, NewerOrders
  <2> QED BY <1>1, <2>4, <2>5, <2>6 DEF A
<1>7. CASE Cardinality(A) # limit
  <2>1. Remaining(A, Later, limit) = {}
    BY <1>7 DEF Remaining
  <2>2. Cardinality(A) < limit
    <3> SUFFICES ASSUME Cardinality(A) > limit
                 PROVE  FALSE
      BY <1>1, <1>2, <1>7
    <3>1. A # {} /\ A \in SUBSET Tickets /\ A \in SUBSET S /\ IsFiniteSet(A) /\ Cardinality(A) \in Nat
      <4>1. ~(0 > limit)
        OBVIOUS
      <4>2. A # {}
        BY <4>1, FS_EmptySet
      <4> QED BY <1>1, <1>2, <4>2
    <3> HIDE DEF A
    <3>2. PICK t \in A : \A u \in A \ {t} : Newer(u, t)
      BY <3>1, NewestExists
    <3>3. A \ {t} \in SUBSET Above(t) /\ Above(t) \in SUBSET S /\ A \ {t} \in SUBSET S
      BY <3>1, <3>2
    <3>4. Cardinality(A \ {t}) = Cardinality(A) - 1
      BY <3>1, <3>2, FS_RemoveElement
    <3>5. Cardinality(A \ {t}) <= Cardinality(Above(t))
      BY <1>4, <3>3
    <3>6. Cardinality(Above(t)) < limit
      BY <1>1, <3>2
    <3>7. Cardinality(Above(t)) \in Nat
      BY <1>2, <3>3
    <3> HIDE DEF Above
    <3> QED BY <3>1, <3>4, <3>5, <3>6, <3>7
  <2>3. A = S
    <3> SUFFICES ASSUME S \ A # {}
                 PROVE  FALSE
      BY <1>1
    <3>1. S \ A \in SUBSET Tickets
      OBVIOUS
    <3> HIDE DEF A
    <3>2. PICK t \in S \ A : \A u \in (S \ A) \ {t} : Newer(t, u)
      <4> DEFINE rest == S \ A
      <4>1. rest \in SUBSET Tickets /\ rest # {}
        BY <3>1
      <4> HIDE DEF rest
      <4>2. \E t \in rest : \A u \in rest \ {t} : Newer(t, u)
        BY <4>1, NewestExists
      <4> QED BY <4>2 DEF rest
    <3>3. Above(t) \subseteq A
      <4> SUFFICES ASSUME NEW u \in S, Newer(u, t), u \notin A
                   PROVE  FALSE
        OBVIOUS
      <4>1. u # t /\ ~Newer(t, u)
        BY <3>2, NewerOrders
      <4> QED BY <3>2, <4>1
    <3>4. Cardinality(Above(t)) <= Cardinality(A) /\ Cardinality(Above(t)) \in Nat /\ Cardinality(A) \in Nat
      BY <1>1, <1>2, <1>3, <1>4, <3>2, <3>3
    <3> HIDE DEF Above
    <3>5. Cardinality(Above(t)) < limit
      BY <2>2, <3>4
    <3> QED BY <1>1, <3>2, <3>5
  <2> QED BY <2>1, <2>3
<1> QED BY <1>6, <1>7

LEMMA PagesPartitionAlways == PagesPartition
<1>1. /\ Cardinality(Tickets) \in Nat
      /\ Population(TicketStatuses) \in SUBSET Tickets /\ Attempts \in SUBSET Tickets
  BY QueriesFinite, FiniteLists, FS_CardinalityType
<1>2. \A limit \in 1..Cardinality(Tickets) : limit \in Nat \ {0}
  BY <1>1
<1> QED BY <1>1, <1>2, PageSplits DEF PagesPartition

-----------------------------------------------------------------------------
(* The figures: a ticket's economics are those of its legs, which the       *)
(* venues and the leagues add up again.                                     *)

Entries == Tickets \X Traded
CostAt == [p \in Entries |-> Cost(p[1], p[2])]
GainAt == [p \in Entries |-> Gain(p[1], p[2])]
BoughtBy(A) == {p \in A \X Traded : p[2] \in Filled(p[1])}
PaidBy(A)   == {p \in A \X Traded : p[2] \in Resolved(p[1])}

LEMMA EntryKinds ==
  ASSUME PageCells, NEW A \in SUBSET Tickets
  PROVE  /\ BoughtBy(A) \in SUBSET Entries /\ IsFiniteSet(BoughtBy(A))
         /\ \A p \in BoughtBy(A) : CostAt[p] \in Nat /\ CostAt[p] = Cost(p[1], p[2])
         /\ PaidBy(A) \in SUBSET BoughtBy(A) /\ IsFiniteSet(PaidBy(A))
         /\ \A p \in PaidBy(A) : GainAt[p] \in Int /\ GainAt[p] = Gain(p[1], p[2])
<1>1. IsFiniteSet(Entries)
  BY FiniteLists, FS_Product DEF Entries
<1>2. \A p \in A \X Traded : p \in Entries /\ p[1] \in Tickets /\ p[2] \in Traded
  BY DEF Entries
<1>3. BoughtBy(A) \in SUBSET Entries
  BY <1>2 DEF BoughtBy
<1>4. PaidBy(A) \in SUBSET BoughtBy(A)
  <2>1. \A t : Resolved(t) \subseteq Filled(t)
    BY LegSets
  <2> QED BY <2>1 DEF BoughtBy, PaidBy
<1>5. \A p \in BoughtBy(A) : Cost(p[1], p[2]) \in Nat
  BY <1>2, LegFigures DEF BoughtBy
<1>6. \A p \in PaidBy(A) : Gain(p[1], p[2]) \in Int
  BY <1>2, LegFigures DEF PaidBy
<1>7. /\ \A p \in BoughtBy(A) : CostAt[p] = Cost(p[1], p[2])
      /\ \A p \in PaidBy(A) : GainAt[p] = Gain(p[1], p[2])
  BY <1>3, <1>4 DEF CostAt, GainAt
<1>8. IsFiniteSet(BoughtBy(A)) /\ IsFiniteSet(PaidBy(A))
  BY <1>1, <1>3, <1>4, FS_Subset
<1> QED BY <1>3, <1>4, <1>5, <1>6, <1>7, <1>8

\* What tickets cost is what their legs did.
LEMMA CapitalByLeg ==
  ASSUME PageCells, NEW A \in SUBSET Tickets
  PROVE  Total([t \in A |-> Capital(t)]) = SumFunctionOnSet(CostAt, BoughtBy(A))
<1> DEFINE F == [t \in A |-> Filled(t)]
           inner == [t \in A |-> [o \in Filled(t) |-> Cost(t, o)]]
           g == [t \in A |-> Capital(t)]
           B == BoughtBy(A)
<1>1. IsFiniteSet(A) /\ IsFiniteSet(Traded)
  BY QueriesFinite, FiniteLists
<1>2. \A t \in A : F[t] = Filled(t) /\ F[t] \in SUBSET Traded
  BY LegSets
<1>3. \A t \in A : \A o \in F[t] : <<t, o>> \in B
  BY <1>2 DEF BoughtBy
<1>4. \A t \in A : \A o \in F[t] : CostAt[<<t, o>>] \in Int /\ inner[t][o] = CostAt[<<t, o>>]
  <2> TAKE t \in A
  <2> TAKE o \in F[t]
  <2>1. CostAt[<<t, o>>] \in Nat /\ CostAt[<<t, o>>] = Cost(t, o)
    BY <1>3, EntryKinds
  <2> QED BY <1>2, <2>1
<1>5. \A t \in A : g[t] = SumFunctionOnSet(inner[t], F[t])
  <2> TAKE t \in A
  <2>1. g[t] = Total(inner[t]) /\ DOMAIN inner[t] = F[t]
    BY DEF Capital
  <2> QED BY <2>1 DEF Total
<1>6. \A p : p \in B <=> p \in A \X Traded /\ p[2] \in F[p[1]]
  BY <1>2 DEF BoughtBy
<1>7. DOMAIN g = A
  OBVIOUS
<1> HIDE DEF F, inner, g, B
<1>8. AddsPairs(A, Traded, F, CostAt, inner, g, B)
  BY <1>1, <1>2, <1>4, <1>5, <1>6 DEF AddsPairs
<1>9. Total(g) = SumFunctionOnSet(CostAt, B)
  BY <1>7, <1>8, SumPairs DEF Total
<1> QED BY <1>9 DEF g, B

\* What scored tickets netted is what their legs did.
LEMMA ScoreByLeg ==
  ASSUME PageCells, NEW A \in SUBSET Tickets, \A t \in A : Scored(t)
  PROVE  Total([t \in A |-> Score(t)]) = SumFunctionOnSet(GainAt, PaidBy(A))
<1> DEFINE F == [t \in A |-> Resolved(t)]
           inner == [t \in A |-> [o \in LegsOf(t) |-> Gain(t, o)]]
           g == [t \in A |-> Score(t)]
           B == PaidBy(A)
<1>1. IsFiniteSet(A) /\ IsFiniteSet(Traded)
  BY QueriesFinite, FiniteLists
<1>2. \A t \in A : F[t] = Resolved(t) /\ F[t] = LegsOf(t) /\ F[t] \in SUBSET Traded
  BY LegSets DEF Scored
<1>3. \A t \in A : \A o \in F[t] : <<t, o>> \in B
  BY <1>2 DEF PaidBy
<1>4. \A t \in A : \A o \in F[t] : GainAt[<<t, o>>] \in Int /\ inner[t][o] = GainAt[<<t, o>>]
  <2> TAKE t \in A
  <2> TAKE o \in F[t]
  <2>1. GainAt[<<t, o>>] \in Int /\ GainAt[<<t, o>>] = Gain(t, o)
    BY <1>3, EntryKinds
  <2> QED BY <1>2, <2>1
<1>5. \A t \in A : g[t] = SumFunctionOnSet(inner[t], F[t])
  <2> TAKE t \in A
  <2>1. Score(t) = Total([o \in LegsOf(t) |-> Gain(t, o)])
    BY DEF Score, Scored
  <2>2. g[t] = Total(inner[t]) /\ DOMAIN inner[t] = LegsOf(t)
    BY <2>1
  <2> QED BY <1>2, <2>2 DEF Total
<1>6. \A p : p \in B <=> p \in A \X Traded /\ p[2] \in F[p[1]]
  BY <1>2 DEF PaidBy
<1>7. DOMAIN g = A
  OBVIOUS
<1> HIDE DEF F, inner, g, B
<1>8. AddsPairs(A, Traded, F, GainAt, inner, g, B)
  BY <1>1, <1>2, <1>4, <1>5, <1>6 DEF AddsPairs
<1>9. Total(g) = SumFunctionOnSet(GainAt, B)
  BY <1>7, <1>8, SumPairs DEF Total
<1> QED BY <1>9 DEF g, B

\* What the venues had of some legs is what the legs did.
AtVenue(B, v) == {p \in B : VenueOf[p[2]] = v}
LEMMA VenuesAddUp ==
  ASSUME NEW B \in SUBSET Entries, NEW f, \A p \in B : f[p] \in Int,
         NEW g, DOMAIN g = Venues,
         \A v \in Venues : g[v] = SumFunctionOnSet(f, AtVenue(B, v))
  PROVE  Total(g) = SumFunctionOnSet(f, B)
<1> DEFINE key == [p \in B |-> VenueOf[p[2]]]
           part == [v \in Venues |-> AtVenue(B, v)]
<1>1. IsFiniteSet(B) /\ IsFiniteSet(Venues)
  <2>1. IsFiniteSet(Entries)
    BY FiniteLists, FS_Product DEF Entries
  <2> QED BY <2>1, FS_Subset, LedgerAssumption
<1>2. \A p \in B : key[p] \in Venues
  <2>1. \A p \in B : p[2] \in Traded
    BY DEF Entries
  <2> QED BY <2>1, Legs
<1>3. \A v \in Venues : part[v] = {p \in B : key[p] = v}
  BY DEF AtVenue
<1>4. \A v \in Venues : g[v] = SumFunctionOnSet(f, part[v])
  OBVIOUS
<1> HIDE DEF key, part
<1>5. SumFunctionOnSet(g, Venues) = SumFunctionOnSet(f, B)
  BY <1>1, <1>2, <1>3, <1>4, SumGrouped
<1> QED BY <1>5 DEF Total

\* Every ticket that traded is settled or open.
LEMMA HydratedSplits ==
  ASSUME PageCells
  PROVE  /\ SettledTickets = {t \in Hydrated : Scored(t)}
         /\ OpenTickets = {t \in Hydrated : ~Scored(t)}
<1>1. ASSUME NEW t \in Hydrated
      PROVE  OutcomeOf(t) = IF Scored(t) THEN BySign(Score(t)) ELSE "open"
  <2>1. t \in Tickets /\ Status(t) \notin NeverTraded
    BY DEF Hydrated, Population, TradedStatuses, NeverTraded
  <2>2. Score(t) = NoRow <=> ~Scored(t)
    BY <2>1, Figures
  <2> QED BY <2>1, <2>2 DEF OutcomeOf
<1> QED BY <1>1, Outcomes5 DEF SettledTickets, OpenTickets

\* A query of one venue's legs, summed.
LEMMA VenueQuery ==
  ASSUME NEW B, IsFiniteSet(B), NEW f, NEW e, DOMAIN e = B, \A p \in B : f[p] \in Int /\ e[p] = f[p]
  PROVE  Total(e) = SumFunctionOnSet(f, B)
<1>1. SumFunctionOnSet(f, B) = SumFunctionOnSet(e, B)
  BY SumSame
<1> QED BY <1>1 DEF Total

\* The capital at the venues is the tickets', and what is open at them is
\* part of what the open tickets cost.
LEMMA VenuesReconcile ==
  ASSUME PageCells
  PROVE  /\ Total([v \in Venues |-> Deployed(v)]) = CapitalDeployed
         /\ Total([v \in Venues |-> StillOpen(v)]) <= OpenExposure
         /\ OpenTickets = {} => Total([v \in Venues |-> VenueNet(v)]) = RealizedNet
<1> DEFINE H == Hydrated
           B == BoughtBy(H)
           Z == PaidBy(H)
           U == B \ Z
           C == BoughtBy(OpenTickets)
<1>1. /\ H \in SUBSET Tickets /\ OpenTickets \in SUBSET Tickets /\ SettledTickets \in SUBSET Tickets
      /\ OpenTickets \in SUBSET H /\ SettledTickets \in SUBSET H
  BY QueriesFinite
<1>2. /\ B \in SUBSET Entries /\ IsFiniteSet(B)
      /\ \A p \in B : CostAt[p] \in Nat /\ CostAt[p] = Cost(p[1], p[2])
      /\ Z \in SUBSET B /\ IsFiniteSet(Z)
      /\ \A p \in Z : GainAt[p] \in Int /\ GainAt[p] = Gain(p[1], p[2])
  BY <1>1, EntryKinds
<1>3. /\ IsFiniteSet(C) /\ \A p \in C : CostAt[p] \in Nat
  BY <1>1, EntryKinds
<1>4. \A v : LegsTraded(v) = AtVenue(B, v)
  BY DEF LegsTraded, AtVenue, BoughtBy
<1>5. \A v : LegsPaid(v) = AtVenue(Z, v)
  <2>1. \A t : Resolved(t) \subseteq Filled(t)
    BY LegSets
  <2> QED BY <2>1 DEF LegsPaid, LegsTraded, AtVenue, PaidBy
<1>6. \A v : LegsTraded(v) \ LegsPaid(v) = AtVenue(U, v)
  BY <1>4, <1>5 DEF AtVenue
<1>7. \A v : /\ AtVenue(B, v) \in SUBSET B /\ IsFiniteSet(AtVenue(B, v))
             /\ AtVenue(Z, v) \in SUBSET Z /\ IsFiniteSet(AtVenue(Z, v))
             /\ AtVenue(U, v) \in SUBSET U /\ IsFiniteSet(AtVenue(U, v))
  <2>1. \A S : IsFiniteSet(S) => \A T \in SUBSET S : IsFiniteSet(T)
    BY FS_Subset
  <2>2. \A v : AtVenue(B, v) \in SUBSET B /\ AtVenue(Z, v) \in SUBSET Z /\ AtVenue(U, v) \in SUBSET U
    BY DEF AtVenue
  <2>3. IsFiniteSet(U)
    BY <1>2, <2>1
  <2> QED BY <1>2, <2>1, <2>2, <2>3
<1>8. U \in SUBSET C
  <2>1. ASSUME NEW p \in U
        PROVE  p \in C
    <3>1. p \in H \X Traded /\ p[1] \in H /\ p[2] \in Filled(p[1]) /\ p[2] \notin Resolved(p[1])
      BY <2>1 DEF BoughtBy, PaidBy
    <3>2. ~Scored(p[1])
      BY <3>1, LegSets DEF Scored
    <3>3. p[1] \in OpenTickets
      BY <3>1, <3>2, HydratedSplits
    <3>4. p \in OpenTickets \X Traded
      BY <3>1, <3>3
    <3> QED BY <3>1, <3>4 DEF BoughtBy
  <2> QED BY <2>1
<1>9. /\ CapitalDeployed = SumFunctionOnSet(CostAt, B)
      /\ OpenExposure = SumFunctionOnSet(CostAt, C)
  BY <1>1, CapitalByLeg DEF CapitalDeployed, OpenExposure
<1>10. OpenTickets = {} => RealizedNet = SumFunctionOnSet(GainAt, Z)
  <2> SUFFICES ASSUME OpenTickets = {} PROVE RealizedNet = SumFunctionOnSet(GainAt, Z)
    OBVIOUS
  <2>1. SettledTickets = H /\ \A t \in SettledTickets : Scored(t)
    BY HydratedSplits
  <2> QED BY <1>1, <2>1, ScoreByLeg DEF RealizedNet
<1> HIDE DEF H, B, Z, U, C
<1>11. Total([v \in Venues |-> Deployed(v)]) = SumFunctionOnSet(CostAt, B)
  <2> DEFINE g == [v \in Venues |-> Deployed(v)]
  <2>1. ASSUME NEW v \in Venues
        PROVE  g[v] = SumFunctionOnSet(CostAt, AtVenue(B, v))
    <3> DEFINE e == [p \in LegsTraded(v) |-> Cost(p[1], p[2])]
    <3>1. DOMAIN e = AtVenue(B, v) /\ \A p \in AtVenue(B, v) : CostAt[p] \in Int /\ e[p] = CostAt[p]
      BY <1>2, <1>4, <1>7
    <3>2. g[v] = Total(e)
      BY DEF Deployed
    <3> HIDE DEF e, g
    <3> QED BY <1>7, <3>1, <3>2, VenueQuery
  <2>2. DOMAIN g = Venues /\ \A p \in B : CostAt[p] \in Int
    BY <1>2
  <2> HIDE DEF g
  <2>3. Total(g) = SumFunctionOnSet(CostAt, B)
    BY <1>2, <2>1, <2>2, VenuesAddUp
  <2> QED BY <2>3 DEF g
<1>12. Total([v \in Venues |-> StillOpen(v)]) = SumFunctionOnSet(CostAt, U)
  <2> DEFINE g == [v \in Venues |-> StillOpen(v)]
  <2>1. U \in SUBSET B /\ U \in SUBSET Entries /\ \A p \in U : CostAt[p] \in Int
    BY <1>2 DEF U
  <2>2. ASSUME NEW v \in Venues
        PROVE  g[v] = SumFunctionOnSet(CostAt, AtVenue(U, v))
    <3> DEFINE e == [p \in LegsTraded(v) \ LegsPaid(v) |-> Cost(p[1], p[2])]
    <3>1. DOMAIN e = AtVenue(U, v) /\ \A p \in AtVenue(U, v) : CostAt[p] \in Int /\ e[p] = CostAt[p]
      BY <1>2, <1>6, <1>7, <2>1
    <3>2. g[v] = Total(e)
      BY DEF StillOpen
    <3> HIDE DEF e, g
    <3> QED BY <1>7, <3>1, <3>2, VenueQuery
  <2>3. DOMAIN g = Venues
    OBVIOUS
  <2> HIDE DEF g
  <2>4. Total(g) = SumFunctionOnSet(CostAt, U)
    BY <2>1, <2>2, <2>3, VenuesAddUp
  <2> QED BY <2>4 DEF g
<1>13. Total([v \in Venues |-> VenueNet(v)]) = SumFunctionOnSet(GainAt, Z)
  <2> DEFINE g == [v \in Venues |-> VenueNet(v)]
  <2>1. Z \in SUBSET Entries /\ \A p \in Z : GainAt[p] \in Int
    BY <1>2
  <2>2. ASSUME NEW v \in Venues
        PROVE  g[v] = SumFunctionOnSet(GainAt, AtVenue(Z, v))
    <3> DEFINE e == [p \in LegsPaid(v) |-> Gain(p[1], p[2])]
    <3>1. DOMAIN e = AtVenue(Z, v) /\ \A p \in AtVenue(Z, v) : GainAt[p] \in Int /\ e[p] = GainAt[p]
      BY <1>2, <1>5, <1>7, <2>1
    <3>2. g[v] = Total(e)
      BY DEF VenueNet
    <3> HIDE DEF e, g
    <3> QED BY <1>7, <3>1, <3>2, VenueQuery
  <2>3. DOMAIN g = Venues
    OBVIOUS
  <2> HIDE DEF g
  <2>4. Total(g) = SumFunctionOnSet(GainAt, Z)
    BY <2>1, <2>2, <2>3, VenuesAddUp
  <2> QED BY <2>4 DEF g
<1>14. SumFunctionOnSet(CostAt, U) <= SumFunctionOnSet(CostAt, C)
  BY <1>3, <1>8, SumPart
<1> QED BY <1>9, <1>10, <1>11, <1>12, <1>13, <1>14

\* The leagues' nets add up to the header's, each settled ticket being of a
\* league that was counted.
LEMMA LeaguesReconcile ==
  ASSUME PageCells, Came \cap SettledTickets = {}
  PROVE  Total([l \in Leagues |-> LeagueNet(l)]) = RealizedNet
<1> DEFINE S == SettledTickets
           f == [t \in S |-> Score(t)]
           key == [t \in S |-> League[t]]
           part == [l \in Leagues |-> {t \in S : key[t] = l}]
           g == [l \in Leagues |-> LeagueNet(l)]
<1>1. S \in SUBSET Hydrated /\ S \in SUBSET Tickets /\ IsFiniteSet(S) /\ IsFiniteSet(Leagues)
  BY QueriesFinite
<1>2. \A t \in S : f[t] \in Int
  BY <1>1, HydratedSplits, Figures
<1>3. \A t \in S : key[t] \in Leagues
  BY <1>1 DEF Came, Leagues
<1>4. \A l \in Leagues : part[l] = {t \in S : key[t] = l}
  OBVIOUS
<1>5. ASSUME NEW l \in Leagues
      PROVE  g[l] = SumFunctionOnSet(f, part[l])
  <2> DEFINE e == [t \in part[l] |-> Score(t)]
  <2>1. part[l] = {t \in SettledTickets : League[t] = l} /\ part[l] \in SUBSET S
    OBVIOUS
  <2>2. IsFiniteSet(part[l])
    BY <1>1, <2>1, FS_Subset
  <2>3. DOMAIN e = part[l] /\ \A t \in part[l] : f[t] \in Int /\ e[t] = f[t]
    BY <1>2, <2>1
  <2>4. g[l] = Total(e)
    BY <2>1 DEF LeagueNet
  <2> HIDE DEF e, f, g, part
  <2> QED BY <2>2, <2>3, <2>4, VenueQuery
<1>6. DOMAIN g = Leagues /\ DOMAIN f = S /\ RealizedNet = Total(f)
  BY DEF RealizedNet
<1> HIDE DEF S, f, key, part, g
<1>7. SumFunctionOnSet(g, Leagues) = SumFunctionOnSet(f, S)
  BY <1>1, <1>2, <1>3, <1>4, <1>5, SumGrouped
<1>8. Total(g) = RealizedNet
  BY <1>6, <1>7 DEF Total
<1> QED BY <1>8 DEF g

\* The settled tickets' gross, less fees, is what came back less what they cost.
LEMMA GrossReconciles ==
  ASSUME PageCells
  PROVE  GrossProfit - FeesPaid = CapitalReturned - (CapitalDeployed - OpenExposure)
<1> DEFINE S == SettledTickets
           O == OpenTickets
           H == Hydrated
           cap == [t \in H |-> Capital(t)]
           capO == [t \in O |-> Capital(t)]
           ret == [t \in S |-> Returned(t)]
           net == [t \in S |-> Score(t)]
           fee == [t \in S |-> Fees(t)]
<1>1. /\ H \in SUBSET Tickets /\ S \in SUBSET H /\ O \in SUBSET H
      /\ IsFiniteSet(H) /\ IsFiniteSet(S) /\ IsFiniteSet(O)
  BY QueriesFinite
<1>2. S \cap O = {} /\ S \cup O = H
  BY HydratedSplits
<1>3. /\ \A t \in H : cap[t] \in Int
      /\ \A t \in O : capO[t] = cap[t]
  BY <1>1, Figures
<1>4. \A t \in S : /\ net[t] \in Int /\ fee[t] \in Int /\ ret[t] \in Int /\ cap[t] \in Int
                   /\ ret[t] = net[t] + cap[t]
  <2> TAKE t \in S
  <2>1. t \in Tickets /\ t \in H /\ Scored(t)
    BY <1>1, HydratedSplits
  <2>2. /\ Capital(t) \in Int /\ Returned(t) \in Int /\ Fees(t) \in Int /\ Score(t) \in Int
        /\ Score(t) = Returned(t) - Capital(t)
    BY <2>1, Figures
  <2>3. net[t] = Score(t) /\ fee[t] = Fees(t) /\ ret[t] = Returned(t) /\ cap[t] = Capital(t)
    BY <2>1
  <2> HIDE DEF net, fee, ret, cap
  <2> QED BY <2>2, <2>3
<1>5. /\ DOMAIN cap = H /\ DOMAIN capO = O /\ DOMAIN ret = S /\ DOMAIN net = S /\ DOMAIN fee = S
      /\ CapitalDeployed = Total(cap) /\ OpenExposure = Total(capO) /\ CapitalReturned = Total(ret)
      /\ RealizedNet = Total(net) /\ FeesPaid = Total(fee)
  BY DEF CapitalDeployed, OpenExposure, CapitalReturned, RealizedNet, FeesPaid
<1> HIDE DEF S, O, H, cap, capO, ret, net, fee
<1>6. /\ CapitalDeployed = SumFunctionOnSet(cap, H) /\ CapitalReturned = SumFunctionOnSet(ret, S)
      /\ RealizedNet = SumFunctionOnSet(net, S) /\ RealizedNet \in Int
      /\ FeesPaid \in Int
  BY <1>1, <1>3, <1>4, <1>5, TotalIs
<1>7. OpenExposure = SumFunctionOnSet(cap, O)
  <2>1. \A t \in O : cap[t] \in Int /\ capO[t] = cap[t]
    BY <1>1, <1>3
  <2> QED BY <1>1, <1>5, <2>1, VenueQuery
<1>8. SumFunctionOnSet(ret, S) = SumFunctionOnSet(net, S) + SumFunctionOnSet(cap, S)
  BY <1>1, <1>4, SumPlus
<1>9. SumFunctionOnSet(cap, H) = SumFunctionOnSet(cap, S) + SumFunctionOnSet(cap, O)
  <2>1. SumFunctionOnSet(cap, S \cup O) = SumFunctionOnSet(cap, S) + SumFunctionOnSet(cap, O)
    BY <1>1, <1>2, <1>3, SumUnion
  <2> QED BY <1>2, <2>1
<1>10. /\ SumFunctionOnSet(cap, S) \in Int /\ SumFunctionOnSet(cap, O) \in Int
  <2>1. (\A t \in S : cap[t] \in Int) /\ (\A t \in O : cap[t] \in Int)
    BY <1>1, <1>3
  <2> QED BY <1>1, <2>1, SumSplit
<1> QED BY <1>6, <1>7, <1>8, <1>9, <1>10 DEF GrossProfit

\* The curve's last point is the one of the matched ticket that comes last,
\* and has added up all.
LEMMA PrecedesOrders ==
  /\ \A t \in Tickets : ~Precedes(t, t)
  /\ \A t, u \in Tickets : Precedes(t, u) => ~Precedes(u, t)
  /\ \A t, u \in Tickets : t # u => Precedes(t, u) \/ Precedes(u, t)
  /\ \A t, u, w \in Tickets : Precedes(t, u) /\ Precedes(u, w) => Precedes(t, w)
<1>1. \A t \in Tickets : SubmittedAt[t] \in Nat /\ IdRank[t] \in Nat
  BY ReportsAssumption
<1>2. \A t, u \in Tickets : IdRank[t] = IdRank[u] => t = u
  BY ReportsAssumption
<1> QED BY <1>1, <1>2 DEF Precedes

LEMMA LastExists ==
  ASSUME NEW T \in SUBSET Tickets, T # {}
  PROVE  \E t \in T : \A u \in T \ {t} : Precedes(u, t)
<1> DEFINE P == {U \in SUBSET T : U = {} \/ \E t \in U : \A u \in U \ {t} : Precedes(u, t)}
<1>1. {} \in P
  OBVIOUS
<1>2. ASSUME NEW U \in SUBSET T, NEW x \in T, U \in P, x \notin U
      PROVE  U \cup {x} \in P
  <2>1. CASE U = {}
    <3>1. \A u \in U \cup {x} : u = x
      BY <2>1
    <3> QED BY <3>1
  <2>2. CASE U # {}
    <3>1. PICK l \in U : \A u \in U \ {l} : Precedes(u, l)
      BY <1>2, <2>2
    <3>2. \A u \in U \cup {x} : u \in Tickets
      OBVIOUS
    <3>3. \E t \in U \cup {x} : \A u \in (U \cup {x}) \ {t} : Precedes(u, t)
      <4>1. CASE Precedes(x, l)
        BY <3>1, <4>1
      <4>2. CASE Precedes(l, x)
        <5>1. \A u \in U : Precedes(u, x)
          BY <3>1, <3>2, <4>2, PrecedesOrders
        <5> QED BY <5>1
      <4> QED BY <4>1, <4>2, <1>2, <3>2, PrecedesOrders
    <3> QED BY <3>3
  <2> QED BY <2>1, <2>2
<1> HIDE DEF P
<1>3. IsFiniteSet(T)
  BY QueriesFinite
<1>4. T \in P
  BY <1>1, <1>2, <1>3, FiniteInduction
<1> QED BY <1>4 DEF P

LEMMA CurveEndsAtTotal ==
  ASSUME AccrualCurve # {}
  PROVE  \E p \in AccrualCurve : p[2] = Quantized(AccrualTotal) /\ \A r \in AccrualCurve : r[1] <= p[1]
<1> DEFINE M == MatchedTickets
           Older(t) == {u \in M : Precedes(u, t)}
<1>1. /\ M \in SUBSET Tickets /\ IsFiniteSet(M) /\ Cardinality(M) \in Nat
      /\ \A T \in SUBSET M : IsFiniteSet(T) /\ Cardinality(T) \in Nat
  BY QueriesFinite DEF MatchedTickets
<1>2. /\ Cardinality(M) >= 2
      /\ AccrualCurve = {<<IndexOf(t), Quantized(TotalAt(t))>> : t \in Plotted}
  BY <1>1 DEF AccrualCurve
<1>3. M # {}
  BY <1>2, FS_EmptySet
<1>4. PICK t \in M : \A u \in M \ {t} : Precedes(u, t)
  BY <1>1, <1>3, LastExists
<1>5. Older(t) = M \ {t}
  <2>1. ~Precedes(t, t)
    BY <1>1, PrecedesOrders
  <2> QED BY <1>4, <2>1
<1>6. \A u \in M : Older(u) \in SUBSET (M \ {u})
  BY <1>1, PrecedesOrders
<1>7. \A u \in M : Cardinality(M \ {u}) = Cardinality(M) - 1
  BY <1>1, FS_RemoveElement
<1>8. \A u \in M : IndexOf(u) = Cardinality(Older(u))
  BY DEF IndexOf
<1>9. IndexOf(t) = Cardinality(M) - 1
  BY <1>5, <1>7, <1>8
<1>10. ASSUME NEW u \in M
       PROVE  IndexOf(u) <= Cardinality(M) - 1
  <2>1. Older(u) \in SUBSET (M \ {u}) /\ IsFiniteSet(M \ {u})
    BY <1>1, <1>6
  <2>2. Cardinality(Older(u)) <= Cardinality(M \ {u})
    BY <2>1, FS_Subset
  <2> QED BY <1>7, <1>8, <2>2
<1>11. TotalAt(t) = AccrualTotal
  <2>1. {u \in MatchedTickets : u = t \/ Precedes(u, t)} = MatchedTickets
    BY <1>4
  <2> QED BY <2>1 DEF TotalAt, AccrualTotal
<1>12. t \in Plotted /\ Plotted \subseteq M
  BY <1>9 DEF Plotted
<1> DEFINE p == <<IndexOf(t), Quantized(TotalAt(t))>>
<1>13. p \in AccrualCurve
  BY <1>2, <1>12
<1>14. \A r \in AccrualCurve : r[1] <= p[1]
  <2> TAKE r \in AccrualCurve
  <2>1. PICK u \in Plotted : r = <<IndexOf(u), Quantized(TotalAt(u))>>
    BY <1>2
  <2> QED BY <1>9, <1>10, <1>12, <2>1
<1> QED BY <1>11, <1>13, <1>14

LEMMA FiguresReconcileAlways == PageCells => FiguresReconcile
<1> SUFFICES ASSUME PageCells PROVE FiguresReconcile
  OBVIOUS
<1>1. /\ Total([v \in Venues |-> Deployed(v)]) = CapitalDeployed
      /\ Total([v \in Venues |-> StillOpen(v)]) <= OpenExposure
      /\ OpenTickets = {} => Total([v \in Venues |-> VenueNet(v)]) = RealizedNet
  BY VenuesReconcile
<1>2. Came \cap SettledTickets = {} => Total([l \in Leagues |-> LeagueNet(l)]) = RealizedNet
  BY LeaguesReconcile
<1>3. GrossProfit - FeesPaid = CapitalReturned - (CapitalDeployed - OpenExposure)
  BY GrossReconciles
<1>4. AccrualCurve # {} =>
        \E p \in AccrualCurve : p[2] = Quantized(AccrualTotal) /\ \A r \in AccrualCurve : r[1] <= p[1]
  BY CurveEndsAtTotal
<1> QED BY <1>1, <1>2, <1>3, <1>4 DEF FiguresReconcile

-----------------------------------------------------------------------------
(* The audit: what the rows will say once what is under way has landed.     *)

\* The steps a task has left, and the rows of a ticket that are there, on
\* their way, or yet to be written.
Plan(k) == {todo[k][i] : i \in DOMAIN todo[k]}
FillComes(t, o) ==
  \/ store[FillRow(t, o)] # NoRow
  \/ FillRow(t, o) \in DOMAIN writing[t]
  \/ <<"fill", o>> \in Plan(t)
OrderComes(t, o) ==
  \/ store[OrderRow(t, o)] # NoRow
  \/ OrderRow(t, o) \in DOMAIN writing[t]
  \/ <<"order", o>> \in Plan(t)
SettlementComes(o) ==
  store[SettlementRow(o)] # NoRow \/ SettlementRow(o) \in DOMAIN writing["settle"]

NotBought(t) == \A o \in Traded : ~FillComes(t, o)
AllBought(t) ==
  /\ \A o \in Traded : FillComes(t, o) /\ OrderComes(t, o)
  /\ <<"submit">> \notin Plan(t) /\ <<"legs">> \notin Plan(t)
  /\ store[TicketRow(t)] \in {"pending", "filled"}
  /\ TicketRow(t) \notin DOMAIN writing[t]
  /\ StatusOf(t) \in DOMAIN writing[t] => writing[t][StatusOf(t)] = "filled"
Buyers == {t \in Tickets : AllBought(t)}

\* What a task's transaction may say of a row that mirrors no memory.
Entitled(k, r, x) ==
  /\ r[1] \in {"ticket", "status", "order", "fill"} => r[2] = k
  /\ r[1] = "order" => x # NoRow
  /\ r[1] = "fill" => x = FillOf(k, r[3])
  /\ r[1] = "settlement" => k = "settle" /\ x = ResolvedValue(r[2])
  /\ r[1] = "transfer" => k = "sweep" /\ x \in Int
EntitledWrite(k, w) == \A r \in DOMAIN w : Entitled(k, r, w[r])
RowsTrue ==
  /\ \A t \in Tickets, o \in Traded : store[FillRow(t, o)] \in {FillOf(t, o), NoRow}
  /\ \A o \in Traded : store[SettlementRow(o)] \in {ResolvedValue(o), NoRow}

\* A ticket bought both legs or none, and none while it is to be submitted.
TicketTells(t) ==
  /\ NotBought(t) \/ AllBought(t)
  /\ t \notin submitted \/ <<"submit">> \in Plan(t) => NotBought(t)
  /\ <<"submit">> \in Plan(t) =>
       \/ writing[t] = Holding(TicketRow(t), "pending")
       \/ writing[t] = NoWrite /\ store[TicketRow(t)] = "pending"

\* What a leg realized is what the contracts no longer held were paid, less
\* what they cost; before its settlement comes none was paid.
Costs(o) == [t \in Tickets |-> LegCost(t, o)]
Spent(o) == SumFunctionOnSet(Costs(o), Buyers)
LegTells(o) ==
  /\ position[o].realized = ResolvedValue(o) * (Cardinality(Buyers) - position[o].qty)
                              - (Spent(o) - position[o].cost)
  /\ position[o].qty = 0 => position[o].cost = 0
  /\ ~SettlementComes(o) => position[o].qty = Cardinality(Buyers)

\* A venue's cash is its seed with its transfers, landed or under way, and
\* what its leg realized, less what the contracts held cost.
Moved(v) ==
  OrZero(store[TransferRow(v)])
    + (IF TransferRow(v) \in DOMAIN writing["sweep"] THEN writing["sweep"][TransferRow(v)] ELSE 0)
CashTells ==
  /\ \A o \in Traded :
       cash[VenueOf[o]] = Seed + Moved(VenueOf[o]) + (position[o].realized - position[o].cost)
  /\ \A v \in Venues : OnVenue(v) = {} => cash[v] = Seed + Moved(v)

RowsTell ==
  /\ \A k \in Tasks : EntitledWrite(k, writing[k])
  /\ RowsTrue
  /\ \A t \in Tickets : TicketTells(t)
  /\ \A o \in Traded : LegTells(o)
  /\ CashTells
  /\ funded = Venues

\* A reset by itself empties the tables, and every venue is seeded or to be.
Blank ==
  /\ \A t \in Tickets, o \in Traded : store[FillRow(t, o)] = NoRow
  /\ \A o \in Traded : store[SettlementRow(o)] = NoRow
  /\ \A v \in Venues : store[TransferRow(v)] = NoRow
ResetTells ==
  /\ \A k \in Tasks \ {"reset"} : Idle(k)
  /\ position = [o \in Traded |-> NoPosition]
  /\ \/ writing["reset"] = Emptied
     \/ Blank /\ \A r \in DOMAIN writing["reset"] : r[1] = "balance"
  /\ \A v \in Venues : \/ v \in funded /\ cash[v] = Seed
                       \/ <<"seed", v>> \in Plan("reset")
  /\ todo["reset"] # <<>>
  /\ \A i \in DOMAIN todo["reset"] : todo["reset"][i] = <<"cleared">> <=> i = Len(todo["reset"])

\* While nothing was given up and nothing overlapped a reset.
AuditInv == clean => IF Idle("reset") THEN RowsTell ELSE ResetTells

LEMMA Begun ==
  ASSUME LedgerKinds, NEW k \in Tasks, NEW w, NEW rest, NEW fresh, Begin(k, w, rest, fresh)
  PROVE  /\ \A j \in Tasks : writing'[j] = IF j = k THEN w ELSE writing[j]
         /\ \A j \in Tasks : todo'[j] = IF j = k THEN rest ELSE todo[j]
BY DEF LedgerKinds, TaskKinds, Begin

\* The first step of a plan, and what is left after it.
LEMMA PlanParts ==
  ASSUME LedgerKinds, NEW k \in Tasks, todo[k] # <<>>
  PROVE  /\ Head(todo[k]) \in Plan(k)
         /\ \A x : x \in Plan(k) <=> \/ x = Head(todo[k])
                                     \/ \E i \in DOMAIN Tail(todo[k]) : x = Tail(todo[k])[i]
<1> DEFINE s == todo[k]
<1>1. s \in Seq(StepKinds(k)) /\ s # <<>>
  BY DEF LedgerKinds, TaskKinds
<1> HIDE DEF s
<1>2. /\ Len(s) \in Nat \ {0} /\ DOMAIN s = 1..Len(s) /\ Head(s) = s[1]
      /\ DOMAIN Tail(s) = 1..(Len(s) - 1) /\ \A i \in 1..(Len(s) - 1) : Tail(s)[i] = s[i + 1]
  BY <1>1
<1>3. \A x : (\E i \in DOMAIN s : x = s[i]) <=> \/ x = Head(s)
                                                \/ \E i \in DOMAIN Tail(s) : x = Tail(s)[i]
  <2> TAKE x
  <2>1. ASSUME NEW i \in DOMAIN s, i # 1
        PROVE  i - 1 \in DOMAIN Tail(s) /\ s[i] = Tail(s)[i - 1]
    BY <1>2, <2>1
  <2>2. ASSUME NEW i \in DOMAIN Tail(s)
        PROVE  i + 1 \in DOMAIN s /\ s[i + 1] = Tail(s)[i]
    BY <1>2, <2>2
  <2> QED BY <1>2, <2>1, <2>2
<1>4. 1 \in DOMAIN s
  BY <1>2
<1> QED BY <1>2, <1>3, <1>4 DEF s, Plan

\* A ticket whose transaction, plan and rows a step leaves alone.
SameTicket(t) ==
  /\ writing'[t] = writing[t] /\ todo'[t] = todo[t]
  /\ store'[TicketRow(t)] = store[TicketRow(t)]
  /\ \A o \in Traded : /\ store'[FillRow(t, o)] = store[FillRow(t, o)]
                       /\ store'[OrderRow(t, o)] = store[OrderRow(t, o)]
  /\ t \in submitted' <=> t \in submitted
LEMMA TicketKept ==
  ASSUME NEW t, SameTicket(t)
  PROVE  /\ NotBought(t)' <=> NotBought(t)
         /\ AllBought(t)' <=> AllBought(t)
         /\ TicketTells(t) => TicketTells(t)'
<1>1. Plan(t)' = Plan(t)
  BY DEF Plan, SameTicket
<1>2. \A o \in Traded : (FillComes(t, o)' <=> FillComes(t, o)) /\ (OrderComes(t, o)' <=> OrderComes(t, o))
  BY <1>1 DEF FillComes, OrderComes, SameTicket
<1>3. NotBought(t)' <=> NotBought(t)
  BY <1>2 DEF NotBought
<1>4. AllBought(t)' <=> AllBought(t)
  BY <1>1, <1>2 DEF AllBought, SameTicket
<1> QED BY <1>1, <1>3, <1>4 DEF TicketTells, SameTicket

LEMMA BuyersKept ==
  ASSUME \A t \in Tickets : AllBought(t)' <=> AllBought(t)
  PROVE  Buyers' = Buyers
BY DEF Buyers

\* A step that leaves the account alone keeps what the legs and the cash tell.
LEMMA AccountKept ==
  ASSUME RowsTell, UNCHANGED <<cash, funded, position>>,
         \A t \in Tickets : AllBought(t)' <=> AllBought(t),
         \A o \in Traded : SettlementComes(o) => SettlementComes(o)',
         \A v \in Venues : Moved(v)' = Moved(v)
  PROVE  /\ \A o \in Traded : LegTells(o)'
         /\ CashTells'
         /\ funded' = Venues
<1>1. Buyers' = Buyers
  BY BuyersKept
<1>2. ASSUME NEW o \in Traded
      PROVE  LegTells(o)'
  <2>1. LegTells(o) /\ (SettlementComes(o) => SettlementComes(o)')
    BY DEF RowsTell
  <2>2. Spent(o)' = Spent(o)
    BY <1>1 DEF Spent, Costs
  <2> QED BY <1>1, <2>1, <2>2 DEF LegTells
<1>3. CashTells'
  BY Legs DEF RowsTell, CashTells
<1> QED BY <1>2, <1>3 DEF RowsTell

\* A ticket begins a transaction of its own, and the account is left alone.
LEMMA TicketWrites ==
  ASSUME LedgerKinds, RowsTell, NEW t \in Tickets, NEW w, NEW rest, NEW fresh,
         Begin(t, w, rest, fresh), EntitledWrite(t, w),
         UNCHANGED <<cash, funded, position, store>>,
         \A u \in Tickets \ {t} : u \in submitted' <=> u \in submitted,
         AllBought(t)' <=> AllBought(t), TicketTells(t)'
  PROVE  RowsTell'
<1>1. /\ \A j \in Tasks : writing'[j] = IF j = t THEN w ELSE writing[j]
      /\ \A j \in Tasks : todo'[j] = IF j = t THEN rest ELSE todo[j]
      /\ t \in Tasks
  BY Begun, TaskNames
<1>2. \A u \in Tickets \ {t} : SameTicket(u)
  BY <1>1, TaskNames DEF SameTicket
<1>3. \A k \in Tasks : EntitledWrite(k, writing'[k])
  BY <1>1 DEF RowsTell
<1>4. \A u \in Tickets : TicketTells(u)' /\ (AllBought(u)' <=> AllBought(u))
  <2> TAKE u \in Tickets
  <2>1. CASE u = t
    BY <2>1
  <2>2. CASE u # t
    BY <1>2, <2>2, TicketKept DEF RowsTell
  <2> QED BY <2>1, <2>2
<1>5. writing'["settle"] = writing["settle"] /\ writing'["sweep"] = writing["sweep"]
  BY <1>1, TaskNames
<1>6. /\ \A o \in Traded : SettlementComes(o) => SettlementComes(o)'
      /\ \A v \in Venues : Moved(v)' = Moved(v)
  BY <1>5 DEF SettlementComes, Moved
<1>7. (\A o \in Traded : LegTells(o)') /\ CashTells' /\ funded' = Venues
  BY <1>4, <1>6, AccountKept
<1>8. RowsTrue'
  BY DEF RowsTell, RowsTrue
<1>9. \A k \in Tasks : EntitledWrite(k, writing[k])'
  BY <1>3 DEF EntitledWrite, Entitled
<1> QED BY <1>4, <1>7, <1>8, <1>9 DEF RowsTell

\* The values rows have, and that none is the lack of one.
LEMMA CellValues ==
  /\ \A t \in Tickets, o \in Traded : FillOf(t, o) # NoRow
  /\ \A o : ResolvedValue(o) # NoRow
  /\ "filled" # NoRow /\ "pending" # NoRow /\ "rejected" # NoRow
<1>1. \A t \in Tickets, o \in Traded : FillOf(t, o) \in FillValues
  <2> TAKE t \in Tickets, o \in Traded
  <2>1. AskOf[t][o] \in 0..Unit /\ o \in Outcomes
    BY Legs, LedgerAssumption
  <2> QED BY <2>1, CostTypes DEF FillOf, FillValues
<1>2. \A o : ResolvedValue(o) \in Int
  BY PayoutKind
<1> QED BY <1>1, <1>2, NamesAssumption, StatusAssumption DEF TicketStatuses

LEMMA Exclusive ==
  ASSUME NEW t
  PROVE  NotBought(t) => ~AllBought(t)
BY Legs DEF NotBought, AllBought

LEMMA OneEntitled ==
  ASSUME NEW k, NEW r, NEW x, Entitled(k, r, x)
  PROVE  EntitledWrite(k, Holding(r, x))
<1> DEFINE w == Holding(r, x)
<1>1. DOMAIN w = {r} /\ w[r] = x
  BY OneRow
<1> HIDE DEF w
<1>2. \A s \in DOMAIN w : Entitled(k, s, w[s])
  BY <1>1
<1> QED BY <1>2 DEF EntitledWrite, w

LEMMA BothEntitled ==
  ASSUME NEW k, NEW f, NEW g, EntitledWrite(k, f), EntitledWrite(k, g)
  PROVE  EntitledWrite(k, f ++ g)
<1> DEFINE h == f ++ g
<1>1. DOMAIN h = DOMAIN f \cup DOMAIN g
  BY MoreRows
<1>2. \A r \in DOMAIN f : h[r] = f[r]
  BY MoreRows
<1>3. \A r \in DOMAIN g \ DOMAIN f : h[r] = g[r]
  BY MoreRows
<1> HIDE DEF h
<1>4. \A r \in DOMAIN h : Entitled(k, r, h[r])
  BY <1>1, <1>2, <1>3 DEF EntitledWrite
<1> QED BY <1>4 DEF EntitledWrite, h

LEMMA NoneEntitled == \A k : EntitledWrite(k, NoWrite)
BY DEF EntitledWrite, NoWrite

\* A ticket is opened once.
LEMMA OpenedNew ==
  ASSUME NEW t \in Tickets, OpenTicket(t)
  PROVE  t \notin submitted /\ writing[t] = NoWrite /\ todo[t] = <<>>
<1>1. PICK i \in DOMAIN TicketSeq : t = TicketSeq[i] /\ submitted = {TicketSeq[j] : j \in 1..(i - 1)}
  BY DEF OpenTicket
<1>2. TicketSeq \in Seq(Tickets) /\ \A j, k \in DOMAIN TicketSeq : TicketSeq[j] = TicketSeq[k] => j = k
  BY LedgerAssumption
<1>3. DOMAIN TicketSeq = 1..Len(TicketSeq) /\ Len(TicketSeq) \in Nat
  BY <1>2
<1>4. \A j \in 1..(i - 1) : j \in DOMAIN TicketSeq /\ j # i
  BY <1>1, <1>3
<1> QED BY <1>1, <1>2, <1>4 DEF OpenTicket, Starts, Idle

LEMMA OpenTicketTells ==
  ASSUME LedgerKinds, RowsTell, NEW t \in Tickets, OpenTicket(t)
  PROVE  RowsTell'
<1>1. PICK status \in {"rejected", "missed", "pending"} :
        Begin(t, Holding(TicketRow(t), status), IF status = "pending" THEN <<<<"submit">>>> ELSE <<>>, TRUE)
  BY DEF OpenTicket
<1> DEFINE w == Holding(TicketRow(t), status)
           rest == IF status = "pending" THEN <<<<"submit">>>> ELSE <<>>
<1>2. writing'[t] = w /\ todo'[t] = rest
  <2>1. Begin(t, w, rest, TRUE)
    BY <1>1
  <2>2. t \in Tasks
    BY TaskNames
  <2> HIDE DEF w, rest
  <2> QED BY <2>1, <2>2, Begun
<1>3. DOMAIN w = {TicketRow(t)} /\ w[TicketRow(t)] = status
  BY OneRow
<1>4. EntitledWrite(t, w)
  <2>1. Entitled(t, TicketRow(t), status)
    BY RowNames DEF Entitled
  <2> QED BY <2>1, OneEntitled
<1>5. UNCHANGED <<cash, funded, position, store>> /\ submitted' = submitted \cup {t}
  BY DEF OpenTicket, memory
<1>6. NotBought(t)
  BY OpenedNew DEF RowsTell, TicketTells
<1>7. Plan(t)' \subseteq {<<"submit">>} /\ (<<"submit">> \in Plan(t)' => status = "pending")
  BY <1>2 DEF Plan
<1>8. NotBought(t)'
  <2>1. \A o \in Traded : FillRow(t, o) \notin DOMAIN w
    BY <1>3, RowNames
  <2> HIDE DEF w, rest
  <2>2. \A o : <<"fill", o>> \notin Plan(t)'
    BY <1>7
  <2> QED BY <1>2, <1>5, <1>6, <2>1, <2>2 DEF NotBought, FillComes
<1>9. AllBought(t)' <=> AllBought(t)
  <2>1. ~AllBought(t)
    BY <1>6, Exclusive
  <2>2. NotBought(t)' => ~AllBought(t)'
    BY Legs DEF NotBought, AllBought
  <2> QED BY <1>8, <2>1, <2>2
<1>10. TicketTells(t)'
  BY <1>2, <1>5, <1>7, <1>8 DEF TicketTells
<1> HIDE DEF w, rest
<1>11. Begin(t, w, rest, TRUE)
  BY <1>1 DEF w, rest
<1> QED BY <1>4, <1>5, <1>9, <1>10, <1>11, TicketWrites

\* What a plan says of the step a ticket is at.
LEMMA AtLastStep ==
  ASSUME LedgerInv, NEW t \in Tickets, NEW kind \in {"submit", "legs", "status"}, AtStep(t, kind)
  PROVE  /\ writing[t] = NoWrite
         /\ kind = "status" => Plan(t) = {<<"status", "filled">>}
         /\ kind = "submit" => Plan(t) = {<<"submit">>}
         /\ kind = "legs" => Plan(t) = {<<"legs">>}
         /\ Len(todo[t]) = 1
<1> DEFINE s == todo[t]
<1>1. s \in Seq(StepKinds(t)) /\ s # <<>> /\ Head(s)[1] = kind /\ writing[t] = NoWrite
  BY TaskNames DEF LedgerInv, LedgerKinds, TaskKinds, AtStep
<1>2. /\ \A i \in DOMAIN s : s[i][1] \in {"submit", "legs"} => Len(s) = 1
      /\ \A i \in DOMAIN s : s[i][1] = "status" => i = Len(s)
  BY DEF LedgerInv, ReadOnce, Planned
<1> HIDE DEF s
<1>3. 1 \in DOMAIN s /\ s[1] = Head(s) /\ DOMAIN s = 1..Len(s) /\ Len(s) \in Nat
  BY <1>1
<1>4. Len(s) = 1
  BY <1>1, <1>2, <1>3
<1>5. s[1] \in StepKinds(t)
  BY <1>1, <1>3
<1>6. /\ kind = "status" => s[1] = <<"status", "filled">>
      /\ kind = "submit" => s[1] = <<"submit">>
      /\ kind = "legs" => s[1] = <<"legs">>
  BY <1>1, <1>3, <1>5, TaskNames DEF LegKinds
<1>7. {s[i] : i \in DOMAIN s} = {s[1]}
  BY <1>3, <1>4
<1> QED BY <1>1, <1>4, <1>6, <1>7 DEF s, Plan

\* A ticket that bought nothing and whose plan and transaction name no fill.
LEMMA StillNotBought ==
  ASSUME NEW t \in Tickets, NotBought(t), store' = store,
         \A o \in Traded : FillRow(t, o) \notin DOMAIN writing'[t] /\ <<"fill", o>> \notin Plan(t)'
  PROVE  NotBought(t)' /\ (AllBought(t)' <=> AllBought(t))
<1>1. NotBought(t)'
  BY DEF NotBought, FillComes
<1>2. ~AllBought(t) /\ ~AllBought(t)'
  BY <1>1, Legs DEF NotBought, AllBought
<1> QED BY <1>1, <1>2

LEMMA RefuseLegsTells ==
  ASSUME LedgerInv, RowsTell, NEW t \in Tickets, RefuseLegs(t)
  PROVE  RowsTell'
<1> DEFINE w == Holding(StatusOf(t), "rejected")
           rest == <<<<"legs">>>>
<1>1. Begin(t, w, rest, TRUE) /\ AtStep(t, "submit")
  BY DEF RefuseLegs
<1>2. writing'[t] = w /\ todo'[t] = rest /\ LedgerKinds
  <2>1. t \in Tasks /\ LedgerKinds
    BY TaskNames DEF LedgerInv
  <2> HIDE DEF w, rest
  <2> QED BY <1>1, <2>1, Begun
<1>3. DOMAIN w = {StatusOf(t)}
  BY OneRow
<1>4. EntitledWrite(t, w)
  <2>1. Entitled(t, StatusOf(t), "rejected")
    BY RowNames DEF Entitled
  <2> QED BY <2>1, OneEntitled
<1>5. UNCHANGED <<cash, funded, position, store, submitted>>
  BY DEF RefuseLegs, memory
<1>6. NotBought(t) /\ t \in submitted
  <2>1. <<"submit">> \in Plan(t) /\ todo[t] # <<>>
    BY <1>1, AtLastStep DEF AtStep
  <2> QED BY <2>1 DEF RowsTell, TicketTells, LedgerInv, ReadOnce
<1>7. Plan(t)' = {<<"legs">>}
  BY <1>2 DEF Plan
<1>8. \A o \in Traded : FillRow(t, o) \notin DOMAIN writing'[t] /\ <<"fill", o>> \notin Plan(t)'
  BY <1>2, <1>3, <1>7, RowNames
<1>9. NotBought(t)' /\ (AllBought(t)' <=> AllBought(t))
  BY <1>5, <1>6, <1>8, StillNotBought
<1>10. TicketTells(t)'
  BY <1>5, <1>6, <1>7, <1>9 DEF TicketTells
<1> HIDE DEF w, rest
<1> QED BY <1>1, <1>2, <1>4, <1>5, <1>9, <1>10, TicketWrites

LEMMA WriteRejectedLegsTells ==
  ASSUME LedgerInv, RowsTell, NEW t \in Tickets, WriteRejectedLegs(t)
  PROVE  RowsTell'
<1> DEFINE w == [r \in {OrderRow(t, o) : o \in Traded} |-> "rejected"]
           rest == <<>>
<1>1. Begin(t, w, rest, TRUE) /\ AtStep(t, "legs")
  BY DEF WriteRejectedLegs
<1>2. writing'[t] = w /\ todo'[t] = rest /\ LedgerKinds
  <2>1. t \in Tasks /\ LedgerKinds
    BY TaskNames DEF LedgerInv
  <2> HIDE DEF w, rest
  <2> QED BY <1>1, <2>1, Begun
<1>3. EntitledWrite(t, w)
  <2>1. \A o \in Traded : Entitled(t, OrderRow(t, o), "rejected")
    BY RowNames, CellValues DEF Entitled, OrderRow
  <2> QED BY <2>1 DEF EntitledWrite
<1>4. UNCHANGED <<cash, funded, position, store, submitted>>
  BY DEF WriteRejectedLegs, memory
<1>5. NotBought(t) /\ t \in submitted
  <2>1. <<"legs">> \in Plan(t) /\ todo[t] # <<>>
    BY <1>1, AtLastStep DEF AtStep
  <2>2. ~AllBought(t)
    BY <2>1 DEF AllBought
  <2> QED BY <2>1, <2>2 DEF RowsTell, TicketTells, LedgerInv, ReadOnce
<1>6. Plan(t)' = {}
  BY <1>2 DEF Plan
<1>7. \A o \in Traded : FillRow(t, o) \notin DOMAIN w
  BY RowNames
<1>8. \A o \in Traded : FillRow(t, o) \notin DOMAIN writing'[t] /\ <<"fill", o>> \notin Plan(t)'
  BY <1>2, <1>6, <1>7
<1>9. NotBought(t)' /\ (AllBought(t)' <=> AllBought(t))
  BY <1>4, <1>5, <1>8, StillNotBought
<1>10. TicketTells(t)'
  BY <1>4, <1>5, <1>6, <1>9 DEF TicketTells
<1> HIDE DEF w, rest
<1> QED BY <1>1, <1>2, <1>3, <1>4, <1>9, <1>10, TicketWrites

LEMMA WriteStatusTells ==
  ASSUME LedgerInv, RowsTell, NEW t \in Tickets, WriteStatus(t)
  PROVE  RowsTell'
<1> DEFINE w == Holding(StatusOf(t), "filled")
           rest == <<>>
<1>1. Begin(t, w, rest, TRUE) /\ AtStep(t, "status")
  BY DEF WriteStatus
<1>2. writing'[t] = w /\ todo'[t] = rest /\ LedgerKinds
  <2>1. t \in Tasks /\ LedgerKinds
    BY TaskNames DEF LedgerInv
  <2> HIDE DEF w, rest
  <2> QED BY <1>1, <2>1, Begun
<1>3. DOMAIN w = {StatusOf(t)} /\ w[StatusOf(t)] = "filled"
  BY OneRow
<1>4. EntitledWrite(t, w)
  <2>1. Entitled(t, StatusOf(t), "filled")
    BY RowNames DEF Entitled
  <2> QED BY <2>1, OneEntitled
<1>5. UNCHANGED <<cash, funded, position, store, submitted>>
  BY DEF WriteStatus, memory
<1>6. Plan(t) = {<<"status", "filled">>} /\ writing[t] = NoWrite
  BY <1>1, AtLastStep
<1>7. Plan(t)' = {}
  BY <1>2 DEF Plan
<1>8. \A r : r \notin DOMAIN writing[t]
  BY <1>6 DEF NoWrite
<1>9. /\ \A o \in Traded : FillRow(t, o) \notin DOMAIN w /\ OrderRow(t, o) \notin DOMAIN w
      /\ TicketRow(t) \notin DOMAIN w
  BY <1>3, RowNames
<1> HIDE DEF w, rest
<1>10. \A o : <<"fill", o>> \notin Plan(t) /\ <<"order", o>> \notin Plan(t)
  BY <1>6
<1>11. \A o \in Traded : (FillComes(t, o)' <=> FillComes(t, o)) /\ (OrderComes(t, o)' <=> OrderComes(t, o))
  BY <1>2, <1>5, <1>7, <1>8, <1>9, <1>10 DEF FillComes, OrderComes
<1>12. NotBought(t)' <=> NotBought(t)
  BY <1>11 DEF NotBought
<1>13. AllBought(t)' <=> AllBought(t)
  BY <1>2, <1>3, <1>5, <1>6, <1>7, <1>8, <1>9, <1>11 DEF AllBought
<1>14. TicketTells(t)'
  BY <1>5, <1>7, <1>12, <1>13 DEF RowsTell, TicketTells
<1> QED BY <1>1, <1>2, <1>4, <1>5, <1>13, <1>14, TicketWrites

\* What one leg's write says, and of which row.
LEMMA WrittenTells ==
  ASSUME NEW t \in Tickets, NEW kind \in LegKinds, NEW o \in Traded
  PROVE  /\ EntitledWrite(t, Written(t, kind, o))
         /\ \A u \in Traded : FillRow(t, u) \in DOMAIN Written(t, kind, o) <=> kind = "fill" /\ u = o
         /\ \A u \in Traded : OrderRow(t, u) \in DOMAIN Written(t, kind, o) <=> kind = "order" /\ u = o
         /\ TicketRow(t) \notin DOMAIN Written(t, kind, o)
         /\ StatusOf(t) \notin DOMAIN Written(t, kind, o)
<1> DEFINE r == CASE kind = "order" -> OrderRow(t, o)
                  [] kind = "fill" -> FillRow(t, o)
                  [] kind = "balance" -> BalanceRow(VenueOf[o])
                  [] kind = "position" -> PositionRow(o)
           x == CASE kind = "order" -> "filled"
                  [] kind = "fill" -> FillOf(t, o)
                  [] kind = "balance" -> AccountOf(t).cash[VenueOf[o]]
                  [] kind = "position" -> AccountOf(t).position[o]
<1>1. Written(t, kind, o) = Holding(r, x)
  BY DEF Written, LegKinds
<1>2. r[1] = kind
  BY RowNames DEF LegKinds
<1>3. Entitled(t, r, x)
  <2>1. kind = "order" => r[2] = t /\ x = "filled"
    BY DEF OrderRow
  <2>2. kind = "fill" => r[2] = t /\ r[3] = o /\ x = FillOf(t, o)
    BY DEF FillRow
  <2> HIDE DEF r, x
  <2> QED BY <1>2, <2>1, <2>2, CellValues DEF Entitled, LegKinds
<1>4. /\ \A u \in Traded : FillRow(t, u) = r <=> kind = "fill" /\ u = o
      /\ \A u \in Traded : OrderRow(t, u) = r <=> kind = "order" /\ u = o
      /\ TicketRow(t) # r /\ StatusOf(t) # r
  <2>1. \A u \in Traded : FillRow(t, u) = r => kind = "fill"
    BY <1>2, RowNames DEF LegKinds
  <2>2. \A u \in Traded : OrderRow(t, u) = r => kind = "order"
    BY <1>2, RowNames DEF LegKinds
  <2>3. kind = "fill" => r = FillRow(t, o)
    OBVIOUS
  <2>4. kind = "order" => r = OrderRow(t, o)
    OBVIOUS
  <2>5. \A u : (FillRow(t, u) = FillRow(t, o) => u = o) /\ (OrderRow(t, u) = OrderRow(t, o) => u = o)
    BY DEF FillRow, OrderRow
  <2>6. TicketRow(t) # r /\ StatusOf(t) # r
    BY <1>2, RowNames DEF LegKinds
  <2> HIDE DEF r
  <2> QED BY <2>1, <2>2, <2>3, <2>4, <2>5, <2>6
<1> HIDE DEF r, x
<1>5. EntitledWrite(t, Holding(r, x))
  BY <1>3, OneEntitled
<1>6. DOMAIN Holding(r, x) = {r}
  BY OneRow
<1> DEFINE w == Written(t, kind, o)
<1>7. w = Holding(r, x)
  BY <1>1
<1> HIDE DEF w
<1>8. DOMAIN w = {r} /\ EntitledWrite(t, w)
  BY <1>5, <1>6, <1>7
<1>9. /\ \A u \in Traded : FillRow(t, u) \in DOMAIN w <=> kind = "fill" /\ u = o
      /\ \A u \in Traded : OrderRow(t, u) \in DOMAIN w <=> kind = "order" /\ u = o
      /\ TicketRow(t) \notin DOMAIN w /\ StatusOf(t) \notin DOMAIN w
  BY <1>4, <1>8
<1> QED BY <1>8, <1>9 DEF w

LEMMA EmitTells ==
  ASSUME LedgerInv, RowsTell, NEW t \in Tickets, Emit(t)
  PROVE  RowsTell'
<1>1. PICK kind \in LegKinds :
        AtStep(t, kind) /\ Begin(t, Written(t, kind, Head(todo[t])[2]), AfterEmit(t), stale[t] = NoRow)
  BY DEF Emit, LegKinds
<1> DEFINE o == Head(todo[t])[2]
           w == Written(t, kind, o)
<1>2. /\ t \in Tasks /\ LedgerKinds /\ o \in Traded /\ todo[t] # <<>> /\ writing[t] = NoWrite
      /\ Head(todo[t]) = <<kind, o>>
  <2>1. t \in Tasks /\ LedgerKinds /\ todo[t] # <<>> /\ writing[t] = NoWrite /\ Head(todo[t])[1] = kind
    BY <1>1, TaskNames DEF LedgerInv, AtStep
  <2>2. o \in Traded
    BY <1>1, <2>1, LegStep
  <2>3. Head(todo[t]) \in StepKinds(t)
    BY <2>1, PlanTail
  <2>4. Head(todo[t]) \in {<<x, u>> : x \in LegKinds, u \in Traded}
    BY <2>1, <2>3, TaskNames DEF LegKinds
  <2> QED BY <2>1, <2>2, <2>4
<1>3. writing'[t] = w /\ todo'[t] = Tail(todo[t])
  <2> HIDE DEF w, o
  <2>1. Begin(t, w, AfterEmit(t), stale[t] = NoRow)
    BY <1>1 DEF w, o
  <2> QED BY <1>2, <2>1, Begun DEF AfterEmit
<1>4. \A x : x \in Plan(t) <=> x = <<kind, o>> \/ x \in Plan(t)'
  <2> HIDE DEF w, o
  <2>1. Plan(t)' = {Tail(todo[t])[i] : i \in DOMAIN Tail(todo[t])}
    BY <1>3 DEF Plan
  <2>2. \A x : x \in Plan(t) <=> \/ x = Head(todo[t])
                                   \/ \E i \in DOMAIN Tail(todo[t]) : x = Tail(todo[t])[i]
    BY <1>2, PlanParts
  <2> QED BY <1>2, <2>1, <2>2
<1>5. /\ EntitledWrite(t, w)
      /\ \A u \in Traded : FillRow(t, u) \in DOMAIN w <=> kind = "fill" /\ u = o
      /\ \A u \in Traded : OrderRow(t, u) \in DOMAIN w <=> kind = "order" /\ u = o
      /\ TicketRow(t) \notin DOMAIN w /\ StatusOf(t) \notin DOMAIN w
  <2> HIDE DEF o
  <2>1. w = Written(t, kind, o)
    OBVIOUS
  <2> HIDE DEF w
  <2> QED BY <1>2, <2>1, WrittenTells
<1>6. UNCHANGED <<cash, funded, position, store, submitted>>
  BY DEF Emit, memory
<1>7. \A r : r \notin DOMAIN writing[t]
  BY <1>2 DEF NoWrite
<1> HIDE DEF w, o
<1>8. \A u \in Traded : FillComes(t, u)' <=> FillComes(t, u)
  BY <1>3, <1>4, <1>5, <1>6, <1>7 DEF FillComes
<1>9. \A u \in Traded : OrderComes(t, u)' <=> OrderComes(t, u)
  BY <1>3, <1>4, <1>5, <1>6, <1>7 DEF OrderComes
<1>10. NotBought(t)' <=> NotBought(t)
  BY <1>8 DEF NotBought
<1>11. AllBought(t) => AllBought(t)'
  BY <1>3, <1>4, <1>5, <1>6, <1>8, <1>9 DEF AllBought
<1>12. NotBought(t) \/ AllBought(t)
  BY DEF RowsTell, TicketTells
<1>13. NotBought(t)' => ~AllBought(t)'
  BY Legs DEF NotBought, AllBought
<1>14. <<"submit">> \notin Plan(t)'
  <2> SUFFICES ASSUME <<"submit">> \in Plan(t)' PROVE FALSE
    OBVIOUS
  <2>1. PICK i \in DOMAIN todo[t] : todo[t][i] = <<"submit">>
    BY <1>4 DEF Plan
  <2>2. Len(todo[t]) = 1
    BY <2>1 DEF LedgerInv, ReadOnce, Planned
  <2>3. todo[t] \in Seq(StepKinds(t))
    BY <1>2 DEF LedgerKinds, TaskKinds
  <2>4. Head(todo[t]) = <<"submit">>
    BY <2>1, <2>2, <2>3
  <2>5. kind = "submit"
    BY <1>2, <2>4
  <2> QED BY <2>5 DEF LegKinds
<1>15. TicketTells(t)'
  BY <1>6, <1>10, <1>11, <1>12, <1>14 DEF RowsTell, TicketTells
<1>16. AllBought(t)' <=> AllBought(t)
  BY <1>10, <1>11, <1>12, <1>13
<1>17. Begin(t, w, AfterEmit(t), stale[t] = NoRow)
  BY <1>1 DEF w, o
<1> QED BY <1>2, <1>5, <1>6, <1>15, <1>16, <1>17, TicketWrites

\* No venue lacks a balance while no reset is under way.
LEMMA EmitNeverRaises ==
  ASSUME LedgerInv, RowsTell, NEW t \in Tickets
  PROVE  ~EmitRaises(t)
<1> SUFFICES ASSUME EmitRaises(t) PROVE FALSE
  OBVIOUS
<1>1. Head(todo[t])[2] \in Traded
  BY LegStep DEF EmitRaises, LegKinds, LedgerInv
<1>2. VenueOf[Head(todo[t])[2]] \notin funded
  BY DEF EmitRaises, NoBalance
<1> QED BY <1>1, <1>2, Legs DEF RowsTell

\* What a row is after a transaction: its value when the transaction has it,
\* and for a ticket's row the status.
LEMMA LandedRows ==
  ASSUME NEW w
  PROVE  /\ \A r \in Rows : r[1] # "ticket" /\ r[1] # "transfer" =>
              LandedIn(w)[r] = IF r \in DOMAIN w THEN w[r] ELSE store[r]
         /\ \A v \in Venues :
              LandedIn(w)[TransferRow(v)] =
                IF TransferRow(v) \in DOMAIN w
                THEN IF NoRow \notin {w[TransferRow(v)], store[TransferRow(v)]}
                     THEN store[TransferRow(v)] + w[TransferRow(v)] ELSE w[TransferRow(v)]
                ELSE store[TransferRow(v)]
         /\ \A t \in Tickets :
              /\ TicketRow(t) \in DOMAIN w /\ StatusOf(t) \notin DOMAIN w =>
                   LandedIn(w)[TicketRow(t)] = w[TicketRow(t)]
              /\ TicketRow(t) \notin DOMAIN w =>
                   LandedIn(w)[TicketRow(t)] =
                     IF store[TicketRow(t)] # NoRow /\ StatusOf(t) \in DOMAIN w THEN w[StatusOf(t)]
                     ELSE store[TicketRow(t)]
<1>1. \A r \in Rows :
        LandedIn(w)[r] = CASE r \in DOMAIN w -> IF r[1] = "transfer" /\ NoRow \notin {w[r], store[r]}
                                                THEN store[r] + w[r] ELSE w[r]
                           [] r[1] = "ticket" /\ store[r] # NoRow /\ StatusOf(r[2]) \in DOMAIN w -> w[StatusOf(r[2])]
                           [] OTHER -> store[r]
  BY DEF LandedIn
<1>2. \A r \in Rows : r[1] # "ticket" /\ r[1] # "transfer" =>
        LandedIn(w)[r] = IF r \in DOMAIN w THEN w[r] ELSE store[r]
  BY <1>1
<1>3. ASSUME NEW v \in Venues
      PROVE  LandedIn(w)[TransferRow(v)] =
               IF TransferRow(v) \in DOMAIN w
               THEN IF NoRow \notin {w[TransferRow(v)], store[TransferRow(v)]}
                    THEN store[TransferRow(v)] + w[TransferRow(v)] ELSE w[TransferRow(v)]
               ELSE store[TransferRow(v)]
  <2>1. TransferRow(v) \in Rows /\ TransferRow(v)[1] = "transfer"
    BY RowKeys, RowNames
  <2> QED BY <1>1, <2>1
<1>4. ASSUME NEW t \in Tickets
      PROVE  /\ TicketRow(t) \in DOMAIN w /\ StatusOf(t) \notin DOMAIN w =>
                  LandedIn(w)[TicketRow(t)] = w[TicketRow(t)]
             /\ TicketRow(t) \notin DOMAIN w =>
                  LandedIn(w)[TicketRow(t)] =
                    IF store[TicketRow(t)] # NoRow /\ StatusOf(t) \in DOMAIN w THEN w[StatusOf(t)]
                    ELSE store[TicketRow(t)]
  <2> DEFINE r == TicketRow(t)
  <2>1. r \in Rows /\ r[1] = "ticket" /\ r[2] = t
    BY RowKeys, RowNames
  <2> HIDE DEF r
  <2>2. r[1] # "transfer"
    BY <2>1
  <2>3. r \in DOMAIN w /\ StatusOf(t) \notin DOMAIN w => LandedIn(w)[r] = w[r]
    BY <1>1, <2>1, <2>2
  <2>4. r \notin DOMAIN w =>
          LandedIn(w)[r] = IF store[r] # NoRow /\ StatusOf(t) \in DOMAIN w THEN w[StatusOf(t)] ELSE store[r]
    BY <1>1, <2>1, <2>2
  <2> QED BY <2>3, <2>4 DEF r
<1> QED BY <1>2, <1>3, <1>4

\* Whose transaction a row is in.
LEMMA EntitledRows ==
  ASSUME NEW k, NEW w, EntitledWrite(k, w)
  PROVE  /\ \A t \in Tickets : TicketRow(t) \in DOMAIN w \/ StatusOf(t) \in DOMAIN w => t = k
         /\ \A t \in Tickets, o \in Traded : OrderRow(t, o) \in DOMAIN w => t = k /\ w[OrderRow(t, o)] # NoRow
         /\ \A t \in Tickets, o \in Traded : FillRow(t, o) \in DOMAIN w => t = k /\ w[FillRow(t, o)] = FillOf(t, o)
         /\ \A o \in Traded : SettlementRow(o) \in DOMAIN w => k = "settle" /\ w[SettlementRow(o)] = ResolvedValue(o)
         /\ \A v \in Venues : TransferRow(v) \in DOMAIN w => k = "sweep" /\ w[TransferRow(v)] \in Int
<1>1. \A r \in DOMAIN w : Entitled(k, r, w[r])
  BY DEF EntitledWrite
<1>2. \A t \in Tickets : TicketRow(t) \in DOMAIN w \/ StatusOf(t) \in DOMAIN w => t = k
  BY <1>1, RowNames DEF Entitled
<1>3. ASSUME NEW t \in Tickets, NEW o \in Traded, OrderRow(t, o) \in DOMAIN w
      PROVE  t = k /\ w[OrderRow(t, o)] # NoRow
  <2>1. OrderRow(t, o)[1] = "order" /\ OrderRow(t, o)[2] = t
    BY DEF OrderRow
  <2> QED BY <1>1, <1>3, <2>1 DEF Entitled
<1>4. ASSUME NEW t \in Tickets, NEW o \in Traded, FillRow(t, o) \in DOMAIN w
      PROVE  t = k /\ w[FillRow(t, o)] = FillOf(t, o)
  <2>1. FillRow(t, o)[1] = "fill" /\ FillRow(t, o)[2] = t /\ FillRow(t, o)[3] = o
    BY DEF FillRow
  <2> QED BY <1>1, <1>4, <2>1 DEF Entitled
<1>5. ASSUME NEW o \in Traded, SettlementRow(o) \in DOMAIN w
      PROVE  k = "settle" /\ w[SettlementRow(o)] = ResolvedValue(o)
  <2>1. SettlementRow(o)[1] = "settlement" /\ SettlementRow(o)[2] = o
    BY DEF SettlementRow
  <2> QED BY <1>1, <1>5, <2>1 DEF Entitled
<1>6. \A v \in Venues : TransferRow(v) \in DOMAIN w => k = "sweep" /\ w[TransferRow(v)] \in Int
  BY <1>1, RowNames DEF Entitled
<1> QED BY <1>2, <1>3, <1>4, <1>5, <1>6

\* A transaction that lands moves its rows from what is on its way to what is
\* there, and changes nothing of what the rows will say.
LEMMA LandsTells ==
  ASSUME LedgerInv, RowsTell, NEW k \in Tasks, Lands(k)
  PROVE  RowsTell'
<1> DEFINE w == writing[k]
<1>1. store' = LandedIn(w) /\ w # NoWrite /\ UNCHANGED <<cash, funded, position, submitted, todo>>
  BY DEF Lands, memory
<1>2. \A j \in Tasks : writing'[j] = IF j = k THEN NoWrite ELSE writing[j]
  BY DEF Lands, LedgerInv, LedgerKinds, TaskKinds
<1>3. EntitledWrite(k, w)
  BY DEF RowsTell
<1> HIDE DEF w
<1>4. /\ \A t \in Tickets : TicketRow(t) \in DOMAIN w \/ StatusOf(t) \in DOMAIN w => t = k
      /\ \A t \in Tickets, o \in Traded : OrderRow(t, o) \in DOMAIN w => t = k /\ w[OrderRow(t, o)] # NoRow
      /\ \A t \in Tickets, o \in Traded : FillRow(t, o) \in DOMAIN w => t = k /\ w[FillRow(t, o)] = FillOf(t, o)
      /\ \A o \in Traded : SettlementRow(o) \in DOMAIN w => k = "settle" /\ w[SettlementRow(o)] = ResolvedValue(o)
      /\ \A v \in Venues : TransferRow(v) \in DOMAIN w => k = "sweep" /\ w[TransferRow(v)] \in Int
  BY <1>3, EntitledRows
<1>5. \A t \in Tickets : Plan(t)' = Plan(t)
  BY <1>1 DEF Plan
<1>6. \A r : r \notin DOMAIN NoWrite
  BY DEF NoWrite
<1>7. ASSUME NEW t \in Tickets, NEW o \in Traded
      PROVE  /\ FillComes(t, o)' <=> FillComes(t, o)
             /\ OrderComes(t, o)' <=> OrderComes(t, o)
             /\ store[FillRow(t, o)] \in {FillOf(t, o), NoRow} => store'[FillRow(t, o)] \in {FillOf(t, o), NoRow}
  <2>1. /\ FillRow(t, o) \in Rows /\ FillRow(t, o)[1] = "fill" /\ t \in Tasks
        /\ OrderRow(t, o) \in Rows /\ OrderRow(t, o)[1] = "order"
    BY RowKeys, RowNames, TaskNames
  <2>2. /\ store'[FillRow(t, o)] = IF FillRow(t, o) \in DOMAIN w THEN w[FillRow(t, o)] ELSE store[FillRow(t, o)]
        /\ store'[OrderRow(t, o)] = IF OrderRow(t, o) \in DOMAIN w THEN w[OrderRow(t, o)] ELSE store[OrderRow(t, o)]
    BY <1>1, <2>1, LandedRows
  <2>3. writing'[t] = (IF t = k THEN NoWrite ELSE writing[t]) /\ (t = k => writing[t] = w)
    BY <1>2, <2>1 DEF w
  <2>4. FillOf(t, o) # NoRow
    BY CellValues
  <2>5. FillComes(t, o)' <=> FillComes(t, o)
    BY <1>4, <1>5, <1>6, <2>2, <2>3, <2>4 DEF FillComes
  <2>6. OrderComes(t, o)' <=> OrderComes(t, o)
    BY <1>4, <1>5, <1>6, <2>2, <2>3 DEF OrderComes
  <2> QED BY <1>4, <2>2, <2>5, <2>6
<1>8. ASSUME NEW o \in Traded
      PROVE  /\ SettlementComes(o)' <=> SettlementComes(o)
             /\ store[SettlementRow(o)] \in {ResolvedValue(o), NoRow}
                  => store'[SettlementRow(o)] \in {ResolvedValue(o), NoRow}
  <2>1. SettlementRow(o) \in Rows /\ SettlementRow(o)[1] = "settlement" /\ "settle" \in Tasks
    BY RowKeys, RowNames, TaskNames
  <2>2. store'[SettlementRow(o)] =
          IF SettlementRow(o) \in DOMAIN w THEN w[SettlementRow(o)] ELSE store[SettlementRow(o)]
    BY <1>1, <2>1, LandedRows
  <2>3. writing'["settle"] = (IF "settle" = k THEN NoWrite ELSE writing["settle"])
        /\ ("settle" = k => writing["settle"] = w)
    BY <1>2, <2>1 DEF w
  <2>4. ResolvedValue(o) # NoRow
    BY CellValues
  <2>5. SettlementComes(o)' <=> SettlementComes(o)
    BY <1>4, <1>6, <2>2, <2>3, <2>4 DEF SettlementComes
  <2> QED BY <1>4, <2>2, <2>5
<1>9. ASSUME NEW v \in Venues
      PROVE  Moved(v)' = Moved(v)
  <2> DEFINE r == TransferRow(v)
  <2>1. store'[r] = IF r \in DOMAIN w
                    THEN IF NoRow \notin {w[r], store[r]} THEN store[r] + w[r] ELSE w[r]
                    ELSE store[r]
    BY <1>1, LandedRows
  <2>2. writing'["sweep"] = (IF "sweep" = k THEN NoWrite ELSE writing["sweep"])
        /\ ("sweep" = k => writing["sweep"] = w)
    BY <1>2, TaskNames DEF w
  <2>3. r \in DOMAIN w => k = "sweep" /\ w[r] \in Int
    BY <1>4
  <2>4. store[r] \in Int \cup {NoRow} /\ NoRow \notin Int
    BY RowKeys, NamesAssumption DEF LedgerInv, LedgerKinds, StoreKinds, IsWrite
  <2>5. OrZero(store[r])' = IF store'[r] = NoRow THEN 0 ELSE store'[r]
    BY DEF OrZero
  <2> HIDE DEF r
  <2>6. CASE r \in DOMAIN w
    <3>1. k = "sweep" /\ w[r] \in Int /\ writing["sweep"] = w /\ writing'["sweep"] = NoWrite
      BY <2>2, <2>3, <2>6
    <3>2. r \notin DOMAIN writing'["sweep"]
      BY <1>6, <3>1
    <3>3. OrZero(store'[r]) = OrZero(store[r]) + w[r]
      BY <2>1, <2>4, <2>6, <3>1 DEF OrZero
    <3>4. Moved(v) = OrZero(store[r]) + w[r]
      BY <2>6, <3>1 DEF Moved, r
    <3>5. Moved(v)' = OrZero(store'[r]) + 0
      BY <3>2 DEF Moved, OrZero, r
    <3>6. OrZero(store[r]) \in Int
      BY <2>4 DEF OrZero
    <3> QED BY <3>1, <3>3, <3>4, <3>5, <3>6
  <2>7. CASE r \notin DOMAIN w
    <3>1. store'[r] = store[r]
      BY <2>1, <2>7
    <3>2. r \in DOMAIN writing'["sweep"] <=> r \in DOMAIN writing["sweep"]
      BY <1>6, <2>2, <2>7
    <3>3. r \in DOMAIN writing["sweep"] => writing'["sweep"] = writing["sweep"]
      BY <2>2, <2>7
    <3> QED BY <3>1, <3>2, <3>3 DEF Moved, OrZero, r
  <2> QED BY <2>6, <2>7
<1>10. ASSUME NEW t \in Tickets
       PROVE  TicketTells(t)' /\ (AllBought(t)' <=> AllBought(t))
  <2>1. t \in Tasks /\ TicketTells(t)
    BY TaskNames DEF RowsTell
  <2>2. writing'[t] = (IF t = k THEN NoWrite ELSE writing[t]) /\ (t = k => writing[t] = w)
    BY <1>2, <2>1 DEF w
  <2>3. /\ TicketRow(t) \in DOMAIN w /\ StatusOf(t) \notin DOMAIN w => store'[TicketRow(t)] = w[TicketRow(t)]
        /\ TicketRow(t) \notin DOMAIN w =>
             store'[TicketRow(t)] = IF store[TicketRow(t)] # NoRow /\ StatusOf(t) \in DOMAIN w
                                    THEN w[StatusOf(t)] ELSE store[TicketRow(t)]
    BY <1>1, LandedRows
  <2>4. t # k => store'[TicketRow(t)] = store[TicketRow(t)]
    BY <1>4, <2>3
  <2>5. NotBought(t)' <=> NotBought(t)
    BY <1>7 DEF NotBought
  <2>6. ASSUME AllBought(t)
        PROVE  AllBought(t)'
    <3>1. CASE t = k
      <4>1. /\ TicketRow(t) \notin DOMAIN w /\ store[TicketRow(t)] \in {"pending", "filled"}
            /\ StatusOf(t) \in DOMAIN w => w[StatusOf(t)] = "filled"
        BY <2>2, <2>6, <3>1 DEF AllBought
      <4>2. store'[TicketRow(t)] \in {"pending", "filled"}
        BY <2>3, <4>1
      <4> QED BY <1>5, <1>6, <1>7, <2>2, <2>6, <3>1, <4>2 DEF AllBought
    <3>2. CASE t # k
      BY <1>5, <1>7, <2>2, <2>4, <2>6, <3>2 DEF AllBought
    <3> QED BY <3>1, <3>2
  <2>7. AllBought(t)' => ~NotBought(t)'
    BY Legs DEF NotBought, AllBought
  <2>8. AllBought(t)' <=> AllBought(t)
    BY <2>1, <2>5, <2>6, <2>7 DEF TicketTells
  <2>9. <<"submit">> \in Plan(t) =>
          \/ writing'[t] = Holding(TicketRow(t), "pending")
          \/ writing'[t] = NoWrite /\ store'[TicketRow(t)] = "pending"
    <3> HAVE <<"submit">> \in Plan(t)
    <3>1. CASE t = k
      <4>1. w = Holding(TicketRow(t), "pending")
        BY <1>1, <2>1, <2>2, <3>1 DEF TicketTells
      <4>2. DOMAIN w = {TicketRow(t)} /\ w[TicketRow(t)] = "pending"
        BY <4>1, OneRow
      <4>3. StatusOf(t) \notin DOMAIN w
        BY <4>2, RowNames
      <4> QED BY <2>2, <2>3, <3>1, <4>2, <4>3
    <3>2. CASE t # k
      BY <2>1, <2>2, <2>4, <3>2 DEF TicketTells
    <3> QED BY <3>1, <3>2
  <2>10. TicketTells(t)'
    BY <1>1, <1>5, <2>1, <2>5, <2>8, <2>9 DEF TicketTells
  <2> QED BY <2>8, <2>10
<1>11. (\A o \in Traded : LegTells(o)') /\ CashTells' /\ funded' = Venues
  <2>1. /\ \A t \in Tickets : AllBought(t)' <=> AllBought(t)
        /\ \A o \in Traded : SettlementComes(o) => SettlementComes(o)'
        /\ \A v \in Venues : Moved(v)' = Moved(v)
    BY <1>8, <1>9, <1>10
  <2> QED BY <1>1, <2>1, AccountKept
<1>12. RowsTrue'
  <2>1. RowsTrue
    BY DEF RowsTell
  <2>2. /\ \A t \in Tickets, o \in Traded : store'[FillRow(t, o)] \in {FillOf(t, o), NoRow}
        /\ \A o \in Traded : store'[SettlementRow(o)] \in {ResolvedValue(o), NoRow}
    BY <1>7, <1>8, <2>1 DEF RowsTrue
  <2> QED BY <2>2 DEF RowsTrue
<1>13. \A j \in Tasks : EntitledWrite(j, writing[j])'
  <2>1. \A j \in Tasks : EntitledWrite(j, writing'[j])
    BY <1>2, NoneEntitled DEF RowsTell
  <2> QED BY <2>1 DEF EntitledWrite, Entitled
<1> QED BY <1>10, <1>11, <1>12, <1>13 DEF RowsTell

\* What the tickets that bought paid for a leg.
LEMMA SpentKinds ==
  ASSUME NEW o \in Traded
  PROVE  /\ Spent(o) \in Int /\ Cardinality(Buyers) \in Nat /\ IsFiniteSet(Buyers)
         /\ \A t \in Tickets : Costs(o)[t] \in Int /\ Costs(o)[t] = LegCost(t, o)
<1>1. IsFiniteSet(Tickets) /\ Buyers \subseteq Tickets
  BY FiniteLists DEF Buyers
<1>2. IsFiniteSet(Buyers) /\ Cardinality(Buyers) \in Nat
  BY <1>1, FS_Subset, FS_CardinalityType
<1>3. \A t \in Tickets : Costs(o)[t] \in Int /\ Costs(o)[t] = LegCost(t, o)
  BY LegCosts DEF Costs
<1>4. \A t \in Buyers : Costs(o)[t] \in Int
  BY <1>1, <1>3
<1>5. SumFunctionOnSet(Costs(o), Buyers) \in Int
  BY <1>2, <1>4, SumSplit
<1> QED BY <1>2, <1>3, <1>5 DEF Spent

\* One buyer more.
LEMMA OneMoreBuyer ==
  ASSUME NEW t \in Tickets, t \notin Buyers, Buyers' = Buyers \cup {t}, NEW o \in Traded
  PROVE  /\ Cardinality(Buyers') = Cardinality(Buyers) + 1
         /\ Spent(o)' = Spent(o) + LegCost(t, o)
<1>1. IsFiniteSet(Buyers) /\ IsFiniteSet(Tickets) /\ Buyers \in SUBSET Tickets
  BY SpentKinds, FiniteLists DEF Buyers
<1>2. Cardinality(Buyers \cup {t}) = Cardinality(Buyers) + 1
  BY <1>1, FS_AddElement
<1>3. \A u \in Tickets : Costs(o)[u] \in Int
  BY SpentKinds
<1>4. SumFunctionOnSet(Costs(o), Buyers \cup {t}) = Costs(o)[t] + SumFunctionOnSet(Costs(o), Buyers)
  BY <1>1, <1>3, SumAdd
<1>5. Spent(o)' = SumFunctionOnSet(Costs(o), Buyers')
  BY DEF Spent, Costs
<1>6. Spent(o)' = Costs(o)[t] + Spent(o)
  BY <1>4, <1>5 DEF Spent
<1>7. Costs(o)[t] = LegCost(t, o) /\ Costs(o)[t] \in Int /\ Spent(o) \in Int
  BY SpentKinds
<1> QED BY <1>2, <1>6, <1>7

\* A venue trades one leg at most.
LEMMA LegOfVenue ==
  ASSUME NEW o \in Traded
  PROVE  OnVenue(VenueOf[o]) = {o}
BY Legs DEF OnVenue

LEMMA FillSteps ==
  ASSUME LedgerInv, NEW t \in Tickets, Fill(t)
  PROVE  /\ writing'[t] = Holding(OrderRow(t, Pair[1]), "filled")
         /\ <<"fill", Pair[1]>> \in Plan(t)' /\ <<"fill", Pair[2]>> \in Plan(t)'
         /\ <<"order", Pair[2]>> \in Plan(t)'
         /\ <<"submit">> \notin Plan(t)' /\ <<"legs">> \notin Plan(t)'
<1> DEFINE w == Holding(OrderRow(t, Pair[1]), "filled")
<1>1. Begin(t, w, FillPlan, TRUE)
  BY DEF Fill, FillPlan
<1>2. t \in Tasks /\ LedgerKinds
  BY TaskNames DEF LedgerInv
<1> HIDE DEF w
<1>3. writing'[t] = w /\ todo'[t] = FillPlan
  BY <1>1, <1>2, Begun
<1>4. Plan(t)' = {FillPlan[i] : i \in DOMAIN FillPlan}
  BY <1>3 DEF Plan
<1>5. 1 \in 1..8 /\ 4 \in 1..8 /\ 5 \in 1..8
  OBVIOUS
<1>6. <<"fill", Pair[1]>> \in Plan(t)' /\ <<"fill", Pair[2]>> \in Plan(t)' /\ <<"order", Pair[2]>> \in Plan(t)'
  BY <1>4, <1>5, FillPlanSteps
<1>7. \A i \in 1..8 : Len(FillPlan[i]) = 2
  BY FillPlanSteps
<1>8. Len(<<"submit">>) = 1 /\ Len(<<"legs">>) = 1
  OBVIOUS
<1>9. <<"submit">> \notin Plan(t)' /\ <<"legs">> \notin Plan(t)'
  BY <1>4, <1>7, <1>8, FillPlanSteps
<1> QED BY <1>3, <1>6, <1>9 DEF w

\* What a venue was moved is a number.
LEMMA TransfersKind ==
  ASSUME LedgerKinds, \A k \in Tasks : EntitledWrite(k, writing[k]), NEW v \in Venues
  PROVE  Moved(v) \in Int
<1>1. store[TransferRow(v)] \in Int \cup {NoRow}
  BY RowKeys DEF LedgerKinds, StoreKinds, IsWrite
<1>2. OrZero(store[TransferRow(v)]) \in Int
  BY <1>1 DEF OrZero
<1>3. TransferRow(v) \in DOMAIN writing["sweep"] => writing["sweep"][TransferRow(v)] \in Int
  BY TaskNames, EntitledRows
<1> QED BY <1>2, <1>3 DEF Moved

LEMMA FillTells ==
  ASSUME LedgerInv, RowsTell, NEW t \in Tickets, Fill(t)
  PROVE  RowsTell'
<1>1. store' = store /\ submitted' = submitted /\ AtStep(t, "submit") /\ t \in Tasks /\ LedgerKinds
  <2>1. store' = store /\ submitted' = submitted /\ AtStep(t, "submit")
    BY DEF Fill
  <2> QED BY <2>1, TaskNames DEF LedgerInv
<1>2. writing[t] = NoWrite /\ Plan(t) = {<<"submit">>} /\ todo[t] # <<>> /\ t \in submitted
  BY <1>1, AtLastStep DEF AtStep, LedgerInv, ReadOnce
<1>3. NotBought(t) /\ store[TicketRow(t)] = "pending"
  <2>1. <<"submit">> \in Plan(t) /\ TicketTells(t)
    BY <1>2 DEF RowsTell
  <2>2. NoWrite # Holding(TicketRow(t), "pending")
    <3>1. TicketRow(t) \in DOMAIN Holding(TicketRow(t), "pending")
      BY OneRow
    <3>2. TicketRow(t) \notin DOMAIN NoWrite
      BY DEF NoWrite
    <3> QED BY <3>1, <3>2
  <2> QED BY <1>2, <2>1, <2>2 DEF TicketTells
<1> DEFINE w == Holding(OrderRow(t, Pair[1]), "filled")
<1>4. Begin(t, w, FillPlan, TRUE)
  BY DEF Fill, FillPlan
<1>5. /\ writing'[t] = w /\ DOMAIN w = {OrderRow(t, Pair[1])}
      /\ <<"fill", Pair[1]>> \in Plan(t)' /\ <<"fill", Pair[2]>> \in Plan(t)'
      /\ <<"order", Pair[2]>> \in Plan(t)'
      /\ <<"submit">> \notin Plan(t)' /\ <<"legs">> \notin Plan(t)'
  BY FillSteps, OneRow
<1>6. EntitledWrite(t, w)
  <2>1. Entitled(t, OrderRow(t, Pair[1]), "filled")
    BY CellValues DEF Entitled, OrderRow
  <2> QED BY <2>1, OneEntitled
<1>7. \A j \in Tasks \ {t} : writing'[j] = writing[j] /\ todo'[j] = todo[j]
  <2> HIDE DEF w
  <2> QED BY <1>1, <1>4, Begun
<1> HIDE DEF w
<1>8. AllBought(t)'
  <2>1. \A o \in Traded : FillComes(t, o)'
    BY <1>5, Legs DEF FillComes
  <2>2. \A o \in Traded : OrderComes(t, o)'
    BY <1>5, Legs DEF OrderComes
  <2>3. TicketRow(t) \notin DOMAIN w /\ StatusOf(t) \notin DOMAIN w
    BY <1>5, RowNames
  <2> QED BY <1>1, <1>3, <1>5, <2>1, <2>2, <2>3 DEF AllBought
<1>9. \A u \in Tickets \ {t} : SameTicket(u)
  BY <1>1, <1>7, TaskNames DEF SameTicket
<1>10. \A u \in Tickets \ {t} : TicketTells(u)' /\ (AllBought(u)' <=> AllBought(u))
  BY <1>9, TicketKept DEF RowsTell
<1>11. TicketTells(t)'
  BY <1>1, <1>2, <1>5, <1>8 DEF TicketTells
<1>12. t \notin Buyers /\ Buyers' = Buyers \cup {t}
  BY <1>3, <1>8, <1>10, Exclusive DEF Buyers
<1>13. writing'["settle"] = writing["settle"] /\ writing'["sweep"] = writing["sweep"]
  BY <1>7, TaskNames
<1>14. /\ \A o \in Traded : SettlementComes(o)' <=> SettlementComes(o)
       /\ \A v \in Venues : Moved(v)' = Moved(v)
  BY <1>1, <1>13 DEF SettlementComes, Moved
<1>15. ASSUME NEW o \in Traded
       PROVE  /\ position[o].qty \in Nat /\ position[o].cost \in Int /\ position[o].realized \in Int
              /\ position'[o].qty = position[o].qty + 1
              /\ position'[o].cost = position[o].cost + LegCost(t, o)
              /\ position'[o].realized = position[o].realized
              /\ LegCost(t, o) \in Int
  <2>1. position[o] \in PositionValues
    BY <1>1 DEF LedgerKinds, MemoryKinds
  <2>2. position'[o] = [position[o] EXCEPT !.qty = @ + 1, !.cost = @ + LegCost(t, o)]
    BY DEF Fill
  <2>3. LegCost(t, o) \in Nat
    BY LegCosts
  <2> DEFINE p == position[o]
             c == LegCost(t, o)
  <2> HIDE DEF p, c
  <2>4. \A q \in PositionValues : LET n == [q EXCEPT !.qty = @ + 1, !.cost = @ + c]
                                  IN n.qty = q.qty + 1 /\ n.cost = q.cost + c /\ n.realized = q.realized
    BY DEF PositionValues
  <2>5. p \in PositionValues /\ position'[o] = [p EXCEPT !.qty = @ + 1, !.cost = @ + c]
    BY <2>1, <2>2 DEF p, c
  <2>6. position'[o].qty = p.qty + 1 /\ position'[o].cost = p.cost + c /\ position'[o].realized = p.realized
    BY <2>4, <2>5
  <2> QED BY <2>1, <2>3, <2>6 DEF PositionValues, p, c
<1>16. ASSUME NEW o \in Traded
       PROVE  LegTells(o)'
  <2> DEFINE n == Cardinality(Buyers)
             s == Spent(o)
             q == position[o].qty
             c == LegCost(t, o)
             R == ResolvedValue(o)
  <2>1. Cardinality(Buyers') = n + 1 /\ Spent(o)' = s + c /\ n \in Nat /\ s \in Int
    BY <1>12, OneMoreBuyer, SpentKinds
  <2>2. LegTells(o)
    BY DEF RowsTell
  <2>3. /\ q \in Nat /\ position[o].cost \in Int /\ c \in Int
        /\ position'[o].qty = q + 1 /\ position'[o].cost = position[o].cost + c
        /\ position'[o].realized = position[o].realized
    BY <1>15
  <2>4. position[o].realized = R * (n - q) - (s - position[o].cost)
    BY <2>2 DEF LegTells
  <2>5. ~SettlementComes(o)' => q = n
    BY <1>14, <2>2 DEF LegTells
  <2> HIDE DEF n, s, q, c
  <2>6. (n + 1) - (q + 1) = n - q /\ (s + c) - (position[o].cost + c) = s - position[o].cost /\ q + 1 # 0
    BY <2>1, <2>3
  <2>7. ResolvedValue(o)' = R
    BY DEF ResolvedValue
  <2> HIDE DEF R
  <2>8. position'[o].realized = R * ((n + 1) - (q + 1)) - ((s + c) - (position[o].cost + c))
    BY <2>3, <2>4, <2>6
  <2> QED BY <2>1, <2>3, <2>5, <2>6, <2>7, <2>8 DEF LegTells
<1>17. CashTells'
  <2>1. ASSUME NEW o \in Traded
        PROVE  cash'[VenueOf[o]] = Seed + Moved(VenueOf[o])' + (position'[o].realized - position'[o].cost)
    <3> DEFINE v == VenueOf[o]
    <3>1. v \in Venues /\ OnVenue(v) = {o}
      BY Legs, LegOfVenue
    <3>2. cash'[v] = cash[v] - LegCost(t, o)
      BY <3>1 DEF Fill
    <3>3. cash[v] = Seed + Moved(v) + (position[o].realized - position[o].cost)
      BY DEF RowsTell, CashTells
    <3>4. cash[v] \in Int /\ Seed \in Int
      BY <1>1, <3>1, LedgerAssumption DEF LedgerKinds, MemoryKinds
    <3>5. Moved(v)' = Moved(v)
      BY <1>14, <3>1
    <3>6. Moved(v) \in Int
      BY <1>1, <3>1, TransfersKind DEF RowsTell
    <3> HIDE DEF v
    <3> QED BY <1>15, <3>2, <3>3, <3>4, <3>5, <3>6 DEF v
  <2>2. \A v \in Venues : OnVenue(v) = {} => cash'[v] = Seed + Moved(v)'
    BY <1>14 DEF Fill, RowsTell, CashTells
  <2> QED BY <2>1, <2>2 DEF CashTells, OnVenue
<1>18. funded' = Venues
  BY Legs DEF Fill, RowsTell
<1>19. \A k \in Tasks : EntitledWrite(k, writing[k])'
  <2>1. \A k \in Tasks : EntitledWrite(k, writing'[k])
    BY <1>5, <1>6, <1>7 DEF RowsTell
  <2> QED BY <2>1 DEF EntitledWrite, Entitled
<1>20. RowsTrue'
  BY <1>1 DEF RowsTell, RowsTrue
<1> QED BY <1>10, <1>11, <1>16, <1>17, <1>18, <1>19, <1>20 DEF RowsTell

\* A task that is no ticket's begins a transaction: the tickets tell the same.
LEMMA OthersTell ==
  ASSUME LedgerKinds, RowsTell, NEW k \in Tasks \ Tickets, NEW w, NEW rest, NEW fresh,
         Begin(k, w, rest, fresh), EntitledWrite(k, w), store' = store, submitted' = submitted
  PROVE  /\ \A t \in Tickets : TicketTells(t)'
         /\ Buyers' = Buyers
         /\ \A j \in Tasks : EntitledWrite(j, writing[j])'
         /\ RowsTrue'
<1>1. \A j \in Tasks : writing'[j] = (IF j = k THEN w ELSE writing[j]) /\ todo'[j] = (IF j = k THEN rest ELSE todo[j])
  BY Begun
<1>2. \A t \in Tickets : SameTicket(t)
  BY <1>1, TaskNames DEF SameTicket
<1>3. \A t \in Tickets : TicketTells(t)' /\ (AllBought(t)' <=> AllBought(t))
  BY <1>2, TicketKept DEF RowsTell
<1>4. Buyers' = Buyers
  BY <1>3, BuyersKept
<1>5. \A j \in Tasks : EntitledWrite(j, writing'[j])
  BY <1>1 DEF RowsTell
<1>6. \A j \in Tasks : EntitledWrite(j, writing[j])'
  BY <1>5 DEF EntitledWrite, Entitled
<1>7. RowsTrue'
  BY DEF RowsTell, RowsTrue
<1> QED BY <1>3, <1>4, <1>6, <1>7

\* A leg whose position, settlement and buyers a step leaves alone.
LEMMA LegKept ==
  ASSUME NEW o \in Traded, LegTells(o), Buyers' = Buyers, position'[o] = position[o],
         SettlementComes(o) => SettlementComes(o)'
  PROVE  LegTells(o)'
<1>1. Spent(o)' = Spent(o)
  BY DEF Spent, Costs
<1>2. ResolvedValue(o)' = ResolvedValue(o)
  BY DEF ResolvedValue
<1> QED BY <1>1, <1>2 DEF LegTells

LEMMA SweepTells ==
  ASSUME LedgerInv, RowsTell, NEW from \in Venues, NEW to \in Venues, Sweep(from, to)
  PROVE  RowsTell'
<1> DEFINE a == (cash[from] - cash[to]) \div 2
           f == Holding(TransferRow(from), -a)
           g == Holding(TransferRow(to), a)
           w == f ++ g ++ SweptBalances(from, to)
<1>1. /\ cash' = [cash EXCEPT ![from] = @ - a, ![to] = @ + a] /\ a >= MinTransfer
      /\ Begin("sweep", w, <<>>, TRUE) /\ store' = store /\ submitted' = submitted /\ position' = position
      /\ funded' = funded \cup {from, to} /\ writing["sweep"] = NoWrite
  BY DEF Sweep, Starts, Idle
<1>2. cash \in [Venues -> Nat] /\ LedgerKinds /\ "sweep" \in Tasks \ Tickets
  BY TaskNames DEF LedgerInv, LedgerKinds, MemoryKinds
<1>3. a \in Nat /\ from # to
  BY <1>1, <1>2, SweepAmount
<1> DEFINE b == SweptBalances(from, to)
<1>4. /\ DOMAIN f = {TransferRow(from)} /\ f[TransferRow(from)] = -a
      /\ DOMAIN g = {TransferRow(to)} /\ g[TransferRow(to)] = a
  BY OneRow
<1>5. DOMAIN b = {BalanceRow(from), BalanceRow(to)}
  <2> DEFINE x == Holding(BalanceRow(from), cash'[from])
             y == Holding(BalanceRow(to), cash'[to])
  <2>1. DOMAIN x = {BalanceRow(from)} /\ DOMAIN y = {BalanceRow(to)} /\ b = x ++ y
    BY OneRow DEF SweptBalances
  <2> HIDE DEF x, y, b
  <2>2. DOMAIN b = DOMAIN x \cup DOMAIN y
    BY <2>1, MoreRows
  <2> QED BY <2>1, <2>2
<1> HIDE DEF a, f, g, b
<1>6. EntitledWrite("sweep", w)
  <2>1. Entitled("sweep", TransferRow(from), -a) /\ Entitled("sweep", TransferRow(to), a)
    BY <1>3, RowNames DEF Entitled
  <2>2. EntitledWrite("sweep", f) /\ EntitledWrite("sweep", g)
    BY <2>1, OneEntitled DEF f, g
  <2>3. \A r \in DOMAIN b : Entitled("sweep", r, b[r])
    BY <1>5, RowNames DEF Entitled
  <2>4. EntitledWrite("sweep", b)
    BY <2>3 DEF EntitledWrite
  <2>5. EntitledWrite("sweep", f ++ g)
    BY <2>2, BothEntitled
  <2>6. EntitledWrite("sweep", f ++ g ++ b)
    BY <2>4, <2>5, BothEntitled
  <2> QED BY <2>6 DEF b
<1>7. /\ \A v \in Venues : TransferRow(v) \in DOMAIN w <=> v \in {from, to}
      /\ w[TransferRow(from)] = -a /\ w[TransferRow(to)] = a
  <2> DEFINE h == f ++ g
  <2>1. DOMAIN h = DOMAIN f \cup DOMAIN g
    BY MoreRows
  <2>2. \A r \in DOMAIN f : h[r] = f[r]
    BY MoreRows
  <2>3. \A r \in DOMAIN g \ DOMAIN f : h[r] = g[r]
    BY MoreRows
  <2>4. TransferRow(from) # TransferRow(to) /\ \A v, u : TransferRow(v) = TransferRow(u) => v = u
    BY <1>3 DEF TransferRow
  <2>5. w = h ++ b
    BY DEF b
  <2> HIDE DEF h, w
  <2>6. DOMAIN w = DOMAIN h \cup DOMAIN b /\ \A r \in DOMAIN h : w[r] = h[r]
    BY <2>5, MoreRows
  <2>7. \A v : TransferRow(v) \notin DOMAIN b
    BY <1>5, RowNames
  <2>8. DOMAIN h = {TransferRow(from), TransferRow(to)} /\ h[TransferRow(from)] = -a /\ h[TransferRow(to)] = a
    BY <1>4, <2>1, <2>2, <2>3, <2>4
  <2> QED BY <2>4, <2>6, <2>7, <2>8
<1> HIDE DEF w
<1>8. \A j \in Tasks : writing'[j] = IF j = "sweep" THEN w ELSE writing[j]
  BY <1>1, <1>2, Begun
<1>9. /\ \A t \in Tickets : TicketTells(t)'
      /\ Buyers' = Buyers
      /\ \A j \in Tasks : EntitledWrite(j, writing[j])'
      /\ RowsTrue'
  BY <1>1, <1>2, <1>6, OthersTell
<1>10. ASSUME NEW o \in Traded
       PROVE  LegTells(o)'
  <2>1. SettlementComes(o)' <=> SettlementComes(o)
    BY <1>1, <1>8, TaskNames DEF SettlementComes
  <2> QED BY <1>1, <1>9, <2>1, LegKept DEF RowsTell
<1>11. ASSUME NEW v \in Venues
       PROVE  /\ cash[v] \in Int /\ Moved(v) \in Int
              /\ \E d \in Int : cash'[v] = cash[v] + d /\ Moved(v)' = Moved(v) + d
  <2>1. OrZero(store[TransferRow(v)]) \in Int
    <3>1. store[TransferRow(v)] \in Int \cup {NoRow}
      BY <1>2, RowKeys DEF LedgerKinds, StoreKinds, IsWrite
    <3> QED BY <3>1 DEF OrZero
  <2>2. Moved(v) = OrZero(store[TransferRow(v)])
    <3>1. TransferRow(v) \notin DOMAIN writing["sweep"]
      BY <1>1 DEF NoWrite
    <3> QED BY <2>1, <3>1 DEF Moved
  <2>3. OrZero(store'[TransferRow(v)]) = OrZero(store[TransferRow(v)]) /\ writing'["sweep"] = w
    BY <1>1, <1>2, <1>8
  <2>4. Moved(v)' = OrZero(store[TransferRow(v)]) + (IF TransferRow(v) \in DOMAIN w THEN w[TransferRow(v)] ELSE 0)
    BY <2>3 DEF Moved, OrZero
  <2>5. cash[v] \in Int
    BY <1>2
  <2>6. CASE v = from
    BY <1>1, <1>2, <1>3, <1>7, <2>1, <2>2, <2>4, <2>5, <2>6
  <2>7. CASE v = to
    BY <1>1, <1>2, <1>3, <1>7, <2>1, <2>2, <2>4, <2>5, <2>7
  <2>8. CASE v \notin {from, to}
    BY <1>1, <1>2, <1>7, <2>1, <2>2, <2>4, <2>5, <2>8
  <2> QED BY <2>1, <2>2, <2>5, <2>6, <2>7, <2>8
<1>12. CashTells'
  <2>1. CashTells /\ Seed \in Int
    BY LedgerAssumption DEF RowsTell
  <2>2. ASSUME NEW o \in Traded
        PROVE  cash'[VenueOf[o]] = Seed + Moved(VenueOf[o])' + (position'[o].realized - position'[o].cost)
    <3> DEFINE p == position[o].realized - position[o].cost
    <3>1. VenueOf[o] \in Venues /\ p \in Int
      BY <1>2, Legs DEF LedgerKinds, MemoryKinds, PositionValues
    <3>2. cash[VenueOf[o]] = Seed + Moved(VenueOf[o]) + p
      BY <2>1 DEF CashTells
    <3>3. position'[o].realized - position'[o].cost = p
      BY <1>1
    <3> HIDE DEF p
    <3> QED BY <1>11, <2>1, <3>1, <3>2, <3>3
  <2>3. \A v \in Venues : OnVenue(v) = {} => cash'[v] = Seed + Moved(v)'
    BY <1>11, <2>1 DEF CashTells
  <2> QED BY <2>2, <2>3 DEF CashTells, OnVenue
<1>13. funded' = Venues
  BY <1>1 DEF RowsTell
<1> QED BY <1>9, <1>10, <1>12, <1>13 DEF RowsTell

\* What the settlement's transaction holds.
LEMMA SettledWrite ==
  ASSUME NEW o \in Traded, NEW held \in BOOLEAN
  PROVE  /\ EntitledWrite("settle", OnSettled(o, held))
         /\ SettlementRow(o) \in DOMAIN OnSettled(o, held)
<1> DEFINE f == Holding(SettlementRow(o), ResolvedValue(o))
           x == Holding(BalanceRow(VenueOf[o]), cash'[VenueOf[o]])
           y == Holding(PositionRow(o), position'[o])
           more == IF held THEN x ++ y ELSE NoWrite
           w == f ++ more
<1>1. EntitledWrite("settle", f) /\ DOMAIN f = {SettlementRow(o)}
  <2>1. Entitled("settle", SettlementRow(o), ResolvedValue(o))
    BY DEF Entitled, SettlementRow
  <2> QED BY <2>1, OneEntitled, OneRow
<1>2. EntitledWrite("settle", x) /\ EntitledWrite("settle", y)
  <2>1. Entitled("settle", BalanceRow(VenueOf[o]), cash'[VenueOf[o]])
    BY RowNames DEF Entitled
  <2>2. Entitled("settle", PositionRow(o), position'[o])
    BY RowNames DEF Entitled
  <2> QED BY <2>1, <2>2, OneEntitled
<1>3. OnSettled(o, held) = w
  BY DEF OnSettled
<1> HIDE DEF f, x, y
<1>4. EntitledWrite("settle", x ++ y)
  BY <1>2, BothEntitled
<1>5. EntitledWrite("settle", more)
  BY <1>4, NoneEntitled
<1> HIDE DEF more
<1>6. EntitledWrite("settle", f ++ more)
  BY <1>1, <1>5, BothEntitled
<1>7. DOMAIN w = DOMAIN f \cup DOMAIN more
  BY MoreRows
<1> QED BY <1>1, <1>3, <1>6, <1>7

\* What a closed position realized: its payout less its cost.
LEMMA ClosedRealized ==
  ASSUME NEW R \in Nat, NEW n \in Nat, NEW q \in Nat, NEW s \in Int, NEW c \in Int, NEW z \in Int,
         z = R * (n - q) - (s - c)
  PROVE  z + R * q - c = R * (n - 0) - (s - 0)
<1>1. R * (n - q) + R * q = R * n
  OBVIOUS
<1>2. R * (n - q) \in Int /\ R * q \in Int /\ R * n \in Int
  OBVIOUS
<1> DEFINE x == R * (n - q)
           y == R * q
           u == R * n
<1>3. x + y = u /\ x \in Int /\ y \in Int /\ u \in Int /\ n - 0 = n /\ z = x - (s - c)
  BY <1>1, <1>2
<1> HIDE DEF x, y, u
<1>4. z + y - c = u - (s - 0)
  BY <1>3
<1> QED BY <1>3, <1>4 DEF y, u

LEMMA SettleLegTells ==
  ASSUME LedgerInv, RowsTell, NEW o \in Traded, NEW rest, SettleLeg(o, rest), writing["settle"] = NoWrite
  PROVE  RowsTell'
<1> DEFINE held == position[o].qty # 0
           v == VenueOf[o]
           w == OnSettled(o, held)
           R == ResolvedValue(o)
           q == position[o].qty
           c == position[o].cost
           z == position[o].realized
<1>1. /\ position' = IF held THEN [position EXCEPT ![o] = Closed(o)] ELSE position
      /\ cash' = IF held THEN [cash EXCEPT ![v] = @ + R * q] ELSE cash
      /\ funded' = IF held THEN funded \cup {v} ELSE funded
      /\ Begin("settle", w, rest, TRUE) /\ store' = store /\ submitted' = submitted
  BY DEF SettleLeg
<1>2. /\ LedgerKinds /\ "settle" \in Tasks \ Tickets /\ v \in Venues
      /\ cash \in [Venues -> Nat] /\ position \in [Traded -> PositionValues]
  BY TaskNames, Legs DEF LedgerInv, LedgerKinds, MemoryKinds
<1>3. q \in Nat /\ c \in Nat /\ z \in Int /\ R \in Nat
  BY <1>2, PayoutKind DEF PositionValues
<1>4. EntitledWrite("settle", w) /\ SettlementRow(o) \in DOMAIN w
  BY SettledWrite
<1>5. held => Closed(o).qty = 0 /\ Closed(o).cost = 0 /\ Closed(o).realized = z + R * q - c
  BY DEF Closed
<1> DEFINE h == held
<1>6. h <=> q # 0
  OBVIOUS
<1>7. R * q \in Nat
  <2>1. \A x, y \in Nat : x * y \in Nat
    OBVIOUS
  <2> QED BY <1>3, <2>1
<1> HIDE DEF w, R, q, c, z
<1>8. /\ \A t \in Tickets : TicketTells(t)'
      /\ Buyers' = Buyers
      /\ \A j \in Tasks : EntitledWrite(j, writing[j])'
      /\ RowsTrue'
  BY <1>1, <1>2, <1>4, OthersTell
<1>9. \A j \in Tasks : writing'[j] = IF j = "settle" THEN w ELSE writing[j]
  BY <1>1, <1>2, Begun
<1>10. /\ SettlementComes(o)'
       /\ \A u \in Traded : SettlementComes(u) => SettlementComes(u)'
  <2>1. writing'["settle"] = w
    BY <1>2, <1>9
  <2>2. \A u : SettlementRow(u) \notin DOMAIN writing["settle"]
    BY DEF NoWrite
  <2> QED BY <1>1, <1>4, <2>1, <2>2 DEF SettlementComes
<1>11. \A u \in Venues : Moved(u)' = Moved(u)
  <2>1. writing'["sweep"] = writing["sweep"]
    BY <1>9, TaskNames
  <2> QED BY <1>1, <2>1 DEF Moved
<1>12. \A u \in Traded \ {o} : position'[u] = position[u]
  BY <1>1, <1>2
<1>13. q # 0 => position'[o].qty = 0 /\ position'[o].cost = 0 /\ position'[o].realized = z + R * q - c
  BY <1>1, <1>2, <1>5, <1>6
<1>14. LegTells(o)'
  <2> DEFINE n == Cardinality(Buyers)
             s == Spent(o)
  <2>1. n \in Nat /\ s \in Int /\ Spent(o)' = s /\ Cardinality(Buyers') = n
    BY <1>8, SpentKinds DEF Spent, Costs
  <2>2. z = R * (n - q) - (s - c) /\ (q = 0 => c = 0)
    BY DEF RowsTell, LegTells, z, R, q, c
  <2>3. ResolvedValue(o)' = R
    BY DEF ResolvedValue, R
  <2> HIDE DEF n, s
  <2>4. CASE q # 0
    <3>1. z + R * q - c = R * (n - 0) - (s - 0)
      <4>1. c \in Int
        BY <1>3
      <4> QED BY <1>3, <2>1, <2>2, <4>1, ClosedRealized
    <3> QED BY <1>10, <1>13, <2>1, <2>3, <2>4, <3>1 DEF LegTells
  <2>5. CASE q = 0
    <3>1. position'[o] = position[o]
      BY <1>1, <1>6, <2>5
    <3> QED BY <1>8, <1>10, <3>1, LegKept DEF RowsTell
  <2> QED BY <2>4, <2>5
<1>15. \A u \in Traded : LegTells(u)'
  <2> TAKE u \in Traded
  <2>1. CASE u = o
    BY <1>14, <2>1
  <2>2. CASE u # o
    BY <1>8, <1>10, <1>12, <2>2, LegKept DEF RowsTell
  <2> QED BY <2>1, <2>2
<1>16. CashTells'
  <2>1. CashTells /\ Seed \in Int
    BY LedgerAssumption DEF RowsTell
  <2>2. cash'[v] = Seed + Moved(v)' + (position'[o].realized - position'[o].cost)
    <3>1. cash[v] = Seed + Moved(v) + (z - c)
      BY <2>1 DEF CashTells, z, c
    <3>2. Moved(v) \in Int /\ Moved(v)' = Moved(v)
      BY <1>2, <1>11, TransfersKind DEF RowsTell
    <3>3. CASE q # 0
      <4>1. cash'[v] = cash[v] + R * q
        BY <1>1, <1>2, <1>6, <3>3
      <4> DEFINE y == R * q
      <4>2. y \in Int /\ cash'[v] = cash[v] + y /\ position'[o].realized = z + y - c /\ position'[o].cost = 0
        BY <1>7, <1>13, <3>3, <4>1
      <4> HIDE DEF y, v
      <4> QED BY <1>3, <2>1, <3>1, <3>2, <4>2
    <3>4. CASE q = 0
      <4>1. cash' = cash /\ position' = position
        BY <1>1, <1>6, <3>4
      <4> QED BY <3>1, <3>2, <4>1 DEF z, c
    <3> QED BY <3>3, <3>4
  <2>3. \A u \in Venues \ {v} : cash'[u] = cash[u]
    BY <1>1, <1>2
  <2>4. ASSUME NEW u \in Traded
        PROVE  cash'[VenueOf[u]] = Seed + Moved(VenueOf[u])' + (position'[u].realized - position'[u].cost)
    <3>1. CASE u = o
      BY <2>2, <3>1
    <3>2. CASE u # o
      <4>1. VenueOf[u] \in Venues \ {v}
        BY <3>2, Legs
      <4> QED BY <1>11, <1>12, <2>1, <2>3, <3>2, <4>1 DEF CashTells
    <3> QED BY <3>1, <3>2
  <2>5. ASSUME NEW u \in Venues, OnVenue(u) = {}
        PROVE  cash'[u] = Seed + Moved(u)'
    <3>1. u # v
      BY <2>5, LegOfVenue
    <3> QED BY <1>11, <2>1, <2>3, <2>5, <3>1 DEF CashTells
  <2> QED BY <2>4, <2>5 DEF CashTells, OnVenue
<1>17. funded' = Venues
  BY <1>1, <1>2 DEF RowsTell
<1> QED BY <1>8, <1>15, <1>16, <1>17 DEF RowsTell

\* A step that touches no row, no part of the account and no ticket's plan.
LEMMA StillTells ==
  ASSUME RowsTell, UNCHANGED <<cash, funded, position, submitted, store, writing>>,
         \A t \in Tickets : todo'[t] = todo[t]
  PROVE  RowsTell'
<1>1. \A t \in Tickets : SameTicket(t)
  BY DEF SameTicket
<1>2. \A t \in Tickets : TicketTells(t)' /\ (AllBought(t)' <=> AllBought(t))
  BY <1>1, TicketKept DEF RowsTell
<1>3. /\ \A o \in Traded : SettlementComes(o) => SettlementComes(o)'
      /\ \A v \in Venues : Moved(v)' = Moved(v)
  BY DEF SettlementComes, Moved
<1>4. (\A o \in Traded : LegTells(o)') /\ CashTells' /\ funded' = Venues
  BY <1>2, <1>3, AccountKept
<1>5. \A j \in Tasks : EntitledWrite(j, writing[j])'
  BY DEF RowsTell, EntitledWrite, Entitled
<1>6. RowsTrue'
  BY DEF RowsTell, RowsTrue
<1> QED BY <1>2, <1>4, <1>5, <1>6 DEF RowsTell

\* Nothing written but the seeds, and nothing under way.
BlankAccount ==
  /\ \A k \in Tasks : writing[k] = NoWrite
  /\ \A t \in Tickets : todo[t] = <<>>
  /\ Blank
  /\ position = [o \in Traded |-> NoPosition]
  /\ \A v \in Venues : cash[v] = Seed
  /\ funded = Venues
LEMMA BlankTells == BlankAccount => RowsTell
<1> SUFFICES ASSUME BlankAccount PROVE RowsTell
  OBVIOUS
<1>1. /\ \A k \in Tasks : writing[k] = NoWrite
      /\ \A t \in Tickets : todo[t] = <<>>
      /\ \A t \in Tickets, o \in Traded : store[FillRow(t, o)] = NoRow
      /\ \A o \in Traded : store[SettlementRow(o)] = NoRow
      /\ \A v \in Venues : store[TransferRow(v)] = NoRow
      /\ \A o \in Traded : position[o] = NoPosition
      /\ \A v \in Venues : cash[v] = Seed
      /\ funded = Venues
  BY DEF BlankAccount, Blank
<1>2. \A r : r \notin DOMAIN NoWrite
  BY DEF NoWrite
<1>3. ASSUME NEW t \in Tickets
      PROVE  NotBought(t) /\ Plan(t) = {}
  <2>1. Plan(t) = {} /\ writing[t] = NoWrite
    BY <1>1, TaskNames DEF Plan
  <2> QED BY <1>1, <1>2, <2>1 DEF NotBought, FillComes
<1>4. Buyers = {}
  BY <1>3, Exclusive DEF Buyers
<1>5. \A t \in Tickets : TicketTells(t)
  BY <1>3 DEF TicketTells
<1>6. ASSUME NEW o \in Traded
      PROVE  LegTells(o)
  <2>1. Cardinality(Buyers) = 0 /\ Spent(o) = 0
    BY <1>4, FS_EmptySet, SumEmpty DEF Spent
  <2>2. position[o].qty = 0 /\ position[o].cost = 0 /\ position[o].realized = 0
    BY <1>1 DEF NoPosition
  <2>3. ResolvedValue(o) \in Nat
    BY PayoutKind
  <2> DEFINE R == ResolvedValue(o)
  <2> HIDE DEF R
  <2>4. R * 0 = 0
    BY <2>3 DEF R
  <2>5. position[o].realized = R * (Cardinality(Buyers) - position[o].qty) - (Spent(o) - position[o].cost)
    BY <2>1, <2>2, <2>4
  <2> QED BY <2>1, <2>2, <2>5 DEF LegTells, R
<1>7. \A v \in Venues : Moved(v) = 0
  <2> TAKE v \in Venues
  <2>1. TransferRow(v) \notin DOMAIN writing["sweep"]
    BY <1>1, <1>2, TaskNames
  <2>2. OrZero(store[TransferRow(v)]) = 0
    BY <1>1 DEF OrZero
  <2> QED BY <2>1, <2>2 DEF Moved
<1>8. CashTells
  <2>1. Seed \in Int
    BY LedgerAssumption
  <2>2. \A o \in Traded : position[o].realized - position[o].cost = 0
    BY <1>1 DEF NoPosition
  <2>3. \A o \in Traded : VenueOf[o] \in Venues
    BY Legs
  <2>4. \A o \in Traded :
          cash[VenueOf[o]] = Seed + Moved(VenueOf[o]) + (position[o].realized - position[o].cost)
    <3> TAKE o \in Traded
    <3>1. cash[VenueOf[o]] = Seed /\ Moved(VenueOf[o]) = 0 /\ position[o].realized - position[o].cost = 0
      BY <1>1, <1>7, <2>2, <2>3
    <3> QED BY <2>1, <3>1
  <2> QED BY <1>1, <1>7, <2>1, <2>4 DEF CashTells
<1>9. \A k \in Tasks : EntitledWrite(k, writing[k])
  BY <1>1, NoneEntitled
<1>10. RowsTrue
  BY <1>1 DEF RowsTrue
<1> QED BY <1>1, <1>5, <1>6, <1>8, <1>9, <1>10 DEF RowsTell

LEMMA EmptiedKeys == DOMAIN Emptied = Rows /\ Emptied # NoWrite /\ \A r \in Rows : Emptied[r] = NoRow
<1>1. DOMAIN Emptied = Rows /\ \A r \in Rows : Emptied[r] = NoRow
  BY DEF Emptied
<1>2. PositionRow(Pair[1]) \in Rows
  BY RowKeys, Legs
<1>3. PositionRow(Pair[1]) \notin DOMAIN NoWrite
  BY DEF NoWrite
<1> QED BY <1>1, <1>2, <1>3

LEMMA OneAppended ==
  ASSUME NEW S, NEW f \in Seq(S), NEW x \in S
  PROVE  /\ Len(f \o <<x>>) = Len(f) + 1 /\ DOMAIN (f \o <<x>>) = 1..(Len(f) + 1)
         /\ \A i \in 1..Len(f) : (f \o <<x>>)[i] = f[i]
         /\ (f \o <<x>>)[Len(f) + 1] = x
OBVIOUS

\* A reset that begins by itself.
LEMMA ResetBegins ==
  ASSUME LedgerInv, Reset, clean'
  PROVE  ~Idle("reset")' /\ ResetTells'
<1> DEFINE rest == [i \in DOMAIN Brokers |-> <<"seed", Brokers[i]>>] \o <<<<"cleared">>>>
<1>1. /\ Begin("reset", Emptied, rest, TRUE) /\ position' = [o \in Traded |-> NoPosition]
      /\ \A j \in Tasks \ {"reset"} : Idle(j)
  BY DEF Reset, Overlapping
<1>2. LedgerKinds /\ "reset" \in Tasks
  BY TaskNames DEF LedgerInv
<1> DEFINE seeds == [i \in DOMAIN Brokers |-> <<"seed", Brokers[i]>>]
           n == Len(Brokers)
<1>3. Brokers \in Seq(Venues) /\ \A v \in Venues : \E i \in DOMAIN Brokers : Brokers[i] = v
  BY BrokersListVenues
<1>4. n \in Nat /\ DOMAIN Brokers = 1..n
  BY <1>3
<1>5. seeds \in Seq({<<"seed", v>> : v \in Venues}) /\ Len(seeds) = n
  BY <1>3, <1>4
<1>6. \A i \in 1..n : seeds[i] = <<"seed", Brokers[i]>>
  BY <1>4
<1>7. rest = seeds \o <<<<"cleared">>>>
  OBVIOUS
<1> HIDE DEF seeds, n, rest
<1>8. Len(rest) = n + 1 /\ DOMAIN rest = 1..(n + 1) /\ (\A i \in 1..n : rest[i] = seeds[i])
      /\ rest[n + 1] = <<"cleared">>
  <2> DEFINE S == {<<"seed", v>> : v \in Venues} \cup {<<"cleared">>}
             x == <<"cleared">>
  <2>1. seeds \in Seq(S) /\ x \in S
    BY <1>5
  <2>2. rest = seeds \o <<x>>
    BY <1>7
  <2> HIDE DEF S, x
  <2>3. /\ Len(seeds \o <<x>>) = Len(seeds) + 1 /\ DOMAIN (seeds \o <<x>>) = 1..(Len(seeds) + 1)
        /\ \A i \in 1..Len(seeds) : (seeds \o <<x>>)[i] = seeds[i]
        /\ (seeds \o <<x>>)[Len(seeds) + 1] = x
    BY <2>1, OneAppended
  <2>4. Len(rest) = n + 1 /\ DOMAIN rest = 1..(n + 1) /\ (\A i \in 1..n : rest[i] = seeds[i]) /\ rest[n + 1] = x
    BY <1>5, <2>2, <2>3
  <2> QED BY <2>4 DEF x
<1>9. writing'["reset"] = Emptied /\ todo'["reset"] = rest
      /\ \A j \in Tasks \ {"reset"} : writing'[j] = writing[j] /\ todo'[j] = todo[j]
  BY <1>1, <1>2, Begun
<1>10. rest # <<>>
  <2>1. n + 1 \in DOMAIN rest
    BY <1>4, <1>8
  <2>2. \A i : i \notin DOMAIN <<>>
    OBVIOUS
  <2> QED BY <2>1, <2>2
<1>11. \A i \in 1..n : rest[i] # <<"cleared">>
  <2> TAKE i \in 1..n
  <2>1. rest[i] = <<"seed", Brokers[i]>>
    BY <1>6, <1>8
  <2> QED BY <2>1
<1>12. \A i \in DOMAIN rest : rest[i] = <<"cleared">> <=> i = Len(rest)
  BY <1>4, <1>8, <1>11
<1>13. \A v \in Venues : <<"seed", v>> \in Plan("reset")'
  <2> TAKE v \in Venues
  <2>1. PICK i \in 1..n : Brokers[i] = v
    BY <1>3, <1>4
  <2>2. i \in DOMAIN rest /\ rest[i] = <<"seed", v>>
    BY <1>4, <1>6, <1>8, <2>1
  <2> QED BY <1>9, <2>2 DEF Plan
<1>14. \A j \in Tasks \ {"reset"} : Idle(j)'
  BY <1>1, <1>9 DEF Idle
<1>15. ~Idle("reset")'
  BY <1>9, <1>10 DEF Idle
<1> QED BY <1>1, <1>9, <1>10, <1>12, <1>13, <1>14, <1>15 DEF ResetTells

\* While a reset runs by itself no other task has anything to do.
LEMMA OnlyReset ==
  ASSUME ResetTells
  PROVE  /\ \A k \in Tasks \ {"reset"} : writing[k] = NoWrite /\ todo[k] = <<>>
         /\ \A k \in Tasks \ {"reset"} : \A kind : ~AtStep(k, kind)
<1>1. \A k \in Tasks \ {"reset"} : writing[k] = NoWrite /\ todo[k] = <<>>
  BY DEF ResetTells, Idle
<1> QED BY <1>1 DEF AtStep

LEMMA ResetLands ==
  ASSUME LedgerInv, ResetTells, Lands("reset")
  PROVE  ~Idle("reset")' /\ ResetTells'
<1> DEFINE w == writing["reset"]
<1>1. /\ store' = LandedIn(w) /\ UNCHANGED <<cash, funded, position, todo>>
      /\ \A j \in Tasks : writing'[j] = IF j = "reset" THEN NoWrite ELSE writing[j]
  BY TaskNames DEF Lands, memory, LedgerInv, LedgerKinds, TaskKinds
<1>2. "reset" \in Tasks
  BY TaskNames
<1>3. w = Emptied \/ (Blank /\ \A r \in DOMAIN w : r[1] = "balance")
  BY DEF ResetTells
<1> HIDE DEF w
<1>4. ASSUME NEW r \in Rows, r[1] # "ticket", r[1] # "balance", w = Emptied \/ store[r] = NoRow
      PROVE  store'[r] = NoRow
  <2>1. CASE w = Emptied
    <3>1. r \in DOMAIN w /\ w[r] = NoRow
      BY <2>1, EmptiedKeys
    <3>2. LandedIn(w)[r] = w[r]
      BY <1>4, <3>1 DEF LandedIn
    <3> QED BY <1>1, <3>1, <3>2
  <2>2. CASE w # Emptied
    <3>1. r \notin DOMAIN w /\ store[r] = NoRow
      BY <1>3, <1>4, <2>2
    <3>2. LandedIn(w)[r] = store[r]
      BY <1>4, <3>1 DEF LandedIn
    <3> QED BY <1>1, <3>1, <3>2
  <2> QED BY <2>1, <2>2
<1>5. Blank'
  <2>1. ASSUME NEW t \in Tickets, NEW o \in Traded
        PROVE  store'[FillRow(t, o)] = NoRow
    BY <1>3, <1>4, RowKeys, RowNames DEF Blank
  <2>2. ASSUME NEW o \in Traded
        PROVE  store'[SettlementRow(o)] = NoRow
    BY <1>3, <1>4, RowKeys, RowNames DEF Blank
  <2>3. ASSUME NEW v \in Venues
        PROVE  store'[TransferRow(v)] = NoRow
    BY <1>3, <1>4, RowKeys, RowNames DEF Blank
  <2> QED BY <2>1, <2>2, <2>3 DEF Blank
<1>6. writing'["reset"] = NoWrite /\ \A r : r \notin DOMAIN NoWrite
  BY <1>1, <1>2 DEF NoWrite
<1>7. \A j \in Tasks \ {"reset"} : Idle(j)'
  BY <1>1 DEF ResetTells, Idle
<1>8. ~Idle("reset")'
  BY <1>1 DEF ResetTells, Idle
<1>9. Plan("reset")' = Plan("reset")
  BY <1>1 DEF Plan
<1> QED BY <1>1, <1>5, <1>6, <1>7, <1>8, <1>9 DEF ResetTells

LEMMA ResetSeeds ==
  ASSUME LedgerInv, ResetTells, SeedVenue
  PROVE  ~Idle("reset")' /\ ResetTells'
<1> DEFINE s == todo["reset"]
           v == Head(todo["reset"])[2]
           w == Holding(BalanceRow(v), Seed)
<1>1. /\ AtStep("reset", "seed") /\ cash' = [cash EXCEPT ![v] = Seed] /\ funded' = funded \cup {v}
      /\ Begin("reset", w, Tail(s), TRUE) /\ store' = store /\ position' = position
  BY DEF SeedVenue
<1>2. LedgerKinds /\ "reset" \in Tasks /\ cash \in [Venues -> Nat]
  BY TaskNames DEF LedgerInv, LedgerKinds, MemoryKinds
<1>3. writing["reset"] = NoWrite /\ s # <<>> /\ Head(s)[1] = "seed"
  BY <1>1 DEF AtStep
<1>4. s \in Seq(StepKinds("reset"))
  BY <1>2 DEF LedgerKinds, TaskKinds
<1>5. Head(s) = <<"seed", v>> /\ v \in Venues
  <2>1. Head(s) \in StepKinds("reset")
    BY <1>2, <1>3, PlanTail
  <2>2. Head(s) \in {<<"seed", u>> : u \in Venues}
    BY <1>3, <2>1, TaskNames
  <2> QED BY <2>2
<1>6. DOMAIN w = {BalanceRow(v)}
  BY OneRow
<1>7. \A x : x \in Plan("reset") <=> x = Head(s) \/ \E i \in DOMAIN Tail(s) : x = Tail(s)[i]
  BY <1>2, <1>3, PlanParts
<1> HIDE DEF s, v, w
<1>8. /\ writing'["reset"] = w /\ todo'["reset"] = Tail(s)
      /\ \A j \in Tasks \ {"reset"} : writing'[j] = writing[j] /\ todo'[j] = todo[j]
  BY <1>1, <1>2, Begun
<1>9. Blank'
  <2>1. Blank
    BY <1>3, EmptiedKeys DEF ResetTells
  <2> QED BY <1>1, <2>1 DEF Blank
<1>10. \A r \in DOMAIN w : r[1] = "balance"
  BY <1>6, RowNames
<1>11. \A u \in Venues : (u \in funded' /\ cash'[u] = Seed) \/ <<"seed", u>> \in Plan("reset")'
  <2> TAKE u \in Venues
  <2>1. CASE u = v
    BY <1>1, <1>2, <1>5, <2>1
  <2>2. CASE u # v
    <3>1. (u \in funded /\ cash[u] = Seed) \/ <<"seed", u>> \in Plan("reset")
      BY DEF ResetTells
    <3>2. u \in funded /\ cash[u] = Seed => u \in funded' /\ cash'[u] = Seed
      BY <1>1, <1>2, <2>2
    <3>3. <<"seed", u>> # Head(s)
      BY <1>5, <2>2
    <3>4. Plan("reset")' = {Tail(s)[i] : i \in DOMAIN Tail(s)}
      BY <1>8 DEF Plan
    <3> QED BY <1>7, <3>1, <3>2, <3>3, <3>4
  <2> QED BY <2>1, <2>2
<1>12. Tail(s) # <<>> /\ \A i \in DOMAIN Tail(s) : Tail(s)[i] = <<"cleared">> <=> i = Len(Tail(s))
  <2>1. \A i \in DOMAIN s : s[i] = <<"cleared">> <=> i = Len(s)
    BY DEF ResetTells, s
  <2>2. /\ Len(s) \in Nat \ {0} /\ DOMAIN s = 1..Len(s) /\ Head(s) = s[1]
        /\ Len(Tail(s)) = Len(s) - 1 /\ DOMAIN Tail(s) = 1..(Len(s) - 1)
        /\ \A i \in 1..(Len(s) - 1) : Tail(s)[i] = s[i + 1]
    BY <1>3, <1>4
  <2>3. s[1] # <<"cleared">>
    BY <1>5, <2>2
  <2>4. Len(s) # 1
    BY <2>1, <2>2, <2>3
  <2>5. Tail(s) # <<>>
    <3>1. 1 \in DOMAIN Tail(s)
      BY <2>2, <2>4
    <3>2. 1 \notin DOMAIN <<>>
      OBVIOUS
    <3> QED BY <3>1, <3>2
  <2>6. \A i \in DOMAIN Tail(s) : Tail(s)[i] = <<"cleared">> <=> i = Len(Tail(s))
    <3> TAKE i \in DOMAIN Tail(s)
    <3>1. i + 1 \in DOMAIN s /\ Tail(s)[i] = s[i + 1] /\ (i + 1 = Len(s) <=> i = Len(Tail(s)))
      BY <2>2
    <3> QED BY <2>1, <3>1
  <2> QED BY <2>5, <2>6
<1>13. \A j \in Tasks \ {"reset"} : Idle(j)'
  BY <1>8 DEF ResetTells, Idle
<1>14. ~Idle("reset")'
  BY <1>8, <1>12 DEF Idle
<1> QED BY <1>1, <1>8, <1>9, <1>10, <1>11, <1>12, <1>13, <1>14 DEF ResetTells

\* The last step of a reset: every venue is seeded and nothing else is written.
LEMMA ResetEnds ==
  ASSUME LedgerInv, ResetTells, ClearSettled
  PROVE  Idle("reset")' /\ RowsTell'
<1> DEFINE s == todo["reset"]
<1>1. /\ AtStep("reset", "cleared") /\ todo' = [todo EXCEPT !["reset"] = <<>>]
      /\ UNCHANGED <<cash, funded, position, store, writing>>
  BY DEF ClearSettled
<1>2. LedgerKinds /\ "reset" \in Tasks /\ writing["reset"] = NoWrite /\ s # <<>> /\ Head(s)[1] = "cleared"
  BY <1>1, TaskNames DEF LedgerInv, AtStep
<1>3. s \in Seq(StepKinds("reset")) /\ Head(s) \in StepKinds("reset")
  BY <1>2, PlanTail DEF LedgerKinds, TaskKinds
<1>4. Head(s) = <<"cleared">>
  BY <1>2, <1>3, TaskNames
<1>5. \A i \in DOMAIN s : s[i] = <<"cleared">> <=> i = Len(s)
  BY DEF ResetTells
<1>6. Plan("reset") = {s[i] : i \in DOMAIN s}
  BY DEF Plan
<1> HIDE DEF s
<1>7. DOMAIN s = {1} /\ s[1] = <<"cleared">>
  <2>1. Len(s) \in Nat \ {0} /\ DOMAIN s = 1..Len(s) /\ Head(s) = s[1]
    BY <1>2, <1>3
  <2> QED BY <1>4, <1>5, <2>1
<1>8. \A v : <<"seed", v>> \notin Plan("reset")
  BY <1>6, <1>7
<1>9. \A v \in Venues : v \in funded /\ cash[v] = Seed
  BY <1>8 DEF ResetTells
<1>10. funded = Venues
  BY <1>2, <1>9 DEF LedgerKinds, MemoryKinds
<1>11. Blank
  BY <1>2, EmptiedKeys DEF ResetTells
<1>12. Blank'
  BY <1>1, <1>11 DEF Blank
<1>13. \A k \in Tasks : writing'[k] = NoWrite /\ todo'[k] = <<>>
  <2>1. \A k \in Tasks : todo'[k] = IF k = "reset" THEN <<>> ELSE todo[k]
    BY <1>1, <1>2 DEF LedgerKinds, TaskKinds
  <2> QED BY <1>1, <1>2, <2>1, OnlyReset
<1>14. BlankAccount'
  BY <1>1, <1>9, <1>10, <1>12, <1>13, TaskNames DEF BlankAccount, ResetTells
<1>15. BlankAccount' => RowsTell'
  BY BlankTells, PTL
<1>16. Idle("reset")'
  BY <1>2, <1>13 DEF Idle
<1> QED BY <1>14, <1>15, <1>16

\* What every other task does while no reset is under way.
LEMMA TicketStepTells ==
  ASSUME LedgerInv, RowsTell, Idle("reset"), NEW t \in Tickets,
         \/ OpenTicket(t) \/ Fill(t) \/ RefuseLegs(t) \/ WriteRejectedLegs(t)
         \/ Emit(t) \/ EmitRaises(t) \/ WriteStatus(t)
  PROVE  Idle("reset")' /\ RowsTell'
<1>1. RowsTell'
  <2>1. LedgerKinds
    BY DEF LedgerInv
  <2> QED BY <2>1, OpenTicketTells, FillTells, RefuseLegsTells, WriteRejectedLegsTells, EmitTells,
             EmitNeverRaises, WriteStatusTells
<1>2. Idle("reset")'
  <2>1. \A j \in Tasks \ {t} : writing'[j] = writing[j] /\ todo'[j] = todo[j]
    <3>1. t \in Tasks /\ LedgerKinds
      BY TaskNames DEF LedgerInv
    <3>2. EmitRaises(t) \/ \E w, rest, fresh : Begin(t, w, rest, fresh)
      BY DEF OpenTicket, Fill, RefuseLegs, WriteRejectedLegs, Emit, WriteStatus
    <3> QED BY <3>1, <3>2, Begun, EmitNeverRaises
  <2> QED BY <2>1, TaskNames DEF Idle
<1> QED BY <1>1, <1>2

\* While no reset is under way or begins, a step that gives nothing up keeps
\* what the rows tell.
LEMMA CalmStep ==
  ASSUME LedgerInv, RowsTell, Idle("reset"), LedgerNext, clean', ~Reset
  PROVE  Idle("reset")' /\ RowsTell'
<1>1. LedgerKinds /\ "reset" \in Tasks /\ "sweep" \in Tasks /\ "settle" \in Tasks
  BY TaskNames DEF LedgerInv
<1>2. ASSUME NEW k \in Tasks, Lands(k)
      PROVE  Idle("reset")' /\ RowsTell'
  <2>1. k # "reset"
    BY <1>2 DEF Lands, Idle
  <2>2. Idle("reset")'
    BY <1>1, <1>2, <2>1 DEF Lands, Idle, LedgerKinds, TaskKinds
  <2> QED BY <1>2, <2>2, LandsTells
<1>3. ASSUME NEW k \in Tasks, GivenUp(k) \/ Refused(k)
      PROVE  FALSE
  BY <1>3 DEF GivenUp, Refused, Dropped
<1>4. ASSUME NEW from \in Venues, NEW to \in Venues, Sweep(from, to)
      PROVE  Idle("reset")' /\ RowsTell'
  <2>1. \E w, rest, fresh : Begin("sweep", w, rest, fresh)
    BY <1>4 DEF Sweep
  <2>2. Idle("reset")'
    BY <1>1, <2>1, Begun DEF Idle
  <2> QED BY <1>4, <2>2, SweepTells
<1>5. ASSUME NEW o \in Traded, NEW rest, SettleLeg(o, rest), writing["settle"] = NoWrite
      PROVE  Idle("reset")' /\ RowsTell'
  <2>1. \E w, more, fresh : Begin("settle", w, more, fresh)
    BY <1>5 DEF SettleLeg
  <2>2. Idle("reset")'
    BY <1>1, <2>1, Begun DEF Idle
  <2> QED BY <1>5, <2>2, SettleLegTells
<1>6. ASSUME SettleGame \/ SettleNext
      PROVE  Idle("reset")' /\ RowsTell'
  <2>1. writing["settle"] = NoWrite /\ \E o \in Traded : \E rest : SettleLeg(o, rest)
    BY <1>6, Legs DEF SettleGame, SettleNext, Starts, Idle, AtStep
  <2> QED BY <1>5, <2>1
<1>7. ASSUME MarkSettled
      PROVE  Idle("reset")' /\ RowsTell'
  <2>1. /\ UNCHANGED <<cash, funded, position, submitted, store, writing>>
        /\ \A j \in Tasks \ {"settle"} : todo'[j] = todo[j]
    BY <1>1, <1>7 DEF MarkSettled, LedgerKinds, TaskKinds
  <2>2. \A t \in Tickets : todo'[t] = todo[t]
    BY <2>1, TaskNames
  <2> QED BY <1>1, <2>1, <2>2, StillTells DEF Idle
<1>8. ~SeedVenue /\ ~ClearSettled
  BY DEF SeedVenue, ClearSettled, AtStep, Idle
<1> QED BY <1>2, <1>3, <1>4, <1>6, <1>7, <1>8, TicketStepTells DEF LedgerNext

\* Beside a reset any other task's beginning is an overlap.
LEMMA ResetStep ==
  ASSUME LedgerInv, ResetTells, ~Idle("reset"), LedgerNext, clean'
  PROVE  IF Idle("reset")' THEN RowsTell' ELSE ResetTells'
<1>1. /\ \A k \in Tasks \ {"reset"} : writing[k] = NoWrite /\ todo[k] = <<>>
      /\ \A k \in Tasks \ {"reset"} : \A kind : ~AtStep(k, kind)
  BY OnlyReset
<1>2. "sweep" \in Tasks \ {"reset"} /\ "settle" \in Tasks \ {"reset"} /\ Tickets \subseteq Tasks \ {"reset"}
  BY TaskNames
<1>3. \A k \in Tasks \ {"reset"} : ~Lands(k)
  BY <1>1 DEF Lands
<1>4. \A k \in Tasks : ~GivenUp(k) /\ ~Refused(k)
  BY DEF GivenUp, Refused, Dropped
<1>5. \A t \in Tickets : ~OpenTicket(t)
  BY <1>2 DEF OpenTicket, Overlapping
<1>6. /\ \A t \in Tickets : ~Fill(t) /\ ~RefuseLegs(t) /\ ~WriteRejectedLegs(t) /\ ~Emit(t)
                            /\ ~EmitRaises(t) /\ ~WriteStatus(t)
      /\ ~SettleNext /\ ~MarkSettled
  BY <1>1, <1>2 DEF Fill, RefuseLegs, WriteRejectedLegs, Emit, EmitRaises, WriteStatus, SettleNext, MarkSettled
<1>7. \A from, to \in Venues : ~Sweep(from, to)
  BY <1>2 DEF Sweep, Overlapping
<1>8. ~SettleGame
  BY <1>2 DEF SettleGame, Overlapping
<1>9. ~Reset
  BY DEF Reset, Starts
<1>10. Lands("reset") \/ SeedVenue \/ ClearSettled
  BY <1>3, <1>4, <1>5, <1>6, <1>7, <1>8, <1>9 DEF LedgerNext
<1> QED BY <1>10, ResetLands, ResetSeeds, ResetEnds

LEMMA CleanStays ==
  ASSUME LedgerNext, ~Reset, clean'
  PROVE  clean
<1>1. ASSUME NEW k \in Tasks, Lands(k) \/ GivenUp(k) \/ Refused(k)
      PROVE  clean
  BY <1>1 DEF Lands, GivenUp, Refused, Dropped
<1>2. ASSUME NEW t \in Tickets,
             \/ OpenTicket(t) \/ Fill(t) \/ RefuseLegs(t) \/ WriteRejectedLegs(t)
             \/ Emit(t) \/ EmitRaises(t) \/ WriteStatus(t)
      PROVE  clean
  BY <1>2 DEF OpenTicket, Fill, RefuseLegs, WriteRejectedLegs, Emit, EmitRaises, WriteStatus, history
<1>3. ASSUME NEW from \in Venues, NEW to \in Venues, Sweep(from, to)
      PROVE  clean
  BY <1>3 DEF Sweep
<1>4. ASSUME SettleGame \/ SettleNext \/ MarkSettled \/ SeedVenue \/ ClearSettled
      PROVE  clean
  BY <1>4 DEF SettleGame, SettleNext, MarkSettled, SeedVenue, ClearSettled, history
<1> QED BY <1>1, <1>2, <1>3, <1>4 DEF LedgerNext

LEMMA AuditInvInit == LedgerInit => AuditInv
<1> SUFFICES ASSUME LedgerInit PROVE AuditInv
  OBVIOUS
<1>1. /\ \A k \in Tasks : writing[k] = NoWrite /\ todo[k] = <<>>
      /\ position = [o \in Traded |-> NoPosition] /\ funded = Venues
      /\ \A v \in Venues : cash[v] = Seed
  BY DEF LedgerInit
<1>2. \A r \in Rows : r[1] # "balance" => store[r] = NoRow
  BY RowNames DEF LedgerInit
<1>3. Blank
  <2>1. \A t \in Tickets, o \in Traded : store[FillRow(t, o)] = NoRow
    BY <1>2, RowKeys, RowNames
  <2>2. \A o \in Traded : store[SettlementRow(o)] = NoRow
    BY <1>2, RowKeys, RowNames
  <2>3. \A v \in Venues : store[TransferRow(v)] = NoRow
    BY <1>2, RowKeys, RowNames
  <2> QED BY <2>1, <2>2, <2>3 DEF Blank
<1>4. BlankAccount
  BY <1>1, <1>3, TaskNames DEF BlankAccount
<1>5. Idle("reset")
  BY <1>1, TaskNames DEF Idle
<1> QED BY <1>4, <1>5, BlankTells DEF AuditInv

LEMMA AuditInvStep ==
  ASSUME LedgerInv, AuditInv, [LedgerNext]_ledgerVars
  PROVE  AuditInv'
<1> SUFFICES ASSUME clean'
             PROVE  IF Idle("reset")' THEN RowsTell' ELSE ResetTells'
  BY DEF AuditInv
<1>1. CASE Reset
  BY <1>1, ResetBegins
<1>2. CASE LedgerNext /\ ~Reset
  <2>1. clean
    BY <1>2, CleanStays
  <2>2. CASE Idle("reset")
    <3>1. RowsTell
      BY <2>1, <2>2 DEF AuditInv
    <3> QED BY <1>2, <2>2, <3>1, CalmStep
  <2>3. CASE ~Idle("reset")
    <3>1. ResetTells
      BY <2>1, <2>3 DEF AuditInv
    <3> QED BY <1>2, <2>3, <3>1, ResetStep
  <2> QED BY <2>2, <2>3
<1>3. CASE UNCHANGED ledgerVars
  <2>1. UNCHANGED <<cash, funded, position, submitted, store, writing, todo, clean>>
    BY <1>3 DEF ledgerVars, memory, history
  <2>2. Idle("reset")' <=> Idle("reset")
    BY <2>1 DEF Idle
  <2>3. CASE Idle("reset")
    <3>1. RowsTell
      BY <2>1, <2>3 DEF AuditInv
    <3>2. RowsTell'
      BY <2>1, <3>1, StillTells
    <3> QED BY <2>2, <2>3, <3>2
  <2>4. CASE ~Idle("reset")
    <3>1. ResetTells
      BY <2>1, <2>4 DEF AuditInv
    <3>2. Blank' <=> Blank
      BY <2>1 DEF Blank
    <3>3. Plan("reset")' = Plan("reset")
      BY <2>1 DEF Plan
    <3>4. \A k : Idle(k)' <=> Idle(k)
      BY <2>1 DEF Idle
    <3>5. ResetTells'
      BY <2>1, <3>1, <3>2, <3>3, <3>4 DEF ResetTells
    <3> QED BY <2>2, <2>4, <3>5
  <2> QED BY <2>3, <2>4
<1> QED BY <1>1, <1>2, <1>3

\* With nothing left under way, the buyers have both fills, at what they cost,
\* and nobody else has one.
AllLanded == \A k \in Tasks : writing[k] = NoWrite /\ todo[k] = <<>>
LEMMA LandedLegs ==
  ASSUME LedgerKinds, RowsTell, AllLanded
  PROVE  /\ \A t \in Buyers :
              /\ t \in Tickets /\ store[TicketRow(t)] \in {"pending", "filled"}
              /\ \A o \in Traded : store[OrderRow(t, o)] # NoRow /\ store[FillRow(t, o)] # NoRow
              /\ \A o \in Traded : store[FillRow(t, o)] = FillOf(t, o)
         /\ \A t \in Tickets \ Buyers : \A o \in Traded : store[FillRow(t, o)] = NoRow
         /\ \A o \in Traded : /\ SettlementComes(o) <=> store[SettlementRow(o)] # NoRow
                              /\ store[SettlementRow(o)] # NoRow => store[SettlementRow(o)] = ResolvedValue(o)
         /\ \A v \in Venues : Moved(v) = OrZero(store[TransferRow(v)])
<1>1. \A k \in Tasks : Plan(k) = {} /\ \A r : r \notin DOMAIN writing[k]
  BY DEF AllLanded, Plan, NoWrite
<1>2. \A t \in Tickets, o \in Traded : /\ FillComes(t, o) <=> store[FillRow(t, o)] # NoRow
                                       /\ OrderComes(t, o) <=> store[OrderRow(t, o)] # NoRow
  BY <1>1, TaskNames DEF FillComes, OrderComes
<1>3. ASSUME NEW t \in Buyers
      PROVE  /\ t \in Tickets /\ store[TicketRow(t)] \in {"pending", "filled"}
             /\ \A o \in Traded : store[OrderRow(t, o)] # NoRow /\ store[FillRow(t, o)] # NoRow
             /\ \A o \in Traded : store[FillRow(t, o)] = FillOf(t, o)
  <2>1. t \in Tickets /\ AllBought(t)
    BY DEF Buyers
  <2>2. \A o \in Traded : store[FillRow(t, o)] # NoRow /\ store[OrderRow(t, o)] # NoRow
    BY <1>2, <2>1 DEF AllBought
  <2>3. \A o \in Traded : store[FillRow(t, o)] = FillOf(t, o)
    BY <2>1, <2>2 DEF RowsTell, RowsTrue
  <2> QED BY <2>1, <2>2, <2>3 DEF AllBought
<1>4. ASSUME NEW t \in Tickets \ Buyers, NEW o \in Traded
      PROVE  store[FillRow(t, o)] = NoRow
  <2>1. NotBought(t)
    BY DEF RowsTell, TicketTells, Buyers
  <2> QED BY <1>2, <2>1 DEF NotBought
<1>5. ASSUME NEW o \in Traded
      PROVE  /\ SettlementComes(o) <=> store[SettlementRow(o)] # NoRow
             /\ store[SettlementRow(o)] # NoRow => store[SettlementRow(o)] = ResolvedValue(o)
  BY <1>1, TaskNames DEF SettlementComes, RowsTell, RowsTrue
<1>6. ASSUME NEW v \in Venues
      PROVE  Moved(v) = OrZero(store[TransferRow(v)])
  <2>1. TransferRow(v) \notin DOMAIN writing["sweep"]
    BY <1>1, TaskNames
  <2>2. store[TransferRow(v)] \in Int \cup {NoRow}
    BY RowKeys DEF LedgerKinds, StoreKinds, IsWrite
  <2>3. OrZero(store[TransferRow(v)]) \in Int
    BY <2>2 DEF OrZero
  <2>4. Moved(v) = OrZero(store[TransferRow(v)]) + 0
    BY <2>1 DEF Moved
  <2> QED BY <2>3, <2>4
<1> QED BY <1>3, <1>4, <1>5, <1>6

\* What a leg that is over realized: its payouts less its costs, and before
\* that what it costs is still held.
LEMMA LegOver ==
  ASSUME LedgerKinds, RowsTell, NEW o \in Traded, SettlementComes(o) => position[o].qty = 0
  PROVE  position[o].realized - position[o].cost
           = (IF SettlementComes(o) THEN ResolvedValue(o) * Cardinality(Buyers) ELSE 0) - Spent(o)
<1> DEFINE n == Cardinality(Buyers)
           s == Spent(o)
           q == position[o].qty
           c == position[o].cost
           z == position[o].realized
           R == ResolvedValue(o)
<1>1. n \in Nat /\ s \in Int /\ q \in Nat /\ c \in Int /\ z \in Int /\ R \in Nat
  BY SpentKinds, PayoutKind DEF LedgerKinds, MemoryKinds, PositionValues
<1>2. z = R * (n - q) - (s - c) /\ (q = 0 => c = 0) /\ (~SettlementComes(o) => q = n)
  BY DEF RowsTell, LegTells
<1> HIDE DEF n, s, q, c, z, R
<1>3. CASE SettlementComes(o)
  <2>1. q = 0 /\ c = 0
    BY <1>2, <1>3 DEF q
  <2>2. z = R * n - s
    BY <1>1, <1>2, <2>1
  <2>3. R * n \in Int
    BY <1>1
  <2>4. z - c = R * n - s
    BY <1>1, <2>1, <2>2, <2>3
  <2> QED BY <1>3, <2>4 DEF n, s, c, z, R
<1>4. CASE ~SettlementComes(o)
  <2>1. n - q = 0
    BY <1>1, <1>2, <1>4
  <2>2. R * 0 = 0
    BY <1>1
  <2>3. z - c = 0 - s
    BY <1>1, <1>2, <2>1, <2>2
  <2> QED BY <1>4, <2>3 DEF s, c, z
<1> QED BY <1>3, <1>4

\* The fills of a venue's leg, as the audit sums them, are what its buyers paid.
LEMMA VenueFills ==
  ASSUME LedgerKinds, RowsTell, AllLanded, NEW v \in Venues, NEW o \in Traded, VenueOf[o] = v
  PROVE  /\ Total([p \in Bought(v) |-> store[FillRow(p[1], p[2])].price
                                          + store[FillRow(p[1], p[2])].fee]) = Spent(o)
         /\ Total([p \in PaidOut(v) |-> store[SettlementRow(p[2])]])
              = IF SettlementComes(o) THEN ResolvedValue(o) * Cardinality(Buyers) ELSE 0
<1> DEFINE bought == Bought(v)
           paid   == PaidOut(v)
           name == [t \in Buyers |-> <<t, o>>]
           costs == [p \in bought |-> store[FillRow(p[1], p[2])].price
                                         + store[FillRow(p[1], p[2])].fee]
           pays == [p \in paid |-> store[SettlementRow(p[2])]]
<1>1. /\ \A t \in Buyers : /\ t \in Tickets
                           /\ store[OrderRow(t, o)] # NoRow /\ store[FillRow(t, o)] # NoRow
                           /\ store[FillRow(t, o)] = FillOf(t, o)
      /\ \A t \in Tickets \ Buyers : store[FillRow(t, o)] = NoRow
      /\ SettlementComes(o) <=> store[SettlementRow(o)] # NoRow
      /\ store[SettlementRow(o)] # NoRow => store[SettlementRow(o)] = ResolvedValue(o)
  BY LandedLegs
<1>2. OnVenue(v) = {o}
  BY LegOfVenue
<1>3. bought = {name[t] : t \in Buyers}
  <2>1. \A t \in Buyers : name[t] = <<t, o>> /\ <<t, o>> \in bought
    BY <1>1, <1>2 DEF Bought
  <2>2. ASSUME NEW p \in bought
        PROVE  p[1] \in Buyers /\ p = name[p[1]]
    <3>1. p[1] \in Tickets /\ p[2] = o /\ p = <<p[1], p[2]>> /\ store[FillRow(p[1], o)] # NoRow
      BY <1>2 DEF Bought
    <3>2. p[1] \in Buyers
      BY <1>1, <3>1
    <3> QED BY <3>1, <3>2
  <2> HIDE DEF name, bought
  <2> QED BY <2>1, <2>2
<1>4. IsFiniteSet(Buyers) /\ IsFiniteSet(bought)
  <2>1. IsFiniteSet(Buyers)
    BY SpentKinds
  <2> HIDE DEF bought, name
  <2> QED BY <1>3, <2>1, ImageFinite
<1>5. /\ \A t \in Buyers : Costs(o)[t] \in Int /\ costs[name[t]] = Costs(o)[t]
      /\ \A p \in bought : costs[p] \in Int
  <2>1. \A t \in Buyers : name[t] = <<t, o>> /\ name[t] \in bought
    BY <1>3
  <2>2. \A t \in Buyers : costs[name[t]] = LegCost(t, o)
    <3> TAKE t \in Buyers
    <3> DEFINE x == FillOf(t, o)
    <3>1. costs[name[t]] = store[FillRow(t, o)].price + store[FillRow(t, o)].fee
      BY <2>1
    <3>2. store[FillRow(t, o)] = x /\ LegCost(t, o) = x.price + x.fee
      BY <1>1 DEF LegCost
    <3> HIDE DEF x, costs, name
    <3> QED BY <3>1, <3>2
  <2>3. \A t \in Buyers : Costs(o)[t] \in Int /\ Costs(o)[t] = LegCost(t, o)
    BY <1>1, SpentKinds
  <2>4. \A t \in Buyers : Costs(o)[t] \in Int /\ costs[name[t]] = Costs(o)[t]
    BY <1>1, <2>2, <2>3
  <2> HIDE DEF name, costs, bought
  <2> QED BY <1>3, <2>4
<1>6. \A t, u \in Buyers : name[t] = name[u] => t = u
  OBVIOUS
<1>7. Total(costs) = Spent(o)
  <2>1. DOMAIN costs = bought
    OBVIOUS
  <2> HIDE DEF costs, name, bought
  <2>2. SumFunctionOnSet(costs, bought) = SumFunctionOnSet(Costs(o), Buyers)
    BY <1>3, <1>4, <1>5, <1>6, SumRenamed
  <2>3. Total(costs) = SumFunctionOnSet(costs, bought)
    BY <2>1 DEF Total
  <2> QED BY <2>2, <2>3 DEF Spent
<1>8. paid = IF SettlementComes(o) THEN bought ELSE {}
  <2>1. ASSUME NEW p \in bought
        PROVE  p \in paid <=> SettlementComes(o)
    <3>1. PICK t \in Buyers : p = <<t, o>>
      BY <1>3
    <3>2. p[2] = o
      BY <3>1
    <3> QED BY <1>1, <3>2 DEF PaidOut
  <2>2. \A p \in paid : p \in bought
    BY DEF PaidOut
  <2> HIDE DEF bought, paid
  <2> QED BY <2>1, <2>2
<1>9. Total(pays) = IF SettlementComes(o) THEN ResolvedValue(o) * Cardinality(Buyers) ELSE 0
  <2>1. DOMAIN pays = paid
    OBVIOUS
  <2>2. Total(pays) = SumFunctionOnSet(pays, paid)
    BY <2>1 DEF Total
  <2>3. CASE SettlementComes(o)
    <3>1. paid = bought
      BY <1>8, <2>3
    <3>2. \A p \in paid : pays[p] = ResolvedValue(o)
      <4> TAKE p \in paid
      <4>1. p[2] = o
        BY <1>2 DEF PaidOut, Bought
      <4> QED BY <1>1, <2>3, <4>1
    <3>3. ResolvedValue(o) \in Int
      BY PayoutKind
    <3>4. Cardinality(bought) = Cardinality(Buyers)
      <4>1. name \in Bijection(Buyers, bought)
        <5>1. name \in [Buyers -> bought]
          BY <1>3
        <5>2. \A x \in bought : \E t \in Buyers : name[t] = x
          BY <1>3
        <5> HIDE DEF name, bought
        <5>3. IsInjective(name)
          BY <1>6, <5>1 DEF IsInjective
        <5> QED BY <5>1, <5>2, <5>3 DEF Bijection, Injection, Surjection
      <4> HIDE DEF name, bought
      <4>2. ExistsBijection(Buyers, bought)
        BY <4>1 DEF ExistsBijection
      <4> QED BY <1>4, <4>2, FS_Bijection
    <3> HIDE DEF pays, paid, bought
    <3>5. SumFunctionOnSet(pays, paid) = ResolvedValue(o) * Cardinality(paid)
      BY <1>4, <3>1, <3>2, <3>3, SumConstant
    <3> QED BY <2>2, <2>3, <3>1, <3>4, <3>5
  <2>4. CASE ~SettlementComes(o)
    <3>1. paid = {}
      BY <1>8, <2>4
    <3> HIDE DEF pays, paid
    <3> QED BY <2>2, <2>4, <3>1, SumEmpty
  <2> QED BY <2>3, <2>4
<1> QED BY <1>7, <1>9

\* A venue's cash is what its rows explain, once its leg is over.
LEMMA CashExplained ==
  ASSUME LedgerKinds, RowsTell, AllLanded, NEW v \in Venues,
         \A o \in Traded : SettlementComes(o) => position[o].qty = 0
  PROVE  cash[v] = Explained(v)
<1> DEFINE costs == Total([p \in Bought(v) |-> store[FillRow(p[1], p[2])].price
                                                + store[FillRow(p[1], p[2])].fee])
           pays == Total([p \in PaidOut(v) |-> store[SettlementRow(p[2])]])
           moved == OrZero(store[TransferRow(v)])
<1>1. Explained(v) = Seed - costs + pays + moved
  BY DEF Explained
<1>2. Moved(v) = moved /\ moved \in Int /\ Seed \in Int
  <2>1. Moved(v) = moved
    BY LandedLegs
  <2>2. Moved(v) \in Int
    BY TransfersKind DEF RowsTell
  <2> QED BY <2>1, <2>2, LedgerAssumption
<1>3. CASE OnVenue(v) = {}
  <2>1. Bought(v) = {} /\ PaidOut(v) = {}
    BY <1>3 DEF Bought, PaidOut
  <2>2. costs = 0 /\ pays = 0
    <3> DEFINE F == [p \in Bought(v) |-> store[FillRow(p[1], p[2])].price + store[FillRow(p[1], p[2])].fee]
               G == [p \in PaidOut(v) |-> store[SettlementRow(p[2])]]
    <3>1. DOMAIN F = {} /\ DOMAIN G = {} /\ costs = Total(F) /\ pays = Total(G)
      BY <2>1
    <3> HIDE DEF F, G, costs, pays
    <3> QED BY <3>1, SumEmpty DEF Total
  <2>3. cash[v] = Seed + Moved(v)
    BY <1>3 DEF RowsTell, CashTells
  <2> HIDE DEF costs, pays, moved
  <2> QED BY <1>1, <1>2, <2>2, <2>3
<1>4. CASE OnVenue(v) # {}
  <2>1. PICK o \in Traded : VenueOf[o] = v
    BY <1>4 DEF OnVenue
  <2> DEFINE gain == position[o].realized - position[o].cost
             spent == Spent(o)
             received == IF SettlementComes(o) THEN ResolvedValue(o) * Cardinality(Buyers) ELSE 0
  <2>2. cash[v] = Seed + Moved(v) + gain
    BY <2>1 DEF RowsTell, CashTells
  <2>3. gain = received - spent
    BY LegOver
  <2>4. costs = spent /\ pays = received
    BY <2>1, VenueFills
  <2>5. spent \in Int /\ received \in Int
    <3>1. ResolvedValue(o) \in Nat /\ Cardinality(Buyers) \in Nat /\ spent \in Int
      BY PayoutKind, SpentKinds
    <3>2. ResolvedValue(o) * Cardinality(Buyers) \in Int
      BY <3>1
    <3> QED BY <3>1, <3>2
  <2> HIDE DEF costs, pays, moved, gain, spent, received
  <2> QED BY <1>1, <1>2, <2>2, <2>3, <2>4, <2>5
<1> QED BY <1>3, <1>4

\* What a page as new as the rows has of the tickets and their legs.
LEMMA ReadLegs ==
  ASSUME LedgerKinds, RowsTell, AllLanded, PageCells, Current
  PROVE  /\ \A t \in Buyers : /\ t \in Tickets /\ Filled(t) = Traded /\ LegsOf(t) = Traded
                              /\ Status(t) \in {"pending", "filled"}
                              /\ \A o \in Traded : Cost(t, o) = LegCost(t, o)
         /\ \A t \in Tickets \ Buyers : Filled(t) = {}
         /\ \A o \in Traded : /\ SettlementComes(o) <=> seen[SettlementRow(o)] # NoRow
                              /\ seen[SettlementRow(o)] # NoRow => seen[SettlementRow(o)] = ResolvedValue(o)
<1>1. /\ \A t \in Tickets : seen[TicketRow(t)] = store[TicketRow(t)]
      /\ \A t \in Tickets, o \in Traded : /\ seen[OrderRow(t, o)] = store[OrderRow(t, o)]
                                          /\ seen[FillRow(t, o)] = store[FillRow(t, o)]
      /\ \A o \in Traded : seen[SettlementRow(o)] = store[SettlementRow(o)]
  BY RowKeys, RowNames DEF Current
<1>2. ASSUME NEW t \in Buyers
      PROVE  /\ t \in Tickets /\ Filled(t) = Traded /\ LegsOf(t) = Traded
             /\ Status(t) \in {"pending", "filled"}
             /\ \A o \in Traded : Cost(t, o) = LegCost(t, o)
  <2>1. /\ t \in Tickets /\ store[TicketRow(t)] \in {"pending", "filled"}
        /\ \A o \in Traded : store[OrderRow(t, o)] # NoRow /\ store[FillRow(t, o)] # NoRow
        /\ \A o \in Traded : store[FillRow(t, o)] = FillOf(t, o)
    BY LandedLegs
  <2>2. LegsOf(t) = Traded /\ Filled(t) = Traded
    BY <1>1, <2>1 DEF LegsOf, Filled
  <2>3. \A o \in Traded : Cost(t, o) = LegCost(t, o)
    BY <1>1, <2>1 DEF Cost, LegCost
  <2> QED BY <1>1, <2>1, <2>2, <2>3 DEF Status
<1>3. ASSUME NEW t \in Tickets \ Buyers
      PROVE  Filled(t) = {}
  <2>1. \A o \in Traded : seen[FillRow(t, o)] = NoRow
    BY <1>1, LandedLegs
  <2> QED BY <2>1, LegSets DEF Filled
<1>4. ASSUME NEW o \in Traded
      PROVE  /\ SettlementComes(o) <=> seen[SettlementRow(o)] # NoRow
             /\ seen[SettlementRow(o)] # NoRow => seen[SettlementRow(o)] = ResolvedValue(o)
  BY <1>1, LandedLegs
<1> QED BY <1>2, <1>3, <1>4

\* With every leg closed and nothing withheld, the settled tickets are those
\* that bought.
LEMMA SettledAreBuyers ==
  ASSUME LedgerKinds, RowsTell, AllLanded, PageCells, Current, Excluded = {},
         \A o \in Traded : position[o].qty = 0
  PROVE  /\ SettledTickets = Buyers
         /\ \A t \in Buyers : Scored(t) /\ Resolved(t) = Traded
         /\ Buyers # {} => \A o \in Traded : SettlementComes(o)
<1>1. ASSUME Buyers # {}
      PROVE  \A o \in Traded : SettlementComes(o)
  <2>1. Cardinality(Buyers) # 0
    BY <1>1, SpentKinds, Legs, FS_EmptySet
  <2> QED BY <2>1 DEF RowsTell, LegTells
<1>2. \A t \in Buyers : Scored(t) /\ Resolved(t) = Traded
  <2> TAKE t \in Buyers
  <2>1. Filled(t) = Traded /\ LegsOf(t) = Traded
    BY ReadLegs
  <2>2. \A o \in Traded : seen[SettlementRow(o)] # NoRow
    BY <1>1, ReadLegs
  <2>3. Resolved(t) = Traded
    BY <2>1, <2>2 DEF Resolved
  <2>4. Traded # {}
    BY Legs
  <2> QED BY <2>1, <2>3, <2>4 DEF Scored
<1>3. \A t \in Buyers : t \in SettledTickets
  <2> TAKE t \in Buyers
  <2>1. t \in Tickets /\ Status(t) \in {"pending", "filled"}
    BY ReadLegs
  <2>2. t \in Hydrated
    BY <2>1 DEF Hydrated, Population, TradedStatuses
  <2>3. Score(t) # NoRow
    BY <1>2, <2>1, Figures
  <2>4. OutcomeOf(t) = BySign(Score(t))
    BY <2>1, <2>3 DEF OutcomeOf, NeverTraded
  <2> QED BY <2>2, <2>4, Outcomes5 DEF SettledTickets
<1>4. \A t \in SettledTickets : t \in Buyers
  <2> TAKE t \in SettledTickets
  <2>1. t \in Tickets /\ OutcomeOf(t) \notin {"open", "none"}
    BY QueriesFinite DEF SettledTickets
  <2>2. Score(t) # NoRow
    BY <2>1 DEF OutcomeOf
  <2>3. Resolved(t) # {}
    BY <2>1, <2>2, Figures DEF Scored
  <2>4. Filled(t) # {}
    BY <2>3, LegSets
  <2> QED BY <2>1, <2>4, ReadLegs
<1> QED BY <1>1, <1>2, <1>3, <1>4

\* What the settled tickets netted on a leg is what its broker realized.
LEMMA LegNet ==
  ASSUME LedgerKinds, RowsTell, AllLanded, PageCells, Current, Excluded = {},
         \A o \in Traded : position[o].qty = 0,
         NEW o \in Traded, NEW part, part = {p \in PaidBy(SettledTickets) : p[2] = o}
  PROVE  SumFunctionOnSet(GainAt, part) = position[o].realized
<1> DEFINE n == Cardinality(Buyers)
           s == Spent(o)
           R == ResolvedValue(o)
           z == position[o].realized
           name == [t \in Buyers |-> <<t, o>>]
           gains == [t \in Buyers |-> R - LegCost(t, o)]
           values == [t \in Buyers |-> R]
<1>1. /\ SettledTickets = Buyers
      /\ \A t \in Buyers : t \in Tickets /\ Resolved(t) = Traded
      /\ Buyers # {} => SettlementComes(o)
  BY SettledAreBuyers, ReadLegs
<1>2. n \in Nat /\ s \in Int /\ R \in Int /\ IsFiniteSet(Buyers) /\ z \in Int
  BY SpentKinds, PayoutKind DEF LedgerKinds, MemoryKinds, PositionValues
<1>3. \A t \in Buyers : /\ Costs(o)[t] \in Int /\ Costs(o)[t] = LegCost(t, o)
                        /\ Cost(t, o) = LegCost(t, o)
                        /\ seen[SettlementRow(o)] = R
  <2>1. \A t \in Buyers : Cost(t, o) = LegCost(t, o) /\ seen[SettlementRow(o)] = R
    BY <1>1, ReadLegs
  <2>2. \A t \in Buyers : Costs(o)[t] \in Int /\ Costs(o)[t] = LegCost(t, o)
    BY <1>1, SpentKinds
  <2> QED BY <2>1, <2>2
<1>4. \A t \in Buyers : Gain(t, o) = gains[t] /\ gains[t] \in Int /\ values[t] = gains[t] + Costs(o)[t]
  <2> TAKE t \in Buyers
  <2> DEFINE c == LegCost(t, o)
  <2>1. gains[t] = R - c /\ values[t] = R /\ Costs(o)[t] = c /\ c \in Int
    BY <1>3
  <2>2. Gain(t, o) = R - c
    BY <1>3 DEF Gain
  <2> HIDE DEF c, gains, values, R
  <2> QED BY <1>2, <2>1, <2>2
<1>5. part = {name[t] : t \in Buyers}
  <2>1. \A t \in Buyers : name[t] = <<t, o>> /\ <<t, o>> \in part
    BY <1>1 DEF PaidBy
  <2>2. ASSUME NEW p \in part
        PROVE  p[1] \in Buyers /\ p = name[p[1]]
    BY <1>1 DEF PaidBy
  <2> HIDE DEF name
  <2>3. \A p \in part : p \in {name[t] : t \in Buyers}
    BY <2>2, Zenon
  <2>4. \A p \in {name[t] : t \in Buyers} : p \in part
    BY <2>1
  <2> QED BY <2>3, <2>4, Zenon
<1>6. \A t \in Buyers : gains[t] \in Int /\ GainAt[name[t]] = gains[t]
  <2> TAKE t \in Buyers
  <2>1. name[t] = <<t, o>> /\ <<t, o>> \in Entries
    BY <1>1 DEF Entries
  <2>2. GainAt[<<t, o>>] = Gain(t, o)
    BY <2>1 DEF GainAt
  <2> HIDE DEF gains, name
  <2> QED BY <1>4, <2>1, <2>2
<1>7. \A t, u \in Buyers : name[t] = name[u] => t = u
  OBVIOUS
<1> HIDE DEF name, gains, values
<1>8. SumFunctionOnSet(GainAt, part) = SumFunctionOnSet(gains, Buyers)
  BY <1>2, <1>5, <1>6, <1>7, SumRenamed
<1>9. R * n = SumFunctionOnSet(gains, Buyers) + s
  <2>1. \A t \in Buyers : gains[t] \in Int /\ Costs(o)[t] \in Int /\ values[t] = gains[t] + Costs(o)[t]
    BY <1>3, <1>4
  <2>2. SumFunctionOnSet(values, Buyers) = SumFunctionOnSet(gains, Buyers) + SumFunctionOnSet(Costs(o), Buyers)
    BY <1>2, <2>1, SumPlus
  <2>3. \A t \in Buyers : values[t] = R
    BY DEF values
  <2>4. SumFunctionOnSet(values, Buyers) = R * n
    BY <1>2, <2>3, SumConstant
  <2> QED BY <2>2, <2>4 DEF Spent
<1>10. SumFunctionOnSet(gains, Buyers) \in Int
  BY <1>2, <1>4, SumSplit
<1>11. position[o].realized - position[o].cost = (IF SettlementComes(o) THEN R * n ELSE 0) - s
  BY LegOver
<1>12. position[o].cost = 0
  BY DEF RowsTell, LegTells
<1>13. ~SettlementComes(o) => R * n = 0
  <2>1. ~SettlementComes(o) => n = 0
    BY <1>1, FS_EmptySet
  <2>2. R * 0 = 0
    BY <1>2
  <2> QED BY <2>1, <2>2
<1> DEFINE total == R * n
<1>14. z - 0 = total - s
  BY <1>11, <1>12, <1>13
<1>15. total = SumFunctionOnSet(gains, Buyers) + s
  BY <1>9
<1> HIDE DEF total, s, n, R, z
<1>16. z = SumFunctionOnSet(gains, Buyers)
  BY <1>2, <1>10, <1>14, <1>15
<1> QED BY <1>8, <1>16 DEF z

\* What the settled tickets netted is what the brokers realized.
LEMMA NetRealized ==
  ASSUME LedgerKinds, RowsTell, AllLanded, PageCells, Current, Excluded = {},
         \A o \in Traded : position[o].qty = 0
  PROVE  RealizedNet = Total([o \in Traded |-> position[o].realized])
<1> DEFINE B == PaidBy(SettledTickets)
           key == [p \in B |-> p[2]]
           part == [o \in Traded |-> {p \in B : p[2] = o}]
           g == [o \in Traded |-> position[o].realized]
<1>1. SettledTickets \in SUBSET Tickets
  BY QueriesFinite
<1>2. \A t \in SettledTickets : Scored(t)
  BY SettledAreBuyers
<1>3. RealizedNet = SumFunctionOnSet(GainAt, B)
  BY <1>1, <1>2, ScoreByLeg DEF RealizedNet
<1>4. IsFiniteSet(B) /\ \A p \in B : GainAt[p] \in Int
  BY <1>1, EntryKinds
<1>5. IsFiniteSet(Traded) /\ \A p \in B : key[p] \in Traded
  BY FiniteLists DEF PaidBy
<1>6. \A o \in Traded : part[o] = {p \in B : key[p] = o}
  OBVIOUS
<1>7. \A o \in Traded : g[o] = SumFunctionOnSet(GainAt, part[o])
  <2> TAKE o \in Traded
  <2> DEFINE mine == part[o]
  <2>1. mine = {p \in PaidBy(SettledTickets) : p[2] = o} /\ g[o] = position[o].realized
    OBVIOUS
  <2> HIDE DEF mine, g
  <2>2. SumFunctionOnSet(GainAt, mine) = position[o].realized
    BY <2>1, LegNet
  <2> QED BY <2>1, <2>2 DEF mine
<1>8. Total(g) = SumFunctionOnSet(g, Traded)
  BY DEF Total
<1> HIDE DEF B, key, part, g
<1>9. SumFunctionOnSet(g, Traded) = SumFunctionOnSet(GainAt, B)
  BY <1>4, <1>5, <1>6, <1>7, SumGrouped
<1> QED BY <1>3, <1>8, <1>9 DEF g

\* The audit holds in every state that the invariants allow.
LEMMA AuditHolds ==
  ASSUME LedgerInv, AuditInv, PageCells
  PROVE  AuditExplainsCash
<1> SUFFICES ASSUME Quiet, clean, suspect = {},
                    \A o \in Traded : store[SettlementRow(o)] # NoRow => position[o].qty = 0
             PROVE  /\ \A v \in Venues : store[BalanceRow(v)] = Explained(v)
                    /\ Answered /\ Current /\ (\A o \in Traded : position[o].qty = 0) /\ Excluded = {} =>
                         RealizedNet = Total([o \in Traded |-> position[o].realized])
  BY DEF AuditExplainsCash
<1>1. AllLanded
  BY DEF Quiet, Idle, AllLanded
<1>2. LedgerKinds /\ RowsTell
  BY TaskNames DEF LedgerInv, AuditInv, Quiet
<1>3. \A o \in Traded : SettlementComes(o) => position[o].qty = 0
  BY <1>1, <1>2, LandedLegs
<1>4. ASSUME NEW v \in Venues
      PROVE  store[BalanceRow(v)] = Explained(v)
  <2>1. Mirrors(BalanceRow(v))
    BY RowKeys, NothingLeft DEF StoreMatchesMemory
  <2>2. v \in funded
    BY <1>2 DEF RowsTell
  <2>3. store[BalanceRow(v)] = cash[v]
    BY <2>1, <2>2, RowNames DEF Mirrors, Agrees
  <2>4. cash[v] = Explained(v)
    BY <1>1, <1>2, <1>3, CashExplained
  <2> QED BY <2>3, <2>4
<1>5. Current /\ (\A o \in Traded : position[o].qty = 0) /\ Excluded = {} =>
         RealizedNet = Total([o \in Traded |-> position[o].realized])
  BY <1>1, <1>2, NetRealized
<1> QED BY <1>4, <1>5

-----------------------------------------------------------------------------
(* A ticket's outcome, once stored, is its last word: only a reset erases it. *)

Final == {"filled", "rejected", "missed"}

\* What a task's transaction may say of the status of a ticket of another.
Spares(k, w) ==
  \A u \in Tickets \ {k} : /\ StatusOf(u) \notin DOMAIN w
                           /\ TicketRow(u) \in DOMAIN w => w[TicketRow(u)] = NoRow

\* Nothing a ticket has left says anything of its status.
Done(t) ==
  /\ t \in submitted
  /\ todo[t] \in {<<>>, <<<<"legs">>>>}
  /\ TicketRow(t) \notin DOMAIN writing[t] /\ StatusOf(t) \notin DOMAIN writing[t]

LastWord(t) ==
  /\ t \notin submitted => Idle(t) /\ store[TicketRow(t)] = NoRow
  /\ store[TicketRow(t)] \in Final => Done(t)
  /\ TicketRow(t) \in DOMAIN writing[t] /\ writing[t][TicketRow(t)] \in Final => todo[t] = <<>>
  /\ StatusOf(t) \in DOMAIN writing[t] => todo[t] \in {<<>>, <<<<"legs">>>>}
  /\ TicketRow(t) \in DOMAIN writing[t] => StatusOf(t) \notin DOMAIN writing[t]

StatusInv == (\A k \in Tasks : Spares(k, writing[k])) /\ \A t \in Tickets : LastWord(t)

LEMMA FinalCells == NoRow \notin Final /\ NoRow # "pending" /\ "pending" \notin Final
BY StatusAssumption DEF Final, TicketStatuses

\* A step that leaves a ticket's status, transaction and plan alone.
LEMMA LastWordKept ==
  ASSUME NEW t, LastWord(t), writing'[t] = writing[t], todo'[t] = todo[t],
         store'[TicketRow(t)] = store[TicketRow(t)], t \in submitted' <=> t \in submitted
  PROVE  LastWord(t)'
BY DEF LastWord, Done, Idle

\* A task begins a transaction that leaves the status of others alone.
LEMMA StatusBegun ==
  ASSUME LedgerKinds, StatusInv, NEW k \in Tasks, NEW w, NEW rest, NEW fresh, Begin(k, w, rest, fresh),
         Spares(k, w), store' = store, \A t \in Tickets \ {k} : t \in submitted' <=> t \in submitted,
         k \in Tickets => LastWord(k)'
  PROVE  StatusInv'
<1>1. \A j \in Tasks : writing'[j] = (IF j = k THEN w ELSE writing[j]) /\ todo'[j] = (IF j = k THEN rest ELSE todo[j])
  BY Begun
<1>2. \A j \in Tasks : Spares(j, writing'[j])
  BY <1>1 DEF StatusInv
<1>3. \A j \in Tasks : Spares(j, writing[j])'
  BY <1>2 DEF Spares
<1>4. ASSUME NEW t \in Tickets, t # k
      PROVE  LastWord(t)'
  <2>1. t \in Tasks
    BY TaskNames
  <2>2. writing'[t] = writing[t] /\ todo'[t] = todo[t]
    BY <1>1, <1>4, <2>1
  <2> QED BY <1>4, <2>2, LastWordKept DEF StatusInv
<1> QED BY <1>3, <1>4 DEF StatusInv

LEMMA OneSpares ==
  ASSUME NEW k, NEW r, NEW x,
         r[1] \in {"ticket", "status"} => r[2] = k
  PROVE  Spares(k, Holding(r, x))
<1> DEFINE w == Holding(r, x)
<1>1. DOMAIN w = {r} /\ w[r] = x
  BY OneRow
<1> HIDE DEF w
<1>2. \A u \in Tickets \ {k} : StatusOf(u) \notin DOMAIN w /\ TicketRow(u) \notin DOMAIN w
  BY <1>1, RowNames
<1> QED BY <1>2 DEF Spares, w

LEMMA BothSpare ==
  ASSUME NEW k, NEW f, NEW g, Spares(k, f), Spares(k, g)
  PROVE  Spares(k, f ++ g)
<1> DEFINE h == f ++ g
<1>1. DOMAIN h = DOMAIN f \cup DOMAIN g
  BY MoreRows
<1>2. /\ \A r \in DOMAIN f : h[r] = f[r]
      /\ \A r \in DOMAIN g \ DOMAIN f : h[r] = g[r]
  BY MoreRows
<1> HIDE DEF h
<1>3. Spares(k, h)
  BY <1>1, <1>2 DEF Spares
<1> QED BY <1>3 DEF h

LEMMA NoneSpares == \A k : Spares(k, NoWrite)
BY DEF Spares, NoWrite

-----------------------------------------------------------------------------
\* A ticket's own steps.

LEMMA OpenTicketLastWord ==
  ASSUME LedgerKinds, StatusInv, NEW t \in Tickets, OpenTicket(t)
  PROVE  StatusInv'
<1>1. PICK status \in {"rejected", "missed", "pending"} :
        Begin(t, Holding(TicketRow(t), status), IF status = "pending" THEN <<<<"submit">>>> ELSE <<>>, TRUE)
  BY DEF OpenTicket
<1> DEFINE w == Holding(TicketRow(t), status)
           rest == IF status = "pending" THEN <<<<"submit">>>> ELSE <<>>
<1>2. DOMAIN w = {TicketRow(t)} /\ w[TicketRow(t)] = status
  BY OneRow
<1>3. Spares(t, w)
  BY RowNames, OneSpares
<1>4. t \notin submitted /\ store' = store /\ submitted' = submitted \cup {t} /\ t \in Tasks
  <2>1. t \notin submitted
    BY OpenedNew
  <2>2. t \in Tasks
    BY TaskNames
  <2> QED BY <2>1, <2>2 DEF OpenTicket
<1>5. Begin(t, w, rest, TRUE)
  BY <1>1
<1>6. status # "pending" => rest = <<>>
  OBVIOUS
<1> HIDE DEF w, rest
<1>7. writing'[t] = w /\ todo'[t] = rest
  BY <1>4, <1>5, Begun
<1>8. LastWord(t)'
  <2>1. store[TicketRow(t)] = NoRow
    BY <1>4 DEF StatusInv, LastWord
  <2>2. StatusOf(t) \notin DOMAIN writing'[t]
    BY <1>2, <1>7, RowNames
  <2>3. writing'[t][TicketRow(t)] \in Final => todo'[t] = <<>>
    BY <1>2, <1>6, <1>7, FinalCells
  <2> QED BY <1>4, <2>1, <2>2, <2>3, FinalCells DEF LastWord
<1> QED BY <1>3, <1>4, <1>5, <1>8, StatusBegun

\* A ticket that is not done begins a transaction without a last word, or its
\* last one.
LEMMA TicketGoesOn ==
  ASSUME LedgerKinds, StatusInv, NEW t \in Tickets, NEW w, NEW rest, NEW fresh, Begin(t, w, rest, fresh),
         todo[t] # <<>>, store' = store, submitted' = submitted,
         Spares(t, w), TicketRow(t) \notin DOMAIN w,
         StatusOf(t) \in DOMAIN w => rest \in {<<>>, <<<<"legs">>>>},
         \/ Head(todo[t])[1] # "legs"
         \/ rest = <<>> /\ StatusOf(t) \notin DOMAIN w
  PROVE  StatusInv'
<1>1. t \in Tasks
  BY TaskNames
<1>2. writing'[t] = w /\ todo'[t] = rest
  BY <1>1, Begun
<1>3. t \in submitted
  BY DEF StatusInv, LastWord, Idle
<1>4. store[TicketRow(t)] \in Final => todo[t] = <<<<"legs">>>>
  BY DEF StatusInv, LastWord, Done
<1>5. <<<<"legs">>>> # <<>> /\ Head(<<<<"legs">>>>)[1] = "legs"
  OBVIOUS
<1>6. store[TicketRow(t)] \in Final => rest = <<>> /\ StatusOf(t) \notin DOMAIN w
  BY <1>4, <1>5
<1>7. LastWord(t)'
  BY <1>2, <1>3, <1>6 DEF LastWord, Done
<1> QED BY <1>1, <1>7, StatusBegun

LEMMA EmitRow ==
  ASSUME NEW t, NEW o, NEW kind \in LegKinds
  PROVE  /\ Spares(t, Written(t, kind, o))
         /\ TicketRow(t) \notin DOMAIN Written(t, kind, o) /\ StatusOf(t) \notin DOMAIN Written(t, kind, o)
<1>1. PICK r, x : Written(t, kind, o) = Holding(r, x) /\ r[1] \in LegKinds
  <2>1. CASE kind = "order"
    BY <2>1, RowNames DEF Written, LegKinds
  <2>2. CASE kind = "fill"
    BY <2>2, RowNames DEF Written, LegKinds
  <2>3. CASE kind = "balance"
    BY <2>3, RowNames DEF Written, LegKinds
  <2>4. CASE kind = "position"
    BY <2>4, RowNames DEF Written, LegKinds
  <2> QED BY <2>1, <2>2, <2>3, <2>4 DEF LegKinds
<1>2. r[1] \notin {"ticket", "status"}
  BY <1>1 DEF LegKinds
<1>3. Spares(t, Holding(r, x))
  BY <1>2, OneSpares
<1>4. DOMAIN Holding(r, x) = {r}
  BY OneRow
<1> QED BY <1>1, <1>2, <1>3, <1>4, RowNames

LEMMA TicketLastWord ==
  ASSUME LedgerKinds, StatusInv, NEW t \in Tickets,
         \/ OpenTicket(t) \/ Fill(t) \/ RefuseLegs(t) \/ WriteRejectedLegs(t)
         \/ Emit(t) \/ EmitRaises(t) \/ WriteStatus(t)
  PROVE  StatusInv'
<1>1. CASE OpenTicket(t)
  BY <1>1, OpenTicketLastWord
<1>2. CASE Fill(t)
  <2> DEFINE w == Holding(OrderRow(t, Pair[1]), "filled")
  <2>1. DOMAIN w = {OrderRow(t, Pair[1])} /\ Spares(t, w)
    BY OneRow, OneSpares, RowNames
  <2>2. Begin(t, w, FillPlan, TRUE)
    BY <1>2 DEF Fill, FillPlan
  <2>3. TicketRow(t) \notin DOMAIN w /\ StatusOf(t) \notin DOMAIN w
    BY <2>1, RowNames
  <2> HIDE DEF w
  <2> QED BY <1>2, <2>1, <2>2, <2>3, TicketGoesOn DEF Fill, AtStep
<1>3. CASE RefuseLegs(t)
  <2> DEFINE w == Holding(StatusOf(t), "rejected")
  <2>1. DOMAIN w = {StatusOf(t)} /\ Spares(t, w)
    BY OneRow, OneSpares, RowNames
  <2>2. Begin(t, w, <<<<"legs">>>>, TRUE)
    BY <1>3 DEF RefuseLegs
  <2>3. TicketRow(t) \notin DOMAIN w
    BY <2>1, RowNames
  <2> HIDE DEF w
  <2> QED BY <1>3, <2>1, <2>2, <2>3, TicketGoesOn DEF RefuseLegs, AtStep
<1>4. CASE WriteRejectedLegs(t)
  <2> DEFINE w == [r \in {OrderRow(t, o) : o \in Traded} |-> "rejected"]
  <2>1. \A r \in DOMAIN w : r[1] = "order"
    BY RowNames
  <2>2. Begin(t, w, <<>>, TRUE)
    BY <1>4 DEF WriteRejectedLegs
  <2> HIDE DEF w
  <2>3. \A u : TicketRow(u) \notin DOMAIN w /\ StatusOf(u) \notin DOMAIN w
    BY <2>1, RowNames
  <2>4. Spares(t, w)
    BY <2>3 DEF Spares
  <2> QED BY <1>4, <2>2, <2>3, <2>4, TicketGoesOn DEF WriteRejectedLegs, AtStep
<1>5. CASE Emit(t)
  <2>1. PICK kind \in LegKinds :
          /\ AtStep(t, kind)
          /\ Begin(t, Written(t, kind, Head(todo[t])[2]), AfterEmit(t), stale[t] = NoRow)
    BY <1>5 DEF Emit, LegKinds
  <2> DEFINE w == Written(t, kind, Head(todo[t])[2])
  <2>2. Spares(t, w) /\ TicketRow(t) \notin DOMAIN w /\ StatusOf(t) \notin DOMAIN w
    BY EmitRow
  <2>3. store' = store /\ submitted' = submitted
    BY <1>5 DEF Emit
  <2>4. todo[t] # <<>> /\ Head(todo[t])[1] # "legs"
    BY <2>1 DEF AtStep, LegKinds
  <2>5. Begin(t, w, AfterEmit(t), stale[t] = NoRow)
    BY <2>1
  <2> HIDE DEF w
  <2> QED BY <2>2, <2>3, <2>4, <2>5, TicketGoesOn
<1>6. CASE EmitRaises(t)
  <2>1. /\ todo' = [todo EXCEPT ![t] = <<>>] /\ writing' = writing /\ store' = store /\ submitted' = submitted
        /\ writing[t] = NoWrite /\ todo[t] # <<>> /\ Head(todo[t])[1] = "balance"
    BY <1>6 DEF EmitRaises, AtStep
  <2>2. \A u \in Tickets : todo'[u] = IF u = t THEN <<>> ELSE todo[u]
    BY <2>1, TaskNames DEF LedgerKinds, TaskKinds
  <2>3. t \in submitted
    BY <2>1 DEF StatusInv, LastWord, Idle
  <2>4. store[TicketRow(t)] \notin Final
    <3>1. todo[t] # <<<<"legs">>>>
      BY <2>1
    <3> QED BY <2>1, <3>1 DEF StatusInv, LastWord, Done
  <2>5. LastWord(t)'
    BY <2>1, <2>2, <2>3, <2>4 DEF LastWord, NoWrite
  <2>6. \A u \in Tickets \ {t} : LastWord(u)'
    BY <2>1, <2>2, LastWordKept DEF StatusInv
  <2>7. \A k \in Tasks : Spares(k, writing[k])'
    BY <2>1 DEF StatusInv, Spares
  <2> QED BY <2>5, <2>6, <2>7 DEF StatusInv
<1>7. CASE WriteStatus(t)
  <2> DEFINE w == Holding(StatusOf(t), "filled")
  <2>1. DOMAIN w = {StatusOf(t)} /\ Spares(t, w)
    BY OneRow, OneSpares, RowNames
  <2>2. Begin(t, w, <<>>, TRUE)
    BY <1>7 DEF WriteStatus
  <2>3. TicketRow(t) \notin DOMAIN w
    BY <2>1, RowNames
  <2> HIDE DEF w
  <2> QED BY <1>7, <2>1, <2>2, <2>3, TicketGoesOn DEF WriteStatus, AtStep
<1> QED BY <1>1, <1>2, <1>3, <1>4, <1>5, <1>6, <1>7

\* What the other tasks do: a transaction of no ticket's status, but a reset's
\* that erases them, or the end of a plan.
BeginsElsewhere ==
  \E k \in {"sweep", "settle", "reset"} : \E w, rest, fresh :
    Begin(k, w, rest, fresh) /\ Spares(k, w) /\ store' = store /\ submitted' = submitted
EndsElsewhere ==
  \E k \in {"settle", "reset"} :
    /\ todo' = [todo EXCEPT ![k] = <<>>] /\ writing' = writing
    /\ store' = store /\ submitted' = submitted

LEMMA SweepSpares ==
  ASSUME NEW from \in Venues, NEW to \in Venues, Sweep(from, to)
  PROVE  BeginsElsewhere
<1> DEFINE a == (cash[from] - cash[to]) \div 2
           f == Holding(TransferRow(from), -a)
           g == Holding(TransferRow(to), a)
           x == Holding(BalanceRow(from), cash'[from])
           y == Holding(BalanceRow(to), cash'[to])
<1>1. Spares("sweep", f) /\ Spares("sweep", g) /\ Spares("sweep", x) /\ Spares("sweep", y)
  BY RowNames, OneSpares
<1>2. Begin("sweep", f ++ g ++ (x ++ y), <<>>, TRUE)
  BY DEF Sweep, SweptBalances
<1> HIDE DEF f, g, x, y
<1>3. Spares("sweep", f ++ g) /\ Spares("sweep", x ++ y)
  BY <1>1, BothSpare
<1> DEFINE b == x ++ y
           c == f ++ g
<1> HIDE DEF b, c
<1>4. Spares("sweep", c ++ b)
  BY <1>3, BothSpare DEF b, c
<1>5. Begin("sweep", c ++ b, <<>>, TRUE)
  BY <1>2 DEF b, c
<1> QED BY <1>4, <1>5 DEF Sweep, BeginsElsewhere

LEMMA SettleSpares ==
  ASSUME NEW o, NEW rest, SettleLeg(o, rest)
  PROVE  BeginsElsewhere
<1> DEFINE held == position[o].qty # 0
           f == Holding(SettlementRow(o), ResolvedValue(o))
           x == Holding(BalanceRow(VenueOf[o]), cash'[VenueOf[o]])
           y == Holding(PositionRow(o), position'[o])
           more == IF held THEN x ++ y ELSE NoWrite
<1>1. Spares("settle", f) /\ Spares("settle", x) /\ Spares("settle", y)
  BY RowNames, OneSpares
<1>2. Begin("settle", f ++ more, rest, TRUE)
  BY DEF SettleLeg, OnSettled
<1> HIDE DEF f, x, y
<1>3. Spares("settle", x ++ y)
  BY <1>1, BothSpare
<1>4. Spares("settle", more)
  BY <1>3, NoneSpares
<1> HIDE DEF more
<1>5. Spares("settle", f ++ more)
  BY <1>1, <1>4, BothSpare
<1> QED BY <1>2, <1>5 DEF SettleLeg, BeginsElsewhere

LEMMA ResetSpares ==
  ASSUME Reset \/ SeedVenue
  PROVE  BeginsElsewhere
<1>1. CASE Reset
  <2>1. \A u : StatusOf(u) \notin Rows
    BY DEF Rows, Mirrored, BalanceRow, PositionRow, TicketRow, OrderRow, FillRow, SettlementRow,
           TransferRow, StatusOf
  <2>2. DOMAIN Emptied = Rows /\ \A r \in Rows : Emptied[r] = NoRow
    BY DEF Emptied
  <2>3. Spares("reset", Emptied)
    BY <2>1, <2>2 DEF Spares
  <2> QED BY <1>1, <2>3 DEF Reset, BeginsElsewhere
<1>2. CASE SeedVenue
  <2>1. \A v : Spares("reset", Holding(BalanceRow(v), Seed))
    BY RowNames, OneSpares
  <2> QED BY <1>2, <2>1 DEF SeedVenue, BeginsElsewhere
<1> QED BY <1>1, <1>2

\* What a step of the ledger is to the tickets' statuses.
TicketStep(t) ==
  \/ OpenTicket(t) \/ Fill(t) \/ RefuseLegs(t) \/ WriteRejectedLegs(t)
  \/ Emit(t) \/ EmitRaises(t) \/ WriteStatus(t)

LEMMA StepParts ==
  ASSUME LedgerNext
  PROVE  \/ \E k \in Tasks : Lands(k) \/ (Dropped(k) /\ writing[k] # NoWrite)
         \/ \E t \in Tickets : TicketStep(t)
         \/ BeginsElsewhere \/ EndsElsewhere
<1>1. ASSUME NEW k \in Tasks, GivenUp(k) \/ Refused(k)
      PROVE  Dropped(k) /\ writing[k] # NoWrite
  BY <1>1 DEF GivenUp, Refused
<1>2. ASSUME NEW from \in Venues, NEW to \in Venues, Sweep(from, to)
      PROVE  BeginsElsewhere
  BY <1>2, SweepSpares
<1>3. ASSUME SettleGame \/ SettleNext
      PROVE  BeginsElsewhere
  <2>1. \E o, rest : SettleLeg(o, rest)
    BY <1>3 DEF SettleGame, SettleNext
  <2> QED BY <2>1, SettleSpares
<1>4. ASSUME MarkSettled
      PROVE  EndsElsewhere
  BY <1>4 DEF MarkSettled, EndsElsewhere
<1>5. ASSUME ClearSettled
      PROVE  EndsElsewhere
  BY <1>5 DEF ClearSettled, EndsElsewhere
<1> QED BY <1>1, <1>2, <1>3, <1>4, <1>5, ResetSpares DEF LedgerNext, TicketStep

\* What a landing does to the status of a ticket.
LEMMA LandedStatus ==
  ASSUME LedgerKinds, StatusInv, NEW k \in Tasks, Lands(k), NEW t \in Tickets
  PROVE  store'[TicketRow(t)] =
           IF TicketRow(t) \in DOMAIN writing[k] THEN writing[k][TicketRow(t)]
           ELSE IF store[TicketRow(t)] # NoRow /\ StatusOf(t) \in DOMAIN writing[k]
                THEN writing[k][StatusOf(t)] ELSE store[TicketRow(t)]
<1>1. TicketRow(t) \in DOMAIN writing[k] => StatusOf(t) \notin DOMAIN writing[k]
  <2>1. CASE k = t
    BY <2>1 DEF StatusInv, LastWord
  <2>2. CASE k # t
    BY <2>2 DEF StatusInv, Spares
  <2> QED BY <2>1, <2>2
<1>2. store' = LandedIn(writing[k])
  BY DEF Lands
<1> DEFINE w == writing[k]
<1>3. /\ TicketRow(t) \in DOMAIN w /\ StatusOf(t) \notin DOMAIN w => LandedIn(w)[TicketRow(t)] = w[TicketRow(t)]
      /\ TicketRow(t) \notin DOMAIN w =>
           LandedIn(w)[TicketRow(t)] = IF store[TicketRow(t)] # NoRow /\ StatusOf(t) \in DOMAIN w
                                       THEN w[StatusOf(t)] ELSE store[TicketRow(t)]
  BY LandedRows
<1> QED BY <1>1, <1>2, <1>3

\* A landing leaves the status of another task's ticket, or erases it.
LEMMA OthersLand ==
  ASSUME LedgerKinds, StatusInv, NEW k \in Tasks, Lands(k), NEW t \in Tickets,
         \/ k # t
         \/ TicketRow(t) \notin DOMAIN writing[k] /\ StatusOf(t) \notin DOMAIN writing[k]
  PROVE  store'[TicketRow(t)] \in {store[TicketRow(t)], NoRow}
<1>1. Spares(k, writing[k])
  BY DEF StatusInv
<1>2. k # t => /\ StatusOf(t) \notin DOMAIN writing[k]
               /\ TicketRow(t) \in DOMAIN writing[k] => writing[k][TicketRow(t)] = NoRow
  BY <1>1 DEF Spares
<1> QED BY <1>2, LandedStatus

LEMMA LandsStatus ==
  ASSUME LedgerKinds, StatusInv, NEW k \in Tasks, Lands(k)
  PROVE  StatusInv'
<1>1. /\ \A j \in Tasks : writing'[j] = IF j = k THEN NoWrite ELSE writing[j]
      /\ todo' = todo /\ submitted' = submitted
  BY DEF Lands, LedgerKinds, TaskKinds
<1>2. \A j \in Tasks : Spares(j, writing'[j])
  BY <1>1, NoneSpares DEF StatusInv
<1>3. \A j \in Tasks : Spares(j, writing[j])'
  BY <1>2 DEF Spares
<1>4. ASSUME NEW t \in Tickets, t # k
      PROVE  LastWord(t)'
  <2>1. store'[TicketRow(t)] \in {store[TicketRow(t)], NoRow}
    BY <1>4, OthersLand
  <2>2. writing'[t] = writing[t] /\ todo'[t] = todo[t]
    BY <1>1, <1>4, TaskNames
  <2>3. LastWord(t)
    BY DEF StatusInv
  <2> QED BY <1>1, <2>1, <2>2, <2>3, FinalCells DEF LastWord, Done, Idle
<1>5. ASSUME NEW t \in Tickets, t = k
      PROVE  LastWord(t)'
  <2> DEFINE w == writing[t]
  <2>1. LastWord(t) /\ writing'[t] = NoWrite /\ todo'[t] = todo[t] /\ t \in submitted
    BY <1>1, <1>5, TaskNames DEF StatusInv, LastWord, Idle, Lands
  <2>2. TicketRow(t) \notin DOMAIN writing'[t] /\ StatusOf(t) \notin DOMAIN writing'[t]
    BY <2>1 DEF NoWrite
  <2>3. store'[TicketRow(t)] \in Final => todo[t] \in {<<>>, <<<<"legs">>>>}
    <3>1. CASE TicketRow(t) \in DOMAIN w
      BY <1>5, <2>1, <3>1, LandedStatus DEF LastWord
    <3>2. CASE TicketRow(t) \notin DOMAIN w /\ StatusOf(t) \in DOMAIN w
      BY <2>1, <3>2 DEF LastWord
    <3>3. CASE TicketRow(t) \notin DOMAIN w /\ StatusOf(t) \notin DOMAIN w
      BY <1>5, <2>1, <3>3, LandedStatus DEF LastWord, Done
    <3> QED BY <3>1, <3>2, <3>3
  <2> QED BY <1>1, <2>1, <2>2, <2>3 DEF LastWord, Done
<1> QED BY <1>3, <1>4, <1>5 DEF StatusInv

LEMMA DroppedStatus ==
  ASSUME LedgerKinds, StatusInv, NEW k \in Tasks, Dropped(k), writing[k] # NoWrite
  PROVE  StatusInv'
<1>1. /\ \A j \in Tasks : writing'[j] = IF j = k THEN NoWrite ELSE writing[j]
      /\ \A j \in Tickets : todo'[j] = todo[j]
      /\ submitted' = submitted /\ store' = store
  BY TaskNames DEF Dropped, LedgerKinds, TaskKinds
<1>2. \A j \in Tasks : Spares(j, writing'[j])
  BY <1>1, NoneSpares DEF StatusInv
<1>3. \A j \in Tasks : Spares(j, writing[j])'
  BY <1>2 DEF Spares
<1>4. ASSUME NEW t \in Tickets
      PROVE  LastWord(t)'
  <2>1. LastWord(t) /\ t \in Tasks
    BY TaskNames DEF StatusInv
  <2>2. CASE t # k
    BY <1>1, <2>1, <2>2, LastWordKept
  <2>3. CASE t = k
    <3>1. writing'[t] = NoWrite /\ t \in submitted
      BY <1>1, <2>1, <2>3 DEF LastWord, Idle
    <3>2. TicketRow(t) \notin DOMAIN writing'[t] /\ StatusOf(t) \notin DOMAIN writing'[t]
      BY <3>1 DEF NoWrite
    <3> QED BY <1>1, <2>1, <3>1, <3>2 DEF LastWord, Done
  <2> QED BY <2>2, <2>3
<1> QED BY <1>3, <1>4 DEF StatusInv

LEMMA StatusInvInit == LedgerInit => StatusInv
<1> SUFFICES ASSUME LedgerInit PROVE StatusInv
  OBVIOUS
<1>1. \A k \in Tasks : writing[k] = NoWrite /\ todo[k] = <<>>
  BY DEF LedgerInit
<1>2. \A t \in Tickets : store[TicketRow(t)] = NoRow
  BY RowKeys, RowNames DEF LedgerInit
<1>3. \A k \in Tasks : Spares(k, writing[k])
  BY <1>1, NoneSpares
<1>4. ASSUME NEW t \in Tickets
      PROVE  LastWord(t)
  <2>1. writing[t] = NoWrite /\ todo[t] = <<>>
    BY <1>1, TaskNames
  <2> QED BY <1>2, <2>1, FinalCells DEF LastWord, Idle, NoWrite
<1> QED BY <1>3, <1>4 DEF StatusInv

LEMMA StatusInvStep ==
  ASSUME LedgerKinds, StatusInv, [LedgerNext]_ledgerVars
  PROVE  StatusInv'
<1>1. ASSUME NEW t \in Tickets, TicketStep(t)
      PROVE  StatusInv'
  BY <1>1, TicketLastWord DEF TicketStep
<1>2. CASE BeginsElsewhere
  <2>1. PICK k \in {"sweep", "settle", "reset"} : \E w, rest, fresh :
          Begin(k, w, rest, fresh) /\ Spares(k, w) /\ store' = store /\ submitted' = submitted
    BY <1>2 DEF BeginsElsewhere
  <2>2. PICK w, rest, fresh :
          Begin(k, w, rest, fresh) /\ Spares(k, w) /\ store' = store /\ submitted' = submitted
    BY <2>1
  <2>3. k \in Tasks /\ k \notin Tickets
    BY TaskNames
  <2> QED BY <2>2, <2>3, StatusBegun
<1>3. CASE EndsElsewhere
  <2>1. PICK k \in {"settle", "reset"} :
          /\ todo' = [todo EXCEPT ![k] = <<>>] /\ writing' = writing
          /\ store' = store /\ submitted' = submitted
    BY <1>3 DEF EndsElsewhere
  <2>2. \A t \in Tickets : todo'[t] = todo[t]
    BY <2>1, TaskNames DEF LedgerKinds, TaskKinds
  <2>3. \A t \in Tickets : LastWord(t)'
    BY <2>1, <2>2, LastWordKept DEF StatusInv
  <2>4. \A j \in Tasks : Spares(j, writing[j])'
    BY <2>1 DEF StatusInv, Spares
  <2> QED BY <2>3, <2>4 DEF StatusInv
<1>4. CASE UNCHANGED ledgerVars
  <2>1. UNCHANGED <<submitted, store, writing, todo>>
    BY <1>4 DEF ledgerVars
  <2>2. \A t \in Tickets : LastWord(t)'
    BY <2>1, LastWordKept DEF StatusInv
  <2>3. \A j \in Tasks : Spares(j, writing[j])'
    BY <2>1 DEF StatusInv, Spares
  <2> QED BY <2>2, <2>3 DEF StatusInv
<1> QED BY <1>1, <1>2, <1>3, <1>4, StepParts, LandsStatus, DroppedStatus

\* The last word stands: a step leaves it, or erases it with all the rows.
LEMMA WordStands ==
  ASSUME LedgerKinds, StatusInv, [LedgerNext]_ledgerVars, NEW t \in Tickets, Done(t)
  PROVE  Done(t)' /\ store'[TicketRow(t)] \in {store[TicketRow(t)], NoRow}
<1>1. t \in submitted' /\ t \in Tasks
  <2>1. submitted \subseteq submitted'
    <3>1. CASE UNCHANGED ledgerVars
      BY <3>1 DEF ledgerVars
    <3>2. CASE LedgerNext
      <4>1. ASSUME NEW u \in Tickets, TicketStep(u)
            PROVE  submitted \subseteq submitted'
        BY <4>1 DEF TicketStep, OpenTicket, Fill, RefuseLegs, WriteRejectedLegs, Emit, EmitRaises, WriteStatus
      <4> QED BY <3>2, <4>1, StepParts DEF Lands, Dropped, BeginsElsewhere, EndsElsewhere
    <3> QED BY <3>1, <3>2
  <2> QED BY <2>1, TaskNames DEF Done
<1>2. ASSUME writing'[t] = writing[t] \/ writing'[t] = NoWrite, todo'[t] = todo[t]
      PROVE  Done(t)'
  BY <1>1, <1>2 DEF Done, NoWrite
<1>3. ASSUME NEW k \in Tasks, Lands(k)
      PROVE  Done(t)' /\ store'[TicketRow(t)] \in {store[TicketRow(t)], NoRow}
  <2>1. writing'[t] \in {writing[t], NoWrite} /\ todo'[t] = todo[t]
    BY <1>1, <1>3 DEF Lands, LedgerKinds, TaskKinds
  <2> QED BY <1>2, <1>3, <2>1, OthersLand DEF Done
<1>4. ASSUME NEW k \in Tasks, Dropped(k)
      PROVE  Done(t)' /\ store' = store
  <2>1. writing'[t] \in {writing[t], NoWrite} /\ todo'[t] = todo[t] /\ store' = store
    BY <1>1, <1>4, TaskNames DEF Dropped, LedgerKinds, TaskKinds
  <2> QED BY <1>2, <2>1
<1>5. ASSUME NEW u \in Tickets, u # t, TicketStep(u)
      PROVE  Done(t)' /\ store' = store
  <2>1. u \in Tasks
    BY TaskNames
  <2>2. store' = store /\ (EmitRaises(u) \/ \E w, rest, fresh : Begin(u, w, rest, fresh))
    BY <1>5 DEF TicketStep, OpenTicket, Fill, RefuseLegs, WriteRejectedLegs, Emit, EmitRaises, WriteStatus
  <2>3. writing'[t] = writing[t] /\ todo'[t] = todo[t]
    <3>1. CASE EmitRaises(u)
      BY <1>1, <1>5, <3>1 DEF EmitRaises, LedgerKinds, TaskKinds
    <3>2. CASE \E w, rest, fresh : Begin(u, w, rest, fresh)
      BY <1>1, <1>5, <2>1, <3>2, Begun
    <3> QED BY <2>2, <3>1, <3>2
  <2> QED BY <1>2, <2>2, <2>3
<1>6. ASSUME TicketStep(t)
      PROVE  Done(t)' /\ store' = store
  <2>1. todo[t] \in {<<>>, <<<<"legs">>>>} /\ t \in submitted
    BY DEF Done
  <2>2. \A kind : AtStep(t, kind) => kind = "legs"
    BY <2>1 DEF AtStep
  <2>3. WriteRejectedLegs(t)
    <3>1. ~OpenTicket(t)
      BY <2>1, OpenedNew
    <3>2. ~Fill(t) /\ ~RefuseLegs(t) /\ ~EmitRaises(t) /\ ~WriteStatus(t)
      BY <2>2 DEF Fill, RefuseLegs, EmitRaises, WriteStatus
    <3>3. ~Emit(t)
      BY <2>2 DEF Emit
    <3> QED BY <1>6, <3>1, <3>2, <3>3 DEF TicketStep
  <2> DEFINE w == [r \in {OrderRow(t, o) : o \in Traded} |-> "rejected"]
  <2>4. \A r \in DOMAIN w : r[1] = "order"
    BY RowNames
  <2>5. Begin(t, w, <<>>, TRUE) /\ store' = store
    BY <2>3 DEF WriteRejectedLegs
  <2> HIDE DEF w
  <2>6. writing'[t] = w /\ todo'[t] = <<>>
    BY <1>1, <2>5, Begun
  <2>7. TicketRow(t) \notin DOMAIN w /\ StatusOf(t) \notin DOMAIN w
    BY <2>4, RowNames
  <2> QED BY <1>1, <2>5, <2>6, <2>7 DEF Done
<1>7. ASSUME BeginsElsewhere
      PROVE  Done(t)' /\ store' = store
  <2>1. PICK k \in {"sweep", "settle", "reset"} : \E w, rest, fresh :
          Begin(k, w, rest, fresh) /\ store' = store
    BY <1>7 DEF BeginsElsewhere
  <2>2. PICK w, rest, fresh : Begin(k, w, rest, fresh) /\ store' = store
    BY <2>1
  <2>3. k \in Tasks /\ k # t
    BY TaskNames
  <2>4. writing'[t] = writing[t] /\ todo'[t] = todo[t]
    BY <1>1, <2>2, <2>3, Begun
  <2> QED BY <1>2, <2>2, <2>4
<1>8. ASSUME EndsElsewhere
      PROVE  Done(t)' /\ store' = store
  <2>1. writing'[t] = writing[t] /\ todo'[t] = todo[t] /\ store' = store
    BY <1>1, <1>8, TaskNames DEF EndsElsewhere, LedgerKinds, TaskKinds
  <2> QED BY <1>2, <2>1
<1>9. ASSUME UNCHANGED ledgerVars
      PROVE  Done(t)' /\ store' = store
  BY <1>1, <1>2, <1>9 DEF ledgerVars
<1> QED BY <1>3, <1>4, <1>5, <1>6, <1>7, <1>8, <1>9, StepParts

-----------------------------------------------------------------------------
(* The page, one statement after the other.                                 *)

\* What the scalars had of a ticket's outcome is the ticket's last word, and
\* what the tickets were read as once they were.
FirstReading(t) == scalars[t] \in Final =>
  Done(t) /\ store[TicketRow(t)] \in {scalars[t], NoRow}
SecondReading(t) == reading \notin {"none", "tickets"} /\ scalars[t] \in Final =>
  Status(t) \in {scalars[t], NoRow}

PageInv ==
  /\ PageTypeOK /\ ScalarKinds /\ PageCells
  /\ \A t \in Tickets : FirstReading(t) /\ SecondReading(t)

\* A statement reads rows into the page.
LEMMA StatementReads ==
  ASSUME LedgerKinds, PageCells, NEW table, seen' = AsRead(table)
  PROVE  /\ PageCells'
         /\ \A t \in Tickets :
              seen'[TicketRow(t)] = IF table = "ticket" THEN store[TicketRow(t)] ELSE seen[TicketRow(t)]
<1> DEFINE w == AsRead(table)
<1>1. DOMAIN w = Rows /\ \A r \in Rows : w[r] \in {store[r], seen[r]}
  BY DEF AsRead
<1>2. \A t \in Tickets : w[TicketRow(t)] = IF table = "ticket" THEN store[TicketRow(t)] ELSE seen[TicketRow(t)]
  BY RowKeys, RowNames DEF AsRead
<1>3. IsWrite(store) /\ IsWrite(seen) /\ DOMAIN store = Rows /\ DOMAIN seen = Rows
  BY DEF LedgerKinds, StoreKinds, PageCells
<1> HIDE DEF w
<1>4. IsWrite(w)
  <2>1. /\ \A v \in Venues : w[BalanceRow(v)] \in Nat \cup {NoRow}
        /\ \A o \in Traded : w[PositionRow(o)] \in PositionValues \cup {NoRow}
    BY <1>1, <1>3, RowKeys DEF IsWrite
  <2>2. \A t \in Tickets : w[TicketRow(t)] \in TicketCells \cup {NoRow}
    BY <1>1, <1>3, RowKeys DEF IsWrite
  <2>3. \A t \in Tickets : StatusOf(t) \notin Rows
    BY DEF Rows, Mirrored, BalanceRow, PositionRow, TicketRow, OrderRow, FillRow, SettlementRow,
           TransferRow, StatusOf
  <2>4. \A t \in Tickets, o \in Traded : w[FillRow(t, o)] \in FillValues \cup {NoRow}
    BY <1>1, <1>3, RowKeys DEF IsWrite
  <2>5. \A o \in Traded : w[SettlementRow(o)] \in Nat \cup {NoRow}
    BY <1>1, <1>3, RowKeys DEF IsWrite
  <2>6. \A v \in Venues : w[TransferRow(v)] \in Int \cup {NoRow}
    BY <1>1, <1>3, RowKeys DEF IsWrite
  <2> QED BY <1>1, <2>1, <2>2, <2>3, <2>4, <2>5, <2>6, RowKeys DEF IsWrite
<1>5. seen' = w
  BY DEF w
<1>6. PageCells'
  BY <1>1, <1>4, <1>5 DEF PageCells, IsWrite
<1> QED BY <1>2, <1>5, <1>6

LEMMA BlankPage ==
  ASSUME scalars' = [t \in Tickets |-> NoRow], seen' = Unread, reading' = "none",
         withheld' = {}, meanwhile' = 0
  PROVE  PageInv'
<1>1. PageCells'
  <2> DEFINE w == Unread
  <2>1. DOMAIN w = Rows /\ \A r \in Rows : w[r] = NoRow
    BY DEF Unread
  <2>2. \A t \in Tickets : StatusOf(t) \notin Rows
    BY DEF Rows, Mirrored, BalanceRow, PositionRow, TicketRow, OrderRow, FillRow, SettlementRow,
           TransferRow, StatusOf
  <2>3. seen' = w
    OBVIOUS
  <2> HIDE DEF w
  <2> QED BY <2>1, <2>2, <2>3, RowKeys DEF PageCells, IsWrite
<1>2. ScalarKinds'
  BY DEF ScalarKinds
<1>3. PageTypeOK'
  BY <1>1, ReportsAssumption DEF PageTypeOK, PageCells
<1>4. \A t \in Tickets : FirstReading(t)' /\ SecondReading(t)'
  BY FinalCells DEF FirstReading, SecondReading
<1> QED BY <1>1, <1>2, <1>3, <1>4 DEF PageInv

LEMMA PageInvInit == ReportsInit => PageInv
<1> SUFFICES ASSUME ReportsInit PROVE PageInv
  OBVIOUS
<1>1. PageCells
  <2>1. DOMAIN Unread = Rows /\ \A r \in Rows : Unread[r] = NoRow
    BY DEF Unread
  <2>2. \A t \in Tickets : StatusOf(t) \notin Rows
    BY DEF Rows, Mirrored, BalanceRow, PositionRow, TicketRow, OrderRow, FillRow, SettlementRow,
           TransferRow, StatusOf
  <2>3. DOMAIN seen = Rows /\ \A r \in Rows : seen[r] = NoRow
    BY <2>1 DEF ReportsInit
  <2> QED BY <2>2, <2>3, RowKeys DEF PageCells, IsWrite
<1>2. ScalarKinds /\ \A t \in Tickets : scalars[t] = NoRow
  BY DEF ScalarKinds, ReportsInit
<1>3. PageTypeOK
  BY <1>1, <1>2, ReportsAssumption DEF PageTypeOK, PageCells, ReportsInit
<1>4. \A t \in Tickets : FirstReading(t) /\ SecondReading(t)
  BY <1>2, FinalCells DEF FirstReading, SecondReading
<1> QED BY <1>1, <1>2, <1>3, <1>4 DEF PageInv

\* A statement, or the answer: the account stands still.
LEMMA PageStep ==
  ASSUME LedgerKinds, StatusInv, PageInv, PageNext, UNCHANGED ledgerVars
  PROVE  PageInv'
<1>1. PageTypeOK /\ ScalarKinds /\ PageCells
  BY DEF PageInv
<1>2. store' = store /\ writing' = writing /\ todo' = todo /\ submitted' = submitted
  BY DEF ledgerVars, history
<1>3. \A t \in Tickets : Done(t)' <=> Done(t)
  BY <1>2 DEF Done
<1>4. CASE ReadScalars
  <2>1. \A t \in Tickets : scalars'[t] = store[TicketRow(t)]
    BY <1>4 DEF ReadScalars
  <2>2. ScalarKinds'
    <3>1. DOMAIN scalars' = Tickets
      BY <1>4 DEF ReadScalars
    <3>2. \A t \in Tickets : store[TicketRow(t)] \in TicketStatuses \cup {NoRow}
      BY RowKeys DEF LedgerKinds, StoreKinds, IsWrite, TicketCells, TicketStatuses
    <3> QED BY <2>1, <3>1, <3>2 DEF ScalarKinds
  <2>3. PageCells' /\ seen' = seen /\ reading' = "tickets"
    BY <1>1, <1>4 DEF PageCells, IsWrite, ReadScalars
  <2>4. PageTypeOK'
    BY <1>1, <1>4, <2>2 DEF PageTypeOK, ScalarKinds, ReadScalars
  <2>5. \A t \in Tickets : FirstReading(t)'
    BY <1>2, <1>3, <2>1 DEF FirstReading, StatusInv, LastWord
  <2>6. \A t \in Tickets : SecondReading(t)'
    BY <2>3 DEF SecondReading
  <2> QED BY <2>2, <2>3, <2>4, <2>5, <2>6 DEF PageInv
<1>5. ASSUME scalars' = scalars
      PROVE  \A t \in Tickets : FirstReading(t)'
  BY <1>2, <1>3, <1>5 DEF PageInv, FirstReading
<1>6. CASE ReadTickets
  <2>1. PageCells' /\ \A t \in Tickets : seen'[TicketRow(t)] = store[TicketRow(t)]
    BY <1>1, <1>6, StatementReads DEF ReadTickets
  <2>2. ScalarKinds' /\ scalars' = scalars
    BY <1>1, <1>6 DEF ScalarKinds, ReadTickets
  <2>3. PageTypeOK'
    BY <1>1, <1>6, <2>1 DEF PageTypeOK, PageCells, ReadTickets
  <2>4. \A t \in Tickets : SecondReading(t)'
    BY <2>1, <2>2 DEF PageInv, FirstReading, SecondReading, Status
  <2> QED BY <1>5, <2>1, <2>2, <2>3, <2>4 DEF PageInv
<1>7. CASE ReadOrders \/ ReadFills \/ ReadSettlements
  <2>1. PICK table \in {"order", "fill", "settlement"} : seen' = AsRead(table)
    BY <1>7 DEF ReadOrders, ReadFills, ReadSettlements
  <2>2. PageCells' /\ \A t \in Tickets : seen'[TicketRow(t)] = seen[TicketRow(t)]
    BY <1>1, <2>1, StatementReads
  <2>3. ScalarKinds' /\ scalars' = scalars /\ reading \notin {"none", "tickets"}
    BY <1>1, <1>7 DEF ScalarKinds, ReadOrders, ReadFills, ReadSettlements
  <2>4. PageTypeOK'
    BY <1>1, <1>7, <2>2 DEF PageTypeOK, PageCells, ReadOrders, ReadFills, ReadSettlements
  <2>5. \A t \in Tickets : SecondReading(t)'
    BY <2>2, <2>3 DEF PageInv, SecondReading, Status
  <2> QED BY <1>5, <2>2, <2>3, <2>4, <2>5 DEF PageInv
<1>8. CASE ReadExcluded
  <2>1. scalars' = scalars /\ seen' = seen /\ reading = "excluded"
    BY <1>8 DEF ReadExcluded
  <2>2. ScalarKinds' /\ PageCells'
    BY <1>1, <2>1 DEF ScalarKinds, PageCells, IsWrite
  <2>3. PageTypeOK'
    BY <1>1, <1>8 DEF PageTypeOK, ReadExcluded
  <2>4. \A t \in Tickets : SecondReading(t)'
    BY <2>1 DEF PageInv, SecondReading, Status
  <2> QED BY <1>5, <2>1, <2>2, <2>3, <2>4 DEF PageInv
<1>9. CASE Answer
  BY <1>9, BlankPage DEF Answer
<1> QED BY <1>4, <1>6, <1>7, <1>8, <1>9 DEF PageNext

\* A step of the account, under a page or not.
LEMMA AccountStep ==
  ASSUME LedgerKinds, StatusInv, PageInv, AccountNext
  PROVE  PageInv'
<1>1. /\ scalars' = scalars /\ seen' = seen /\ reading' = reading /\ withheld' = withheld
      /\ LedgerNext
  BY DEF AccountNext
<1>2. ScalarKinds' /\ PageCells'
  BY <1>1 DEF PageInv, ScalarKinds, PageCells, IsWrite
<1>3. PageTypeOK'
  <2>1. meanwhile' \in 0..MaxMeanwhile
    BY ReportsAssumption DEF PageInv, PageTypeOK, AccountNext
  <2> QED BY <1>1, <2>1 DEF PageInv, PageTypeOK
<1>4. ASSUME NEW t \in Tickets
      PROVE  FirstReading(t)'
  BY <1>1, WordStands DEF PageInv, FirstReading
<1>5. \A t \in Tickets : SecondReading(t)'
  BY <1>1 DEF PageInv, SecondReading, Status
<1> QED BY <1>2, <1>3, <1>4, <1>5 DEF PageInv

LEMMA PageInvStep ==
  ASSUME LedgerKinds, StatusInv, PageInv, [ReportsNext]_reportsVars
  PROVE  PageInv'
<1>1. CASE UNCHANGED reportsVars
  <2>1. UNCHANGED <<submitted, store, writing, todo>> /\ UNCHANGED pageVars
    BY <1>1 DEF reportsVars, ledgerVars, history
  <2>2. \A t \in Tickets : Done(t)' <=> Done(t)
    BY <2>1 DEF Done
  <2>3. ScalarKinds' /\ PageCells' /\ PageTypeOK'
    BY <2>1 DEF PageInv, ScalarKinds, PageCells, IsWrite, PageTypeOK, pageVars
  <2>4. \A t \in Tickets : FirstReading(t)' /\ SecondReading(t)'
    BY <2>1, <2>2 DEF PageInv, FirstReading, SecondReading, Status, pageVars
  <2> QED BY <2>3, <2>4 DEF PageInv
<1> QED BY <1>1, PageStep, AccountStep DEF ReportsNext

-----------------------------------------------------------------------------
(* The pages' theorems.                                                     *)

\* The account under its pages is the account: they only read.
LEMMA PagesRunLedger == ReportsSpec => LedgerSpec
<1>1. ReportsInit => LedgerInit
  BY DEF ReportsInit
<1>2. [ReportsNext]_reportsVars => [LedgerNext]_ledgerVars
  BY DEF ReportsNext, AccountNext, reportsVars
<1> QED BY <1>1, <1>2, PTL DEF ReportsSpec, LedgerSpec

\* What the pages' theorems rest on.
ReportsInv == LedgerInv /\ AuditInv /\ StatusInv /\ PageInv

LEMMA ReportsInvHolds == ReportsSpec => []ReportsInv
<1>1. ReportsInit => ReportsInv
  BY LedgerInvInit, AuditInvInit, StatusInvInit, PageInvInit DEF ReportsInit, ReportsInv
<1>2. ReportsInv /\ [ReportsNext]_reportsVars => ReportsInv'
  <2> SUFFICES ASSUME ReportsInv, [ReportsNext]_reportsVars
               PROVE  ReportsInv'
    OBVIOUS
  <2>1. [LedgerNext]_ledgerVars
    BY DEF ReportsNext, AccountNext, reportsVars
  <2>2. LedgerKinds
    BY DEF ReportsInv, LedgerInv
  <2> QED BY <2>1, <2>2, LedgerInvStep, AuditInvStep, StatusInvStep, PageInvStep DEF ReportsInv
<1> QED BY <1>1, <1>2, PTL DEF ReportsSpec

\* A page under way is of its kind at every statement (paper_performance): what
\* it awaits, the statuses and rows it has read, the tickets it withholds.
THEOREM PageTypes == ReportsSpec => []PageTypeOK
<1>1. ReportsInv => PageTypeOK
  BY DEF ReportsInv, PageInv
<1> QED BY <1>1, ReportsInvHolds, PTL

\* The counts of a page (paper_performance, app.py), whatever landed between
\* the statements that read them: a ticket that had its outcome keeps it or is
\* erased, the slices of the mix add up to the attempts but for the tickets
\* that came or are gone in between, and the leagues to the attempts.
THEOREM PagesReconcile == ReportsSpec => [](Answered => CountsReconcile)
<1>1. ReportsInv => (Answered => CountsReconcile)
  <2> SUFFICES ASSUME ReportsInv, Answered
               PROVE  CountsReconcile
    OBVIOUS
  <2>1. ScalarKinds /\ KeepsOutcome
    BY DEF ReportsInv, PageInv, SecondReading, Answered, KeepsOutcome, Final
  <2> QED BY <2>1, CountsReconcileAlways
<1> QED BY <1>1, ReportsInvHolds, PTL

\* The account pages (performance.py, repositories.py), for any tickets, fees,
\* venues and bounds: a page answered from statements that saw different
\* moments says the same of a ticket wherever it is counted, is off by what
\* came or went between them and by nothing else, and its log loses and
\* repeats no ticket; and once nothing is under way, was given up or was
\* overtaken, the rows explain the cash of every venue.
THEOREM ReportsAreTrue == ReportsSpec => []ReportsAgree
<1>1. ReportsInv => OutcomesAgree /\ FiguresReconcile /\ PagesPartition /\ AuditExplainsCash
  <2> SUFFICES ASSUME ReportsInv
               PROVE  OutcomesAgree /\ FiguresReconcile /\ PagesPartition /\ AuditExplainsCash
    OBVIOUS
  <2>1. PageCells /\ LedgerInv /\ AuditInv
    BY DEF ReportsInv, PageInv
  <2> QED BY <2>1, OutcomesAgreeAlways, FiguresReconcileAlways, PagesPartitionAlways, AuditHolds
<1> QED BY <1>1, PagesReconcile, ReportsInvHolds, PTL DEF ReportsAgree
=============================================================================
