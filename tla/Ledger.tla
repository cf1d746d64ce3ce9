------------------------------- MODULE Ledger -------------------------------
(***************************************************************************)
(* The paper account in memory and its rows in the database: what a ticket, *)
(* the cash sweep, a settlement and a reset write of the account they       *)
(* change (shared/paper_broker.py, shared/persistence.py,                   *)
(* db/repositories.py, AppState.reset_paper_account).                       *)
(*                                                                          *)
(* A task changes memory in one step and then awaits its transactions one   *)
(* by one; a transaction carries the values read when it was begun, and     *)
(* lands or is given up at any later moment.  A row is a key of `store`; a   *)
(* ticket buys one contract of each leg of Pair.                            *)
(***************************************************************************)
EXTENDS Market, FiniteSets, Sequences

CONSTANTS
  TicketSeq,    \* the tickets, in the order they are submitted
  Pair,         \* the two legs every ticket buys, on two venues
  AskOf,        \* what a ticket pays for an outcome
  Winner,       \* the leg that pays
  Seed,         \* DEFAULT_STARTING_BALANCE, per venue
  MinTransfer,  \* the least the sweep moves
  NoRow,        \* no row under the key
  MaxInFlight,  \* bound: tasks under way at once
  MaxEvents     \* bound: tickets, transactions given up and resets, together

Tickets == {TicketSeq[i] : i \in DOMAIN TicketSeq}
Traded == {Pair[1], Pair[2]}
Tasks == Tickets \cup {"sweep", "settle", "reset"}
OnVenue(v) == {o \in Traded : VenueOf[o] = v}

PositionValues == [qty : Nat, cost : Nat, realized : Int]
FillValues == [price : Nat, fee : Nat]
Accounts == [cash : [Venues -> Nat], position : [Traded -> PositionValues]]

ASSUME LedgerAssumption ==
  /\ TicketSeq \in Seq(Tickets)
  /\ \A i, j \in DOMAIN TicketSeq : TicketSeq[i] = TicketSeq[j] => i = j
  /\ Pair \in Outcomes \X Outcomes
  /\ VenueOf[Pair[1]] # VenueOf[Pair[2]]
  /\ AskOf \in [Tickets -> [Outcomes -> 0..Unit]]
  /\ Winner \in Traded
  /\ Seed \in Nat
  /\ MaxInFlight \in Nat \ {0}
  /\ MinTransfer \in Nat \ {0}
  /\ MaxEvents \in Nat
  /\ IsFiniteSet(Venues)

\* The tasks are told apart, and no value is the lack of one.
ASSUME NamesAssumption ==
  /\ Tickets \cap {"sweep", "settle", "reset"} = {}
  /\ NoRow \notin Int /\ NoRow \notin Tasks /\ NoRow \notin Outcomes
  /\ NoRow \notin PositionValues /\ NoRow \notin Accounts /\ NoRow \notin FillValues

VARIABLES
  cash,       \* memory: free cash per venue
  funded,     \* memory: venues whose broker has a balance entry
  position,   \* memory: per outcome, quantity, cost with fees, realized
  isSettled,  \* memory: the game is settled and no longer traded
  submitted,  \* tickets submitted so far
  store,      \* the database
  writing,    \* the transaction a task awaits: per row, what it will hold
  todo,       \* what a task does next
  stale,      \* the account object a reset took from under a leg's writes
  captured,   \* history: per mirrored row, who read memory for it last
  suspect,    \* history: rows whose last landing was not of that reading
  clean,      \* history: nothing was given up, nothing overlapped a reset
  upsets      \* transactions given up and resets so far

memory == <<cash, funded, position, isSettled>>
history == <<captured, suspect, clean>>
ledgerVars == <<memory, submitted, store, writing, todo, stale, history, upsets>>

-----------------------------------------------------------------------------
(* Rows.                                                                    *)

BalanceRow(v)  == <<"balance", v>>
PositionRow(o) == <<"position", o>>
TicketRow(t)   == <<"ticket", t>>
OrderRow(t, o) == <<"order", t, o>>
FillRow(t, o)  == <<"fill", t, o>>
SettlementRow(o) == <<"settlement", o>>
TransferRow(v) == <<"transfer", v>>   \* the sum of the venue's transfers in

Mirrored == {BalanceRow(v) : v \in Venues} \cup {PositionRow(o) : o \in Traded}
Rows == Mirrored
          \cup {TicketRow(t) : t \in Tickets}
          \cup {OrderRow(t, o) : t \in Tickets, o \in Traded}
          \cup {FillRow(t, o) : t \in Tickets, o \in Traded}
          \cup {SettlementRow(o) : o \in Traded}
          \cup {TransferRow(v) : v \in Venues}

\* A transaction that writes one row, and two transactions in one.
Holding(r, x) == [s \in {r} |-> x]
w ++ z == [r \in DOMAIN w \cup DOMAIN z |-> IF r \in DOMAIN w THEN w[r] ELSE z[r]]
NoWrite == <<>>

NoPosition == [qty |-> 0, cost |-> 0, realized |-> 0]
ResolvedValue(o) == IF o = Winner THEN Payout ELSE 0
FillOf(t, o) == [price |-> Price(AskOf[t][o]), fee |-> FeePerContract(o, AskOf[t][o])]
LegCost(t, o) == FillOf(t, o).price + FillOf(t, o).fee

\* A foreign key to a row that is not there fails the whole transaction.
Refers(r) == CASE r[1] = "order" -> {TicketRow(r[2])}
               [] r[1] = "fill"  -> {OrderRow(r[2], r[3])}
               [] OTHER -> {}
Accepted(w) ==
  \A r \in DOMAIN w : w[r] # NoRow => \A s \in Refers(r) : store[s] # NoRow

\* A transfer is one more row, a status changes a ticket that is there, and
\* everything else is inserted or overwritten.
StatusOf(t) == <<"status", t>>
LandedIn(w) ==
  [r \in Rows |->
     CASE r \in DOMAIN w -> IF r[1] = "transfer" /\ NoRow \notin {w[r], store[r]}
                            THEN store[r] + w[r] ELSE w[r]
       [] r[1] = "ticket" /\ store[r] # NoRow /\ StatusOf(r[2]) \in DOMAIN w -> w[StatusOf(r[2])]
       [] OTHER -> store[r]]

-----------------------------------------------------------------------------
(* Transactions.                                                            *)

Idle(k) == writing[k] = NoWrite /\ todo[k] = <<>>
Quiet == \A k \in Tasks : Idle(k)
Starts(k) == Idle(k) /\ Cardinality({j \in Tasks : ~Idle(j)}) < MaxInFlight

\* Task k awaits the transaction w, and does `rest` after it.
Begin(k, w, rest, freshlyRead) ==
  /\ writing' = [writing EXCEPT ![k] = w]
  /\ todo' = [todo EXCEPT ![k] = rest]
  /\ captured' = [r \in Mirrored |-> IF r \in DOMAIN w /\ freshlyRead THEN k ELSE captured[r]]

\* A reset is under way beside other tasks, or begins beside them.
Overlapping(k) ==
  \/ k = "reset" /\ \E j \in Tasks \ {"reset"} : ~Idle(j)
  \/ k # "reset" /\ ~Idle("reset")

Lands(k) ==
  /\ writing[k] # NoWrite
  /\ Accepted(writing[k])
  /\ store' = LandedIn(writing[k])
  /\ writing' = [writing EXCEPT ![k] = NoWrite]
  /\ LET mine == {r \in Mirrored \cap DOMAIN writing[k] : captured[r] = k}
     IN /\ suspect' = (suspect \cup (Mirrored \cap DOMAIN writing[k])) \ mine
        /\ captured' = [r \in Mirrored |-> IF r \in mine THEN NoRow ELSE captured[r]]
  /\ UNCHANGED <<memory, submitted, todo, stale, clean, upsets>>

\* run_write gives up and the task goes on; the reset's own transactions are
\* not run_write's, and raise.
Dropped(k) ==
  /\ writing' = [writing EXCEPT ![k] = NoWrite]
  /\ todo' = IF k = "reset" THEN [todo EXCEPT ![k] = <<>>] ELSE todo
  /\ suspect' = suspect \cup {r \in Mirrored \cap DOMAIN writing[k] : captured[r] = k}
  /\ clean' = FALSE
  /\ UNCHANGED <<memory, submitted, store, stale, captured>>

WithinBound == Cardinality(submitted) + upsets < MaxEvents
Upset == WithinBound /\ upsets' = upsets + 1

GivenUp(k) ==
  /\ writing[k] # NoWrite
  /\ Upset
  /\ Dropped(k)

Refused(k) ==
  /\ writing[k] # NoWrite
  /\ ~Accepted(writing[k])
  /\ UNCHANGED upsets
  /\ Dropped(k)

-----------------------------------------------------------------------------
LedgerInit ==
  /\ cash = [v \in Venues |-> Seed]
  /\ funded = Venues
  /\ position = [o \in Traded |-> NoPosition]
  /\ isSettled = FALSE
  /\ submitted = {}
  /\ store = [r \in Rows |-> IF r \in {BalanceRow(v) : v \in Venues} THEN Seed ELSE NoRow]
  /\ writing = [k \in Tasks |-> NoWrite]
  /\ todo = [k \in Tasks |-> <<>>]
  /\ stale = [t \in Tickets |-> NoRow]
  /\ captured = [r \in Mirrored |-> NoRow]
  /\ suspect = {}
  /\ clean = TRUE
  /\ upsets = 0

-----------------------------------------------------------------------------
(* A ticket.                                                                *)

\* _write_ticket: refused before the broker, or about to go to it.
OpenTicket(t) ==
  /\ \E i \in DOMAIN TicketSeq :
       t = TicketSeq[i] /\ submitted = {TicketSeq[j] : j \in 1..(i - 1)}
  /\ WithinBound
  /\ Starts(t)
  /\ submitted' = submitted \cup {t}
  /\ \E status \in IF isSettled THEN {"rejected"} ELSE {"missed", "pending"} :
       Begin(t, Holding(TicketRow(t), status),
             IF status = "pending" THEN <<<<"submit">>>> ELSE <<>>, TRUE)
  /\ clean' = (clean /\ ~Overlapping(t))
  /\ UNCHANGED <<memory, store, stale, suspect, upsets>>

AtStep(t, kind) == writing[t] = NoWrite /\ todo[t] # <<>> /\ Head(todo[t])[1] = kind
AffordableFirstLeg(t) == LegCost(t, Pair[1]) <= cash[VenueOf[Pair[1]]]
Affordable(t) == \A o \in Traded : LegCost(t, o) <= cash[VenueOf[o]]
Steps(o) == <<<<"order", o>>, <<"fill", o>>, <<"balance", o>>, <<"position", o>>>>

\* ExecutionRouter.submit: both legs are bought at once, and the first order
\* is on its way to the database before anything else runs.
Fill(t) ==
  /\ AtStep(t, "submit")
  /\ Affordable(t)
  /\ position' = [o \in Traded |->
                    [position[o] EXCEPT !.qty = @ + 1, !.cost = @ + LegCost(t, o)]]
  /\ cash' = [v \in Venues |->
                IF OnVenue(v) = {} THEN cash[v]
                ELSE cash[v] - LegCost(t, CHOOSE o \in OnVenue(v) : TRUE)]
  /\ Begin(t, Holding(OrderRow(t, Pair[1]), "filled"),
           Tail(Steps(Pair[1])) \o Steps(Pair[2]) \o <<<<"status", "filled">>>>, TRUE)
  /\ funded' = funded \cup {VenueOf[o] : o \in Traded}
  /\ UNCHANGED <<isSettled, submitted, store, stale, suspect, clean, upsets>>

\* The preview refuses: the status first, then the legs that were tried.
RefuseLegs(t) ==
  /\ AtStep(t, "submit")
  /\ ~Affordable(t)
  /\ Begin(t, Holding(StatusOf(t), "rejected"), <<<<"legs">>>>, TRUE)
  /\ UNCHANGED <<memory, submitted, store, stale, suspect, clean, upsets>>

WriteRejectedLegs(t) ==
  /\ AtStep(t, "legs")
  /\ Begin(t, [r \in {OrderRow(t, o) : o \in Traded} |-> "rejected"], <<>>, TRUE)
  /\ UNCHANGED <<memory, submitted, store, stale, suspect, clean, upsets>>

\* emit_order_events holds the account object of the leg, and reads each value
\* when its write begins.
AccountOf(t) == IF stale[t] = NoRow THEN [cash |-> cash, position |-> position] ELSE stale[t]

Written(t, kind, o) ==
  CASE kind = "order"    -> Holding(OrderRow(t, o), "filled")
    [] kind = "fill"     -> Holding(FillRow(t, o), FillOf(t, o))
    [] kind = "balance"  -> Holding(BalanceRow(VenueOf[o]), AccountOf(t).cash[VenueOf[o]])
    [] kind = "position" -> Holding(PositionRow(o), AccountOf(t).position[o])

\* st.balances[venue_id] of an account made anew and not seeded yet.
NoBalance(t, o) == stale[t] = NoRow /\ VenueOf[o] \notin funded

AfterEmit(t) == Tail(todo[t])
Emit(t) ==
  /\ \E kind \in {"order", "fill", "balance", "position"} :
       /\ AtStep(t, kind)
       /\ LET o == Head(todo[t])[2]
          IN /\ kind = "balance" => ~NoBalance(t, o)
             /\ Begin(t, Written(t, kind, o), AfterEmit(t), stale[t] = NoRow)
       /\ stale' = IF kind = "position" THEN [stale EXCEPT ![t] = NoRow] ELSE stale
  /\ UNCHANGED <<memory, submitted, store, suspect, clean, upsets>>

\* The KeyError leaves the ticket where it is.
EmitRaises(t) ==
  /\ AtStep(t, "balance")
  /\ NoBalance(t, Head(todo[t])[2])
  /\ todo' = [todo EXCEPT ![t] = <<>>]
  /\ UNCHANGED <<memory, submitted, store, writing, stale, history, upsets>>

WriteStatus(t) ==
  /\ AtStep(t, "status")
  /\ Begin(t, Holding(StatusOf(t), "filled"), <<>>, TRUE)
  /\ UNCHANGED <<memory, submitted, store, stale, suspect, clean, upsets>>

-----------------------------------------------------------------------------
(* The cash sweep.                                                          *)

\* apply_transfers, then one transaction of the transfer and both balances.
SweptBalancesSourceOnly(from, to) == Holding(BalanceRow(from), cash'[from])
SweptBalances(from, to) ==
  Holding(BalanceRow(from), cash'[from]) ++ Holding(BalanceRow(to), cash'[to])

Sweep(from, to) ==
  LET amount == (cash[from] - cash[to]) \div 2
  IN /\ Starts("sweep")
     /\ amount >= MinTransfer
     /\ cash' = [cash EXCEPT ![from] = @ - amount, ![to] = @ + amount]
     /\ funded' = funded \cup {from, to}
     /\ Begin("sweep", Holding(TransferRow(from), -amount) ++ Holding(TransferRow(to), amount)
                         ++ SweptBalances(from, to), <<>>, TRUE)
     /\ clean' = (clean /\ ~Overlapping("sweep"))
     /\ UNCHANGED <<position, isSettled, submitted, store, stale, suspect, upsets>>

-----------------------------------------------------------------------------
(* Settlement of the game, one leg after the other.                         *)

\* settle_outcome_async: memory closes the position; the balance, the position
\* and the record are one transaction, of the record alone when nobody held it.
Closed(o) ==
  [qty |-> 0, cost |-> 0,
   realized |-> position[o].realized + ResolvedValue(o) * position[o].qty - position[o].cost]

\* on_settled: the record, with what was paid when anybody held the outcome.
OnSettled(o, held) ==
  Holding(SettlementRow(o), ResolvedValue(o))
    ++ (IF held THEN Holding(BalanceRow(VenueOf[o]), cash'[VenueOf[o]])
                       ++ Holding(PositionRow(o), position'[o])
        ELSE NoWrite)

SettleLeg(o, rest) ==
  LET held == position[o].qty # 0
      v == VenueOf[o]
  IN /\ position' = IF held THEN [position EXCEPT ![o] = Closed(o)] ELSE position
     /\ cash' = IF held THEN [cash EXCEPT ![v] = @ + ResolvedValue(o) * position[o].qty] ELSE cash
     /\ funded' = IF held THEN funded \cup {v} ELSE funded
     /\ Begin("settle", OnSettled(o, held), rest, TRUE)
     /\ UNCHANGED <<submitted, store, stale, suspect, upsets>>

SettleGame ==
  /\ Starts("settle")
  /\ ~isSettled
  /\ SettleLeg(Pair[1], <<<<"leg", Pair[2]>>, <<"done">>>>)
  /\ clean' = (clean /\ ~Overlapping("settle"))
  /\ UNCHANGED isSettled

SettleNext ==
  /\ AtStep("settle", "leg")
  /\ SettleLeg(Pair[2], <<<<"done">>>>)
  /\ UNCHANGED <<isSettled, clean>>

MarkSettled ==
  /\ AtStep("settle", "done")
  /\ isSettled' = TRUE
  /\ todo' = [todo EXCEPT !["settle"] = <<>>]
  /\ UNCHANGED <<cash, funded, position, submitted, store, writing, stale,
                 history, upsets>>

-----------------------------------------------------------------------------
(* The reset of the account.                                                *)

\* A leg whose writes have begun keeps the account object it holds.
MidLeg(t) == todo[t] # <<>> /\ Head(todo[t])[1] \in {"fill", "balance", "position"}

\* The brokers in the order AppState keeps them.
Brokers == CHOOSE s \in [1..Cardinality(Venues) -> Venues] :
             \A v \in Venues : \E i \in DOMAIN s : s[i] = v

\* delete_paper_history.
Emptied == [r \in Rows |-> NoRow]

\* reset_account on every broker, then the deletes in one transaction.
Reset ==
  /\ Starts("reset")
  /\ Upset
  /\ cash' = [v \in Venues |-> 0]
  /\ funded' = {}
  /\ position' = [o \in Traded |-> NoPosition]
  /\ stale' = [t \in Tickets |->
                 IF MidLeg(t) /\ stale[t] = NoRow
                 THEN [cash |-> cash, position |-> position] ELSE stale[t]]
  /\ Begin("reset", Emptied,
           [i \in DOMAIN Brokers |-> <<"seed", Brokers[i]>>] \o <<<<"cleared">>>>, TRUE)
  /\ clean' = ~Overlapping("reset")
  /\ UNCHANGED <<isSettled, submitted, store, suspect>>

\* hydrate_balance, then the row.
SeedVenue ==
  /\ AtStep("reset", "seed")
  /\ LET v == Head(todo["reset"])[2]
     IN /\ cash' = [cash EXCEPT ![v] = Seed]
        /\ funded' = funded \cup {v}
        /\ Begin("reset", Holding(BalanceRow(v), Seed), Tail(todo["reset"]), TRUE)
  /\ UNCHANGED <<position, isSettled, submitted, store, stale, suspect, clean, upsets>>

\* clear_settled: the game may be settled again.
ClearSettled ==
  /\ AtStep("reset", "cleared")
  /\ isSettled' = FALSE
  /\ todo' = [todo EXCEPT !["reset"] = <<>>]
  /\ UNCHANGED <<cash, funded, position, submitted, store, writing, stale,
                 history, upsets>>

-----------------------------------------------------------------------------
LedgerNext ==
  \/ \E k \in Tasks : Lands(k) \/ GivenUp(k) \/ Refused(k)
  \/ \E t \in Tickets :
       \/ OpenTicket(t) \/ Fill(t) \/ RefuseLegs(t) \/ WriteRejectedLegs(t)
       \/ Emit(t) \/ EmitRaises(t) \/ WriteStatus(t)
  \/ \E from, to \in Venues : Sweep(from, to)
  \/ SettleGame \/ SettleNext \/ MarkSettled
  \/ Reset \/ SeedVenue \/ ClearSettled

LedgerSpec == LedgerInit /\ [][LedgerNext]_ledgerVars

-----------------------------------------------------------------------------
(* Properties.                                                              *)

\* Every variable is of its kind, whatever the tasks' interleaving: cash never
\* falls below zero, a transaction names rows only.
LedgerTypeOK ==
  /\ cash \in [Venues -> Nat]
  /\ funded \subseteq Venues
  /\ position \in [Traded -> PositionValues]
  /\ isSettled \in BOOLEAN
  /\ submitted \subseteq Tickets
  /\ DOMAIN store = Rows
  /\ \A v \in Venues : store[BalanceRow(v)] \in Nat \cup {NoRow}
  /\ \A o \in Traded : store[PositionRow(o)] \in PositionValues \cup {NoRow}
  /\ \A t \in Tickets : store[TicketRow(t)] \in {"pending", "filled", "rejected", "missed", NoRow}
  /\ \A k \in Tasks :
       DOMAIN writing[k] \subseteq Rows \cup {StatusOf(t) : t \in Tickets}
  /\ suspect \subseteq Mirrored
  /\ clean \in BOOLEAN

\* "DB and the in-memory state cannot diverge" (paper_broker.py): whenever no
\* task has a write left, every balance and position row is what memory holds,
\* but for a row whose last reading of memory was given up or overtaken by an
\* older one.  Every step that changes the account is followed by a write of
\* everything it changed.
Agrees(r, x) ==
  IF r[1] = "balance"
  THEN IF x = NoRow THEN r[2] \notin funded ELSE cash[r[2]] = x
  ELSE position[r[2]] = IF x = NoRow THEN NoPosition ELSE x
Mirrors(r) == Agrees(r, store[r])
StoreMatchesMemory == Quiet => \A r \in Mirrored \ suspect : Mirrors(r)
=============================================================================
