------------------------------ MODULE Settlement ------------------------------
(***************************************************************************)
(* How a finished game pays: the auto-settler that reads results out of the *)
(* book (ingest/auto_settle_service.py), the venue settler that asks for    *)
(* the published ones (ingest/venue_settle_service.py), the tickets that    *)
(* may land between them, and the database a restart hydrates from.  One    *)
(* pair on two venues, a leg on each.                                       *)
(*                                                                          *)
(* Each of these tasks awaits its own database writes, so at most one write *)
(* per task is in flight; those of different tasks land in any order, and   *)
(* run_write may drop any of them.  A write carries the value read when it  *)
(* was called; a balance write alone is taken to land as it is called.      *)
(* Contracts cost nothing here (PaperBroker has the prices): `cash` counts  *)
(* what a leg's venue has paid out, one dollar a winner.                    *)
(***************************************************************************)
EXTENDS Naturals, Sequences

CONSTANTS
  LegOrder,     \* the outcomes of the pair, one to a venue, as a sequence
  IsYesSide,    \* which side of the event a leg is
  Hits,         \* CONSECUTIVE_HITS
  Books,        \* may books mislead once a game has started: a set of answers
  MaxBuys,      \* bound: tickets filled
  MaxRestarts   \* bound: restarts

Legs == {LegOrder[i] : i \in DOMAIN LegOrder}

ASSUME LegAssumption ==
  /\ LegOrder \in Seq(Legs)
  /\ \A i, j \in DOMAIN LegOrder : LegOrder[i] = LegOrder[j] => i = j
  /\ IsYesSide \in [Legs -> BOOLEAN]
ASSUME BookAssumption == Books \subseteq BOOLEAN
ASSUME CountAssumption == Hits \in Nat \ {0} /\ MaxBuys \in Nat /\ MaxRestarts \in Nat

VARIABLES
  qty,        \* contracts held in memory, per leg
  cash,       \* payouts in the memory's cash, per leg's venue
  db,         \* the stored quantity, cash, settlement rows and traded legs
  settled,    \* AutoSettleService._settled has the group
  seen,       \* AutoSettleService._seen has the group
  pin,        \* AutoSettleService._hits: the side pinned, and for how long
  auto,       \* _settle_group: the winner, and the legs still to be paid
  venue,      \* VenueSettleService: the leg it is at, and where in the pass
  ticket,     \* a ticket: checked or filled, and its writes still to come
  writing,    \* per task, the write it awaits
  game,       \* how far the game is, whether it is registered, its result,
              \* whether the venue has published it
  honest,     \* environment: once started, a decisive book names the winner
  bought,     \* history: contracts bought, per leg
  paidOut,    \* history: legs settled at least once
  late,       \* history: legs bought after they were settled
  unrecorded, \* history: legs whose payout was stored ahead of its record
  second,     \* history: <<task, leg>> where a payout paid a contract again
  restarts    \* restarts so far (MaxRestarts bounds it)

memory  == <<qty, cash>>
memo    == <<settled, seen, pin>>
history == <<bought, paidOut, late>>
audit   == <<unrecorded, second>>
vars    == <<memory, db, memo, auto, venue, ticket, writing, game, honest,
             history, audit, restarts>>

Tasks == {"auto", "venue", "ticket"}
Sides == {"yes", "no"}

-----------------------------------------------------------------------------
SideOf(l) == IF IsYesSide[l] THEN "yes" ELSE "no"
ValueInCents(l, winner) == IF SideOf(l) = winner THEN 100 ELSE 0
Value(l, winner) == IF SideOf(l) = winner THEN 1 ELSE 0
Worth(l) == Value(l, game.result)

started == game.started
\* _not_started: a registered game still to come.
pending == game.registered /\ ~started

\* What _winning_side may read off a book: before kickoff anything, whatever
\* the result will be.
Readings == IF honest /\ started THEN {"none", game.result} ELSE {"none"} \cup Sides

NoWrite == [kind |-> "none"]
Quiet(p) == writing[p] = NoWrite
Unpinned == [side |-> "none", count |-> 0]
NotSettling == [winner |-> "none", todo |-> <<>>]
NoPass == [at |-> "idle"]
NoTicket == [at |-> "idle", todo |-> <<>>]

Init ==
  /\ qty = [l \in Legs |-> 0]
  /\ cash = [l \in Legs |-> 0]
  /\ db = [qty |-> qty, cash |-> cash, rows |-> [l \in Legs |-> {}], traded |-> {}]
  /\ settled = FALSE /\ seen = FALSE /\ pin = Unpinned
  /\ auto = NotSettling
  /\ venue = NoPass
  /\ ticket = NoTicket
  /\ writing = [p \in Tasks |-> NoWrite]
  /\ game \in [started : {FALSE}, ended : {FALSE}, registered : {TRUE}, final : {FALSE},
               result : Sides]
  /\ honest \in Books
  /\ bought = [l \in Legs |-> 0]
  /\ paidOut = {} /\ late = {} /\ unrecorded = {} /\ second = {}
  /\ restarts = 0

-----------------------------------------------------------------------------
(* settle_outcome_async, up to its await.                                   *)

\* The position is paid and zeroed; on_settled carries the cash, the position
\* and the record in one transaction, the first two only if it was held.
SettleKeepingPosition(p, l, value) ==
  LET paid == cash[l] + value * qty[l]
  IN /\ cash' = [cash EXCEPT ![l] = paid]
     /\ qty' = qty
     /\ writing' = [writing EXCEPT ![p] =
          [kind |-> "settled", leg |-> l, value |-> value, cash |-> paid,
           closed |-> qty[l] # 0]]
     /\ paidOut' = paidOut \cup {l}
     /\ second' = second
Settle(p, l, value) ==
  LET paid == cash[l] + value * qty[l]
  IN /\ cash' = [cash EXCEPT ![l] = paid]
     /\ qty' = [qty EXCEPT ![l] = 0]
     /\ writing' = [writing EXCEPT ![p] =
          [kind |-> "settled", leg |-> l, value |-> value, cash |-> paid,
           closed |-> qty[l] # 0]]
     /\ paidOut' = paidOut \cup {l}
     /\ second' = IF paid > bought[l] /\ paid > cash[l]
                  THEN second \cup {<<p, l>>} ELSE second

-----------------------------------------------------------------------------
(* AutoSettleService.tick, and the _settle_group it awaits.                 *)

Settling(winner) == [winner |-> winner, todo |-> LegOrder]
Ticking == auto = NotSettling /\ Quiet("auto")

\* _settle_final: the last known book is read, but nothing is settled when the
\* game never started or the book names no winner.
SettleFinalBeforeKickoff ==
  \E winner \in Readings :
    auto' = IF ~settled /\ winner # "none" THEN Settling(winner) ELSE auto
SettleFinal ==
  \E winner \in Readings :
    auto' = IF ~settled /\ started /\ winner # "none" THEN Settling(winner) ELSE auto

\* The venue reported the event ended.
TickEnded ==
  /\ Ticking /\ game.registered /\ game.ended
  /\ seen' = TRUE
  /\ SettleFinal
  /\ UNCHANGED <<memory, db, settled, pin, venue, ticket, writing, game, honest,
                 history, audit, restarts>>

\* A group gone from the registry since the last tick has this one chance.
TickRetired ==
  /\ Ticking /\ ~game.registered /\ seen
  /\ seen' = FALSE /\ pin' = Unpinned
  /\ SettleFinal
  /\ UNCHANGED <<memory, db, settled, venue, ticket, writing, game, honest,
                 history, audit, restarts>>

\* The price heuristic: the same side pinned on Hits ticks in a row.
Streak(winner) == IF pin.side = winner THEN pin.count + 1 ELSE 1
TickPinned ==
  /\ Ticking /\ game.registered /\ ~game.ended
  /\ seen' = TRUE
  /\ \E winner \in Readings :
       LET hit  == started /\ winner # "none"
           done == hit /\ Streak(winner) = Hits
       IN IF settled THEN UNCHANGED <<pin, auto>>
          ELSE /\ pin' = IF hit /\ ~done
                         THEN [side |-> winner, count |-> Streak(winner)] ELSE Unpinned
               /\ auto' = IF done THEN Settling(winner) ELSE auto
  /\ UNCHANGED <<memory, db, settled, venue, ticket, writing, game, honest,
                 history, audit, restarts>>

\* The next leg of the group is settled, once the write of the last one is
\* over.
AutoPays ==
  /\ Quiet("auto") /\ auto.todo # <<>>
  /\ Settle("auto", Head(auto.todo), Value(Head(auto.todo), auto.winner))
  /\ auto' = [auto EXCEPT !.todo = Tail(@)]
  /\ UNCHANGED <<db, memo, venue, ticket, game, honest, bought, late, unrecorded, restarts>>

\* After the last leg the group is remembered as settled.
AutoRemembers ==
  /\ Quiet("auto") /\ auto.winner # "none" /\ auto.todo = <<>>
  /\ auto' = NotSettling
  /\ settled' = TRUE
  /\ UNCHANGED <<memory, db, seen, pin, venue, ticket, writing, game, honest,
                 history, audit, restarts>>

-----------------------------------------------------------------------------
(* VenueSettleService.settle_once, a leg at a time.                         *)

At(where, l) == [at |-> where, leg |-> l]

\* A held leg of a game that has started, or that the registry no longer lists.
VenueVisitsListed(l) ==
  /\ venue = NoPass /\ Quiet("venue") /\ game.registered
  /\ qty[l] # 0 /\ ~pending
  /\ venue' = At("checking", l)
  /\ UNCHANGED <<memory, db, memo, auto, ticket, writing, game, honest, history,
                 audit, restarts>>
VenueVisits(l) ==
  /\ venue = NoPass /\ Quiet("venue")
  /\ qty[l] # 0 /\ ~pending
  /\ venue' = At("checking", l)
  /\ UNCHANGED <<memory, db, memo, auto, ticket, writing, game, honest, history,
                 audit, restarts>>

\* already_settled answers yes: the position is closed without paying.
VenueClosesGhost ==
  /\ venue.at = "checking" /\ db.rows[venue.leg] # {}
  /\ qty' = [qty EXCEPT ![venue.leg] = 0]
  /\ writing' = [writing EXCEPT !["venue"] =
       IF qty[venue.leg] # 0 THEN [kind |-> "position", leg |-> venue.leg, qty |-> 0]
                             ELSE NoWrite]
  /\ venue' = At("closing", venue.leg)
  /\ UNCHANGED <<cash, db, memo, auto, ticket, game, honest, history, audit, restarts>>

VenueAsksAnyway ==
  /\ venue.at = "checking"
  /\ venue' = At("asking", venue.leg)
  /\ UNCHANGED <<memory, db, memo, auto, ticket, writing, game, honest, history,
                 audit, restarts>>
VenueAsks ==
  /\ venue.at = "checking" /\ db.rows[venue.leg] = {}
  /\ venue' = At("asking", venue.leg)
  /\ UNCHANGED <<memory, db, memo, auto, ticket, writing, game, honest, history,
                 audit, restarts>>

\* The venue's answer is settled.
VenueAnswers ==
  /\ venue.at = "asking" /\ game.final
  /\ Settle("venue", venue.leg, Worth(venue.leg))
  /\ venue' = At("closing", venue.leg)
  /\ UNCHANGED <<db, memo, auto, ticket, game, honest, bought, late, unrecorded, restarts>>

\* None, no result yet or a lookup that failed: the leg waits for another pass.
VenueHearsNothing ==
  /\ venue.at \in {"asking", "recording"}
  /\ venue' = NoPass
  /\ UNCHANGED <<memory, db, memo, auto, ticket, writing, game, honest, history,
                 audit, restarts>>

\* The second phase: a leg traded, without a record, and not held.
VenueMissesRecordListed(l) ==
  /\ venue = NoPass /\ Quiet("venue") /\ game.registered
  /\ l \in db.traded /\ db.rows[l] = {} /\ qty[l] = 0 /\ ~pending
  /\ venue' = At("recording", l)
  /\ UNCHANGED <<memory, db, memo, auto, ticket, writing, game, honest, history,
                 audit, restarts>>
VenueMissesRecord(l) ==
  /\ venue = NoPass /\ Quiet("venue")
  /\ l \in db.traded /\ db.rows[l] = {} /\ qty[l] = 0 /\ ~pending
  /\ venue' = At("recording", l)
  /\ UNCHANGED <<memory, db, memo, auto, ticket, writing, game, honest, history,
                 audit, restarts>>

\* The answer is recorded unless a fill landed while the venue was asked.
VenueRecords ==
  /\ venue.at = "recording" /\ game.final /\ qty[venue.leg] = 0
  /\ Settle("venue", venue.leg, Worth(venue.leg))
  /\ venue' = At("closing", venue.leg)
  /\ UNCHANGED <<db, memo, auto, ticket, game, honest, bought, late, unrecorded, restarts>>

\* _close_group, once the write is over: a group still registered is marked
\* settled, though only one of its legs is.
VenueClosesGroup ==
  /\ venue.at = "closing" /\ Quiet("venue")
  /\ venue' = NoPass
  /\ settled' = (settled \/ game.registered)
  /\ pin' = IF game.registered THEN Unpinned ELSE pin
  /\ UNCHANGED <<memory, db, seen, auto, ticket, writing, game, honest, history,
                 audit, restarts>>

-----------------------------------------------------------------------------
(* A ticket on both legs, from its check to its status.                     *)

\* submit_arb_ticket found the group neither settled nor gone.
TicketChecked ==
  /\ ticket = NoTicket /\ Quiet("ticket")
  /\ ~settled /\ game.registered /\ ~game.final
  /\ \A l \in Legs : bought[l] < MaxBuys
  /\ ticket' = [at |-> "checked", todo |-> <<>>]
  /\ UNCHANGED <<memory, db, memo, auto, venue, writing, game, honest, history,
                 audit, restarts>>

\* Its pending row written, the router fills it: every leg at once.
TicketFilled ==
  /\ ticket.at = "checked"
  /\ qty' = [l \in Legs |-> qty[l] + 1]
  /\ bought' = [l \in Legs |-> bought[l] + 1]
  /\ late' = late \cup paidOut
  /\ ticket' = [at |-> "filled", todo |-> LegOrder]
  /\ UNCHANGED <<cash, db, memo, auto, venue, writing, game, honest, paidOut,
                 audit, restarts>>

\* emit_order_events stores the next leg's position, as it is now.
TicketWrites ==
  /\ Quiet("ticket") /\ ticket.todo # <<>>
  /\ ticket' = [ticket EXCEPT !.todo = Tail(@)]
  /\ writing' = [writing EXCEPT !["ticket"] =
       [kind |-> "position", leg |-> Head(ticket.todo), qty |-> qty[Head(ticket.todo)]]]
  /\ UNCHANGED <<memory, db, memo, auto, venue, game, honest, history, audit, restarts>>

\* The ticket is on record as filled.
TicketDone ==
  /\ Quiet("ticket") /\ ticket.at = "filled" /\ ticket.todo = <<>>
  /\ ticket' = NoTicket
  /\ writing' = [writing EXCEPT !["ticket"] = [kind |-> "status"]]
  /\ UNCHANGED <<memory, db, memo, auto, venue, game, honest, history, audit, restarts>>

-----------------------------------------------------------------------------
(* The database, and a restart.                                             *)

\* What a write leaves stored.
Stored(w) ==
  CASE w.kind = "settled" ->
         [db EXCEPT !.rows[w.leg] = @ \cup {w.value},
                    !.qty[w.leg] = IF w.closed THEN 0 ELSE @,
                    !.cash[w.leg] = IF w.closed THEN w.cash ELSE @]
    [] w.kind = "position" -> [db EXCEPT !.qty[w.leg] = w.qty]
    [] w.kind = "status"   -> [db EXCEPT !.traded = Legs]

WriteLands(p) ==
  /\ writing[p] # NoWrite
  /\ db' = Stored(writing[p])
  /\ writing' = [writing EXCEPT ![p] = NoWrite]
  /\ UNCHANGED <<memory, memo, auto, venue, ticket, game, honest, history, audit, restarts>>

\* The cash sweep, or a ticket's on_balance, stores a venue's balance as it is
\* in memory, whatever settlement is still being recorded.
BalanceStored(l) ==
  /\ cash[l] # db.cash[l]
  /\ db' = [db EXCEPT !.cash[l] = cash[l]]
  /\ unrecorded' = IF db.rows[l] = {} THEN unrecorded \cup {l} ELSE unrecorded
  /\ UNCHANGED <<memory, memo, auto, venue, ticket, writing, game, honest, history,
                 second, restarts>>

WriteDropped(p) ==
  /\ writing[p] # NoWrite
  /\ writing' = [writing EXCEPT ![p] = NoWrite]
  /\ UNCHANGED <<memory, db, memo, auto, venue, ticket, game, honest, history,
                 audit, restarts>>

\* The process dies, and bootstrap hydrates the next one.
Restart ==
  /\ restarts < MaxRestarts
  /\ restarts' = restarts + 1
  /\ qty' = db.qty /\ cash' = db.cash
  /\ settled' = FALSE /\ seen' = FALSE /\ pin' = Unpinned
  /\ auto' = NotSettling /\ venue' = NoPass /\ ticket' = NoTicket
  /\ writing' = [p \in Tasks |-> NoWrite]
  /\ UNCHANGED <<db, game, honest, history, audit>>

-----------------------------------------------------------------------------
(* The game, and discovery's view of it.                                    *)

GameMoves ==
  /\ \/ ~game.started /\ game' = [game EXCEPT !.started = TRUE]
     \/ ~game.ended /\ game' = [game EXCEPT !.ended = TRUE]
  /\ UNCHANGED <<memory, db, memo, auto, venue, ticket, writing, honest, history,
                 audit, restarts>>

GroupRetired ==
  /\ game.registered
  /\ game' = [game EXCEPT !.registered = FALSE]
  /\ UNCHANGED <<memory, db, memo, auto, venue, ticket, writing, honest, history,
                 audit, restarts>>

ResultPublished ==
  /\ started /\ ~game.final
  /\ game' = [game EXCEPT !.final = TRUE]
  /\ UNCHANGED <<memory, db, memo, auto, venue, ticket, writing, honest, history,
                 audit, restarts>>

-----------------------------------------------------------------------------
AutoPass ==
  \/ TickEnded \/ TickRetired \/ TickPinned
  \/ AutoPays \/ AutoRemembers

VenuePass ==
  \/ VenueClosesGhost \/ VenueAsks
  \/ VenueAnswers \/ VenueRecords \/ VenueHearsNothing
  \/ VenueClosesGroup

Next ==
  \/ AutoPass
  \/ \E l \in Legs : VenueVisits(l) \/ VenueMissesRecord(l)
  \/ VenuePass
  \/ TicketChecked \/ TicketFilled \/ TicketWrites \/ TicketDone
  \/ \E l \in Legs : BalanceStored(l)
  \/ \E p \in Tasks : WriteLands(p) \/ WriteDropped(p)
  \/ Restart
  \/ GameMoves \/ GroupRetired \/ ResultPublished

Spec == Init /\ [][Next]_vars

\* Every await ends; a pass that has begun goes on, and passes come round for
\* every leg.  The venue does not fail to answer for ever, nor is the database
\* down for ever: of lookups and writes tried again each pass, one succeeds.
FairSpec ==
  /\ Spec
  /\ WF_vars(VenuePass)
  /\ WF_vars(WriteLands("venue") \/ WriteDropped("venue"))
  /\ \A l \in Legs : SF_vars(VenueVisits(l) \/ VenueMissesRecord(l))
  /\ SF_vars(VenueAnswers \/ VenueRecords)
  /\ SF_vars(WriteLands("venue"))

-----------------------------------------------------------------------------
(* Properties.                                                              *)

Counts == [Legs -> Nat]
Writes ==
  [kind : {"settled"}, leg : Legs, value : {0, 1}, cash : Nat, closed : BOOLEAN]
  \cup [kind : {"position"}, leg : Legs, qty : Nat]
  \cup [kind : {"status", "none"}]

\* Every variable is of its kind (PaperExecutionAdapter, AutoSettleService,
\* VenueSettleService, the paper_ tables).
TypeOK ==
  /\ qty \in Counts /\ cash \in Counts /\ bought \in Counts
  /\ db \in [qty : Counts, cash : Counts, rows : [Legs -> SUBSET {0, 1}],
              traded : SUBSET Legs]
  /\ {settled, seen, honest} \subseteq BOOLEAN
  /\ pin \in [side : {"none"} \cup Sides, count : 0..(Hits - 1)]
  /\ auto \in [winner : {"none"} \cup Sides, todo : Seq(Legs)]
  /\ venue \in {NoPass} \cup [at : {"checking", "asking", "recording", "closing"},
                               leg : Legs]
  /\ ticket \in [at : {"idle", "checked", "filled"}, todo : Seq(Legs)]
  /\ writing \in [Tasks -> Writes]
  /\ game \in [started : BOOLEAN, ended : BOOLEAN, registered : BOOLEAN,
                final : BOOLEAN, result : Sides]
  /\ {paidOut, late, unrecorded} \subseteq SUBSET Legs
  /\ second \subseteq Tasks \X Legs
  /\ restarts \in 0..MaxRestarts

\* In one life of the process, with books that tell the truth, every contract
\* is held or has paid what it is worth, once: whichever of the two settlers
\* came first, whatever the other was awaiting, whatever was dropped.  Only a
\* ticket filled after its leg was settled escapes (settle_outcome_async,
\* close_already_settled).
EveryContractPaidOnce ==
  honest /\ restarts = 0 =>
    \A l \in Legs \ late : cash[l] + Worth(l) * qty[l] = Worth(l) * bought[l]

\* Across restarts too, the venue settler pays a contract again only where a
\* payout reached the stored balance without its record: with the row there,
\* the position is closed without cash (already_settled).
VenuePaysAgainOnlyUnrecorded ==
  \A l \in Legs : <<"venue", l>> \in second => l \in unrecorded

\* With books that tell the truth once a game has started, no record ever
\* contradicts the result: nothing is settled from a price seen before kickoff
\* (_has_started).
RecordsMatchResult ==
  honest => \A l \in Legs : db.rows[l] \subseteq {Worth(l)}

\* Once the venue has published the result no position stays open for ever:
\* through restarts, retirement and dropped writes (VenueSettleService: "Either
\* way the position's market is finished").
PositionsClose ==
  \A l \in Legs : game.final /\ qty[l] > 0 ~> qty[l] = 0

\* And every leg on a filled ticket gets its settlement record, even one whose
\* record was dropped when it was paid (unrecorded_outcomes, the second phase).
TradedLegsGetRecords ==
  \A l \in Legs : game.final /\ l \in db.traded ~> db.rows[l] # {}

\* "All of it lands or none of it does: a paid-out balance beside a still-open
\* position is what a restart turned into a position held forever"
\* (persistence.py:112): with books that tell the truth, what is stored is
\* never worth more than what was bought.
PayoutStoredWhole ==
  honest => \A l \in Legs : db.cash[l] + Worth(l) * db.qty[l] <= Worth(l) * bought[l]
=============================================================================
