-------------------------- MODULE SettlementProofs --------------------------
(***************************************************************************)
(* What settlement pays and records, for any pair of legs, any number of    *)
(* tickets and restarts, and any pin length.                                *)
(***************************************************************************)
EXTENDS Settlement, TLAPS

-----------------------------------------------------------------------------
(* The kinds of a write.                                                    *)

LEMMA WriteKinds ==
  ASSUME NEW w \in Writes
  PROVE  /\ w.kind \in {"settled", "position", "status", "none"}
         /\ w.kind = "settled" => /\ w.leg \in Legs /\ w.value \in {0, 1}
                                  /\ w.cash \in Nat /\ w.closed \in BOOLEAN
         /\ w.kind = "position" => w.leg \in Legs /\ w.qty \in Nat
         /\ w.kind = "none" => w = NoWrite
BY DEF Writes, NoWrite

LEMMA WritesMade ==
  /\ NoWrite \in Writes
  /\ [kind |-> "status"] \in Writes
  /\ \A l \in Legs, n \in Nat : [kind |-> "position", leg |-> l, qty |-> n] \in Writes
  /\ \A l \in Legs, value \in {0, 1}, n \in Nat, closed \in BOOLEAN :
       [kind |-> "settled", leg |-> l, value |-> value, cash |-> n, closed |-> closed]
         \in Writes
BY DEF Writes, NoWrite

LEMMA EmptySeq == <<>> \in Seq(Legs)
OBVIOUS

LEMMA ValueType == ASSUME NEW l \in Legs, NEW side PROVE Value(l, side) \in {0, 1}
BY DEF Value

\* settle_outcome_async pays and zeroes one leg, and begins one write.
LEMMA SettleTypes ==
  ASSUME TypeOK, NEW p \in Tasks, NEW l \in Legs, NEW value \in {0, 1},
         Settle(p, l, value)
  PROVE  /\ qty' \in Counts /\ cash' \in Counts
         /\ writing' \in [Tasks -> Writes]
         /\ paidOut' \in SUBSET Legs
         /\ second' \subseteq Tasks \X Legs
<1> DEFINE paid == cash[l] + value * qty[l]
<1>1. qty \in Counts /\ cash \in Counts /\ writing \in [Tasks -> Writes]
      /\ paidOut \in SUBSET Legs /\ second \subseteq Tasks \X Legs
  BY DEF TypeOK
<1>2. paid \in Nat
  <2>1. qty[l] \in Nat /\ cash[l] \in Nat
    BY <1>1 DEF Counts
  <2>2. value * qty[l] \in Nat
    BY <2>1
  <2> QED BY <2>1, <2>2
<1>3. [kind |-> "settled", leg |-> l, value |-> value, cash |-> paid,
       closed |-> qty[l] # 0] \in Writes
  BY <1>2, WritesMade
<1>4. /\ cash' = [cash EXCEPT ![l] = paid]
      /\ qty' = [qty EXCEPT ![l] = 0]
      /\ writing' = [writing EXCEPT ![p] =
           [kind |-> "settled", leg |-> l, value |-> value, cash |-> paid,
            closed |-> qty[l] # 0]]
      /\ paidOut' = paidOut \cup {l}
      /\ second' \in {second, second \cup {<<p, l>>}}
  BY DEF Settle
<1> HIDE DEF paid
<1> QED BY <1>1, <1>2, <1>3, <1>4 DEF Counts

-----------------------------------------------------------------------------
(* Types.                                                                   *)

LEMMA TypeInit == Init => TypeOK
<1> SUFFICES ASSUME Init PROVE TypeOK
  OBVIOUS
<1>1. [l \in Legs |-> 0] \in Counts
  BY DEF Counts
<1>2. <<>> \in Seq(Legs)
  BY EmptySeq
<1>3. honest \in BOOLEAN
  BY BookAssumption DEF Init
<1> USE CountAssumption
<1>4. pin \in [side : {"none"} \cup Sides, count : 0..(Hits - 1)]
  BY DEF Init, Unpinned
<1>5. db \in [qty : Counts, cash : Counts, rows : [Legs -> SUBSET {0, 1}], traded : SUBSET Legs]
  BY <1>1 DEF Init
<1>6. /\ qty \in Counts /\ cash \in Counts /\ bought \in Counts
      /\ {settled, seen, honest} \subseteq BOOLEAN
      /\ auto \in [winner : {"none"} \cup Sides, todo : Seq(Legs)]
      /\ ticket \in [at : {"idle", "checked", "filled"}, todo : Seq(Legs)]
      /\ writing \in [Tasks -> Writes]
  BY <1>1, <1>2, <1>3, WritesMade DEF Init, NotSettling, NoTicket
<1>7. venue = NoPass
  BY DEF Init
<1>8. game \in [started : BOOLEAN, ended : BOOLEAN, registered : BOOLEAN,
                final : BOOLEAN, result : Sides]
  BY DEF Init
<1>9. /\ {paidOut, late, unrecorded} \subseteq SUBSET Legs
      /\ second \subseteq Tasks \X Legs
  BY DEF Init
<1>10. restarts \in 0..MaxRestarts
  BY DEF Init
<1> QED BY <1>4, <1>5, <1>6, <1>7, <1>8, <1>9, <1>10 DEF TypeOK

\* A pass that has begun is at a leg of the pair.
LEMMA VenueLeg == TypeOK /\ venue.at # "idle" => venue.leg \in Legs
<1>1. venue = NoPass => venue.at = "idle"
  BY DEF NoPass
<1> QED BY <1>1 DEF TypeOK

\* The auto-settler starts a settlement, or goes on as it was.
LEMMA SettleFinalTypes ==
  ASSUME TypeOK, SettleFinal
  PROVE  auto' \in [winner : {"none"} \cup Sides, todo : Seq(Legs)]
<1>1. \A winner \in Readings : winner \in {"none"} \cup Sides
  BY DEF TypeOK, Readings
<1>2. LegOrder \in Seq(Legs)
  BY LegAssumption
<1>3. \A winner \in Readings :
        Settling(winner) \in [winner : {"none"} \cup Sides, todo : Seq(Legs)]
  BY <1>1, <1>2 DEF Settling
<1> QED BY <1>3 DEF TypeOK, SettleFinal

\* A write that lands changes the fields it carries at its leg, and no other.
LEMMA StoredTypes ==
  ASSUME TypeOK, NEW w \in Writes, w # NoWrite
  PROVE  Stored(w) \in [qty : Counts, cash : Counts, rows : [Legs -> SUBSET {0, 1}],
                        traded : SUBSET Legs]
<1> DEFINE Tables == [qty : Counts, cash : Counts, rows : [Legs -> SUBSET {0, 1}],
                      traded : SUBSET Legs]
<1>1. db \in Tables
  BY DEF TypeOK
<1>2. CASE w.kind = "settled"
  <2> DEFINE rows == [db.rows EXCEPT ![w.leg] = @ \cup {w.value}]
             kept == [db.qty EXCEPT ![w.leg] = IF w.closed THEN 0 ELSE @]
             paid == [db.cash EXCEPT ![w.leg] = IF w.closed THEN w.cash ELSE @]
  <2>1. Stored(w) = [[[db EXCEPT !.rows = rows] EXCEPT !.qty = kept] EXCEPT !.cash = paid]
    BY <1>1, <1>2 DEF Stored
  <2>2. w.leg \in Legs /\ w.value \in {0, 1} /\ w.cash \in Nat
    BY <1>2, WriteKinds
  <2>3. rows \in [Legs -> SUBSET {0, 1}]
    BY <1>1, <2>2
  <2>4. kept \in Counts /\ paid \in Counts
    BY <1>1, <2>2 DEF Counts
  <2> HIDE DEF rows, kept, paid
  <2> QED BY <1>1, <2>1, <2>3, <2>4
<1>3. CASE w.kind = "position"
  <2> DEFINE kept == [db.qty EXCEPT ![w.leg] = w.qty]
  <2>1. Stored(w) = [db EXCEPT !.qty = kept]
    BY <1>1, <1>3 DEF Stored
  <2>2. w.leg \in Legs /\ w.qty \in Nat
    BY <1>3, WriteKinds
  <2>3. kept \in Counts
    BY <1>1, <2>2 DEF Counts
  <2> HIDE DEF kept
  <2> QED BY <1>1, <2>1, <2>3
<1>4. CASE w.kind = "status"
  <2>1. Stored(w) = [db EXCEPT !.traded = Legs]
    BY <1>4 DEF Stored
  <2> QED BY <1>1, <2>1
<1> QED BY <1>2, <1>3, <1>4, WriteKinds

\* Every step keeps every variable of its kind.
LEMMA TypeStep == TypeOK /\ [Next]_vars => TypeOK'
<1> SUFFICES ASSUME TypeOK, [Next]_vars PROVE TypeOK'
  OBVIOUS
<1> USE DEF memory, memo, history, audit
<1>1. CASE UNCHANGED vars
  BY <1>1 DEF vars, TypeOK
<1>2. CASE TickEnded
  BY <1>2, SettleFinalTypes DEF TickEnded, TypeOK
<1>3. CASE TickRetired
  <2>1. pin' \in [side : {"none"} \cup Sides, count : 0..(Hits - 1)]
    BY <1>3, CountAssumption DEF TickRetired, Unpinned
  <2> QED BY <1>3, <2>1, SettleFinalTypes DEF TickRetired, TypeOK
<1>4. CASE TickPinned
  <2> PICK winner \in Readings :
        LET hit  == started /\ winner # "none"
            done == hit /\ Streak(winner) = Hits
        IN IF settled THEN UNCHANGED <<pin, auto>>
           ELSE /\ pin' = IF hit /\ ~done
                          THEN [side |-> winner, count |-> Streak(winner)] ELSE Unpinned
                /\ auto' = IF done THEN Settling(winner) ELSE auto
    BY <1>4 DEF TickPinned
  <2>1. winner \in {"none"} \cup Sides
    BY DEF TypeOK, Readings
  <2>2. Streak(winner) \in 1..Hits
    BY CountAssumption DEF TypeOK, Streak
  <2>3. Unpinned \in [side : {"none"} \cup Sides, count : 0..(Hits - 1)]
    BY CountAssumption DEF Unpinned
  <2>4. Streak(winner) # Hits =>
          [side |-> winner, count |-> Streak(winner)]
            \in [side : {"none"} \cup Sides, count : 0..(Hits - 1)]
    BY <2>1, <2>2, CountAssumption
  <2>5. pin' \in [side : {"none"} \cup Sides, count : 0..(Hits - 1)]
    BY <2>3, <2>4 DEF TypeOK
  <2>6. Settling(winner) \in [winner : {"none"} \cup Sides, todo : Seq(Legs)]
    BY <2>1, LegAssumption DEF Settling
  <2>7. auto' \in [winner : {"none"} \cup Sides, todo : Seq(Legs)]
    BY <2>6 DEF TypeOK
  <2> QED BY <1>4, <2>5, <2>7 DEF TickPinned, TypeOK
<1>5. CASE AutoPays
  <2>1. Head(auto.todo) \in Legs /\ Tail(auto.todo) \in Seq(Legs)
    BY <1>5 DEF AutoPays, TypeOK
  <2>2. Value(Head(auto.todo), auto.winner) \in {0, 1}
    BY <2>1, ValueType
  <2>3. Settle("auto", Head(auto.todo), Value(Head(auto.todo), auto.winner))
    BY <1>5 DEF AutoPays
  <2>4. "auto" \in Tasks
    BY DEF Tasks
  <2>5. /\ qty' \in Counts /\ cash' \in Counts
        /\ writing' \in [Tasks -> Writes]
        /\ paidOut' \in SUBSET Legs
        /\ second' \subseteq Tasks \X Legs
    BY <2>1, <2>2, <2>3, <2>4, SettleTypes
  <2>6. auto' \in [winner : {"none"} \cup Sides, todo : Seq(Legs)]
    BY <1>5, <2>1 DEF AutoPays, TypeOK
  <2> QED BY <1>5, <2>5, <2>6 DEF AutoPays, TypeOK
<1>6. CASE AutoRemembers
  BY <1>6, EmptySeq DEF AutoRemembers, NotSettling, TypeOK
<1>7. CASE \E l \in Legs : VenueVisits(l) \/ VenueMissesRecord(l)
  BY <1>7 DEF VenueVisits, VenueMissesRecord, At, TypeOK
<1>8. ASSUME venue # NoPass PROVE venue.leg \in Legs
  BY <1>8 DEF TypeOK
<1>9. CASE VenueClosesGhost
  <2>1. venue.leg \in Legs
    BY <1>9, <1>8 DEF VenueClosesGhost, NoPass
  <2>2. qty' \in Counts
    BY <1>9, <2>1 DEF VenueClosesGhost, TypeOK, Counts
  <2>3. writing' \in [Tasks -> Writes]
    BY <1>9, <2>1, WritesMade DEF VenueClosesGhost, TypeOK
  <2>4. venue' \in [at : {"checking", "asking", "recording", "closing"}, leg : Legs]
    BY <1>9, <2>1 DEF VenueClosesGhost, At
  <2>5. UNCHANGED <<cash, db, memo, auto, ticket, game, honest, history, audit, restarts>>
    BY <1>9 DEF VenueClosesGhost
  <2> QED BY <2>2, <2>3, <2>4, <2>5 DEF TypeOK
<1>10. CASE VenueAsks
  <2>1. venue.leg \in Legs
    BY <1>10, <1>8 DEF VenueAsks, NoPass
  <2> QED BY <1>10, <2>1 DEF VenueAsks, At, TypeOK
<1>11. CASE VenueAnswers \/ VenueRecords
  <2>1. venue.leg \in Legs
    BY <1>11, <1>8 DEF VenueAnswers, VenueRecords, NoPass
  <2>2. Worth(venue.leg) \in {0, 1} /\ "venue" \in Tasks
    BY <2>1, ValueType DEF Worth, Tasks
  <2>3. Settle("venue", venue.leg, Worth(venue.leg)) /\ venue' = At("closing", venue.leg)
    BY <1>11 DEF VenueAnswers, VenueRecords
  <2>4. /\ qty' \in Counts /\ cash' \in Counts
        /\ writing' \in [Tasks -> Writes]
        /\ paidOut' \in SUBSET Legs
        /\ second' \subseteq Tasks \X Legs
    BY <2>1, <2>2, <2>3, SettleTypes
  <2>5. venue' \in [at : {"checking", "asking", "recording", "closing"}, leg : Legs]
    BY <2>1, <2>3 DEF At
  <2> QED BY <1>11, <2>4, <2>5 DEF VenueAnswers, VenueRecords, TypeOK
<1>12. CASE VenueHearsNothing
  BY <1>12 DEF VenueHearsNothing, TypeOK
<1>13. CASE VenueClosesGroup
  <2>1. Unpinned \in [side : {"none"} \cup Sides, count : 0..(Hits - 1)]
    BY CountAssumption DEF Unpinned
  <2> QED BY <1>13, <2>1 DEF VenueClosesGroup, TypeOK
<1>14. CASE TicketChecked
  BY <1>14, EmptySeq DEF TicketChecked, TypeOK
<1>15. CASE TicketFilled
  <2>1. qty' \in Counts /\ bought' \in Counts
    BY <1>15 DEF TicketFilled, TypeOK, Counts
  <2>2. ticket' \in [at : {"idle", "checked", "filled"}, todo : Seq(Legs)]
    BY <1>15, LegAssumption DEF TicketFilled
  <2> QED BY <1>15, <2>1, <2>2 DEF TicketFilled, TypeOK
<1>16. CASE TicketWrites
  <2>1. Head(ticket.todo) \in Legs /\ Tail(ticket.todo) \in Seq(Legs)
    BY <1>16 DEF TicketWrites, TypeOK
  <2>2. qty[Head(ticket.todo)] \in Nat
    BY <2>1 DEF TypeOK, Counts
  <2>3. writing' \in [Tasks -> Writes]
    BY <1>16, <2>1, <2>2, WritesMade DEF TicketWrites, TypeOK
  <2>4. ticket' \in [at : {"idle", "checked", "filled"}, todo : Seq(Legs)]
    BY <1>16, <2>1 DEF TicketWrites, TypeOK
  <2> QED BY <1>16, <2>3, <2>4 DEF TicketWrites, TypeOK
<1>17. CASE TicketDone
  <2>1. writing' \in [Tasks -> Writes]
    BY <1>17, WritesMade DEF TicketDone, TypeOK
  <2>2. ticket' \in [at : {"idle", "checked", "filled"}, todo : Seq(Legs)]
    BY <1>17, EmptySeq DEF TicketDone, NoTicket
  <2> QED BY <1>17, <2>1, <2>2 DEF TicketDone, TypeOK
<1>18. CASE \E l \in Legs : BalanceStored(l)
  <2> PICK l \in Legs : BalanceStored(l)
    BY <1>18
  <2> DEFINE paid == [db.cash EXCEPT ![l] = cash[l]]
  <2>1. db' = [db EXCEPT !.cash = paid]
    BY DEF BalanceStored
  <2>2. paid \in Counts
    BY DEF TypeOK, Counts
  <2> HIDE DEF paid
  <2>3. db' \in [qty : Counts, cash : Counts, rows : [Legs -> SUBSET {0, 1}],
                 traded : SUBSET Legs]
    BY <2>1, <2>2 DEF TypeOK
  <2> QED BY <2>3 DEF BalanceStored, TypeOK
<1>19. CASE \E p \in Tasks : WriteLands(p) \/ WriteDropped(p)
  <2> PICK p \in Tasks : WriteLands(p) \/ WriteDropped(p)
    BY <1>19
  <2>1. writing' \in [Tasks -> Writes]
    BY WritesMade DEF WriteLands, WriteDropped, TypeOK
  <2>2. WriteLands(p) => db' \in [qty : Counts, cash : Counts,
                                  rows : [Legs -> SUBSET {0, 1}], traded : SUBSET Legs]
    BY StoredTypes DEF WriteLands, TypeOK
  <2> QED BY <2>1, <2>2 DEF WriteLands, WriteDropped, TypeOK
<1>20. CASE Restart
  <2>1. /\ qty' \in Counts /\ cash' \in Counts
        /\ restarts' \in 0..MaxRestarts
    BY <1>20, CountAssumption DEF Restart, TypeOK
  <2>2. pin' \in [side : {"none"} \cup Sides, count : 0..(Hits - 1)]
    BY <1>20, CountAssumption DEF Restart, Unpinned
  <2>3. writing' \in [Tasks -> Writes]
    BY <1>20, WritesMade DEF Restart
  <2>4. /\ auto' \in [winner : {"none"} \cup Sides, todo : Seq(Legs)]
        /\ ticket' \in [at : {"idle", "checked", "filled"}, todo : Seq(Legs)]
        /\ venue' = NoPass
    BY <1>20, EmptySeq DEF Restart, NotSettling, NoTicket
  <2>5. /\ UNCHANGED <<db, game, honest, history, audit>>
        /\ {settled', seen', honest'} \subseteq BOOLEAN
    BY <1>20 DEF Restart, TypeOK
  <2> QED BY <2>1, <2>2, <2>3, <2>4, <2>5 DEF TypeOK
<1>21. CASE GameMoves \/ GroupRetired \/ ResultPublished
  <2>1. game' \in [started : BOOLEAN, ended : BOOLEAN, registered : BOOLEAN,
                   final : BOOLEAN, result : Sides]
    BY <1>21 DEF GameMoves, GroupRetired, ResultPublished, TypeOK
  <2> QED BY <1>21, <2>1 DEF GameMoves, GroupRetired, ResultPublished, TypeOK
<1> QED
  BY <1>1, <1>2, <1>3, <1>4, <1>5, <1>6, <1>7, <1>9, <1>10, <1>11, <1>12, <1>13, <1>14,
     <1>15, <1>16, <1>17, <1>18, <1>19, <1>20, <1>21 DEF Next, AutoPass, VenuePass

\* PaperExecutionAdapter's books, the settlers' memos and the paper_ tables:
\* every variable is of its kind in every reachable state.
THEOREM TypeCorrect == Spec => []TypeOK
BY TypeInit, TypeStep, PTL DEF Spec

-----------------------------------------------------------------------------
(* No record contradicts the result.                                        *)

\* The result, and whether books tell the truth, never change.
LEMMA ResultFixed ==
  ASSUME TypeOK, [Next]_vars
  PROVE  honest' = honest /\ game'.result = game.result
<1>1. CASE UNCHANGED vars
  BY <1>1 DEF vars
<1>2. CASE AutoPass
  BY <1>2 DEF AutoPass, TickEnded, TickRetired, TickPinned, AutoPays, AutoRemembers
<1>3. CASE VenuePass \/ \E l \in Legs : VenueVisits(l) \/ VenueMissesRecord(l)
  BY <1>3 DEF VenuePass, VenueVisits, VenueMissesRecord, VenueClosesGhost, VenueAsks,
     VenueAnswers, VenueRecords, VenueHearsNothing, VenueClosesGroup
<1>4. CASE TicketChecked \/ TicketFilled \/ TicketWrites \/ TicketDone
  BY <1>4 DEF TicketChecked, TicketFilled, TicketWrites, TicketDone
<1>5. CASE \/ \E l \in Legs : BalanceStored(l)
           \/ \E p \in Tasks : WriteLands(p) \/ WriteDropped(p)
           \/ Restart
  BY <1>5 DEF BalanceStored, WriteLands, WriteDropped, Restart
<1>6. CASE GameMoves \/ GroupRetired \/ ResultPublished
  BY <1>6 DEF GameMoves, GroupRetired, ResultPublished, TypeOK
<1> QED BY <1>1, <1>2, <1>3, <1>4, <1>5, <1>6 DEF Next

\* What settles pays the result, and what is being recorded says so.
Truthful ==
  honest =>
    /\ auto.winner \in {"none", game.result}
    /\ auto.todo # <<>> => auto.winner # "none"
    /\ \A p \in Tasks : writing[p].kind = "settled" =>
                          writing[p].value = Worth(writing[p].leg)
    /\ \A l \in Legs : db.rows[l] \subseteq {Worth(l)}

\* A settlement the auto-settler starts from an honest book names the result.
LEMMA StartsTruthful ==
  ASSUME TypeOK, honest, started, NEW winner \in Readings, winner # "none"
  PROVE  Settling(winner).winner = game.result
BY DEF Readings, Settling

LEMMA TruthfulInit == Init => Truthful
BY DEF Init, Truthful, NotSettling, NoWrite

LEMMA TruthfulStep == TypeOK /\ Truthful /\ [Next]_vars => Truthful'
<1> SUFFICES ASSUME TypeOK, Truthful, [Next]_vars, honest PROVE Truthful'
  BY ResultFixed DEF Truthful
<1> USE DEF memory, memo, history, audit
<1>0. game'.result = game.result /\ \A l : Worth(l)' = Worth(l)
  BY ResultFixed DEF Worth
<1>1. ASSUME UNCHANGED <<auto, writing, db>> PROVE Truthful'
  BY <1>0, <1>1 DEF Truthful
<1>2. CASE TickEnded \/ TickRetired \/ TickPinned
  <2>1. PICK winner \in Readings :
          auto' = auto \/ (started /\ winner # "none" /\ auto' = Settling(winner))
    BY <1>2 DEF TickEnded, TickRetired, TickPinned, SettleFinal
  <2>2. UNCHANGED <<writing, db>>
    BY <1>2 DEF TickEnded, TickRetired, TickPinned
  <2>3. CASE auto' = auto
    BY <1>1, <2>2, <2>3
  <2>4. CASE started /\ winner # "none" /\ auto' = Settling(winner)
    <3>1. auto'.winner = game.result /\ auto'.winner # "none"
      BY <2>4, StartsTruthful DEF Settling
    <3> QED BY <3>1, <1>0, <2>2 DEF Truthful
  <2> QED BY <2>1, <2>3, <2>4
<1>3. ASSUME NEW p \in Tasks, NEW l \in Legs, Settle(p, l, Worth(l)),
             auto'.winner \in {"none", game.result},
             auto'.todo # <<>> => auto'.winner # "none", db' = db
      PROVE  Truthful'
  <2>1. /\ writing'[p].value = Worth(writing'[p].leg)
        /\ \A q \in Tasks \ {p} : writing'[q] = writing[q]
    BY <1>3 DEF Settle, TypeOK
  <2> QED BY <1>0, <1>3, <2>1 DEF Truthful
<1>4. CASE AutoPays
  <2>1. Head(auto.todo) \in Legs /\ auto.winner = game.result /\ "auto" \in Tasks
    BY <1>4 DEF AutoPays, TypeOK, Truthful, Tasks
  <2>2. Settle("auto", Head(auto.todo), Worth(Head(auto.todo)))
    BY <1>4, <2>1 DEF AutoPays, Worth
  <2>3. auto'.winner = auto.winner /\ db' = db
    BY <1>4 DEF AutoPays, TypeOK
  <2>4. auto.winner # "none"
    BY <1>4 DEF AutoPays, Truthful
  <2> QED BY <1>3, <2>1, <2>2, <2>3, <2>4
<1>5. CASE VenueAnswers \/ VenueRecords
  <2>1. venue.leg \in Legs /\ "venue" \in Tasks
    BY <1>5, VenueLeg DEF VenueAnswers, VenueRecords, Tasks
  <2>2. Settle("venue", venue.leg, Worth(venue.leg)) /\ UNCHANGED <<auto, db>>
    BY <1>5 DEF VenueAnswers, VenueRecords
  <2> QED BY <1>3, <2>1, <2>2 DEF Truthful
<1>6. CASE AutoRemembers \/ Restart
  <2>1. auto' = NotSettling /\ db' = db
    BY <1>6 DEF AutoRemembers, Restart
  <2>2. \A p \in Tasks : writing'[p] \in {writing[p], NoWrite}
    BY <1>6 DEF AutoRemembers, Restart
  <2>3. \A p \in Tasks : writing'[p].kind = "settled" => writing'[p] = writing[p]
    BY <2>2 DEF NoWrite
  <2> QED BY <1>0, <2>1, <2>3 DEF Truthful, NotSettling
<1>7. ASSUME UNCHANGED <<auto, db>>,
             NEW p \in Tasks, NEW w, w.kind # "settled",
             writing' = [writing EXCEPT ![p] = w]
      PROVE  Truthful'
  <2>1. \A q \in Tasks : writing'[q].kind = "settled" => writing'[q] = writing[q]
    BY <1>7 DEF TypeOK
  <2> QED BY <1>0, <1>7, <2>1 DEF Truthful
<1>8. CASE VenueClosesGhost
  <2>1. "venue" \in Tasks
    BY DEF Tasks
  <2> DEFINE w == IF qty[venue.leg] # 0
                  THEN [kind |-> "position", leg |-> venue.leg, qty |-> 0] ELSE NoWrite
  <2>2. w.kind # "settled"
    BY DEF NoWrite
  <2>3. UNCHANGED <<auto, db>> /\ writing' = [writing EXCEPT !["venue"] = w]
    BY <1>8 DEF VenueClosesGhost
  <2> HIDE DEF w
  <2> QED BY <1>7, <2>1, <2>2, <2>3
<1>9. CASE TicketWrites \/ TicketDone
  <2>1. "ticket" \in Tasks
    BY DEF Tasks
  <2>2. \E w : /\ w.kind # "settled"
               /\ UNCHANGED <<auto, db>> /\ writing' = [writing EXCEPT !["ticket"] = w]
    BY <1>9 DEF TicketWrites, TicketDone
  <2> QED BY <1>7, <2>1, <2>2
<1>10. CASE \E l \in Legs : BalanceStored(l)
  <2>1. UNCHANGED <<auto, writing>> /\ db'.rows = db.rows
    BY <1>10 DEF BalanceStored, TypeOK
  <2> QED BY <1>0, <2>1 DEF Truthful
<1>11. CASE \E p \in Tasks : WriteDropped(p)
  <2>1. NoWrite.kind # "settled"
    BY DEF NoWrite
  <2> QED BY <1>7, <1>11, <2>1 DEF WriteDropped
<1>12. CASE \E p \in Tasks : WriteLands(p)
  <2> PICK p \in Tasks : WriteLands(p)
    BY <1>12
  <2>1. /\ writing[p] \in Writes /\ writing[p] # NoWrite
        /\ db' = Stored(writing[p]) /\ auto' = auto
    BY DEF WriteLands, TypeOK
  <2>2. \A q \in Tasks : writing'[q].kind = "settled" => writing'[q] = writing[q]
    BY DEF WriteLands, NoWrite, TypeOK
  <2>3. CASE writing[p].kind = "settled"
    <3>1. writing[p].leg \in Legs /\ writing[p].value = Worth(writing[p].leg)
      BY <2>1, <2>3, WriteKinds DEF Truthful
    <3>2. db'.rows = [db.rows EXCEPT ![writing[p].leg] = @ \cup {writing[p].value}]
      BY <2>1, <2>3 DEF Stored, TypeOK
    <3>3. \A l \in Legs : db'.rows[l] \subseteq {Worth(l)}
      BY <3>1, <3>2 DEF Truthful, TypeOK
    <3> QED BY <1>0, <2>1, <2>2, <3>3 DEF Truthful
  <2>4. CASE writing[p].kind # "settled"
    <3>1. db'.rows = db.rows
      BY <2>1, <2>4, WriteKinds DEF Stored, TypeOK
    <3> QED BY <1>0, <2>1, <2>2, <3>1 DEF Truthful
  <2> QED BY <2>3, <2>4
<1>13. CASE \/ UNCHANGED vars
            \/ \E l \in Legs : VenueVisits(l) \/ VenueMissesRecord(l)
            \/ VenueAsks \/ VenueHearsNothing \/ VenueClosesGroup
            \/ TicketChecked \/ TicketFilled
            \/ GameMoves \/ GroupRetired \/ ResultPublished
  <2>1. UNCHANGED <<auto, writing, db>>
    BY <1>13 DEF vars, VenueVisits, VenueMissesRecord, VenueAsks, VenueHearsNothing,
       VenueClosesGroup, TicketChecked, TicketFilled, GameMoves, GroupRetired,
       ResultPublished
  <2> QED BY <1>1, <2>1
<1> QED
  BY <1>2, <1>4, <1>5, <1>6, <1>8, <1>9, <1>10, <1>11, <1>12, <1>13
     DEF Next, AutoPass, VenuePass

\* With books that tell the truth once a game has started, no stored
\* settlement ever contradicts the result, through restarts and dropped writes
\* (AutoSettleService._has_started, repositories.record_settlement).
THEOREM RecordsTruthful == Spec => []RecordsMatchResult
<1>1. TypeOK /\ Truthful => RecordsMatchResult
  BY DEF Truthful, RecordsMatchResult
<1> QED BY TypeInit, TypeStep, TruthfulInit, TruthfulStep, <1>1, PTL DEF Spec

-----------------------------------------------------------------------------
(* Every contract pays once.                                                *)

\* A recorded leg was paid; in one life of the process a paid leg holds nothing
\* but what was bought afterwards; and with honest books what is held and what
\* was paid add up.
Accounted ==
  /\ \A l \in Legs : db.rows[l] # {} => l \in paidOut
  /\ \A p \in Tasks : writing[p].kind = "settled" => writing[p].leg \in paidOut
  /\ restarts = 0 => \A l \in paidOut \ late : qty[l] = 0
  /\ EveryContractPaidOnce

LEMMA AccountedInit == Init => Accounted
BY DEF Init, Accounted, EveryContractPaidOnce, NoWrite, Worth, Value

\* Paying a leg its worth moves what it is worth from the position to the cash.
LEMMA SettleAccounts ==
  ASSUME TypeOK, Accounted, NEW p \in Tasks, NEW l \in Legs, NEW value \in {0, 1},
         Settle(p, l, value), honest => value = Worth(l),
         honest' = honest, game'.result = game.result,
         UNCHANGED <<db, bought, late, restarts>>
  PROVE  Accounted'
<1>1. /\ qty \in [Legs -> Nat] /\ cash \in [Legs -> Nat] /\ bought \in [Legs -> Nat]
      /\ writing \in [Tasks -> Writes]
  BY DEF TypeOK, Counts
<1>2. /\ qty' = [qty EXCEPT ![l] = 0]
      /\ cash' = [cash EXCEPT ![l] = cash[l] + value * qty[l]]
      /\ paidOut' = paidOut \cup {l}
      /\ writing'[p].leg = l
      /\ \A q \in Tasks \ {p} : writing'[q] = writing[q]
  BY <1>1 DEF Settle
<1>3. \A k \in Legs : db'.rows[k] # {} => k \in paidOut'
  BY <1>2 DEF Accounted
<1>4. \A q \in Tasks : writing'[q].kind = "settled" => writing'[q].leg \in paidOut'
  BY <1>2 DEF Accounted
<1>5. restarts' = 0 => \A k \in paidOut' \ late' : qty'[k] = 0
  BY <1>1, <1>2 DEF Accounted, TypeOK
<1>6. ASSUME honest, restarts = 0, NEW k \in Legs \ late
      PROVE  cash'[k] + Worth(k) * qty'[k] = Worth(k) * bought[k]
  <2>1. cash[k] + Worth(k) * qty[k] = Worth(k) * bought[k]
    BY <1>6 DEF Accounted, EveryContractPaidOnce
  <2>2. Worth(k) \in {0, 1}
    BY ValueType DEF Worth
  <2>3. CASE k = l
    <3>1. cash'[k] = cash[k] + Worth(k) * qty[k] /\ qty'[k] = 0
      BY <1>1, <1>2, <1>6, <2>3
    <3>2. Worth(k) * 0 = 0
      BY <2>2
    <3>3. cash[k] + Worth(k) * qty[k] \in Nat
      BY <1>1, <2>2
    <3> QED BY <2>1, <3>1, <3>2, <3>3
  <2>4. CASE k # l
    BY <1>1, <1>2, <2>1, <2>4
  <2> QED BY <2>3, <2>4
<1>7. \A k : Worth(k)' = Worth(k)
  BY DEF Worth
<1>8. EveryContractPaidOnce'
  BY <1>6, <1>7 DEF EveryContractPaidOnce
<1> QED BY <1>3, <1>4, <1>5, <1>8 DEF Accounted

LEMMA AccountedStep == TypeOK /\ Truthful /\ Accounted /\ [Next]_vars => Accounted'
<1> SUFFICES ASSUME TypeOK, Truthful, Accounted, [Next]_vars PROVE Accounted'
  OBVIOUS
<1> USE DEF memory, memo, history, audit
<1>0. honest' = honest /\ game'.result = game.result /\ \A l : Worth(l)' = Worth(l)
  BY ResultFixed DEF Worth
<1>1. ASSUME UNCHANGED <<memory, history, restarts>>, db'.rows = db.rows,
             \A p \in Tasks : writing'[p].kind = "settled" => writing'[p] = writing[p]
      PROVE  Accounted'
  BY <1>0, <1>1 DEF Accounted, EveryContractPaidOnce
<1>2. CASE AutoPays
  <2>1. Head(auto.todo) \in Legs /\ "auto" \in Tasks
    BY <1>2 DEF AutoPays, TypeOK, Tasks
  <2>2. Value(Head(auto.todo), auto.winner) \in {0, 1}
    BY <2>1, ValueType
  <2>3. honest => Value(Head(auto.todo), auto.winner) = Worth(Head(auto.todo))
    BY <1>2 DEF AutoPays, Truthful, Worth
  <2> QED BY <1>0, <1>2, <2>1, <2>2, <2>3, SettleAccounts DEF AutoPays
<1>3. CASE VenueAnswers \/ VenueRecords
  <2>1. venue.leg \in Legs /\ "venue" \in Tasks
    BY <1>3, VenueLeg DEF VenueAnswers, VenueRecords, Tasks
  <2>2. Worth(venue.leg) \in {0, 1}
    BY <2>1, ValueType DEF Worth
  <2> QED BY <1>0, <1>3, <2>1, <2>2, SettleAccounts DEF VenueAnswers, VenueRecords
<1>4. CASE VenueClosesGhost
  <2>1. venue.leg \in Legs /\ db.rows[venue.leg] # {}
    BY <1>4, VenueLeg DEF VenueClosesGhost
  <2>2. \A l \in Legs : qty'[l] = IF l = venue.leg THEN 0 ELSE qty[l]
    BY <1>4, <2>1 DEF VenueClosesGhost, TypeOK, Counts
  <2>3. restarts = 0 => \A l \in Legs \ late : qty'[l] = qty[l]
    BY <2>1, <2>2 DEF Accounted
  <2>4. \A p \in Tasks : writing'[p].kind = "settled" => writing'[p] = writing[p]
    BY <1>4 DEF VenueClosesGhost, NoWrite, TypeOK
  <2>5. UNCHANGED <<cash, db, history, restarts>>
    BY <1>4 DEF VenueClosesGhost
  <2>6. restarts' = 0 => \A l \in paidOut' \ late' : qty'[l] = 0
    BY <2>3, <2>5 DEF Accounted, TypeOK
  <2>7. EveryContractPaidOnce'
    BY <1>0, <2>3, <2>5 DEF Accounted, EveryContractPaidOnce
  <2> QED BY <2>4, <2>5, <2>6, <2>7 DEF Accounted
<1>5. CASE TicketFilled
  <2>1. /\ UNCHANGED <<cash, db, writing, paidOut, restarts>>
        /\ late' = late \cup paidOut
        /\ \A l \in Legs : qty'[l] = qty[l] + 1 /\ bought'[l] = bought[l] + 1
    BY <1>5 DEF TicketFilled
  <2>2. ASSUME honest, restarts = 0, NEW l \in Legs \ late'
        PROVE  cash[l] + Worth(l) * qty'[l] = Worth(l) * bought'[l]
    <3>1. cash[l] + Worth(l) * qty[l] = Worth(l) * bought[l]
      BY <2>1, <2>2 DEF Accounted, EveryContractPaidOnce
    <3>2. cash[l] \in Nat /\ qty[l] \in Nat /\ bought[l] \in Nat
      BY DEF TypeOK, Counts
    <3>3. Worth(l) = 0 \/ Worth(l) = 1
      BY ValueType DEF Worth
    <3> QED BY <2>1, <3>1, <3>2, <3>3
  <2>3. EveryContractPaidOnce'
    BY <1>0, <2>1, <2>2 DEF EveryContractPaidOnce
  <2>4. paidOut' \ late' = {}
    BY <2>1
  <2> QED BY <2>1, <2>3, <2>4 DEF Accounted
<1>6. CASE Restart
  <2>1. restarts' # 0
    BY <1>6, CountAssumption DEF Restart, TypeOK
  <2>2. \A p \in Tasks : writing'[p].kind # "settled"
    BY <1>6 DEF Restart, NoWrite
  <2>3. db' = db /\ paidOut' = paidOut
    BY <1>6 DEF Restart
  <2> QED BY <2>1, <2>2, <2>3 DEF Accounted, EveryContractPaidOnce
<1>7. CASE \E p \in Tasks : WriteLands(p)
  <2> PICK p \in Tasks : WriteLands(p)
    BY <1>7
  <2>1. /\ writing[p] \in Writes /\ writing[p] # NoWrite /\ db' = Stored(writing[p])
        /\ UNCHANGED <<memory, history, restarts>>
    BY DEF WriteLands, TypeOK
  <2>2. \A q \in Tasks : writing'[q].kind = "settled" => writing'[q] = writing[q]
    BY DEF WriteLands, NoWrite, TypeOK
  <2>3. CASE writing[p].kind # "settled"
    <3>1. db'.rows = db.rows
      BY <2>1, <2>3, WriteKinds DEF Stored, TypeOK
    <3> QED BY <1>1, <2>1, <2>2, <3>1
  <2>4. CASE writing[p].kind = "settled"
    <3>1. db'.rows = [db.rows EXCEPT ![writing[p].leg] = @ \cup {writing[p].value}]
      BY <2>1, <2>4 DEF Stored, TypeOK
    <3>2. \A l \in Legs : db'.rows[l] # {} => l \in paidOut
      BY <2>4, <3>1 DEF Accounted, TypeOK
    <3>3. EveryContractPaidOnce'
      BY <1>0, <2>1 DEF Accounted, EveryContractPaidOnce
    <3> QED BY <2>1, <2>2, <3>2, <3>3 DEF Accounted
  <2> QED BY <2>3, <2>4
<1>8. CASE \/ TicketWrites \/ TicketDone \/ \E p \in Tasks : WriteDropped(p)
           \/ \E l \in Legs : BalanceStored(l)
  <2>1. UNCHANGED <<memory, history, restarts>> /\ db'.rows = db.rows
    BY <1>8 DEF TicketWrites, TicketDone, WriteDropped, BalanceStored, TypeOK
  <2>2. \A p \in Tasks : writing'[p].kind = "settled" => writing'[p] = writing[p]
    BY <1>8 DEF TicketWrites, TicketDone, WriteDropped, BalanceStored, NoWrite, TypeOK
  <2> QED BY <1>1, <2>1, <2>2
<1>9. CASE \/ UNCHANGED vars
           \/ TickEnded \/ TickRetired \/ TickPinned \/ AutoRemembers
           \/ \E l \in Legs : VenueVisits(l) \/ VenueMissesRecord(l)
           \/ VenueAsks \/ VenueHearsNothing \/ VenueClosesGroup
           \/ TicketChecked \/ GameMoves \/ GroupRetired \/ ResultPublished
  <2>1. UNCHANGED <<memory, history, restarts, db, writing>>
    BY <1>9 DEF vars, TickEnded, TickRetired, TickPinned, AutoRemembers, VenueVisits,
       VenueMissesRecord, VenueAsks, VenueHearsNothing, VenueClosesGroup, TicketChecked,
       GameMoves, GroupRetired, ResultPublished
  <2> QED BY <1>1, <2>1
<1> QED
  BY <1>2, <1>3, <1>4, <1>5, <1>6, <1>7, <1>8, <1>9 DEF Next, AutoPass, VenuePass

\* In one life of the process, with books that tell the truth, every contract
\* bought before its leg was settled is held or has paid its worth, once
\* (settle_outcome_async, close_already_settled).
THEOREM ContractsPaidOnce == Spec => []EveryContractPaidOnce
<1>1. Accounted => EveryContractPaidOnce
  BY DEF Accounted
<1> QED BY TypeInit, TypeStep, TruthfulInit, TruthfulStep, AccountedInit, AccountedStep,
           <1>1, PTL DEF Spec

-----------------------------------------------------------------------------
(* The venue settler pays again only what was stored without its record.    *)

\* The venue is being asked about a leg.
Asking(l) == venue.at \in {"asking", "recording"} /\ venue.leg = l

\* Of a leg whose payout never got ahead of its record: no stored cash without
\* the record, and unless the record stands and nobody asks about the leg, what
\* it paid and what is held were bought.
Recorded(l) ==
  /\ db.rows[l] = {} => db.cash[l] = 0
  /\ \/ cash[l] + qty[l] <= bought[l]
     \/ db.rows[l] # {} /\ ~Asking(l)

\* No position, held, stored or on its way to the database, exceeds what was
\* bought.
Backed ==
  /\ \A l \in Legs : qty[l] <= bought[l] /\ db.qty[l] <= bought[l]
  /\ \A p \in Tasks : writing[p].kind = "position" =>
                        writing[p].qty <= bought[writing[p].leg]

Explained ==
  /\ Backed
  /\ \A l \in Legs \ unrecorded : Recorded(l)
  /\ VenuePaysAgainOnlyUnrecorded

LEMMA ExplainedInit == Init => Explained
<1> SUFFICES ASSUME Init PROVE Explained
  OBVIOUS
<1>1. \A l \in Legs : /\ qty[l] = 0 /\ cash[l] = 0 /\ bought[l] = 0
                      /\ db.qty[l] = 0 /\ db.cash[l] = 0 /\ db.rows[l] = {}
  BY DEF Init
<1>2. second = {} /\ \A p \in Tasks : writing[p].kind = "none"
  BY DEF Init, NoWrite
<1> QED BY <1>1, <1>2 DEF Explained, Backed, Recorded, VenuePaysAgainOnlyUnrecorded

\* Paying a leg: the venue settler pays only where what it pays was bought.
LEMMA SettleExplained ==
  ASSUME TypeOK, Explained, NEW p \in Tasks, NEW l \in Legs, NEW value \in {0, 1},
         Settle(p, l, value), p = "venue" => Asking(l),
         p # "venue" => UNCHANGED venue, p = "venue" => venue'.at = "closing",
         UNCHANGED <<db, bought, unrecorded>>
  PROVE  Explained'
<1>1. /\ qty \in [Legs -> Nat] /\ cash \in [Legs -> Nat] /\ bought \in [Legs -> Nat]
      /\ db.qty \in [Legs -> Nat]
  BY DEF TypeOK, Counts
<1> DEFINE paid == cash[l] + value * qty[l]
<1>2. /\ qty' = [qty EXCEPT ![l] = 0]
      /\ cash' = [cash EXCEPT ![l] = paid]
      /\ \A q \in Tasks : writing'[q].kind = "position" => writing'[q] = writing[q]
      /\ second' = IF paid > bought[l] /\ paid > cash[l]
                   THEN second \cup {<<p, l>>} ELSE second
  BY DEF Settle, TypeOK
<1>3. paid \in Nat /\ paid <= cash[l] + qty[l]
  <2>1. value * qty[l] \in {0, qty[l]}
    BY <1>1
  <2> QED BY <1>1, <2>1
<1> HIDE DEF paid
<1>4. \A k \in Legs : /\ qty'[k] = IF k = l THEN 0 ELSE qty[k]
                      /\ cash'[k] = IF k = l THEN paid ELSE cash[k]
  BY <1>1, <1>2
<1>5. Backed'
  BY <1>1, <1>2, <1>4 DEF Explained, Backed
<1>6. ASSUME NEW k \in Legs \ unrecorded PROVE Recorded(k)'
  <2>1. Recorded(k)
    BY <1>6 DEF Explained
  <2>2. cash'[k] + qty'[k] <= cash[k] + qty[k]
    BY <1>1, <1>3, <1>4
  <2>3. cash'[k] \in Nat /\ qty'[k] \in Nat
    BY <1>1, <1>3, <1>4
  <2>4. Asking(k)' => Asking(k)
    BY DEF Asking
  <2> QED BY <1>1, <2>1, <2>2, <2>3, <2>4 DEF Recorded
<1>7. p = "venue" /\ l \notin unrecorded => paid <= bought[l]
  <2> SUFFICES ASSUME p = "venue", l \notin unrecorded PROVE paid <= bought[l]
    OBVIOUS
  <2>1. cash[l] + qty[l] <= bought[l]
    BY DEF Explained, Recorded
  <2> QED BY <1>1, <1>3, <2>1
<1>8. \A k \in Legs : <<"venue", k>> \in second' => k \in unrecorded
  <2> SUFFICES ASSUME NEW k \in Legs, <<"venue", k>> \in second', k \notin unrecorded
               PROVE  FALSE
    OBVIOUS
  <2>1. <<"venue", k>> \notin second
    BY DEF Explained, VenuePaysAgainOnlyUnrecorded
  <2>2. paid > bought[l] /\ <<"venue", k>> = <<p, l>>
    BY <1>2, <2>1
  <2> QED BY <1>1, <1>3, <1>7, <2>2
<1> QED BY <1>5, <1>6, <1>8 DEF Explained, VenuePaysAgainOnlyUnrecorded

LEMMA ExplainedStep == TypeOK /\ Explained /\ [Next]_vars => Explained'
<1> SUFFICES ASSUME TypeOK, Explained, [Next]_vars PROVE Explained'
  OBVIOUS
<1> USE DEF memory, memo, history, audit
<1>0. /\ qty \in [Legs -> Nat] /\ cash \in [Legs -> Nat] /\ bought \in [Legs -> Nat]
      /\ db.qty \in [Legs -> Nat] /\ db.cash \in [Legs -> Nat]
  BY DEF TypeOK, Counts
<1>1. ASSUME UNCHANGED <<memory, db, bought, audit>>,
             \A l \in Legs \ unrecorded : Asking(l)' => Asking(l) \/ db.rows[l] = {},
             \A p \in Tasks : writing'[p].kind = "position" =>
                                \/ writing'[p] = writing[p]
                                \/ writing'[p].qty <= bought[writing'[p].leg]
      PROVE  Explained'
  <2>1. Backed'
    BY <1>1 DEF Explained, Backed
  <2>2. ASSUME NEW l \in Legs \ unrecorded PROVE Recorded(l)'
    <3>1. Recorded(l)
      BY <2>2 DEF Explained
    <3>2. (cash[l] + qty[l] <= bought[l]) \/ (db.rows[l] # {} /\ ~Asking(l)')
      BY <1>1, <2>2, <3>1 DEF Recorded
    <3> QED BY <1>1, <3>1, <3>2 DEF Recorded
  <2> QED BY <1>1, <2>1, <2>2 DEF Explained, VenuePaysAgainOnlyUnrecorded
<1>2. CASE AutoPays
  <2>1. Head(auto.todo) \in Legs /\ "auto" \in Tasks
    BY <1>2 DEF AutoPays, TypeOK, Tasks
  <2>2. Value(Head(auto.todo), auto.winner) \in {0, 1}
    BY <2>1, ValueType
  <2> QED BY <1>2, <2>1, <2>2, SettleExplained DEF AutoPays
<1>3. CASE VenueAnswers \/ VenueRecords
  <2>1. venue.leg \in Legs /\ "venue" \in Tasks
    BY <1>3, VenueLeg DEF VenueAnswers, VenueRecords, Tasks
  <2>2. Worth(venue.leg) \in {0, 1}
    BY <2>1, ValueType DEF Worth
  <2>3. Asking(venue.leg) /\ venue'.at = "closing"
    BY <1>3 DEF VenueAnswers, VenueRecords, Asking, At
  <2> QED BY <1>3, <2>1, <2>2, <2>3, SettleExplained DEF VenueAnswers, VenueRecords
<1>4. CASE VenueClosesGhost
  <2>1. venue.leg \in Legs /\ venue'.at = "closing"
    BY <1>4, VenueLeg DEF VenueClosesGhost, At
  <2>2. \A l \in Legs : qty'[l] = IF l = venue.leg THEN 0 ELSE qty[l]
    BY <1>4, <1>0, <2>1 DEF VenueClosesGhost
  <2>3. UNCHANGED <<cash, db, bought, audit>>
    BY <1>4 DEF VenueClosesGhost
  <2>4. ASSUME NEW p \in Tasks, writing'[p].kind = "position"
        PROVE  writing'[p] = writing[p] \/ (writing'[p].qty = 0 /\ writing'[p].leg \in Legs)
    BY <1>4, <2>1, <2>4 DEF VenueClosesGhost, NoWrite, TypeOK
  <2>5. Backed'
    BY <1>0, <2>2, <2>3, <2>4 DEF Explained, Backed
  <2>6. ASSUME NEW l \in Legs \ unrecorded PROVE Recorded(l)'
    <3>1. Recorded(l) /\ ~Asking(l)'
      BY <2>1, <2>6 DEF Explained, Asking
    <3>2. cash[l] + qty[l] <= bought[l] => cash'[l] + qty'[l] <= bought'[l]
      BY <1>0, <2>2, <2>3
    <3> QED BY <2>3, <3>1, <3>2 DEF Recorded
  <2> QED BY <2>3, <2>5, <2>6 DEF Explained, VenuePaysAgainOnlyUnrecorded
<1>5. CASE TicketFilled
  <2>1. /\ UNCHANGED <<cash, db, writing, venue, audit>>
        /\ \A l \in Legs : qty'[l] = qty[l] + 1 /\ bought'[l] = bought[l] + 1
    BY <1>5 DEF TicketFilled
  <2>2. \A p \in Tasks : writing[p].kind = "position" =>
                           writing[p].leg \in Legs /\ writing[p].qty \in Nat
    BY WriteKinds DEF TypeOK
  <2>3. Backed'
    BY <1>0, <2>1, <2>2 DEF Explained, Backed
  <2>4. ASSUME NEW l \in Legs \ unrecorded PROVE Recorded(l)'
    <3>1. Recorded(l) /\ Asking(l)' = Asking(l)
      BY <2>1, <2>4 DEF Explained, Asking
    <3>2. cash[l] + qty[l] <= bought[l] => cash'[l] + qty'[l] <= bought'[l]
      BY <1>0, <2>1
    <3> QED BY <2>1, <3>1, <3>2 DEF Recorded
  <2> QED BY <2>1, <2>3, <2>4 DEF Explained, VenuePaysAgainOnlyUnrecorded
<1>6. CASE TicketWrites
  <2>1. Head(ticket.todo) \in Legs
    BY <1>6 DEF TicketWrites, TypeOK
  <2>2. UNCHANGED <<memory, db, bought, venue, audit>>
    BY <1>6 DEF TicketWrites
  <2>3. \A p \in Tasks : writing'[p].kind = "position" =>
                           \/ writing'[p] = writing[p]
                           \/ writing'[p].qty <= bought[writing'[p].leg]
    BY <1>6, <2>1 DEF TicketWrites, Explained, Backed, TypeOK
  <2> QED BY <1>1, <2>2, <2>3 DEF Asking
<1>7. CASE \E l \in Legs : BalanceStored(l)
  <2> PICK l \in Legs : BalanceStored(l)
    BY <1>7
  <2>1. /\ UNCHANGED <<memory, bought, writing, venue, second>>
        /\ db'.qty = db.qty /\ db'.rows = db.rows
        /\ db'.cash = [db.cash EXCEPT ![l] = cash[l]]
        /\ unrecorded' = IF db.rows[l] = {} THEN unrecorded \cup {l} ELSE unrecorded
    BY DEF BalanceStored, TypeOK
  <2>2. Backed'
    BY <2>1 DEF Explained, Backed
  <2>3. ASSUME NEW k \in Legs \ unrecorded' PROVE Recorded(k)'
    <3>1. Recorded(k) /\ (db.rows[k] = {} => db'.cash[k] = db.cash[k])
      BY <1>0, <2>1, <2>3 DEF Explained
    <3> QED BY <2>1, <3>1 DEF Recorded, Asking
  <2> QED BY <2>1, <2>2, <2>3 DEF Explained, VenuePaysAgainOnlyUnrecorded
<1>8. CASE \E p \in Tasks : WriteLands(p)
  <2> PICK p \in Tasks : WriteLands(p)
    BY <1>8
  <2> DEFINE w == writing[p]
  <2>1. /\ w \in Writes /\ w # NoWrite /\ db' = Stored(w)
        /\ UNCHANGED <<memory, bought, venue, audit>>
    BY DEF WriteLands, TypeOK
  <2>2. \A q \in Tasks : writing'[q].kind = "position" => writing'[q] = writing[q]
    BY DEF WriteLands, NoWrite, TypeOK
  <2>3. w.kind = "position" => w.qty <= bought[w.leg]
    BY DEF Explained, Backed
  <2> HIDE DEF w
  <2>4. /\ w.kind \in {"settled", "position", "status", "none"}
        /\ w.kind \in {"settled", "position"} => w.leg \in Legs
        /\ w.kind = "none" => w = NoWrite
    BY <2>1, WriteKinds
  <2>5. \A l \in Legs : \/ db'.qty[l] \in {db.qty[l], 0}
                        \/ w.kind = "position" /\ l = w.leg /\ db'.qty[l] = w.qty
    BY <2>1, <2>4 DEF Stored, TypeOK
  <2>6. Backed'
    BY <1>0, <2>1, <2>2, <2>3, <2>5 DEF Explained, Backed
  <2>7. \A l \in Legs : \/ db'.rows[l] = db.rows[l] /\ db'.cash[l] = db.cash[l]
                        \/ db'.rows[l] # {}
    <3>1. CASE w.kind = "settled"
      <4>1. db'.rows = [db.rows EXCEPT ![w.leg] = @ \cup {w.value}]
        BY <2>1, <3>1 DEF Stored, TypeOK
      <4>2. \A l \in Legs \ {w.leg} : db'.cash[l] = db.cash[l]
        BY <1>0, <2>1, <3>1 DEF Stored, TypeOK
      <4>3. db.rows \in [Legs -> SUBSET {0, 1}]
        BY DEF TypeOK
      <4> QED BY <4>1, <4>2, <4>3
    <3>2. CASE w.kind # "settled"
      BY <2>1, <2>4, <3>2 DEF Stored, TypeOK
    <3> QED BY <3>1, <3>2
  <2>8. ASSUME NEW l \in Legs \ unrecorded PROVE Recorded(l)'
    <3>1. Recorded(l)
      BY <2>8 DEF Explained
    <3> QED BY <2>1, <2>7, <3>1 DEF Recorded, Asking
  <2> QED BY <2>1, <2>6, <2>8 DEF Explained, VenuePaysAgainOnlyUnrecorded
<1>9. CASE Restart
  <2>1. /\ qty' = db.qty /\ cash' = db.cash /\ venue' = NoPass
        /\ UNCHANGED <<db, bought, audit>>
        /\ \A p \in Tasks : writing'[p].kind = "none"
    BY <1>9 DEF Restart, NoWrite
  <2>2. Backed'
    BY <2>1 DEF Explained, Backed
  <2>3. ASSUME NEW l \in Legs \ unrecorded PROVE Recorded(l)'
    <3>1. db.rows[l] = {} => db.cash[l] = 0
      BY <2>3 DEF Explained, Recorded
    <3>2. ~Asking(l)'
      BY <2>1 DEF Asking, NoPass
    <3>3. db.qty[l] <= bought[l]
      BY <2>3 DEF Explained, Backed
    <3>4. db.cash[l] = 0 => db.cash[l] + db.qty[l] <= bought[l]
      BY <1>0, <3>3
    <3> QED BY <2>1, <3>1, <3>2, <3>4 DEF Recorded
  <2> QED BY <2>1, <2>2, <2>3 DEF Explained, VenuePaysAgainOnlyUnrecorded
<1>10. CASE \/ VenueAsks
            \/ \E l \in Legs : VenueVisits(l) \/ VenueMissesRecord(l)
  <2>1. UNCHANGED <<memory, db, bought, audit, writing>>
    BY <1>10 DEF VenueAsks, VenueVisits, VenueMissesRecord
  <2>2. \A l \in Legs : Asking(l)' => db.rows[l] = {}
    BY <1>10 DEF VenueAsks, VenueVisits, VenueMissesRecord, At, Asking
  <2> QED BY <1>1, <2>1, <2>2
<1>11. CASE \/ VenueHearsNothing \/ VenueClosesGroup
            \/ TicketDone \/ \E p \in Tasks : WriteDropped(p)
  <2>1. UNCHANGED <<memory, db, bought, audit>>
    BY <1>11 DEF VenueHearsNothing, VenueClosesGroup, TicketDone, WriteDropped
  <2>2. venue' \in {venue, NoPass}
    BY <1>11 DEF VenueHearsNothing, VenueClosesGroup, TicketDone, WriteDropped
  <2>3. \A l : Asking(l)' => Asking(l)
    BY <2>2 DEF Asking, NoPass
  <2>4. \A p \in Tasks : writing'[p].kind = "position" => writing'[p] = writing[p]
    BY <1>11 DEF VenueHearsNothing, VenueClosesGroup, TicketDone, WriteDropped, NoWrite,
       TypeOK
  <2> QED BY <1>1, <2>1, <2>3, <2>4
<1>12. CASE \/ UNCHANGED vars
            \/ TickEnded \/ TickRetired \/ TickPinned \/ AutoRemembers
            \/ TicketChecked \/ GameMoves \/ GroupRetired \/ ResultPublished
  <2>1. UNCHANGED <<memory, db, bought, audit, writing, venue>>
    BY <1>12 DEF vars, TickEnded, TickRetired, TickPinned, AutoRemembers, TicketChecked,
       GameMoves, GroupRetired, ResultPublished
  <2> QED BY <1>1, <2>1 DEF Asking
<1> QED
  BY <1>2, <1>3, <1>4, <1>5, <1>6, <1>7, <1>8, <1>9, <1>10, <1>11, <1>12
     DEF Next, AutoPass, VenuePass

\* Across restarts, dropped writes and both settlers, the venue settler pays a
\* contract a second time only where its payout reached the stored balance
\* without its record (VenueSettleService.settle_once, already_settled).
THEOREM PaysAgainOnlyUnrecorded == Spec => []VenuePaysAgainOnlyUnrecorded
<1>1. Explained => VenuePaysAgainOnlyUnrecorded
  BY DEF Explained
<1> QED BY TypeInit, TypeStep, ExplainedInit, ExplainedStep, <1>1, PTL DEF Spec
=============================================================================
