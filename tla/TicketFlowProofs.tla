--------------------------- MODULE TicketFlowProofs ---------------------------
(* Theorems about TicketFlow: its safety properties hold for any number of    *)
(* tickets, any stakes and any cap.                                           *)
EXTENDS TicketFlow, FiniteSetTheorems, TLAPS

(* The inductive invariant.                                                   *)

Underway == {"writing", "emitting", "closing", "auditing"}
Over == {"idle", "done", "raised", "cancelled"}
Active(t) == t \in AutoRuns /\ pc[t] \notin Over

\* What the rows of a ticket say so far, at each of its awaits.
Progress(t) ==
  /\ pc[t] = "idle" => verdict[t] = "none" /\ row[t] = "none" /\ stake[t] = 0
                       /\ recorded[t] /\ ~orders[t] /\ ~dropped[t]
  /\ pc[t] = "refusing" => verdict[t] \in {"rejected", "missed"}
                           /\ row[t] = "none" /\ stake[t] = 0
                           /\ recorded[t] /\ ~dropped[t]
  /\ pc[t] = "writing" => verdict[t] = "none" /\ row[t] = "none"
  /\ pc[t] = "emitting" => verdict[t] = "filled" /\ row[t] \in {"none", "pending"}
                           /\ (~dropped[t] => row[t] = "pending")
  /\ pc[t] = "closing" => verdict[t] \in {"filled", "rejected"}
                          /\ row[t] \in {"none", "pending"}
                          /\ (~dropped[t] => row[t] = "pending")
                          /\ (verdict[t] = "filled" /\ ~dropped[t] => orders[t])
  /\ pc[t] = "auditing" => verdict[t] = "rejected"
                           /\ row[t] \in {"none", "pending", "rejected"}
                           /\ (~dropped[t] => row[t] = "rejected")
  /\ pc[t] = "done" => verdict[t] # "none"

\* A ticket counts as in flight from its checks to its last write.
Counting(t) ==
  /\ pc[t] \in Underway => counted[t]
  /\ pc[t] \in Over => ~counted[t]

Bookkeeping == \A t \in Tickets : Progress(t) /\ Counting(t)

\* The consumer is inside at most one submission, begun outside a cooldown.
\* A miss on record without a quiet window yet is that of this submission,
\* still being written.
Serial ==
  /\ \A t \in AutoRuns : Active(t) => busy /\ ~cooling
  /\ \A t, u \in AutoRuns : Active(t) /\ Active(u) => t = u
  /\ ~cooling => fills = 0
  /\ nonfills # 0 => quiet \/ busy \/ phase \in {"waiting", "down"}
  /\ nonfills # 0 /\ ~quiet => \A t \in AutoRuns : Active(t) => pc[t] = "refusing"

\* A ticket of the trader that is yet to fill still fits under the cap.
CapFits ==
  (\A t \in Clicks : pc[t] = "idle") =>
    \A t \in AutoRuns : pc[t] = "writing" => ~OverCap(stake[t])

\* A drain that was waited for left nothing in flight, and nothing enters.
Drained == phase = "down" /\ ~timedOut => \A t \in Tickets : ~counted[t]

IInv ==
  /\ TypeOK
  /\ Bookkeeping /\ AuditTruthful
  /\ InflightExact /\ Drained
  /\ Serial /\ OneFillPerCooldown /\ OneMissPerWindow
  /\ CapFits /\ SerialTraderKeepsCap

-----------------------------------------------------------------------------
(* The steps, sorted by what they do to tickets.                             *)

\* Ticket t is submitted; the trader submits outside its cooldown, one at a
\* time, and records a miss unless the window is open.
Submitted(t, record) ==
  /\ pc[t] = "idle"
  /\ t \in AutoRuns => /\ ~busy /\ ~cooling /\ record = ~quiet
                       /\ phase \in {"up", "stopping"}
  /\ UNCHANGED <<stage, held, phase, timedOut, reset>>

TurnedAway(t) ==
  /\ Submitted(t, TRUE)
  /\ \E v \in {"rejected", "missed"}, enters \in BOOLEAN :
       (enters => phase = "up") /\ RefuseOnRecord(t, v, enters)

Silenced(t) ==
  /\ Submitted(t, FALSE)
  /\ \E v \in {"rejected", "missed"} : RefuseInSilence(t, v)

Admitted(t) ==
  \E record \in BOOLEAN, cost \in Stakes :
    /\ Submitted(t, record)
    /\ phase = "up" /\ ~OverCap(cost)
    /\ Admit(t, cost, record)

\* No ticket moves, nor does what is on record of it.
Around ==
  \/ GameNears \/ GroupPaid \/ GroupSettled
  \/ CooldownEnds \/ QuietEnds
  \/ WipeAccount \/ AccountSeeded
  \/ ShutdownBegins \/ TraderStops
  \/ DrainEnds \/ DrainTimesOut
  \/ UNCHANGED vars

LEMMA SubmitCases ==
  ASSUME NEW t \in Tickets, NEW record \in BOOLEAN, SubmitArbTicket(t, record),
         t \in AutoRuns => /\ ~busy /\ ~cooling /\ record = ~quiet
                           /\ phase \in {"up", "stopping"}
  PROVE  TurnedAway(t) \/ Silenced(t) \/ Admitted(t)
<1>1. Submitted(t, record)
  BY DEF SubmitArbTicket, Submitted
<1>2. CASE RefusedOutright
  <2>1. IF record THEN RefuseOnRecord(t, "rejected", FALSE)
                  ELSE RefuseInSilence(t, "rejected")
    BY <1>2 DEF SubmitArbTicket
  <2> QED BY <1>1, <2>1 DEF TurnedAway, Silenced
<1>3. CASE ~RefusedOutright
  <2>1. phase = "up"
    BY <1>3 DEF RefusedOutright, draining
  <2>2. PICK edge \in Edges :
             IF Judge(edge) = "none" THEN Admit(t, edge.stake, record)
             ELSE IF record THEN RefuseOnRecord(t, Judge(edge), TRUE)
                            ELSE RefuseInSilence(t, Judge(edge))
    BY <1>3 DEF SubmitArbTicket
  <2>3. CASE Judge(edge) = "none"
    <3>1. edge \in [stake : Stakes, sound : BOOLEAN] /\ ~OverCap(edge.stake)
      BY <2>3 DEF Judge, Edges
    <3>2. edge.stake \in Stakes
      BY <3>1
    <3> QED BY <1>1, <2>1, <2>2, <2>3, <3>1, <3>2 DEF Admitted
  <2>4. CASE Judge(edge) # "none"
    <3>1. Judge(edge) \in {"rejected", "missed"}
      BY <2>4 DEF Judge
    <3> QED BY <1>1, <2>1, <2>2, <2>4, <3>1 DEF TurnedAway, Silenced
  <2> QED BY <2>3, <2>4
<1> QED BY <1>2, <1>3

LEMMA NextCases ==
  ASSUME TypeOK, [Next]_vars
  PROVE  \/ \E t \in Tickets : TurnedAway(t) \/ Silenced(t) \/ Admitted(t)
         \/ \E t \in Tickets : Step(t)
         \/ \E t \in AutoRuns : TraderCancelled(t)
         \/ HistoryDeleted
         \/ Around
<1>1. ASSUME NEW t \in Clicks, Click(t)
      PROVE  TurnedAway(t) \/ Silenced(t) \/ Admitted(t)
  <2>1. t \in Tickets /\ t \notin AutoRuns
    BY TicketIds DEF Tickets
  <2>2. CASE SubmitArbTicket(t, TRUE)
    BY <2>1, <2>2, SubmitCases
  <2>3. CASE pc[t] = "idle" /\ RefuseOnRecord(t, "missed", FALSE)
             /\ UNCHANGED <<stage, held, phase, timedOut, reset>>
    BY <2>1, <2>3 DEF TurnedAway, Submitted
  <2> QED BY <1>1, <2>2, <2>3 DEF Click
<1>2. ASSUME NEW t \in AutoRuns, Handle(t)
      PROVE  TurnedAway(t) \/ Silenced(t) \/ Admitted(t)
  <2>1. t \in Tickets /\ (~quiet) \in BOOLEAN
    BY DEF Tickets
  <2> QED BY <1>2, <2>1, SubmitCases DEF Handle
<1>3. ASSUME FreshRuns # {}
      PROVE  (CHOOSE t \in FreshRuns : TRUE) \in AutoRuns
  BY <1>3 DEF FreshRuns
<1> QED BY <1>1, <1>2, <1>3 DEF Next, Around, Tickets

-----------------------------------------------------------------------------
(* Types.                                                                    *)

LEMMA ReturnTypes ==
  ASSUME TypeOK, NEW t, NEW v, NEW record \in BOOLEAN, ReturnToTrader(t, v, record)
  PROVE  busy' \in BOOLEAN /\ cooling' \in BOOLEAN /\ quiet' \in BOOLEAN
         /\ fills' \in Nat /\ nonfills' \in Nat
<1>1. CASE t \notin AutoRuns
  BY <1>1 DEF ReturnToTrader, consumer, TypeOK
<1>2. CASE t \in AutoRuns /\ v = "filled"
  <2>1. /\ busy' = FALSE /\ cooling' = TRUE /\ quiet' = FALSE
        /\ fills' = fills + 1 /\ nonfills' = 0
    BY <1>2 DEF ReturnToTrader
  <2>2. fills' \in Nat /\ nonfills' \in Nat
    BY <2>1 DEF TypeOK
  <2> QED BY <2>1, <2>2
<1>3. CASE t \in AutoRuns /\ v # "filled"
  <2>1. (quiet \/ record) \in BOOLEAN
    OBVIOUS
  <2> QED BY <1>3, <2>1 DEF ReturnToTrader, TypeOK
<1> QED BY <1>1, <1>2, <1>3

LEMMA TypeStep ==
  ASSUME TypeOK, [Next]_vars
  PROVE  TypeOK'
<1>1. ASSUME NEW t \in Tickets, TurnedAway(t)
      PROVE  TypeOK'
  BY <1>1 DEF TurnedAway, Submitted, RefuseOnRecord, StaysInTrader, TypeOK, Statuses, Places
<1>2. ASSUME NEW t \in Tickets, Silenced(t)
      PROVE  TypeOK'
  <2>1. busy' \in BOOLEAN /\ cooling' \in BOOLEAN /\ quiet' \in BOOLEAN
         /\ fills' \in Nat /\ nonfills' \in Nat
    BY <1>2, ReturnTypes DEF Silenced, RefuseInSilence
  <2> QED BY <1>2, <2>1 DEF Silenced, Submitted, RefuseInSilence, TypeOK, Statuses, Places
<1>3. ASSUME NEW t \in Tickets, Admitted(t)
      PROVE  TypeOK'
  BY <1>3 DEF Admitted, Submitted, Admit, StaysInTrader, TypeOK, Statuses, Places
<1>4. ASSUME NEW t \in Tickets, Leave(t)
      PROVE  /\ busy' \in BOOLEAN /\ cooling' \in BOOLEAN /\ quiet' \in BOOLEAN
         /\ fills' \in Nat /\ nonfills' \in Nat
             /\ inflight' \in Nat
             /\ pc' \in [Tickets -> Places] /\ counted' \in [Tickets -> BOOLEAN]
  <2>1. recorded[t] \in BOOLEAN
    BY DEF TypeOK
  <2>2. busy' \in BOOLEAN /\ cooling' \in BOOLEAN /\ quiet' \in BOOLEAN
         /\ fills' \in Nat /\ nonfills' \in Nat
    BY <1>4, <2>1, ReturnTypes DEF Leave
  <2> QED BY <1>4, <2>2 DEF Leave, ExitTicket, TypeOK, Places
<1>5. ASSUME NEW t \in Tickets, RefusalWritten(t)
      PROVE  TypeOK'
  BY <1>4, <1>5 DEF RefusalWritten, Written, TypeOK, Statuses
<1>6. ASSUME NEW t \in Tickets, PendingWritten(t)
      PROVE  TypeOK'
  <2>1. stake[t] \in Stakes \cup {0}
    BY DEF TypeOK
  <2>2. stake[t] \in Nat
    <3>1. Stakes \cup {0} \subseteq Nat
      BY StakeAssumption
    <3> QED BY <2>1, <3>1
  <2> QED BY <1>6, <2>2 DEF PendingWritten, Written, consumer, TypeOK, Statuses, Places
<1>7. ASSUME NEW t \in Tickets, OrdersEmitted(t)
      PROVE  TypeOK'
  BY <1>7 DEF OrdersEmitted, Lands, Written, consumer, TypeOK, Places
<1>8. ASSUME NEW t \in Tickets, SetStatus(t)
      PROVE  row' \in [Tickets -> Statuses] /\ dropped' \in [Tickets -> BOOLEAN]
  BY <1>8 DEF SetStatus, Lands, Written, TypeOK, Statuses
<1>9. ASSUME NEW t \in Tickets, FilledStatusWritten(t)
      PROVE  TypeOK'
  BY <1>4, <1>8, <1>9 DEF FilledStatusWritten, TypeOK
<1>10. ASSUME NEW t \in Tickets, RejectedStatusWritten(t)
       PROVE  TypeOK'
  BY <1>8, <1>10 DEF RejectedStatusWritten, consumer, TypeOK, Places
<1>11. ASSUME NEW t \in Tickets, RejectedLegsWritten(t)
       PROVE  TypeOK'
  BY <1>4, <1>11 DEF RejectedLegsWritten, Lands, Written, TypeOK
<1>12. ASSUME NEW t \in AutoRuns, TraderCancelled(t)
       PROVE  TypeOK'
  <2>1. PICK r \in {row[t], RowInFlight(t)} : row' = [row EXCEPT ![t] = r]
    BY <1>12 DEF TraderCancelled
  <2>2. r \in Statuses
    BY DEF RowInFlight, TypeOK, Statuses, Tickets
  <2>3. inflight' \in Nat
    BY <1>12 DEF TraderCancelled, ExitTicket, TypeOK
  <2> QED BY <1>12, <2>1, <2>2, <2>3 DEF TraderCancelled, TypeOK, Places, Tickets
<1>13. CASE Around
  <2>1. CASE GameNears
    BY <2>1 DEF GameNears, ticket, audit, consumer, TypeOK
  <2>2. CASE GroupPaid
    BY <2>2 DEF GroupPaid, ticket, audit, consumer, TypeOK
  <2>3. CASE GroupSettled
    BY <2>3 DEF GroupSettled, ticket, audit, consumer, TypeOK
  <2>4. CASE CooldownEnds
    BY <2>4 DEF CooldownEnds, ticket, audit, TypeOK
  <2>5. CASE QuietEnds
    BY <2>5 DEF QuietEnds, ticket, audit, TypeOK
  <2>6. CASE ShutdownBegins \/ TraderStops \/ DrainEnds
    BY <2>6 DEF ShutdownBegins, TraderStops, DrainEnds, ticket, audit, consumer, TypeOK
  <2>7. CASE DrainTimesOut
    BY <2>7 DEF DrainTimesOut, ticket, audit, consumer, TypeOK
  <2>8. CASE UNCHANGED vars
    BY <2>8 DEF vars, ticket, audit, consumer, TypeOK
  <2>9. CASE WipeAccount
    BY <2>9 DEF WipeAccount, ticket, audit, consumer, TypeOK
  <2>10. CASE AccountSeeded
    BY <2>10 DEF AccountSeeded, ticket, audit, TypeOK
  <2> QED BY <1>13, <2>1, <2>2, <2>3, <2>4, <2>5, <2>6, <2>7, <2>8, <2>9, <2>10 DEF Around
<1>14. ASSUME NEW t \in Tickets, EmitRaises(t)
       PROVE  TypeOK'
  BY <1>14 DEF EmitRaises, ExitTicket, audit, TypeOK, Places
<1>15. CASE HistoryDeleted
  BY <1>15 DEF HistoryDeleted, consumer, TypeOK, Statuses
<1> QED
  BY NextCases, <1>1, <1>2, <1>3, <1>5, <1>6, <1>7, <1>9, <1>10, <1>11, <1>12, <1>13,
     <1>14, <1>15 DEF Step

-----------------------------------------------------------------------------
(* The log.                                                                  *)

\* A ticket no step touches keeps its record.
LEMMA Untouched ==
  ASSUME NEW u \in Tickets, Progress(u), Counting(u), Truthful(u),
         pc'[u] = pc[u], counted'[u] = counted[u], recorded'[u] = recorded[u],
         verdict'[u] = verdict[u], stake'[u] = stake[u], row'[u] = row[u],
         orders'[u] = orders[u], dropped'[u] = dropped[u]
  PROVE  Progress(u)' /\ Counting(u)' /\ Truthful(u)'
BY DEF Progress, Counting, Truthful

LEMMA LogStep ==
  ASSUME TypeOK, Bookkeeping, AuditTruthful, [Next]_vars
  PROVE  Bookkeeping' /\ AuditTruthful'
<1> SUFFICES ASSUME NEW u \in Tickets
             PROVE  Progress(u)' /\ Counting(u)' /\ Truthful(u)'
  BY DEF Bookkeeping, AuditTruthful
<1>0. Progress(u) /\ Counting(u) /\ Truthful(u)
  BY DEF Bookkeeping, AuditTruthful
<1>1. ASSUME NEW t \in Tickets, TurnedAway(t)
      PROVE  Progress(u)' /\ Counting(u)' /\ Truthful(u)'
  <2>1. CASE u = t
    BY <1>0, <1>1, <2>1 DEF TurnedAway, Submitted, RefuseOnRecord, TypeOK, Progress,
         Counting, Truthful, Underway, Over
  <2>2. CASE u # t
    BY <1>0, <1>1, <2>2, Untouched DEF TurnedAway, RefuseOnRecord, TypeOK
  <2> QED BY <2>1, <2>2
<1>2. ASSUME NEW t \in Tickets, Silenced(t)
      PROVE  Progress(u)' /\ Counting(u)' /\ Truthful(u)'
  <2>1. CASE u = t
    BY <1>0, <1>2, <2>1 DEF Silenced, Submitted, RefuseInSilence, TypeOK, Progress,
         Counting, Truthful, Underway, Over
  <2>2. CASE u # t
    BY <1>0, <1>2, <2>2, Untouched DEF Silenced, RefuseInSilence, TypeOK
  <2> QED BY <2>1, <2>2
<1>3. ASSUME NEW t \in Tickets, Admitted(t)
      PROVE  Progress(u)' /\ Counting(u)' /\ Truthful(u)'
  <2>1. CASE u = t
    BY <1>0, <1>3, <2>1 DEF Admitted, Submitted, Admit, TypeOK, Progress,
         Counting, Truthful, Underway, Over
  <2>2. CASE u # t
    BY <1>0, <1>3, <2>2, Untouched DEF Admitted, Admit, TypeOK
  <2> QED BY <2>1, <2>2
<1>4. ASSUME NEW t \in Tickets, RefusalWritten(t)
      PROVE  Progress(u)' /\ Counting(u)' /\ Truthful(u)'
  <2>1. CASE u = t
    BY <1>0, <1>4, <2>1 DEF RefusalWritten, Written, Leave, TypeOK, Progress,
         Counting, Truthful, Underway, Over
  <2>2. CASE u # t
    BY <1>0, <1>4, <2>2, Untouched DEF RefusalWritten, Leave, TypeOK
  <2> QED BY <2>1, <2>2
<1>5. ASSUME NEW t \in Tickets, PendingWritten(t)
      PROVE  Progress(u)' /\ Counting(u)' /\ Truthful(u)'
  <2>1. CASE u = t
    BY <1>0, <1>5, <2>1 DEF PendingWritten, Written, TypeOK, Progress,
         Counting, Truthful, Underway, Over
  <2>2. CASE u # t
    BY <1>0, <1>5, <2>2, Untouched DEF PendingWritten, TypeOK
  <2> QED BY <2>1, <2>2
<1>6. ASSUME NEW t \in Tickets, OrdersEmitted(t)
      PROVE  Progress(u)' /\ Counting(u)' /\ Truthful(u)'
  <2>1. CASE u = t
    BY <1>0, <1>6, <2>1 DEF OrdersEmitted, Lands, Written, TypeOK, Progress,
         Counting, Truthful, Underway, Over
  <2>2. CASE u # t
    BY <1>0, <1>6, <2>2, Untouched DEF OrdersEmitted, TypeOK
  <2> QED BY <2>1, <2>2
<1>7. ASSUME NEW t \in Tickets, FilledStatusWritten(t)
      PROVE  Progress(u)' /\ Counting(u)' /\ Truthful(u)'
  <2>1. CASE u = t
    BY <1>0, <1>7, <2>1 DEF FilledStatusWritten, SetStatus, Leave, Lands, Written, TypeOK, Progress,
         Counting, Truthful, Underway, Over
  <2>2. CASE u # t
    BY <1>0, <1>7, <2>2, Untouched DEF FilledStatusWritten, SetStatus, Leave, TypeOK
  <2> QED BY <2>1, <2>2
<1>8. ASSUME NEW t \in Tickets, RejectedStatusWritten(t)
      PROVE  Progress(u)' /\ Counting(u)' /\ Truthful(u)'
  <2>1. CASE u = t
    BY <1>0, <1>8, <2>1 DEF RejectedStatusWritten, SetStatus, Lands, Written, TypeOK, Progress,
         Counting, Truthful, Underway, Over
  <2>2. CASE u # t
    BY <1>0, <1>8, <2>2, Untouched DEF RejectedStatusWritten, SetStatus, TypeOK
  <2> QED BY <2>1, <2>2
<1>9. ASSUME NEW t \in Tickets, RejectedLegsWritten(t)
      PROVE  Progress(u)' /\ Counting(u)' /\ Truthful(u)'
  <2>1. CASE u = t
    BY <1>0, <1>9, <2>1 DEF RejectedLegsWritten, Leave, Lands, Written, TypeOK, Progress,
         Counting, Truthful, Underway, Over
  <2>2. CASE u # t
    BY <1>0, <1>9, <2>2, Untouched DEF RejectedLegsWritten, Leave, TypeOK
  <2> QED BY <2>1, <2>2
<1>10. ASSUME NEW t \in AutoRuns, TraderCancelled(t)
       PROVE  Progress(u)' /\ Counting(u)' /\ Truthful(u)'
  <2>0. t \in Tickets
    BY DEF Tickets
  <2>1. CASE u = t
    BY <1>0, <1>10, <2>0, <2>1 DEF TraderCancelled, RowInFlight, TypeOK, Progress,
         Counting, Truthful, Underway, Over, Places
  <2>2. CASE u # t
    BY <1>0, <1>10, <2>0, <2>2, Untouched DEF TraderCancelled, TypeOK
  <2> QED BY <2>1, <2>2
<1>11. CASE Around
  <2>1. UNCHANGED ticket
    BY <1>11 DEF Around, GameNears, GroupPaid, GroupSettled, CooldownEnds, QuietEnds,
         WipeAccount, AccountSeeded,
         ShutdownBegins, TraderStops, DrainEnds, DrainTimesOut, vars
  <2> QED BY <1>0, <2>1, Untouched DEF ticket, audit
<1>12. ASSUME NEW t \in Tickets, EmitRaises(t)
       PROVE  Progress(u)' /\ Counting(u)' /\ Truthful(u)'
  <2>1. CASE u = t
    BY <1>0, <1>12, <2>1 DEF EmitRaises, audit, TypeOK, Progress,
         Counting, Truthful, Underway, Over
  <2>2. CASE u # t
    BY <1>0, <1>12, <2>2, Untouched DEF EmitRaises, audit, TypeOK
  <2> QED BY <2>1, <2>2
<1>13. CASE HistoryDeleted
  <2>1. /\ row'[u] = "none" /\ ~orders'[u]
        /\ dropped'[u] <=> dropped[u] \/ row[u] # "none"
        /\ UNCHANGED <<pc, counted, recorded, verdict, stake>>
    BY <1>13 DEF HistoryDeleted
  <2>2. Progress(u)' /\ Counting(u)'
    BY <1>0, <2>1 DEF Progress, Counting
  <2>3. Truthful(u)'
    BY <1>0, <2>1 DEF Progress, Truthful
  <2> QED BY <2>2, <2>3
<1> QED
  BY NextCases, <1>1, <1>2, <1>3, <1>4, <1>5, <1>6, <1>7, <1>8, <1>9, <1>10, <1>11,
     <1>12, <1>13 DEF Step

-----------------------------------------------------------------------------
(* The in-flight counter and the drain.                                      *)

CountedNow == {t \in Tickets : counted[t]}

LEMMA CountedFinite == IsFiniteSet(CountedNow) /\ Cardinality(CountedNow) \in Nat
<1>1. IsFiniteSet(Tickets)
  BY FiniteBounds, FS_Union DEF Tickets
<1>2. CountedNow \subseteq Tickets
  BY DEF CountedNow
<1> QED BY <1>1, <1>2, FS_Subset, FS_CardinalityType

LEMMA Enters ==
  ASSUME TypeOK, InflightExact, NEW t \in Tickets, ~counted[t],
         counted' = [counted EXCEPT ![t] = TRUE], inflight' = inflight + 1
  PROVE  InflightExact'
<1>1. CountedNow' = CountedNow \cup {t} /\ t \notin CountedNow
  BY DEF CountedNow, TypeOK
<1>2. Cardinality(CountedNow') = Cardinality(CountedNow) + 1
  BY <1>1, CountedFinite, FS_AddElement
<1> QED BY <1>2 DEF InflightExact, CountedNow

LEMMA Exits ==
  ASSUME TypeOK, InflightExact, NEW t \in Tickets,
         counted' = [counted EXCEPT ![t] = FALSE],
         inflight' = IF counted[t] THEN ExitTicket ELSE inflight
  PROVE  InflightExact'
<1>1. inflight = Cardinality(CountedNow)
  BY DEF InflightExact, CountedNow
<1>2. CASE counted[t]
  <2>1. CountedNow' = CountedNow \ {t} /\ t \in CountedNow
    BY <1>2 DEF CountedNow, TypeOK
  <2>2. Cardinality(CountedNow') = Cardinality(CountedNow) - 1
    BY <2>1, CountedFinite, FS_RemoveElement
  <2>3. Cardinality(CountedNow) # 0
    BY <2>1, CountedFinite, FS_EmptySet
  <2>4. inflight' = inflight - 1
    BY <1>1, <1>2, <2>3, CountedFinite DEF ExitTicket
  <2> QED BY <1>1, <2>2, <2>4 DEF InflightExact, CountedNow
<1>3. CASE ~counted[t]
  <2>1. CountedNow' = CountedNow
    BY <1>3 DEF CountedNow, TypeOK
  <2> QED BY <1>1, <1>3, <2>1 DEF InflightExact, CountedNow
<1> QED BY <1>2, <1>3

LEMMA Stays ==
  ASSUME InflightExact, UNCHANGED <<counted, inflight>>
  PROVE  InflightExact'
BY DEF InflightExact

LEMMA CountStep ==
  ASSUME TypeOK, Bookkeeping, InflightExact, Drained, [Next]_vars
  PROVE  InflightExact' /\ Drained'
<1>1. ASSUME NEW t \in Tickets, TurnedAway(t)
      PROVE  InflightExact' /\ Drained'
  <2>1. PICK v \in {"rejected", "missed"}, enters \in BOOLEAN :
             (enters => phase = "up") /\ RefuseOnRecord(t, v, enters)
    BY <1>1 DEF TurnedAway
  <2>2. ~counted[t] /\ UNCHANGED <<phase, timedOut>>
    BY <1>1 DEF TurnedAway, Submitted, Bookkeeping, Counting, Over
  <2>3. CASE enters
    <3>1. InflightExact'
      BY <2>1, <2>2, <2>3, Enters DEF RefuseOnRecord
    <3> QED BY <2>1, <2>2, <2>3, <3>1 DEF Drained
  <2>4. CASE ~enters
    <3>1. UNCHANGED <<counted, inflight>>
      BY <2>1, <2>2, <2>4 DEF RefuseOnRecord, TypeOK
    <3> QED BY <2>2, <3>1, Stays DEF Drained
  <2> QED BY <2>3, <2>4
<1>2. ASSUME NEW t \in Tickets, Silenced(t)
      PROVE  InflightExact' /\ Drained'
  BY <1>2, Stays DEF Silenced, Submitted, RefuseInSilence, Drained
<1>3. ASSUME NEW t \in Tickets, Admitted(t)
      PROVE  InflightExact' /\ Drained'
  <2>1. ~counted[t] /\ phase' = "up"
    BY <1>3 DEF Admitted, Submitted, Bookkeeping, Counting, Over
  <2>2. InflightExact'
    BY <1>3, <2>1, Enters DEF Admitted, Admit
  <2> QED BY <2>1, <2>2 DEF Drained
<1>4. ASSUME NEW t \in Tickets, Leave(t), UNCHANGED <<phase, timedOut>>
      PROVE  InflightExact' /\ Drained'
  BY <1>4, Exits DEF Leave, Drained, TypeOK
<1>5. ASSUME NEW t \in Tickets, Step(t)
      PROVE  InflightExact' /\ Drained'
  <2>1. CASE RefusalWritten(t) \/ FilledStatusWritten(t) \/ RejectedLegsWritten(t)
    BY <1>4, <2>1 DEF RefusalWritten, FilledStatusWritten, RejectedLegsWritten
  <2>2. CASE PendingWritten(t) \/ OrdersEmitted(t) \/ RejectedStatusWritten(t)
    BY <2>2, Stays DEF PendingWritten, OrdersEmitted, RejectedStatusWritten, Drained
  <2>3. CASE EmitRaises(t)
    BY <2>3, Exits DEF EmitRaises, Drained, TypeOK
  <2> QED BY <1>5, <2>1, <2>2, <2>3 DEF Step
<1>6. ASSUME NEW t \in AutoRuns, TraderCancelled(t)
      PROVE  InflightExact' /\ Drained'
  BY <1>6, Exits DEF TraderCancelled, Drained, Tickets
<1>7. CASE Around
  <2>1. UNCHANGED <<counted, inflight>>
    BY <1>7 DEF Around, GameNears, GroupPaid, GroupSettled, CooldownEnds, QuietEnds,
         WipeAccount, AccountSeeded,
         ShutdownBegins, TraderStops, DrainEnds, DrainTimesOut, vars, ticket
  <2>2. CASE DrainEnds
    <3>1. Cardinality(CountedNow) = 0
      BY <2>2 DEF DrainEnds, InflightExact, CountedNow
    <3>2. CountedNow = {}
      BY <3>1, CountedFinite, FS_EmptySet
    <3> QED BY <2>1, <3>2, Stays DEF Drained, CountedNow
  <2>3. CASE ~DrainEnds
    <3>1. \/ UNCHANGED <<phase, timedOut>>
          \/ phase' \in {"stopping", "waiting"}
          \/ timedOut'
      BY <1>7, <2>3 DEF Around, GameNears, GroupPaid, GroupSettled, CooldownEnds,
           QuietEnds, WipeAccount, AccountSeeded, ShutdownBegins, TraderStops,
           DrainTimesOut, vars
    <3> QED BY <2>1, <3>1, Stays DEF Drained
  <2> QED BY <2>2, <2>3
<1>8. CASE HistoryDeleted
  BY <1>8, Stays DEF HistoryDeleted, Drained
<1> QED BY NextCases, <1>1, <1>2, <1>3, <1>5, <1>6, <1>7, <1>8

-----------------------------------------------------------------------------
(* The trader: one submission at a time, one fill per cooldown, one miss per *)
(* window.                                                                   *)

Trader == Serial /\ OneFillPerCooldown /\ OneMissPerWindow

\* A ticket that returns to its caller.
LEMMA TraderReturn ==
  ASSUME TypeOK, Trader, NEW t \in Tickets, NEW v, NEW record \in BOOLEAN,
         pc' = [pc EXCEPT ![t] = "done"], ReturnToTrader(t, v, record),
         t \in AutoRuns => /\ ~cooling
                           /\ \A u \in AutoRuns : Active(u) => u = t
                           /\ nonfills # 0 /\ ~quiet => record,
         UNCHANGED phase
  PROVE  Trader'
<1>1. CASE t \notin AutoRuns
  <2>1. UNCHANGED <<busy, cooling, quiet, fills, nonfills>>
    BY <1>1 DEF ReturnToTrader, consumer
  <2>2. \A u \in AutoRuns : (Active(u)' <=> Active(u)) /\ pc'[u] = pc[u]
    BY <1>1 DEF Active, TypeOK, Tickets
  <2> QED BY <2>1, <2>2 DEF Trader, Serial, OneFillPerCooldown, OneMissPerWindow
<1>2. CASE t \in AutoRuns
  <2>1. \A u \in AutoRuns : ~Active(u)'
    BY <1>2 DEF Active, Over, TypeOK, Tickets
  <2>2. CASE v = "filled"
    <3>1. cooling' /\ ~quiet' /\ fills' = fills + 1 /\ nonfills' = 0
      BY <1>2, <2>2 DEF ReturnToTrader
    <3>2. fills = 0
      BY <1>2 DEF Trader, Serial
    <3> QED BY <2>1, <3>1, <3>2 DEF Trader, Serial, OneFillPerCooldown, OneMissPerWindow
  <2>3. CASE v # "filled"
    <3>1. (quiet' <=> quiet \/ record) /\ UNCHANGED <<cooling, fills, nonfills>>
      BY <1>2, <2>3 DEF ReturnToTrader
    <3>2. nonfills' # 0 => quiet'
      BY <1>2, <3>1
    <3> QED BY <2>1, <3>1, <3>2 DEF Trader, Serial, OneFillPerCooldown, OneMissPerWindow
  <2> QED BY <2>2, <2>3
<1> QED BY <1>1, <1>2

\* A ticket of the trader that is still under way.
LEMMA TraderWithin ==
  ASSUME TypeOK, Trader, NEW t \in Tickets, Active(t)
  PROVE  /\ ~cooling /\ busy
         /\ \A u \in AutoRuns : Active(u) => u = t
         /\ nonfills # 0 /\ ~quiet => pc[t] = "refusing"
BY DEF Trader, Serial, Active

LEMMA TraderStep ==
  ASSUME TypeOK, Bookkeeping, Trader, [Next]_vars
  PROVE  Trader'
<1>1. ASSUME NEW t \in Tickets, TurnedAway(t)
      PROVE  Trader'
  <2>1. /\ pc' = [pc EXCEPT ![t] = "refusing"]
        /\ nonfills' = IF t \in AutoRuns THEN nonfills + 1 ELSE nonfills
        /\ busy' <=> busy \/ t \in AutoRuns
        /\ UNCHANGED <<phase, cooling, quiet, fills>>
    BY <1>1 DEF TurnedAway, RefuseOnRecord, StaysInTrader, Submitted
  <2>2. CASE t \notin AutoRuns
    <3>1. \A u \in AutoRuns : (Active(u)' <=> Active(u)) /\ pc'[u] = pc[u]
      BY <2>1, <2>2 DEF Active, TypeOK, Tickets
    <3> QED BY <2>1, <2>2, <3>1 DEF Trader, Serial, OneFillPerCooldown, OneMissPerWindow
  <2>3. CASE t \in AutoRuns
    <3>1. ~busy /\ ~cooling /\ ~quiet /\ phase \in {"up", "stopping"}
      BY <1>1, <2>3 DEF TurnedAway, Submitted
    <3>2. nonfills = 0 /\ \A u \in AutoRuns : ~Active(u)
      BY <3>1 DEF Trader, Serial
    <3>3. pc'[t] = "refusing"
      BY <2>1 DEF TypeOK
    <3>4. \A u \in AutoRuns : Active(u)' => u = t
      BY <2>1, <3>2 DEF Active, TypeOK, Tickets
    <3> QED BY <2>1, <2>3, <3>1, <3>2, <3>3, <3>4
            DEF Trader, Serial, OneFillPerCooldown, OneMissPerWindow
  <2> QED BY <2>2, <2>3
<1>2. ASSUME NEW t \in Tickets, Silenced(t)
      PROVE  Trader'
  <2>1. PICK v \in {"rejected", "missed"} : RefuseInSilence(t, v)
    BY <1>2 DEF Silenced
  <2>2. t \in AutoRuns => ~busy /\ ~cooling /\ quiet
    BY <1>2 DEF Silenced, Submitted
  <2>3. t \in AutoRuns => \A u \in AutoRuns : ~Active(u)
    BY <2>2 DEF Trader, Serial
  <2>4. UNCHANGED phase
    BY <1>2 DEF Silenced, Submitted
  <2> QED BY <2>1, <2>2, <2>3, <2>4, TraderReturn DEF RefuseInSilence
<1>3. ASSUME NEW t \in Tickets, Admitted(t)
      PROVE  Trader'
  <2>1. PICK record \in BOOLEAN, cost \in Stakes :
             Submitted(t, record) /\ Admit(t, cost, record) /\ phase = "up"
    BY <1>3 DEF Admitted
  <2>2. /\ pc' = [pc EXCEPT ![t] = "writing"]
        /\ busy' <=> busy \/ t \in AutoRuns
        /\ UNCHANGED <<phase, cooling, quiet, fills, nonfills>>
    BY <2>1 DEF Admit, StaysInTrader, Submitted
  <2>3. CASE t \notin AutoRuns
    <3>1. \A u \in AutoRuns : (Active(u)' <=> Active(u)) /\ pc'[u] = pc[u]
      BY <2>2, <2>3 DEF Active, TypeOK, Tickets
    <3> QED BY <2>2, <2>3, <3>1 DEF Trader, Serial, OneFillPerCooldown, OneMissPerWindow
  <2>4. CASE t \in AutoRuns
    <3>1. ~busy /\ ~cooling
      BY <2>1, <2>4 DEF Submitted
    <3>2. (nonfills # 0 => quiet) /\ \A u \in AutoRuns : ~Active(u)
      BY <2>1, <3>1 DEF Trader, Serial
    <3>3. \A u \in AutoRuns : Active(u)' => u = t
      BY <2>2, <3>2 DEF Active, TypeOK, Tickets
    <3> QED BY <2>2, <2>4, <3>1, <3>2, <3>3
            DEF Trader, Serial, OneFillPerCooldown, OneMissPerWindow
  <2> QED BY <2>3, <2>4
<1>4. ASSUME NEW t \in Tickets, Leave(t), pc[t] \notin Over, UNCHANGED phase
      PROVE  Trader'
  <2>1. recorded[t] \in BOOLEAN
    BY DEF TypeOK
  <2>2. t \in AutoRuns => Active(t)
    BY <1>4 DEF Active
  <2>3. pc[t] = "refusing" => recorded[t]
    BY DEF Bookkeeping, Progress
  <2> QED BY <1>4, <2>1, <2>2, <2>3, TraderWithin, TraderReturn DEF Leave
<1>5. ASSUME NEW t \in Tickets, UNCHANGED <<phase, consumer>>,
             pc[t] \notin Over \cup {"refusing"}, NEW x \in Places \ Over,
             pc' = [pc EXCEPT ![t] = x]
      PROVE  Trader'
  <2>1. \A u \in AutoRuns : /\ Active(u)' <=> Active(u)
                            /\ pc[u] = "refusing" => pc'[u] = "refusing"
    BY <1>5 DEF Active, TypeOK, Tickets
  <2>2. UNCHANGED <<busy, cooling, quiet, fills, nonfills>>
    BY <1>5 DEF consumer
  <2> QED BY <1>5, <2>1, <2>2 DEF Trader, Serial, OneFillPerCooldown, OneMissPerWindow
<1>6. ASSUME NEW t \in Tickets, Step(t)
      PROVE  Trader'
  <2>1. CASE RefusalWritten(t) \/ FilledStatusWritten(t) \/ RejectedLegsWritten(t)
    BY <1>4, <2>1 DEF RefusalWritten, FilledStatusWritten, RejectedLegsWritten, Over
  <2>2. CASE PendingWritten(t)
    <3>1. PICK fill \in BOOLEAN : pc' = [pc EXCEPT ![t] = IF fill THEN "emitting" ELSE "closing"]
      BY <2>2 DEF PendingWritten
    <3>2. (IF fill THEN "emitting" ELSE "closing") \in Places \ Over
      BY DEF Places, Over
    <3>3. pc[t] \notin Over \cup {"refusing"} /\ UNCHANGED <<phase, consumer>>
      BY <2>2 DEF PendingWritten, Over
    <3> QED BY <1>5, <3>1, <3>2, <3>3
  <2>3. CASE OrdersEmitted(t)
    BY <1>5, <2>3 DEF OrdersEmitted, Places, Over
  <2>4. CASE RejectedStatusWritten(t)
    BY <1>5, <2>4 DEF RejectedStatusWritten, Places, Over
  <2>5. CASE EmitRaises(t)
    <3>1. pc[t] = "emitting" /\ pc' = [pc EXCEPT ![t] = "raised"]
          /\ (busy' <=> busy /\ t \notin AutoRuns)
          /\ UNCHANGED <<phase, cooling, quiet, fills, nonfills>>
      BY <2>5 DEF EmitRaises
    <3>2. CASE t \notin AutoRuns
      <4>1. \A u \in AutoRuns : (Active(u)' <=> Active(u)) /\ pc'[u] = pc[u]
        BY <3>1, <3>2 DEF Active, TypeOK, Tickets
      <4> QED BY <3>1, <3>2, <4>1 DEF Trader, Serial, OneFillPerCooldown, OneMissPerWindow
    <3>3. CASE t \in AutoRuns
      <4>1. Active(t)
        BY <3>1, <3>3 DEF Active, Over
      <4>2. nonfills # 0 => quiet
        BY <3>1, <4>1, TraderWithin
      <4>3. \A u \in AutoRuns : ~Active(u)'
        BY <3>1, <4>1, TraderWithin DEF Active, Over, TypeOK, Tickets
      <4> QED BY <3>1, <4>2, <4>3 DEF Trader, Serial, OneFillPerCooldown, OneMissPerWindow
    <3> QED BY <3>2, <3>3
  <2> QED BY <1>6, <2>1, <2>2, <2>3, <2>4, <2>5 DEF Step
<1>7. ASSUME NEW t \in AutoRuns, TraderCancelled(t)
      PROVE  Trader'
  <2>1. Active(t) /\ t \in Tickets
    BY <1>7 DEF TraderCancelled, Active, Over, Tickets
  <2>2. \A u \in AutoRuns : ~Active(u)'
    BY <1>7, <2>1, TraderWithin DEF TraderCancelled, Active, Over, TypeOK, Tickets
  <2> QED BY <1>7, <2>2 DEF TraderCancelled, Trader, Serial, OneFillPerCooldown,
               OneMissPerWindow
<1>8. CASE Around
  <2>1. UNCHANGED pc
    BY <1>8 DEF Around, GameNears, GroupPaid, GroupSettled, CooldownEnds, QuietEnds,
         WipeAccount, AccountSeeded, ShutdownBegins, TraderStops, DrainEnds, DrainTimesOut, vars, ticket, audit
  <2>2. \A u \in AutoRuns : Active(u)' <=> Active(u)
    BY <2>1 DEF Active
  <2>3. CASE CooldownEnds
    BY <2>1, <2>2, <2>3 DEF CooldownEnds, Trader, Serial, OneFillPerCooldown,
         OneMissPerWindow
  <2>4. CASE QuietEnds
    BY <2>1, <2>2, <2>4 DEF QuietEnds, Trader, Serial, OneFillPerCooldown,
         OneMissPerWindow
  <2>5. CASE AccountSeeded
    BY <2>1, <2>2, <2>5 DEF AccountSeeded, Trader, Serial, OneFillPerCooldown,
         OneMissPerWindow
  <2>6. CASE ~CooldownEnds /\ ~QuietEnds /\ ~AccountSeeded
    <3>1. UNCHANGED consumer /\ (phase' = phase \/ ~(phase \in {"waiting", "down"})
                                 \/ phase' \in {"waiting", "down"})
      BY <1>8, <2>6 DEF Around, GameNears, GroupPaid, GroupSettled, WipeAccount,
           ShutdownBegins, TraderStops, DrainEnds, DrainTimesOut, vars
    <3>2. UNCHANGED <<busy, cooling, quiet, fills, nonfills>>
      BY <3>1 DEF consumer
    <3> QED BY <2>1, <2>2, <3>1, <3>2 DEF Trader, Serial, OneFillPerCooldown,
                 OneMissPerWindow
  <2> QED BY <2>3, <2>4, <2>5, <2>6
<1>9. CASE HistoryDeleted
  <2>1. UNCHANGED <<pc, phase, busy, cooling, quiet, fills, nonfills>>
    BY <1>9 DEF HistoryDeleted, consumer
  <2>2. \A u \in AutoRuns : Active(u)' <=> Active(u)
    BY <2>1 DEF Active
  <2> QED BY <2>1, <2>2 DEF Trader, Serial, OneFillPerCooldown, OneMissPerWindow
<1> QED BY NextCases, <1>1, <1>2, <1>3, <1>6, <1>7, <1>8, <1>9

-----------------------------------------------------------------------------
(* The cap, while the operator keeps out.                                    *)

OperatorOut == \A t \in Clicks : pc[t] = "idle"

\* No ticket starts to write, and the cost held does not grow.
LEMMA CapQuiet ==
  ASSUME TypeOK, CapFits, SerialTraderKeepsCap, OperatorOut,
         held' \in Nat, held' <= held,
         \A u \in AutoRuns : pc'[u] = "writing" => pc[u] = "writing" /\ stake'[u] = stake[u]
  PROVE  CapFits' /\ SerialTraderKeepsCap'
<1>1. held <= Cap /\ held \in Nat /\ Cap \in Nat
  BY StakeAssumption DEF SerialTraderKeepsCap, OperatorOut, TypeOK
<1>2. held' <= Cap
  BY <1>1
<1>3. ASSUME NEW u \in AutoRuns, pc'[u] = "writing"
      PROVE  ~(held' + stake'[u] > Cap)
  <2>1. ~(held + stake[u] > Cap) /\ stake'[u] = stake[u]
    BY <1>3 DEF CapFits, OperatorOut, OverCap
  <2>2. stake[u] \in Stakes \cup {0}
    BY DEF TypeOK, Tickets
  <2>3. stake[u] \in Nat
    <3>1. Stakes \cup {0} \subseteq Nat
      BY StakeAssumption
    <3> QED BY <2>2, <3>1
  <2> QED BY <1>1, <2>1, <2>3
<1> QED BY <1>2, <1>3 DEF CapFits, SerialTraderKeepsCap, OverCap

LEMMA CapStep ==
  ASSUME TypeOK, Bookkeeping, Trader, CapFits, SerialTraderKeepsCap, [Next]_vars
  PROVE  CapFits' /\ SerialTraderKeepsCap'
<1> SUFFICES ASSUME OperatorOut'
             PROVE  CapFits' /\ SerialTraderKeepsCap'
  BY DEF CapFits, SerialTraderKeepsCap, OperatorOut
<1>0. held \in Nat
  BY DEF TypeOK
<1>1. ASSUME NEW t \in Tickets, pc' = [pc EXCEPT ![t] = pc'[t]], pc'[t] # "idle"
      PROVE  OperatorOut /\ t \in AutoRuns
  BY <1>1 DEF OperatorOut, TypeOK, Tickets
<1>2. ASSUME NEW t \in Tickets, NEW x \in Places, pc' = [pc EXCEPT ![t] = x],
             x \notin {"idle", "writing"}, UNCHANGED <<held, stake>>
      PROVE  CapFits' /\ SerialTraderKeepsCap'
  <2>1. pc'[t] = x
    BY <1>2 DEF TypeOK
  <2>2. OperatorOut
    BY <1>1, <1>2, <2>1
  <2>3. \A u \in AutoRuns : pc'[u] = "writing" => pc[u] = "writing" /\ stake'[u] = stake[u]
    BY <1>2 DEF TypeOK, Tickets
  <2> QED BY <1>0, <1>2, <2>2, <2>3, CapQuiet
<1>3. ASSUME NEW t \in Tickets, TurnedAway(t)
      PROVE  CapFits' /\ SerialTraderKeepsCap'
  BY <1>2, <1>3 DEF TurnedAway, Submitted, RefuseOnRecord, Places
<1>4. ASSUME NEW t \in Tickets, Silenced(t)
      PROVE  CapFits' /\ SerialTraderKeepsCap'
  BY <1>2, <1>4 DEF Silenced, Submitted, RefuseInSilence, Places
<1>5. ASSUME NEW t \in Tickets, Admitted(t)
      PROVE  CapFits' /\ SerialTraderKeepsCap'
  <2>1. PICK record \in BOOLEAN, cost \in Stakes :
             Submitted(t, record) /\ Admit(t, cost, record) /\ ~OverCap(cost)
    BY <1>5 DEF Admitted
  <2>2. pc' = [pc EXCEPT ![t] = "writing"] /\ stake' = [stake EXCEPT ![t] = cost]
        /\ held' = held
    BY <2>1 DEF Admit, Submitted
  <2>3. pc'[t] = "writing" /\ stake'[t] = cost
    BY <2>2 DEF TypeOK
  <2>4. OperatorOut /\ t \in AutoRuns
    BY <1>1, <2>2, <2>3
  <2>5. held' <= Cap
    BY <2>2, <2>4 DEF SerialTraderKeepsCap, OperatorOut
  <2>6. ASSUME NEW u \in AutoRuns, pc'[u] = "writing"
        PROVE  ~(held' + stake'[u] > Cap)
    <3>1. CASE u = t
      BY <2>1, <2>2, <2>3, <3>1 DEF OverCap
    <3>2. CASE u # t
      <4>1. pc[u] = "writing" /\ stake'[u] = stake[u]
        BY <2>2, <2>6, <3>2 DEF TypeOK, Tickets
      <4> QED BY <2>2, <2>4, <4>1 DEF CapFits, OperatorOut, OverCap
    <3> QED BY <3>1, <3>2
  <2> QED BY <2>5, <2>6 DEF CapFits, SerialTraderKeepsCap, OverCap
<1>6. ASSUME NEW t \in Tickets, Leave(t), UNCHANGED <<held, stake>>
      PROVE  CapFits' /\ SerialTraderKeepsCap'
  BY <1>2, <1>6 DEF Leave, Places
<1>7. ASSUME NEW t \in Tickets, PendingWritten(t)
      PROVE  CapFits' /\ SerialTraderKeepsCap'
  <2>1. PICK fill \in BOOLEAN :
             /\ pc' = [pc EXCEPT ![t] = IF fill THEN "emitting" ELSE "closing"]
             /\ held' = IF fill THEN held + stake[t] ELSE held
    BY <1>7 DEF PendingWritten
  <2>2. pc[t] = "writing" /\ stake' = stake
    BY <1>7 DEF PendingWritten
  <2>3. pc'[t] \in {"emitting", "closing"} /\ pc' = [pc EXCEPT ![t] = pc'[t]]
    BY <2>1 DEF TypeOK
  <2>4. OperatorOut /\ t \in AutoRuns
    BY <1>1, <2>3
  <2>5. ~(held + stake[t] > Cap)
    BY <2>2, <2>4 DEF CapFits, OperatorOut, OverCap
  <2>6. \A u \in AutoRuns : pc'[u] # "writing"
    <3>1. \A u \in AutoRuns : pc[u] = "writing" => u = t
      <4>1. Active(t)
        BY <2>2, <2>4 DEF Active, Over
      <4> QED BY <4>1, TraderWithin DEF Active, Over
    <3> QED BY <2>3, <3>1 DEF TypeOK, Tickets
  <2>7. held' <= Cap
    <3>1. stake[t] \in Stakes \cup {0}
      BY DEF TypeOK
    <3>2. Stakes \cup {0} \subseteq Nat /\ Cap \in Nat
      BY StakeAssumption
    <3>3. stake[t] \in Nat /\ held <= Cap
      BY <2>4, <3>1, <3>2 DEF SerialTraderKeepsCap, OperatorOut
    <3> QED BY <1>0, <2>1, <2>5, <3>2, <3>3
  <2> QED BY <2>6, <2>7 DEF CapFits, SerialTraderKeepsCap
<1>8. ASSUME NEW t \in Tickets, Step(t)
      PROVE  CapFits' /\ SerialTraderKeepsCap'
  <2>1. CASE RefusalWritten(t) \/ FilledStatusWritten(t) \/ RejectedLegsWritten(t)
    BY <1>6, <2>1 DEF RefusalWritten, FilledStatusWritten, RejectedLegsWritten
  <2>2. CASE OrdersEmitted(t) \/ RejectedStatusWritten(t)
    BY <1>2, <2>2 DEF OrdersEmitted, RejectedStatusWritten, Places
  <2>3. CASE EmitRaises(t)
    BY <1>2, <2>3 DEF EmitRaises, Places
  <2> QED BY <1>7, <1>8, <2>1, <2>2, <2>3 DEF Step
<1>9. ASSUME NEW t \in AutoRuns, TraderCancelled(t)
      PROVE  CapFits' /\ SerialTraderKeepsCap'
  BY <1>2, <1>9 DEF TraderCancelled, Places, Tickets
<1>10. CASE Around
  <2>1. UNCHANGED <<pc, stake>>
    BY <1>10 DEF Around, GameNears, GroupPaid, GroupSettled, CooldownEnds, QuietEnds,
         WipeAccount, AccountSeeded,
         ShutdownBegins, TraderStops, DrainEnds, DrainTimesOut, vars, ticket
  <2>2. held' \in Nat /\ held' <= held
    BY <1>0, <1>10 DEF Around, GameNears, GroupPaid, GroupSettled, CooldownEnds, QuietEnds,
         WipeAccount, AccountSeeded,
         ShutdownBegins, TraderStops, DrainEnds, DrainTimesOut, vars
  <2>3. OperatorOut
    BY <2>1 DEF OperatorOut
  <2> QED BY <2>1, <2>2, <2>3, CapQuiet
<1>11. CASE HistoryDeleted
  <2>1. UNCHANGED <<pc, stake, held>>
    BY <1>11 DEF HistoryDeleted
  <2>2. OperatorOut
    BY <2>1 DEF OperatorOut
  <2> QED BY <1>0, <2>1, <2>2, CapQuiet
<1> QED BY NextCases, <1>3, <1>4, <1>5, <1>8, <1>9, <1>10, <1>11

-----------------------------------------------------------------------------
(* The theorems.                                                             *)

LEMMA Start == Init => IInv
<1> SUFFICES ASSUME Init PROVE IInv
  OBVIOUS
<1>1. TypeOK
  BY DEF Init, TypeOK, Places, Statuses
<1>2. Bookkeeping /\ AuditTruthful
  BY DEF Init, Bookkeeping, AuditTruthful, Progress, Counting, Truthful, Underway, Over
<1>3. InflightExact /\ Drained
  <2>1. {t \in Tickets : counted[t]} = {}
    BY DEF Init
  <2> QED BY <2>1, FS_EmptySet DEF Init, InflightExact, Drained
<1>4. Trader
  BY DEF Init, Trader, Serial, Active, Over, Tickets, OneFillPerCooldown, OneMissPerWindow
<1>5. CapFits /\ SerialTraderKeepsCap
  BY StakeAssumption DEF Init, CapFits, SerialTraderKeepsCap, Tickets
<1> QED BY <1>1, <1>2, <1>3, <1>4, <1>5 DEF IInv, Trader

LEMMA Inductive == IInv /\ [Next]_vars => IInv'
BY TypeStep, LogStep, CountStep, TraderStep, CapStep DEF IInv, Trader

LEMMA Invariance == Spec => []IInv
BY Start, Inductive, PTL DEF Spec

\* Every variable keeps its type (submit_arb_ticket, AppState, AutoTradeService).
THEOREM TicketTypes == Spec => []TypeOK
<1>1. IInv => TypeOK
  BY DEF IInv
<1> QED BY Invariance, <1>1, PTL

\* AppState._inflight is at every moment the number of tickets inside
\* _submit_checked, so the drain waits for exactly those.
THEOREM CounterExact == Spec => []InflightExact
<1>1. IInv => InflightExact
  BY DEF IInv
<1> QED BY Invariance, <1>1, PTL

\* The ticket log never shows a final status other than the verdict, and a
\* ticket that lost neither a write nor its rows is on record in full
\* (_set_status).
THEOREM AuditHonest == Spec => []AuditTruthful
<1>1. IInv => AuditTruthful
  BY DEF IInv
<1> QED BY Invariance, <1>1, PTL

\* A shutdown that no timeout cut short leaves no ticket half way between its
\* pending row and its final status (AppState.shutdown).
THEOREM DrainClean == Spec => []CleanDrain
<1>1. IInv => CleanDrain
  BY DEF IInv, Drained, Bookkeeping, Counting, Underway, CleanDrain
<1> QED BY Invariance, <1>1, PTL

\* While the operator keeps out, the serial trader holds the group under the
\* cap (AutoTradeService._run, cap_breach).
THEOREM SerialCap == Spec => []SerialTraderKeepsCap
<1>1. IInv => SerialTraderKeepsCap
  BY DEF IInv
<1> QED BY Invariance, <1>1, PTL

\* At most one automatic fill per cooldown (AutoTradeService.handle).
THEOREM OneFill == Spec => []OneFillPerCooldown
<1>1. IInv => OneFillPerCooldown
  BY DEF IInv
<1> QED BY Invariance, <1>1, PTL

\* At most one recorded miss per quiet window (_should_record_nonfill).
THEOREM OneMiss == Spec => []OneMissPerWindow
<1>1. IInv => OneMissPerWindow
  BY DEF IInv
<1> QED BY Invariance, <1>1, PTL
=============================================================================
