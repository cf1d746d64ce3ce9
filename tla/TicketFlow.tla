------------------------------ MODULE TicketFlow ------------------------------
(***************************************************************************)
(* How a ticket travels: submit_arb_ticket (backend/ticket_service.py), its *)
(* two callers - the auto-trader's serial consumer                          *)
(* (ingest/auto_trade_service.py) and an operator's POST /paper/execute -   *)
(* with a reset of the account under them and the shutdown that drains them *)
(* (backend/state.py), for one group.                                       *)
(*                                                                          *)
(* Every database write is an await, so each action below runs from one     *)
(* await to the next.  What the router does with a ticket that reaches it   *)
(* (PaperBroker models it) is one atomic fill-or-refuse here; any write may *)
(* be dropped, as run_write does after its retries.                         *)
(***************************************************************************)
EXTENDS Naturals, FiniteSets

CONSTANTS
  Clicks,     \* bound: the tickets the operator asks for
  AutoRuns,   \* bound: the tickets the auto-trader submits
  MaxDropped, \* bound: the tickets that lose a write
  RunsAhead,  \* bound: the runs the trader has to come when a reset begins
  Stakes,     \* what a ticket may cost, all its legs together
  Cap         \* ARBYS_MAX_OUTCOME_STAKE

ASSUME TicketIds == Clicks \cap AutoRuns = {}
ASSUME FiniteBounds ==
  IsFiniteSet(Clicks) /\ IsFiniteSet(AutoRuns)
ASSUME Bounds == MaxDropped \in Nat /\ RunsAhead \in Nat
ASSUME StakeAssumption == Stakes \subseteq Nat \ {0} /\ Cap \in Nat

Tickets == Clicks \cup AutoRuns

VARIABLES
  pc,        \* per ticket: the await it is at,
  recorded,  \*   record_nonfill,
  counted,   \*   whether it counts as in flight,
  verdict,   \*   its result's status,
  stake,     \*   its cost at the detected quotes,
  row,       \*   the status its row in the database shows,
  orders,    \*   whether its legs' orders are in the database,
  dropped,   \*   and whether a write of it was dropped, or its row erased
  inflight,  \* AppState._inflight
  held,      \* cost basis of the group's open positions, all legs together
  stage,     \* of the game: too far ahead to trade, open, paid out by
             \* auto-settlement, and in its _settled set
  phase,     \* AppState.shutdown: up, stopping the trader, waiting, down
  busy,      \* the auto-trader's consumer is inside handle()
  cooling,   \* the group is in _cooldown_until
  quiet,     \* the group is in _nonfill_logged_until
  reset,     \* reset_paper_account: none runs, the brokers are wiped, or the
             \* history is deleted too
  timedOut,  \* shutdown gave up on the trader, or on the drain
  fills,     \* history: auto fills since a cooldown last ended
  nonfills   \* history: recorded misses of the trader since quiet last began

consumer == <<busy, cooling, quiet, fills, nonfills>>
audit == <<recorded, verdict, row, orders, dropped>>
ticket == <<pc, counted, stake, audit>>
vars == <<ticket, inflight, held, stage, phase, timedOut, reset, consumer>>

-----------------------------------------------------------------------------
NoEdge == [stake |-> 0, sound |-> FALSE]
\* What the detector may find at live quotes; sound: neither an implausible
\* edge nor one whose legs' quotes are skewed.
Edges == [stake : Stakes, sound : BOOLEAN] \cup {NoEdge}

draining == phase # "up"

settled == stage = "settled"

\* cap_breach, over the whole group.
OverCap(cost) == held + cost > Cap

Init ==
  /\ pc = [t \in Tickets |-> "idle"]
  /\ recorded = [t \in Tickets |-> TRUE]
  /\ counted = [t \in Tickets |-> FALSE]
  /\ verdict = [t \in Tickets |-> "none"]
  /\ stake = [t \in Tickets |-> 0]
  /\ row = [t \in Tickets |-> "none"]
  /\ orders = [t \in Tickets |-> FALSE]
  /\ dropped = [t \in Tickets |-> FALSE]
  /\ inflight = 0
  /\ held = 0
  /\ stage \in {"far", "open"}
  /\ phase = "up"
  /\ busy = FALSE
  /\ cooling = FALSE
  /\ quiet = FALSE
  /\ reset = "none"
  /\ timedOut = FALSE
  /\ fills = 0
  /\ nonfills = 0

-----------------------------------------------------------------------------
(* The consumer's bookkeeping once a submission has returned.               *)

\* handle(): a fill starts the cooldown and ends the quiet window, a recorded
\* non-fill starts the window.
ReturnWithoutCooldown(t, v, record) ==
  IF t \notin AutoRuns THEN UNCHANGED consumer
  ELSE /\ busy' = FALSE
       /\ IF v = "filled"
          THEN /\ quiet' = FALSE
               /\ fills' = fills + 1 /\ nonfills' = 0
               /\ UNCHANGED cooling
          ELSE /\ quiet' = (quiet \/ record)
               /\ UNCHANGED <<cooling, fills, nonfills>>
ReturnWithoutWindow(t, v, record) ==
  IF t \notin AutoRuns THEN UNCHANGED consumer
  ELSE /\ busy' = FALSE
       /\ IF v = "filled"
          THEN /\ cooling' = TRUE /\ quiet' = FALSE
               /\ fills' = fills + 1 /\ nonfills' = 0
          ELSE UNCHANGED <<cooling, quiet, fills, nonfills>>
ReturnToTrader(t, v, record) ==
  IF t \notin AutoRuns THEN UNCHANGED consumer
  ELSE /\ busy' = FALSE
       /\ IF v = "filled"
          THEN /\ cooling' = TRUE /\ quiet' = FALSE
               /\ fills' = fills + 1 /\ nonfills' = 0
          ELSE /\ quiet' = (quiet \/ record)
               /\ UNCHANGED <<cooling, fills, nonfills>>

StaysInTrader(t) ==
  /\ busy' = (busy \/ t \in AutoRuns)
  /\ UNCHANGED <<cooling, quiet, fills>>

\* Which id the trader's next run bears makes no difference.
FreshRuns == {t \in AutoRuns : pc[t] = "idle"}

-----------------------------------------------------------------------------
(* submit_arb_ticket, up to its first await.                                *)

\* Refusals that come before the ticket counts as in flight.
RefusedOutright == draining \/ settled \/ stage = "far"

\* _submit_checked's verdict: the edge is gone, is not believable, or would
\* breach the cap.  "none" lets the ticket through.
Judge(edge) ==
  IF edge = NoEdge THEN "missed"
  ELSE IF ~edge.sound \/ OverCap(edge.stake) THEN "rejected"
  ELSE "none"

\* Refused with an audit row: the write awaits, and a ticket refused inside
\* _submit_checked stays in flight until it is done.
RefuseOnRecord(t, v, enters) ==
  /\ pc' = [pc EXCEPT ![t] = "refusing"]
  /\ counted' = [counted EXCEPT ![t] = enters]
  /\ verdict' = [verdict EXCEPT ![t] = v]
  /\ inflight' = IF enters THEN inflight + 1 ELSE inflight
  /\ nonfills' = IF t \in AutoRuns THEN nonfills + 1 ELSE nonfills
  /\ StaysInTrader(t)
  /\ UNCHANGED <<recorded, stake, row, orders, dropped>>

\* record_nonfill=False: nothing is awaited, and the attempt leaves no row.
RefuseInSilence(t, v) ==
  /\ pc' = [pc EXCEPT ![t] = "done"]
  /\ recorded' = [recorded EXCEPT ![t] = FALSE]
  /\ verdict' = [verdict EXCEPT ![t] = v]
  /\ ReturnToTrader(t, v, FALSE)
  /\ UNCHANGED <<counted, stake, row, orders, dropped, inflight>>

\* Every check passed: the pending row is being written.
Admit(t, cost, record) ==
  /\ pc' = [pc EXCEPT ![t] = "writing"]
  /\ recorded' = [recorded EXCEPT ![t] = record]
  /\ counted' = [counted EXCEPT ![t] = TRUE]
  /\ stake' = [stake EXCEPT ![t] = cost]
  /\ inflight' = inflight + 1
  /\ StaysInTrader(t)
  /\ UNCHANGED <<verdict, row, orders, dropped, nonfills>>

SubmitArbTicket(t, record) ==
  /\ pc[t] = "idle"
  /\ \/ /\ RefusedOutright
        /\ IF record THEN RefuseOnRecord(t, "rejected", FALSE)
                     ELSE RefuseInSilence(t, "rejected")
     \/ /\ ~RefusedOutright
        /\ \E edge \in Edges :
             IF Judge(edge) = "none" THEN Admit(t, edge.stake, record)
             ELSE IF record THEN RefuseOnRecord(t, Judge(edge), TRUE)
                            ELSE RefuseInSilence(t, Judge(edge))
  /\ UNCHANGED <<stage, held, phase, timedOut, reset>>

\* POST /paper/execute, any number at a time.  A descriptor that no live edge
\* matches is a miss at once, before any other check and not in flight.
Click(t) ==
  /\ phase # "down"
  /\ \/ SubmitArbTicket(t, TRUE)
     \/ /\ pc[t] = "idle"
        /\ RefuseOnRecord(t, "missed", FALSE)
        /\ UNCHANGED <<stage, held, phase, timedOut, reset>>

\* The consumer takes an opportunity off its queue, however stale, unless a
\* cooldown or a pre-check makes handle() skip it.  It awaits the submission,
\* so it takes the next only afterwards; an item already picked up is handled
\* even when stop() has been asked for meanwhile.
HandleConcurrently(t) ==
  /\ phase \in {"up", "stopping"}
  /\ ~cooling /\ stage # "far"
  /\ \E s \in Stakes : ~OverCap(s)
  /\ SubmitArbTicket(t, ~quiet)
Handle(t) ==
  /\ phase \in {"up", "stopping"}
  /\ ~busy
  /\ ~cooling /\ stage # "far"
  /\ \E s \in Stakes : ~OverCap(s)
  /\ SubmitArbTicket(t, ~quiet)

-----------------------------------------------------------------------------
(* The steps of a ticket, one per await.                                    *)

\* A write lands or is dropped; bound: MaxDropped tickets lose one.
MayDrop(t) == dropped[t] \/ Cardinality({u \in Tickets : dropped[u]}) < MaxDropped
Written(t) == IF MayDrop(t) THEN BOOLEAN ELSE {TRUE}

\* What a write comes to when the row it is for must exist (a foreign key).
LandsOnceRowExists(t) == IF row[t] # "none" THEN {TRUE} ELSE {}
Lands(t) == IF row[t] = "none" THEN {FALSE} ELSE Written(t)

ExitTicket == IF inflight > 0 THEN inflight - 1 ELSE 0

\* exit_ticket() in the finally, and the return to the caller.
LeaveUncounted(t) ==
  /\ pc' = [pc EXCEPT ![t] = "done"]
  /\ counted' = [counted EXCEPT ![t] = FALSE]
  /\ inflight' = inflight
  /\ ReturnToTrader(t, verdict[t], recorded[t])
LeaveAlways(t) ==
  /\ pc' = [pc EXCEPT ![t] = "done"]
  /\ counted' = [counted EXCEPT ![t] = FALSE]
  /\ inflight' = ExitTicket
  /\ ReturnToTrader(t, verdict[t], recorded[t])
Leave(t) ==
  /\ pc' = [pc EXCEPT ![t] = "done"]
  /\ counted' = [counted EXCEPT ![t] = FALSE]
  /\ inflight' = IF counted[t] THEN ExitTicket ELSE inflight
  /\ ReturnToTrader(t, verdict[t], recorded[t])

\* The audit row of a refusal.
RefusalWritten(t) ==
  /\ pc[t] = "refusing"
  /\ \E ok \in Written(t) :
       /\ row' = [row EXCEPT ![t] = IF ok THEN verdict[t] ELSE "none"]
       /\ dropped' = [dropped EXCEPT ![t] = ~ok]
  /\ Leave(t)
  /\ UNCHANGED <<recorded, verdict, stake, orders, stage, held, phase, timedOut, reset>>

\* The pending row is written or dropped, and the router runs to its own first
\* await: it fills every leg, or refuses the ticket - the book has moved on,
\* or cash is short, as in an account a reset has wiped and not yet seeded.
PendingWritten(t) ==
  /\ pc[t] = "writing"
  /\ \E ok \in Written(t), fill \in BOOLEAN :
       /\ fill => reset # "wiped"
       /\ row' = [row EXCEPT ![t] = IF ok THEN "pending" ELSE "none"]
       /\ dropped' = [dropped EXCEPT ![t] = ~ok]
       /\ pc' = [pc EXCEPT ![t] = IF fill THEN "emitting" ELSE "closing"]
       /\ verdict' = [verdict EXCEPT ![t] = IF fill THEN "filled" ELSE "rejected"]
       /\ held' = IF fill THEN held + stake[t] ELSE held
  /\ UNCHANGED <<recorded, counted, stake, orders>>
  /\ UNCHANGED <<inflight, stage, phase, consumer, timedOut, reset>>

\* emit_order_events on every leg: their writes, one after the other.
OrdersEmitted(t) ==
  /\ pc[t] = "emitting"
  /\ pc' = [pc EXCEPT ![t] = "closing"]
  /\ \E ok \in Lands(t) :
       /\ orders' = [orders EXCEPT ![t] = ok]
       /\ dropped' = [dropped EXCEPT ![t] = @ \/ ~ok]
  /\ UNCHANGED <<recorded, counted, verdict, stake, row>>
  /\ UNCHANGED <<inflight, stage, held, phase, consumer, timedOut, reset>>

\* A leg whose broker a reset has wiped has no balance to report: KeyError.
\* submit_arb_ticket catches none but InsufficientLegsError, so the ticket gets
\* neither a status nor, in handle(), a cooldown; the finally still counts it out.
EmitRaises(t) ==
  /\ pc[t] = "emitting" /\ reset # "none"
  /\ pc' = [pc EXCEPT ![t] = "raised"]
  /\ counted' = [counted EXCEPT ![t] = FALSE]
  /\ inflight' = IF counted[t] THEN ExitTicket ELSE inflight
  /\ busy' = (busy /\ t \notin AutoRuns)
  /\ UNCHANGED <<audit, stake, stage, held, phase, timedOut, reset>>
  /\ UNCHANGED <<cooling, quiet, fills, nonfills>>

\* _set_status moves the row to its final status; a ticket the router refused
\* still has its legs to record.
SetStatus(t) ==
  \E ok \in Lands(t) :
    /\ row' = [row EXCEPT ![t] = IF ok THEN verdict[t] ELSE @]
    /\ dropped' = [dropped EXCEPT ![t] = @ \/ ~ok]

FilledStatusWritten(t) ==
  /\ pc[t] = "closing" /\ verdict[t] = "filled"
  /\ SetStatus(t)
  /\ Leave(t)
  /\ UNCHANGED <<recorded, verdict, stake, orders, stage, held, phase, timedOut, reset>>

RejectedStatusWrittenLast(t) ==
  /\ pc[t] = "closing" /\ verdict[t] = "rejected"
  /\ SetStatus(t)
  /\ Leave(t)
  /\ UNCHANGED <<recorded, verdict, stake, orders, stage, held, phase, timedOut, reset>>
RejectedStatusWritten(t) ==
  /\ pc[t] = "closing" /\ verdict[t] = "rejected"
  /\ pc' = [pc EXCEPT ![t] = "auditing"]
  /\ SetStatus(t)
  /\ UNCHANGED <<recorded, counted, verdict, stake, orders>>
  /\ UNCHANGED <<inflight, stage, held, phase, consumer, timedOut, reset>>

\* _write_rejected_legs, all in one transaction.
RejectedLegsWritten(t) ==
  /\ pc[t] = "auditing"
  /\ \E ok \in Lands(t) :
       /\ orders' = [orders EXCEPT ![t] = ok]
       /\ dropped' = [dropped EXCEPT ![t] = @ \/ ~ok]
  /\ Leave(t)
  /\ UNCHANGED <<recorded, verdict, stake, row, stage, held, phase, timedOut, reset>>

Step(t) ==
  \/ RefusalWritten(t)
  \/ PendingWritten(t)
  \/ OrdersEmitted(t)
  \/ EmitRaises(t)
  \/ FilledStatusWritten(t)
  \/ RejectedStatusWritten(t)
  \/ RejectedLegsWritten(t)

-----------------------------------------------------------------------------
(* What goes on around the tickets.                                         *)

\* The game comes within ARBYS_MAX_DAYS_TO_START.
GameNears ==
  /\ phase # "down" /\ stage = "far"
  /\ stage' = "open"
  /\ UNCHANGED <<ticket, inflight, held, phase, consumer, timedOut, reset>>

\* AutoSettleService pays the group out and zeroes its positions,
GroupPaid ==
  /\ phase # "down" /\ stage = "open"
  /\ stage' = "paid" /\ held' = 0
  /\ UNCHANGED <<ticket, inflight, phase, consumer, timedOut, reset>>

\* and, after awaiting the writes of that, adds it to _settled.
GroupSettled ==
  /\ phase # "down" /\ stage = "paid"
  /\ stage' = "settled"
  /\ UNCHANGED <<ticket, inflight, held, phase, consumer, timedOut, reset>>

CooldownEnds ==
  /\ phase # "down" /\ cooling
  /\ cooling' = FALSE /\ fills' = 0
  /\ UNCHANGED <<ticket, inflight, stage, held, phase, busy, quiet, nonfills, timedOut, reset>>

QuietEnds ==
  /\ phase # "down" /\ quiet
  /\ quiet' = FALSE /\ nonfills' = 0
  /\ UNCHANGED <<ticket, inflight, stage, held, phase, busy, cooling, fills, timedOut, reset>>

-----------------------------------------------------------------------------
(* AppState.reset_paper_account, from one await to the next.                *)

\* Every broker drops the account.  It may stay that way: the deletion that
\* follows is not retried, and nobody seeds the account when it raises.  Bound:
\* one reset at a time.
WipeAccount ==
  /\ reset = "none" /\ phase # "down" /\ Cardinality(FreshRuns) >= RunsAhead
  /\ reset' = "wiped" /\ held' = 0
  /\ UNCHANGED <<ticket, inflight, stage, phase, timedOut, consumer>>

\* delete_paper_history: no ticket has a row any more, nor a leg on record.
HistoryDeleted ==
  /\ phase # "down" /\ reset = "wiped"
  /\ reset' = "deleted"
  /\ row' = [t \in Tickets |-> "none"]
  /\ orders' = [t \in Tickets |-> FALSE]
  /\ dropped' = [t \in Tickets |-> dropped[t] \/ row[t] # "none"]
  /\ UNCHANGED <<pc, counted, recorded, verdict, stake>>
  /\ UNCHANGED <<inflight, held, stage, phase, timedOut, consumer>>

\* Both venues have their balance again, and every memory of what was settled,
\* traded or missed is cleared.
AccountSeeded ==
  /\ phase # "down" /\ reset = "deleted"
  /\ reset' = "none"
  /\ stage' = IF settled THEN "open" ELSE stage
  /\ cooling' = FALSE /\ quiet' = FALSE
  /\ fills' = 0 /\ nonfills' = 0
  /\ UNCHANGED <<ticket, inflight, held, phase, timedOut, busy>>

-----------------------------------------------------------------------------
(* AppState.shutdown.                                                       *)

ShutdownBegins ==
  /\ phase = "up"
  /\ phase' = "stopping"
  /\ UNCHANGED <<ticket, inflight, stage, held, consumer, timedOut, reset>>

\* AutoTradeService.stop: the consumer ends after the handle() it is in.
TraderStops ==
  /\ phase = "stopping" /\ ~busy
  /\ phase' = "waiting"
  /\ UNCHANGED <<ticket, inflight, stage, held, consumer, timedOut, reset>>

\* The row a ticket's pending write would leave.
RowNamedForStep(t) ==
  IF pc[t] = "writing" THEN "pending" ELSE pc[t]
RowInFlight(t) ==
  CASE pc[t] = "writing" -> "pending"
    [] pc[t] = "refusing" -> verdict[t]
    [] pc[t] = "closing" /\ row[t] # "none" -> verdict[t]
    [] OTHER -> row[t]

\* STOP_TIMEOUT_S passes: the consumer is cancelled at its await, and the
\* write it was in may have landed.
TraderCancelled(t) ==
  /\ phase = "stopping" /\ t \in AutoRuns
  /\ pc[t] \notin {"idle", "done", "raised", "cancelled"}
  /\ pc' = [pc EXCEPT ![t] = "cancelled"]
  /\ counted' = [counted EXCEPT ![t] = FALSE]
  /\ \E r \in {row[t], RowInFlight(t)} : row' = [row EXCEPT ![t] = r]
  /\ inflight' = IF counted[t] THEN ExitTicket ELSE inflight
  /\ busy' = FALSE
  /\ phase' = "waiting"
  /\ timedOut' = TRUE
  /\ UNCHANGED <<recorded, verdict, stake, orders, dropped>>
  /\ UNCHANGED <<stage, held, cooling, quiet, fills, nonfills, reset>>

\* _idle is set: the services are torn down and the process exits.
DrainEndsUnwaited ==
  /\ phase = "waiting"
  /\ phase' = "down"
  /\ UNCHANGED <<ticket, inflight, stage, held, consumer, timedOut, reset>>
DrainEnds ==
  /\ phase = "waiting" /\ inflight = 0
  /\ phase' = "down"
  /\ UNCHANGED <<ticket, inflight, stage, held, consumer, timedOut, reset>>

\* DRAIN_TIMEOUT_S passes with tickets still in flight.
DrainTimesOut ==
  /\ phase = "waiting" /\ inflight > 0
  /\ phase' = "down"
  /\ timedOut' = TRUE
  /\ UNCHANGED <<ticket, inflight, stage, held, reset, consumer>>

-----------------------------------------------------------------------------
Next ==
  \/ \E t \in Clicks : Click(t)
  \/ FreshRuns # {} /\ Handle(CHOOSE t \in FreshRuns : TRUE)
  \/ \E t \in Tickets : Step(t)
  \/ GameNears
  \/ GroupPaid \/ GroupSettled
  \/ CooldownEnds \/ QuietEnds
  \/ WipeAccount \/ HistoryDeleted \/ AccountSeeded
  \/ ShutdownBegins \/ TraderStops
  \/ \E t \in AutoRuns : TraderCancelled(t)
  \/ DrainEnds \/ DrainTimesOut

Spec == Init /\ [][Next]_vars

\* run_write always returns, so of the tickets at an await one comes to its next;
\* stop() and the drain go on once what they wait for has happened.  Neither
\* timeout is relied on.
FairSpec ==
  /\ Spec
  /\ WF_vars(\E t \in Tickets : Step(t))
  /\ WF_vars(TraderStops)
  /\ WF_vars(DrainEnds)

-----------------------------------------------------------------------------
(* Properties.                                                              *)

Statuses == {"none", "pending", "filled", "rejected", "missed"}
Places == {"idle", "refusing", "writing", "emitting", "closing", "auditing",
           "done", "raised", "cancelled"}

\* Every variable is of its kind (submit_arb_ticket, AppState, AutoTradeService).
TypeOK ==
  /\ pc \in [Tickets -> Places]
  /\ recorded \in [Tickets -> BOOLEAN]
  /\ counted \in [Tickets -> BOOLEAN]
  /\ verdict \in [Tickets -> Statuses \ {"pending"}]
  /\ stake \in [Tickets -> Stakes \cup {0}]
  /\ row \in [Tickets -> Statuses]
  /\ orders \in [Tickets -> BOOLEAN]
  /\ dropped \in [Tickets -> BOOLEAN]
  /\ inflight \in Nat
  /\ held \in Nat
  /\ stage \in {"far", "open", "paid", "settled"}
  /\ busy \in BOOLEAN /\ cooling \in BOOLEAN /\ quiet \in BOOLEAN
  /\ timedOut \in BOOLEAN
  /\ phase \in {"up", "stopping", "waiting", "down"}
  /\ reset \in {"none", "wiped", "deleted"}
  /\ fills \in Nat /\ nonfills \in Nat

\* shutdown waits for exactly the tickets inside _submit_checked: the counter
\* it drains is their number (enter_ticket, exit_ticket, and its max(0, ...),
\* which would hide an exit too many).
InflightExact == inflight = Cardinality({t \in Tickets : counted[t]})

\* While the operator keeps out, the cost held in the group never exceeds the
\* cap: the trader awaits each ticket before it judges the next (_run:
\* "Serial on purpose").
SerialTraderKeepsCap ==
  (\A t \in Clicks : pc[t] = "idle") => held <= Cap

\* The ticket log tells the truth: a final status is the verdict, and a ticket
\* that ran to its end with no write dropped and no row erased has its row and,
\* if it reached the router, every leg on record (_set_status,
\* _write_rejected_legs).
Truthful(t) ==
  /\ row[t] \in {"filled", "rejected", "missed"} => row[t] = verdict[t]
  /\ pc[t] = "done" /\ recorded[t] /\ ~dropped[t] => row[t] = verdict[t]
  /\ pc[t] = "done" /\ stake[t] > 0 /\ ~dropped[t] =>
       row[t] = verdict[t] /\ orders[t]
AuditTruthful == \A t \in Tickets : Truthful(t)

\* A shutdown that neither timeout cut short leaves no ticket half way between
\* its pending row and its final status (AppState.shutdown).
CleanDrain ==
  phase = "down" /\ ~timedOut =>
    \A t \in Tickets :
      pc[t] \notin {"writing", "emitting", "closing", "auditing"}

\* The auto-trader fills the group at most once per cooldown
\* (AutoTradeService.handle, _cooldown_until).
OneFillPerCooldown == fills <= 1

\* However often a dying edge republishes, one miss per quiet window is put on
\* record (handle, _should_record_nonfill).
OneMissPerWindow == nonfills <= 1

\* Every ticket a caller began comes to its end, whatever writes are dropped,
\* whatever the router says and whenever the account is reset (run_write "never
\* raises"): again and again none is under way, and none begins twice.
TicketsFinish ==
  []<>(\A t \in Tickets : pc[t] \in {"idle", "done", "raised", "cancelled"})

\* A shutdown that has begun completes without help from its timeouts: every
\* exit path of a ticket gives back its place (_submit_checked: an early return
\* that skipped the decrement "would wedge shutdown's drain").
DrainCompletes == phase # "up" ~> phase = "down"

\* The cap is "the cumulative limit" on "capital committed to one event group"
\* (max_outcome_stake, state.py:400): whoever trades, the cost held in the
\* group never exceeds it.
CapNeverExceeded == held <= Cap

\* "A settled group must never be traded again" (ticket_service.py:436): once
\* the group is settled, the cost held in it never grows.
SettledNeverTraded == [][settled => held' <= held]_vars
=============================================================================
