------------------------------ MODULE ShardRepair ------------------------------
(***************************************************************************)
(* One connection of the Polymarket US feed (adapters/polymarket_us_ws.py): *)
(* a socket that is alive and busy may still not deliver a market, and says *)
(* nothing of it.  The shard watches when each of its markets last arrived, *)
(* asks again for those that are dark, and, when a market whose game is on  *)
(* stays dark, drops the connection - within a budget, for a settled market *)
(* never comes back however often it is asked.                              *)
(*                                                                          *)
(* Time is counted in ticks from the event that a monotonic time records.   *)
(* Time passes while the shard waits in recv() or is down; handling a frame *)
(* and a sweep take none (the quote queue, 20,000 long, has room).          *)
(***************************************************************************)
EXTENDS Integers

CONSTANTS
  Slugs,                \* the markets of the shard
  DarkAfter,            \* DEFAULT_DARK_AFTER_S
  PriorityDarkAfter,    \* DEFAULT_PRIORITY_DARK_AFTER_S
  RepairSweep,          \* REPAIR_SWEEP_S
  MaxRepairAttempts,
  MaxEscalations,       \* MAX_ESCALATIONS_PER_SLUG
  ReconnectCooldown,
  PlayStates,           \* what AppState may say of a game: a subset of AllPlayStates
  MaxUnreadable         \* bound: frames that are not JSON between two sweeps

AllPlayStates == {"off", "guessed", "confirmed"}

ASSUME TimeAssumption ==
  /\ DarkAfter \in Nat /\ PriorityDarkAfter \in Nat /\ MaxUnreadable \in Nat
  /\ RepairSweep \in Nat \ {0} /\ ReconnectCooldown \in Nat
ASSUME DeadlineAssumption == PriorityDarkAfter <= DarkAfter
ASSUME BudgetAssumption == MaxRepairAttempts \in Nat /\ MaxEscalations \in Nat
ASSUME PlayAssumption == PlayStates \subseteq AllPlayStates

VARIABLES
  conn,            \* "down", "receiving" (in recv) or "sweeping"
  silent,          \* per market: since _last_ws_at
  attempts,        \* per market: repairs on this connection
  escalations,     \* per market: _escalations, which outlives the connection
  sinceReconnect,  \* since _last_reconnect_at, at most ReconnectCooldown
  inPlay,          \* per market: what in_play_slugs and confirmed_in_play_slugs say
  sinceSweep,      \* since next_repair was last set
  waited,          \* since the recv() under way began
  unreadable,      \* unreadable frames since the last sweep
  cost             \* history, per market: the drops it was named in since it last streamed

clocks == <<silent, sinceReconnect, sinceSweep, waited>>
vars == <<conn, clocks, attempts, escalations, inPlay, unreadable, cost>>

-----------------------------------------------------------------------------
Sweeps(n) == n * RepairSweep

\* The longest a first request can take; silence is told apart up to one more.
FirstAskBound == DarkAfter + Sweeps(2 + MaxUnreadable)

Never == [s \in Slugs |-> 0]
OneMore(count, S) == [s \in Slugs |-> IF s \in S THEN count[s] + 1 ELSE count[s]]
UpTo(cap, n) == IF n < cap THEN n ELSE cap

Deadline(s) == IF inPlay[s] = "off" THEN DarkAfter ELSE PriorityDarkAfter
DarkHoweverOften == {s \in Slugs : silent[s] > Deadline(s)}
Dark == {s \in Slugs : attempts[s] < MaxRepairAttempts /\ silent[s] > Deadline(s)}

\* What a sweep's own requests leave in attempts.
Asked == OneMore(attempts, Dark)

StuckAfter(asks) ==
  {s \in Slugs : /\ inPlay[s] = "confirmed"
                 /\ asks[s] >= MaxRepairAttempts
                 /\ silent[s] > PriorityDarkAfter
                 /\ escalations[s] < MaxEscalations}
StuckBeforeAsking == StuckAfter(attempts)
Stuck == StuckAfter(Asked)

Cooled == sinceReconnect = ReconnectCooldown

-----------------------------------------------------------------------------
Init ==
  /\ conn = "down"
  /\ silent = Never /\ attempts = Never /\ escalations = Never /\ cost = Never
  /\ sinceReconnect = ReconnectCooldown
  /\ inPlay \in [Slugs -> PlayStates]
  /\ sinceSweep = 0 /\ waited = 0 /\ unreadable = 0

\* A recv() is given at most RepairSweep.
Tick ==
  /\ conn = "down" \/ (conn = "receiving" /\ waited < RepairSweep)
  /\ silent' = [s \in Slugs |-> UpTo(FirstAskBound + 1, silent[s] + 1)]
  /\ sinceReconnect' = UpTo(ReconnectCooldown, sinceReconnect + 1)
  /\ IF conn = "down"
       THEN UNCHANGED <<sinceSweep, waited>>
       ELSE sinceSweep' = sinceSweep + 1 /\ waited' = waited + 1
  /\ UNCHANGED <<conn, attempts, escalations, inPlay, unreadable, cost>>

\* AppState answers from its groups, afresh on every sweep.
GamesChange ==
  /\ inPlay' \in [Slugs -> PlayStates]
  /\ UNCHANGED <<conn, clocks, attempts, escalations, unreadable, cost>>

Connect ==
  /\ conn = "down"
  /\ conn' = "receiving"
  /\ silent' = Never
  /\ UNCHANGED <<sinceReconnect, sinceSweep, waited, attempts, escalations,
                 inPlay, unreadable, cost>>

\* What the connection's own locals are worth once it is gone.
LocalsGone ==
  /\ conn' = "down"
  /\ attempts' = Never
  /\ sinceSweep' = 0 /\ waited' = 0 /\ unreadable' = 0

Disconnect ==
  /\ conn # "down"
  /\ LocalsGone
  /\ UNCHANGED <<silent, sinceReconnect, escalations, inPlay, cost>>

\* restart_ingest closes the adapter and builds another.
Rebuild ==
  /\ LocalsGone
  /\ silent' = Never /\ escalations' = Never /\ cost' = Never
  /\ sinceReconnect' = ReconnectCooldown
  /\ UNCHANGED inPlay

-----------------------------------------------------------------------------
\* The loop goes back to recv(), through the sweep when it is due.
NextTurn ==
  /\ waited' = 0
  /\ conn' = IF sinceSweep >= RepairSweep THEN "sweeping" ELSE "receiving"

TimeOutWithoutSweep ==
  /\ conn = "receiving" /\ waited = RepairSweep
  /\ waited' = 0
  /\ UNCHANGED <<conn, silent, sinceReconnect, sinceSweep, attempts, escalations,
                 inPlay, unreadable, cost>>
TimeOut ==
  /\ conn = "receiving" /\ waited = RepairSweep
  /\ NextTurn
  /\ UNCHANGED <<silent, sinceReconnect, sinceSweep, attempts, escalations,
                 inPlay, unreadable, cost>>

\* A frame that is not JSON goes straight back to recv().
Unreadable ==
  /\ conn = "receiving" /\ unreadable < MaxUnreadable
  /\ waited' = 0 /\ unreadable' = unreadable + 1
  /\ UNCHANGED <<conn, silent, sinceReconnect, sinceSweep, attempts,
                 escalations, inPlay, cost>>

\* An acknowledgement, or a market nobody asked for.
Acknowledged ==
  /\ conn = "receiving"
  /\ NextTurn
  /\ UNCHANGED <<silent, sinceReconnect, sinceSweep, attempts, escalations,
                 inPlay, unreadable, cost>>

\* A book without a usable price yields no quote, and says only that the
\* subscription works.
EmptyBook(s) ==
  /\ conn = "receiving"
  /\ NextTurn
  /\ silent' = [silent EXCEPT ![s] = 0]
  /\ UNCHANGED <<sinceReconnect, sinceSweep, attempts, escalations, inPlay,
                 unreadable, cost>>

QuotedRestoringAll(s, live) ==
  /\ conn = "receiving"
  /\ NextTurn
  /\ silent' = [silent EXCEPT ![s] = 0]
  /\ attempts' = [attempts EXCEPT ![s] = 0]
  /\ escalations' = [escalations EXCEPT ![s] = 0]
  /\ cost' = IF live THEN [cost EXCEPT ![s] = 0] ELSE cost
  /\ UNCHANGED <<sinceReconnect, sinceSweep, inPlay, unreadable>>

\* Quotes restore the repairs; only a frame the venue stamped recently proves
\* that the market streams and restores the reconnects.
Quoted(s, live) ==
  /\ conn = "receiving"
  /\ NextTurn
  /\ silent' = [silent EXCEPT ![s] = 0]
  /\ attempts' = [attempts EXCEPT ![s] = 0]
  /\ escalations' = IF live THEN [escalations EXCEPT ![s] = 0] ELSE escalations
  /\ cost' = IF live THEN [cost EXCEPT ![s] = 0] ELSE cost
  /\ UNCHANGED <<sinceReconnect, sinceSweep, inPlay, unreadable>>

-----------------------------------------------------------------------------
SweepDone == conn' = "receiving" /\ sinceSweep' = 0 /\ unreadable' = 0

NothingDark ==
  /\ conn = "sweeping" /\ Dark = {}
  /\ SweepDone
  /\ UNCHANGED <<silent, sinceReconnect, waited, attempts, escalations, inPlay, cost>>

Repair ==
  /\ conn = "sweeping" /\ Dark # {}
  /\ Stuck = {} \/ ~Cooled
  /\ attempts' = Asked
  /\ SweepDone
  /\ UNCHANGED <<silent, sinceReconnect, waited, escalations, inPlay, cost>>

\* DarkMarkets: the repair just sent goes down with the connection.
Escalate ==
  /\ conn = "sweeping" /\ Dark # {}
  /\ Stuck # {} /\ Cooled
  /\ escalations' = OneMore(escalations, Stuck)
  /\ cost' = OneMore(cost, Stuck)
  /\ sinceReconnect' = 0
  /\ LocalsGone
  /\ UNCHANGED <<silent, inPlay>>

Sweep == NothingDark \/ Repair \/ Escalate

Next ==
  \/ Tick \/ GamesChange
  \/ Connect \/ Disconnect \/ Rebuild
  \/ TimeOut \/ Unreadable \/ Acknowledged
  \/ \E s \in Slugs : EmptyBook(s) \/ \E live \in BOOLEAN : Quoted(s, live)
  \/ Sweep

Spec == Init /\ [][Next]_vars

\* The clock runs, and asyncio wakes a recv() that timed out and runs the task
\* it wakes.  Nothing is owed by the venue: no frame, and no connection.
FairSpec == Spec /\ WF_vars(Tick) /\ WF_vars(TimeOut) /\ WF_vars(Sweep)

-----------------------------------------------------------------------------
TypeOK ==
  /\ conn \in {"down", "receiving", "sweeping"}
  /\ silent \in [Slugs -> 0 .. FirstAskBound + 1]
  /\ attempts \in [Slugs -> 0 .. MaxRepairAttempts]
  /\ escalations \in [Slugs -> 0 .. MaxEscalations]
  /\ sinceReconnect \in 0 .. ReconnectCooldown
  /\ inPlay \in [Slugs -> PlayStates]
  /\ sinceSweep \in 0 .. Sweeps(2 + MaxUnreadable)
  /\ waited \in 0 .. RepairSweep
  /\ unreadable \in 0 .. MaxUnreadable
  /\ cost \in [Slugs -> Nat]

\* A market costs its shard at most MaxEscalations connections between two live
\* frames of its own, over any number of reconnects and of books the venue
\* replays on them (the loop of 2026-08-27/29 that MAX_ESCALATIONS_PER_SLUG and
\* _is_live_frame end).
ReconnectsBounded == \A s \in Slugs : cost[s] <= MaxEscalations

\* A connected shard asks for a silent market within its deadline and two sweep
\* intervals (one to the sweep, one that the recv() under way may add), plus one
\* for each unreadable frame, with or without traffic: _connect_and_pump sweeps
\* on a clock, so a shard whose markets have all gone dark repairs itself.
FirstAskInTime ==
  \A s \in Slugs :
    conn # "down" /\ attempts[s] = 0 /\ MaxRepairAttempts > 0 =>
      silent[s] <= DarkAfter + Sweeps(2 + unreadable)

Fed(s) == conn = "down" \/ inPlay[s] # "confirmed" \/ silent[s] <= PriorityDarkAfter

\* A market confirmed in play that stays silent brings its connection down, when
\* the shard is not cooling down and the market has repairs and reconnects left
\* (_repair_subscriptions, then _maybe_escalate).
DeadFeedDropped ==
  \A s \in Slugs :
    (~Fed(s) /\ attempts[s] < MaxRepairAttempts /\ escalations[s] < MaxEscalations /\ Cooled)
      ~> Fed(s)

\* _repair_subscriptions: "Raises DarkMarkets when repairing in place has failed
\* for a market whose game is under way".  Refuted: the repairs run out during
\* the cooldown of the last reconnect, and a market without repairs is not Dark,
\* so that no sweep asks _maybe_escalate about it again.
StuckEscalates ==
  \A s \in Slugs :
    (~Fed(s) /\ attempts[s] = MaxRepairAttempts /\ escalations[s] < MaxEscalations)
      ~> Fed(s)
=============================================================================
