------------------------------- MODULE Registry -------------------------------
(***************************************************************************)
(* The registry of event groups and the market data that follows it: groups *)
(* are added and removed by the operator (backend/app.py) and by discovery  *)
(* (discovery/service.py), first in the database and then in memory, and    *)
(* sync_ingest (backend/state.py) rebuilds the subscriptions when a group   *)
(* needs a market nobody streams.                                           *)
(*                                                                          *)
(* A task holds the event loop from one await to the next: while one is at  *)
(* a stage of Held, no other takes a step.  AppState.event_groups and the   *)
(* engine's registrations always change together, and are one variable.     *)
(***************************************************************************)
EXTENDS Naturals, FiniteSets

CONSTANTS
  Groups,      \* group ids; each stands for the markets only it needs
  Calls,       \* bound: the operator's POST and DELETE requests
  Pass,        \* the discovery task
  Gens,        \* bound: ingest workers that may run at a time, with adapters
  NoGen,
  MaxRestarts  \* bound: restarts of the process

ASSUME TaskAssumption == Pass \notin Calls
ASSUME GenAssumption == NoGen \notin Gens /\ Gens # {}
ASSUME RestartAssumption == MaxRestarts \in Nat

Tasks == Calls \cup {Pass}

VARIABLES
  mem,         \* event_groups: the source of each registered group
  db,          \* the same, in the database
  offered,     \* groups with an entry in _opps_by_group
  pc, targets, \* per task: its stage, and the groups it is writing
  found, complete,  \* what the discovery pass came back with,
  stale, changed,   \* the groups it has yet to retire, and its changed flag
  worker,      \* _ingest_worker: a generation, or NoGen
  alive,       \* generations whose pump tasks run
  listed,      \* _adapters is not empty
  subscribed,  \* the groups whose outcomes are in _subscribed
  stopping,    \* per task: the generation whose stop() it awaits
  raced,       \* history: groups two tasks have been writing at once,
  overlapped,  \* whether two rebuilds have been under way at once,
  removed,     \* and the groups a DELETE removed
  restarts

registry == <<mem, db, offered>>
task == <<pc, targets>>
pass == <<found, complete, stale, changed>>
ingest == <<worker, alive, listed, subscribed, stopping>>
history == <<raced, overlapped, removed, restarts>>
vars == <<registry, task, pass, ingest, history>>

-----------------------------------------------------------------------------
Sources == {"manual", "discovery"}
\* Mutant: discovery's groups carry the name of the service, not their source.
SourceNamedForService(t) == IF t = Pass THEN "matcher" ELSE "manual"
SourceOf(t) == IF t = Pass THEN "discovery" ELSE "manual"

Registered == {g \in Groups : mem[g] # "none"}

Rebuilding == {"stopping", "closing", "rebuilding"}
Held == {"upserted", "choosing", "syncing", "rebuilding"}
LoopFree == \A t \in Tasks : pc[t] \notin Held

Set(table, S, value) == [g \in Groups |-> IF g \in S THEN value ELSE table[g]]
Goes(t, stage) == pc' = [pc EXCEPT ![t] = stage]
Ends(t) == Goes(t, IF t = Pass THEN "idle" ELSE "done")

\* Task t begins to write the groups of S, which another may be writing, too.
BeginWrite(t, stage, S) ==
  /\ Goes(t, stage)
  /\ targets' = [targets EXCEPT ![t] = S]
  /\ raced' = raced \cup {g \in S : \E u \in Tasks \ {t} : g \in targets[u]}
  /\ UNCHANGED <<registry, ingest, overlapped, removed, restarts>>

-----------------------------------------------------------------------------
\* A generation that nothing refers to; which one makes no difference.
InUse == alive \cup {stopping[t] : t \in Tasks}
NewGen(inUse) == CHOOSE gen \in Gens : gen \notin inUse
FirstGen(groups) == IF groups = {} THEN NoGen ELSE NewGen({})

\* Bootstrap hydrates the groups of the database and starts the ingest.
Init ==
  /\ db \in [Groups -> Sources \cup {"none"}]
  /\ mem = db /\ offered = {}
  /\ pc = [t \in Tasks |-> "idle"]
  /\ targets = [t \in Tasks |-> {}]
  /\ found = {} /\ complete = FALSE /\ stale = {} /\ changed = FALSE
  /\ subscribed = Registered /\ listed = (Registered # {})
  /\ worker = FirstGen(Registered) /\ alive = {worker} \ {NoGen}
  /\ stopping = [t \in Tasks |-> NoGen]
  /\ raced = {} /\ overlapped = FALSE /\ removed = {} /\ restarts = 0

Restart ==
  /\ restarts < MaxRestarts
  /\ restarts' = restarts + 1
  /\ UNCHANGED db
  /\ mem' = db /\ offered' = {}
  /\ pc' = [t \in Tasks |-> IF t = Pass \/ pc[t] = "idle" THEN "idle" ELSE "done"]
  /\ targets' = [t \in Tasks |-> {}]
  /\ found' = {} /\ complete' = FALSE /\ stale' = {} /\ changed' = FALSE
  /\ subscribed' = Registered' /\ listed' = (Registered' # {})
  /\ worker' = FirstGen(Registered') /\ alive' = {worker'} \ {NoGen}
  /\ stopping' = [t \in Tasks |-> NoGen]
  /\ raced' = {} /\ overlapped' = FALSE /\ removed' = {}

\* A quote of a registered group re-runs the detectors, which find an edge or none.
Evaluate(g) ==
  /\ LoopFree /\ g \in Registered
  /\ \E edge \in SUBSET {g} : offered' = (offered \ {g}) \cup edge
  /\ UNCHANGED <<mem, db, task, pass, ingest, history>>

-----------------------------------------------------------------------------
\* POST /event-groups, or DELETE /event-groups/{group_id}.
Request(c, g) ==
  /\ LoopFree /\ pc[c] = "idle"
  /\ \E aim \in {"adding", "removing"} : BeginWrite(c, aim, {g})
  /\ UNCHANGED pass

\* A pass that found groups writes those that are new or changed in some way.
PassBegins ==
  /\ LoopFree /\ pc[Pass] = "idle"
  /\ found' \in SUBSET Groups
  /\ complete' \in BOOLEAN
  /\ changed' = FALSE
  /\ \E other \in SUBSET found' :
       LET pending == other \cup {g \in found' : mem[g] # "discovery"}
       IN IF pending = {}
            THEN /\ Goes(Pass, "upserted")
                 /\ UNCHANGED <<registry, targets, ingest, history>>
            ELSE BeginWrite(Pass, "adding", pending)
  /\ UNCHANGED stale

AddLands(t) ==
  /\ LoopFree /\ pc[t] = "adding"
  /\ db' = Set(db, targets[t], SourceOf(t))
  /\ Goes(t, "added")
  /\ UNCHANGED <<mem, offered, targets, pass, ingest, history>>

RemoveLands(t) ==
  /\ LoopFree /\ pc[t] = "removing"
  /\ db' = Set(db, targets[t], "none")
  /\ Goes(t, "removed")
  /\ UNCHANGED <<mem, offered, targets, pass, ingest, history>>

\* A request fails with its write; a pass goes on without it.
WriteLost(t) ==
  /\ LoopFree /\ pc[t] \in {"adding", "removing"}
  /\ Goes(t, CASE t # Pass -> "done"
               [] pc[t] = "adding" -> "upserted"
               [] OTHER -> "choosing")
  /\ targets' = [targets EXCEPT ![t] = {}]
  /\ UNCHANGED <<registry, pass, ingest, history>>

\* event_groups and the engine follow the database.
Adds(t) ==
  /\ LoopFree /\ pc[t] = "added"
  /\ mem' = Set(mem, targets[t], SourceOf(t))
  /\ removed' = removed \ targets[t]
  /\ targets' = [targets EXCEPT ![t] = {}]
  /\ changed' = (changed \/ t = Pass)
  /\ Goes(t, IF t = Pass THEN "upserted" ELSE "syncing")
  /\ UNCHANGED <<db, offered, found, complete, stale, ingest, raced, overlapped,
                 restarts>>

Deletes(c) ==
  /\ LoopFree /\ pc[c] = "removed"
  /\ mem' = Set(mem, targets[c], "none")
  /\ removed' = removed \cup targets[c]
  /\ targets' = [targets EXCEPT ![c] = {}]
  /\ Goes(c, "syncing")
  /\ UNCHANGED <<db, offered, pass, ingest, raced, overlapped, restarts>>

\* Mutant: a retired group keeps the opportunities it had.
RetiresKeepingOffers ==
  /\ LoopFree /\ pc[Pass] = "removed"
  /\ mem' = Set(mem, targets[Pass], "none")
  /\ targets' = [targets EXCEPT ![Pass] = {}]
  /\ changed' = TRUE
  /\ Goes(Pass, "choosing")
  /\ UNCHANGED <<db, offered, found, complete, stale, ingest, history>>

\* A retired group's opportunities go with it: nothing would evaluate it again.
Retires ==
  /\ LoopFree /\ pc[Pass] = "removed"
  /\ mem' = Set(mem, targets[Pass], "none")
  /\ offered' = offered \ targets[Pass]
  /\ targets' = [targets EXCEPT ![Pass] = {}]
  /\ changed' = TRUE
  /\ Goes(Pass, "choosing")
  /\ UNCHANGED <<db, found, complete, stale, ingest, history>>

\* Mutant: what the retirements changed replaces what the upserts changed.
PassForgetsUpserts ==
  /\ pc[Pass] = "upserted"
  /\ stale' = IF complete THEN {g \in Groups \ found : mem[g] = "discovery"} ELSE {}
  /\ changed' = FALSE
  /\ Goes(Pass, "choosing")
  /\ UNCHANGED <<registry, targets, found, complete, ingest, history>>

\* A complete pass retires its own groups that it did not find again.
PassLooksForStale ==
  /\ pc[Pass] = "upserted"
  /\ stale' = IF complete THEN {g \in Groups \ found : mem[g] = "discovery"} ELSE {}
  /\ Goes(Pass, "choosing")
  /\ UNCHANGED <<registry, targets, found, complete, changed, ingest, history>>

\* Mutant: memory retires the group before the database does.
RetireNextMemoryFirst(g) ==
  /\ pc[Pass] = "choosing" /\ g \in stale
  /\ stale' = stale \ {g}
  /\ mem' = Set(mem, {g}, "none")
  /\ Goes(Pass, "removing")
  /\ targets' = [targets EXCEPT ![Pass] = {g}]
  /\ raced' = raced \cup {h \in {g} : \E u \in Calls : h \in targets[u]}
  /\ UNCHANGED <<db, offered, found, complete, changed, ingest, overlapped, removed,
                 restarts>>

RetireNext(g) ==
  /\ pc[Pass] = "choosing" /\ g \in stale
  /\ stale' = stale \ {g}
  /\ BeginWrite(Pass, "removing", {g})
  /\ UNCHANGED <<found, complete, changed>>

PassEnds ==
  /\ pc[Pass] = "choosing" /\ stale = {}
  /\ Goes(Pass, IF changed THEN "syncing" ELSE "idle")
  /\ found' = {} /\ complete' = FALSE /\ changed' = FALSE
  /\ UNCHANGED <<registry, targets, stale, ingest, history>>

-----------------------------------------------------------------------------
\* Mutant: a running worker is taken to cover every group.
CoveredByAnyWorker == worker # NoGen

Covered == Registered \subseteq subscribed /\ worker # NoGen

NoSync(t) ==
  /\ pc[t] = "syncing" /\ Covered
  /\ Ends(t)
  /\ UNCHANGED <<registry, targets, pass, ingest, history>>

\* What is left of stop_ingest once no worker is to be awaited.
Teardown(t) == Goes(t, IF listed THEN "closing" ELSE "rebuilding")

\* Mutant: the worker is replaced, and its pumps go on.
RestartWithoutStopping(t) ==
  /\ pc[t] = "syncing" /\ ~Covered
  /\ overlapped' = (overlapped \/ \E u \in Tasks \ {t} : pc[u] \in Rebuilding)
  /\ Teardown(t)
  /\ UNCHANGED <<registry, targets, pass, ingest, raced, removed, restarts>>

\* restart_ingest stops the worker it sees; another task may be at it already.
RestartIngest(t) ==
  /\ pc[t] = "syncing" /\ ~Covered
  /\ overlapped' = (overlapped \/ \E u \in Tasks \ {t} : pc[u] \in Rebuilding)
  /\ stopping' = [stopping EXCEPT ![t] = worker]
  /\ IF worker = NoGen THEN Teardown(t) ELSE Goes(t, "stopping")
  /\ UNCHANGED <<registry, targets, pass, worker, alive, listed, subscribed,
                 raced, removed, restarts>>

Stopped(t) ==
  /\ LoopFree /\ pc[t] = "stopping"
  /\ alive' = alive \ {stopping[t]}
  /\ stopping' = [stopping EXCEPT ![t] = NoGen]
  /\ worker' = NoGen
  /\ Teardown(t)
  /\ UNCHANGED <<registry, targets, pass, listed, subscribed, history>>

Closed(t) ==
  /\ LoopFree /\ pc[t] = "closing"
  /\ Goes(t, "rebuilding")
  /\ UNCHANGED <<registry, targets, pass, ingest, history>>

\* The adapters listed by now go, closed or not, and all groups get new ones.
Rebuild(t) ==
  /\ pc[t] = "rebuilding"
  /\ listed' = (Registered # {})
  /\ subscribed' = Registered
  /\ IF Registered = {}
       THEN UNCHANGED <<worker, alive>>
       ELSE /\ ~(Gens \subseteq InUse)
            /\ worker' = NewGen(InUse)
            /\ alive' = alive \cup {worker'}
  /\ Ends(t)
  /\ UNCHANGED <<registry, targets, pass, stopping, history>>

-----------------------------------------------------------------------------
PassStep ==
  \/ Retires \/ PassLooksForStale \/ PassEnds
  \/ \E g \in Groups : RetireNext(g)

TaskStep(t) ==
  \/ AddLands(t) \/ RemoveLands(t) \/ WriteLost(t) \/ Adds(t)
  \/ NoSync(t) \/ RestartIngest(t) \/ Stopped(t) \/ Closed(t) \/ Rebuild(t)

Next ==
  \/ Restart
  \/ \E g \in Groups : Evaluate(g)
  \/ \E c \in Calls : Deletes(c) \/ \E g \in Groups : Request(c, g)
  \/ PassBegins \/ PassStep
  \/ \E t \in Tasks : TaskStep(t)

Spec == Init /\ [][Next]_vars

\* A task goes on: a write is done or given up, a cancelled pump ends, a socket
\* closes, and the event loop runs what is ready in order (strong fairness: the
\* stages of Held that keep a task waiting are moments).  Nothing makes the
\* operator ask, or a pass begin.
FairSpec ==
  /\ Spec
  /\ \A c \in Calls : SF_vars(TaskStep(c) \/ Deletes(c))
  /\ SF_vars(TaskStep(Pass) \/ PassStep)

-----------------------------------------------------------------------------
TypeOK ==
  /\ mem \in [Groups -> Sources \cup {"none"}]
  /\ db \in [Groups -> Sources \cup {"none"}]
  /\ offered \subseteq Groups
  /\ pc \in [Tasks -> {"idle", "adding", "removing", "added", "removed", "stopping",
                     "closing", "done"} \cup Held]
  /\ targets \in [Tasks -> SUBSET Groups]
  /\ found \subseteq Groups /\ complete \in BOOLEAN
  /\ stale \subseteq Groups /\ changed \in BOOLEAN
  /\ worker \in Gens \cup {NoGen} /\ alive \subseteq Gens
  /\ listed \in BOOLEAN /\ subscribed \subseteq Groups
  /\ stopping \in [Tasks -> Gens \cup {NoGen}]
  /\ raced \subseteq Groups /\ overlapped \in BOOLEAN
  /\ removed \subseteq Groups /\ restarts \in 0 .. MaxRestarts

\* Once nobody is writing a group, memory and database agree about it, whatever
\* writes were dropped: a restart neither resurrects nor loses a group (run_once
\* and _retire_missing go to the database first).  Two tasks writing one group
\* at a time may leave them apart.
MemoryMatchesDb ==
  \A g \in Groups \ raced :
    (\A t \in Tasks : g \notin targets[t]) => mem[g] = db[g]

\* A group that discovery retired offers nothing any more
\* (clear_group_opportunities); only delete_group may leave its offers behind.
OfferedKnown == offered \subseteq Registered \cup removed

\* When no task is at work, a worker is listed and runs that streams the markets
\* of every registered group (sync_ingest: "the live subscriptions cover the
\* current event groups").
CoveredAtRest ==
  (\A t \in Tasks : pc[t] \in {"idle", "done"}) /\ Registered # {} =>
    Covered /\ worker \in alive

\* As long as rebuilds did not overlap, no generation but the listed one runs,
\* or the one whose stop is awaited (restart_ingest, _stop_ingest).
OneFeed ==
  ~overlapped => alive \subseteq {worker} \cup {stopping[t] : t \in Tasks}

\* A group that is registered comes to be streamed, or is removed again.
RegisteredIsFed ==
  \A g \in Groups :
    (g \in Registered) ~> (g \notin Registered \/ (g \in subscribed /\ worker \in alive))
=============================================================================
