---------------------------- MODULE RegistryProofs ----------------------------
(***************************************************************************)
(* What the registry keeps for every set of groups, any number of requests  *)
(* at a time and of restarts: memory and database agree, offers belong to   *)
(* groups, and once all is quiet every registered group is streamed.        *)
(***************************************************************************)
EXTENDS Registry, TLAPS

-----------------------------------------------------------------------------
(* Generations.                                                             *)

\* A generation that is free can be picked.
LEMMA NewGenFree ==
  ASSUME NEW inUse, ~(Gens \subseteq inUse)
  PROVE  NewGen(inUse) \in Gens /\ NewGen(inUse) \notin inUse
BY DEF NewGen

\* The first worker is a generation, when there is anything to stream.
LEMMA FirstGenType ==
  ASSUME NEW groups
  PROVE  IF groups = {} THEN FirstGen(groups) = NoGen ELSE FirstGen(groups) \in Gens
BY GenAssumption DEF FirstGen, NewGen

-----------------------------------------------------------------------------
(* The inductive invariant.                                                 *)

Writing == {"adding", "added", "removing", "removed"}

\* A task names the groups it writes while it writes them.
WritersOnly == \A t \in Tasks : pc[t] \notin Writing => targets[t] = {}

\* Outside of raced, a group has one writer at a time.
OneWriter ==
  \A g \in Groups \ raced : \A t, u \in Tasks :
    g \in targets[t] /\ g \in targets[u] => t = u

\* Where the database is while a task holds the group.
WritesInOrder ==
  \A g \in Groups \ raced : \A t \in Tasks : g \in targets[t] =>
    /\ pc[t] \in {"adding", "removing"} => mem[g] = db[g]
    /\ pc[t] = "added" => db[g] = SourceOf(t)
    /\ pc[t] = "removed" => db[g] = "none"

\* A pass forgets what it changed only when it has acted on it.
ChangedIsActedOn == changed => pc[Pass] \in Writing \cup {"upserted", "choosing"}

\* A task that has yet to look at the subscriptions, or is replacing them.
WillSync ==
  \/ changed
  \/ \E t \in Tasks : pc[t] \in Rebuilding \cup {"syncing"}

ListedRuns == worker # NoGen => worker \in alive

\* What is not streamed is somebody's to see to.
GapsAreSeenTo == WillSync \/ Registered = {} \/ Covered

\* Without overlaps one task rebuilds, the worker it sees is the one it stops,
\* and nothing else runs.
OneRebuilds ==
  \A t, u \in Tasks : pc[t] \in Rebuilding /\ pc[u] \in Rebuilding => t = u
OneWorker ==
  /\ OneRebuilds
  /\ alive \subseteq {worker}
  /\ \A t \in Tasks :
       /\ pc[t] = "stopping" => stopping[t] = worker
       /\ pc[t] \in {"closing", "rebuilding"} => worker = NoGen

WriteInv == WritersOnly /\ OneWriter /\ WritesInOrder /\ MemoryMatchesDb
FeedInv == ChangedIsActedOn /\ ListedRuns /\ GapsAreSeenTo
SoleInv == ~overlapped => OneWorker

-----------------------------------------------------------------------------
(* Types.                                                                   *)

LEMMA TypeInit == Init => TypeOK
<1> SUFFICES ASSUME Init PROVE TypeOK
  OBVIOUS
<1>1. worker \in Gens \cup {NoGen} /\ alive \subseteq Gens
  BY FirstGenType DEF Init
<1>2. subscribed \subseteq Groups
  BY DEF Init, Registered
<1>3. listed \in BOOLEAN
  BY Zenon DEF Init
<1>4. complete \in BOOLEAN /\ changed \in BOOLEAN /\ overlapped \in BOOLEAN
  BY DEF Init
<1>5. /\ mem \in [Groups -> Sources \cup {"none"}]
      /\ db \in [Groups -> Sources \cup {"none"}]
      /\ pc \in [Tasks -> {"idle"}]
      /\ targets \in [Tasks -> SUBSET Groups]
      /\ stopping \in [Tasks -> Gens \cup {NoGen}]
  BY DEF Init
<1>6. pc \in [Tasks -> {"idle", "adding", "removing", "added", "removed",
                       "stopping", "closing", "done"} \cup Held]
  BY <1>5
<1>7. /\ offered \subseteq Groups /\ found \subseteq Groups /\ stale \subseteq Groups
      /\ raced \subseteq Groups /\ removed \subseteq Groups
      /\ restarts \in 0 .. MaxRestarts
  BY RestartAssumption DEF Init
<1> QED
  BY <1>1, <1>2, <1>3, <1>4, <1>5, <1>6, <1>7 DEF TypeOK

LEMMA TypeNext == TypeOK /\ [Next]_vars => TypeOK'
<1> SUFFICES ASSUME TypeOK, [Next]_vars PROVE TypeOK'
  OBVIOUS
<1> USE TaskAssumption, GenAssumption, RestartAssumption
    DEF TypeOK, Tasks, Sources, SourceOf, Held, registry, task, pass, ingest,
        history, Goes
<1>1. CASE Restart
  <2>1. worker' \in Gens \cup {NoGen} /\ alive' \subseteq Gens
    BY <1>1, FirstGenType DEF Restart
  <2>2. subscribed' \subseteq Groups
    BY <1>1 DEF Restart, Registered
  <2>3. listed' \in BOOLEAN
    BY <1>1, Zenon DEF Restart
  <2>4. complete' \in BOOLEAN /\ changed' \in BOOLEAN /\ overlapped' \in BOOLEAN
    BY <1>1 DEF Restart
  <2>5. /\ mem' \in [Groups -> Sources \cup {"none"}]
        /\ db' \in [Groups -> Sources \cup {"none"}]
        /\ targets' \in [Tasks -> SUBSET Groups]
        /\ stopping' \in [Tasks -> Gens \cup {NoGen}]
    BY <1>1 DEF Restart
  <2>6. pc' \in [Tasks -> {"idle", "done"}]
    BY <1>1 DEF Restart
  <2>7. pc' \in [Tasks -> {"idle", "adding", "removing", "added", "removed",
                          "stopping", "closing", "done"} \cup Held]
    BY <2>6
  <2>8. /\ offered' \subseteq Groups /\ found' \subseteq Groups
        /\ stale' \subseteq Groups /\ raced' \subseteq Groups
        /\ removed' \subseteq Groups /\ restarts' \in 0 .. MaxRestarts
    BY <1>1 DEF Restart
  <2> QED BY <2>1, <2>2, <2>3, <2>4, <2>5, <2>7, <2>8
<1>2. ASSUME NEW g \in Groups, Evaluate(g) PROVE TypeOK'
  <2>1. offered' \subseteq Groups
    BY <1>2 DEF Evaluate
  <2> QED BY <1>2, <2>1 DEF Evaluate
<1>3. ASSUME NEW c \in Calls, Deletes(c) PROVE TypeOK'
  BY <1>3 DEF Deletes, Set
<1>4. ASSUME NEW c \in Calls, NEW g \in Groups, Request(c, g) PROVE TypeOK'
  BY <1>4 DEF Request, BeginWrite
<1>5. CASE PassBegins
  <2>1. PICK other \in SUBSET found' :
          LET pending == other \cup {g \in found' : mem[g] # "discovery"}
          IN IF pending = {}
               THEN /\ Goes(Pass, "upserted")
                    /\ UNCHANGED <<registry, targets, ingest, history>>
               ELSE BeginWrite(Pass, "adding", pending)
    BY <1>5 DEF PassBegins
  <2> DEFINE pending == other \cup {g \in found' : mem[g] # "discovery"}
  <2>2. CASE pending = {}
    <3>1. /\ pc' = [pc EXCEPT ![Pass] = "upserted"]
          /\ UNCHANGED <<registry, targets, ingest, history, stale>>
      BY <1>5, <2>1, <2>2 DEF PassBegins
    <3>2. found' \subseteq Groups /\ complete' \in BOOLEAN /\ changed' \in BOOLEAN
      BY <1>5 DEF PassBegins
    <3> QED BY <3>1, <3>2
  <2>3. CASE pending # {}
    <3>1. /\ found' \subseteq Groups /\ complete' \in BOOLEAN /\ changed' \in BOOLEAN
          /\ pending \subseteq Groups /\ stale' = stale
      BY <1>5, <2>1 DEF PassBegins
    <3>2. BeginWrite(Pass, "adding", pending)
      BY <2>1, <2>3
    <3> HIDE DEF pending
    <3> QED BY <3>1, <3>2 DEF BeginWrite
  <2> QED BY <2>2, <2>3
<1>6. CASE Retires
  BY <1>6 DEF Retires, Set
<1>7. CASE PassLooksForStale
  BY <1>7 DEF PassLooksForStale
<1>8. CASE PassEnds
  BY <1>8 DEF PassEnds
<1>9. ASSUME NEW g \in Groups, RetireNext(g) PROVE TypeOK'
  BY <1>9 DEF RetireNext, BeginWrite
<1>10. ASSUME NEW t \in Tasks, TaskStep(t) PROVE TypeOK'
  <2>1. CASE AddLands(t)
    BY <2>1 DEF AddLands, Set
  <2>2. CASE RemoveLands(t)
    BY <2>2 DEF RemoveLands, Set
  <2>3. CASE WriteLost(t)
    BY <2>3 DEF WriteLost
  <2>4. CASE Adds(t)
    BY <2>4 DEF Adds, Set
  <2>5. CASE NoSync(t)
    BY <2>5 DEF NoSync, Ends
  <2>6. CASE RestartIngest(t)
    BY <2>6 DEF RestartIngest, Teardown
  <2>7. CASE Stopped(t)
    BY <2>7 DEF Stopped, Teardown
  <2>8. CASE Closed(t)
    BY <2>8 DEF Closed
  <2>9. CASE Rebuild(t)
    BY <2>9, NewGenFree DEF Rebuild, Ends, Registered
  <2> QED BY <1>10, <2>1, <2>2, <2>3, <2>4, <2>5, <2>6, <2>7, <2>8, <2>9 DEF TaskStep
<1>11. CASE UNCHANGED vars
  BY <1>11 DEF vars
<1> QED
  BY <1>1, <1>2, <1>3, <1>4, <1>5, <1>6, <1>7, <1>8, <1>9, <1>10, <1>11
     DEF Next, PassStep

\* Every variable keeps its type, whatever tasks do to the registry and the
\* ingest at a time (state.py, app.py, discovery/service.py).
THEOREM RegistryTypes == Spec => []TypeOK
BY TypeInit, TypeNext, PTL DEF Spec

-----------------------------------------------------------------------------
(* Memory and database.                                                     *)

\* A pass begins with groups to write, or with nothing to write.
LEMMA PassBeginsAs ==
  ASSUME TypeOK, PassBegins
  PROVE  /\ pc[Pass] = "idle" /\ changed' = FALSE
         /\ \/ /\ Goes(Pass, "upserted")
               /\ UNCHANGED <<registry, targets, ingest, history>>
            \/ \E S \in SUBSET Groups : BeginWrite(Pass, "adding", S)
<1>1. PICK other \in SUBSET found' :
        LET pending == other \cup {g \in found' : mem[g] # "discovery"}
        IN IF pending = {}
             THEN /\ Goes(Pass, "upserted")
                  /\ UNCHANGED <<registry, targets, ingest, history>>
             ELSE BeginWrite(Pass, "adding", pending)
  BY DEF PassBegins
<1> DEFINE pending == other \cup {g \in found' : mem[g] # "discovery"}
<1>2. pending \in SUBSET Groups
  BY DEF PassBegins
<1> QED
  BY <1>1, <1>2 DEF PassBegins

\* A task that begins to write keeps the order of the writes.
LEMMA BeginWriteOrder ==
  ASSUME TypeOK, WriteInv, NEW t \in Tasks, NEW S \in SUBSET Groups,
         NEW stage \in {"adding", "removing"}, pc[t] \notin Writing,
         BeginWrite(t, stage, S)
  PROVE  WriteInv'
<1>1. /\ pc' = [pc EXCEPT ![t] = stage] /\ targets' = [targets EXCEPT ![t] = S]
      /\ raced' = raced \cup {g \in S : \E u \in Tasks \ {t} : g \in targets[u]}
      /\ mem' = mem /\ db' = db
  BY DEF BeginWrite, Goes, registry
<1>2. targets[t] = {} /\ targets'[t] = S
  BY <1>1 DEF TypeOK, WriteInv, WritersOnly
<1>3. \A u \in Tasks \ {t} : targets'[u] = targets[u] /\ pc'[u] = pc[u]
  BY <1>1 DEF TypeOK
<1>4. \A g \in Groups \ raced' : g \in S => \A u \in Tasks : g \notin targets[u]
  BY <1>1, <1>2
<1>5. WritersOnly'
  BY <1>1, <1>3 DEF TypeOK, WriteInv, WritersOnly, Writing
<1>6. OneWriter'
  BY <1>1, <1>2, <1>3, <1>4 DEF WriteInv, OneWriter
<1>7. WritesInOrder'
  <2> SUFFICES ASSUME NEW g \in Groups \ raced', NEW u \in Tasks, g \in targets'[u]
               PROVE  /\ pc'[u] \in {"adding", "removing"} => mem[g] = db[g]
                      /\ pc'[u] = "added" => db[g] = SourceOf(u)
                      /\ pc'[u] = "removed" => db[g] = "none"
    BY <1>1 DEF WritesInOrder
  <2>1. g \in Groups \ raced
    BY <1>1
  <2>2. CASE u = t
    BY <1>1, <1>2, <1>4, <2>1, <2>2 DEF TypeOK, WriteInv, MemoryMatchesDb
  <2>3. CASE u # t
    BY <1>3, <2>1, <2>3 DEF WriteInv, WritesInOrder
  <2> QED BY <2>2, <2>3
<1>8. MemoryMatchesDb'
  BY <1>1, <1>2, <1>3, <1>4 DEF WriteInv, MemoryMatchesDb
<1> QED
  BY <1>5, <1>6, <1>7, <1>8 DEF WriteInv

\* A task that writes nothing before and after its step disturbs no write.
LEMMA OthersOrder ==
  ASSUME WriteInv, UNCHANGED <<mem, db, targets, raced>>,
         \A t \in Tasks :
           \/ pc'[t] = pc[t]
           \/ pc[t] \notin Writing /\ pc'[t] \notin Writing
  PROVE  WriteInv'
<1>1. WritersOnly'
  BY DEF WriteInv, WritersOnly
<1>2. OneWriter'
  BY DEF WriteInv, OneWriter
<1>3. WritesInOrder'
  BY DEF WriteInv, WritesInOrder, WritersOnly
<1>4. MemoryMatchesDb'
  BY DEF WriteInv, MemoryMatchesDb
<1> QED
  BY <1>1, <1>2, <1>3, <1>4 DEF WriteInv

\* Task t ends its write with memory and database agreeing about its groups.
LEMMA EndWriteOrder ==
  ASSUME TypeOK, WriteInv, NEW t \in Tasks, NEW value,
         pc'[t] \notin Writing, \A u \in Tasks \ {t} : pc'[u] = pc[u],
         targets' = [targets EXCEPT ![t] = {}], db' = db, raced' = raced,
         \/ mem' = mem /\ \A g \in targets[t] \ raced : mem[g] = db[g]
         \/ /\ mem' = Set(mem, targets[t], value)
            /\ \A g \in targets[t] \ raced : db[g] = value
  PROVE  WriteInv'
<1>1. targets'[t] = {} /\ \A u \in Tasks \ {t} : targets'[u] = targets[u]
  BY DEF TypeOK
<1>2. \A g \in Groups \ raced : g \notin targets[t] => mem'[g] = mem[g]
  BY DEF Set, TypeOK
<1>3. \A g \in Groups \ raced : g \in targets[t] => mem'[g] = db[g]
  BY DEF Set, TypeOK
<1>4. WritersOnly'
  BY <1>1 DEF WriteInv, WritersOnly
<1>5. OneWriter'
  BY <1>1 DEF WriteInv, OneWriter
<1>6. WritesInOrder'
  <2> SUFFICES ASSUME NEW g \in Groups \ raced, NEW u \in Tasks, g \in targets'[u]
               PROVE  /\ pc'[u] \in {"adding", "removing"} => mem'[g] = db[g]
                      /\ pc'[u] = "added" => db[g] = SourceOf(u)
                      /\ pc'[u] = "removed" => db[g] = "none"
    BY DEF WritesInOrder
  <2>1. u # t /\ g \in targets[u]
    BY <1>1
  <2>2. g \notin targets[t]
    BY <2>1 DEF WriteInv, OneWriter
  <2> QED BY <1>2, <2>1, <2>2 DEF WriteInv, WritesInOrder
<1>7. MemoryMatchesDb'
  BY <1>1, <1>2, <1>3 DEF WriteInv, MemoryMatchesDb
<1> QED
  BY <1>4, <1>5, <1>6, <1>7 DEF WriteInv

\* The database takes t's groups: it is t's write alone.
LEMMA LandOrder ==
  ASSUME TypeOK, WriteInv, NEW t \in Tasks, NEW value, NEW stage,
         pc[t] \in Writing, pc' = [pc EXCEPT ![t] = stage],
         \/ stage = "added" /\ value = SourceOf(t)
         \/ stage = "removed" /\ value = "none",
         db' = Set(db, targets[t], value), UNCHANGED <<mem, targets, raced>>
  PROVE  WriteInv'
<1>1. \A g \in Groups : db'[g] = IF g \in targets[t] THEN value ELSE db[g]
  BY DEF Set
<1>2. pc'[t] = stage /\ \A u \in Tasks \ {t} : pc'[u] = pc[u]
  BY DEF TypeOK
<1>3. WritersOnly'
  BY <1>2 DEF WriteInv, WritersOnly, Writing
<1>4. OneWriter'
  BY DEF WriteInv, OneWriter
<1>5. WritesInOrder'
  <2> SUFFICES ASSUME NEW g \in Groups \ raced, NEW u \in Tasks, g \in targets[u]
               PROVE  /\ pc'[u] \in {"adding", "removing"} => mem[g] = db'[g]
                      /\ pc'[u] = "added" => db'[g] = SourceOf(u)
                      /\ pc'[u] = "removed" => db'[g] = "none"
    BY DEF WritesInOrder
  <2>1. CASE u = t
    BY <1>1, <1>2, <2>1
  <2>2. CASE u # t
    <3>1. g \notin targets[t]
      BY <2>2 DEF WriteInv, OneWriter
    <3> QED BY <1>1, <1>2, <2>2, <3>1 DEF WriteInv, WritesInOrder
  <2> QED BY <2>1, <2>2
<1>6. MemoryMatchesDb'
  BY <1>1 DEF WriteInv, MemoryMatchesDb
<1> QED
  BY <1>3, <1>4, <1>5, <1>6 DEF WriteInv

LEMMA WriteInit == Init => WriteInv
BY DEF Init, WriteInv, WritersOnly, OneWriter, WritesInOrder, MemoryMatchesDb, Writing

LEMMA WriteNext == TypeOK /\ WriteInv /\ [Next]_vars => WriteInv'
<1> SUFFICES ASSUME TypeOK, WriteInv, [Next]_vars PROVE WriteInv'
  OBVIOUS
<1> USE TaskAssumption DEF Tasks, registry, task, pass, ingest, history, Goes
<1>1. CASE Restart
  BY <1>1 DEF Restart, WriteInv, WritersOnly, OneWriter, WritesInOrder, MemoryMatchesDb
<1>2. ASSUME NEW g \in Groups, Evaluate(g) PROVE WriteInv'
  BY <1>2, OthersOrder DEF Evaluate
<1>3. ASSUME NEW c \in Calls, Deletes(c) PROVE WriteInv'
  <2>1. pc'[c] = "syncing" /\ \A u \in Tasks \ {c} : pc'[u] = pc[u]
    BY <1>3 DEF Deletes, TypeOK
  <2>2. \A g \in targets[c] \ raced : db[g] = "none"
    BY <1>3 DEF Deletes, WriteInv, WritesInOrder, TypeOK
  <2> QED BY <1>3, <2>1, <2>2, EndWriteOrder DEF Deletes, Writing
<1>4. ASSUME NEW c \in Calls, NEW g \in Groups, Request(c, g) PROVE WriteInv'
  BY <1>4, BeginWriteOrder DEF Request, Writing
<1>5. CASE PassBegins
  <2>1. CASE Goes(Pass, "upserted") /\ UNCHANGED <<registry, targets, ingest, history>>
    <3>1. \A u \in Tasks \ {Pass} : pc'[u] = pc[u]
      BY <2>1 DEF TypeOK
    <3>2. pc[Pass] \notin Writing /\ pc'[Pass] \notin Writing
      BY <1>5, <2>1, PassBeginsAs DEF Writing, TypeOK
    <3> QED BY <2>1, <3>1, <3>2, OthersOrder
  <2>2. ASSUME NEW S \in SUBSET Groups, BeginWrite(Pass, "adding", S) PROVE WriteInv'
    BY <1>5, <2>2, BeginWriteOrder DEF PassBegins, Writing
  <2> QED BY <1>5, <2>1, <2>2, PassBeginsAs
<1>6. CASE Retires
  <2>1. pc'[Pass] = "choosing" /\ \A u \in Tasks \ {Pass} : pc'[u] = pc[u]
    BY <1>6 DEF Retires, TypeOK
  <2>2. \A g \in targets[Pass] \ raced : db[g] = "none"
    BY <1>6 DEF Retires, WriteInv, WritesInOrder, TypeOK
  <2> QED BY <1>6, <2>1, <2>2, EndWriteOrder DEF Retires, Writing
<1>7. CASE PassLooksForStale
  BY <1>7, OthersOrder DEF PassLooksForStale, TypeOK, Writing
<1>8. CASE PassEnds
  BY <1>8, OthersOrder DEF PassEnds, TypeOK, Writing
<1>9. ASSUME NEW g \in Groups, RetireNext(g) PROVE WriteInv'
  BY <1>9, BeginWriteOrder DEF RetireNext, Writing
<1>10. ASSUME NEW t \in Tasks, TaskStep(t) PROVE WriteInv'
  <2>1. CASE AddLands(t)
    BY <2>1, LandOrder DEF AddLands, Writing
  <2>2. CASE RemoveLands(t)
    BY <2>2, LandOrder DEF RemoveLands, Writing
  <2>3. CASE WriteLost(t)
    <3>1. pc'[t] \in {"done", "upserted", "choosing"}
          /\ \A u \in Tasks \ {t} : pc'[u] = pc[u]
      BY <2>3 DEF WriteLost, TypeOK
    <3>2. \A g \in targets[t] \ raced : mem[g] = db[g]
      BY <2>3 DEF WriteLost, WriteInv, WritesInOrder, TypeOK
    <3> QED BY <2>3, <3>1, <3>2, EndWriteOrder DEF WriteLost, Writing
  <2>4. CASE Adds(t)
    <3>1. pc'[t] \in {"upserted", "syncing"} /\ \A u \in Tasks \ {t} : pc'[u] = pc[u]
      BY <2>4 DEF Adds, TypeOK
    <3>2. \A g \in targets[t] \ raced : db[g] = SourceOf(t)
      BY <2>4 DEF Adds, WriteInv, WritesInOrder, TypeOK
    <3> QED BY <2>4, <3>1, <3>2, EndWriteOrder DEF Adds, Writing
  <2>5. CASE NoSync(t)
    BY <2>5, OthersOrder DEF NoSync, Ends, TypeOK, Writing
  <2>6. CASE RestartIngest(t)
    BY <2>6, OthersOrder DEF RestartIngest, Teardown, TypeOK, Writing
  <2>7. CASE Stopped(t)
    BY <2>7, OthersOrder DEF Stopped, Teardown, TypeOK, Writing
  <2>8. CASE Closed(t)
    BY <2>8, OthersOrder DEF Closed, TypeOK, Writing
  <2>9. CASE Rebuild(t)
    BY <2>9, OthersOrder DEF Rebuild, Ends, TypeOK, Writing
  <2> QED BY <1>10, <2>1, <2>2, <2>3, <2>4, <2>5, <2>6, <2>7, <2>8, <2>9 DEF TaskStep
<1>11. CASE UNCHANGED vars
  BY <1>11, OthersOrder DEF vars
<1> QED
  BY <1>1, <1>2, <1>3, <1>4, <1>5, <1>6, <1>7, <1>8, <1>9, <1>10, <1>11
     DEF Next, PassStep

\* Memory and database agree about every group that nobody is writing, unless
\* two tasks wrote it at a time: run_once and _retire_missing touch memory only
\* once the write has landed, the HTTP handlers likewise.
THEOREM MemoryAndDb == Spec => []MemoryMatchesDb
<1>1. WriteInv => MemoryMatchesDb
  BY DEF WriteInv
<1> QED
  BY <1>1, RegistryTypes, WriteInit, WriteNext, PTL DEF Spec

-----------------------------------------------------------------------------
(* Offers.                                                                  *)

LEMMA OffersNext == TypeOK /\ OfferedKnown /\ [Next]_vars => OfferedKnown'
<1> SUFFICES ASSUME TypeOK, OfferedKnown, [Next]_vars PROVE OfferedKnown'
  OBVIOUS
<1> USE DEF OfferedKnown, Registered, registry, task, pass, ingest, history
<1>1. CASE Restart
  BY <1>1 DEF Restart
<1>2. ASSUME NEW g \in Groups, Evaluate(g) PROVE OfferedKnown'
  <2>1. offered' \subseteq offered \cup {g} /\ g \in Registered
    BY <1>2 DEF Evaluate
  <2> QED BY <1>2, <2>1 DEF Evaluate
<1>3. ASSUME NEW c \in Calls, Deletes(c) PROVE OfferedKnown'
  BY <1>3 DEF Deletes, Set, TypeOK
<1>4. ASSUME NEW c \in Calls, NEW g \in Groups, Request(c, g) PROVE OfferedKnown'
  BY <1>4 DEF Request, BeginWrite
<1>5. CASE PassBegins
  BY <1>5, PassBeginsAs DEF BeginWrite
<1>6. CASE Retires
  BY <1>6 DEF Retires, Set, TypeOK
<1>7. CASE PassLooksForStale
  BY <1>7 DEF PassLooksForStale
<1>8. CASE PassEnds
  BY <1>8 DEF PassEnds
<1>9. ASSUME NEW g \in Groups, RetireNext(g) PROVE OfferedKnown'
  BY <1>9 DEF RetireNext, BeginWrite
<1>10. ASSUME NEW t \in Tasks, TaskStep(t) PROVE OfferedKnown'
  <2>1. CASE Adds(t)
    <3>1. \A g \in Groups : mem'[g] = IF g \in targets[t] THEN SourceOf(t) ELSE mem[g]
      BY <2>1 DEF Adds, Set
    <3>2. SourceOf(t) # "none"
      BY DEF SourceOf
    <3>3. targets[t] \subseteq Registered'
      BY <3>1, <3>2 DEF TypeOK
    <3>4. Registered \subseteq Registered'
      BY <3>1, <3>2
    <3> QED BY <2>1, <3>3, <3>4 DEF Adds
  <2>2. CASE UNCHANGED <<mem, offered, removed>>
    BY <2>2
  <2> QED
    BY <1>10, <2>1, <2>2
       DEF TaskStep, AddLands, RemoveLands, WriteLost, NoSync, RestartIngest, Stopped,
           Closed, Rebuild
<1>11. CASE UNCHANGED vars
  BY <1>11 DEF vars
<1> QED
  BY <1>1, <1>2, <1>3, <1>4, <1>5, <1>6, <1>7, <1>8, <1>9, <1>10, <1>11
     DEF Next, PassStep

\* No opportunity outlives the group that discovery retired: _retire_missing
\* clears what the engine will not look at again.
THEOREM OffersBelong == Spec => []OfferedKnown
<1>1. Init => OfferedKnown
  BY DEF Init, OfferedKnown
<1> QED
  BY <1>1, RegistryTypes, OffersNext, PTL DEF Spec

-----------------------------------------------------------------------------
(* Subscriptions.                                                           *)

LEMMA FeedInit == Init => FeedInv /\ SoleInv
<1> SUFFICES ASSUME Init PROVE FeedInv /\ SoleInv
  OBVIOUS
<1>1. \A t \in Tasks : pc[t] = "idle"
  BY DEF Init
<1>2. ListedRuns
  BY DEF Init, ListedRuns
<1>3. GapsAreSeenTo
  <2>1. Registered # {} => worker # NoGen
    BY FirstGenType, GenAssumption DEF Init
  <2> QED BY <2>1 DEF Init, GapsAreSeenTo, Covered
<1>4. ChangedIsActedOn
  BY DEF Init, ChangedIsActedOn, Writing
<1>5. alive \subseteq {worker}
  BY DEF Init
<1>6. OneWorker
  BY <1>1, <1>5 DEF OneWorker, OneRebuilds, Rebuilding
<1> QED
  BY <1>2, <1>3, <1>4, <1>6 DEF FeedInv, SoleInv

\* A step that leaves the ingest alone and, before and after it, no task near it.
LEMMA FeedKept ==
  ASSUME FeedInv, SoleInv, UNCHANGED <<ingest, overlapped>>,
         \A t \in Tasks :
           \/ pc'[t] = pc[t]
           \/ pc[t] \notin Rebuilding \cup {"syncing"} /\ pc'[t] \notin Rebuilding,
         ChangedIsActedOn',
         WillSync => WillSync',
         Registered' \subseteq Registered \/ WillSync'
  PROVE  FeedInv' /\ SoleInv'
<1>1. ListedRuns'
  BY DEF FeedInv, ListedRuns, ingest
<1>2. GapsAreSeenTo'
  BY DEF FeedInv, GapsAreSeenTo, Covered, ingest
<1>3. OneWorker => OneWorker'
  BY DEF OneWorker, OneRebuilds, Rebuilding, ingest
<1> QED
  BY <1>1, <1>2, <1>3 DEF FeedInv, SoleInv

LEMMA FeedNext == TypeOK /\ FeedInv /\ SoleInv /\ [Next]_vars => FeedInv' /\ SoleInv'
<1> SUFFICES ASSUME TypeOK, FeedInv, SoleInv, [Next]_vars PROVE FeedInv' /\ SoleInv'
  OBVIOUS
<1> USE TaskAssumption DEF Tasks, registry, task, pass, ingest, history, Goes, Writing
<1>1. CASE Restart
  <2>1. \A t \in Tasks : pc'[t] \in {"idle", "done"}
    BY <1>1 DEF Restart
  <2>2. ListedRuns'
    BY <1>1 DEF Restart, ListedRuns
  <2>3. Registered' # {} => worker' # NoGen
    BY <1>1, FirstGenType, GenAssumption DEF Restart
  <2>4. GapsAreSeenTo'
    BY <1>1, <2>3 DEF Restart, GapsAreSeenTo, Covered
  <2>5. ChangedIsActedOn'
    BY <1>1 DEF Restart, ChangedIsActedOn
  <2>6. OneWorker'
    BY <1>1, <2>1 DEF Restart, OneWorker, OneRebuilds, Rebuilding
  <2> QED BY <2>2, <2>4, <2>5, <2>6 DEF FeedInv, SoleInv
<1>2. ASSUME NEW g \in Groups, Evaluate(g) PROVE FeedInv' /\ SoleInv'
  <2>1. UNCHANGED <<mem, task, pass, ingest, history>>
    BY <1>2 DEF Evaluate
  <2>2. ChangedIsActedOn' /\ (WillSync => WillSync') /\ Registered' = Registered
    BY <2>1 DEF FeedInv, ChangedIsActedOn, WillSync, Registered
  <2> QED BY <2>1, <2>2, FeedKept
<1>3. ASSUME NEW c \in Calls, Deletes(c) PROVE FeedInv' /\ SoleInv'
  <2>1. /\ pc[c] = "removed" /\ pc'[c] = "syncing"
        /\ \A u \in Tasks \ {c} : pc'[u] = pc[u]
    BY <1>3 DEF Deletes, TypeOK
  <2>2. WillSync'
    BY <2>1 DEF WillSync
  <2>3. ChangedIsActedOn'
    BY <1>3, <2>1 DEF Deletes, FeedInv, ChangedIsActedOn
  <2> QED BY <1>3, <2>1, <2>2, <2>3, FeedKept DEF Deletes, Rebuilding
<1>4. ASSUME NEW t \in Tasks, NEW S \in SUBSET Groups, NEW stage \in {"adding", "removing"},
             pc[t] \notin Rebuilding \cup {"syncing"}, BeginWrite(t, stage, S),
             changed' => changed, changed => changed'
      PROVE  FeedInv' /\ SoleInv'
  <2>1. pc'[t] = stage /\ \A u \in Tasks \ {t} : pc'[u] = pc[u]
    BY <1>4 DEF BeginWrite, TypeOK
  <2>2. WillSync => WillSync'
    BY <1>4, <2>1 DEF WillSync, Rebuilding
  <2>3. ChangedIsActedOn'
    BY <1>4, <2>1 DEF FeedInv, ChangedIsActedOn
  <2>4. Registered' = Registered
    BY <1>4 DEF BeginWrite, Registered
  <2> QED BY <1>4, <2>1, <2>2, <2>3, <2>4, FeedKept DEF BeginWrite, Rebuilding
<1>5. ASSUME NEW c \in Calls, NEW g \in Groups, Request(c, g) PROVE FeedInv' /\ SoleInv'
  BY <1>4, <1>5 DEF Request, Rebuilding
<1>6. CASE PassBegins
  <2>1. ~changed /\ ~changed' /\ pc[Pass] = "idle"
    BY <1>6, PassBeginsAs DEF FeedInv, ChangedIsActedOn
  <2>2. CASE Goes(Pass, "upserted") /\ UNCHANGED <<registry, targets, ingest, history>>
    <3>1. pc'[Pass] = "upserted" /\ \A u \in Tasks \ {Pass} : pc'[u] = pc[u]
      BY <2>2 DEF TypeOK
    <3>2. WillSync => WillSync'
      BY <2>1, <3>1 DEF WillSync, Rebuilding
    <3>3. ChangedIsActedOn' /\ Registered' = Registered
      BY <2>1, <2>2 DEF ChangedIsActedOn, Registered
    <3> QED BY <2>1, <2>2, <3>1, <3>2, <3>3, FeedKept DEF Rebuilding
  <2>3. ASSUME NEW S \in SUBSET Groups, BeginWrite(Pass, "adding", S)
        PROVE  FeedInv' /\ SoleInv'
    BY <1>4, <2>1, <2>3 DEF Rebuilding
  <2> QED BY <1>6, <2>2, <2>3, PassBeginsAs
<1>7. CASE Retires
  <2>1. /\ pc[Pass] = "removed" /\ pc'[Pass] = "choosing" /\ changed'
        /\ \A u \in Tasks \ {Pass} : pc'[u] = pc[u]
    BY <1>7 DEF Retires, TypeOK
  <2>2. WillSync' /\ ChangedIsActedOn'
    BY <2>1 DEF WillSync, ChangedIsActedOn
  <2> QED BY <1>7, <2>1, <2>2, FeedKept DEF Retires, Rebuilding
<1>8. CASE PassLooksForStale
  <2>1. /\ pc[Pass] = "upserted" /\ pc'[Pass] = "choosing"
        /\ \A u \in Tasks \ {Pass} : pc'[u] = pc[u]
    BY <1>8 DEF PassLooksForStale, TypeOK
  <2>2. WillSync => WillSync'
    BY <1>8, <2>1 DEF PassLooksForStale, WillSync, Rebuilding
  <2>3. ChangedIsActedOn' /\ Registered' = Registered
    BY <1>8, <2>1 DEF PassLooksForStale, ChangedIsActedOn, Registered
  <2> QED BY <1>8, <2>1, <2>2, <2>3, FeedKept DEF PassLooksForStale, Rebuilding
<1>9. CASE PassEnds
  <2>1. /\ pc[Pass] = "choosing" /\ ~changed'
        /\ pc'[Pass] = IF changed THEN "syncing" ELSE "idle"
        /\ \A u \in Tasks \ {Pass} : pc'[u] = pc[u]
    BY <1>9 DEF PassEnds, TypeOK
  <2>2. WillSync => WillSync'
    BY <2>1 DEF WillSync, Rebuilding
  <2>3. ChangedIsActedOn' /\ Registered' = Registered
    BY <1>9, <2>1 DEF PassEnds, ChangedIsActedOn, Registered
  <2> QED BY <1>9, <2>1, <2>2, <2>3, FeedKept DEF PassEnds, Rebuilding
<1>10. ASSUME NEW g \in Groups, RetireNext(g) PROVE FeedInv' /\ SoleInv'
  BY <1>4, <1>10 DEF RetireNext, Rebuilding
<1>11. ASSUME NEW t \in Tasks, TaskStep(t) PROVE FeedInv' /\ SoleInv'
  <2>1. CASE AddLands(t) \/ RemoveLands(t) \/ WriteLost(t)
    <3>1. /\ pc[t] \in {"adding", "removing"}
          /\ pc'[t] \in {"added", "removed", "done", "upserted", "choosing"}
          /\ t = Pass => pc'[t] # "done"
          /\ \A u \in Tasks \ {t} : pc'[u] = pc[u]
          /\ UNCHANGED <<mem, pass, ingest, history>>
      BY <2>1 DEF AddLands, RemoveLands, WriteLost, TypeOK
    <3>2. WillSync => WillSync'
      BY <3>1 DEF WillSync, Rebuilding
    <3>3. ChangedIsActedOn' /\ Registered' = Registered
      BY <3>1 DEF FeedInv, ChangedIsActedOn, Registered
    <3> QED BY <3>1, <3>2, <3>3, FeedKept DEF Rebuilding
  <2>2. CASE Adds(t)
    <3>1. /\ pc[t] = "added" /\ (changed' <=> changed \/ t = Pass)
          /\ pc'[t] = IF t = Pass THEN "upserted" ELSE "syncing"
          /\ \A u \in Tasks \ {t} : pc'[u] = pc[u]
      BY <2>2 DEF Adds, TypeOK
    <3>2. WillSync'
      BY <3>1 DEF WillSync
    <3>3. ChangedIsActedOn'
      BY <3>1 DEF FeedInv, ChangedIsActedOn
    <3> QED BY <2>2, <3>1, <3>2, <3>3, FeedKept DEF Adds, Rebuilding
  <2>3. CASE NoSync(t)
    <3>1. /\ pc[t] = "syncing" /\ pc'[t] \in {"idle", "done"}
          /\ \A u \in Tasks \ {t} : pc'[u] = pc[u]
      BY <2>3 DEF NoSync, Ends, TypeOK
    <3>2. ChangedIsActedOn'
      BY <2>3, <3>1 DEF NoSync, FeedInv, ChangedIsActedOn
    <3>3. ListedRuns' /\ GapsAreSeenTo'
      BY <2>3 DEF NoSync, FeedInv, ListedRuns, GapsAreSeenTo, Covered, Registered
    <3>4. OneWorker => OneWorker'
      BY <2>3, <3>1 DEF NoSync, OneWorker, OneRebuilds, Rebuilding
    <3> QED BY <2>3, <3>2, <3>3, <3>4 DEF NoSync, FeedInv, SoleInv
  <2>4. CASE RestartIngest(t)
    <3>1. /\ pc[t] = "syncing" /\ pc'[t] \in Rebuilding
          /\ \A u \in Tasks \ {t} : pc'[u] = pc[u]
          /\ pc'[t] = "stopping" => stopping'[t] = worker
          /\ pc'[t] # "stopping" => worker = NoGen
      BY <2>4 DEF RestartIngest, Teardown, TypeOK, Rebuilding
    <3>2. ChangedIsActedOn'
      BY <2>4, <3>1 DEF RestartIngest, FeedInv, ChangedIsActedOn
    <3>3. ListedRuns' /\ GapsAreSeenTo'
      BY <2>4, <3>1
         DEF RestartIngest, FeedInv, ListedRuns, GapsAreSeenTo, WillSync
    <3>4. ASSUME ~overlapped' PROVE OneWorker'
      <4>1. OneWorker /\ \A u \in Tasks \ {t} : pc[u] \notin Rebuilding
        BY <2>4, <3>4 DEF RestartIngest, SoleInv
      <4> QED
        BY <2>4, <3>1, <4>1 DEF RestartIngest, OneWorker, OneRebuilds, Rebuilding
    <3> QED BY <3>2, <3>3, <3>4 DEF FeedInv, SoleInv
  <2>5. CASE Stopped(t)
    <3>1. /\ pc[t] = "stopping" /\ pc'[t] \in {"closing", "rebuilding"}
          /\ \A u \in Tasks \ {t} : pc'[u] = pc[u]
      BY <2>5 DEF Stopped, Teardown, TypeOK
    <3>2. ChangedIsActedOn'
      BY <2>5, <3>1 DEF Stopped, FeedInv, ChangedIsActedOn
    <3>3. ListedRuns' /\ GapsAreSeenTo'
      BY <2>5, <3>1
         DEF Stopped, FeedInv, ListedRuns, GapsAreSeenTo, WillSync, Rebuilding
    <3>4. ASSUME OneWorker PROVE OneWorker'
      <4>1. alive' = {}
        BY <2>5, <3>1, <3>4 DEF Stopped, OneWorker
      <4> QED
        BY <2>5, <3>1, <3>4, <4>1 DEF Stopped, OneWorker, OneRebuilds, Rebuilding
    <3> QED BY <2>5, <3>2, <3>3, <3>4 DEF Stopped, FeedInv, SoleInv
  <2>6. CASE Closed(t)
    <3>1. /\ pc[t] = "closing" /\ pc'[t] = "rebuilding"
          /\ \A u \in Tasks \ {t} : pc'[u] = pc[u]
      BY <2>6 DEF Closed, TypeOK
    <3>2. ChangedIsActedOn'
      BY <2>6, <3>1 DEF Closed, FeedInv, ChangedIsActedOn
    <3>3. ListedRuns' /\ GapsAreSeenTo'
      BY <2>6, <3>1
         DEF Closed, FeedInv, ListedRuns, GapsAreSeenTo, WillSync, Rebuilding
    <3>4. OneWorker => OneWorker'
      BY <2>6, <3>1 DEF Closed, OneWorker, OneRebuilds, Rebuilding
    <3> QED BY <2>6, <3>2, <3>3, <3>4 DEF Closed, FeedInv, SoleInv
  <2>7. CASE Rebuild(t)
    <3>1. /\ pc[t] = "rebuilding" /\ pc'[t] \in {"idle", "done"}
          /\ \A u \in Tasks \ {t} : pc'[u] = pc[u]
      BY <2>7 DEF Rebuild, Ends, TypeOK
    <3>2. ChangedIsActedOn'
      BY <2>7, <3>1 DEF Rebuild, FeedInv, ChangedIsActedOn
    <3>3. Registered # {} => worker' \in Gens /\ alive' = alive \cup {worker'}
      BY <2>7, NewGenFree DEF Rebuild
    <3>4. Registered = {} => worker' = worker /\ alive' = alive
      BY <2>7 DEF Rebuild
    <3>5. Registered' = Registered /\ subscribed' = Registered
      BY <2>7 DEF Rebuild, Registered
    <3>6. ListedRuns'
      BY <3>3, <3>4 DEF FeedInv, ListedRuns
    <3>7. GapsAreSeenTo'
      BY <3>3, <3>5, GenAssumption DEF GapsAreSeenTo, Covered
    <3>8. ASSUME OneWorker PROVE OneWorker'
      <4>1. \A u \in Tasks : pc'[u] \notin Rebuilding
        BY <3>1, <3>8 DEF OneWorker, OneRebuilds, Rebuilding
      <4>2. alive = {}
        BY <3>1, <3>8, GenAssumption DEF OneWorker, TypeOK
      <4> QED
        BY <3>3, <3>4, <4>1, <4>2 DEF OneWorker, OneRebuilds, Rebuilding
    <3> QED BY <2>7, <3>2, <3>6, <3>7, <3>8 DEF Rebuild, FeedInv, SoleInv
  <2> QED
    BY <1>11, <2>1, <2>2, <2>3, <2>4, <2>5, <2>6, <2>7 DEF TaskStep
<1>12. CASE UNCHANGED vars
  <2>1. ChangedIsActedOn' /\ (WillSync => WillSync') /\ Registered' = Registered
    BY <1>12 DEF vars, FeedInv, ChangedIsActedOn, WillSync, Registered
  <2> QED BY <1>12, <2>1, FeedKept DEF vars
<1> QED
  BY <1>1, <1>2, <1>3, <1>5, <1>6, <1>7, <1>8, <1>9, <1>10, <1>11, <1>12
     DEF Next, PassStep

\* When all tasks are at rest every registered group is streamed by a worker
\* that runs, however requests, passes and rebuilds met: sync_ingest does what it
\* says, and what a pass changed is never forgotten (run_once's changed).
THEOREM CoverageAtRest == Spec => []CoveredAtRest
<1>1. TypeOK /\ FeedInv => CoveredAtRest
  BY TaskAssumption
     DEF FeedInv, ChangedIsActedOn, GapsAreSeenTo, WillSync, ListedRuns, Covered,
         CoveredAtRest, Rebuilding, Writing, Tasks
<1> QED
  BY <1>1, RegistryTypes, FeedInit, FeedNext, PTL DEF Spec

\* Rebuilds that do not overlap leave no worker behind (restart_ingest).
THEOREM NoStrayFeed == Spec => []OneFeed
<1>1. SoleInv => OneFeed
  BY DEF SoleInv, OneWorker, OneFeed
<1> QED
  BY <1>1, RegistryTypes, FeedInit, FeedNext, PTL DEF Spec

=============================================================================
