--------------------------- MODULE ShardRepairProofs ---------------------------
(***************************************************************************)
(* What a shard keeps for every set of markets, deadlines, sweep interval,  *)
(* cooldown and budget: a market that never streams costs a bounded number  *)
(* of connections, and a silent one is asked for in time.                   *)
(***************************************************************************)
EXTENDS ShardRepair, TLAPS

-----------------------------------------------------------------------------
(* Arithmetic of the sweep interval.                                        *)

\* Sweep intervals last natural numbers of ticks.
LEMMA SweepsNat ==
  ASSUME NEW n \in Nat
  PROVE  Sweeps(n) \in Nat
BY TimeAssumption DEF Sweeps

\* One more interval lasts one RepairSweep longer.
LEMMA SweepsNext ==
  ASSUME NEW n \in Nat
  PROVE  Sweeps(n + 1) = Sweeps(n) + RepairSweep
BY TimeAssumption DEF Sweeps

\* More intervals never last less.
LEMMA SweepsGrow ==
  ASSUME NEW m \in Nat, NEW n \in Nat, m <= n
  PROVE  Sweeps(m) <= Sweeps(n)
<1>1. PICK d \in Nat : n = m + d
  <2>1. n - m \in Nat /\ n = m + (n - m)
    OBVIOUS
  <2> QED BY <2>1
<1>2. d * RepairSweep \in Nat
  BY TimeAssumption
<1>3. (m + d) * RepairSweep = m * RepairSweep + d * RepairSweep
  BY TimeAssumption
<1>4. m * RepairSweep \in Nat
  BY TimeAssumption
<1> QED BY <1>1, <1>2, <1>3, <1>4 DEF Sweeps

-----------------------------------------------------------------------------
(* The inductive invariant.                                                 *)

\* What a market cost since it last streamed is what is charged to it.
CostCharged == \A s \in Slugs : cost[s] <= escalations[s]

\* While down the locals of a connection stand for nothing.
DownAfresh == conn = "down" => sinceSweep = 0 /\ waited = 0

\* A recv() begins before the sweep is due, or just after an unreadable frame.
RecvBegunInTime ==
  conn = "receiving" => sinceSweep <= waited + Sweeps(1 + unreadable)

SweepRunsInTime ==
  conn = "sweeping" => sinceSweep <= Sweeps(2 + unreadable)

\* Whatever the last sweep did not ask for had been heard within its deadline.
HeardBeforeSweep ==
  \A s \in Slugs :
    conn # "down" /\ attempts[s] = 0 /\ MaxRepairAttempts > 0 =>
      silent[s] <= DarkAfter + sinceSweep

IInv ==
  /\ TypeOK /\ CostCharged /\ DownAfresh
  /\ RecvBegunInTime /\ SweepRunsInTime /\ HeardBeforeSweep

\* The bounds the type invariant uses are natural numbers.
LEMMA BoundsNat ==
  /\ FirstAskBound \in Nat
  /\ Sweeps(2 + MaxUnreadable) \in Nat
  /\ Sweeps(0) = 0 /\ Sweeps(1) = RepairSweep
<1>1. Sweeps(2 + MaxUnreadable) \in Nat
  BY TimeAssumption, SweepsNat
<1>2. Sweeps(0) = 0 /\ Sweeps(1) = RepairSweep
  BY TimeAssumption DEF Sweeps
<1> QED BY <1>1, <1>2, TimeAssumption DEF FirstAskBound

\* However long the shard has been in recv(), its last sweep is not far back.
LEMMA LastSweepNear ==
  ASSUME IInv, conn # "down"
  PROVE  /\ sinceSweep <= Sweeps(2 + unreadable)
         /\ Sweeps(2 + unreadable) <= Sweeps(2 + MaxUnreadable)
         /\ Sweeps(2 + unreadable) \in Nat
<1> USE DEF IInv, TypeOK
<1>1. /\ unreadable \in Nat /\ 1 + unreadable \in Nat /\ 2 + unreadable \in Nat
      /\ 2 + MaxUnreadable \in Nat /\ 2 + unreadable <= 2 + MaxUnreadable
  BY TimeAssumption
<1>2. Sweeps((1 + unreadable) + 1) = Sweeps(1 + unreadable) + RepairSweep
  BY <1>1, SweepsNext
<1>3. (1 + unreadable) + 1 = 2 + unreadable
  BY <1>1
<1>4. Sweeps(2 + unreadable) \in Nat /\ Sweeps(1 + unreadable) \in Nat
  BY <1>1, SweepsNat
<1>5. Sweeps(2 + unreadable) <= Sweeps(2 + MaxUnreadable)
  BY <1>1, SweepsGrow
<1>6. sinceSweep <= Sweeps(2 + unreadable)
  <2>1. CASE conn = "sweeping"
    BY <2>1 DEF SweepRunsInTime
  <2>2. CASE conn = "receiving"
    <3>1. sinceSweep <= waited + Sweeps(1 + unreadable)
      BY <2>2 DEF RecvBegunInTime
    <3>2. waited \in Nat /\ sinceSweep \in Nat /\ waited <= RepairSweep
      BY BoundsNat, TimeAssumption
    <3> QED BY <3>1, <3>2, <1>2, <1>3, <1>4, TimeAssumption
  <2> QED BY <2>1, <2>2
<1> QED BY <1>4, <1>5, <1>6

LEMMA InitIInv == Init => IInv
<1> SUFFICES ASSUME Init PROVE IInv
  OBVIOUS
<1> USE DEF Init, Never
<1>1. TypeOK
  BY BoundsNat, TimeAssumption, BudgetAssumption DEF TypeOK
<1> QED BY <1>1 DEF IInv, CostCharged, DownAfresh, RecvBegunInTime, SweepRunsInTime,
                    HeardBeforeSweep

-----------------------------------------------------------------------------
(* The steps.                                                               *)

\* The turn of the loop after a frame or a timeout keeps the sweep in time.
LEMMA TurnInTime ==
  ASSUME IInv, conn = "receiving", NextTurn, UNCHANGED <<sinceSweep, unreadable>>
  PROVE  /\ conn' \in {"receiving", "sweeping"}
         /\ waited' \in 0 .. RepairSweep
         /\ DownAfresh' /\ RecvBegunInTime' /\ SweepRunsInTime'
<1>1. sinceSweep <= Sweeps(2 + unreadable)
  BY LastSweepNear
<1>2. Sweeps(1) <= Sweeps(1 + unreadable) /\ Sweeps(1 + unreadable) \in Nat
  <2>1. unreadable \in Nat /\ 1 + unreadable \in Nat /\ 1 <= 1 + unreadable
    BY TimeAssumption DEF IInv, TypeOK
  <2> QED BY <2>1, SweepsGrow, SweepsNat
<1>3. sinceSweep \in Nat
  BY BoundsNat DEF IInv, TypeOK
<1>4. RecvBegunInTime'
  <2> SUFFICES ASSUME conn' = "receiving"
               PROVE  sinceSweep' <= waited' + Sweeps(1 + unreadable')
    BY DEF RecvBegunInTime, Sweeps
  <2>1. sinceSweep < RepairSweep
    BY <1>3, TimeAssumption DEF NextTurn
  <2> QED BY <2>1, <1>2, <1>3, BoundsNat, TimeAssumption DEF NextTurn
<1>5. SweepRunsInTime'
  BY <1>1 DEF SweepRunsInTime, Sweeps
<1> QED BY <1>4, <1>5, TimeAssumption DEF NextTurn, DownAfresh

\* A connection that goes takes its locals with it, and leaves no sweep due.
LEMMA GoneInTime ==
  ASSUME LocalsGone
  PROVE  DownAfresh' /\ RecvBegunInTime' /\ SweepRunsInTime' /\ HeardBeforeSweep'
BY DEF LocalsGone, DownAfresh, RecvBegunInTime, SweepRunsInTime, HeardBeforeSweep

\* A sweep leaves every market it did not ask for heard within its deadline.
LEMMA SweptInTime ==
  ASSUME IInv, SweepDone, attempts' = Asked, UNCHANGED <<silent, waited>>
  PROVE  DownAfresh' /\ RecvBegunInTime' /\ SweepRunsInTime' /\ HeardBeforeSweep'
<1>1. RecvBegunInTime'
  <2>1. waited' \in Nat /\ unreadable' = 0 /\ sinceSweep' = 0
    BY TimeAssumption DEF IInv, TypeOK, SweepDone
  <2>2. Sweeps(1 + 0) \in Nat
    BY SweepsNat
  <2> QED BY <2>1, <2>2 DEF RecvBegunInTime, Sweeps
<1>2. SweepRunsInTime'
  BY DEF SweepDone, SweepRunsInTime
<1>3. HeardBeforeSweep'
  <2> SUFFICES ASSUME NEW s \in Slugs, attempts'[s] = 0, MaxRepairAttempts > 0
               PROVE  silent[s] <= DarkAfter
    BY TimeAssumption, BoundsNat DEF HeardBeforeSweep, SweepDone, IInv, TypeOK
  <2>1. attempts[s] \in Nat /\ silent[s] \in Nat
    BY BoundsNat, BudgetAssumption DEF IInv, TypeOK
  <2>2. s \notin Dark /\ attempts[s] = 0
    BY <2>1 DEF Asked, OneMore
  <2>3. silent[s] <= Deadline(s)
    BY <2>1, <2>2, BudgetAssumption, TimeAssumption DEF Dark, Deadline
  <2> QED BY <2>1, <2>3, DeadlineAssumption, TimeAssumption DEF Deadline
<1> QED BY <1>1, <1>2, <1>3 DEF SweepDone, DownAfresh

\* A sweep's requests stay within the repairs of a connection.
LEMMA AskedBounded ==
  ASSUME IInv
  PROVE  Asked \in [Slugs -> 0 .. MaxRepairAttempts]
<1> SUFFICES ASSUME NEW s \in Slugs
             PROVE  (IF s \in Dark THEN attempts[s] + 1 ELSE attempts[s])
                      \in 0 .. MaxRepairAttempts
  BY DEF Asked, OneMore
<1> QED BY BudgetAssumption DEF Dark, IInv, TypeOK

LEMMA TickIInv ==
  ASSUME IInv, Tick
  PROVE  IInv'
<1> USE DEF IInv
<1>1. silent' \in [Slugs -> 0 .. FirstAskBound + 1]
  BY BoundsNat DEF Tick, TypeOK, UpTo
<1>2. sinceReconnect' \in 0 .. ReconnectCooldown
  BY TimeAssumption DEF Tick, TypeOK, UpTo
<1>3. waited \in Nat /\ sinceSweep \in Nat /\ RepairSweep \in Nat
  BY BoundsNat, TimeAssumption DEF TypeOK
<1>4. RecvBegunInTime' /\ waited' \in 0 .. RepairSweep
  <2>1. CASE conn = "down"
    BY <2>1 DEF Tick, TypeOK, RecvBegunInTime
  <2>2. CASE conn = "receiving"
    <3>1. sinceSweep <= waited + Sweeps(1 + unreadable)
      BY <2>2 DEF RecvBegunInTime
    <3>2. Sweeps(1 + unreadable) \in Nat
      <4>1. 1 + unreadable \in Nat
        BY TimeAssumption DEF TypeOK
      <4> QED BY <4>1, SweepsNat
    <3>3. sinceSweep + 1 <= (waited + 1) + Sweeps(1 + unreadable)
      BY <3>1, <3>2, <1>3
    <3> QED BY <2>2, <3>3, <1>3 DEF Tick, RecvBegunInTime, Sweeps
  <2> QED BY <2>1, <2>2 DEF Tick
<1>5. SweepRunsInTime' /\ DownAfresh'
  BY DEF Tick, SweepRunsInTime, DownAfresh
<1>6. HeardBeforeSweep'
  <2> SUFFICES ASSUME NEW s \in Slugs, conn # "down", attempts[s] = 0,
                      MaxRepairAttempts > 0
               PROVE  silent'[s] <= DarkAfter + sinceSweep'
    BY DEF Tick, HeardBeforeSweep
  <2>1. silent[s] <= DarkAfter + sinceSweep /\ silent[s] \in Nat
    BY BoundsNat DEF HeardBeforeSweep, TypeOK
  <2>2. silent'[s] <= silent[s] + 1 /\ silent'[s] \in Nat
    BY <2>1, BoundsNat DEF Tick, UpTo
  <2> QED BY <2>1, <2>2, <1>3, TimeAssumption DEF Tick
<1>7. (TypeOK /\ CostCharged)'
  <2>1. sinceSweep' \in 0 .. Sweeps(2 + MaxUnreadable)
    <3>1. CASE conn = "down"
      BY <3>1 DEF Tick, TypeOK
    <3>2. CASE conn = "receiving"
      <4>1. sinceSweep' <= waited' + Sweeps(1 + unreadable)
        BY <3>2, <1>4 DEF Tick, RecvBegunInTime, Sweeps
      <4>2. Sweeps((1 + unreadable) + 1) = Sweeps(1 + unreadable) + RepairSweep
            /\ Sweeps(1 + unreadable) \in Nat
            /\ (1 + unreadable) + 1 = 2 + unreadable
        <5>1. 1 + unreadable \in Nat /\ (1 + unreadable) + 1 = 2 + unreadable
          BY TimeAssumption DEF TypeOK
        <5> QED BY <5>1, SweepsNext, SweepsNat
      <4>3. Sweeps(2 + unreadable) <= Sweeps(2 + MaxUnreadable)
        BY <3>2, LastSweepNear
      <4>4. sinceSweep' = sinceSweep + 1 /\ waited' \in Nat /\ waited' <= RepairSweep
        BY <3>2, <1>3, <1>4 DEF Tick
      <4> QED BY <4>1, <4>2, <4>3, <4>4, <1>3, BoundsNat
    <3> QED BY <3>1, <3>2 DEF Tick
  <2> QED BY <2>1, <1>1, <1>2, <1>4 DEF Tick, TypeOK, CostCharged
<1> QED BY <1>4, <1>5, <1>6, <1>7

\* A frame that brings no news of a market, and a timeout.
LEMMA QuietIInv ==
  ASSUME IInv, TimeOut \/ Acknowledged
  PROVE  IInv'
<1>1. conn = "receiving" /\ NextTurn /\ UNCHANGED <<sinceSweep, unreadable>>
  BY DEF TimeOut, Acknowledged
<1>2. /\ conn' \in {"receiving", "sweeping"} /\ waited' \in 0 .. RepairSweep
      /\ DownAfresh' /\ RecvBegunInTime' /\ SweepRunsInTime'
  BY <1>1, TurnInTime
<1>3. HeardBeforeSweep'
  BY <1>1 DEF TimeOut, Acknowledged, HeardBeforeSweep, IInv
<1>4. (TypeOK /\ CostCharged)'
  BY <1>2 DEF TimeOut, Acknowledged, TypeOK, CostCharged, IInv
<1> QED BY <1>2, <1>3, <1>4 DEF IInv

LEMMA EmptyBookIInv ==
  ASSUME IInv, NEW s \in Slugs, EmptyBook(s)
  PROVE  IInv'
<1>1. conn = "receiving" /\ NextTurn /\ UNCHANGED <<sinceSweep, unreadable>>
  BY DEF EmptyBook
<1>2. /\ conn' \in {"receiving", "sweeping"} /\ waited' \in 0 .. RepairSweep
      /\ DownAfresh' /\ RecvBegunInTime' /\ SweepRunsInTime'
  BY <1>1, TurnInTime
<1>3. silent' \in [Slugs -> 0 .. FirstAskBound + 1] /\ sinceSweep \in Nat
  BY BoundsNat DEF EmptyBook, IInv, TypeOK
<1>4. HeardBeforeSweep'
  <2> SUFFICES ASSUME NEW t \in Slugs, attempts[t] = 0, MaxRepairAttempts > 0
               PROVE  silent'[t] <= DarkAfter + sinceSweep
    BY DEF EmptyBook, HeardBeforeSweep
  <2>1. CASE t = s
    BY <2>1, <1>3, TimeAssumption DEF EmptyBook, IInv, TypeOK
  <2>2. CASE t # s
    BY <2>2, <1>1 DEF EmptyBook, IInv, TypeOK, HeardBeforeSweep
  <2> QED BY <2>1, <2>2
<1>5. (TypeOK /\ CostCharged)'
  BY <1>2, <1>3 DEF EmptyBook, TypeOK, CostCharged, IInv
<1> QED BY <1>2, <1>4, <1>5 DEF IInv

LEMMA QuotedIInv ==
  ASSUME IInv, NEW s \in Slugs, NEW live \in BOOLEAN, Quoted(s, live)
  PROVE  IInv'
<1>1. conn = "receiving" /\ NextTurn /\ UNCHANGED <<sinceSweep, unreadable>>
  BY DEF Quoted
<1>2. /\ conn' \in {"receiving", "sweeping"} /\ waited' \in 0 .. RepairSweep
      /\ DownAfresh' /\ RecvBegunInTime' /\ SweepRunsInTime'
  BY <1>1, TurnInTime
<1>3. /\ silent' \in [Slugs -> 0 .. FirstAskBound + 1] /\ sinceSweep \in Nat
      /\ attempts' \in [Slugs -> 0 .. MaxRepairAttempts]
      /\ escalations' \in [Slugs -> 0 .. MaxEscalations]
      /\ cost' \in [Slugs -> Nat]
  BY BoundsNat, BudgetAssumption DEF Quoted, IInv, TypeOK
<1>4. HeardBeforeSweep'
  <2> SUFFICES ASSUME NEW t \in Slugs, attempts'[t] = 0, MaxRepairAttempts > 0
               PROVE  silent'[t] <= DarkAfter + sinceSweep
    BY DEF Quoted, HeardBeforeSweep
  <2>1. CASE t = s
    BY <2>1, <1>3, TimeAssumption DEF Quoted, IInv, TypeOK
  <2>2. CASE t # s
    BY <2>2, <1>1 DEF Quoted, IInv, TypeOK, HeardBeforeSweep
  <2> QED BY <2>1, <2>2
<1>5. CostCharged'
  <2> SUFFICES ASSUME NEW t \in Slugs PROVE cost'[t] <= escalations'[t]
    BY DEF CostCharged
  <2>1. cost[t] <= escalations[t]
    BY DEF IInv, CostCharged
  <2>2. CASE live /\ t = s
    BY <2>2 DEF Quoted, IInv, TypeOK
  <2>3. CASE ~live \/ t # s
    BY <2>1, <2>3 DEF Quoted, IInv, TypeOK
  <2> QED BY <2>2, <2>3
<1>6. TypeOK'
  BY <1>2, <1>3 DEF Quoted, TypeOK, IInv
<1> QED BY <1>2, <1>4, <1>5, <1>6 DEF IInv

LEMMA UnreadableIInv ==
  ASSUME IInv, Unreadable
  PROVE  IInv'
<1>1. unreadable \in Nat /\ 1 + (unreadable + 1) = 2 + unreadable /\ waited' = 0
      /\ unreadable' = unreadable + 1 /\ unreadable' <= MaxUnreadable
  BY TimeAssumption DEF Unreadable, IInv, TypeOK
<1>2. sinceSweep <= Sweeps(2 + unreadable) /\ Sweeps(2 + unreadable) \in Nat
  BY LastSweepNear DEF Unreadable
<1>3. RecvBegunInTime'
  <2> SUFFICES sinceSweep <= 0 + Sweeps(1 + (unreadable + 1))
    BY <1>1 DEF Unreadable, RecvBegunInTime, Sweeps
  <2> QED BY <1>1, <1>2
<1>4. DownAfresh' /\ SweepRunsInTime' /\ HeardBeforeSweep'
  BY DEF Unreadable, IInv, DownAfresh, SweepRunsInTime, HeardBeforeSweep
<1>5. (TypeOK /\ CostCharged)'
  BY <1>1, TimeAssumption DEF Unreadable, IInv, TypeOK, CostCharged
<1> QED BY <1>3, <1>4, <1>5 DEF IInv

LEMMA ConnectionIInv ==
  ASSUME IInv, Connect \/ Disconnect \/ Rebuild
  PROVE  IInv'
<1>1. CASE Connect
  <2>1. (DownAfresh /\ RecvBegunInTime /\ SweepRunsInTime)'
    <3>1. sinceSweep = 0 /\ waited = 0
      BY <1>1 DEF Connect, IInv, DownAfresh
    <3>2. Sweeps(1 + unreadable) \in Nat
      <4>1. 1 + unreadable \in Nat
        BY TimeAssumption DEF IInv, TypeOK
      <4> QED BY <4>1, SweepsNat
    <3> QED BY <3>1, <3>2, <1>1 DEF Connect, DownAfresh, RecvBegunInTime,
                                    SweepRunsInTime, Sweeps
  <2>2. HeardBeforeSweep'
    BY <1>1, BoundsNat, TimeAssumption DEF Connect, HeardBeforeSweep, Never, IInv, TypeOK
  <2>3. (TypeOK /\ CostCharged)'
    BY <1>1, BoundsNat DEF Connect, Never, IInv, TypeOK, CostCharged
  <2> QED BY <2>1, <2>2, <2>3 DEF IInv
<1>2. CASE Disconnect
  <2>1. (TypeOK /\ CostCharged)'
    BY <1>2, BoundsNat, BudgetAssumption, TimeAssumption
       DEF Disconnect, LocalsGone, Never, IInv, TypeOK, CostCharged
  <2> QED BY <1>2, <2>1, GoneInTime DEF Disconnect, IInv
<1>3. CASE Rebuild
  <2>1. (TypeOK /\ CostCharged)'
    BY <1>3, BoundsNat, BudgetAssumption, TimeAssumption
       DEF Rebuild, LocalsGone, Never, IInv, TypeOK, CostCharged
  <2> QED BY <1>3, <2>1, GoneInTime DEF Rebuild, IInv
<1> QED BY <1>1, <1>2, <1>3

LEMMA SweepIInv ==
  ASSUME IInv, Sweep
  PROVE  IInv'
<1>1. CASE NothingDark
  <2>1. attempts' = Asked
    BY <1>1 DEF NothingDark, Asked, OneMore, IInv, TypeOK
  <2>2. DownAfresh' /\ RecvBegunInTime' /\ SweepRunsInTime' /\ HeardBeforeSweep'
    BY <1>1, <2>1, SweptInTime DEF NothingDark
  <2>3. (TypeOK /\ CostCharged)'
    BY <1>1, BoundsNat, TimeAssumption DEF NothingDark, SweepDone, IInv, TypeOK, CostCharged
  <2> QED BY <2>2, <2>3 DEF IInv
<1>2. CASE Repair
  <2>1. DownAfresh' /\ RecvBegunInTime' /\ SweepRunsInTime' /\ HeardBeforeSweep'
    BY <1>2, SweptInTime DEF Repair
  <2>2. (TypeOK /\ CostCharged)'
    BY <1>2, AskedBounded, BoundsNat, TimeAssumption
       DEF Repair, SweepDone, IInv, TypeOK, CostCharged
  <2> QED BY <2>1, <2>2 DEF IInv
<1>3. CASE Escalate
  <2>1. escalations' \in [Slugs -> 0 .. MaxEscalations] /\ cost' \in [Slugs -> Nat]
    <3>1. \A s \in Stuck : escalations[s] < MaxEscalations
      BY DEF Stuck, StuckAfter
    <3> QED BY <1>3, <3>1, BudgetAssumption DEF Escalate, OneMore, IInv, TypeOK
  <2>2. CostCharged'
    <3> SUFFICES ASSUME NEW s \in Slugs PROVE cost'[s] <= escalations'[s]
      BY DEF CostCharged
    <3>1. cost[s] <= escalations[s] /\ cost[s] \in Nat /\ escalations[s] \in Nat
      BY BudgetAssumption DEF IInv, CostCharged, TypeOK
    <3> QED BY <1>3, <3>1 DEF Escalate, OneMore
  <2>3. TypeOK'
    BY <1>3, <2>1, BoundsNat, BudgetAssumption, TimeAssumption
       DEF Escalate, LocalsGone, Never, IInv, TypeOK
  <2>4. LocalsGone
    BY <1>3 DEF Escalate
  <2> QED BY <2>2, <2>3, <2>4, GoneInTime DEF IInv
<1> QED BY <1>1, <1>2, <1>3 DEF Sweep

LEMMA NextIInv ==
  ASSUME IInv, [Next]_vars
  PROVE  IInv'
<1>1. CASE Tick
  BY <1>1, TickIInv
<1>2. CASE GamesChange
  BY <1>2 DEF GamesChange, clocks, IInv, TypeOK, CostCharged, DownAfresh,
              RecvBegunInTime, SweepRunsInTime, HeardBeforeSweep, Sweeps
<1>3. CASE Connect \/ Disconnect \/ Rebuild
  BY <1>3, ConnectionIInv
<1>4. CASE TimeOut \/ Acknowledged
  BY <1>4, QuietIInv
<1>5. CASE Unreadable
  BY <1>5, UnreadableIInv
<1>6. CASE \E s \in Slugs : EmptyBook(s)
  BY <1>6, EmptyBookIInv
<1>7. CASE \E s \in Slugs : \E live \in BOOLEAN : Quoted(s, live)
  BY <1>7, QuotedIInv
<1>8. CASE Sweep
  BY <1>8, SweepIInv
<1>9. CASE UNCHANGED vars
  BY <1>9 DEF vars, clocks, IInv, TypeOK, CostCharged, DownAfresh,
              RecvBegunInTime, SweepRunsInTime, HeardBeforeSweep, Sweeps
<1> QED BY <1>1, <1>2, <1>3, <1>4, <1>5, <1>6, <1>7, <1>8, <1>9 DEF Next

\* IInv holds of every behaviour of the shard.
LEMMA Invariant == Spec => []IInv
BY InitIInv, NextIInv, PTL DEF Spec

-----------------------------------------------------------------------------
(* The theorems.                                                            *)

\* The clocks of a shard stay bounded: no sweep is later than two intervals and
\* one per unreadable frame (_connect_and_pump).
THEOREM ShardTypes == Spec => []TypeOK
<1>1. IInv => TypeOK
  BY DEF IInv
<1> QED BY <1>1, Invariant, PTL

\* No market costs its shard more than MaxEscalations connections between two
\* live frames of its own (_maybe_escalate).
THEOREM BoundedReconnects == Spec => []ReconnectsBounded
<1>1. IInv => ReconnectsBounded
  <2> SUFFICES ASSUME IInv, NEW s \in Slugs PROVE cost[s] <= MaxEscalations
    BY DEF ReconnectsBounded
  <2>1. /\ cost[s] <= escalations[s] /\ escalations[s] <= MaxEscalations
        /\ cost[s] \in Nat /\ escalations[s] \in Nat
    BY BudgetAssumption DEF IInv, TypeOK, CostCharged
  <2> QED BY <2>1, BudgetAssumption
<1> QED BY <1>1, Invariant, PTL

\* A silent market is asked for in time, with or without traffic
\* (_repair_subscriptions).
THEOREM AskedInTime == Spec => []FirstAskInTime
<1>1. IInv => FirstAskInTime
  <2> SUFFICES ASSUME IInv, NEW s \in Slugs, conn # "down", attempts[s] = 0,
                      MaxRepairAttempts > 0
               PROVE  silent[s] <= DarkAfter + Sweeps(2 + unreadable)
    BY DEF FirstAskInTime
  <2>1. silent[s] <= DarkAfter + sinceSweep
    BY DEF IInv, HeardBeforeSweep
  <2>2. sinceSweep <= Sweeps(2 + unreadable) /\ Sweeps(2 + unreadable) \in Nat
    BY LastSweepNear
  <2>3. silent[s] \in Nat /\ sinceSweep \in Nat
    BY BoundsNat DEF IInv, TypeOK
  <2> QED BY <2>1, <2>2, <2>3, TimeAssumption
<1> QED BY <1>1, Invariant, PTL
=============================================================================
