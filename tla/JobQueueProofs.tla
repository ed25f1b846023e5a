--------------------------- MODULE JobQueueProofs ---------------------------
(* Proofs about the scheduler, for any devices, workers and bounds.          *)
EXTENDS JobQueueProperties, FiniteSetTheorems, SequenceTheorems, TLAPS

\* The workers the counters _pushes and _pulls_waiting stand for.
PushersInside == {w \in Workers : pc[w] \in Inside /\ ~IsPull(cur[w])}
PullersWaiting == {w \in Workers : pc[w] = "admit" /\ IsPull(cur[w])}

\* A worker that is not idle has a job, and from the gate on its device's lock.
HoldsLock ==
  \A w \in Workers :
    /\ pc[w] # "idle" => cur[w] # 0
    /\ pc[w] \in Inside \cup {"admit"} => holder[Dev(cur[w])] = w

\* What the three counters of _admit mean.
CountsAreTrue ==
  /\ pushes = Cardinality(PushersInside)
  /\ waiting = Cardinality(PullersWaiting)
  /\ \A w \in Workers : pc[w] \in Inside /\ IsPull(cur[w]) => pulling

\* A pull inside is alone inside.
PullAlone ==
  \A v, w \in Workers :
    pc[v] \in Inside /\ IsPull(cur[v]) /\ pc[w] \in Inside => v = w

\* The inductive invariant: TypeOK is not inductive by itself, because a counter
\* stays a natural number only while it counts the workers it stands for.
GateInv == TypeOK /\ HoldsLock /\ CountsAreTrue /\ PullAlone
-----------------------------------------------------------------------------
LEMMA InitGate == Init => GateInv
<1> SUFFICES ASSUME Init PROVE GateInv
  OBVIOUS
<1> USE ConstantsOK
<1>1. TypeOK
  <2>1. (CHOOSE d \in Devices : TRUE) \in Devices
    OBVIOUS
  <2>2. mode \in [Devices -> Modes]
    BY DEF Init
  <2>3. what \in [Ids -> [kind : Kinds, dev : Devices, dry : BOOLEAN]]
    BY <2>1 DEF Init, Kinds
  <2>4. row \in [Ids -> Jobs] /\ obj \in [Ids -> Jobs]
    BY DEF Init, Jobs, NoJob, States
  <2>5. /\ pc \in [Workers -> Points] /\ stage \in [Workers -> Stages]
        /\ code \in [Workers -> Verdicts] /\ child \in [Ids -> ProcStates]
    BY DEF Init, Points, Stages, Verdicts, ProcStates
  <2>6. /\ made \in 0..MaxJobs /\ crashes \in 0..MaxCrashes /\ reloads \in 0..MaxReloads
        /\ requests \in 0..MaxRequests
    BY DEF Init
  <2>7. live \subseteq 1..made /\ cancelling \subseteq 1..made /\ queue \in Seq(1..made)
    BY DEF Init
  <2>8. holder \in [Devices -> Workers \cup {NoWorker}] /\ cur \in [Workers -> 0..made]
    BY DEF Init
  <2>9. up \in BOOLEAN /\ pushes \in Nat /\ pulling \in BOOLEAN /\ waiting \in Nat
    BY DEF Init
  <2> QED
    BY <2>2, <2>3, <2>4, <2>5, <2>6, <2>7, <2>8, <2>9 DEF TypeOK
<1>2. PushersInside = {} /\ PullersWaiting = {}
  BY DEF Init, PushersInside, PullersWaiting, Inside, Executing
<1>3. HoldsLock /\ PullAlone
  BY DEF Init, HoldsLock, PullAlone, Inside, Executing
<1>4. CountsAreTrue
  BY <1>2, FS_EmptySet DEF Init, CountsAreTrue, Inside, Executing
<1> QED
  BY <1>1, <1>3, <1>4 DEF GateInv

\* A worker inside with a push, or waiting with a pull, is counted.
LEMMA Counted ==
  ASSUME GateInv, NEW w \in Workers
  PROVE  /\ IsFiniteSet(PushersInside) /\ IsFiniteSet(PullersWaiting)
         /\ w \in PushersInside => pushes > 0
         /\ w \in PullersWaiting => waiting > 0
<1>1. IsFiniteSet(PushersInside) /\ IsFiniteSet(PullersWaiting)
  BY FS_Subset, ConstantsOK DEF PushersInside, PullersWaiting
<1>2. w \in PushersInside => Cardinality(PushersInside) # 0
  BY <1>1, FS_EmptySet
<1>3. w \in PullersWaiting => Cardinality(PullersWaiting) # 0
  BY <1>1, FS_EmptySet
<1> QED
  BY <1>1, <1>2, <1>3 DEF GateInv, CountsAreTrue, TypeOK
-----------------------------------------------------------------------------
(* Types. What the actions have in common comes first.                       *)

\* A worker that is not idle has a job, of a known device.
LEMMA Carrying ==
  ASSUME GateInv, NEW w \in Workers, pc[w] # "idle"
  PROVE  cur[w] \in 1..made /\ cur[w] \in Ids /\ Dev(cur[w]) \in Devices
<1>1. cur[w] \in 1..made /\ cur[w] \in Ids
  BY ConstantsOK DEF GateInv, TypeOK, HoldsLock, Ids
<1>2. what[cur[w]] \in [kind : Kinds, dev : Devices, dry : BOOLEAN]
  BY <1>1 DEF GateInv, TypeOK
<1> QED
  BY <1>1, <1>2 DEF Dev

LEMMA JobValues ==
  ASSUME TypeOK, NEW j \in Ids
  PROVE  /\ obj[j] \in Jobs /\ row[j] \in Jobs
         /\ \A st \in States : In(j, st) \in Jobs
<1>1. obj[j] \in Jobs /\ row[j] \in Jobs
  BY DEF TypeOK
<1> QED
  BY <1>1 DEF In, Jobs

LEMMA JobTypes ==
  ASSUME TypeOK, NEW j \in Ids, NEW o \in Jobs
  PROVE  /\ SetAndSave(j, o) => obj' \in [Ids -> Jobs] /\ row' \in [Ids -> Jobs]
         /\ Save(j, o) => row' \in [Ids -> Jobs]
<1>1. obj \in [Ids -> Jobs] /\ row \in [Ids -> Jobs]
  BY DEF TypeOK
<1>2. Save(j, o) => row' \in [Ids -> Jobs]
  BY <1>1 DEF Save
<1> QED
  BY <1>1, <1>2 DEF SetAndSave

LEMMA QueueTypes ==
  ASSUME TypeOK, NEW j \in 1..made
  PROVE  j \in Ids /\ (Enqueue(j) => queue' \in Seq(1..made))
<1>1. made \in 0..MaxJobs /\ queue \in Seq(1..made)
  BY DEF TypeOK
<1>2. j \in Ids
  BY <1>1, ConstantsOK DEF Ids
<1>3. Append(queue, j) \in Seq(1..made)
  BY <1>1
<1> QED
  BY <1>2, <1>3 DEF Enqueue

\* The actions of users and of the environment that work on one job.
LEMMA JobActionTypes ==
  ASSUME TypeOK, NEW j \in 1..made,
         \/ AbortChild(j) \/ AbortPending(j) \/ Dismiss(j) \/ StartNow(j)
         \/ CancelChild(j) \/ CancelNow(j) \/ CancelPolled(j) \/ OrphanExits(j)
  PROVE  TypeOK'
<1> USE QueueTypes, JobTypes, JobValues DEF work, gate, disk, spent
<1>0. requests \in 0..MaxRequests /\ Request => requests' \in 0..MaxRequests
  BY ConstantsOK DEF Request, TypeOK
<1>1. CASE AbortChild(j)
  BY <1>0, <1>1 DEF AbortChild, TypeOK, ProcStates
<1>2. CASE AbortPending(j)
  BY <1>0, <1>2 DEF AbortPending, TypeOK, States, TerminalStates
<1>3. CASE Dismiss(j)
  BY <1>0, <1>3 DEF Dismiss, TypeOK, States, TerminalStates
<1>4. CASE StartNow(j)
  <2>1. [In(j, "queued") EXCEPT !.hold = FALSE] \in Jobs
    BY DEF States, In, Jobs, TypeOK
  <2> QED
    BY <2>1, <1>0, <1>4 DEF StartNow, TypeOK
<1>5. CASE CancelChild(j)
  BY <1>0, <1>5 DEF CancelChild, TypeOK, ProcStates
<1>6. CASE CancelNow(j)
  BY <1>0, <1>6 DEF CancelNow, Remove, TypeOK, NoJob, Jobs
<1>7. CASE CancelPolled(j)
  BY <1>7 DEF CancelPolled, Remove, TypeOK, NoJob, Jobs
<1>8. CASE OrphanExits(j)
  BY <1>8 DEF OrphanExits, TypeOK, ProcStates
<1> QED
  BY <1>1, <1>2, <1>3, <1>4, <1>5, <1>6, <1>7, <1>8

\* The actions of users and of the environment that work on many jobs.
LEMMA SubmitTypes ==
  ASSUME TypeOK, NEW d \in Devices, NEW deferred \in BOOLEAN, NEW hold \in BOOLEAN,
         NEW dry \in DryRuns, Submit(d, deferred, hold, dry)
  PROVE  TypeOK'
<1> USE DEF work, gate, disk, spent
<1>1. made + 1 \in Ids /\ made' = made + 1 /\ made' \in 0..MaxJobs
  BY ConstantsOK DEF Submit, TypeOK, Ids
<1>2. what' \in [Ids -> [kind : Kinds, dev : Devices, dry : BOOLEAN]]
  <2>1. dry \in BOOLEAN
    BY ConstantsOK
  <2> QED
    BY <1>1, <2>1 DEF Submit, TypeOK, Kinds
<1>3. row' \in [Ids -> Jobs] /\ obj' \in [Ids -> Jobs]
  BY <1>1 DEF Submit, TypeOK, Jobs, States
<1>4. live' \subseteq 1..made' /\ cancelling' \subseteq 1..made'
  <2>1. 1..made \subseteq 1..made' /\ made' \in 1..made'
    BY <1>1 DEF TypeOK
  <2> QED
    BY <1>1, <2>1 DEF Submit, TypeOK
<1>5. queue' \in Seq(1..made')
  <2>1. queue \in Seq(1..made') /\ made' \in 1..made'
    BY <1>1 DEF TypeOK
  <2>2. queue' = queue \/ queue' = Append(queue, made')
    BY <1>1 DEF Submit, Enqueue
  <2> QED
    BY <2>1, <2>2
<1>6. cur' \in [Workers -> 0..made']
  BY <1>1 DEF Submit, TypeOK
<1> QED
  BY <1>1, <1>2, <1>3, <1>4, <1>5, <1>6 DEF Submit, TypeOK

LEMMA ClearFinishedTypes ==
  ASSUME TypeOK, ClearFinished
  PROVE  TypeOK'
<1> USE DEF work, gate, disk, spent
<1>1. requests' \in 0..MaxRequests
  BY ConstantsOK DEF ClearFinished, Request, TypeOK
<1>2. row' \in [Ids -> Jobs]
  BY DEF ClearFinished, TypeOK, NoJob, Jobs
<1>3. live' \subseteq 1..made
  BY DEF ClearFinished, TypeOK
<1> QED
  BY <1>1, <1>2, <1>3 DEF ClearFinished, TypeOK

\* A sequence of members of a set of ids can be queued.
LEMMA OldestFirstTypes ==
  ASSUME TypeOK, NEW P \in SUBSET (1..made), NEW s \in OldestFirst(P)
  PROVE  s \in Seq(1..made)
<1>1. IsFiniteSet(P)
  <2>1. 0 \in Int /\ 1 \in Int /\ made \in Int
    BY ConstantsOK DEF TypeOK
  <2> QED
    BY <2>1, FS_Interval, FS_Subset
<1>2. Cardinality(P) \in Nat
  BY <1>1, FS_CardinalityType
<1> QED
  <2>1. s \in [1..Cardinality(P) -> 1..made]
    BY DEF OldestFirst
  <2> QED
    BY <1>2, <2>1, SeqDef

LEMMA PromoteTypes ==
  ASSUME TypeOK, NEW D \in SUBSET Devices, Promote(D)
  PROVE  TypeOK'
<1> USE DEF work, gate, disk, spent
<1>1. obj' \in [Ids -> Jobs]
  BY DEF Promote, TypeOK, In, Jobs, States
<1>2. row' \in [Ids -> Jobs]
  BY <1>1 DEF Promote, TypeOK
<1>3. Promotable(D) \in SUBSET (1..made)
  BY DEF Promotable, TypeOK
<1>4. queue' \in Seq(1..made)
  <2>1. PICK s \in OldestFirst(Promotable(D)) : queue' = queue \o s
    BY DEF Promote
  <2>2. s \in Seq(1..made) /\ queue \in Seq(1..made)
    BY <1>3, <2>1, OldestFirstTypes DEF TypeOK
  <2> QED
    BY <2>1, <2>2
<1> QED
  BY <1>1, <1>2, <1>4 DEF Promote, TypeOK

LEMMA ReloadTypes ==
  ASSUME TypeOK, NEW d \in Devices, NEW m \in Modes, Reload(d, m)
  PROVE  TypeOK'
<1> USE DEF work, gate, disk, spent
<1>1. reloads' \in 0..MaxReloads /\ mode' \in [Devices -> Modes]
  BY ConstantsOK DEF Reload, TypeOK
<1> QED
  BY <1>1 DEF Reload, TypeOK

LEMMA CrashTypes ==
  ASSUME TypeOK, Crash
  PROVE  TypeOK'
<1> USE DEF work, gate, disk, spent
<1>1. crashes' \in 0..MaxCrashes
  BY ConstantsOK DEF Crash, TypeOK
<1>2. obj' \in [Ids -> Jobs]
  BY DEF Crash, Jobs, NoJob, States
<1>3. /\ pc' \in [Workers -> Points] /\ stage' \in [Workers -> Stages]
      /\ code' \in [Workers -> Verdicts] /\ child' \in [Ids -> ProcStates]
      /\ holder' \in [Devices -> Workers \cup {NoWorker}]
  BY DEF Crash, Points, Stages, Verdicts, ProcStates
<1>4. queue' \in Seq(1..made) /\ cur' \in [Workers -> 0..made]
  BY DEF Crash, TypeOK
<1> QED
  BY <1>1, <1>2, <1>3, <1>4 DEF Crash, TypeOK

LEMMA StartTypes ==
  ASSUME TypeOK, Start
  PROVE  TypeOK'
<1> USE DEF work, gate, disk, spent
<1>1. row' \in [Ids -> Jobs]
  BY DEF Start, TypeOK, Restarted, Jobs, States, TerminalStates
<1>2. obj' \in [Ids -> Jobs]
  BY DEF Start, TypeOK, Jobs, NoJob, States
<1>3. Readopted \in SUBSET (1..made)
  BY DEF Readopted
<1>4. queue' \in Seq(1..made)
  BY <1>3, OldestFirstTypes DEF Start
<1> QED
  BY <1>1, <1>2, <1>3, <1>4 DEF Start, TypeOK

\* A worker's actions. Entering and leaving the gate is where the counters move.
LEMMA EnterTypes ==
  ASSUME GateInv, NEW w \in Workers, At(w, "admit"), Enter(cur[w])
  PROVE  pushes' \in Nat /\ pulling' \in BOOLEAN /\ waiting' \in Nat /\ holder' = holder
<1>1. pushes \in Nat /\ waiting \in Nat
  BY DEF GateInv, TypeOK
<1>2. IsPull(cur[w]) => waiting > 0
  BY Counted DEF At, PullersWaiting
<1>3. pulling' \in BOOLEAN /\ holder' = holder
  BY DEF Enter, GateInv, TypeOK
<1>4. CASE IsPull(cur[w])
  BY <1>1, <1>2, <1>3, <1>4 DEF Enter
<1>5. CASE ~IsPull(cur[w])
  BY <1>1, <1>3, <1>5 DEF Enter
<1> QED
  BY <1>4, <1>5

LEMMA ReleaseTypes ==
  ASSUME GateInv, NEW w \in Workers, pc[w] \in Inside, Release(w)
  PROVE  /\ pushes' \in Nat /\ pulling' \in BOOLEAN /\ waiting' \in Nat
         /\ holder' \in [Devices -> Workers \cup {NoWorker}]
         /\ pc' \in [Workers -> Points] /\ cur' \in [Workers -> 0..made]
         /\ stage' \in [Workers -> Stages] /\ code' \in [Workers -> Verdicts]
<1>1. pushes \in Nat /\ waiting \in Nat
  BY DEF GateInv, TypeOK
<1>2. ~IsPull(cur[w]) => pushes > 0
  BY Counted DEF PushersInside
<1>3. pushes' \in Nat /\ pulling' \in BOOLEAN /\ waiting' \in Nat
  <2>1. pulling' \in BOOLEAN /\ waiting' = waiting
    BY DEF Release, GateInv, TypeOK
  <2>2. CASE IsPull(cur[w])
    BY <1>1, <2>1, <2>2 DEF Release
  <2>3. CASE ~IsPull(cur[w])
    BY <1>1, <1>2, <2>1, <2>3 DEF Release
  <2> QED
    BY <2>2, <2>3
<1>4. cur' \in [Workers -> 0..made]
  BY DEF Release, GateInv, TypeOK
<1>5. holder' \in [Devices -> Workers \cup {NoWorker}]
  BY DEF Release, GateInv, TypeOK
<1>6. /\ pc' \in [Workers -> Points] /\ stage' \in [Workers -> Stages]
      /\ code' \in [Workers -> Verdicts]
  BY DEF Release, EndStages, Goto, GateInv, TypeOK, Points, Stages, Verdicts
<1> QED
  BY <1>3, <1>4, <1>5, <1>6

LEMMA WorkerTypes ==
  ASSUME GateInv, NEW w \in Workers, Worker(w)
  PROVE  TypeOK'
<1> DEFINE j == cur[w]
<1> USE DEF work, gate, disk, spent, At, Goto, EndStages
<1>0. TypeOK
  BY DEF GateInv
<1>1. CASE Take(w)
  <2>1. queue # <<>> => Head(queue) \in 1..made /\ Tail(queue) \in Seq(1..made)
    BY <1>0 DEF TypeOK
  <2>2. pc' \in [Workers -> Points]
    BY <1>0, <1>1 DEF Take, TypeOK, Points
  <2>3. cur' \in [Workers -> 0..made]
    <3>1. cur' = cur \/ cur' = [cur EXCEPT ![w] = Head(queue)]
      BY <1>1 DEF Take
    <3>2. Head(queue) \in 0..made
      BY <1>1, <2>1 DEF Take
    <3> QED
      BY <1>0, <3>1, <3>2 DEF TypeOK
  <2> QED
    BY <1>0, <1>1, <2>1, <2>2, <2>3 DEF Take, TypeOK
<1> SUFFICES ASSUME ~Take(w)  PROVE TypeOK'
  BY <1>1
<1>2. pc[w] # "idle"
  BY DEF Worker, LockDevice, AdmitStale, Execute, Spawn, SpawnFails, ChildExits,
         StreamRaises, NextStage, Settling, Retry, Settle, SettlePull, Reindexed,
         RecordRaises, ReindexRaises, Leave, LeaveFailed, Raising
<1>3. j \in 1..made /\ j \in Ids /\ Dev(j) \in Devices
  BY <1>2, Carrying
<1> HIDE DEF j
<1> USE <1>0, <1>3, JobTypes, JobValues DEF j
<1>4. CASE LockDevice(w)
  <2>1. pc' \in [Workers -> Points]
    BY <1>4 DEF LockDevice, TypeOK, Points
  <2>2. waiting' \in {waiting, waiting + 1}
    BY <1>4 DEF LockDevice
  <2>3. holder' \in [Devices -> Workers \cup {NoWorker}]
    BY <1>4 DEF LockDevice, TypeOK
  <2> QED
    BY <1>4, <2>1, <2>2, <2>3 DEF LockDevice, TypeOK
<1>5. CASE AdmitStale(w)
  BY <1>5, EnterTypes DEF AdmitStale, TypeOK, Points
<1>6. CASE Execute(w)
  <2>1. [In(j, "running") EXCEPT !.attempt = @ + 1] \in Jobs
    <3>1. In(j, "running") \in Jobs
      BY DEF States
    <3> QED
      BY <3>1 DEF Jobs
  <2>2. obj' \in [Ids -> Jobs] /\ row' \in [Ids -> Jobs]
    BY <1>6, <2>1 DEF Execute
  <2>3. /\ pc' \in [Workers -> Points] /\ stage' \in [Workers -> Stages]
        /\ code' \in [Workers -> Verdicts]
    BY <1>6 DEF Execute, TypeOK, Points, FirstStage, Stages, Verdicts
  <2> QED
    BY <1>6, <2>2, <2>3, EnterTypes DEF Execute, TypeOK
<1>7. CASE Spawn(w) \/ SpawnFails(w)
  BY <1>7 DEF Spawn, SpawnFails, TypeOK, Points, Verdicts, ProcStates
<1>8. CASE ChildExits(w) \/ StreamRaises(w)
  <2>1. Outcomes(w) \subseteq Verdicts
    BY DEF Outcomes, Verdicts
  <2>2. code' \in [Workers -> Verdicts] /\ child' \in [Ids -> ProcStates]
    BY <1>8, <2>1 DEF ChildExits, StreamRaises, TypeOK, ProcStates
  <2> QED
    BY <1>8, <2>2 DEF ChildExits, StreamRaises, TypeOK, Points
<1>9. CASE NextStage(w)
  <2>1. Following(w) \subseteq Stages
    BY DEF Following, Stages
  <2> QED
    BY <1>9, <2>1 DEF NextStage, TypeOK, Points, Verdicts
<1>10. In(j, "queued") \in Jobs /\ In(j, FinalState(w)) \in Jobs
  BY DEF FinalState, States, TerminalStates
<1>11. CASE Retry(w)
  BY <1>10, <1>11, QueueTypes DEF Retry, TypeOK, Points, Stages, Verdicts
<1>12. CASE Settle(w)
  BY <1>10, <1>12 DEF Settle, TypeOK, Points, Stages, Verdicts
<1>13. CASE SettlePull(w) \/ RecordRaises(w)
  BY <1>10, <1>13 DEF SettlePull, RecordRaises, TypeOK, Points, Stages, Verdicts
<1>14. CASE Reindexed(w) \/ ReindexRaises(w)
  BY <1>14 DEF Reindexed, ReindexRaises, TypeOK, Points
<1>15. CASE Leave(w)
  BY <1>15, ReleaseTypes DEF Leave, TypeOK, Inside
<1>16. CASE LeaveFailed(w)
  <2>1. In(j, "failed") \in Jobs
    BY DEF States, TerminalStates
  <2>2. obj' \in [Ids -> Jobs] /\ row' \in [Ids -> Jobs]
    BY <1>16, <2>1 DEF LeaveFailed, TypeOK
  <2> QED
    BY <1>16, <2>2, ReleaseTypes DEF LeaveFailed, Raising, TypeOK, Inside, Executing
<1> QED
  BY <1>4, <1>5, <1>6, <1>7, <1>8, <1>9, <1>11, <1>12, <1>13, <1>14, <1>15, <1>16 DEF Worker

LEMMA TypeStep == GateInv /\ [Next]_vars => TypeOK'
<1> SUFFICES ASSUME GateInv, [Next]_vars PROVE TypeOK'
  OBVIOUS
<1>0. TypeOK
  BY DEF GateInv
<1>1. CASE Users
  BY <1>0, <1>1, SubmitTypes, ClearFinishedTypes, JobActionTypes DEF Users
<1>2. CASE \E w \in Workers : Worker(w)
  BY <1>2, WorkerTypes
<1>3. CASE Environment
  BY <1>0, <1>3, PromoteTypes, JobActionTypes, ReloadTypes, CrashTypes, StartTypes
     DEF Environment
<1>4. CASE Rest \/ UNCHANGED vars
  BY <1>0, <1>4 DEF Rest, vars, disk, spent, work, gate, TypeOK
<1> QED
  BY <1>1, <1>2, <1>3, <1>4 DEF Next
-----------------------------------------------------------------------------
(* The gate. A step keeps it, or a worker takes its lock, enters, or leaves. *)

ExclusionInv == HoldsLock /\ CountsAreTrue /\ PullAlone

\* No worker crosses the lock or the gate.
LEMMA GateKept ==
  ASSUME GateInv, UNCHANGED gate,
         \A j \in 1..made : what'[j] = what[j],
         \A w \in Workers :
           /\ pc'[w] \in Inside <=> pc[w] \in Inside
           /\ pc'[w] = "admit" <=> pc[w] = "admit"
           /\ pc[w] # "idle" => cur'[w] = cur[w]
           /\ pc[w] = "idle" => cur'[w] # 0 \/ pc'[w] = "idle"
  PROVE  ExclusionInv'
<1>1. \A w \in Workers : pc[w] # "idle" =>
        /\ Dev(cur[w])' = Dev(cur[w])
        /\ IsPull(cur[w])' <=> IsPull(cur[w])
  BY Carrying DEF Dev, IsPull, Kind
<1>2. \A w \in Workers : pc[w] \in Inside \cup {"admit"} => pc[w] # "idle"
  BY DEF Inside, Executing
<1>3. HoldsLock'
  <2> SUFFICES ASSUME NEW w \in Workers
               PROVE  /\ pc'[w] # "idle" => cur'[w] # 0
                      /\ pc'[w] \in Inside \cup {"admit"} => holder'[Dev(cur[w])'] = w
    BY DEF HoldsLock
  <2>1. pc'[w] # "idle" => cur'[w] # 0
    BY DEF GateInv, HoldsLock
  <2>2. pc'[w] \in Inside \cup {"admit"} => holder'[Dev(cur[w])'] = w
    BY <1>1, <1>2 DEF GateInv, HoldsLock, gate
  <2> QED
    BY <2>1, <2>2
<1>4. PushersInside' = PushersInside /\ PullersWaiting' = PullersWaiting
  BY <1>1, <1>2 DEF PushersInside, PullersWaiting
<1>5. CountsAreTrue'
  BY <1>1, <1>2, <1>4 DEF GateInv, CountsAreTrue, gate
<1>6. PullAlone'
  BY <1>1, <1>2 DEF GateInv, PullAlone
<1> QED
  BY <1>3, <1>5, <1>6 DEF ExclusionInv

\* The steps that keep the gate: those of everybody but the workers and Crash.
LEMMA OthersKeepGate ==
  ASSUME GateInv, Users \/ Environment \/ Rest \/ UNCHANGED vars, ~Crash
  PROVE  /\ UNCHANGED <<work, gate>> /\ \A j \in 1..made : what'[j] = what[j]
         /\ ExclusionInv'
<1> USE DEF spent, disk, gate, work
<1>1. UNCHANGED <<work, gate>>
  BY DEF Users, Environment, Submit, AbortChild, AbortPending, Dismiss, StartNow,
         CancelChild, CancelNow, ClearFinished, Promote, CancelPolled, OrphanExits,
         Reload, Start, Rest, vars
<1>2. \A j \in 1..made : what'[j] = what[j]
  <2>1. CASE UNCHANGED what
    BY <2>1
  <2>2. CASE \E d \in Devices, deferred, hold \in BOOLEAN, dry \in DryRuns :
               Submit(d, deferred, hold, dry)
    BY <2>2 DEF Submit, GateInv, TypeOK
  <2>3. UNCHANGED what \/ \E d \in Devices, deferred, hold \in BOOLEAN, dry \in DryRuns :
                            Submit(d, deferred, hold, dry)
    BY DEF Users, Environment, AbortChild, AbortPending, Dismiss, StartNow,
           CancelChild, CancelNow, ClearFinished, Promote, CancelPolled, OrphanExits,
           Reload, Start, Rest, vars
  <2> QED
    BY <2>1, <2>2, <2>3
<1> QED
  BY <1>1, <1>2, GateKept DEF GateInv, HoldsLock

LEMMA CrashEmptiesGate ==
  ASSUME GateInv, Crash
  PROVE  ExclusionInv'
<1>1. PushersInside' = {} /\ PullersWaiting' = {}
  BY DEF Crash, PushersInside, PullersWaiting, Inside, Executing
<1>2. \A w \in Workers : pc'[w] = "idle"
  BY DEF Crash
<1>3. CountsAreTrue'
  BY <1>1, <1>2, FS_EmptySet DEF Crash, CountsAreTrue, Inside, Executing
<1> QED
  BY <1>2, <1>3 DEF ExclusionInv, HoldsLock, PullAlone, Inside, Executing

\* The device lock excludes: whoever holds a job of the device holds the lock.
LEMMA LockStep ==
  ASSUME GateInv, NEW w \in Workers, LockDevice(w)
  PROVE  ExclusionInv'
<1>1. /\ cur' = cur /\ what' = what /\ pushes' = pushes /\ pulling' = pulling
      /\ pc' = [pc EXCEPT ![w] = "admit"] /\ pc[w] = "lock"
      /\ holder' = [holder EXCEPT ![Dev(cur[w])] = w]
      /\ holder[Dev(cur[w])] = NoWorker
      /\ waiting' = IF IsPull(cur[w]) THEN waiting + 1 ELSE waiting
  BY DEF LockDevice, LockFree, At, Goto, disk
<1>2. pc \in [Workers -> Points] /\ holder \in [Devices -> Workers \cup {NoWorker}]
  BY DEF GateInv, TypeOK
<1>3. \A v \in Workers : (v = w /\ pc'[v] = "admit") \/ (v # w /\ pc'[v] = pc[v])
  BY <1>1, <1>2
<1>4. \A v \in Workers : Dev(cur[v])' = Dev(cur[v]) /\ (IsPull(cur[v])' <=> IsPull(cur[v]))
  BY <1>1 DEF Dev, IsPull, Kind
<1>5. HoldsLock'
  <2> SUFFICES ASSUME NEW v \in Workers
               PROVE  /\ pc'[v] # "idle" => cur'[v] # 0
                      /\ pc'[v] \in Inside \cup {"admit"} => holder'[Dev(cur[v])'] = v
    BY DEF HoldsLock
  <2>1. Dev(cur[w]) \in Devices
    BY <1>1, Carrying
  <2>2. CASE v = w
    BY <2>1, <2>2, <1>1, <1>2, <1>4 DEF GateInv, HoldsLock
  <2>3. CASE v # w
    <3>1. pc[v] \in Inside \cup {"admit"} => holder[Dev(cur[v])] = v
      BY DEF GateInv, HoldsLock
    <3>2. pc[v] \in Inside \cup {"admit"} => Dev(cur[v]) # Dev(cur[w])
      BY <3>1, <1>1, ConstantsOK
    <3>3. pc[v] # "idle" => cur[v] # 0
      BY DEF GateInv, HoldsLock
    <3> QED
      BY <2>3, <3>1, <3>2, <3>3, <1>1, <1>2, <1>3, <1>4
  <2> QED
    BY <2>2, <2>3
<1>6. PushersInside' = PushersInside
  BY <1>1, <1>3, <1>4 DEF PushersInside, Inside, Executing
<1>7. waiting' = Cardinality(PullersWaiting')
  <2>1. waiting = Cardinality(PullersWaiting) /\ IsFiniteSet(PullersWaiting)
    BY Counted DEF GateInv, CountsAreTrue
  <2>2. CASE IsPull(cur[w])
    <3>1. PullersWaiting' = PullersWaiting \cup {w} /\ w \notin PullersWaiting
      BY <1>1, <1>3, <1>4, <2>2 DEF PullersWaiting
    <3> QED
      BY <1>1, <2>1, <2>2, <3>1, FS_AddElement
  <2>3. CASE ~IsPull(cur[w])
    <3>1. PullersWaiting' = PullersWaiting
      BY <1>1, <1>3, <1>4, <2>3 DEF PullersWaiting
    <3> QED
      BY <1>1, <2>1, <2>3, <3>1
  <2> QED
    BY <2>2, <2>3
<1>8. CountsAreTrue'
  BY <1>1, <1>3, <1>4, <1>6, <1>7 DEF GateInv, CountsAreTrue, Inside, Executing
<1>9. PullAlone'
  BY <1>1, <1>3, <1>4 DEF GateInv, PullAlone, Inside, Executing
<1> QED
  BY <1>5, <1>8, <1>9 DEF ExclusionInv

\* What the two predicates of _admit are worth, given what the counters count.
LEMMA MayEnterMeans ==
  ASSUME GateInv, NEW j, MayEnter(j)
  PROVE  /\ \A v \in Workers : pc[v] \in Inside => ~IsPull(cur[v])
         /\ IsPull(j) => \A v \in Workers : pc[v] \notin Inside
         /\ ~IsPull(j) => \A v \in Workers : pc[v] = "admit" => ~IsPull(cur[v])
<1>1. \A v \in Workers : pc[v] \in Inside => ~IsPull(cur[v])
  BY DEF MayEnter, GateInv, CountsAreTrue
<1>2. \A v \in Workers : /\ v \in PushersInside => pushes > 0
                         /\ v \in PullersWaiting => waiting > 0
  BY Counted
<1>3. IsPull(j) => \A v \in Workers : pc[v] \notin Inside
  BY <1>1, <1>2 DEF MayEnter, PushersInside
<1>4. ~IsPull(j) => \A v \in Workers : pc[v] = "admit" => ~IsPull(cur[v])
  BY <1>2 DEF MayEnter, PullersWaiting
<1> QED
  BY <1>1, <1>3, <1>4

LEMMA EnterStep ==
  ASSUME GateInv, NEW w \in Workers, AdmitStale(w) \/ Execute(w)
  PROVE  ExclusionInv'
<1>1. /\ cur' = cur /\ what' = what /\ holder' = holder /\ pc[w] = "admit"
      /\ MayEnter(cur[w]) /\ Enter(cur[w])
      /\ pushes' = IF IsPull(cur[w]) THEN pushes ELSE pushes + 1
      /\ waiting' = IF IsPull(cur[w]) THEN waiting - 1 ELSE waiting
      /\ pulling' <=> pulling \/ IsPull(cur[w])
  BY DEF AdmitStale, Execute, Enter, At, Goto, disk
<1>2. pc'[w] \in Inside /\ \A v \in Workers \ {w} : pc'[v] = pc[v]
  BY DEF AdmitStale, Execute, Goto, GateInv, TypeOK, Inside, Executing
<1>3. \A v \in Workers : Dev(cur[v])' = Dev(cur[v]) /\ (IsPull(cur[v])' <=> IsPull(cur[v]))
  BY <1>1 DEF Dev, IsPull, Kind
<1>4. HoldsLock'
  BY <1>1, <1>2, <1>3 DEF GateInv, HoldsLock, Inside, Executing
<1>5. /\ pushes = Cardinality(PushersInside) /\ IsFiniteSet(PushersInside)
      /\ waiting = Cardinality(PullersWaiting) /\ IsFiniteSet(PullersWaiting)
  BY Counted DEF GateInv, CountsAreTrue
<1>6. pc[w] \notin Inside /\ pc'[w] # "admit"
  BY <1>1, <1>2 DEF Inside, Executing
<1>7. CASE IsPull(cur[w])
  <2>1. PushersInside' = PushersInside
    BY <1>1, <1>2, <1>3, <1>6, <1>7 DEF PushersInside
  <2>2. PullersWaiting' = PullersWaiting \ {w} /\ w \in PullersWaiting
    BY <1>1, <1>2, <1>3, <1>6, <1>7 DEF PullersWaiting
  <2>3. pushes' = Cardinality(PushersInside') /\ waiting' = Cardinality(PullersWaiting')
    BY <1>1, <1>5, <1>7, <2>1, <2>2, FS_RemoveElement
  <2>4. CountsAreTrue'
    BY <1>1, <1>7, <2>3 DEF CountsAreTrue
  <2>5. \A v \in Workers : pc'[v] \in Inside => v = w
    BY <1>1, <1>2, <1>7, MayEnterMeans
  <2>6. PullAlone'
    BY <2>5 DEF PullAlone
  <2> QED
    BY <1>4, <2>4, <2>6 DEF ExclusionInv
<1>8. CASE ~IsPull(cur[w])
  <2>1. PushersInside' = PushersInside \cup {w} /\ w \notin PushersInside
    BY <1>1, <1>2, <1>3, <1>6, <1>8 DEF PushersInside
  <2>2. PullersWaiting' = PullersWaiting
    BY <1>1, <1>2, <1>3, <1>6, <1>8 DEF PullersWaiting
  <2>3. pushes' = Cardinality(PushersInside') /\ waiting' = Cardinality(PullersWaiting')
    BY <1>1, <1>5, <1>8, <2>1, <2>2, FS_AddElement
  <2>4. \A v \in Workers : pc'[v] \in Inside => ~IsPull(cur[v])'
    BY <1>1, <1>2, <1>3, <1>8, MayEnterMeans
  <2>5. CountsAreTrue' /\ PullAlone'
    BY <2>3, <2>4 DEF CountsAreTrue, PullAlone
  <2> QED
    BY <1>4, <2>5 DEF ExclusionInv
<1> QED
  BY <1>7, <1>8

LEMMA ReleaseStep ==
  ASSUME GateInv, NEW w \in Workers, Leave(w) \/ LeaveFailed(w)
  PROVE  ExclusionInv'
<1>1. /\ what' = what /\ pc[w] \in Inside /\ pc[w] # "idle" /\ waiting' = waiting
      /\ cur' = [cur EXCEPT ![w] = 0] /\ pc' = [pc EXCEPT ![w] = "idle"]
      /\ holder' = [holder EXCEPT ![Dev(cur[w])] = NoWorker]
      /\ pushes' = IF IsPull(cur[w]) THEN pushes ELSE pushes - 1
      /\ pulling' <=> pulling /\ ~IsPull(cur[w])
  BY DEF Leave, LeaveFailed, Raising, Release, EndStages, At, Goto, disk, Inside, Executing,
         GateInv, TypeOK
<1>2. /\ pc \in [Workers -> Points] /\ cur \in [Workers -> 0..made]
      /\ holder \in [Devices -> Workers \cup {NoWorker}]
  BY DEF GateInv, TypeOK
<1>3. pc'[w] = "idle" /\ \A v \in Workers \ {w} : pc'[v] = pc[v] /\ cur'[v] = cur[v]
  BY <1>1, <1>2
<1>4. \A v \in Workers \ {w} :
        Dev(cur[v])' = Dev(cur[v]) /\ (IsPull(cur[v])' <=> IsPull(cur[v]))
  BY <1>1, <1>3 DEF Dev, IsPull, Kind
<1>5. HoldsLock'
  <2> SUFFICES ASSUME NEW v \in Workers \ {w}
               PROVE  /\ pc'[v] # "idle" => cur'[v] # 0
                      /\ pc'[v] \in Inside \cup {"admit"} => holder'[Dev(cur[v])'] = v
    BY <1>3 DEF HoldsLock, Inside, Executing
  <2>1. /\ pc[v] \in Inside \cup {"admit"} => holder[Dev(cur[v])] = v
        /\ holder[Dev(cur[w])] = w
        /\ pc[v] # "idle" => cur[v] # 0
    BY <1>1 DEF GateInv, HoldsLock
  <2>2. pc[v] \in Inside \cup {"admit"} => Dev(cur[v]) # Dev(cur[w])
    BY <2>1
  <2> QED
    BY <1>1, <1>2, <1>3, <1>4, <2>1, <2>2
<1>6. /\ pushes = Cardinality(PushersInside) /\ IsFiniteSet(PushersInside)
      /\ waiting = Cardinality(PullersWaiting)
  BY Counted DEF GateInv, CountsAreTrue
<1>7. PullersWaiting' = PullersWaiting
  BY <1>1, <1>3, <1>4 DEF PullersWaiting, Inside, Executing
<1>8. PushersInside' = PushersInside \ {w} /\ (w \in PushersInside <=> ~IsPull(cur[w]))
  BY <1>1, <1>3, <1>4 DEF PushersInside, Inside, Executing
<1>9. pushes' = Cardinality(PushersInside')
  BY <1>1, <1>6, <1>8, FS_RemoveElement
<1>10. \A v \in Workers : pc'[v] \in Inside =>
         v # w /\ pc[v] \in Inside /\ (IsPull(cur[v])' <=> IsPull(cur[v]))
  BY <1>3, <1>4 DEF Inside, Executing
<1>11. CountsAreTrue'
  <2>1. \A v \in Workers : pc'[v] \in Inside /\ IsPull(cur[v])' => pulling'
    BY <1>1, <1>10 DEF GateInv, CountsAreTrue, PullAlone
  <2> QED
    BY <1>1, <1>6, <1>7, <1>9, <2>1 DEF CountsAreTrue
<1>12. PullAlone'
  BY <1>10 DEF GateInv, PullAlone
<1> QED
  BY <1>5, <1>11, <1>12 DEF ExclusionInv

\* What a worker does between the lock and the gate, and inside.
LEMMA InnerStep ==
  ASSUME GateInv, NEW w \in Workers,
         \/ Take(w) \/ Spawn(w) \/ SpawnFails(w) \/ ChildExits(w) \/ StreamRaises(w)
         \/ NextStage(w) \/ Retry(w) \/ Settle(w) \/ SettlePull(w) \/ Reindexed(w)
         \/ RecordRaises(w) \/ ReindexRaises(w)
  PROVE  ExclusionInv'
<1> USE DEF At, Goto, EndStages, disk, gate
<1>1. UNCHANGED <<what, gate>>
  BY DEF Take, Spawn, SpawnFails, ChildExits, StreamRaises, NextStage, Retry, Settle,
         SettlePull, Reindexed, RecordRaises, ReindexRaises
<1>2. CASE Take(w)
  <2>1. queue # <<>> => Head(queue) # 0
    BY DEF GateInv, TypeOK
  <2>2. \/ pc' = pc /\ cur' = cur
        \/ pc' = [pc EXCEPT ![w] = "lock"] /\ cur' = [cur EXCEPT ![w] = Head(queue)]
    BY <1>2 DEF Take
  <2>3. pc[w] = "idle" /\ queue # <<>>
    BY <1>2 DEF Take
  <2>4. pc \in [Workers -> Points] /\ cur \in [Workers -> 0..made]
    BY DEF GateInv, TypeOK
  <2> QED
    BY <1>1, <2>1, <2>2, <2>3, <2>4, GateKept DEF Inside, Executing
<1>3. CASE ~Take(w)
  <2>1. cur' = cur /\ pc[w] \in Inside /\ \E p \in Inside : pc' = [pc EXCEPT ![w] = p]
    BY <1>3 DEF Spawn, SpawnFails, ChildExits, StreamRaises, NextStage, Retry, Settle,
         Settling, SettlePull, Reindexed, RecordRaises, ReindexRaises, Inside, Executing
  <2>2. pc \in [Workers -> Points]
    BY DEF GateInv, TypeOK
  <2>3. \A v \in Workers : /\ pc'[v] \in Inside <=> pc[v] \in Inside
                           /\ pc'[v] = "admit" <=> pc[v] = "admit"
                           /\ pc[v] = "idle" <=> pc'[v] = "idle"
    BY <2>1, <2>2 DEF Inside, Executing
  <2> QED
    BY <1>1, <2>1, <2>3, GateKept
<1> QED
  BY <1>2, <1>3

LEMMA GateStep == GateInv /\ [Next]_vars => GateInv'
<1> SUFFICES ASSUME GateInv, [Next]_vars PROVE GateInv'
  OBVIOUS
<1>1. ExclusionInv'
  <2>1. CASE Crash
    BY <2>1, CrashEmptiesGate
  <2>2. CASE (Users \/ Environment \/ Rest \/ UNCHANGED vars) /\ ~Crash
    BY <2>2, OthersKeepGate
  <2>3. CASE \E w \in Workers : Worker(w)
    BY <2>3, LockStep, EnterStep, ReleaseStep, InnerStep DEF Worker
  <2> QED
    BY <2>1, <2>2, <2>3 DEF Next
<1> QED
  BY <1>1, TypeStep DEF ExclusionInv, GateInv

\* The counters of _admit always count the workers they stand for, and every
\* variable keeps its type (jobs.py, JobRunner._admit and _run).
THEOREM GateInvariant == Spec => []GateInv
BY InitGate, GateStep, PTL DEF Spec

\* In particular _pushes and _pulls_waiting never go below zero.
THEOREM TypeCorrect == Spec => []TypeOK
BY GateInvariant, PTL DEF GateInv

\* "One job per device at a time": two workers never hold jobs of one device
\* past its lock (jobs.py, _device_locks).
THEOREM DevicesAreSerial == Spec => []OneJobPerDevice
<1>1. GateInv => OneJobPerDevice
  BY DEF GateInv, HoldsLock, OneJobPerDevice
<1> QED
  BY <1>1, GateInvariant, PTL

\* "A pull runs alone" (jobs.py, _admit).
THEOREM PullsRunAlone == Spec => []PullRunsAlone
<1>1. GateInv => PullRunsAlone
  <2> SUFFICES ASSUME GateInv, NEW v \in Workers, NEW w \in Workers,
                      Phase(v) = "inside", Role(v) = "pull", Phase(w) = "inside"
               PROVE  v = w
    BY DEF PullRunsAlone, Adm!PullRunsAlone, Adm!Is
  <2>1. pc[v] \in Inside /\ pc[w] \in Inside /\ IsPull(cur[v])
    BY DEF Phase, Role, Inside, Executing, IsPull
  <2> QED
    BY <2>1 DEF GateInv, PullAlone
<1> QED
  BY <1>1, GateInvariant, PTL
-----------------------------------------------------------------------------
(* The runner implements Admission. Its steps that cross the gate are steps  *)
(* of Admission; the others change nothing there.                            *)

LEMMA Stutters ==
  ASSUME GateInv, UNCHANGED gate,
         \A j \in 1..made : what'[j] = what[j],
         \A w \in Workers :
           /\ pc'[w] \in Inside <=> pc[w] \in Inside
           /\ pc'[w] = "admit" <=> pc[w] = "admit"
           /\ pc[w] # "idle" => cur'[w] = cur[w]
  PROVE  UNCHANGED Adm!vars
<1> SUFFICES ASSUME NEW w \in Workers
             PROVE  Phase(w)' = Phase(w) /\ Role(w)' = Role(w)
  BY DEF Adm!vars
<1>1. Phase(w)' = Phase(w)
  BY DEF Phase, Inside, Executing
<1>2. Phase(w) # "outside" => Kind(cur[w])' = Kind(cur[w])
  BY Carrying DEF Phase, Kind, Inside, Executing
<1> QED
  BY <1>1, <1>2 DEF Role

\* A step of one worker moves that worker only.
LEMMA OneMoves ==
  ASSUME GateInv, NEW w \in Workers, what' = what, NEW p, NEW c,
         pc' = [pc EXCEPT ![w] = p], cur' = [cur EXCEPT ![w] = c]
  PROVE  /\ [v \in Workers |-> Phase(v)]' = [[v \in Workers |-> Phase(v)] EXCEPT ![w] = Phase(w)']
         /\ [v \in Workers |-> Role(v)]' = [[v \in Workers |-> Role(v)] EXCEPT ![w] = Role(w)']
<1>1. \A v \in Workers \ {w} : pc'[v] = pc[v] /\ cur'[v] = cur[v]
  BY DEF GateInv, TypeOK
<1>2. \A v \in Workers \ {w} : Phase(v)' = Phase(v) /\ Role(v)' = Role(v)
  BY <1>1 DEF Phase, Role, Kind
<1> QED
  BY <1>2

LEMMA WorkerImplements ==
  ASSUME GateInv, NEW w \in Workers, Worker(w)
  PROVE  [Adm!Next]_Adm!vars
<1> USE DEF At, Goto
<1>0. /\ pc \in [Workers -> Points] /\ cur \in [Workers -> 0..made]
      /\ what \in [Ids -> [kind : Kinds, dev : Devices, dry : BOOLEAN]]
  BY DEF GateInv, TypeOK
<1>1. pc[w] # "idle" => Kind(cur[w]) \in Kinds
  BY <1>0, Carrying DEF Kind
<1>2. CASE LockDevice(w)
  <2>1. /\ pc[w] = "lock" /\ pc' = [pc EXCEPT ![w] = "admit"] /\ what' = what
        /\ cur' = [cur EXCEPT ![w] = cur[w]]
    BY <1>0, <1>2 DEF LockDevice, disk
  <2>2. Phase(w) = "outside" /\ Phase(w)' = "waiting" /\ Role(w)' \in Kinds
    BY <1>0, <1>1, <2>1 DEF Phase, Role, Kind, Inside, Executing
  <2>3. Adm!Arrive(w)
    BY <2>1, <2>2, OneMoves DEF Adm!Arrive, Adm!Kinds, Kinds
  <2> QED
    BY <2>3 DEF Adm!Next
<1>3. CASE AdmitStale(w) \/ Execute(w)
  <2>1. PICK p \in Inside : pc' = [pc EXCEPT ![w] = p]
    BY <1>3 DEF AdmitStale, Execute, Inside, Executing
  <2>2. /\ pc[w] = "admit" /\ what' = what /\ cur' = [cur EXCEPT ![w] = cur[w]]
        /\ MayEnter(cur[w])
    BY <1>0, <1>3 DEF AdmitStale, Execute, Enter, disk
  <2>3. /\ Phase(w) = "waiting" /\ Phase(w)' = "inside"
        /\ Role(w) = Kind(cur[w]) /\ Role(w)' = Role(w)
    BY <1>0, <2>1, <2>2 DEF Phase, Role, Kind, Inside, Executing
  <2>4. /\ [v \in Workers |-> Phase(v)]'
             = [[v \in Workers |-> Phase(v)] EXCEPT ![w] = "inside"]
        /\ [v \in Workers |-> Role(v)]' = [v \in Workers |-> Role(v)]
    BY <2>1, <2>2, <2>3, OneMoves
  <2>5. CASE IsPull(cur[w])
    <3>1. \A v \in Workers : Phase(v) # "inside"
      BY <2>2, <2>5, MayEnterMeans DEF Phase
    <3>2. Adm!EnterPull(w)
      BY <2>3, <2>4, <2>5, <3>1 DEF Adm!EnterPull, Adm!Is, IsPull
    <3> QED
      BY <3>2 DEF Adm!Next
  <2>6. CASE ~IsPull(cur[w])
    <3>1. \A v \in Workers : Role(v) = "pull" => Phase(v) \notin {"inside", "waiting"}
      BY <2>2, <2>6, MayEnterMeans DEF Phase, Role, IsPull
    <3>2. Role(w) = "push"
      BY <1>1, <2>2, <2>3, <2>6 DEF IsPull, Kinds
    <3>3. Adm!EnterPush(w)
      BY <2>3, <2>4, <3>1, <3>2 DEF Adm!EnterPush, Adm!Is
    <3> QED
      BY <3>3 DEF Adm!Next
  <2> QED
    BY <2>5, <2>6
<1>4. CASE Leave(w) \/ LeaveFailed(w)
  <2>1. /\ pc[w] \in Inside /\ pc' = [pc EXCEPT ![w] = "idle"] /\ what' = what
        /\ cur' = [cur EXCEPT ![w] = 0]
    BY <1>4 DEF Leave, LeaveFailed, Raising, Release, EndStages, disk, Inside, Executing
  <2>2. Phase(w) = "inside" /\ Phase(w)' = "outside" /\ Role(w)' = "push"
    BY <1>0, <2>1 DEF Phase, Role, Inside, Executing
  <2>3. Adm!Exit(w)
    BY <2>1, <2>2, OneMoves DEF Adm!Exit
  <2> QED
    BY <2>3 DEF Adm!Next
<1>5. CASE Take(w) \/ Spawn(w) \/ SpawnFails(w) \/ ChildExits(w) \/ StreamRaises(w)
           \/ NextStage(w) \/ Retry(w) \/ Settle(w) \/ SettlePull(w) \/ Reindexed(w)
           \/ RecordRaises(w) \/ ReindexRaises(w)
  <2>1. UNCHANGED <<what, gate>>
    BY <1>5 DEF Take, Spawn, SpawnFails, ChildExits, StreamRaises, NextStage, Retry, Settle,
           SettlePull, Reindexed, RecordRaises, ReindexRaises, EndStages, disk, gate
  <2>2. \/ cur' = cur /\ pc[w] \in Inside /\ \E p \in Inside : pc' = [pc EXCEPT ![w] = p]
        \/ pc[w] = "idle" /\ \E p \in {"idle", "lock"}, c \in 0..made :
             pc' = [pc EXCEPT ![w] = p] /\ cur' = [cur EXCEPT ![w] = c]
    <3>1. CASE Take(w)
      <4>1. Head(queue) \in 0..made
        BY <3>1 DEF Take, GateInv, TypeOK
      <4>2. /\ pc[w] = "idle"
            /\ \/ pc' = pc /\ cur' = cur
               \/ pc' = [pc EXCEPT ![w] = "lock"] /\ cur' = [cur EXCEPT ![w] = Head(queue)]
        BY <3>1 DEF Take
      <4>3. pc = [pc EXCEPT ![w] = "idle"] /\ cur = [cur EXCEPT ![w] = cur[w]]
        BY <1>0, <4>2
      <4> QED
        BY <1>0, <4>1, <4>2, <4>3
    <3>2. CASE ~Take(w)
      BY <1>5, <3>2 DEF Spawn, SpawnFails, ChildExits, StreamRaises, NextStage, Retry, Settle,
           Settling, SettlePull, Reindexed, RecordRaises, ReindexRaises, EndStages, Inside,
           Executing
    <3> QED
      BY <3>1, <3>2
  <2>3. \A v \in Workers : /\ pc'[v] \in Inside <=> pc[v] \in Inside
                           /\ pc'[v] = "admit" <=> pc[v] = "admit"
                           /\ pc[v] # "idle" => cur'[v] = cur[v]
    BY <1>0, <2>2 DEF Inside, Executing
  <2> QED
    BY <2>1, <2>3, Stutters
<1> QED
  BY <1>2, <1>3, <1>4, <1>5 DEF Worker

\* The runner implements Admission, for any number of workers and devices.
THEOREM AdmissionImplemented == Spec => ImplementsAdmission
<1>1. Init => Adm!Init
  BY DEF Init, Adm!Init, Phase, Role, Inside, Executing
<1>2. GateInv /\ [Next]_vars => [Adm!Next]_Adm!vars
  <2> SUFFICES ASSUME GateInv, [Next]_vars PROVE [Adm!Next]_Adm!vars
    OBVIOUS
  <2>1. CASE Crash
    <3>1. \A w \in Workers : Phase(w)' = "outside" /\ Role(w)' = "push"
      BY <2>1 DEF Crash, Phase, Role, Inside, Executing
    <3> QED
      BY <3>1 DEF Adm!Next, Adm!Restart
  <2>2. CASE (Users \/ Environment \/ Rest \/ UNCHANGED vars) /\ ~Crash
    <3>1. UNCHANGED <<work, gate>> /\ \A j \in 1..made : what'[j] = what[j]
      BY <2>2, OthersKeepGate
    <3> QED
      BY <3>1, Stutters DEF work
  <2>3. CASE \E w \in Workers : Worker(w)
    BY <2>3, WorkerImplements
  <2> QED
    BY <2>1, <2>2, <2>3 DEF Next
<1> QED
  BY <1>1, <1>2, GateInvariant, PTL DEF Spec, Adm!Spec, ImplementsAdmission
-----------------------------------------------------------------------------
(* Attempts. A job that waits has an attempt left, and running uses one up,  *)
(* whatever the queue, the user and the restarts do in between.              *)

AttemptOK(o) == /\ o.attempt <= Retries + 1
                /\ o.state \in {"queued", "deferred"} => o.attempt <= Retries

LEMMA SavedAttempt ==
  ASSUME TypeOK, AttemptsBounded, NEW j \in Ids, NEW o \in Jobs, AttemptOK(o)
  PROVE  /\ SetAndSave(j, o) => AttemptsBounded'
         /\ UNCHANGED obj /\ Save(j, o) => AttemptsBounded'
<1>1. \A i \in Ids : AttemptOK(obj[i]) /\ AttemptOK(row[i])
  BY DEF AttemptsBounded, AttemptOK
<1>2. obj \in [Ids -> Jobs] /\ row \in [Ids -> Jobs]
  BY DEF TypeOK
<1>3. Save(j, o) => \A i \in Ids : AttemptOK(row'[i])
  BY <1>1, <1>2 DEF Save
<1>4. SetAndSave(j, o) => \A i \in Ids : AttemptOK(obj'[i])
  BY <1>1, <1>2 DEF SetAndSave
<1> QED
  BY <1>1, <1>3, <1>4 DEF SetAndSave, AttemptsBounded, AttemptOK

LEMMA AttemptStep ==
  ASSUME GateInv, AttemptsBounded, [Next]_vars
  PROVE  AttemptsBounded'
<1> USE ConstantsOK DEF disk, spent, At
<1>0. TypeOK /\ obj \in [Ids -> Jobs] /\ row \in [Ids -> Jobs]
  BY DEF GateInv, TypeOK
<1>1. \A i \in Ids : AttemptOK(obj[i]) /\ AttemptOK(row[i])
  BY DEF AttemptsBounded, AttemptOK
<1>2. NoJob \in Jobs /\ AttemptOK(NoJob)
  BY DEF NoJob, Jobs, AttemptOK
<1>3. SUFFICES \A i \in Ids : AttemptOK(obj'[i]) /\ AttemptOK(row'[i])
  BY DEF AttemptsBounded, AttemptOK
<1>4. \A j \in Ids, o \in Jobs :
        /\ AttemptOK(o) /\ SetAndSave(j, o) => AttemptsBounded'
        /\ AttemptOK(o) /\ UNCHANGED obj /\ Save(j, o) => AttemptsBounded'
  BY <1>0, SavedAttempt
<1>5. \A j \in Ids : \A s \in States \ {"queued", "deferred"} :
        In(j, s) \in Jobs /\ AttemptOK(In(j, s))
  BY <1>0, <1>1, JobValues DEF In, AttemptOK, Jobs
<1>6. AttemptsBounded' => \A i \in Ids : AttemptOK(obj'[i]) /\ AttemptOK(row'[i])
  BY DEF AttemptsBounded, AttemptOK
<1>7. CASE UNCHANGED <<obj, row>>
  BY <1>1, <1>7
<1>8. CASE \E d \in Devices, deferred, hold \in BOOLEAN, dry \in DryRuns :
             Submit(d, deferred, hold, dry)
  BY <1>0, <1>1, <1>8 DEF Submit, AttemptOK
<1>9. CASE ClearFinished
  BY <1>0, <1>1, <1>2, <1>9 DEF ClearFinished
<1>10. ASSUME NEW j \in 1..made, AbortPending(j) \/ Dismiss(j)
       PROVE  \A i \in Ids : AttemptOK(obj'[i]) /\ AttemptOK(row'[i])
  <2>1. "aborted" \in States \ {"queued", "deferred"} /\ j \in Ids
    BY <1>0, QueueTypes DEF States, TerminalStates
  <2> QED
    BY <1>1, <1>4, <1>5, <1>6, <1>10, <2>1 DEF AbortPending, Dismiss
<1>11. ASSUME NEW j \in 1..made, StartNow(j)
       PROVE  \A i \in Ids : AttemptOK(obj'[i]) /\ AttemptOK(row'[i])
  <2>1. j \in Ids /\ "queued" \in States
    BY <1>0, QueueTypes DEF States
  <2>2. [In(j, "queued") EXCEPT !.hold = FALSE] \in Jobs
    BY <1>0, <2>1, JobValues DEF Jobs
  <2>3. AttemptOK([In(j, "queued") EXCEPT !.hold = FALSE])
    BY <1>0, <1>1, <1>11, <2>1 DEF StartNow, Runnable, Pending, In, AttemptOK, Jobs
  <2> QED
    BY <1>4, <1>6, <1>11, <2>1, <2>2, <2>3 DEF StartNow
<1>12. ASSUME NEW j \in 1..made, CancelNow(j) \/ CancelPolled(j)
       PROVE  \A i \in Ids : AttemptOK(obj'[i]) /\ AttemptOK(row'[i])
  BY <1>0, <1>1, <1>2, <1>12 DEF CancelNow, CancelPolled, Remove
<1>13. ASSUME NEW D \in SUBSET Devices, Promote(D)
       PROVE  \A i \in Ids : AttemptOK(obj'[i]) /\ AttemptOK(row'[i])
  <2>1. ASSUME NEW i \in Promotable(D)
        PROVE  AttemptOK(In(i, "queued"))
    <3>1. i \in Ids /\ obj[i] \in Jobs
      BY <1>0, QueueTypes DEF Promotable, TypeOK
    <3>2. /\ obj[i].state = "deferred"
          /\ AttemptOK(obj[i])
      BY <1>1, <3>1 DEF Promotable
    <3>3. /\ In(i, "queued").attempt = obj[i].attempt
          /\ In(i, "queued").state = "queued"
      BY <3>1 DEF In, Jobs
    <3> QED
      BY <3>2, <3>3 DEF AttemptOK
  <2>2. \A i \in Ids : AttemptOK(obj'[i])
    BY <1>1, <1>13, <2>1 DEF Promote
  <2>3. \A i \in Ids : row'[i] \in {row[i], obj'[i]}
    BY <1>13 DEF Promote
  <2> QED
    BY <1>1, <2>2, <2>3
<1>14. CASE Crash
  BY <1>1, <1>2, <1>14 DEF Crash
<1>15. CASE Start
  <2>1. \A i \in Ids : row'[i] \in {row[i], [row[i] EXCEPT !.state = "failed"]}
    BY <1>15 DEF Start, Restarted
  <2>2. \A i \in Ids : AttemptOK([row[i] EXCEPT !.state = "failed"])
    BY <1>0, <1>1 DEF AttemptOK, Jobs
  <2>3. \A i \in Ids : AttemptOK(row'[i])
    BY <1>1, <2>1, <2>2
  <2> QED
    BY <1>1, <1>2, <1>15, <2>3 DEF Start
<1>16. ASSUME NEW w \in Workers, Execute(w)
       PROVE  \A i \in Ids : AttemptOK(obj'[i]) /\ AttemptOK(row'[i])
  <2> DEFINE j == cur[w]
             o == [In(j, "running") EXCEPT !.attempt = @ + 1]
  <2>1. j \in Ids /\ "running" \in States
    BY <1>16, Carrying DEF Execute, States
  <2>2. In(j, "running") \in Jobs /\ Pending(j)
    BY <1>0, <1>16, <2>1, JobValues DEF Execute, Runnable
  <2>3. o \in Jobs /\ o.state = "running" /\ o.attempt = obj[j].attempt + 1
    <3>1. /\ In(j, "running").attempt = obj[j].attempt
          /\ In(j, "running").state = "running"
      BY <1>0, <2>1 DEF In, Jobs
    <3>2. In(j, "running").attempt + 1 \in Nat
      BY <2>2 DEF Jobs
    <3> HIDE DEF j
    <3> QED
      BY <2>2, <3>1, <3>2 DEF Jobs
  <2>4. obj[j].attempt <= Retries /\ obj[j].attempt \in Nat
    BY <1>0, <1>1, <2>1, <2>2 DEF Pending, AttemptOK, Jobs
  <2>5. AttemptOK(o)
    BY <2>3, <2>4 DEF AttemptOK
  <2> QED
    BY <1>4, <1>6, <1>16, <2>1, <2>3, <2>5 DEF Execute
<1>17. ASSUME NEW w \in Workers, Retry(w)
       PROVE  \A i \in Ids : AttemptOK(obj'[i]) /\ AttemptOK(row'[i])
  <2>1. cur[w] \in Ids /\ "queued" \in States
    BY <1>17, Carrying DEF Retry, Settling, States
  <2>2. In(cur[w], "queued") \in Jobs
    BY <1>0, <2>1, JobValues
  <2>3. AttemptOK(In(cur[w], "queued"))
    BY <1>0, <1>17, <2>1 DEF Retry, MayRetry, AttemptOK, In, Jobs
  <2> QED
    BY <1>4, <1>6, <1>17, <2>1, <2>2, <2>3 DEF Retry
<1>18. ASSUME NEW w \in Workers, Settle(w) \/ SettlePull(w) \/ RecordRaises(w)
       PROVE  \A i \in Ids : AttemptOK(obj'[i]) /\ AttemptOK(row'[i])
  <2>1. cur[w] \in Ids /\ FinalState(w) \in States \ {"queued", "deferred"}
    BY <1>18, Carrying DEF Settle, SettlePull, RecordRaises, Settling, FinalState, States,
       TerminalStates
  <2> QED
    BY <1>0, <1>1, <1>4, <1>5, <1>6, <1>18, <2>1 DEF Settle, SettlePull,
       RecordRaises
<1>19. ASSUME NEW w \in Workers, Reindexed(w)
       PROVE  \A i \in Ids : AttemptOK(obj'[i]) /\ AttemptOK(row'[i])
  <2>1. cur[w] \in Ids
    BY <1>19, Carrying DEF Reindexed
  <2> QED
    BY <1>0, <1>1, <1>4, <1>6, <1>19, <2>1 DEF Reindexed
<1>20. ASSUME NEW w \in Workers, LeaveFailed(w)
       PROVE  \A i \in Ids : AttemptOK(obj'[i]) /\ AttemptOK(row'[i])
  <2>1. cur[w] \in Ids /\ "failed" \in States \ {"queued", "deferred"}
    BY <1>20, Carrying DEF LeaveFailed, Raising, States, TerminalStates
  <2> QED
    BY <1>1, <1>4, <1>5, <1>6, <1>20, <2>1 DEF LeaveFailed
<1>21. CASE Users
  BY <1>7, <1>8, <1>9, <1>10, <1>11, <1>12, <1>21 DEF Users, AbortChild, CancelChild
<1>22. CASE Environment
  BY <1>7, <1>12, <1>13, <1>14, <1>15, <1>22 DEF Environment, OrphanExits, Reload
<1>23. CASE \E w \in Workers : Worker(w)
  <2> SUFFICES ASSUME NEW w \in Workers, Worker(w)
               PROVE  \A i \in Ids : AttemptOK(obj'[i]) /\ AttemptOK(row'[i])
    BY <1>23
  <2>1. CASE Take(w) \/ LockDevice(w) \/ AdmitStale(w) \/ Spawn(w) \/ SpawnFails(w)
             \/ ChildExits(w) \/ StreamRaises(w) \/ NextStage(w) \/ Leave(w)
             \/ ReindexRaises(w)
    BY <1>7, <2>1 DEF Take, LockDevice, AdmitStale, Spawn, SpawnFails, ChildExits,
       StreamRaises, NextStage, Leave, ReindexRaises
  <2> QED
    BY <1>16, <1>17, <1>18, <1>19, <1>20, <2>1 DEF Worker
<1> QED
  BY <1>7, <1>21, <1>22, <1>23 DEF Next, Rest, vars

\* A job never runs more than once and its retries (jobs.py, _execute and
\* _retries_for): no second enqueue, promotion or restart gives an attempt back.
THEOREM AttemptsAreBounded == Spec => []AttemptsBounded
<1>1. Init => AttemptsBounded
  BY ConstantsOK DEF Init, AttemptsBounded, NoJob
<1>2. GateInv /\ AttemptsBounded /\ [Next]_vars => AttemptsBounded'
  BY AttemptStep
<1> QED
  BY <1>1, <1>2, GateInvariant, PTL DEF Spec
-----------------------------------------------------------------------------
(* Transfers. While every log can be written, a process in _procs is one     *)
(* that some worker reads to its end.                                        *)

Reads(w, j) == cur[w] = j /\ pc[w] = "child" /\ Abortable(stage[w])

ChildrenAreRead == \A j \in Ids : InProc(j) => \E w \in Workers : Reads(w, j)

\* A step that leaves the processes and their readers as they are.
LEMMA ReadersStay ==
  ASSUME ChildrenAreRead,
         \A j \in Ids : InProc(j)' => InProc(j),
         \A w \in Workers : pc[w] = "child" =>
           pc'[w] = "child" /\ cur'[w] = cur[w] /\ stage'[w] = stage[w]
  PROVE  ChildrenAreRead'
<1> SUFFICES ASSUME NEW j \in Ids, InProc(j)' PROVE \E w \in Workers : Reads(w, j)'
  BY DEF ChildrenAreRead
<1>1. PICK w \in Workers : Reads(w, j)
  BY DEF ChildrenAreRead
<1> QED
  BY <1>1 DEF Reads, Abortable

LEMMA ReadersStep ==
  ASSUME ~LogFaults, GateInv, ChildrenAreRead, [Next]_vars
  PROVE  ChildrenAreRead'
<1> USE DEF disk, spent, work, gate, At, Goto, EndStages, InProc
<1>0. /\ child \in [Ids -> ProcStates] /\ pc \in [Workers -> Points]
      /\ cur \in [Workers -> 0..made] /\ stage \in [Workers -> Stages]
      /\ 1..made \subseteq Ids
  BY ConstantsOK DEF GateInv, TypeOK, Ids
<1>1. CASE UNCHANGED <<child, work>>
  BY <1>1, ReadersStay
<1>2. CASE Crash
  BY <1>2 DEF Crash, ChildrenAreRead
<1>3. ASSUME NEW j \in 1..made, AbortChild(j) \/ CancelChild(j) \/ OrphanExits(j)
      PROVE  ChildrenAreRead'
  <2>1. UNCHANGED work /\ \A i \in Ids : InProc(i)' => InProc(i)
    BY <1>0, <1>3 DEF AbortChild, CancelChild, OrphanExits
  <2> QED
    BY <2>1, ReadersStay
<1>4. ASSUME NEW w \in Workers, ChildExits(w) PROVE ChildrenAreRead'
  <2> SUFFICES ASSUME NEW j \in Ids, InProc(j)' PROVE \E v \in Workers : Reads(v, j)'
    BY DEF ChildrenAreRead
  <2>1. InProc(j) /\ (Abortable(stage[w]) => j # cur[w])
    BY <1>0, <1>4, Carrying DEF ChildExits
  <2>2. PICK v \in Workers : Reads(v, j)
    BY <2>1 DEF ChildrenAreRead
  <2>3. v # w
    BY <2>1, <2>2 DEF Reads
  <2> QED
    BY <1>0, <1>4, <2>2, <2>3 DEF ChildExits, Reads, Abortable
<1>5. ASSUME NEW w \in Workers, Spawn(w) PROVE ChildrenAreRead'
  <2> SUFFICES ASSUME NEW j \in Ids, InProc(j)' PROVE \E v \in Workers : Reads(v, j)'
    BY DEF ChildrenAreRead
  <2>1. CASE InProc(j)
    <3>1. PICK v \in Workers : Reads(v, j)
      BY <2>1 DEF ChildrenAreRead
    <3> QED
      BY <1>0, <1>5, <3>1 DEF Spawn, Reads, Abortable
  <2>2. CASE ~InProc(j)
    <3>1. j = cur[w] /\ Abortable(stage[w])
      BY <1>0, <1>5, <2>2 DEF Spawn
    <3> QED
      BY <1>0, <1>5, <3>1 DEF Spawn, Reads, Abortable
  <2> QED
    BY <2>1, <2>2
<1>6. ASSUME NEW w \in Workers, Worker(w), ~ChildExits(w), ~Spawn(w) PROVE ChildrenAreRead'
  <2>1. child' = child /\ pc[w] # "child"
    BY <1>6 DEF Worker, Take, LockDevice, AdmitStale, Execute, SpawnFails, StreamRaises,
       NextStage, Settling, Retry, Settle, SettlePull, Reindexed, RecordRaises, ReindexRaises,
       Leave, LeaveFailed, Raising
  <2>2. \A v \in Workers \ {w} : pc'[v] = pc[v] /\ cur'[v] = cur[v] /\ stage'[v] = stage[v]
    BY <1>0, <1>6 DEF Worker, Take, LockDevice, AdmitStale, Execute, SpawnFails, StreamRaises,
       NextStage, Retry, Settle, SettlePull, Reindexed, RecordRaises, ReindexRaises, Leave,
       LeaveFailed, Release
  <2> QED
    BY <2>1, <2>2, ReadersStay
<1>7. CASE Users
  BY <1>1, <1>3, <1>7 DEF Users, Submit, AbortPending, Dismiss, StartNow, CancelNow,
     ClearFinished
<1>8. CASE Environment
  BY <1>1, <1>2, <1>3, <1>8 DEF Environment, Promote, CancelPolled, Reload, Start
<1> QED
  BY <1>1, <1>4, <1>5, <1>6, <1>7, <1>8 DEF Next, Rest, vars

\* Two transfers alive at once are both pushes, and to different devices, so
\* that no two rsyncs write one target and no push reads a library a pull is
\* filling (jobs.py, _run, _admit and _stream). It rests on every log being
\* writable: the run logfault shows what happens otherwise.
THEOREM TransfersAreApart == ~LogFaults => (Spec => []TransfersApart)
<1> SUFFICES ASSUME ~LogFaults PROVE Spec => []TransfersApart
  OBVIOUS
<1>1. Init => ChildrenAreRead
  BY DEF Init, ChildrenAreRead, InProc
<1>2. GateInv /\ ChildrenAreRead /\ [Next]_vars => ChildrenAreRead'
  BY ReadersStep
<1>3. GateInv /\ ChildrenAreRead => TransfersApart
  <2> SUFFICES ASSUME GateInv, ChildrenAreRead, NEW i \in Ids, NEW j \in Ids,
                      InProc(i), InProc(j), i # j
               PROVE  Dev(i) # Dev(j) /\ ~IsPull(i)
    BY DEF TransfersApart
  <2>1. PICK v \in Workers, w \in Workers : Reads(v, i) /\ Reads(w, j)
    BY DEF ChildrenAreRead
  <2>2. v # w /\ pc[v] \in Inside /\ pc[w] \in Inside
    BY <2>1 DEF Reads, Inside, Executing
  <2> QED
    BY <2>1, <2>2 DEF GateInv, HoldsLock, PullAlone, Reads
<1> QED
  BY <1>1, <1>2, <1>3, GateInvariant, PTL DEF Spec
=============================================================================
