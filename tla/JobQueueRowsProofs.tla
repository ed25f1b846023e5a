------------------------- MODULE JobQueueRowsProofs -------------------------
(* Proofs about what the cards, the rows and the workers say of one job, for *)
(* any devices, workers and bounds.                                          *)
EXTENDS JobQueueProofs

\* What a worker is doing with a job: waiting to start it, running it, or on its way
\* from the verdict to what the row says: reindexing, or leaving with an exception.
Early == {"spawn", "child", "reaped", "raise"}
Waits(w, j) == cur[w] = j /\ pc[w] \in {"lock", "admit"}
Runs(w, j) == cur[w] = j /\ pc[w] \in Early
Reindexes(w, j) == cur[w] = j /\ pc[w] \in {"reindex", "raise late"}

\* The card of a job, while it is live, and its row.
CardOK(j) ==
  j \in live =>
    /\ obj[j].state # "none"
    /\ \/ row[j] = obj[j]
       \/ Finished(j) /\ row[j] = In(j, "running") /\ \E w \in Workers : Reindexes(w, j)
    /\ obj[j].state = "running" => \E w \in Workers : Runs(w, j)
    /\ obj[j].state = "queued" => j \in Range(queue) \/ \E w \in Workers : Waits(w, j)

\* The worker of a job, and its card.
WorkerOK(j) ==
  \A w \in Workers : /\ Runs(w, j) /\ j \in live => obj[j].state = "running"
                     /\ Reindexes(w, j) => Finished(j)

\* A row that reads running belongs to a card or to a reindex, or an exception left it
\* so, and nobody has the job any more.
RunningRowOK(j) ==
  up /\ row[j].state = "running" =>
    \/ j \in live
    \/ \E w \in Workers : Reindexes(w, j)
    \/ RecordFaults /\ \A w \in Workers : ~Runs(w, j)

\* Only where what follows a verdict may fail does a worker raise after it.
LateOK == \A w \in Workers : pc[w] = "raise late" => RecordFaults

\* While the process is down there is nothing but the store.
DownIsEmpty == ~up => live = {} /\ \A w \in Workers : pc[w] = "idle"

\* When no running card is closed, a job without a card has a row only if it had
\* finished, and what a worker still saves of it goes nowhere.
QuietOK(j) ==
  /\ up /\ row[j].state \in {"queued", "deferred"} => j \in live
  /\ \A w \in Workers : Runs(w, j) /\ j \notin live => row[j] = NoJob
  /\ \A w \in Workers : Reindexes(w, j) => row[j] \in {NoJob, In(j, "running")}

JobOK(j) ==
  /\ CardOK(j) /\ WorkerOK(j) /\ RunningRowOK(j)
  /\ ~DismissAny => QuietOK(j)

RowInv == DownIsEmpty /\ \A j \in Ids : JobOK(j)
-----------------------------------------------------------------------------
(* Queues, and what the gate's invariant says of them and of the workers.    *)

LEMMA AppendRange ==
  ASSUME NEW S, NEW q \in Seq(S), NEW x \in S
  PROVE  Range(Append(q, x)) = Range(q) \cup {x}
<1>1. <<x>> \in Seq(S) /\ Append(q, x) = q \o <<x>>
  OBVIOUS
<1>2. Range(<<x>>) = {x}
  BY DEF Range
<1>3. Range(q \o <<x>>) = Range(q) \cup Range(<<x>>)
  BY <1>1, RangeConcatenation, Zenon
<1> QED
  BY <1>1, <1>2, <1>3, Zenon

LEMMA QueueRanges ==
  ASSUME NEW S, NEW q \in Seq(S)
  PROVE  /\ \A s \in Seq(S) : Range(q \o s) = Range(q) \cup Range(s)
         /\ q # <<>> => Range(q) = {Head(q)} \cup Range(Tail(q))
<1>1. ASSUME q # <<>> PROVE Range(q) = {Head(q)} \cup Range(Tail(q))
  <2>1. /\ <<Head(q)>> \in Seq(S) /\ Tail(q) \in Seq(S)
        /\ q = <<Head(q)>> \o Tail(q)
    BY <1>1
  <2>2. Range(<<Head(q)>>) = {Head(q)}
    BY DEF Range
  <2>3. Range(<<Head(q)>> \o Tail(q)) = Range(<<Head(q)>>) \cup Range(Tail(q))
    BY <2>1, RangeConcatenation, Zenon
  <2> QED
    BY <2>1, <2>2, <2>3, Zenon
<1> QED
  BY <1>1, RangeConcatenation

LEMMA RowTypes ==
  ASSUME GateInv
  PROVE  /\ obj \in [Ids -> Jobs] /\ row \in [Ids -> Jobs]
         /\ pc \in [Workers -> Points] /\ cur \in [Workers -> 0..made]
         /\ 1..made \subseteq Ids /\ 0 \notin Ids /\ live \subseteq Ids
         /\ queue \in Seq(1..made) /\ made \in 0..MaxJobs /\ up \in BOOLEAN
BY ConstantsOK DEF GateInv, TypeOK, Ids

LEMMA Enqueued ==
  ASSUME GateInv, NEW j \in Ids, Enqueue(j)
  PROVE  Range(queue') = Range(queue) \cup {j}
<1>1. queue \in [1..Len(queue) -> Ids] /\ Len(queue) \in Nat
  BY RowTypes
<1>2. queue \in Seq(Ids)
  BY <1>1, SeqDef
<1>3. Range(Append(queue, j)) = Range(queue) \cup {j}
  BY <1>2, AppendRange
<1> QED
  BY <1>3 DEF Enqueue

\* The device lock makes a job's worker its only one.
LEMMA OneWorker ==
  ASSUME GateInv, NEW v \in Workers, NEW w \in Workers, cur[v] = cur[w],
         pc[v] \in Inside, pc[w] \in Inside
  PROVE  v = w
BY DEF GateInv, HoldsLock, Dev

\* The values a card takes.
LEMMA CardValues ==
  ASSUME GateInv, NEW j \in Ids
  PROVE  /\ \A s \in States : In(j, s).state = s
         /\ obj[j].state = "running" => In(j, "running") = obj[j]
         /\ NoJob.state = "none"
<1>1. obj[j] \in Jobs
  BY RowTypes
<1> QED
  BY <1>1 DEF In, NoJob, Jobs, States

\* A job nothing has happened to. Somebody else may have queued or taken jobs.
LEMMA JobKept ==
  ASSUME NEW j \in Ids, JobOK(j),
         obj'[j] = obj[j], row'[j] = row[j], j \in live' <=> j \in live, up' = up,
         \A w \in Workers : /\ Runs(w, j)' <=> Runs(w, j)
                            /\ Reindexes(w, j)' <=> Reindexes(w, j)
                            /\ Waits(w, j) => Waits(w, j)',
         j \in live /\ obj[j].state = "queued" /\ j \in Range(queue) =>
           j \in Range(queue') \/ \E w \in Workers : Waits(w, j)'
  PROVE  JobOK(j)'
<1>1. Finished(j)' <=> Finished(j)
  BY DEF Finished
<1>2. \A s : In(j, s)' = In(j, s)
  BY DEF In
<1>3. CardOK(j)'
  BY <1>1, <1>2 DEF JobOK, CardOK
<1>4. WorkerOK(j)'
  BY <1>1 DEF JobOK, WorkerOK
<1>5. RunningRowOK(j)'
  BY DEF JobOK, RunningRowOK
<1>6. ~DismissAny => QuietOK(j)'
  BY <1>2 DEF JobOK, QuietOK
<1> QED
  BY <1>3, <1>4, <1>5, <1>6 DEF JobOK

\* A step of somebody who is not a worker, on the job j alone.
LEMMA OthersApart ==
  ASSUME RowInv, UNCHANGED <<up, pc, cur>>, NEW j \in Ids,
         \A i \in Ids \ {j} : /\ obj'[i] = obj[i] /\ row'[i] = row[i]
                              /\ i \in live' <=> i \in live,
         Range(queue) \subseteq Range(queue')
  PROVE  \A i \in Ids \ {j} : JobOK(i)'
<1> SUFFICES ASSUME NEW i \in Ids \ {j} PROVE JobOK(i)'
  OBVIOUS
<1>1. \A w \in Workers : /\ Runs(w, i)' <=> Runs(w, i)
                         /\ Reindexes(w, i)' <=> Reindexes(w, i)
                         /\ Waits(w, i) => Waits(w, i)'
  BY DEF Runs, Reindexes, Waits
<1> QED
  BY <1>1, JobKept DEF RowInv

\* The same of a worker, on its own job.
LEMMA WorkerApart ==
  ASSUME GateInv, RowInv, NEW w \in Workers, Worker(w), ~Take(w),
         \A i \in Ids \ {cur[w]} : obj'[i] = obj[i] /\ row'[i] = row[i],
         Range(queue) \subseteq Range(queue')
  PROVE  \A i \in Ids \ {cur[w]} : JobOK(i)'
<1> SUFFICES ASSUME NEW i \in Ids \ {cur[w]} PROVE JobOK(i)'
  OBVIOUS
<1>1. /\ UNCHANGED <<up, live>> /\ cur'[w] \in {cur[w], 0}
      /\ \A v \in Workers \ {w} : pc'[v] = pc[v] /\ cur'[v] = cur[v]
  BY RowTypes DEF Worker, LockDevice, AdmitStale, Execute, Spawn, SpawnFails, ChildExits,
     StreamRaises, NextStage, Retry, Settle, SettlePull, Reindexed, RecordRaises,
     ReindexRaises, Leave, LeaveFailed, Release, EndStages, Goto, work, disk
<1>2. \A v \in Workers : /\ Runs(v, i)' <=> Runs(v, i)
                         /\ Reindexes(v, i)' <=> Reindexes(v, i)
                         /\ Waits(v, i) => Waits(v, i)'
  BY <1>1, RowTypes DEF Runs, Reindexes, Waits
<1> QED
  BY <1>1, <1>2, JobKept DEF RowInv
-----------------------------------------------------------------------------
(* What users, the probe and the restart do.                                 *)

LEMMA SubmitRows ==
  ASSUME GateInv, RowInv, NEW d \in Devices, NEW deferred \in BOOLEAN, NEW hold \in BOOLEAN,
         NEW dry \in DryRuns, Submit(d, deferred, hold, dry)
  PROVE  RowInv'
<1> USE DEF work
<1>0. PICK j \in Ids : j = made + 1
  BY RowTypes, ConstantsOK DEF Submit, Ids
<1>1. j \notin 0..made
  BY <1>0, RowTypes
<1>2. /\ obj'[j] = row'[j] /\ obj'[j].state = (IF deferred THEN "deferred" ELSE "queued")
      /\ j \in live' /\ up /\ up'
  BY <1>0, RowTypes DEF Submit
<1>3. IF deferred THEN queue' = queue ELSE Enqueue(j)
  BY <1>0 DEF Submit
<1>5. Range(queue) \subseteq Range(queue') /\ (~deferred => j \in Range(queue'))
  BY <1>3, Enqueued
<1>6. \A w \in Workers : ~Runs(w, j)' /\ ~Reindexes(w, j)' /\ cur'[w] # j
  BY <1>1, RowTypes DEF Submit, Runs, Reindexes
<1>7. JobOK(j)'
  BY <1>2, <1>5, <1>6 DEF JobOK, CardOK, WorkerOK, RunningRowOK, QuietOK
<1>8. \A i \in Ids \ {j} : JobOK(i)'
  BY <1>0, <1>1, <1>5, OthersApart, RowTypes DEF Submit
<1> QED
  BY <1>2, <1>7, <1>8 DEF RowInv, DownIsEmpty

\* The card and the row of a job that waits, which no worker runs.
LEMMA PendingJob ==
  ASSUME GateInv, RowInv, NEW j \in live, Pending(j)
  PROVE  /\ j \in Ids /\ up
         /\ row[j] = obj[j] /\ row[j] # NoJob
         /\ \A w \in Workers : ~Runs(w, j) /\ ~Reindexes(w, j)
<1>1. j \in Ids /\ JobOK(j)
  BY RowTypes DEF RowInv
<1>2. obj[j].state \in {"queued", "deferred"} /\ ~Finished(j)
  BY DEF Pending, Finished, TerminalStates
<1> QED
  BY <1>1, <1>2, CardValues DEF JobOK, CardOK, WorkerOK, RowInv, DownIsEmpty

\* A job that waits is given another state in which no worker has it.
LEMMA PendingRows ==
  ASSUME GateInv, RowInv, NEW j \in live, NEW o \in Jobs, Pending(j), SetAndSave(j, o),
         UNCHANGED <<up, live, pc, cur>>, Range(queue) \subseteq Range(queue'),
         \/ o.state \in {"aborted", "deferred"}
         \/ o.state = "queued" /\ j \in Range(queue')
  PROVE  RowInv'
<1>1. /\ j \in Ids /\ up /\ row[j] # NoJob
      /\ \A w \in Workers : ~Runs(w, j)' /\ ~Reindexes(w, j)'
  BY PendingJob DEF Runs, Reindexes
<1>2. /\ obj' = [obj EXCEPT ![j] = o] /\ row' = [row EXCEPT ![j] = o]
      /\ obj'[j] = o /\ row'[j] = o
  BY <1>1, RowTypes DEF SetAndSave, Save
<1>3. JobOK(j)'
  BY <1>1, <1>2 DEF JobOK, CardOK, WorkerOK, RunningRowOK, QuietOK
<1>4. \A i \in Ids \ {j} : JobOK(i)'
  BY <1>1, <1>2, OthersApart, RowTypes
<1> QED
  BY <1>1, <1>3, <1>4 DEF RowInv, DownIsEmpty

LEMMA DismissRows ==
  ASSUME GateInv, RowInv, NEW j \in 1..made, Dismiss(j)
  PROVE  RowInv'
<1> USE DEF work
<1>1. j \in Ids /\ JobOK(j) /\ j \in live /\ up /\ j \notin live' /\ up'
  BY RowTypes DEF RowInv, Dismiss
<1>2. \A w \in Workers : /\ Runs(w, j)' <=> Runs(w, j)
                         /\ Reindexes(w, j)' <=> Reindexes(w, j)
  BY DEF Dismiss, Runs, Reindexes
<1>3. ASSUME Finished(j) PROVE JobOK(j)'
  <2>1. UNCHANGED <<obj, row>>
    BY <1>3 DEF Dismiss
  <2>2. In(j, "running")' = In(j, "running") /\ Finished(j)' /\ obj[j].state \in TerminalStates
    BY <1>3, <2>1 DEF In, Finished
  <2>3. WorkerOK(j)' /\ CardOK(j)'
    BY <1>1, <2>2 DEF WorkerOK, CardOK
  <2>4. \/ row[j].state \in TerminalStates
        \/ row[j].state = "running" /\ \E w \in Workers : Reindexes(w, j)
    BY <1>1, <2>2, CardValues DEF JobOK, CardOK, States
  <2>5. RunningRowOK(j)'
    BY <1>2, <2>1, <2>4 DEF RunningRowOK, TerminalStates
  <2>6. QuietOK(j) => QuietOK(j)'
    <3>1. \A w \in Workers : ~Runs(w, j)
      BY <1>1, <2>2 DEF JobOK, WorkerOK, TerminalStates
    <3> QED
      BY <1>2, <2>1, <2>2, <2>4, <3>1 DEF QuietOK, TerminalStates
  <2> QED
    BY <1>1, <2>3, <2>5, <2>6 DEF JobOK
<1>4. ASSUME ~Finished(j) PROVE JobOK(j)'
  <2>1. /\ SetAndSave(j, In(j, "aborted")) /\ In(j, "aborted").state = "aborted"
        /\ obj[j].state = "running" => DismissAny
    BY <1>1, <1>4, CardValues DEF Dismiss, States, TerminalStates
  <2>2. obj'[j].state = "aborted" /\ (row'[j].state = "aborted" \/ row'[j] = NoJob)
    BY <1>1, <2>1, RowTypes DEF SetAndSave, Save
  <2>3. /\ \A w \in Workers : ~Reindexes(w, j)
        /\ ~DismissAny => \A w \in Workers : ~Runs(w, j)
    BY <1>1, <1>4, <2>1 DEF JobOK, WorkerOK
  <2>4. row'[j].state \notin {"queued", "deferred", "running"}
    BY <1>1, <2>2, CardValues
  <2> QED
    BY <1>1, <1>2, <2>2, <2>3, <2>4 DEF JobOK, CardOK, WorkerOK, RunningRowOK, QuietOK
<1>5. JobOK(j)'
  BY <1>3, <1>4
<1>6. \A i \in Ids \ {j} : JobOK(i)'
  BY <1>1, OthersApart, RowTypes DEF Dismiss, SetAndSave, Save
<1> QED
  BY <1>1, <1>5, <1>6 DEF RowInv, DownIsEmpty

LEMMA RemoveRows ==
  ASSUME GateInv, RowInv, NEW j \in 1..made, up, Remove(j),
         UNCHANGED <<up, obj, queue, pc, cur>>
  PROVE  RowInv'
<1>1. j \in Ids /\ JobOK(j) /\ j \notin live' /\ row'[j] = NoJob
  BY RowTypes DEF RowInv, Remove
<1>2. \A w \in Workers : /\ Runs(w, j)' <=> Runs(w, j)
                         /\ Reindexes(w, j)' <=> Reindexes(w, j)
  BY DEF Runs, Reindexes
<1>3. JobOK(j)'
  BY <1>1, <1>2, CardValues DEF JobOK, CardOK, WorkerOK, RunningRowOK, QuietOK, Finished
<1>4. \A i \in Ids \ {j} : JobOK(i)'
  BY <1>1, OthersApart, RowTypes DEF Remove
<1> QED
  BY <1>3, <1>4 DEF RowInv, DownIsEmpty

LEMMA ClearFinishedRows ==
  ASSUME GateInv, RowInv, ClearFinished
  PROVE  RowInv'
<1> USE DEF work
<1>1. UNCHANGED <<up, obj, queue, pc, cur>> /\ up
  BY DEF ClearFinished
<1> SUFFICES ASSUME NEW j \in Ids PROVE JobOK(j)'
  BY <1>1 DEF RowInv, DownIsEmpty
<1>2. JobOK(j)
  BY DEF RowInv
<1>3. /\ j \in live' <=> j \in live /\ ~Finished(j)
      /\ row'[j] = IF row[j].state \in TerminalStates THEN NoJob ELSE row[j]
  BY DEF ClearFinished
<1>4. \A w \in Workers : /\ Runs(w, j)' <=> Runs(w, j)
                         /\ Reindexes(w, j)' <=> Reindexes(w, j)
                         /\ Waits(w, j)' <=> Waits(w, j)
  BY <1>1 DEF Runs, Reindexes, Waits
<1>5. In(j, "running")' = In(j, "running") /\ (Finished(j)' <=> Finished(j))
  BY <1>1 DEF In, Finished
<1>6. CardOK(j)'
  BY <1>1, <1>2, <1>3, <1>4, <1>5 DEF JobOK, CardOK, Finished
<1>7. WorkerOK(j)'
  BY <1>1, <1>2, <1>3, <1>4, <1>5 DEF JobOK, WorkerOK
<1>8. j \in live /\ Finished(j) =>
        \/ row[j].state \in TerminalStates
        \/ row[j].state = "running" /\ \E w \in Workers : Reindexes(w, j)
  BY <1>2, CardValues DEF JobOK, CardOK, Finished, States
<1>9. RunningRowOK(j)'
  BY <1>1, <1>2, <1>3, <1>4, <1>8, CardValues DEF JobOK, RunningRowOK, TerminalStates
<1>10. QuietOK(j) => QuietOK(j)'
  <2>1. \A w \in Workers : Runs(w, j) /\ j \in live => ~Finished(j)
    BY <1>2 DEF JobOK, WorkerOK, Finished, TerminalStates
  <2> QED
    BY <1>1, <1>3, <1>4, <1>5, <1>8, <2>1, CardValues DEF QuietOK, TerminalStates
<1> QED
  BY <1>2, <1>6, <1>7, <1>9, <1>10 DEF JobOK

\* The members of a sequence of OldestFirst.
LEMMA OldestFirstRange ==
  ASSUME TypeOK, NEW P \in SUBSET (1..made), NEW s \in OldestFirst(P)
  PROVE  s \in Seq(1..made) /\ P \subseteq Range(s)
BY OldestFirstTypes DEF OldestFirst, Range

LEMMA PromoteRows ==
  ASSUME GateInv, RowInv, NEW D \in SUBSET Devices, Promote(D)
  PROVE  RowInv'
<1> USE DEF work
<1>1. UNCHANGED <<up, live, pc, cur>> /\ up
  BY DEF Promote
<1>2. TypeOK /\ queue \in Seq(1..made) /\ Promotable(D) \in SUBSET (1..made)
  BY DEF GateInv, TypeOK, Promotable
<1>3. PICK s \in OldestFirst(Promotable(D)) : queue' = queue \o s
  BY DEF Promote
<1>4. Range(queue') = Range(queue) \cup Range(s) /\ Promotable(D) \subseteq Range(s)
  BY <1>2, <1>3, OldestFirstRange, QueueRanges
<1> SUFFICES ASSUME NEW j \in Ids PROVE JobOK(j)'
  BY <1>1 DEF RowInv, DownIsEmpty
<1>5. JobOK(j)
  BY DEF RowInv
<1>6. \A w \in Workers : /\ Runs(w, j)' <=> Runs(w, j)
                         /\ Reindexes(w, j)' <=> Reindexes(w, j)
                         /\ Waits(w, j) => Waits(w, j)'
  BY <1>1 DEF Runs, Reindexes, Waits
<1>7. CASE j \notin Promotable(D)
  <2>1. obj'[j] = obj[j] /\ row'[j] = row[j]
    BY <1>7 DEF Promote
  <2> QED
    BY <1>1, <1>4, <1>5, <1>6, <2>1, JobKept
<1>8. CASE j \in Promotable(D)
  <2>1. j \in live /\ Pending(j)
    BY <1>8 DEF Promotable, Pending
  <2>2. row[j] # NoJob /\ \A w \in Workers : ~Runs(w, j) /\ ~Reindexes(w, j)
    BY <2>1, PendingJob
  <2>3. obj'[j] = In(j, "queued") /\ row'[j] = obj'[j]
    BY <1>8, <2>2 DEF Promote
  <2>4. obj'[j].state = "queued" /\ j \in Range(queue')
    BY <1>4, <1>8, <2>3, CardValues DEF States
  <2> QED
    BY <1>1, <1>6, <2>1, <2>2, <2>3, <2>4
       DEF JobOK, CardOK, WorkerOK, RunningRowOK, QuietOK
<1> QED
  BY <1>7, <1>8

LEMMA CrashRows ==
  ASSUME GateInv, RowInv, Crash
  PROVE  RowInv'
<1>1. ~up' /\ live' = {} /\ \A w \in Workers : pc'[w] = "idle"
  BY DEF Crash
<1>2. \A j \in Ids, w \in Workers : ~Runs(w, j)' /\ ~Reindexes(w, j)'
  BY <1>1 DEF Runs, Reindexes, Early
<1> QED
  BY <1>1, <1>2 DEF RowInv, DownIsEmpty, JobOK, CardOK, WorkerOK, RunningRowOK, QuietOK

LEMMA StartRows ==
  ASSUME GateInv, RowInv, Start
  PROVE  RowInv'
<1> USE DEF work
<1>1. ~up /\ up' /\ UNCHANGED <<pc, cur>> /\ live' = Readopted
  BY DEF Start
<1>2. \A j \in Ids, w \in Workers : ~Runs(w, j)' /\ ~Reindexes(w, j)'
  BY <1>1 DEF RowInv, DownIsEmpty, Runs, Reindexes, Early
<1>3. TypeOK /\ {j \in Readopted : row[j].state = "queued"} \in SUBSET (1..made)
  BY DEF GateInv, Readopted
<1>4. {j \in Readopted : row[j].state = "queued"} \subseteq Range(queue')
  BY <1>3, OldestFirstRange DEF Start
<1> SUFFICES ASSUME NEW j \in Ids PROVE JobOK(j)'
  BY <1>1 DEF RowInv, DownIsEmpty
<1>5. row'[j] = Restarted(j) /\ obj'[j] = IF j \in Readopted THEN row[j] ELSE NoJob
  BY DEF Start
<1>6. CASE j \in Readopted
  <2>1. row'[j] = row[j] /\ obj'[j] = row[j] /\ row[j].state \in {"queued", "deferred"}
    BY <1>5, <1>6 DEF Restarted, Readopted
  <2> QED
    BY <1>1, <1>2, <1>4, <1>6, <2>1 DEF JobOK, CardOK, WorkerOK, RunningRowOK, QuietOK
<1>7. CASE j \notin Readopted
  <2>1. row[j] \in Jobs
    BY RowTypes
  <2>2. row'[j].state \notin {"running", "queued", "deferred"}
    BY <1>5, <1>7, <2>1 DEF Restarted, Jobs
  <2> QED
    BY <1>1, <1>2, <1>7, <2>2 DEF JobOK, CardOK, WorkerOK, RunningRowOK, QuietOK
<1> QED
  BY <1>6, <1>7
-----------------------------------------------------------------------------
(* What the workers do.                                                      *)

LEMMA TakeRows ==
  ASSUME GateInv, RowInv, NEW w \in Workers, Take(w)
  PROVE  RowInv'
<1> USE DEF disk
<1>1. UNCHANGED <<up, live, obj, row>> /\ up /\ pc[w] = "idle" /\ queue # <<>>
  BY DEF Take, At
<1>2. \A v \in Workers \ {w} : pc'[v] = pc[v] /\ cur'[v] = cur[v]
  BY RowTypes DEF Take, Goto
<1>3. Range(queue) = {Head(queue)} \cup Range(queue')
  <2>1. queue' = Tail(queue) /\ queue \in Seq(1..made)
    BY RowTypes DEF Take
  <2>2. Range(queue) = {Head(queue)} \cup Range(Tail(queue))
    BY <1>1, <2>1, QueueRanges, Zenon
  <2> QED
    BY <2>1, <2>2
<1>4. Runnable(Head(queue)) => pc'[w] = "lock" /\ cur'[w] = Head(queue)
  BY RowTypes DEF Take, Goto
<1>5. pc'[w] \in {"idle", "lock"}
  BY <1>1, RowTypes DEF Take, Goto
<1> SUFFICES ASSUME NEW j \in Ids PROVE JobOK(j)'
  BY <1>1 DEF RowInv, DownIsEmpty
<1>6. \A v \in Workers : /\ Runs(v, j)' <=> Runs(v, j)
                         /\ Reindexes(v, j)' <=> Reindexes(v, j)
                         /\ Waits(v, j) => Waits(v, j)'
  BY <1>1, <1>2, <1>5 DEF Runs, Reindexes, Waits, Early
<1>7. ASSUME j \in live, obj[j].state = "queued", j \in Range(queue)
      PROVE  j \in Range(queue') \/ \E v \in Workers : Waits(v, j)'
  <2>1. CASE j = Head(queue)
    BY <1>4, <1>7, <2>1 DEF Runnable, Pending, Waits
  <2>2. CASE j # Head(queue)
    BY <1>3, <1>7, <2>2
  <2> QED
    BY <2>1, <2>2
<1> QED
  BY <1>1, <1>6, <1>7, JobKept DEF RowInv

\* Steps that leave the cards, the rows and the queue alone, with a job that
\* stays where it was, or waits no more because it cannot start.
LEMMA PassingRows ==
  ASSUME GateInv, RowInv, NEW w \in Workers,
         \/ LockDevice(w) \/ AdmitStale(w) \/ Spawn(w) \/ SpawnFails(w) \/ ChildExits(w)
         \/ StreamRaises(w) \/ NextStage(w) \/ ReindexRaises(w) \/ Leave(w)
  PROVE  RowInv'
<1> USE DEF disk
<1>1. UNCHANGED <<up, live, obj, row, queue>> /\ up
  BY DEF LockDevice, AdmitStale, Spawn, SpawnFails, ChildExits, StreamRaises, NextStage,
         ReindexRaises, Leave, At
<1>2. \A v \in Workers \ {w} : pc'[v] = pc[v] /\ cur'[v] = cur[v]
  BY RowTypes DEF LockDevice, AdmitStale, Spawn, SpawnFails, ChildExits, StreamRaises,
     NextStage, ReindexRaises, Leave, Release, EndStages, Goto
<1>3. \/ pc[w] = "lock" /\ pc'[w] = "admit" /\ cur' = cur
      \/ pc[w] = "admit" /\ pc'[w] = "leave" /\ cur' = cur /\ ~Runnable(cur[w])
      \/ pc[w] \in Early /\ pc'[w] \in Early /\ cur' = cur
      \/ pc[w] = "reindex" /\ pc'[w] = "raise late" /\ cur' = cur
      \/ pc[w] = "leave" /\ pc'[w] = "idle"
  BY RowTypes DEF LockDevice, AdmitStale, Spawn, SpawnFails, ChildExits, StreamRaises,
     NextStage, ReindexRaises, Leave, Release, EndStages, Goto, At, Early
<1> SUFFICES ASSUME NEW j \in Ids PROVE JobOK(j)'
  BY <1>1 DEF RowInv, DownIsEmpty
<1>4. JobOK(j)
  BY DEF RowInv
<1>5. \A v \in Workers : /\ Runs(v, j)' <=> Runs(v, j)
                         /\ Reindexes(v, j)' <=> Reindexes(v, j)
  BY <1>2, <1>3 DEF Runs, Reindexes, Early
<1>6. \A v \in Workers : Waits(v, j) => Waits(v, j)' \/ ~Runnable(j)
  BY <1>2, <1>3 DEF Waits, Early
<1>7. j \in live /\ obj[j].state = "queued" => Runnable(j)
  BY DEF Runnable, Pending
<1>8. In(j, "running")' = In(j, "running") /\ (Finished(j)' <=> Finished(j))
  BY <1>1 DEF In, Finished
<1>9. CardOK(j)'
  BY <1>1, <1>4, <1>5, <1>6, <1>7, <1>8 DEF JobOK, CardOK
<1> QED
  BY <1>1, <1>4, <1>5, <1>8, <1>9 DEF JobOK, WorkerOK, RunningRowOK, QuietOK

\* A worker's own job, at an action that changes its card or its row.
LEMMA OwnJob ==
  ASSUME GateInv, RowInv, NEW w \in Workers, pc[w] # "idle", up
  PROVE  /\ cur[w] \in Ids /\ JobOK(cur[w])
         /\ pc[w] \in Inside => \A v \in Workers \ {w} :
              ~Runs(v, cur[w]) /\ ~Reindexes(v, cur[w])
<1>1. cur[w] \in Ids
  BY Carrying
<1>2. Early \subseteq Inside /\ {"reindex", "raise late"} \subseteq Inside
  BY DEF Early, Inside, Executing
<1> QED
  BY <1>1, <1>2, OneWorker DEF RowInv, Runs, Reindexes

LEMMA ExecuteRows ==
  ASSUME GateInv, RowInv, NEW w \in Workers, Execute(w)
  PROVE  RowInv'
<1> DEFINE o == [In(cur[w], "running") EXCEPT !.attempt = @ + 1]
<1>0. PICK j \in Ids : j = cur[w]
  BY OwnJob DEF Execute, At
<1>1. /\ up /\ pc[w] = "admit" /\ j \in live /\ Pending(j) /\ SetAndSave(j, o)
      /\ UNCHANGED <<up, live, queue, cur>>
      /\ pc' = [pc EXCEPT ![w] = pc'[w]] /\ pc'[w] \in {"reaped", "spawn"}
  BY <1>0, RowTypes DEF Execute, At, Runnable, Goto
<1>2. /\ row[j] # NoJob
      /\ \A v \in Workers : ~Runs(v, j) /\ ~Reindexes(v, j)
  BY <1>1, PendingJob
<1>3. o.state = "running"
  <2>1. In(j, "running") \in Jobs /\ In(j, "running").state = "running"
    BY CardValues, JobValues DEF GateInv, States
  <2> QED
    BY <1>0, <2>1 DEF Jobs
<1> HIDE DEF o
<1>4. /\ obj' = [obj EXCEPT ![j] = o] /\ row' = [row EXCEPT ![j] = o]
      /\ obj'[j] = o /\ row'[j] = o
  BY <1>1, <1>2, RowTypes DEF SetAndSave, Save
<1>5. /\ Runs(w, j)'
      /\ \A v \in Workers : ~Reindexes(v, j)' /\ (Runs(v, j)' => v = w)
  BY <1>0, <1>1, <1>2, RowTypes DEF Runs, Reindexes, Early
<1>6. JobOK(j)'
  BY <1>1, <1>3, <1>4, <1>5 DEF JobOK, CardOK, WorkerOK, RunningRowOK, QuietOK
<1>7. \A i \in Ids \ {j} : JobOK(i)'
  <2>1. Worker(w) /\ ~Take(w)
    BY <1>1 DEF Worker, Take, At
  <2> QED
    BY <1>0, <1>1, <1>4, <2>1, WorkerApart, RowTypes
<1> QED
  BY <1>1, <1>6, <1>7 DEF RowInv, DownIsEmpty

\* The verdict, or the next attempt. A running job that has lost its card has no
\* row, unless its card was closed.
LEMMA RunningJob ==
  ASSUME GateInv, RowInv, NEW w \in Workers, pc[w] \in Early, up
  PROVE  /\ cur[w] \in live =>
              obj[cur[w]].state = "running" /\ row[cur[w]] = obj[cur[w]]
         /\ cur[w] \notin live =>
              row[cur[w]].state # "running" /\ (~DismissAny => row[cur[w]] = NoJob)
         /\ ~Reindexes(w, cur[w])
<1>1. JobOK(cur[w]) /\ cur[w] \in Ids /\ Runs(w, cur[w])
      /\ \A v \in Workers : ~Reindexes(v, cur[w])
  BY OwnJob DEF Runs, Reindexes, Early, Inside, Executing
<1>2. cur[w] \in live => obj[cur[w]].state = "running" /\ row[cur[w]] = obj[cur[w]]
  BY <1>1 DEF JobOK, CardOK, WorkerOK
<1>3. cur[w] \notin live =>
         row[cur[w]].state # "running" /\ (~DismissAny => row[cur[w]] = NoJob)
  BY <1>1 DEF JobOK, RunningRowOK, QuietOK
<1> QED
  BY <1>1, <1>2, <1>3

\* The worker saves a state the job is left in.
LEMMA DecidedRows ==
  ASSUME GateInv, RowInv, NEW w \in Workers, pc[w] \in Early, up, Worker(w),
         NEW s \in States \ {"running"},
         SetAndSave(cur[w], In(cur[w], s)),
         pc'[w] \in {"leave", "idle"}, Range(queue) \subseteq Range(queue'),
         s = "queued" => cur[w] \in Range(queue')
  PROVE  RowInv'
<1>0. PICK j \in Ids : j = cur[w]
  BY OwnJob DEF Early
<1>1. UNCHANGED <<up, live>> /\ ~Take(w)
  BY DEF Worker, Take, LockDevice, AdmitStale, Execute, Spawn, SpawnFails, ChildExits,
         StreamRaises, NextStage, Retry, Settle, SettlePull, Reindexed, RecordRaises,
         ReindexRaises, Leave, LeaveFailed, At, Early, disk
<1>2. \A v \in Workers \ {w} : pc'[v] = pc[v] /\ cur'[v] = cur[v]
  BY RowTypes DEF Worker, Take, LockDevice, AdmitStale, Execute, Spawn, SpawnFails, ChildExits,
         StreamRaises, NextStage, Retry, Settle, SettlePull, Reindexed, RecordRaises,
         ReindexRaises, Leave, LeaveFailed, Release, EndStages, Goto
<1>3. \A v \in Workers : ~Runs(v, j)' /\ ~Reindexes(v, j)'
  BY <1>0, <1>2, OwnJob DEF Runs, Reindexes, Early, Inside, Executing
<1>4. /\ obj'[j] = In(j, s) /\ obj'[j].state = s /\ s # "none"
      /\ row[j] # NoJob => row'[j] = In(j, s)
      /\ row[j] = NoJob => row'[j] = NoJob
  BY <1>0, RowTypes, CardValues DEF SetAndSave, Save, States, TerminalStates
<1>5. /\ j \in live => row[j] # NoJob
      /\ j \notin live /\ ~DismissAny => row[j] = NoJob
  BY <1>0, RunningJob, CardValues
<1>6. NoJob.state = "none"
  BY DEF NoJob
<1>7. CardOK(j)'
  BY <1>0, <1>1, <1>4, <1>5 DEF CardOK
<1>8. JobOK(j)'
  BY <1>1, <1>3, <1>4, <1>5, <1>6, <1>7 DEF JobOK, WorkerOK, RunningRowOK, QuietOK
<1>9. \A i \in Ids \ {j} : JobOK(i)'
  BY <1>0, <1>1, WorkerApart, RowTypes DEF SetAndSave, Save
<1> QED
  BY <1>1, <1>8, <1>9 DEF RowInv, DownIsEmpty

LEMMA DecideRows ==
  ASSUME GateInv, RowInv, NEW w \in Workers,
         Retry(w) \/ Settle(w) \/ (LeaveFailed(w) /\ At(w, "raise"))
  PROVE  RowInv'
<1>1. pc[w] \in Early /\ up /\ Worker(w) /\ cur[w] \in 1..made
  BY Carrying DEF Retry, Settle, LeaveFailed, Settling, At, Early, Worker
<1>2. CASE Retry(w)
  <2>1. Enqueue(cur[w]) /\ pc'[w] = "leave" /\ cur[w] \in Ids
    BY <1>1, <1>2, RowTypes DEF Retry, EndStages, Goto
  <2>2. Range(queue') = Range(queue) \cup {cur[w]}
    BY <2>1, Enqueued
  <2> QED
    BY <1>1, <1>2, <2>1, <2>2, DecidedRows DEF Retry, States
<1>3. CASE Settle(w)
  <2>1. FinalState(w) \in States \ {"running"} /\ FinalState(w) # "queued"
    BY DEF FinalState, States, TerminalStates
  <2>2. pc'[w] = "leave" /\ queue' = queue /\ SetAndSave(cur[w], In(cur[w], FinalState(w)))
    BY <1>3, RowTypes DEF Settle, EndStages, Goto
  <2> QED
    BY <1>1, <2>1, <2>2, DecidedRows
<1>4. CASE LeaveFailed(w) /\ cur[w] \in live
  <2>1. "failed" \in States \ {"running"} /\ "failed" # "queued"
    BY DEF States, TerminalStates
  <2>2. pc'[w] = "idle" /\ queue' = queue /\ SetAndSave(cur[w], In(cur[w], "failed"))
    BY <1>4, RowTypes DEF LeaveFailed, Release, EndStages, Goto
  <2> QED
    BY <1>1, <2>1, <2>2, DecidedRows
<1>5. CASE LeaveFailed(w) /\ cur[w] \notin live
  <2>0. PICK j \in Ids : j = cur[w]
    BY <1>1, OwnJob DEF Early
  <2>1. /\ UNCHANGED <<up, live, obj, row, queue>> /\ pc'[w] = "idle" /\ ~Take(w)
        /\ \A v \in Workers \ {w} : pc'[v] = pc[v] /\ cur'[v] = cur[v]
    BY <1>5, RowTypes DEF LeaveFailed, Release, EndStages, Goto, Take, At
  <2>2. \A v \in Workers : ~Runs(v, j)' /\ ~Reindexes(v, j)'
    BY <1>1, <2>0, <2>1, OwnJob DEF Runs, Reindexes, Early, Inside, Executing
  <2>3. JobOK(j) /\ row[j].state # "running"
    BY <1>1, <1>5, <2>0, RunningJob DEF RowInv
  <2>4. JobOK(j)'
    BY <1>5, <2>0, <2>1, <2>2, <2>3 DEF JobOK, CardOK, WorkerOK, RunningRowOK, QuietOK
  <2>5. \A i \in Ids \ {j} : JobOK(i)'
    BY <1>1, <2>0, <2>1, WorkerApart
  <2> QED
    BY <1>1, <2>1, <2>4, <2>5 DEF RowInv, DownIsEmpty
<1> QED
  BY <1>2, <1>3, <1>4, <1>5

\* A pull's verdict is on its card at once and in its row after the reindex; an
\* exception may keep any verdict from its row.
LEMMA SettlePullRows ==
  ASSUME GateInv, RowInv, NEW w \in Workers, SettlePull(w) \/ RecordRaises(w)
  PROVE  RowInv'
<1>0. PICK j \in Ids : j = cur[w]
  BY OwnJob DEF SettlePull, RecordRaises, Settling, At
<1>1. /\ up /\ pc[w] \in Early /\ pc'[w] \in {"reindex", "raise late"}
      /\ UNCHANGED <<up, live, row, queue, cur>> /\ Worker(w) /\ ~Take(w)
      /\ \A v \in Workers \ {w} : pc'[v] = pc[v]
  BY RowTypes DEF SettlePull, RecordRaises, Settling, At, Early, EndStages, Goto, Worker,
     Take, disk
<1>2. /\ obj' = [obj EXCEPT ![j] = In(j, FinalState(w))]
      /\ obj'[j] = In(j, FinalState(w)) /\ obj'[j].state \in TerminalStates
  <2>1. FinalState(w) \in States /\ FinalState(w) \in TerminalStates
    BY DEF FinalState, States, TerminalStates
  <2>2. obj' = [obj EXCEPT ![j] = In(j, FinalState(w))]
    BY <1>0 DEF SettlePull, RecordRaises
  <2> QED
    BY <2>1, <2>2, RowTypes, CardValues
<1>3. /\ Reindexes(w, j)'
      /\ \A v \in Workers : ~Runs(v, j)'
  BY <1>0, <1>1, OwnJob DEF Runs, Reindexes, Early, Inside, Executing
<1>4. Finished(j)' /\ In(j, "running")' = In(j, "running")
  <2>1. In(j, "running")' = [obj'[j] EXCEPT !.state = "running"]
    BY DEF In
  <2>2. obj[j] \in Jobs
    BY RowTypes
  <2>3. [In(j, FinalState(w)) EXCEPT !.state = "running"] = In(j, "running")
    BY <2>2 DEF In, Jobs
  <2> QED
    BY <1>2, <2>1, <2>3 DEF Finished
<1>5. /\ j \in live => row[j] = In(j, "running")
      /\ j \notin live => row[j].state # "running" /\ (~DismissAny => row[j] = NoJob)
  BY <1>0, <1>1, RunningJob, CardValues
<1>6. CardOK(j)'
  BY <1>1, <1>2, <1>3, <1>4, <1>5 DEF CardOK, TerminalStates
<1>7. WorkerOK(j)' /\ RunningRowOK(j)'
  BY <1>1, <1>3, <1>4 DEF WorkerOK, RunningRowOK
<1>8. ~DismissAny => QuietOK(j)'
  <2>1. In(j, "running").state = "running" /\ NoJob.state = "none"
    BY CardValues DEF States
  <2> QED
    BY <1>1, <1>3, <1>4, <1>5, <2>1 DEF QuietOK
<1>9. \A i \in Ids \ {j} : JobOK(i)'
  BY <1>0, <1>1, <1>2, WorkerApart, RowTypes
<1> QED
  BY <1>1, <1>6, <1>7, <1>8, <1>9 DEF JobOK, RowInv, DownIsEmpty

LEMMA ReindexedRows ==
  ASSUME GateInv, RowInv, NEW w \in Workers, Reindexed(w)
  PROVE  RowInv'
<1>0. PICK j \in Ids : j = cur[w]
  BY OwnJob DEF Reindexed, At
<1>1. /\ up /\ pc[w] = "reindex" /\ pc'[w] = "leave"
      /\ UNCHANGED <<up, live, obj, queue, cur>> /\ Worker(w) /\ ~Take(w)
      /\ \A v \in Workers \ {w} : pc'[v] = pc[v]
  BY RowTypes DEF Reindexed, At, Goto, Worker, Take
<1>2. JobOK(j) /\ Reindexes(w, j)
  BY <1>0, <1>1 DEF RowInv, Reindexes
<1>3. \A v \in Workers : ~Runs(v, j)' /\ ~Reindexes(v, j)'
  BY <1>0, <1>1, OwnJob DEF Runs, Reindexes, Early, Inside, Executing
<1>4. Finished(j) /\ obj'[j].state \in TerminalStates
  BY <1>1, <1>2 DEF JobOK, WorkerOK, Finished
<1>5. /\ row[j] # NoJob => row'[j] = obj'[j]
      /\ row[j] = NoJob => row'[j] = NoJob
  BY <1>0, <1>1, RowTypes DEF Reindexed, Save
<1>6. j \in live => row[j] # NoJob
  BY <1>2, CardValues DEF JobOK, CardOK, States
<1>7. NoJob.state = "none"
  BY DEF NoJob
<1>8. JobOK(j)'
  BY <1>1, <1>3, <1>4, <1>5, <1>6, <1>7
     DEF JobOK, CardOK, WorkerOK, RunningRowOK, QuietOK, TerminalStates
<1>9. \A i \in Ids \ {j} : JobOK(i)'
  BY <1>0, <1>1, WorkerApart, RowTypes DEF Reindexed, Save
<1> QED
  BY <1>1, <1>8, <1>9 DEF RowInv, DownIsEmpty
\* An exception after the verdict makes a failed job of a live card, and of nothing else.
LEMMA LateRows ==
  ASSUME GateInv, RowInv, LateOK, NEW w \in Workers, LeaveFailed(w), ~At(w, "raise")
  PROVE  RowInv'
<1>0. PICK j \in Ids : j = cur[w]
  BY OwnJob DEF LeaveFailed, Raising, At
<1>1. /\ up /\ pc[w] = "raise late" /\ pc'[w] = "idle" /\ RecordFaults
      /\ UNCHANGED <<up, live, queue>> /\ Worker(w) /\ ~Take(w)
      /\ \A v \in Workers \ {w} : pc'[v] = pc[v] /\ cur'[v] = cur[v]
  BY RowTypes DEF LeaveFailed, Raising, LateOK, Release, EndStages, At, Goto, Worker, Take
<1>2. JobOK(j) /\ Reindexes(w, j)
  BY <1>0, <1>1 DEF RowInv, Reindexes
<1>3. \A v \in Workers : ~Runs(v, j)' /\ ~Reindexes(v, j)'
  BY <1>0, <1>1, OwnJob DEF Runs, Reindexes, Early, Inside, Executing
<1>4. JobOK(j)'
  <2>1. CASE j \in live
    <3>1. row[j] # NoJob /\ SetAndSave(j, In(j, "failed"))
      BY <1>0, <1>2, <2>1, CardValues DEF JobOK, CardOK, States, LeaveFailed
    <3>2. obj'[j] = In(j, "failed") /\ row'[j] = obj'[j] /\ obj'[j].state = "failed"
      BY <3>1, RowTypes, CardValues DEF SetAndSave, Save, States, TerminalStates
    <3> QED
      BY <1>1, <1>3, <2>1, <3>2 DEF JobOK, CardOK, WorkerOK, RunningRowOK, QuietOK
  <2>2. CASE j \notin live
    <3>1. UNCHANGED <<obj, row>>
      BY <1>0, <2>2 DEF LeaveFailed
    <3> QED
      BY <1>1, <1>2, <1>3, <2>2, <3>1 DEF JobOK, CardOK, WorkerOK, RunningRowOK, QuietOK
  <2> QED
    BY <2>1, <2>2
<1>5. \A i \in Ids \ {j} : JobOK(i)'
  BY <1>0, <1>1, WorkerApart, RowTypes DEF LeaveFailed, SetAndSave, Save
<1> QED
  BY <1>1, <1>4, <1>5 DEF RowInv, DownIsEmpty
-----------------------------------------------------------------------------
(* The invariant, and what follows from it.                                  *)

\* Only the two actions of RecordFaults make a worker raise late.
LEMMA LateStep ==
  ASSUME GateInv, LateOK, [Next]_vars
  PROVE  LateOK'
<1>1. CASE pc' = pc
  BY <1>1 DEF LateOK
<1>2. ASSUME NEW w \in Workers, NEW p \in Points \ {"raise late"}, pc' = [pc EXCEPT ![w] = p]
      PROVE  LateOK'
  BY <1>2, RowTypes DEF LateOK
<1>3. ASSUME NEW w \in Workers, Worker(w) PROVE LateOK'
  <2>1. CASE RecordRaises(w) \/ ReindexRaises(w)
    BY <2>1 DEF RecordRaises, ReindexRaises, LateOK
  <2>2. CASE ~(RecordRaises(w) \/ ReindexRaises(w))
    BY <1>1, <1>2, <1>3, <2>2 DEF Worker, Take, LockDevice, AdmitStale, Execute, Spawn,
       SpawnFails, ChildExits, StreamRaises, NextStage, Retry, Settle, SettlePull, Reindexed,
       Leave, LeaveFailed, Release, EndStages, Goto, Points
  <2> QED
    BY <2>1, <2>2
<1>4. CASE Users
  BY <1>1, <1>4 DEF Users, Submit, AbortChild, AbortPending, Dismiss, StartNow, CancelChild,
     CancelNow, ClearFinished, work
<1>5. CASE Crash
  BY <1>5 DEF Crash, LateOK
<1>6. CASE Environment
  BY <1>1, <1>5, <1>6 DEF Environment, Promote, CancelPolled, OrphanExits, Reload, Start, work
<1> QED
  BY <1>1, <1>3, <1>4, <1>6 DEF Next, Rest, vars, work

LEMMA RowStep ==
  ASSUME GateInv, RowInv, LateOK, [Next]_vars
  PROVE  RowInv'
<1>1. CASE UNCHANGED <<up, obj, row, live, queue, pc, cur>>
  <2>1. \A j \in Ids, w \in Workers : /\ Runs(w, j)' <=> Runs(w, j)
                                      /\ Reindexes(w, j)' <=> Reindexes(w, j)
                                      /\ Waits(w, j)' <=> Waits(w, j)
    BY <1>1 DEF Runs, Reindexes, Waits
  <2>2. \A j \in Ids : JobOK(j)'
    BY <1>1, <2>1, JobKept DEF RowInv
  <2> QED
    BY <1>1, <2>2 DEF RowInv, DownIsEmpty
<1>2. ASSUME NEW j \in 1..made, AbortPending(j) PROVE RowInv'
  <2>1. In(j, "aborted") \in Jobs /\ In(j, "aborted").state = "aborted" /\ j \in Ids
    BY RowTypes, JobValues, CardValues DEF GateInv, States, TerminalStates
  <2> QED
    BY <1>2, <2>1, PendingRows DEF AbortPending, Runnable, work
<1>3. ASSUME NEW j \in 1..made, StartNow(j) PROVE RowInv'
  <2> DEFINE o == [In(j, "queued") EXCEPT !.hold = FALSE]
  <2>1. j \in Ids /\ In(j, "queued") \in Jobs /\ In(j, "queued").state = "queued"
    BY RowTypes, JobValues, CardValues DEF GateInv, States
  <2>2. o \in Jobs /\ o.state = "queued"
    BY <2>1 DEF Jobs
  <2>3. Enqueue(j) /\ SetAndSave(j, o)
    BY <1>3 DEF StartNow
  <2>4. Range(queue') = Range(queue) \cup {j}
    BY <2>1, <2>3, Enqueued
  <2> HIDE DEF o
  <2> QED
    BY <1>3, <2>2, <2>3, <2>4, PendingRows DEF StartNow, Runnable, work
<1>4. ASSUME NEW j \in 1..made, CancelNow(j) \/ CancelPolled(j) PROVE RowInv'
  BY <1>4, RemoveRows DEF CancelNow, CancelPolled, work
<1>5. CASE Users
  BY <1>1, <1>2, <1>3, <1>4, <1>5, SubmitRows, DismissRows, ClearFinishedRows
     DEF Users, AbortChild, CancelChild, work
<1>6. CASE Environment
  BY <1>1, <1>4, <1>6, PromoteRows, CrashRows, StartRows
     DEF Environment, OrphanExits, Reload, work, disk
<1>7. CASE \E w \in Workers : Worker(w)
  BY <1>7, TakeRows, PassingRows, ExecuteRows, DecideRows, SettlePullRows, ReindexedRows,
     LateRows DEF Worker
<1>8. CASE Rest \/ UNCHANGED vars
  BY <1>1, <1>8 DEF Rest, vars, work, disk
<1> QED
  BY <1>5, <1>6, <1>7, <1>8 DEF Next

LEMMA InitRows == Init => RowInv
<1> SUFFICES ASSUME Init PROVE RowInv
  OBVIOUS
<1>1. \A j \in Ids, w \in Workers : ~Runs(w, j) /\ ~Reindexes(w, j)
  BY DEF Init, Runs, Reindexes, Early
<1> QED
  BY <1>1 DEF Init, RowInv, DownIsEmpty, JobOK, CardOK, WorkerOK, RunningRowOK, QuietOK, NoJob

\* What a card, a row and a worker say of one job always agrees.
THEOREM RowInvariant == Spec => []RowInv
<1>1. Init => LateOK
  BY DEF Init, LateOK
<1> QED
  BY <1>1, InitRows, LateStep, RowStep, GateInvariant, PTL DEF Spec

\* The history row of a live job says what its card says, but for a pull whose
\* reindex is still running (jobs.py, _execute): whatever users, retries,
\* promotions and restarts do in between.
THEOREM RowsFollow == Spec => []RowsFollowJobs
<1>1. GateInv /\ RowInv => RowsFollowJobs
  BY RowTypes DEF RowInv, JobOK, CardOK, RowsFollowJobs, Reindexes
<1> QED
  BY <1>1, RowInvariant, GateInvariant, PTL

\* No queued job is stranded (jobs.py, start_now, _promote, _readopt, _execute):
\* its id is in the queue, or a worker has it and has not decided.
THEOREM QueuedJobsAreHeld == Spec => []NoStrandedJob
<1>1. GateInv /\ RowInv => NoStrandedJob
  BY RowTypes DEF RowInv, JobOK, CardOK, NoStrandedJob, Waits
<1> QED
  BY <1>1, RowInvariant, GateInvariant, PTL

\* No row reads RUNNING without a worker that executes the job (jobs.py, start,
\* _worker and _execute), unless an exception met the verdict of a job whose card was
\* closed: nothing is saved of that one.
THEOREM RunningRowsHaveWorkers == Spec => []RunningRowsRun
<1>1. GateInv /\ RowInv => RunningRowsRun
  <2> SUFFICES ASSUME GateInv, RowInv, up, NEW j \in Ids, row[j].state = "running"
               PROVE  Executed(j) \/ (RecordFaults /\ j \notin live)
    BY DEF RunningRowsRun
  <2>1. \/ \E w \in Workers : Runs(w, j) \/ Reindexes(w, j)
        \/ RecordFaults /\ j \notin live
    BY DEF RowInv, JobOK, CardOK, RunningRowOK
  <2> QED
    BY <2>1 DEF Runs, Reindexes, Early, Executed, Executing
<1> QED
  BY <1>1, RowInvariant, GateInvariant, PTL

\* No row reads QUEUED or DEFERRED without a live job (jobs.py, _readopt), as
\* long as nobody closes the card of a running job: MCJobQueue_orphanrow shows what
\* happens then.
THEOREM PendingRowsHaveJobs == ~DismissAny => (Spec => []PendingRowsAreLive)
<1> SUFFICES ASSUME ~DismissAny PROVE Spec => []PendingRowsAreLive
  OBVIOUS
<1>1. RowInv => PendingRowsAreLive
  BY DEF RowInv, JobOK, QuietOK, PendingRowsAreLive
<1> QED
  BY <1>1, RowInvariant, PTL
-----------------------------------------------------------------------------
(* What no step does: change a verdict, or start a job that is forgotten.    *)

\* An id that has not been handed out has no row.
UnmadeInv == \A j \in Ids : j > made => row[j] = NoJob

LEMMA UnmadeStep ==
  ASSUME GateInv, UnmadeInv, [Next]_vars
  PROVE  UnmadeInv'
<1> USE DEF disk
<1>0. made \in Nat /\ row \in [Ids -> Jobs] /\ Ids \subseteq Nat
      /\ \A w \in Workers : cur[w] \in 0..made
  BY RowTypes, ConstantsOK DEF Ids
<1>1. CASE UNCHANGED <<made, row>>
  BY <1>1 DEF UnmadeInv
<1>2. CASE \E d \in Devices, deferred, hold \in BOOLEAN, dry \in DryRuns :
             Submit(d, deferred, hold, dry)
  <2>1. made' = made + 1 /\ \A i \in Ids \ {made'} : row'[i] = row[i]
    BY <1>0, <1>2 DEF Submit
  <2> QED
    BY <1>0, <2>1 DEF UnmadeInv
<1>3. CASE made' = made /\ \A i \in Ids : row[i] = NoJob => row'[i] = NoJob
  BY <1>3 DEF UnmadeInv
<1>4. ASSUME NEW j \in 1..made, AbortPending(j) \/ Dismiss(j) \/ StartNow(j) \/ CancelNow(j)
                                \/ CancelPolled(j)
      PROVE  made' = made /\ \A i \in Ids : row[i] = NoJob => row'[i] = NoJob
  BY <1>0, <1>4 DEF AbortPending, Dismiss, StartNow, CancelNow, CancelPolled, Remove,
     SetAndSave, Save
<1>5. ASSUME ClearFinished \/ (\E D \in SUBSET Devices : Promote(D)) \/ Start
      PROVE  made' = made /\ \A i \in Ids : row[i] = NoJob => row'[i] = NoJob
  <2>1. CASE ClearFinished
    BY <2>1 DEF ClearFinished
  <2>2. CASE \E D \in SUBSET Devices : Promote(D)
    BY <2>2 DEF Promote
  <2>3. CASE Start
    BY <2>3, CardValues DEF Start, Restarted
  <2> QED
    BY <1>5, <2>1, <2>2, <2>3
<1>6. ASSUME NEW w \in Workers, Worker(w)
      PROVE  made' = made /\ \A i \in Ids : row[i] = NoJob => row'[i] = NoJob
  <2>1. made' = made
    BY <1>6 DEF Worker, Take, LockDevice, AdmitStale, Execute, Spawn, SpawnFails, ChildExits,
       StreamRaises, NextStage, Retry, Settle, SettlePull, Reindexed, RecordRaises,
       ReindexRaises, Leave, LeaveFailed
  <2>2. row' = row \/ \E o : Save(cur[w], o)
    BY <1>6 DEF Worker, Take, LockDevice, AdmitStale, Execute, Spawn, SpawnFails, ChildExits,
       StreamRaises, NextStage, Retry, Settle, SettlePull, Reindexed, RecordRaises,
       ReindexRaises, Leave, LeaveFailed, SetAndSave
  <2> QED
    BY <1>0, <2>1, <2>2 DEF Save
<1>7. CASE Users
  BY <1>1, <1>2, <1>3, <1>4, <1>5, <1>7 DEF Users, AbortChild, CancelChild
<1>8. CASE Environment
  BY <1>1, <1>3, <1>4, <1>5, <1>8 DEF Environment, OrphanExits, Reload, Crash
<1> QED
  BY <1>1, <1>3, <1>6, <1>7, <1>8 DEF Next, Rest, vars

VerdictStays(j) ==
  /\ row[j].state \in TerminalStates => row'[j] \in {row[j], NoJob}
  /\ j \in live \cap live' /\ Finished(j) =>
       \/ obj'[j] = obj[j]
       \/ row[j] = In(j, "running") /\ obj'[j] = In(j, "failed") /\ row'[j] = obj'[j]

\* A job with an unfinished card, whatever it and its row become, and a job
\* that has neither a card nor a row.
LEMMA UnfinishedStays ==
  ASSUME GateInv, RowInv, NEW j \in Ids,
         \/ j \in live /\ ~Finished(j)
         \/ j \notin live /\ row'[j] \in {row[j], NoJob}
  PROVE  VerdictStays(j)
<1>1. j \in live /\ ~Finished(j) => row[j] = obj[j]
  BY DEF RowInv, JobOK, CardOK
<1> QED
  BY <1>1 DEF VerdictStays, Finished

LEMMA WorkerVerdicts ==
  ASSUME ~DismissAny, GateInv, RowInv, NEW w \in Workers, Worker(w), NEW j \in Ids
  PROVE  VerdictStays(j)
<1> USE DEF disk
<1>1. CASE obj'[j] = obj[j] /\ row'[j] = row[j]
  BY <1>1 DEF VerdictStays
<1>2. CASE ~(obj'[j] = obj[j] /\ row'[j] = row[j])
  <2>1. j = cur[w] /\ (Execute(w) \/ Retry(w) \/ Settle(w) \/ LeaveFailed(w)
                       \/ SettlePull(w) \/ RecordRaises(w) \/ Reindexed(w))
    BY <1>2, RowTypes DEF Worker, Take, LockDevice, AdmitStale, Execute, Spawn, SpawnFails,
       ChildExits, StreamRaises, NextStage, Retry, Settle, SettlePull, Reindexed,
       RecordRaises, ReindexRaises, Leave, LeaveFailed, SetAndSave, Save
  <2>2. CASE Execute(w)
    <3>1. j \in live /\ ~Finished(j)
      BY <2>1, <2>2 DEF Execute, Runnable, Pending, Finished, TerminalStates
    <3> QED
      BY <3>1, UnfinishedStays
  <2>3. CASE \/ Retry(w) \/ Settle(w) \/ SettlePull(w) \/ RecordRaises(w)
             \/ LeaveFailed(w) /\ At(w, "raise")
    <3>1. pc[w] \in Early /\ up
      BY <2>3 DEF Retry, Settle, SettlePull, RecordRaises, Settling, At, Early
    <3>2. /\ j \in live => obj[j].state = "running"
          /\ j \notin live => row[j] = NoJob
      BY <2>1, <3>1, RunningJob
    <3>3. row[j] = NoJob => row'[j] = NoJob
      BY <2>1, <2>3, RowTypes DEF Retry, Settle, LeaveFailed, SettlePull, RecordRaises,
         SetAndSave, Save
    <3> QED
      BY <3>2, <3>3, UnfinishedStays DEF Finished, TerminalStates
  <2>4. CASE Reindexed(w)
    <3>1. Reindexes(w, j) /\ obj' = obj
      BY <2>1, <2>4 DEF Reindexed, At, Reindexes
    <3>2. row[j].state = "running" \/ row[j] = NoJob
      BY <3>1, CardValues DEF RowInv, JobOK, QuietOK, States
    <3> QED
      BY <3>1, <3>2, CardValues DEF VerdictStays, TerminalStates
  <2>5. CASE LeaveFailed(w) /\ At(w, "raise late")
    <3>1. Reindexes(w, j)
      BY <2>1, <2>5 DEF At, Reindexes
    <3>2. JobOK(j) /\ up
      BY <2>5 DEF RowInv, At
    <3>3. j \in live
      BY <1>2, <2>1, <2>5 DEF LeaveFailed
    <3>4. row[j] = In(j, "running") /\ row[j].state = "running" /\ row[j] # NoJob
      BY <3>1, <3>2, <3>3, CardValues DEF JobOK, CardOK, QuietOK, States
    <3>5. obj'[j] = In(j, "failed") /\ row'[j] = obj'[j]
      BY <2>1, <2>5, <3>3, <3>4, RowTypes DEF LeaveFailed, SetAndSave, Save
    <3> QED
      BY <3>4, <3>5 DEF VerdictStays, TerminalStates
  <2> QED
    BY <2>1, <2>2, <2>3, <2>4, <2>5 DEF LeaveFailed, Raising
<1> QED
  BY <1>1, <1>2

LEMMA VerdictStep ==
  ASSUME ~DismissAny, GateInv, RowInv, UnmadeInv, [Next]_vars, NEW j \in Ids
  PROVE  VerdictStays(j)
<1> USE DEF disk
<1>1. CASE obj'[j] = obj[j] /\ row'[j] \in {row[j], NoJob}
  BY <1>1 DEF VerdictStays
<1>2. CASE \E d \in Devices, deferred, hold \in BOOLEAN, dry \in DryRuns :
             Submit(d, deferred, hold, dry)
  <2>1. CASE j = made + 1
    <3>1. row[j] = NoJob /\ j \notin live
      BY <2>1, RowTypes DEF UnmadeInv, GateInv, TypeOK
    <3> QED
      BY <3>1, CardValues DEF VerdictStays, TerminalStates
  <2>2. CASE j # made + 1
    BY <1>1, <1>2, <2>2 DEF Submit
  <2> QED
    BY <2>1, <2>2
<1>3. ASSUME NEW i \in 1..made, AbortPending(i) \/ Dismiss(i) \/ StartNow(i)
      PROVE  VerdictStays(j)
  <2>1. CASE j # i
    BY <1>1, <1>3, <2>1, RowTypes DEF AbortPending, Dismiss, StartNow, SetAndSave, Save
  <2>2. CASE j = i /\ Finished(j)
    BY <1>1, <1>3, <2>2 DEF AbortPending, Dismiss, StartNow, Runnable, Pending, Finished,
       TerminalStates
  <2>3. CASE j = i /\ ~Finished(j)
    BY <1>3, <2>3, UnfinishedStays DEF AbortPending, Dismiss, StartNow, Runnable
  <2> QED
    BY <2>1, <2>2, <2>3
<1>4. ASSUME NEW i \in 1..made, CancelNow(i) \/ CancelPolled(i)
      PROVE  VerdictStays(j)
  BY <1>1, <1>4, RowTypes DEF CancelNow, CancelPolled, Remove
<1>5. CASE ClearFinished
  BY <1>1, <1>5 DEF ClearFinished
<1>6. ASSUME NEW D \in SUBSET Devices, Promote(D) PROVE VerdictStays(j)
  <2>1. CASE j \in Promotable(D)
    BY <2>1, UnfinishedStays DEF Promotable, Finished, TerminalStates
  <2>2. CASE j \notin Promotable(D)
    BY <1>1, <1>6, <2>2 DEF Promote
  <2> QED
    BY <2>1, <2>2
<1>7. CASE Crash \/ Start
  BY <1>7 DEF VerdictStays, Crash, Start, Restarted, TerminalStates, RowInv, DownIsEmpty
<1>8. CASE Users
  BY <1>1, <1>2, <1>3, <1>4, <1>5, <1>8 DEF Users, AbortChild, CancelChild
<1>9. CASE Environment
  BY <1>1, <1>4, <1>6, <1>7, <1>9 DEF Environment, OrphanExits, Reload
<1> QED
  BY <1>1, <1>8, <1>9, WorkerVerdicts DEF Next, Rest, vars

\* The verdict of a job stands (jobs.py, _run, dismiss, _execute, _worker): a finished row
\* only goes by being deleted, and a finished card stays as it is, but that an exception
\* before the row has the verdict makes a failed job of it, card and row; as long as
\* nobody closes the card of a running job.
THEOREM VerdictsAreFinal == ~DismissAny => (Spec => VerdictsStand)
<1> SUFFICES ASSUME ~DismissAny PROVE Spec => VerdictsStand
  OBVIOUS
<1>1. Init => UnmadeInv
  BY DEF Init, UnmadeInv
<1>2. GateInv /\ UnmadeInv /\ [Next]_vars => UnmadeInv'
  BY UnmadeStep
<1>3. GateInv /\ RowInv /\ UnmadeInv /\ [Next]_vars =>
        [\A j \in Ids :
           /\ row[j].state \in TerminalStates => row'[j] \in {row[j], NoJob}
           /\ j \in live \cap live' /\ Finished(j) =>
                \/ obj'[j] = obj[j]
                \/ row[j] = In(j, "running") /\ obj'[j] = In(j, "failed")
                     /\ row'[j] = obj'[j]]_vars
  BY VerdictStep DEF VerdictStays
<1> QED
  BY <1>1, <1>2, <1>3, GateInvariant, RowInvariant, PTL DEF Spec, VerdictsStand

\* Only Execute makes a job run, and it looks once more whether the job is live
\* (jobs.py, _run).
LEMMA StartsAreLive ==
  ASSUME GateInv, [Next]_vars, up, NEW j \in 1..made, j \notin live,
         obj[j].state # "running"
  PROVE  obj'[j].state # "running"
<1> USE DEF disk
<1>1. j \in Ids /\ (obj'[j] = obj[j] => obj'[j].state # "running")
      /\ \A s \in States \ {"running"} : In(j, s).state # "running"
  BY RowTypes, CardValues
<1>2. CASE Users
  <2>1. CASE \E d \in Devices, deferred, hold \in BOOLEAN, dry \in DryRuns :
               Submit(d, deferred, hold, dry)
    BY <1>1, <2>1, RowTypes DEF Submit
  <2>2. ASSUME NEW i \in 1..made, AbortPending(i) \/ Dismiss(i) \/ StartNow(i)
        PROVE  obj'[j].state # "running"
    BY <1>1, <2>2, RowTypes DEF AbortPending, Dismiss, StartNow, Runnable, SetAndSave
  <2> QED
    BY <1>1, <1>2, <2>1, <2>2 DEF Users, AbortChild, CancelChild, CancelNow, ClearFinished
<1>3. CASE Environment
  <2>1. ASSUME NEW D \in SUBSET Devices, Promote(D) PROVE obj'[j].state # "running"
    BY <1>1, <2>1, RowTypes DEF Promote, Promotable
  <2>2. CASE Crash
    <3>1. obj'[j] = NoJob
      BY <1>1, <2>2 DEF Crash
    <3> QED
      BY <1>1, <3>1, CardValues
  <2> QED
    BY <1>1, <1>3, <2>1, <2>2 DEF Environment, CancelPolled, OrphanExits, Reload, Start
<1>4. ASSUME NEW w \in Workers, Worker(w) PROVE obj'[j].state # "running"
  <2>1. CASE obj'[j] = obj[j]
    BY <1>1, <2>1
  <2>2. CASE Execute(w)
    BY <1>1, <2>2, RowTypes DEF Execute, Runnable, SetAndSave
  <2>3. CASE Retry(w)
    BY <1>1, <2>3, RowTypes DEF Retry, SetAndSave, States
  <2>4. CASE Settle(w) \/ SettlePull(w) \/ RecordRaises(w) \/ LeaveFailed(w)
    <3>1. {"failed", FinalState(w)} \subseteq States \ {"running"}
      BY DEF FinalState, States, TerminalStates
    <3> QED
      BY <1>1, <2>4, <3>1, RowTypes DEF Settle, SettlePull, RecordRaises, LeaveFailed,
         SetAndSave
  <2> QED
    BY <1>4, <2>1, <2>2, <2>3, <2>4 DEF Worker, Take, LockDevice, AdmitStale, Spawn,
       SpawnFails, ChildExits, StreamRaises, NextStage, Reindexed, ReindexRaises, Leave
<1> QED
  BY <1>1, <1>2, <1>3, <1>4 DEF Next, Rest, vars

\* A job that was dismissed or removed does not start any more: "Checking only on
\* the way in ran a push the user had cancelled" (jobs.py, _run).
THEOREM ForgottenStayForgotten == Spec => ForgottenJobsDoNotStart
<1>1. GateInv /\ [Next]_vars =>
        [\A j \in 1..made :
           j \notin live /\ up /\ obj[j].state # "running" => obj'[j].state # "running"]_vars
  BY StartsAreLive
<1> QED
  BY <1>1, GateInvariant, PTL DEF Spec, ForgottenJobsDoNotStart
=============================================================================
