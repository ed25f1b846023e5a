------------------------------ MODULE JobQueue ------------------------------
(***************************************************************************)
(* The scheduler of libnodes: JobRunner and JobStore (jobs.py), with the   *)
(* routes that drive them.  Jobs are submitted, queued, deferred, taken by *)
(* a pool of workers, serialised per device by a lock and between pushes   *)
(* and pulls by _admit, run as child processes, retried, aborted,          *)
(* dismissed, removed, and taken back from the store after a restart.      *)
(*                                                                         *)
(* The program is one event loop: whatever runs between two awaits is one  *)
(* action here, and every await is a place where any other action may run. *)
(* What a job moves, and the numbers it shows, are abstracted; an exit     *)
(* code is one of the four verdicts _execute draws from it.                *)
(***************************************************************************)
EXTENDS Integers, Sequences, FiniteSets

CONSTANTS
  Devices,       \* device ids of devices.yaml
  Workers,       \* the runner's worker tasks
  NoWorker,      \* holder of a free device lock
  StartModes,    \* the modes devices.yaml may give each device at first
  DryRuns,       \* may a job be a dry run, a real one, or either
  Retries,       \* retries_with: how often a failed job runs again
  Unit,          \* is LIBNODES_LOCAL_SERVICE set, the catalog inside the library
  DismissAny,    \* may a card be closed while its job is running
  LogFaults,     \* may writing a job's log fail (disk full)
  RecordFaults,  \* may what follows a verdict fail: a write of the manifest, the reindex
  MaxJobs, MaxQueue,                    \* bounds of the model: jobs, ids in the queue,
  MaxCrashes, MaxReloads, MaxRequests   \* restarts, edits of devices.yaml, user requests

Modes == {"device", "upstream", "gone"}

ASSUME ConstantsOK ==
  /\ NoWorker \notin Workers
  /\ IsFiniteSet(Workers)
  /\ Devices # {}
  /\ StartModes \subseteq [Devices -> Modes]
  /\ Retries \in Nat
  /\ {Unit, DismissAny, LogFaults, RecordFaults} \cup DryRuns \subseteq BOOLEAN
  /\ {MaxJobs, MaxQueue, MaxCrashes, MaxReloads, MaxRequests} \subseteq Nat

Ids == 1..MaxJobs
Kinds == {"push", "pull"}
TerminalStates == {"done", "failed", "aborted"}
States == {"queued", "running", "deferred"} \cup TerminalStates

\* The part of a Job that changes; the store's row has the same shape.
Jobs == [state : States \cup {"none"}, hold : BOOLEAN, attempt : Nat]
NoJob == [state |-> "none", hold |-> FALSE, attempt |-> 0]

VARIABLES
  \* outside the process
  mode,        \* device -> what devices.yaml says of it now
  made,        \* how many ids the store has handed out
  what,        \* id -> kind, device and dry_run, fixed when the job is made
  row,         \* id -> the job's row, NoJob when there is none
  crashes, reloads, requests,   \* how much of the bounds is used up
  \* the process
  up,          \* is it running
  obj,         \* id -> the Job object, NoJob when there is none
  live,        \* the keys of _live
  queue,       \* _queue
  pc, cur,     \* worker -> where it is, and the job it carries (0: none)
  stage, code, \* worker -> the phase of the job, and how its child ended
  holder,      \* device -> the worker that holds its lock
  pushes, pulling, waiting,   \* _pushes, _pulling, _pulls_waiting
  child,       \* id -> its process in _procs, "none" once it has exited
  cancelling   \* jobs whose cancel() is polling

spent == <<crashes, reloads, requests>>
disk == <<mode, made, what, row, spent>>
gate == <<holder, pushes, pulling, waiting>>
work == <<pc, cur, stage, code>>
vars == <<disk, up, obj, live, queue, work, gate, child, cancelling>>

Points == {"idle", "lock", "admit", "spawn", "child", "reaped", "reindex",
           "leave", "raise", "raise late"}
Stages == {"preflight", "library", "catalog", "service"}
Verdicts == {"ok", "term", "fail", "final"}
ProcStates == {"none", "alive", "dying"}

TypeOK ==
  /\ mode \in [Devices -> Modes]
  /\ made \in 0..MaxJobs
  /\ what \in [Ids -> [kind : Kinds, dev : Devices, dry : BOOLEAN]]
  /\ row \in [Ids -> Jobs]
  /\ crashes \in 0..MaxCrashes /\ reloads \in 0..MaxReloads /\ requests \in 0..MaxRequests
  /\ up \in BOOLEAN
  /\ obj \in [Ids -> Jobs]
  /\ live \subseteq 1..made
  /\ queue \in Seq(1..made)
  /\ pc \in [Workers -> Points]
  /\ cur \in [Workers -> 0..made]
  /\ stage \in [Workers -> Stages]
  /\ code \in [Workers -> Verdicts]
  /\ holder \in [Devices -> Workers \cup {NoWorker}]
  /\ pushes \in Nat /\ pulling \in BOOLEAN /\ waiting \in Nat
  /\ child \in [Ids -> ProcStates]
  /\ cancelling \subseteq 1..made
-----------------------------------------------------------------------------
Kind(j) == what[j].kind
Dev(j) == what[j].dev
IsPull(j) == Kind(j) = "pull"
Finished(j) == obj[j].state \in TerminalStates
Pending(j) == obj[j].state \in {"queued", "deferred"}

\* Mutants of the check _run makes twice: a job in any state, any Job object.
LiveOnly(j) == j \in live
PendingOnly(j) == Pending(j)

Runnable(j) == j \in live /\ Pending(j)

\* JobStore.save: an UPDATE, which does nothing when the row is gone.
Save(j, o) == row' = IF row[j] = NoJob THEN row ELSE [row EXCEPT ![j] = o]

\* The in-memory Job takes a new value, and the store with it.
\* (SetOnly, a mutant, forgets the store.)
SetOnly(j, o) == obj' = [obj EXCEPT ![j] = o] /\ UNCHANGED row

SetAndSave(j, o) == obj' = [obj EXCEPT ![j] = o] /\ Save(j, o)

In(j, s) == [obj[j] EXCEPT !.state = s]

Enqueue(j) == queue' = Append(queue, j)

\* The sequence of the members of P, oldest first: the order _live and the
\* store are walked in. A set of one, empty only if P is infinite.
OldestFirst(P) ==
  {s \in [1..Cardinality(P) -> P] :
     /\ \A p \in P : \E i \in DOMAIN s : s[i] = p
     /\ \A a, b \in DOMAIN s : a < b => s[a] < s[b]}

Init ==
  /\ mode \in StartModes
  /\ made = 0
  /\ what = [j \in Ids |-> [kind |-> "push", dev |-> CHOOSE d \in Devices : TRUE,
                            dry |-> FALSE]]
  /\ row = [j \in Ids |-> NoJob]
  /\ crashes = 0 /\ reloads = 0 /\ requests = 0
  /\ up = TRUE
  /\ obj = [j \in Ids |-> NoJob]
  /\ live = {} /\ queue = <<>> /\ cancelling = {}
  /\ pc = [w \in Workers |-> "idle"] /\ cur = [w \in Workers |-> 0]
  /\ stage = [w \in Workers |-> "library"] /\ code = [w \in Workers |-> "ok"]
  /\ holder = [d \in Devices |-> NoWorker]
  /\ pushes = 0 /\ pulling = FALSE /\ waiting = 0
  /\ child = [j \in Ids |-> "none"]
-----------------------------------------------------------------------------
(* Submission: submit and submit_pull. A device that is not online, and a   *)
(* push the user wants held, is deferred; a dry run never is.               *)

Submit(d, deferred, hold, dry) ==
  LET j == made + 1
      kind == IF mode[d] = "upstream" THEN "pull" ELSE "push"
      new == [state |-> IF deferred THEN "deferred" ELSE "queued",
              hold |-> hold, attempt |-> 0]
  IN  /\ up /\ made < MaxJobs
      /\ mode[d] # "gone"
      /\ hold => deferred /\ kind = "push"
      /\ dry /\ kind = "push" => ~deferred
      /\ made' = j
      /\ what' = [what EXCEPT ![j] = [kind |-> kind, dev |-> d, dry |-> dry]]
      /\ row' = [row EXCEPT ![j] = new]
      /\ obj' = [obj EXCEPT ![j] = new]
      /\ live' = live \cup {j}
      /\ IF deferred THEN UNCHANGED queue ELSE Enqueue(j)
      /\ UNCHANGED <<mode, spent, up, work, gate, child, cancelling>>
-----------------------------------------------------------------------------
(* What the user can do to a job.                                           *)

\* The model's bound on what users ask for.
Request == requests < MaxRequests /\ requests' = requests + 1

InProc(j) == child[j] # "none"      \* in _procs, and returncode is None

\* abort, of a job with a process: terminate it and let the worker see the exit.
AbortChild(j) ==
  /\ up /\ Request /\ j \in live
  /\ child[j] = "alive"
  /\ child' = [child EXCEPT ![j] = "dying"]
  /\ UNCHANGED <<mode, made, what, row, crashes, reloads, up, obj, live, queue, work, gate, cancelling>>

\* abort, of a job that has not started. A running job with no process in
\* _procs (being spawned, between phases, in a service command) is left alone.
AbortPending(j) ==
  /\ up /\ Request /\ Runnable(j)
  /\ ~InProc(j)
  /\ SetAndSave(j, In(j, "aborted"))
  /\ UNCHANGED <<mode, made, what, crashes, reloads, up, live, queue, work, gate, child,
                 cancelling>>

\* dismiss: drop the card and keep the row. The process, if any, is not touched.
Dismiss(j) ==
  /\ up /\ Request /\ j \in live
  /\ obj[j].state = "running" => DismissAny
  /\ IF Finished(j) THEN UNCHANGED <<obj, row>> ELSE SetAndSave(j, In(j, "aborted"))
  /\ live' = live \ {j}
  /\ UNCHANGED <<mode, made, what, crashes, reloads, up, queue, work, gate, child,
                 cancelling>>

\* start_now: release a deferred job. It does not look whether a queued one is
\* already in the queue.
StartNow(j) ==
  /\ up /\ Request /\ Runnable(j)
  /\ Len(queue) < MaxQueue
  /\ SetAndSave(j, [In(j, "queued") EXCEPT !.hold = FALSE])
  /\ Enqueue(j)
  /\ UNCHANGED <<mode, made, what, crashes, reloads, up, live, work, gate, child,
                 cancelling>>

\* The end of cancel: forget the job and delete its row.
Remove(j) ==
  /\ live' = live \ {j}
  /\ row' = [row EXCEPT ![j] = NoJob]

\* cancel, of a job with a process: terminate it, then poll.
CancelChild(j) ==
  /\ up /\ Request /\ j \in live \ cancelling
  /\ InProc(j)
  /\ child' = [child EXCEPT ![j] = "dying"]
  /\ cancelling' = cancelling \cup {j}
  /\ UNCHANGED <<mode, made, what, row, crashes, reloads, up, obj, live, queue, work, gate>>

\* The poll ends: the job has finished, or the two seconds are over.
CancelPolled(j) ==
  /\ up /\ j \in cancelling
  /\ Remove(j)
  /\ cancelling' = cancelling \ {j}
  /\ UNCHANGED <<mode, made, what, spent, up, obj, queue, work, gate, child>>

\* cancel, of a job without a process.
CancelNow(j) ==
  /\ up /\ Request /\ row[j] # NoJob
  /\ ~(j \in live /\ InProc(j))
  /\ Remove(j)
  /\ UNCHANGED <<mode, made, what, crashes, reloads, up, obj, queue, work, gate, child,
                 cancelling>>

\* The clear_finished route: every finished card, then every finished row.
ClearFinished ==
  /\ up /\ Request
  /\ \E j \in 1..made : row[j].state \in TerminalStates \/ (j \in live /\ Finished(j))
  /\ live' = {j \in live : ~Finished(j)}
  /\ row' = [j \in Ids |-> IF row[j].state \in TerminalStates THEN NoJob ELSE row[j]]
  /\ UNCHANGED <<mode, made, what, crashes, reloads, up, obj, queue, work, gate, child,
                 cancelling>>

\* _promote, of the jobs whose device is in D: those that answer, among the
\* ones the probe named. Who they are is the Probe's business; here any set.
Promotable(D) == {j \in live : obj[j].state = "deferred" /\ ~obj[j].hold /\ Dev(j) \in D}

Promote(D) ==
  /\ up
  /\ Promotable(D) # {}
  /\ obj' = [j \in Ids |-> IF j \in Promotable(D) THEN In(j, "queued") ELSE obj[j]]
  /\ row' = [j \in Ids |-> IF j \in Promotable(D) /\ row[j] # NoJob THEN obj'[j] ELSE row[j]]
  /\ \E s \in OldestFirst(Promotable(D)) : queue' = queue \o s
  /\ UNCHANGED <<mode, made, what, spent, up, live, work, gate, child,
                 cancelling>>
-----------------------------------------------------------------------------
(* A worker: _worker, _run, _admit and _execute.                            *)

At(w, p) == up /\ pc[w] = p

Goto(w, p) == pc' = [pc EXCEPT ![w] = p]

\* A mutant of Take: a job whose device is busy is dropped, not waited with.
TakeIfFree(w) ==
  /\ At(w, "idle") /\ queue # <<>>
  /\ queue' = Tail(queue)
  /\ IF Runnable(Head(queue)) /\ holder[Dev(Head(queue))] = NoWorker
       THEN Goto(w, "lock") /\ cur' = [cur EXCEPT ![w] = Head(queue)]
       ELSE UNCHANGED <<pc, cur>>
  /\ UNCHANGED <<disk, up, obj, live, stage, code, gate, child, cancelling>>

\* _queue.get, and the first check of _run.
Take(w) ==
  /\ At(w, "idle") /\ queue # <<>>
  /\ queue' = Tail(queue)
  /\ \/ /\ Runnable(Head(queue))
        /\ Goto(w, "lock")
        /\ cur' = [cur EXCEPT ![w] = Head(queue)]
     \/ ~Runnable(Head(queue)) /\ UNCHANGED <<pc, cur>>
  /\ UNCHANGED <<disk, up, obj, live, stage, code, gate, child, cancelling>>

\* A mutant of LockFree: a pull, which runs alone, takes no lock.
LockFreeOrPull(w) == holder[Dev(cur[w])] = NoWorker \/ IsPull(cur[w])

LockFree(w) == holder[Dev(cur[w])] = NoWorker

\* The device lock is taken first; a pull then counts itself as waiting.
LockDevice(w) ==
  /\ At(w, "lock")
  /\ LockFree(w)
  /\ holder' = [holder EXCEPT ![Dev(cur[w])] = w]
  /\ waiting' = IF IsPull(cur[w]) THEN waiting + 1 ELSE waiting
  /\ Goto(w, "admit")
  /\ UNCHANGED <<disk, up, obj, live, queue, cur, stage, code, pushes, pulling, child,
                 cancelling>>

\* Mutants of MayEnter: a pull does not wait for the pushes, a push does not
\* wait for the pull, a push overtakes a pull that waits.
PullEntersEarly(j) == ~pulling /\ (~IsPull(j) => waiting = 0)
PushEntersBeside(j) == IF IsPull(j) THEN ~pulling /\ pushes = 0 ELSE waiting = 0
PushOvertakes(j) == ~pulling /\ (IsPull(j) => pushes = 0)

\* The two predicates _admit waits for.
MayEnter(j) == ~pulling /\ IF IsPull(j) THEN pushes = 0 ELSE waiting = 0

\* A mutant of Enter: the pull stays counted as waiting.
EnterStillWaiting(j) ==
  /\ MayEnter(j)
  /\ IF IsPull(j) THEN pulling' = TRUE /\ UNCHANGED pushes
                  ELSE pushes' = pushes + 1 /\ UNCHANGED pulling
  /\ UNCHANGED <<holder, waiting>>

Enter(j) ==
  /\ MayEnter(j)
  /\ IF IsPull(j)
       THEN pulling' = TRUE /\ waiting' = waiting - 1 /\ UNCHANGED pushes
       ELSE pushes' = pushes + 1 /\ UNCHANGED <<pulling, waiting>>
  /\ UNCHANGED holder

\* Admitted, but the job was aborted, removed or already run meanwhile.
AdmitStale(w) ==
  /\ At(w, "admit") /\ Enter(cur[w])
  /\ ~Runnable(cur[w])
  /\ Goto(w, "leave")
  /\ UNCHANGED <<disk, up, obj, live, queue, cur, stage, code, child, cancelling>>

FirstStage(j) == IF IsPull(j) /\ Unit /\ ~what[j].dry THEN "preflight" ELSE "library"

\* Admitted: _execute, up to its first await. A pull whose device has left
\* devices.yaml fails at once.
Execute(w) ==
  LET j == cur[w]
      lost == IsPull(j) /\ mode[Dev(j)] = "gone"
  IN  /\ At(w, "admit") /\ Enter(j)
      /\ Runnable(j)
      /\ SetAndSave(j, [In(j, "running") EXCEPT !.attempt = @ + 1])
      /\ Goto(w, IF lost THEN "reaped" ELSE "spawn")
      /\ stage' = [stage EXCEPT ![w] = FirstStage(j)]
      /\ code' = [code EXCEPT ![w] = IF lost THEN "fail" ELSE "ok"]
      /\ UNCHANGED <<mode, made, what, spent, up, live, queue, cur, child,
                     cancelling>>

Abortable(s) == s \in {"library", "catalog"}

\* _stream: the child exists, and abort can reach it if it is in _procs.
Spawn(w) ==
  /\ At(w, "spawn")
  /\ Goto(w, "child")
  /\ child' = IF Abortable(stage[w]) THEN [child EXCEPT ![cur[w]] = "alive"] ELSE child
  /\ UNCHANGED <<disk, up, obj, live, queue, cur, stage, code, gate, cancelling>>

\* SPAWN_FAILED.
SpawnFails(w) ==
  /\ At(w, "spawn")
  /\ Goto(w, "reaped")
  /\ code' = [code EXCEPT ![w] = "final"]
  /\ UNCHANGED <<disk, up, obj, live, queue, cur, stage, gate, child, cancelling>>

\* How a child can end: a terminated one by the signal, unless it was ending
\* already; exit 25 (--max-delete) is final.
Outcomes(w) ==
  CASE ~Abortable(stage[w])        -> {"ok", "fail"}
    [] child[cur[w]] = "dying"     -> {"ok", "fail", "term"}
    [] OTHER                       -> {"ok", "fail", "final"}

ChildExits(w) ==
  /\ At(w, "child")
  /\ \E c \in Outcomes(w) : code' = [code EXCEPT ![w] = c]
  /\ child' = IF Abortable(stage[w]) THEN [child EXCEPT ![cur[w]] = "none"] ELSE child
  /\ Goto(w, "reaped")
  /\ UNCHANGED <<disk, up, obj, live, queue, cur, stage, gate, cancelling>>

\* A log that cannot be written: the exception leaves _stream, and the child.
StreamRaises(w) ==
  /\ LogFaults
  /\ At(w, "child")
  /\ Goto(w, "raise")
  /\ UNCHANGED <<disk, up, obj, live, queue, cur, stage, code, gate, child, cancelling>>

\* A child nobody reads any more ends.
OrphanExits(j) ==
  /\ up /\ InProc(j)
  /\ \A w \in Workers : cur[w] = j => pc[w] # "child"
  /\ child' = [child EXCEPT ![j] = "none"]
  /\ UNCHANGED <<disk, up, obj, live, queue, work, gate, cancelling>>

\* The phases that follow a phase that went well; the catalog's never decide
\* the job. PullService has them one by one.
Following(w) ==
  LET j == cur[w]
  IN  CASE stage[w] = "preflight" /\ code[w] = "ok" -> {"library"}
        [] stage[w] = "library" /\ code[w] = "ok" /\ ~what[j].dry ->
             IF ~IsPull(j) THEN {"catalog"} ELSE IF Unit THEN {"catalog", "service"} ELSE {}
        [] stage[w] = "catalog" /\ IsPull(j) -> {"service"}
        [] OTHER -> {}

NextStage(w) ==
  /\ At(w, "reaped")
  /\ \E s \in Following(w) : stage' = [stage EXCEPT ![w] = s]
  /\ code' = [code EXCEPT ![w] = "ok"]
  /\ Goto(w, "spawn")
  /\ UNCHANGED <<disk, up, obj, live, queue, cur, gate, child, cancelling>>

\* The worker is past its job's phases.
EndStages(w, p) ==
  /\ Goto(w, p)
  /\ stage' = [stage EXCEPT ![w] = "library"]
  /\ code' = [code EXCEPT ![w] = "ok"]

Verdict(w) == IF stage[w] \in {"catalog", "service"} THEN "ok" ELSE code[w]

\* A preflight that went well is always followed by the library phase.
Settling(w) == At(w, "reaped") /\ ~(stage[w] = "preflight" /\ code[w] = "ok")

\* A mutant of MayRetry: one retry too many.
MayRetryOnceMore(w) ==
  /\ Verdict(w) = "fail" /\ stage[w] = "library"
  /\ mode[Dev(cur[w])] # "gone"
  /\ obj[cur[w]].attempt <= Retries + 1

\* retries = 0 for a device that is gone, for a verdict a retry cannot change,
\* and for a pull past its transfer.
MayRetry(w) ==
  LET j == cur[w]
  IN  /\ Verdict(w) = "fail"
      /\ stage[w] = "library"
      /\ mode[Dev(j)] # "gone"
      /\ obj[j].attempt <= Retries

Retry(w) ==
  /\ Settling(w) /\ MayRetry(w)
  /\ SetAndSave(cur[w], In(cur[w], "queued"))
  /\ Enqueue(cur[w])
  /\ EndStages(w, "leave")
  /\ UNCHANGED <<mode, made, what, spent, up, live, cur, gate, child,
                 cancelling>>

FinalState(w) ==
  CASE Verdict(w) = "ok"   -> "done"
    [] Verdict(w) = "term" -> "aborted"
    [] OTHER               -> "failed"

\* The verdict of a push, or of a dry run, is saved at once.
Settle(w) ==
  LET j == cur[w]
  IN  /\ Settling(w) /\ ~MayRetry(w)
      /\ ~(IsPull(j) /\ ~what[j].dry)
      /\ SetAndSave(j, In(j, FinalState(w)))
      /\ EndStages(w, "leave")
      /\ UNCHANGED <<mode, made, what, spent, up, live, queue, cur, gate, child,
                     cancelling>>

\* That of a pull waits for the reindex.
SettlePull(w) ==
  LET j == cur[w]
  IN  /\ Settling(w) /\ ~MayRetry(w)
      /\ IsPull(j) /\ ~what[j].dry
      /\ obj' = [obj EXCEPT ![j] = In(j, FinalState(w))]
      /\ EndStages(w, "reindex")
      /\ UNCHANGED <<disk, up, live, queue, cur, gate, child, cancelling>>

Reindexed(w) ==
  /\ At(w, "reindex")
  /\ Save(cur[w], obj[cur[w]])
  /\ Goto(w, "leave")
  /\ UNCHANGED <<mode, made, what, spent, up, obj, live, queue, cur, stage,
                 code, gate, child, cancelling>>

\* An exception after the verdict, which the card shows and the row does not have yet:
\* a write of the manifest fails. A pull that its preflight stopped has none to make;
\* whether a transfer sent or pruned anything is not looked at.
RecordRaises(w) ==
  LET j == cur[w]
  IN  /\ RecordFaults
      /\ Settling(w) /\ stage[w] # "preflight" /\ ~what[j].dry
      /\ IsPull(j) => ~MayRetry(w)
      /\ obj' = [obj EXCEPT ![j] = In(j, FinalState(w))]
      /\ EndStages(w, "raise late")
      /\ UNCHANGED <<disk, up, live, queue, cur, gate, child, cancelling>>

\* Or the awaited reindex ends with one.
ReindexRaises(w) ==
  /\ RecordFaults
  /\ At(w, "reindex")
  /\ Goto(w, "raise late")
  /\ UNCHANGED <<disk, up, obj, live, queue, cur, stage, code, gate, child, cancelling>>

\* A mutant of Release: every job leaves as a push.
ReleaseAsPush(w) ==
  /\ holder' = [holder EXCEPT ![Dev(cur[w])] = NoWorker]
  /\ pushes' = pushes - 1
  /\ UNCHANGED <<pulling, waiting>>
  /\ EndStages(w, "idle")
  /\ cur' = [cur EXCEPT ![w] = 0]

\* The way out of _admit and of the device lock, back to _queue.get.
Release(w) ==
  /\ holder' = [holder EXCEPT ![Dev(cur[w])] = NoWorker]
  /\ IF IsPull(cur[w]) THEN pulling' = FALSE /\ UNCHANGED pushes
                       ELSE pushes' = pushes - 1 /\ UNCHANGED pulling
  /\ UNCHANGED waiting
  /\ EndStages(w, "idle")
  /\ cur' = [cur EXCEPT ![w] = 0]

Leave(w) ==
  /\ At(w, "leave")
  /\ Release(w)
  /\ UNCHANGED <<disk, up, obj, live, queue, child, cancelling>>

Raising(w) == At(w, "raise") \/ At(w, "raise late")

\* A mutant of LeaveFailed: the exception is swallowed.
LeaveSilently(w) ==
  /\ Raising(w)
  /\ Release(w)
  /\ UNCHANGED <<disk, up, obj, live, queue, child, cancelling>>

\* The same way out with an exception, which _worker turns into a failed job, whatever
\* its card says by then. Nothing is saved of a job whose card was closed.
LeaveFailed(w) ==
  LET j == cur[w]
  IN  /\ Raising(w)
      /\ Release(w)
      /\ IF j \in live THEN SetAndSave(j, In(j, "failed")) ELSE UNCHANGED <<obj, row>>
      /\ UNCHANGED <<mode, made, what, spent, up, live, queue, child, cancelling>>
-----------------------------------------------------------------------------
(* The process, and the file it is configured by.                           *)

\* devices.yaml is edited, and reloaded if the process is up.
Reload(d, m) ==
  /\ reloads < MaxReloads
  /\ m # mode[d]
  /\ mode' = [mode EXCEPT ![d] = m]
  /\ reloads' = reloads + 1
  /\ UNCHANGED <<made, what, row, crashes, requests, up, obj, live, queue, work, gate, child,
                 cancelling>>

\* The process goes, by a crash or by stop(): the workers are cancelled and
\* save nothing, the children are terminated, and only the store is left.
Crash ==
  /\ up /\ crashes < MaxCrashes
  /\ up' = FALSE
  /\ crashes' = crashes + 1
  /\ obj' = [j \in Ids |-> NoJob]
  /\ live' = {} /\ queue' = <<>> /\ cancelling' = {}
  /\ pc' = [w \in Workers |-> "idle"] /\ cur' = [w \in Workers |-> 0]
  /\ stage' = [w \in Workers |-> "library"] /\ code' = [w \in Workers |-> "ok"]
  /\ holder' = [d \in Devices |-> NoWorker]
  /\ pushes' = 0 /\ pulling' = FALSE /\ waiting' = 0
  /\ child' = [j \in Ids |-> "none"]
  /\ UNCHANGED <<mode, made, what, row, reloads, requests>>

\* build_argv and build_pull_argv refuse a device of the other kind.
Builds(j) ==
  LET m == mode[Dev(j)]
  IN  m # "gone" /\ (IsPull(j) <=> m = "upstream")

\* start: a running job cannot resume, one that had not started waits on if
\* its argv can still be built.
Readopted == {j \in 1..made : row[j].state \in {"queued", "deferred"} /\ Builds(j)}

\* A mutant of Restarted: only a running job is failed.
RestartedIfRunning(j) ==
  IF row[j].state = "running" THEN [row[j] EXCEPT !.state = "failed"] ELSE row[j]

Restarted(j) ==
  IF row[j].state \in {"running", "queued", "deferred"} /\ j \notin Readopted
    THEN [row[j] EXCEPT !.state = "failed"]
    ELSE row[j]

Start ==
  /\ ~up
  /\ up' = TRUE
  /\ row' = [j \in Ids |-> Restarted(j)]
  /\ live' = Readopted
  /\ obj' = [j \in Ids |-> IF j \in Readopted THEN row[j] ELSE NoJob]
  /\ \E s \in OldestFirst({j \in Readopted : row[j].state = "queued"}) : queue' = s
  /\ UNCHANGED <<mode, made, what, spent, work, gate, child, cancelling>>

\* Nothing to do until somebody asks for something.
Rest ==
  /\ up /\ queue = <<>> /\ cancelling = {}
  /\ \A w \in Workers : pc[w] = "idle"
  /\ UNCHANGED vars
-----------------------------------------------------------------------------
Users ==
  \/ \E d \in Devices, deferred, hold \in BOOLEAN, dry \in DryRuns : Submit(d, deferred, hold, dry)
  \/ \E j \in 1..made : AbortChild(j) \/ AbortPending(j) \/ Dismiss(j) \/ StartNow(j)
                          \/ CancelChild(j) \/ CancelNow(j)
  \/ ClearFinished

Worker(w) ==
  \/ Take(w) \/ LockDevice(w) \/ AdmitStale(w) \/ Execute(w)
  \/ Spawn(w) \/ SpawnFails(w) \/ ChildExits(w) \/ StreamRaises(w)
  \/ NextStage(w) \/ Retry(w) \/ Settle(w) \/ SettlePull(w) \/ Reindexed(w)
  \/ RecordRaises(w) \/ ReindexRaises(w) \/ Leave(w) \/ LeaveFailed(w)

Environment ==
  \/ \E D \in SUBSET Devices : Promote(D)
  \/ \E j \in 1..made : CancelPolled(j) \/ OrphanExits(j)
  \/ \E d \in Devices, m \in Modes : Reload(d, m)
  \/ Crash \/ Start

Next == Users \/ (\E w \in Workers : Worker(w)) \/ Environment \/ Rest

Spec == Init /\ [][Next]_vars

\* The event loop resumes every worker that can go on, every child ends (rsync
\* and ssh die with their connection), a poll ends, and systemd restarts the
\* process. Users and devices owe nothing.
Fairness ==
  /\ \A w \in Workers : WF_vars(Worker(w))
  /\ \A j \in Ids : WF_vars(CancelPolled(j))
  /\ WF_vars(Start)

FairSpec == Spec /\ Fairness
=============================================================================
