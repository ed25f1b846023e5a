------------------------- MODULE JobQueueProperties -------------------------
(* What the scheduler must get right, over the module JobQueue.              *)
EXTENDS JobQueue, Functions

\* Where a worker is once _admit let it in, and while its job executes.
Executing == {"spawn", "child", "reaped", "reindex", "raise", "raise late"}
Inside == Executing \cup {"leave"}

\* A worker's position, as Admission sees it.
Phase(w) ==
  CASE pc[w] = "admit"   -> "waiting"
    [] pc[w] \in Inside  -> "inside"
    [] OTHER             -> "outside"

Role(w) == IF Phase(w) = "outside" THEN "push" ELSE Kind(cur[w])

Adm == INSTANCE Admission WITH phase <- [w \in Workers |-> Phase(w)],
                               role <- [w \in Workers |-> Role(w)]

\* The counters _pushes, _pulling and _pulls_waiting, and the condition the
\* workers wait on, do what Admission says: every step of the runner is a step
\* of Admission or changes nothing there (jobs.py, _admit).
ImplementsAdmission == Adm!Spec

\* "Pushes run together; a pull runs alone" (_admit).
PullRunsAlone == Adm!PullRunsAlone

\* "One job per device at a time" (_device_locks): no two workers execute, or
\* wait for admission, with jobs of one device.
OneJobPerDevice ==
  \A v, w \in Workers :
    /\ pc[v] \in Inside \cup {"admit"} /\ pc[w] \in Inside \cup {"admit"}
    /\ Dev(cur[v]) = Dev(cur[w])
    => v = w

\* What the two are for: "Two rsyncs into one target race on its temp files",
\* and a push beside a pull reads blobs not yet landed. So of two transfers
\* alive at once neither is a pull, and they go to different devices.
TransfersApart ==
  \A i, j \in Ids :
    InProc(i) /\ InProc(j) /\ i # j => Dev(i) # Dev(j) /\ ~IsPull(i)

\* A job never runs more than once and its retries, through restarts and second
\* enqueues included, and one that waits has an attempt left (_execute).
AttemptsBounded ==
  \A j \in Ids : \A o \in {obj[j], row[j]} :
    /\ o.attempt <= Retries + 1
    /\ o.state \in {"queued", "deferred"} => o.attempt <= Retries

\* A queued job is never stranded: its id is in the queue, or a worker has taken
\* it and has not yet decided (start_now, _promote, _readopt and a retry each
\* set the state and enqueue).
NoStrandedJob ==
  \A j \in live :
    obj[j].state = "queued" =>
      \/ j \in Range(queue)
      \/ \E w \in Workers : cur[w] = j /\ pc[w] \in {"lock", "admit"}

\* The history row of a live job says what the job says, but while a worker that has
\* the verdict has still to save it: a pull's row reads running until the reindex is over.
RowsFollowJobs ==
  \A j \in live :
    \/ row[j] = obj[j]
    \/ /\ Finished(j)
       /\ row[j] = In(j, "running")
       /\ \E w \in Workers : cur[w] = j /\ pc[w] \in {"reindex", "raise late"}

\* No row reads RUNNING for ever: while the process is up some worker executes
\* the job (start fails the ones it finds; an exception fails the job).
Executed(j) == \E w \in Workers : cur[w] = j /\ pc[w] \in Executing
NoRowRunsForEver == up => \A j \in Ids : row[j].state = "running" => Executed(j)

\* But of a job whose card was closed between its verdict and its save: an exception in
\* between finds nobody to fail.
RunningRowsRun ==
  up => \A j \in Ids : row[j].state = "running" =>
          Executed(j) \/ (RecordFaults /\ j \notin live)

\* No row reads QUEUED or DEFERRED for ever: the runner has the job in memory
\* ("Ignored, as they once were, they read QUEUED for ever", _readopt).
PendingRowsAreLive ==
  up => \A j \in Ids : row[j].state \in {"queued", "deferred"} => j \in live

\* A verdict that is in the history stands: the row changes no more, except by being
\* deleted, and neither does the card. One that is only on the card is saved as it is, or
\* an exception makes the job a failed one. An aborted job that a worker holds at the lock
\* or at the gate would break this if _run did not look again, and so would an exception
\* that finds its job saved.
VerdictsStand ==
  [][\A j \in Ids :
       /\ row[j].state \in TerminalStates => row'[j] \in {row[j], NoJob}
       /\ j \in live \cap live' /\ Finished(j) =>
            \/ obj'[j] = obj[j]
            \/ row[j] = In(j, "running") /\ obj'[j] = In(j, "failed") /\ row'[j] = obj'[j]]_vars

\* reindex: "surfaced in the UI, never fatal". Nor is it for the pull that awaits it.
ShownVerdictsStand ==
  [][\A j \in live \cap live' : Finished(j) => obj'[j] = obj[j]]_vars

\* A job dismissed or removed does not start any more: "Checking only on the way
\* in ran a push the user had cancelled" (_run).
ForgottenJobsDoNotStart ==
  [][\A j \in 1..made :
       j \notin live /\ up /\ obj[j].state # "running" => obj'[j].state # "running"]_vars

\* cancel: "Stop a job if it is live, then delete it from history entirely".
RemovedJobsStop ==
  \A j \in 1..made : row[j] = NoJob /\ j \notin live => ~InProc(j)

\* dismiss: "An unfinished job is aborted first".
DismissedJobsStop ==
  \A j \in 1..made : row[j].state = "aborted" /\ j \notin live => ~InProc(j)

\* build_argv: "a route never taught about upstream still cannot aim a transfer at
\* the library's source": no push starts at a device that is an upstream by then.
UpstreamsAreNotPushedTo ==
  [][\A j \in Ids : child[j] = "none" /\ child'[j] = "alive" /\ ~IsPull(j)
                     => mode[Dev(j)] # "upstream"]_vars

\* Every queued job is settled, or its user is rid of it: no order of locks,
\* gate, retries and duplicate enqueues leaves it waiting.
QueuedJobsSettle ==
  \A j \in Ids :
    (j \in live /\ obj[j].state = "queued") ~> (j \notin live \/ Finished(j))
=============================================================================
