---------------------------- MODULE PullService ----------------------------
(***************************************************************************)
(* A pull on this host: JobRunner._run_pull (jobs.py), a preflight and six *)
(* phases in one coroutine, around the local service that reads the        *)
(* catalog.  Books come first, the upstream then snapshots its catalog,    *)
(* the local service is stopped, the snapshot lands as the new catalog,    *)
(* the service is started, the snapshot removed.  A file, the hold, says   *)
(* across a restart that a stopped service is owed a start.                *)
(*                                                                         *)
(* Pulls run alone (JobQueue), so there is one coroutine.  A command that  *)
(* is awaited has its effect at one moment and is seen to end at a later   *)
(* one; in between the process may die, and shutting it down cancels the   *)
(* coroutine, whose finally runs, before it kills the children.            *)
(***************************************************************************)
EXTENDS Naturals

CONSTANTS
  Faults,      \* what may go wrong with the host, see Kinds
  MaxPulls, MaxCrashes, MaxStops, MaxByHand   \* bounds of the model

\* The commands that may fail, a signal that kills the children before it ends
\* this process (systemd sends it to the whole group), a log that cannot be
\* written, and an operator who starts and stops the service by hand.
Kinds == {"is-active", "stop", "start", "recovery", "signal", "log", "operator"}

ASSUME ConstantsOK ==
  /\ Faults \subseteq Kinds
  /\ MaxPulls \in Nat /\ MaxCrashes \in Nat /\ MaxStops \in Nat /\ MaxByHand \in Nat

VARIABLES
  \* the host
  service,    \* the local unit
  reading,    \* the catalog it opened when it started
  db, wal,    \* the catalog's version, and the one its -wal belongs to
  hold,       \* does service-hold.json exist
  snapshot,   \* the upstream's snapshot of its catalog
  \* the process
  up, leaving,   \* is it running, and is stop() under way
  step,       \* the await the pull is at
  stopped,    \* the local variable of that name
  copy,       \* the rsync of the catalog
  \* for the properties: did libnodes stop the service, and is it still down
  owed,
  pulls, crashes, stops, byHand   \* how much of the bounds is used up

spent == <<pulls, crashes, stops, byHand>>
unit == <<service, reading, owed>>
catalog == <<db, wal>>
process == <<up, leaving>>
vars == <<unit, catalog, hold, snapshot, process, step, stopped, copy, spent>>

Steps == {"idle", "preflight", "authorise", "library", "snapshot", "ask", "stop",
          "catalog", "start", "started", "cleanup"}
NoWal == MaxPulls + 1
Versions == 0..MaxPulls

TypeOK ==
  /\ service \in {"active", "stopping", "inactive"}
  /\ reading \in Versions /\ db \in Versions /\ wal \in Versions \cup {NoWal}
  /\ hold \in BOOLEAN /\ up \in BOOLEAN /\ leaving \in BOOLEAN
  /\ stopped \in BOOLEAN /\ owed \in BOOLEAN
  /\ snapshot \in {"none", "there", "stuck"}
  /\ step \in Steps
  /\ copy \in {"none", "running", "landed", "failed"}
  /\ pulls \in 0..MaxPulls /\ crashes \in 0..MaxCrashes /\ stops \in 0..MaxStops
  /\ byHand \in 0..MaxByHand

Init ==
  /\ service \in {"active", "inactive"}
  /\ reading = 0 /\ db = 0 /\ wal \in {0, NoWal}
  /\ hold = FALSE /\ snapshot = "none"
  /\ up = TRUE /\ leaving = FALSE
  /\ step = "idle" /\ stopped = FALSE /\ copy = "none"
  /\ owed = FALSE
  /\ pulls = 0 /\ crashes = 0 /\ stops = 0 /\ byHand = 0
-----------------------------------------------------------------------------
(* The unit on this host, and the database it reads.                         *)

\* It has the catalog open, and whatever it writes goes to the -wal of that one.
ServiceWrites ==
  /\ service # "inactive"
  /\ wal' = reading
  /\ UNCHANGED <<unit, db, hold, snapshot, process, step, stopped, copy, spent>>

\* A stop that was asked for completes, whether or not somebody waits for it. A
\* clean one usually removes the -wal.
UnitStops ==
  /\ service = "stopping"
  /\ service' = "inactive"
  /\ wal' \in {wal, NoWal}
  /\ UNCHANGED <<reading, owed, db, hold, snapshot, process, step, stopped, copy, spent>>

\* systemctl start: a no-op on a running unit.
UnitStarts ==
  /\ service' = "active"
  /\ reading' = IF service = "active" THEN reading ELSE db
  /\ owed' = FALSE

ByHand ==
  /\ "operator" \in Faults /\ byHand < MaxByHand
  /\ byHand' = byHand + 1
  /\ \/ service # "active" /\ UnitStarts
     \/ service = "active" /\ service' = "stopping" /\ UNCHANGED <<reading, owed>>
  /\ UNCHANGED <<catalog, hold, snapshot, process, step, stopped, copy, pulls, crashes, stops>>

\* What systemctl is-active may answer: whatever cannot be asked is not running.
Answers == {service = "active"} \cup (IF "is-active" \in Faults THEN {FALSE} ELSE {})
-----------------------------------------------------------------------------
(* The pull, from one await to the next.                                     *)

At(s) == up /\ step = s

\* Where only the coroutine moves.
Goto(s) == step' = s /\ UNCHANGED <<unit, catalog, hold, snapshot, process, stopped, copy, spent>>

\* A pull of books and catalog. (A dry run, or a host that declares no unit, ends
\* with the books and touches nothing of this module.)
Begin ==
  /\ At("idle") /\ ~leaving /\ pulls < MaxPulls
  /\ pulls' = pulls + 1
  /\ step' = "preflight"
  /\ stopped' = FALSE
  /\ UNCHANGED <<unit, catalog, hold, snapshot, process, copy, crashes, stops, byHand>>

\* May this process manage the unit at all? An inactive unit is left alone.
Preflight ==
  /\ At("preflight")
  /\ \E active \in Answers : Goto(IF active THEN "authorise" ELSE "library")

\* A start, which a running unit does not notice, and which needs the same
\* authorisation as a stop.
Authorise ==
  /\ At("authorise")
  /\ \/ /\ UnitStarts
        /\ step' = "library"
        /\ UNCHANGED <<catalog, hold, snapshot, process, stopped, copy, spent>>
     \/ "stop" \in Faults /\ Goto("idle")

\* The books. A failure ends the pull.
Library == At("library") /\ \E s \in {"snapshot", "idle"} : Goto(s)

Snapshot ==
  /\ At("snapshot")
  /\ \/ snapshot' = "there" /\ step' = "ask"
     \/ step' = "cleanup" /\ snapshot' \in {snapshot, "there"}
  /\ UNCHANGED <<unit, catalog, hold, process, stopped, copy, spent>>

\* The sidecars go, and the rsync of the catalog starts. (LeaveSidecars, a
\* mutant, forgets the first.)
LeaveSidecars == copy' = "running" /\ UNCHANGED catalog

StartCopy == copy' = "running" /\ wal' = NoWal /\ UNCHANGED db

\* A mutant of Ask: the answer of the preflight is trusted, and one who was not
\* running then is not running now.
AskOnce ==
  /\ At("ask")
  /\ \/ service = "active" /\ hold' = TRUE /\ step' = "stop" /\ UNCHANGED <<catalog, copy>>
     \/ StartCopy /\ step' = "catalog" /\ UNCHANGED hold
  /\ UNCHANGED <<unit, snapshot, process, stopped, spent>>

\* A mutant of Ask: the hold is not written.
AskNoHold ==
  /\ At("ask")
  /\ \E active \in Answers :
       IF active THEN step' = "stop" /\ UNCHANGED <<hold, catalog, copy>>
                 ELSE StartCopy /\ step' = "catalog" /\ UNCHANGED hold
  /\ UNCHANGED <<unit, snapshot, process, stopped, spent>>

\* Asked again, hours later: the hold is written before the stop, and a service
\* that is not running needs none.
Ask ==
  /\ At("ask")
  /\ \E active \in Answers :
       IF active THEN hold' = TRUE /\ step' = "stop" /\ UNCHANGED <<catalog, copy>>
                 ELSE StartCopy /\ step' = "catalog" /\ UNCHANGED hold
  /\ UNCHANGED <<unit, snapshot, process, stopped, spent>>

\* systemctl stop reaches systemd, which stops the unit in its own time.
StopBegins ==
  /\ At("stop") /\ service = "active"
  /\ service' = "stopping" /\ owed' = TRUE
  /\ UNCHANGED <<reading, catalog, hold, snapshot, process, step, stopped, copy, spent>>

StopReturns ==
  /\ At("stop") /\ service = "inactive"
  /\ stopped' = TRUE /\ step' = "catalog"
  /\ StartCopy
  /\ UNCHANGED <<unit, hold, snapshot, process, spent>>

\* The exit code says it could not be stopped: nothing is down, so the hold goes
\* and the pull ends. A client that was killed has not cancelled the stop.
StopFails ==
  /\ At("stop")
  /\ \/ "stop" \in Faults /\ service = "active"
     \/ "signal" \in Faults /\ service = "stopping"
  /\ hold' = FALSE /\ step' = "idle"
  /\ UNCHANGED <<unit, catalog, snapshot, process, stopped, copy, spent>>

\* The catalog's rsync: renamed into place, or failed or aborted without a trace.
CopyLands ==
  /\ copy = "running"
  /\ db' = pulls /\ copy' = "landed"
  /\ UNCHANGED <<unit, wal, hold, snapshot, process, step, stopped, spent>>

CopyFails ==
  /\ copy = "running"
  /\ copy' = "failed"
  /\ UNCHANGED <<unit, catalog, hold, snapshot, process, step, stopped, spent>>

\* Mutants of Finally: a service is started whoever stopped it, or only when the
\* catalog landed.
FinallyAlways == "start"
FinallyIfLanded == IF stopped /\ copy = "landed" THEN "start" ELSE "cleanup"

\* Where the finally leads.
Finally == IF stopped THEN "start" ELSE "cleanup"

CatalogDone ==
  /\ At("catalog") /\ copy \in {"landed", "failed"}
  /\ step' = Finally
  /\ copy' = "none"
  /\ UNCHANGED <<unit, catalog, hold, snapshot, process, stopped, spent>>

StartWorks ==
  /\ At("start") /\ service # "stopping"
  /\ UnitStarts
  /\ step' = "started"
  /\ UNCHANGED <<catalog, hold, snapshot, process, stopped, copy, spent>>

\* The pull goes on, or, cancelled, is over.
Onwards == step' = IF leaving THEN "idle" ELSE "cleanup"

StartReturns ==
  /\ At("started")
  /\ hold' = FALSE /\ Onwards
  /\ UNCHANGED <<unit, catalog, snapshot, process, stopped, copy, spent>>

\* DID NOT RESTART: the hold stays.
StartFails ==
  /\ "start" \in Faults
  /\ At("start") /\ Onwards
  /\ UNCHANGED <<unit, catalog, hold, snapshot, process, stopped, copy, spent>>

\* Never fatal. A snapshot that could not be removed is stuck.
Cleanup ==
  /\ At("cleanup")
  /\ step' = "idle"
  /\ snapshot' \in (IF snapshot = "none" THEN {"none"} ELSE {"none", "stuck"})
  /\ UNCHANGED <<unit, catalog, hold, process, stopped, copy, spent>>

\* The log cannot be written. The exception unwinds: inside the try the finally
\* runs, and starts the service if its own note can be written.
LogRaises ==
  /\ "log" \in Faults
  /\ up /\ step # "idle"
  /\ step' \in {"idle"} \cup (IF step = "catalog" /\ stopped THEN {"start"} ELSE {})
  /\ UNCHANGED <<unit, catalog, hold, snapshot, process, stopped, copy, spent>>
-----------------------------------------------------------------------------
(* The process.                                                              *)

\* stop(): the workers are cancelled first. In the catalog's phase the finally
\* starts the service; anywhere else the coroutine is gone.
Shutdown ==
  /\ up /\ ~leaving /\ stops < MaxStops
  /\ leaving' = TRUE /\ stops' = stops + 1
  /\ step' = IF step = "catalog" /\ stopped THEN "start" ELSE "idle"
  /\ UNCHANGED <<unit, catalog, hold, snapshot, up, stopped, copy, pulls, crashes, byHand>>

Gone ==
  /\ up' = FALSE /\ leaving' = FALSE /\ step' = "idle" /\ stopped' = FALSE /\ copy' = "none"
  /\ UNCHANGED <<unit, catalog, hold, snapshot, pulls, byHand>>

\* The workers are done: the children are reaped, and the process ends.
Reap == up /\ leaving /\ step = "idle" /\ Gone /\ UNCHANGED <<crashes, stops>>

Crash ==
  /\ up /\ crashes < MaxCrashes
  /\ crashes' = crashes + 1
  /\ Gone /\ UNCHANGED stops

\* start(): a hold means a service is owed a start. It is unlinked either way.
Start ==
  /\ ~up /\ up' = TRUE
  /\ hold' = FALSE
  /\ \/ hold /\ UnitStarts
     \/ (hold => "recovery" \in Faults) /\ UNCHANGED unit
  /\ UNCHANGED <<catalog, snapshot, leaving, step, stopped, copy, spent>>

\* No pull is running.
Rest == At("idle") /\ ~leaving /\ UNCHANGED vars
-----------------------------------------------------------------------------
Pull ==
  \/ Preflight \/ Authorise \/ Library \/ Snapshot \/ Ask \/ StopBegins \/ StopReturns
  \/ StopFails \/ CatalogDone \/ StartWorks \/ StartReturns \/ StartFails \/ Cleanup
  \/ LogRaises

Host == ServiceWrites \/ UnitStops \/ ByHand \/ CopyLands \/ CopyFails

Next == Begin \/ Pull \/ Host \/ Shutdown \/ Reap \/ Crash \/ Start \/ Rest

Spec == Init /\ [][Next]_vars

\* Every command ends, systemd finishes a stop, and it restarts the process.
Fairness ==
  /\ WF_vars(Pull) /\ WF_vars(UnitStops) /\ WF_vars(CopyLands \/ CopyFails)
  /\ WF_vars(Reap) /\ WF_vars(Start)

FairSpec == Spec /\ Fairness
-----------------------------------------------------------------------------
\* A service that libnodes stopped and that is still down is on record, so that
\* the next start of libnodes brings it back, wherever this one died
\* (_service_hold: "stopped the local service and owes it a start").
OwedIsOnRecord == owed => hold

\* The catalog is never replaced under a running reader (phases 3 to 5 of
\* _run_pull, and Settings.local_service).
QuietSwap == copy = "running" => service = "inactive"

\* A -wal beside the catalog belongs to that catalog: "an old WAL applied over a
\* new file loses the catalog" (phase 4).
WalBelongsToCatalog == wal \in {db, NoWal}

\* Unless somebody else has started or stopped the service by hand, libnodes starts
\* it only if it stopped it: "no start afterwards of a service somebody stopped"
\* (phase 3), "an inactive unit is left alone" (preflight).
StartsOnlyWhatItStopped ==
  [][byHand = 0 /\ byHand' = 0 /\ service # "active" /\ service' = "active" => owed]_vars

\* The snapshot is taken off the upstream at the end of every pull, or its
\* removal failed (_cleanup: "on failure too").
SnapshotIsRemoved == up /\ step = "idle" => snapshot # "there"

\* Between pulls there is no hold for a service that runs: nobody owes it a start,
\* and the next start of libnodes would act on it (_service_hold).
HoldIsOwed == At("idle") /\ ~leaving /\ hold => service # "active"

\* "The local service comes back whatever happens" (_run_pull).
ServiceComesBack == owed ~> service = "active"
=============================================================================
