------------------------------ MODULE Holdings ------------------------------
(***************************************************************************)
(* One device, what is on it, and what this host believes: transfers to or *)
(* from it (the ends of JobRunner._execute, with _record_partial,          *)
(* _credit_pull, _debit and _update_manifest), listings of it (scan.py)    *)
(* and people who move files on either side, over the library's index      *)
(* (LibraryIndex) and the device's manifest (Manifests).                   *)
(*                                                                         *)
(* The device is a node that is pushed to or an upstream that is pulled    *)
(* from.  It runs one transfer at a time (JobQueue: OneJobPerDevice) and   *)
(* one scan (Scanner._running); the two overlap, and both take long.  What *)
(* rsync decides (what is missing, what is extraneous) it decides when it  *)
(* starts.                                                                 *)
(***************************************************************************)
EXTENDS LibraryIndex, Manifests

CONSTANTS
  Retries      \* of a transfer

ASSUME HoldingsConstantsOK ==
  /\ Files = Paths
  /\ Retries \in Nat
  /\ \A b \in Budgets : /\ b.transfers \in Nat /\ b.scans \in Nat
                        /\ b.byHand \in Nat /\ b.pages \in Nat
                        /\ b.roles \subseteq {"node", "upstream"}

VARIABLES
  role,     \* is_upstream
  disk,     \* what is on the device
  job,      \* the transfer, see NoJob
  scan,     \* the listing, see NoScan
  given,    \* for a property: what transfers brought or took and recorded, still there
  pruned,   \* for a property: what transfers deleted and nothing has put back
  stirred   \* for a property: what moved or was written about since the scan began

\* at: "idle", "queued" for its next attempt, "running", then for a pull "asking" for
\* a reindex and "awaiting" it. sent: names whose file is complete and counted (xfr#).
\* flight: the file that is not counted yet. gone: the `deleting` lines of this attempt.
NoJob == [at |-> "idle", scope |-> {}, prune |-> FALSE, attempt |-> 0,
          todo |-> {}, extra |-> {}, sent |-> {}, flight |-> {}, gone |-> {}]
NoScan == [on |-> FALSE, todo |-> {}, listed |-> {}, began |-> 0]

ghosts == <<given, pruned, stirred>>
device == <<role, disk, job, scan, ghosts>>
vars == <<indexVars, manifestVars, device, left>>

TypeOK ==
  /\ IndexTypeOK /\ ManifestTypeOK
  /\ role \in left.roles /\ disk \subseteq Files
  /\ job.at \in {"idle", "queued", "running", "asking", "awaiting"}
  /\ job.scope \cup job.todo \cup job.extra \cup job.sent \cup job.gone \subseteq Files
  /\ Cardinality(job.flight) <= 1 /\ job.attempt \in 0..Retries + 1
  /\ scan.on \in BOOLEAN /\ scan.todo \cup scan.listed \subseteq Files /\ scan.began \in Stamps
  /\ given \cup pruned \cup stirred \subseteq Files

Init ==
  /\ IndexInit /\ ManifestInit
  /\ role \in left.roles /\ disk \in SUBSET Files
  /\ job = NoJob /\ scan = NoScan
  /\ given = {} /\ pruned = {} /\ stirred = {}

\* Ghosts: files that moved, or that the loop writes about.
Stir(ps) == stirred' = IF scan.on THEN stirred \cup ps ELSE {}
-----------------------------------------------------------------------------
(* Transfers: rsync's side.                                                  *)

Missing(scope) == IF role = "node" THEN (scope \cap library) \ disk ELSE disk \ library
Extraneous(scope) == IF role = "node" THEN (scope \cap disk) \ library ELSE library \ disk

\* A job is submitted: some books or the whole root, with or without a prune. A
\* pull is of everything.
Submit(scope, prune) ==
  /\ writer = "free" /\ job.at = "idle"
  /\ scope # {} /\ (role = "upstream" => scope = Files)
  /\ Spend("transfers")
  /\ job' = [NoJob EXCEPT !.at = "queued", !.scope = scope, !.prune = prune]
  /\ UNCHANGED <<indexVars, manifestVars, role, disk, scan, ghosts>>

\* _execute: the names and the deletions of an earlier attempt are dropped.
Attempt ==
  /\ writer = "free" /\ job.at = "queued"
  /\ job' = [job EXCEPT !.at = "running", !.attempt = @ + 1, !.sent = {}, !.gone = {},
                        !.todo = Missing(job.scope),
                        !.extra = IF job.prune THEN Extraneous(job.scope) ELSE {}]
  /\ UNCHANGED <<indexVars, manifestVars, role, disk, scan, ghosts, left>>

\* A file is complete under its name. (Its source may have gone since.)
FileLands(p) ==
  /\ job.at = "running" /\ job.flight = {} /\ p \in job.todo
  /\ job' = [job EXCEPT !.todo = @ \ {p}, !.flight = {p}]
  /\ IF role = "node"
       THEN /\ p \in library /\ disk' = disk \cup {p} /\ pruned' = pruned \ {p}
            /\ Stir({p}) /\ UNCHANGED <<library, asking>>
       ELSE p \in disk /\ BookLands(p) /\ UNCHANGED <<disk, pruned, stirred, asker>>
  /\ UNCHANGED <<publication, walking, manifestVars, role, scan, given, left>>

\* Its xfr# line is read.
FileCounted ==
  /\ job.at = "running" /\ job.flight # {}
  /\ job' = [job EXCEPT !.sent = @ \cup job.flight, !.flight = {}]
  /\ UNCHANGED <<indexVars, manifestVars, role, disk, scan, ghosts, left>>

\* --delete: the unlink, and then the line that says so.
FilePruned(p) ==
  /\ job.at = "running" /\ p \in job.extra
  /\ job' = [job EXCEPT !.extra = @ \ {p}, !.gone = @ \cup {p}]
  /\ IF role = "node"
       THEN /\ p \in disk /\ disk' = disk \ {p} /\ given' = given \ {p}
            /\ pruned' = pruned \cup {p} /\ Stir({p}) /\ UNCHANGED <<library, asking>>
       ELSE p \in library /\ BookGoes(p) /\ UNCHANGED <<disk, ghosts, asker>>
  /\ UNCHANGED <<publication, walking, manifestVars, role, scan, left>>
-----------------------------------------------------------------------------
(* Transfers: the end of _execute, one go of the event loop.                 *)

\* record, retract, and what the properties remember of them.
Account(ps, gone) ==
  /\ Record(ps, gone)
  /\ given' = given \cup (ps \cap (job.sent \cup job.flight) \cap disk)
  /\ Stir(ps \cup gone)

\* _update_manifest: the index's books of the scope, not the names that were sent.
PushDone ==
  /\ role = "node" /\ job.at = "running"
  /\ job.todo = {} /\ job.flight = {} /\ job.extra \cap disk = {}
  /\ Account(index \cap job.scope, job.gone)
  /\ job' = NoJob
  /\ UNCHANGED <<indexVars, role, disk, scan, pruned, left>>

\* _record_partial: a prefix of the names, and no more of them than files were
\* counted. Directories have names too, and SENT_CAP may have dropped the list.
Credits == {c \cap index : c \in SUBSET job.sent}

PushStops ==
  /\ role = "node" /\ job.at = "running"
  /\ \E ps \in Credits : Account(ps, job.gone)
  /\ job' = NoJob
  /\ UNCHANGED <<indexVars, role, disk, scan, pruned, left>>

\* A failure with an attempt left returns before _credit_pull and _debit.
Requeue == [job EXCEPT !.at = "queued", !.flight = {}]

PushRetries ==
  /\ role = "node" /\ job.at = "running" /\ job.attempt <= Retries
  /\ \E ps \in Credits : Account(ps, {})
  /\ job' = Requeue
  /\ UNCHANGED <<indexVars, role, disk, scan, pruned, left>>

PullRetries ==
  /\ role = "upstream" /\ job.at = "running" /\ job.attempt <= Retries
  /\ writer = "free"
  /\ job' = Requeue
  /\ UNCHANGED <<indexVars, manifestVars, role, disk, scan, ghosts, left>>

\* _credit_pull, on every other outcome: of the names, those that are files here.
PullEnds ==
  /\ role = "upstream" /\ job.at = "running"
  /\ Account((job.sent \cup job.flight) \cap library, job.gone)
  /\ job' = [NoJob EXCEPT !.at = "asking"]
  /\ UNCHANGED <<indexVars, role, disk, scan, pruned, left>>

PullWantsIndex ==
  /\ writer = "free" /\ job.at = "asking"
  /\ PullAsks
  /\ job' = [job EXCEPT !.at = "awaiting"]
  /\ UNCHANGED <<manifestVars, role, disk, scan, ghosts>>

PullSettles ==
  /\ writer = "free" /\ job.at = "awaiting"
  /\ PullOver
  /\ job' = NoJob
  /\ UNCHANGED <<manifestVars, role, disk, scan, ghosts>>
-----------------------------------------------------------------------------
(* Scanner.start and _run: rsync --list-only, path after path, and one        *)
(* replace_scan when it exits with 0.                                         *)

ScanStarts ==
  /\ writer = "free" /\ ~scan.on
  /\ Spend("scans")
  /\ scan' = [on |-> TRUE, todo |-> Files, listed |-> {}, began |-> clock]
  /\ stirred' = {}
  /\ UNCHANGED <<indexVars, manifestVars, role, disk, job, given, pruned>>

ScanLists(p) ==
  /\ scan.on /\ p \in scan.todo
  /\ scan' = [scan EXCEPT !.todo = @ \ {p}, !.listed = @ \cup ({p} \cap disk)]
  /\ UNCHANGED <<indexVars, manifestVars, role, disk, job, ghosts, left>>

ScanEnds ==
  /\ scan.on /\ scan.todo = {}
  /\ ReplaceScan(scan.listed, scan.began)
  /\ scan' = NoScan
  /\ UNCHANGED <<indexVars, role, disk, job, ghosts, left>>

\* Another exit code, a process that cannot be started, a cancelled task.
ScanFails ==
  /\ writer = "free" /\ scan.on
  /\ scan' = NoScan
  /\ UNCHANGED <<indexVars, manifestVars, role, disk, job, ghosts, left>>
-----------------------------------------------------------------------------
\* Somebody puts a file on the device or takes one off.
MoveOnDevice(p) ==
  /\ Spend("byHand")
  /\ disk' = (disk \cup {p}) \ (disk \cap {p})
  /\ given' = given \ {p} /\ pruned' = pruned \ {p} /\ Stir({p})
  /\ UNCHANGED <<indexVars, manifestVars, role, job, scan>>

Transfer ==
  \/ \E scope \in SUBSET Files, prune \in BOOLEAN : Submit(scope, prune)
  \/ Attempt \/ FileCounted
  \/ \E p \in Files : FileLands(p) \/ FilePruned(p)
  \/ PushDone \/ PushStops \/ PushRetries
  \/ PullEnds \/ PullRetries \/ PullWantsIndex \/ PullSettles

Scan == ScanStarts \/ (\E p \in Files : ScanLists(p)) \/ ScanEnds \/ ScanFails

Index ==
  /\ \/ \E p \in Files : Move(p)
     \/ IndexThread
     \/ writer = "free" /\ (Tick \/ WalkEnds \/ PullHears)
  /\ UNCHANGED <<manifestVars, device>>

Manifest ==
  /\ \/ (Writing \/ \E t \in Threads : Counting(t)) /\ UNCHANGED left
     \/ \E t \in Threads : CoverOpens(t, index, gen) /\ Spend("pages")
  /\ UNCHANGED <<indexVars, device>>

Next == Transfer \/ Scan \/ Index \/ Manifest \/ \E p \in Files : MoveOnDevice(p)

Spec == Init /\ [][Next]_vars
-----------------------------------------------------------------------------
\* What a transfer delivered and recorded stays claimed while it is there, though
\* a scan that listed its directory too early ends after it (replace_scan:
\* "a push that finished mid-scan may have landed in a directory the listing
\* had already passed").
DeliveredIsClaimed == writer \in {"free", "owing"} => given \cap disk \subseteq Claimed

\* A scan is authoritative: of every file that nobody touched or wrote about while
\* it ran, the rows say afterwards what the device holds, whatever they said before.
ScanTellsTheTruth ==
  [][writer' = "scanned" /\ writer # "scanned" =>
       \A p \in Files \ stirred : p \in Claimed' <=> p \in disk]_vars

TalliesAreCurrent == CachedTallyIsCurrent(index, gen)

\* What a transfer has deleted is not claimed once it is over: `_debit` runs on
\* "every outcome but a dry run".
PrunedIsRetracted == job.at = "idle" /\ writer = "free" => pruned \cap Claimed = {}

\* A push claims only what was on the device or went there: _update_manifest says
\* of what it leaves out "rsync sent none of it, and a false row stands until the
\* device is next scanned".
PushClaimsWhatIsThere ==
  [][writer' = "recorded" /\ writer = "free" /\ role = "node" /\ left.byHand = 0 =>
       \A p \in Files : row'[p] # row[p] => p \in disk]_vars
=============================================================================
