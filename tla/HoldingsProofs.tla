--------------------------- MODULE HoldingsProofs ---------------------------
(***************************************************************************)
(* What Holdings promises, for any files, budgets and threads.             *)
(*                                                                         *)
(* First, a pull that says "library reindexed" is right (AskInv).  While   *)
(* it waits, the books it brought are either still before the running      *)
(* walk, or in what it read, or another walk is owed (`again`); when no    *)
(* walk runs they are in the index, or the error is on record.  A walk     *)
(* that begins after the answer reads them anew.                           *)
(*                                                                         *)
(* Then the rows and what is cached of them (HeldInv): the last_sync, the  *)
(* tallies of the coverage threads, what transfers delivered and what a    *)
(* listing found.                                                          *)
(***************************************************************************)
EXTENDS Holdings, TLAPS

OnTheWay == promised \subseteq todo \cup seen \cup missed
Indexed == promised \subseteq index \cup partial

AskInv ==
  /\ library \subseteq Paths /\ promised \subseteq library
  /\ task \in {"none", "walking", "walked"}
  /\ asker = "awaiting" =>
       /\ task = "walking" => again \/ OnTheWay
       /\ task = "walked" => again \/ failed \/ Indexed
       /\ task = "none" => failed \/ Indexed
  /\ asker = "indexed" => Indexed /\ (task = "walking" => OnTheWay)

\* What a step of the composed system may do to the library and its index.
Asking == Tick \/ PullAsks \/ WalkEnds \/ PullHears \/ PullOver
Shelving ==
  /\ \E p \in Paths : BookLands(p) \/ BookGoes(p)
  /\ UNCHANGED <<publication, walking, asker>>
IndexStep == Asking \/ Shelving \/ IndexThread \/ UNCHANGED indexVars

LEMMA HoldingsStep == [Next]_vars => IndexStep
  <1> SUFFICES ASSUME [Next]_vars PROVE IndexStep
    OBVIOUS
  <1> USE DEF IndexStep
  <1>1. CASE Transfer
    <2>1. ASSUME NEW scope \in SUBSET Files, NEW prune \in BOOLEAN, Submit(scope, prune)
          PROVE  IndexStep
      BY <2>1 DEF Submit
    <2>2. CASE Attempt \/ FileCounted
      BY <2>2 DEF Attempt, FileCounted
    <2>3. ASSUME NEW p \in Files, FileLands(p)
          PROVE  IndexStep
      BY <2>3, HoldingsConstantsOK
      DEF FileLands, Shelving, indexVars, asking, publication, walking, BookLands
    <2>4. ASSUME NEW p \in Files, FilePruned(p)
          PROVE  IndexStep
      BY <2>4, HoldingsConstantsOK
      DEF FilePruned, Shelving, indexVars, asking, publication, walking, BookGoes
    <2>5. CASE PushDone \/ PushStops \/ PushRetries
      BY <2>5 DEF PushDone, PushStops, PushRetries
    <2>6. CASE PullEnds \/ PullRetries
      BY <2>6 DEF PullEnds, PullRetries
    <2>7. CASE PullWantsIndex \/ PullSettles
      BY <2>7 DEF PullWantsIndex, PullSettles, Asking
    <2> QED BY <1>1, <2>1, <2>2, <2>3, <2>4, <2>5, <2>6, <2>7 DEF Transfer
  <1>2. CASE Scan
    BY <1>2 DEF Scan, ScanStarts, ScanLists, ScanEnds, ScanFails
  <1>3. CASE Index
    <2>1. ASSUME NEW p \in Files, Move(p)
          PROVE  IndexStep
      BY <2>1, HoldingsConstantsOK DEF Move, Shelving, publication, walking
    <2>2. CASE IndexThread \/ Tick \/ WalkEnds \/ PullHears
      BY <2>2 DEF Asking
    <2> QED BY <1>3, <2>1, <2>2 DEF Index
  <1>4. CASE Manifest
    BY <1>4 DEF Manifest
  <1>5. CASE \E p \in Files : MoveOnDevice(p)
    BY <1>5 DEF MoveOnDevice
  <1>6. CASE UNCHANGED vars
    BY <1>6 DEF vars
  <1> QED BY <1>1, <1>2, <1>3, <1>4, <1>5, <1>6 DEF Next

\* An ask begins a walk of everything, or leaves `again` for the one that runs.
LEMMA AnAskIsKept ==
  ASSUME AskInv, ReindexSoon
  PROVE  \/ task = "none" /\ task' = "walking" /\ todo' = Paths
         \/ again' = TRUE /\ task # "none" /\ UNCHANGED <<task, todo, seen, missed>>
  BY DEF ReindexSoon, BeginWalk

LEMMA AskingKeepsInv == AskInv /\ Asking => AskInv'
  <1> SUFFICES ASSUME AskInv, Asking PROVE AskInv'
    OBVIOUS
  <1> USE DEF AskInv, OnTheWay, Indexed
  <1>1. CASE Tick
    BY <1>1, AnAskIsKept DEF Tick, publication, asking
  <1>2. CASE PullAsks
    BY <1>2, AnAskIsKept DEF PullAsks, publication
  <1>3. CASE WalkEnds
    <2>1. CASE again
      BY <1>3, <2>1 DEF WalkEnds, BeginWalk, publication, asking
    <2>2. CASE ~again
      BY <1>3, <2>2 DEF WalkEnds, publication, asking
    <2> QED BY <2>1, <2>2
  <1>4. CASE PullHears
    BY <1>4 DEF PullHears, publication, walking
  <1>5. CASE PullOver
    BY <1>5 DEF PullOver, publication, walking
  <1> QED BY <1>1, <1>2, <1>3, <1>4, <1>5 DEF Asking

\* Only a book that leaves the library leaves the promise; one that arrives was not
\* promised.
LEMMA ShelvingKeepsInv == AskInv /\ Shelving => AskInv'
  <1> SUFFICES ASSUME AskInv, NEW p \in Paths, BookLands(p) \/ BookGoes(p),
                      UNCHANGED <<publication, walking, asker>>
               PROVE  AskInv'
    BY DEF Shelving
  <1> QED BY DEF AskInv, OnTheWay, Indexed, BookLands, BookGoes, publication, walking

LEMMA ThreadKeepsInv == AskInv /\ IndexThread => AskInv'
  <1> SUFFICES ASSUME AskInv, IndexThread PROVE AskInv'
    OBVIOUS
  <1> USE DEF AskInv, OnTheWay, Indexed
  \* A promised book is in the library when the walk comes to it.
  <1>1. ASSUME NEW p \in Paths, WalkReads(p)
        PROVE  AskInv'
    BY <1>1 DEF WalkReads, publication, asking
  <1>2. CASE WalkPublishes
    BY <1>2 DEF WalkPublishes, asking
  <1>3. CASE WalkFails
    BY <1>3 DEF WalkFails, asking
  <1>4. CASE WalkRaises
    BY <1>4 DEF WalkRaises
  <1> QED BY <1>1, <1>2, <1>3, <1>4 DEF IndexThread

\* A pull that ends with its library reindexed leaves an index that has its books, or
\* counts them as unreadable (state.reindex_soon), whatever walks were running, failed
\* or were asked for meanwhile, for any set of books.
THEOREM PulledBooksAreFound == Spec => []PulledBooksAreIndexed
  <1>1. Init => AskInv
    BY DEF Init, IndexInit, AskInv
  <1>2. AskInv /\ [Next]_vars => AskInv'
    <2> SUFFICES ASSUME AskInv, [Next]_vars PROVE AskInv'
      OBVIOUS
    <2>1. CASE UNCHANGED indexVars
      BY <2>1 DEF AskInv, OnTheWay, Indexed, indexVars, publication, walking, asking
    <2> QED
      BY <2>1, HoldingsStep, AskingKeepsInv, ShelvingKeepsInv, ThreadKeepsInv DEF IndexStep
  <1>3. AskInv => PulledBooksAreIndexed
    BY DEF AskInv, Indexed, PulledBooksAreIndexed
  <1> QED BY <1>1, <1>2, <1>3, PTL DEF Spec
-----------------------------------------------------------------------------
(* What the device's transfer, listing and rows are made of.                 *)

Jobs == [at : {"idle", "queued", "running", "asking", "awaiting"},
         scope : SUBSET Files, prune : BOOLEAN, attempt : Nat, todo : SUBSET Files,
         extra : SUBSET Files, sent : SUBSET Files, flight : SUBSET Files,
         gone : SUBSET Files]
Scans == [on : BOOLEAN, todo : SUBSET Files, listed : SUBSET Files, began : Nat]
Covers == [at : {"idle", "opened", "counting", "storing"}, gen : Nat,
           idx : SUBSET Files, writes : Nat, tally : SUBSET Files]

ShelfTypes == library \in SUBSET Files /\ index \in SUBSET Files /\ seen \in SUBSET Files
DeviceTypes == disk \in SUBSET Files /\ job \in Jobs /\ scan \in Scans

\* No row is younger than the clock, and an unfinished write is the clock's last tick.
RowTypes ==
  /\ row \in [Files -> Nat] /\ clock \in 0..MaxWrites
  /\ \A p \in Files : row[p] <= clock
  /\ owing \in SUBSET Files
  /\ writer \in {"free", "recorded", "owing", "retracted", "scanned"}

HeldTypes == ShelfTypes /\ DeviceTypes /\ RowTypes

LEMMA ShelfStep == ASSUME ShelfTypes, IndexStep PROVE ShelfTypes'
  <1> USE HoldingsConstantsOK DEF ShelfTypes
  <1>1. CASE Asking
    BY <1>1 DEF Asking, Tick, PullAsks, WalkEnds, PullHears, PullOver, ReindexSoon,
                BeginWalk, publication, walking, asking
  <1>2. CASE Shelving
    BY <1>2 DEF Shelving, BookLands, BookGoes, publication, walking
  <1>3. CASE IndexThread
    BY <1>3 DEF IndexThread, WalkReads, WalkPublishes, WalkFails, WalkRaises, publication
  <1>4. CASE UNCHANGED indexVars
    BY <1>4 DEF indexVars, publication, walking
  <1> QED BY <1>1, <1>2, <1>3, <1>4 DEF IndexStep

LEMMA InitTypes == Init => HeldTypes
  BY HoldingsConstantsOK, ManifestConstantsOK
  DEF Init, IndexInit, ManifestInit, HeldTypes, ShelfTypes, DeviceTypes, RowTypes,
      NoJob, NoScan, Jobs, Scans

\* The names a record is made of are files, so a record of some writes a row.
LEMMA CreditsAreFiles ==
  ASSUME HeldTypes, NEW ps \in Credits
  PROVE  ps \in SUBSET Files
  BY DEF HeldTypes, ShelfTypes, Credits

\* Every write of the system is one of the module Manifests, made of files; and no
\* write and no page of the coverage comes with a new index.
Write ==
  \/ \E ps, gone \in SUBSET Files : Record(ps, gone)
  \/ \E listed \in SUBSET Files : ReplaceScan(listed, scan.began)
  \/ Writing
ManifestStep ==
  \/ Write /\ UNCHANGED publication
  \/ (\E t \in Threads : Counting(t) \/ CoverOpens(t, index, gen)) /\ UNCHANGED publication
  \/ IndexStep /\ UNCHANGED manifestVars

LEMMA WritesAreOfFiles == HeldTypes /\ [Next]_vars => ManifestStep
  <1> SUFFICES ASSUME HeldTypes, [Next]_vars PROVE ManifestStep
    OBVIOUS
  <1> USE DEF ManifestStep, indexVars, publication
  <1>1. CASE Transfer
    <2>1. CASE PushDone
      <3>1. index \cap job.scope \in SUBSET Files /\ job.gone \in SUBSET Files
        BY DEF HeldTypes, ShelfTypes, DeviceTypes, Jobs
      <3> QED BY <2>1, <3>1 DEF PushDone, Account, Write
    <2>2. CASE PushStops
      <3>1. job.gone \in SUBSET Files
        BY DEF HeldTypes, DeviceTypes, Jobs
      <3> QED BY <2>2, <3>1, CreditsAreFiles DEF PushStops, Account, Write
    <2>3. CASE PushRetries
      BY <2>3, CreditsAreFiles DEF PushRetries, Account, Write
    <2>4. CASE PullEnds
      <3>1. (job.sent \cup job.flight) \cap library \in SUBSET Files /\ job.gone \in SUBSET Files
        BY DEF HeldTypes, ShelfTypes, DeviceTypes, Jobs
      <3> QED BY <2>4, <3>1 DEF PullEnds, Account, Write
    <2>5. CASE ~(PushDone \/ PushStops \/ PushRetries \/ PullEnds)
      <3>1. UNCHANGED manifestVars
        BY <1>1, <2>5 DEF Transfer, Submit, Attempt, FileCounted, FileLands, FilePruned,
                          PullRetries, PullWantsIndex, PullSettles
      <3> QED BY <3>1, HoldingsStep
    <2> QED BY <2>1, <2>2, <2>3, <2>4, <2>5
  <1>2. CASE Scan
    <2>1. CASE ScanEnds
      <3>1. scan.listed \in SUBSET Files
        BY DEF HeldTypes, DeviceTypes, Scans
      <3> QED BY <2>1, <3>1 DEF ScanEnds, Write
    <2>2. CASE ~ScanEnds
      BY <1>2, <2>2, HoldingsStep DEF Scan, ScanStarts, ScanLists, ScanFails
    <2> QED BY <2>1, <2>2
  <1>3. CASE Index
    BY <1>3, HoldingsStep DEF Index
  <1>4. CASE Manifest
    BY <1>4 DEF Manifest, Write
  <1>5. CASE \E p \in Files : MoveOnDevice(p)
    BY <1>5, HoldingsStep DEF MoveOnDevice
  <1>6. CASE UNCHANGED vars
    BY <1>6, HoldingsStep DEF vars
  <1> QED BY <1>1, <1>2, <1>3, <1>4, <1>5, <1>6 DEF Next

\* A write stamps rows with its own tick, or takes them away.
LEMMA RowStep == ASSUME RowTypes, ManifestStep PROVE RowTypes'
  <1> USE ManifestConstantsOK DEF RowTypes
  <1>1. CASE \E ps, gone \in SUBSET Files : Record(ps, gone)
    BY <1>1 DEF Record, Stamp, rows
  <1>2. CASE \E listed \in SUBSET Files : ReplaceScan(listed, scan.began)
    BY <1>2 DEF ReplaceScan
  <1>3. CASE Writing
    BY <1>3 DEF Writing, Touch, Retract, TouchRetracted, TouchScanned, AskLastSync, rows, loop
  <1>4. CASE \E t \in Threads : Counting(t) \/ CoverOpens(t, index, gen)
    BY <1>4 DEF Counting, CoverHits, CoverMisses, CoverTallies, CoverStores, CoverOpens, rows, loop
  <1>5. CASE UNCHANGED manifestVars
    BY <1>5 DEF manifestVars, rows, loop
  <1> QED BY <1>1, <1>2, <1>3, <1>4, <1>5 DEF ManifestStep, Write

\* An attempt's record is a job's.
LEMMA AttemptIsAJob ==
  ASSUME NEW j \in Jobs, NEW m \in SUBSET Files, NEW e \in SUBSET Files
  PROVE  [j EXCEPT !.at = "running", !.attempt = @ + 1, !.sent = {}, !.gone = {},
                   !.todo = m, !.extra = e] \in Jobs
  <1>1. PICK k \in Jobs : k = [j EXCEPT !.at = "running"]
    BY DEF Jobs
  <1>2. k.attempt = j.attempt
    BY <1>1 DEF Jobs
  <1>3. [k EXCEPT !.attempt = j.attempt + 1] \in Jobs
    BY DEF Jobs
  <1>4. \A i \in Jobs : [i EXCEPT !.sent = {}, !.gone = {}] \in Jobs
    BY DEF Jobs
  <1>5. \A i \in Jobs : [i EXCEPT !.todo = m, !.extra = e] \in Jobs
    BY DEF Jobs
  <1> QED BY <1>1, <1>2, <1>3, <1>4, <1>5

LEMMA DeviceStep == ASSUME HeldTypes, [Next]_vars PROVE DeviceTypes'
  <1> USE HoldingsConstantsOK DEF HeldTypes, DeviceTypes
  <1>1. CASE Transfer
    <2>1. ASSUME NEW scope \in SUBSET Files, NEW prune \in BOOLEAN, Submit(scope, prune)
          PROVE  DeviceTypes'
      BY <2>1 DEF Submit, NoJob, Jobs
    <2>2. CASE Attempt
      <3>1. Missing(job.scope) \in SUBSET Files /\ Extraneous(job.scope) \in SUBSET Files
        BY DEF Missing, Extraneous, ShelfTypes, Jobs
      <3>2. ASSUME NEW m \in SUBSET Files, NEW e \in SUBSET Files
            PROVE  [job EXCEPT !.at = "running", !.attempt = @ + 1, !.sent = {}, !.gone = {},
                               !.todo = m, !.extra = e] \in Jobs
        BY AttemptIsAJob
      <3>3. job' \in Jobs
        BY <2>2, <3>1, <3>2 DEF Attempt
      <3> QED BY <2>2, <3>3 DEF Attempt
    <2>3. CASE FileCounted
      BY <2>3 DEF FileCounted, Jobs
    <2>4. ASSUME NEW p \in Files, FileLands(p)
          PROVE  DeviceTypes'
      BY <2>4 DEF FileLands, Jobs
    <2>5. ASSUME NEW p \in Files, FilePruned(p)
          PROVE  DeviceTypes'
      <3>1. job' \in Jobs
        <4>1. [job EXCEPT !.extra = @ \ {p}, !.gone = @ \cup {p}] \in Jobs
          BY DEF Jobs
        <4> QED BY <2>5, <4>1 DEF FilePruned
      <3>2. disk' \in SUBSET Files /\ UNCHANGED scan
        BY <2>5 DEF FilePruned, ghosts
      <3> QED BY <3>1, <3>2
    <2>6. CASE PushDone \/ PushStops \/ PullEnds
      <3>1. NoJob \in Jobs /\ [NoJob EXCEPT !.at = "asking"] \in Jobs
        BY DEF NoJob, Jobs
      <3> QED BY <2>6, <3>1 DEF PushDone, PushStops, PullEnds
    <2>7. CASE PushRetries \/ PullRetries
      <3>1. Requeue \in Jobs
        BY DEF Requeue, Jobs
      <3> QED BY <2>7, <3>1 DEF PushRetries, PullRetries
    <2>8. CASE PullWantsIndex \/ PullSettles
      <3>1. NoJob \in Jobs /\ [job EXCEPT !.at = "awaiting"] \in Jobs
        BY DEF NoJob, Jobs
      <3> QED BY <2>8, <3>1 DEF PullWantsIndex, PullSettles
    <2> QED BY <1>1, <2>1, <2>2, <2>3, <2>4, <2>5, <2>6, <2>7, <2>8 DEF Transfer
  <1>2. CASE Scan
    <2>1. NoScan \in Scans
      BY DEF NoScan, Scans
    <2>2. CASE ScanStarts
      BY <2>2 DEF ScanStarts, RowTypes, Scans
    <2>3. ASSUME NEW p \in Files, ScanLists(p)
          PROVE  DeviceTypes'
      BY <2>3 DEF ScanLists, Scans
    <2>4. CASE ScanEnds \/ ScanFails
      BY <2>1, <2>4 DEF ScanEnds, ScanFails
    <2> QED BY <1>2, <2>2, <2>3, <2>4 DEF Scan
  <1>3. CASE Index \/ Manifest \/ UNCHANGED vars
    BY <1>3 DEF Index, Manifest, vars, device
  <1>4. CASE \E p \in Files : MoveOnDevice(p)
    BY <1>4 DEF MoveOnDevice
  <1> QED BY <1>1, <1>2, <1>3, <1>4 DEF Next

LEMMA TypesStep == HeldTypes /\ [Next]_vars => HeldTypes'
  <1> SUFFICES ASSUME HeldTypes, [Next]_vars PROVE HeldTypes'
    OBVIOUS
  <1>1. ShelfTypes'
    BY ShelfStep, HoldingsStep DEF HeldTypes
  <1>2. RowTypes'
    BY RowStep, WritesAreOfFiles DEF HeldTypes
  <1>3. DeviceTypes'
    BY DeviceStep
  <1> QED BY <1>1, <1>2, <1>3 DEF HeldTypes
-----------------------------------------------------------------------------
(* The stamps and the count of writes.  Between a commit and its touch the   *)
(* newest row is the clock's own, and the count is one behind the clock; a   *)
(* cached stamp is either forgotten or the newest, and a tally goes under a  *)
(* count at which no commit was pending, or under one that is already past.  *)

Committed == writer \in {"recorded", "retracted", "scanned"}
StampsInv ==
  /\ writer = "recorded" => \E p \in Files : row[p] = clock
  /\ writer = "retracted" => synced = Unset
  /\ LastSyncIsExact
CountInv ==
  /\ writes \in Nat
  /\ Committed => clock = writes + 1
  /\ ~Committed => clock = writes

\* What is claimed of an index that is (or was) published under the generation g.
Fresh(w, tally, idx) == w = writes /\ ~Committed => tally = Claimed \cap idx
TallyInv ==
  /\ cover \in [Threads -> Covers] /\ gen \in Nat
  /\ root.writes \in Nat /\ root.gen \in Nat
  /\ root.writes # Unset => root.writes <= writes /\ root.gen <= gen
  /\ root.gen = gen => Fresh(root.writes, root.tally, index)
  /\ \A t \in Threads :
       /\ cover[t].gen <= gen /\ cover[t].writes <= writes
       /\ cover[t].at # "idle" /\ cover[t].gen = gen => cover[t].idx = index
       /\ cover[t].at = "storing" => Fresh(cover[t].writes, cover[t].tally, cover[t].idx)

\* The newest stamp is the clock's when a row carries it.
LEMMA NewestIsTheClock ==
  ASSUME RowTypes, \E p \in Files : row[p] = clock
  PROVE  Newest = clock
  <1> DEFINE S == {row[p] : p \in Files} \cup {0}
  <1>1. clock \in S /\ (\A y \in S : y \in Nat /\ clock >= y) /\ clock \in Nat
    BY ManifestConstantsOK DEF RowTypes
  <1>2. \A x \in S : (\A y \in S : x >= y) => x = clock
    BY <1>1
  <1> QED BY <1>1, <1>2 DEF Newest, Max

LEMMA StampsStep ==
  ASSUME RowTypes, StampsInv, ManifestStep
  PROVE  StampsInv'
  <1> USE ManifestConstantsOK DEF RowTypes, StampsInv, LastSyncIsExact
  <1>1. ASSUME NEW ps \in SUBSET Files, NEW gone \in SUBSET Files, Record(ps, gone)
        PROVE  StampsInv'
    <2>1. CASE ps = {}
      BY <1>1, <2>1 DEF Record, rows, Newest
    <2>2. CASE ps # {}
      BY <1>1, <2>2 DEF Record, Stamp
    <2> QED BY <2>1, <2>2
  <1>2. ASSUME NEW listed \in SUBSET Files, ReplaceScan(listed, scan.began)
        PROVE  StampsInv'
    BY <1>2 DEF ReplaceScan
  <1>3. CASE Touch
    <2>1. Newest = clock
      BY <1>3, NewestIsTheClock DEF Touch
    <2> QED BY <1>3, <2>1 DEF Touch, rows, Newest
  <1>4. CASE Retract \/ TouchRetracted \/ TouchScanned
    BY <1>4 DEF Retract, TouchRetracted, TouchScanned, Popped
  <1>5. CASE AskLastSync
    BY <1>5 DEF AskLastSync, rows, loop, Newest
  <1>6. CASE \E t \in Threads : Counting(t) \/ CoverOpens(t, index, gen)
    BY <1>6 DEF Counting, CoverHits, CoverMisses, CoverTallies, CoverStores, CoverOpens,
                rows, loop, Newest
  <1>7. CASE UNCHANGED manifestVars
    BY <1>7 DEF manifestVars, rows, loop, Newest
  <1> QED BY <1>1, <1>2, <1>3, <1>4, <1>5, <1>6, <1>7 DEF ManifestStep, Write, Writing

LEMMA CountStep ==
  ASSUME RowTypes, CountInv, ManifestStep
  PROVE  CountInv'
  <1> USE ManifestConstantsOK DEF RowTypes, CountInv, Committed
  <1>1. CASE \E ps, gone \in SUBSET Files : Record(ps, gone)
    BY <1>1 DEF Record, Stamp, rows
  <1>2. CASE \E listed \in SUBSET Files : ReplaceScan(listed, scan.began)
    BY <1>2 DEF ReplaceScan
  <1>3. CASE Writing
    BY <1>3 DEF Writing, Touch, Retract, TouchRetracted, TouchScanned, AskLastSync, rows, loop
  <1>4. CASE \E t \in Threads : Counting(t) \/ CoverOpens(t, index, gen)
    BY <1>4 DEF Counting, CoverHits, CoverMisses, CoverTallies, CoverStores, CoverOpens, rows, loop
  <1>5. CASE UNCHANGED manifestVars
    BY <1>5 DEF manifestVars, rows, loop
  <1> QED BY <1>1, <1>2, <1>3, <1>4, <1>5 DEF ManifestStep, Write

\* An index is replaced under a new generation, or not at all.
LEMMA PublicationStep ==
  ASSUME IndexStep
  PROVE  UNCHANGED <<index, gen>> \/ gen' = gen + 1
  <1>1. CASE Asking
    BY <1>1 DEF Asking, Tick, PullAsks, WalkEnds, PullHears, PullOver, publication
  <1>2. CASE Shelving \/ UNCHANGED indexVars
    BY <1>2 DEF Shelving, indexVars, publication
  <1>3. CASE IndexThread
    BY <1>3 DEF IndexThread, WalkReads, WalkPublishes, WalkFails, WalkRaises, publication
  <1> QED BY <1>1, <1>2, <1>3 DEF IndexStep

\* A write makes every tally of before it stale, or leaves the rows as they are.
LEMMA WriteKeepsTallies ==
  ASSUME RowTypes, CountInv, TallyInv, Write, UNCHANGED publication
  PROVE  TallyInv'
  <1>1. UNCHANGED <<index, gen, root, cover>>
    BY DEF Write, Writing, Record, ReplaceScan, Touch, Retract, TouchRetracted, TouchScanned,
           AskLastSync, publication, coverage
  <1>2. writes' \in Nat /\ writes' >= writes
    BY DEF Write, Writing, Record, ReplaceScan, Touch, Retract, TouchRetracted, TouchScanned,
           AskLastSync, CountInv, coverage, rows, loop
  <1>3. ASSUME NEW w \in Nat, w <= writes, NEW tally, NEW idx, Fresh(w, tally, idx)
        PROVE  Fresh(w, tally, idx)'
    <2>1. CASE writes' = writes /\ ~Committed' /\ ~Committed
      <3>1. row' = row
        BY <2>1 DEF Write, Writing, Record, ReplaceScan, Touch, Retract, TouchRetracted,
                    TouchScanned, AskLastSync, Committed, rows
      <3> QED BY <1>3, <2>1, <3>1 DEF Fresh, Claimed
    <2>2. CASE Committed'
      BY <2>2 DEF Fresh
    <2>3. CASE Committed /\ ~Committed'
      <3>1. writes' = writes + 1
        BY <2>3 DEF Write, Writing, Record, ReplaceScan, Touch, Retract, TouchRetracted,
                    TouchScanned, AskLastSync, Committed, loop, rows
      <3> QED BY <1>3, <3>1 DEF Fresh, CountInv
    <2>4. CASE writes' # writes
      <3>1. w # writes'
        BY <1>2, <1>3, <2>4 DEF CountInv
      <3> QED BY <3>1 DEF Fresh
    <2> QED BY <2>1, <2>2, <2>3, <2>4
  <1>4. root.writes = Unset => ~(root.writes = writes') \/ Committed'
    <2>1. clock' \in 0..MaxWrites
      BY ManifestConstantsOK
      DEF RowTypes, Write, Writing, Record, Stamp, ReplaceScan, Touch, Retract,
          TouchRetracted, TouchScanned, AskLastSync, rows
    <2>2. CountInv'
      BY CountStep DEF ManifestStep
    <2>3. writes' \in Nat /\ writes' <= clock'
      BY <2>2 DEF CountInv
    <2>4. writes' # Unset
      BY <2>1, <2>3, ManifestConstantsOK DEF Unset
    <2> QED BY <2>4
  <1>5. root'.gen = gen' => Fresh(root.writes, root.tally, index)'
    BY <1>1, <1>3, <1>4 DEF TallyInv, Fresh
  <1>6. ASSUME NEW t \in Threads, cover[t].at = "storing"
        PROVE  Fresh(cover[t].writes, cover[t].tally, cover[t].idx)'
    BY <1>1, <1>3, <1>6 DEF TallyInv, Covers
  <1> QED BY <1>1, <1>2, <1>5, <1>6 DEF TallyInv, Covers, CountInv, Fresh

\* What a page must leave behind it, at any of its steps.
LEMMA PagesApart ==
  ASSUME TallyInv, NEW t \in Threads, NEW n \in Covers, cover' = [cover EXCEPT ![t] = n],
         UNCHANGED <<index, gen, row, writes, writer>>, root' = root,
         n.gen <= gen, n.writes <= writes,
         n.at # "idle" /\ n.gen = gen => n.idx = index,
         n.at = "storing" => Fresh(n.writes, n.tally, n.idx)
  PROVE  TallyInv'
  <1>1. \A w, tally, idx : Fresh(w, tally, idx) => Fresh(w, tally, idx)'
    BY DEF Fresh, Claimed, Committed
  <1>2. cover' \in [Threads -> Covers] /\ cover'[t] = n
    BY DEF TallyInv
  <1>3. \A u \in Threads : u # t => cover'[u] = cover[u]
    BY DEF TallyInv
  <1> QED BY <1>1, <1>2, <1>3 DEF TallyInv

\* A page tallies what it attached, and files it under the count it read before.
LEMMA PageKeepsTallies ==
  ASSUME TallyInv, CountInv, ShelfTypes, NEW t \in Threads,
         Counting(t) \/ CoverOpens(t, index, gen), UNCHANGED publication
  PROVE  TallyInv'
  <1>1. UNCHANGED <<index, gen, row, writes, writer>>
    BY DEF Counting, CoverHits, CoverMisses, CoverTallies, CoverStores, CoverOpens,
           publication, rows, loop
  <1>2. cover[t] \in Covers /\ gen \in Nat /\ writes \in Nat
    BY DEF TallyInv, CountInv
  <1>3. Idle \in Covers /\ Idle.at = "idle" /\ Idle.gen = 0 /\ Idle.writes = 0
    BY DEF Idle, Covers
  <1>4. CASE CoverOpens(t, index, gen)
    <2> DEFINE n == [Idle EXCEPT !.at = "opened", !.idx = index, !.gen = gen]
    <2>1. n \in Covers /\ n.gen = gen /\ n.writes = 0 /\ n.idx = index /\ n.at = "opened"
      BY <1>2 DEF Idle, Covers, ShelfTypes, HoldingsConstantsOK
    <2>2. cover' = [cover EXCEPT ![t] = n] /\ root' = root
      BY <1>4 DEF CoverOpens, Thread
    <2>3. n.gen <= gen /\ n.writes <= writes
      BY <1>2, <2>1
    <2> HIDE DEF n
    <2> QED BY <1>1, <2>1, <2>2, <2>3, PagesApart
  <1>5. CASE CoverHits(t)
    <2>1. cover' = [cover EXCEPT ![t] = Idle] /\ root' = root
      BY <1>5 DEF CoverHits, Thread
    <2>2. Idle.gen <= gen /\ Idle.writes <= writes
      BY <1>2, <1>3
    <2> QED BY <1>1, <1>3, <2>1, <2>2, PagesApart
  <1>6. CASE CoverMisses(t)
    <2> DEFINE n == [cover[t] EXCEPT !.at = "counting", !.writes = writes]
    <2>1. n \in Covers /\ n.gen = cover[t].gen /\ n.writes = writes /\ n.idx = cover[t].idx
          /\ n.at = "counting"
      BY <1>2 DEF Covers
    <2>2. cover' = [cover EXCEPT ![t] = n] /\ root' = root /\ cover[t].at = "opened"
      BY <1>6 DEF CoverMisses, Thread
    <2>3. n.gen <= gen /\ n.writes <= writes /\ (n.gen = gen => n.idx = index)
      BY <1>2, <2>1, <2>2 DEF TallyInv
    <2> HIDE DEF n
    <2> QED BY <1>1, <2>1, <2>2, <2>3, PagesApart
  <1>7. CASE CoverTallies(t)
    <2> DEFINE n == [cover[t] EXCEPT !.at = "storing", !.tally = Claimed \cap cover[t].idx]
    <2>1. n \in Covers /\ n.gen = cover[t].gen /\ n.writes = cover[t].writes
          /\ n.idx = cover[t].idx /\ n.at = "storing" /\ n.tally = Claimed \cap cover[t].idx
      BY <1>2 DEF Covers
    <2>2. cover' = [cover EXCEPT ![t] = n] /\ root' = root /\ cover[t].at = "counting"
      BY <1>7 DEF CoverTallies, Thread
    <2>3. n.gen <= gen /\ n.writes <= writes /\ (n.gen = gen => n.idx = index)
      BY <1>2, <2>1, <2>2 DEF TallyInv
    <2>4. Fresh(n.writes, n.tally, n.idx)
      BY <2>1 DEF Fresh
    <2> HIDE DEF n
    <2> QED BY <1>1, <2>1, <2>2, <2>3, <2>4, PagesApart
  <1>8. CASE CoverStores(t)
    <2>1. \A w, tally, idx : Fresh(w, tally, idx) => Fresh(w, tally, idx)'
      BY <1>1 DEF Fresh, Claimed, Committed
    <2>2. cover' = [cover EXCEPT ![t] = Idle] /\ cover[t].at = "storing"
          /\ root' = [writes |-> cover[t].writes, gen |-> cover[t].gen, tally |-> cover[t].tally]
      BY <1>8 DEF CoverStores, CountBefore, Thread
    <2>3. cover' \in [Threads -> Covers] /\ cover'[t] = Idle
          /\ \A u \in Threads : u # t => cover'[u] = cover[u]
      BY <1>3, <2>2 DEF TallyInv
    <2> QED BY <1>1, <1>2, <1>3, <2>1, <2>2, <2>3 DEF TallyInv, Covers
  <1> QED BY <1>4, <1>5, <1>6, <1>7, <1>8 DEF Counting

LEMMA TallyStep ==
  ASSUME HeldTypes, CountInv, TallyInv, ManifestStep
  PROVE  TallyInv'
  <1>1. CASE IndexStep /\ UNCHANGED manifestVars
    <2>1. UNCHANGED <<row, writes, writer, root, cover>>
      BY <1>1 DEF manifestVars, rows, loop, coverage
    <2>2. \A w, tally, idx : Fresh(w, tally, idx) => Fresh(w, tally, idx)'
      BY <2>1 DEF Fresh, Claimed, Committed
    <2>3. CASE UNCHANGED <<index, gen>>
      BY <2>1, <2>2, <2>3 DEF TallyInv
    <2>4. CASE gen' = gen + 1
      <3>1. root.writes = Unset => ~(root.writes = writes) \/ Committed
        BY ManifestConstantsOK DEF HeldTypes, RowTypes, CountInv, Unset
      <3> QED BY <2>1, <2>2, <2>4, <3>1 DEF TallyInv, Covers, Fresh, Committed
    <2> QED BY <1>1, <2>3, <2>4, PublicationStep
  <1>2. CASE ~(IndexStep /\ UNCHANGED manifestVars)
    BY <1>2, WriteKeepsTallies, PageKeepsTallies, HoldingsConstantsOK DEF ManifestStep, HeldTypes
  <1> QED BY <1>1, <1>2
-----------------------------------------------------------------------------
(* What transfers gave, and what a listing says.                             *)

\* What this attempt has deleted, or on a pull still may (books the upstream lacks).
Taken == IF role = "node" THEN job.gone ELSE job.gone \cup job.extra

\* What was given is on the device and has a row. What is to be retracted is none of
\* it, and no attempt runs while that is owed.
GivenInv ==
  /\ given \subseteq disk /\ given \subseteq Claimed
  /\ owing \cap given = {}
  /\ writer \in {"free", "retracted", "scanned"} => owing = {}
  /\ job.at = "queued" => job.flight = {}
  /\ job.at = "running" =>
       /\ owing = {} /\ Taken \cap given = {}
       /\ (job.todo \cup job.flight \cup job.sent) \cap (job.extra \cup job.gone) = {}

\* While a listing runs: a file that was given is yet to be listed, has been, or has a
\* row the listing spares; one that nobody stirred is listed as it is, and its row is
\* older than the listing.
ScanInv ==
  scan.on =>
    /\ scan.began <= clock /\ scan.todo \subseteq Files
    /\ \A p \in given : row[p] > scan.began \/ p \in scan.todo \/ p \in scan.listed
    /\ \A p \in Files \ stirred :
         /\ row[p] <= scan.began
         /\ p \in scan.listed => p \in disk
         /\ p \in disk => p \in scan.todo \/ p \in scan.listed

GiveInv == GivenInv /\ ScanInv

\* A record claims what it gives, with a stamp younger than any listing's beginning;
\* what it gives is none of what is then retracted.
LEMMA AccountKeepsGive ==
  ASSUME HeldTypes, GiveInv, NEW ps \in SUBSET Files, NEW gone, gone \in {{}, job.gone},
         Account(ps, gone), job.at = "running", UNCHANGED <<disk, scan>>,
         job'.at # "running", job'.at = "queued" => job'.flight = {}
  PROVE  GiveInv'
  <1> USE DEF GiveInv
  <1>1. /\ \A p \in ps : row'[p] = clock + 1
        /\ \A p \in Files : row'[p] >= row[p] /\ (p \notin ps => row'[p] = row[p])
        /\ clock' >= clock /\ clock \in Nat /\ clock' \in Nat /\ owing' = gone /\ row' \in [Files -> Nat]
    <2>1. CASE ps = {}
      BY <2>1, ManifestConstantsOK DEF Account, Record, rows, HeldTypes, RowTypes
    <2>2. CASE ps # {}
      BY <2>2, ManifestConstantsOK DEF Account, Record, Stamp, HeldTypes, RowTypes
    <2> QED BY <2>1, <2>2
  <1>2. /\ given' = given \cup (ps \cap (job.sent \cup job.flight) \cap disk)
        /\ stirred' = IF scan.on THEN stirred \cup (ps \cup gone) ELSE {}
        /\ writer' \in {"free", "recorded", "owing"} /\ (writer' = "free" => gone = {})
    BY DEF Account, Stir, Record
  <1>3. given' \subseteq Claimed'
    BY <1>1, <1>2 DEF GivenInv, Claimed, HeldTypes, RowTypes
  <1>4. gone \cap given' = {}
    BY <1>2 DEF GivenInv, Taken
  <1>5. GivenInv'
    BY <1>1, <1>2, <1>3, <1>4 DEF GivenInv
  <1>6. ScanInv'
    <2> SUFFICES ASSUME scan.on PROVE ScanInv'
      BY DEF ScanInv
    <2>1. \A p \in given' : row'[p] > scan.began \/ p \in scan.todo \/ p \in scan.listed
      <3>1. scan.began \in Nat /\ row \in [Files -> Nat]
        BY DEF HeldTypes, DeviceTypes, Scans, RowTypes
      <3>2. \A p \in ps : row'[p] > scan.began
        BY <1>1, <3>1 DEF ScanInv
      <3>3. \A p \in given : p \in Files
        BY DEF GivenInv, Claimed
      <3> QED BY <1>1, <1>2, <3>1, <3>2, <3>3 DEF ScanInv
    <2>2. \A p \in Files \ stirred' : p \in Files \ stirred /\ row'[p] = row[p]
      BY <1>1, <1>2
    <2>3. scan.began <= clock'
      <3>1. scan.began \in Nat /\ clock' \in Nat
        BY <1>1 DEF HeldTypes, DeviceTypes, Scans
      <3>2. scan.began <= clock
        BY DEF ScanInv
      <3> QED BY <1>1, <3>1, <3>2
    <2> QED BY <2>1, <2>2, <2>3 DEF ScanInv
  <1> QED BY <1>5, <1>6

LEMMA TransferKeepsGive ==
  ASSUME HeldTypes, GiveInv, Transfer
  PROVE  GiveInv'
  <1> USE DEF GiveInv
  <1>1. ASSUME NEW scope \in SUBSET Files, NEW prune \in BOOLEAN, Submit(scope, prune)
        PROVE  GiveInv'
    BY <1>1 DEF Submit, NoJob, manifestVars, rows, loop, ghosts, GivenInv, ScanInv, Claimed, Taken
  <1>2. CASE Attempt
    <2>1. /\ job'.sent = {} /\ job'.gone = {} /\ job'.flight = job.flight
          /\ job'.at = "running" /\ job'.todo = Missing(job.scope) /\ job'.extra \in {{}, Extraneous(job.scope)}
      BY <1>2 DEF Attempt, HeldTypes, DeviceTypes, Jobs
    <2> QED
      BY <1>2, <2>1 DEF Attempt, manifestVars, rows, loop, ghosts, GivenInv, ScanInv, Claimed,
                        Taken, Missing, Extraneous
  <1>3. CASE FileCounted
    BY <1>3 DEF FileCounted, manifestVars, rows, loop, ghosts, GivenInv, ScanInv, Claimed,
                Taken, HeldTypes, DeviceTypes, Jobs
  <1>4. ASSUME NEW p \in Files, FileLands(p)
        PROVE  GiveInv'
    BY <1>4 DEF FileLands, manifestVars, rows, loop, Stir, GivenInv, ScanInv, Claimed,
                Taken, HeldTypes, DeviceTypes, Jobs
  <1>5. ASSUME NEW p \in Files, FilePruned(p)
        PROVE  GiveInv'
    BY <1>5 DEF FilePruned, manifestVars, rows, loop, Stir, ghosts, GivenInv, ScanInv, Claimed,
                Taken, HeldTypes, DeviceTypes, Jobs
  <1>6. CASE PushDone
    BY <1>6, AccountKeepsGive DEF PushDone, NoJob, HeldTypes, ShelfTypes
  <1>7. CASE PushStops
    BY <1>7, AccountKeepsGive, CreditsAreFiles DEF PushStops, NoJob
  <1>8. CASE PushRetries
    <2>1. job'.at = "queued" /\ job'.flight = {}
      BY <1>8 DEF PushRetries, Requeue, HeldTypes, DeviceTypes, Jobs
    <2> QED BY <1>8, <2>1, AccountKeepsGive, CreditsAreFiles DEF PushRetries
  <1>9. CASE PullEnds
    <2>1. (job.sent \cup job.flight) \cap library \in SUBSET Files /\ job'.at = "asking"
      BY <1>9 DEF PullEnds, NoJob, HeldTypes, ShelfTypes
    <2> QED BY <1>9, <2>1, AccountKeepsGive DEF PullEnds
  <1>10. CASE PullRetries \/ PullWantsIndex \/ PullSettles
    <2>1. job'.at # "running" /\ (job'.at = "queued" => job'.flight = {})
      <3>1. job \in Jobs
        BY DEF HeldTypes, DeviceTypes
      <3>2. Requeue.at = "queued" /\ Requeue.flight = {}
        BY <3>1 DEF Requeue, Jobs
      <3>3. [job EXCEPT !.at = "awaiting"].at = "awaiting" /\ NoJob.at = "idle"
        BY <3>1 DEF Jobs, NoJob
      <3>4. job' \in {Requeue, [job EXCEPT !.at = "awaiting"], NoJob}
        BY <1>10 DEF PullRetries, PullWantsIndex, PullSettles
      <3> QED BY <3>2, <3>3, <3>4
    <2>2. UNCHANGED <<row, clock, writer, owing, disk, scan, given, stirred>>
      BY <1>10 DEF PullRetries, PullWantsIndex, PullSettles, manifestVars, rows, loop, ghosts
    <2> QED BY <2>1, <2>2 DEF GivenInv, ScanInv, Claimed
  <1> QED BY <1>1, <1>2, <1>3, <1>4, <1>5, <1>6, <1>7, <1>8, <1>9, <1>10 DEF Transfer

\* A listing spares the rows of what was given after it passed.
LEMMA ScanKeepsGive ==
  ASSUME HeldTypes, GiveInv, Scan
  PROVE  GiveInv'
  <1> USE DEF GiveInv
  <1>1. CASE ScanStarts
    <2>1. GivenInv'
      BY <1>1 DEF ScanStarts, GivenInv, manifestVars, rows, loop, Claimed, Taken
    <2>2. ScanInv'
      BY <1>1 DEF ScanStarts, ScanInv, GivenInv, manifestVars, rows, HeldTypes, RowTypes, Claimed
    <2> QED BY <2>1, <2>2
  <1>2. ASSUME NEW p \in Files, ScanLists(p)
        PROVE  GiveInv'
    BY <1>2 DEF ScanLists, GivenInv, ScanInv, manifestVars, rows, loop, ghosts, Claimed, Taken,
                HeldTypes, DeviceTypes, Scans
  <1>3. CASE ScanEnds
    <2>1. given \subseteq Claimed'
      BY <1>3 DEF ScanEnds, ReplaceScan, Spares, GivenInv, ScanInv, Claimed, HeldTypes,
                  RowTypes, DeviceTypes, Scans
    <2> QED BY <1>3, <2>1 DEF ScanEnds, ReplaceScan, NoScan, GivenInv, ScanInv, ghosts, Taken
  <1>4. CASE ScanFails
    BY <1>4 DEF ScanFails, NoScan, GivenInv, ScanInv, manifestVars, rows, loop, ghosts, Claimed,
                Taken
  <1> QED BY <1>1, <1>2, <1>3, <1>4 DEF Scan

LEMMA OthersKeepGive ==
  ASSUME HeldTypes, GiveInv, Index \/ Manifest \/ (\E p \in Files : MoveOnDevice(p)) \/ UNCHANGED vars
  PROVE  GiveInv'
  <1> USE DEF GiveInv
  <1>1. CASE Index \/ UNCHANGED vars
    BY <1>1 DEF Index, vars, device, manifestVars, rows, loop, ghosts, GivenInv, ScanInv,
                Claimed, Taken
  <1>2. CASE Manifest
    <2>1. UNCHANGED device
      BY <1>2 DEF Manifest
    <2>2. CASE Retract
      <3>1. /\ \A p \in owing : p \in Files => row'[p] = 0
            /\ \A p \in Files \ owing : row'[p] = row[p]
            /\ clock' = clock + 1 /\ owing' = {} /\ writer' = "retracted"
        BY <2>2 DEF Retract
      <3>2. GivenInv'
        BY <2>1, <3>1 DEF device, ghosts, GivenInv, Claimed, Taken
      <3>3. ScanInv'
        BY <2>1, <3>1 DEF device, ghosts, GivenInv, ScanInv, Claimed, HeldTypes, RowTypes,
                          DeviceTypes, Scans
      <3> QED BY <3>2, <3>3
    <2>3. CASE ~Retract
      <3>1. UNCHANGED <<rows, owing>> /\ (writer' # writer => writer' = "owing" \/ owing = {})
        BY <1>2, <2>3 DEF Manifest, Writing, Touch, TouchRetracted, TouchScanned, AskLastSync,
                          Counting, CoverHits, CoverMisses, CoverTallies, CoverStores,
                          CoverOpens, GivenInv, loop
      <3> QED BY <2>1, <3>1 DEF device, ghosts, rows, GivenInv, ScanInv, Claimed, Taken
    <2> QED BY <2>2, <2>3
  <1>3. ASSUME NEW p \in Files, MoveOnDevice(p)
        PROVE  GiveInv'
    BY <1>3 DEF MoveOnDevice, Stir, manifestVars, rows, loop, GivenInv, ScanInv, Claimed, Taken
  <1> QED BY <1>1, <1>2, <1>3
-----------------------------------------------------------------------------
HeldInv == HeldTypes /\ StampsInv /\ CountInv /\ TallyInv /\ GiveInv

LEMMA InitHeld == Init => HeldInv
  <1> SUFFICES ASSUME Init PROVE HeldInv
    OBVIOUS
  <1>1. HeldTypes
    BY InitTypes
  <1>2. StampsInv /\ CountInv
    BY DEF Init, ManifestInit, StampsInv, LastSyncIsExact, CountInv, Committed
  <1>3. TallyInv
    <2>1. cover \in [Threads -> Covers] /\ \A t \in Threads : cover[t] = Idle
      BY DEF Init, ManifestInit, Idle, Covers
    <2>2. root = NoTally /\ writes = 0 /\ gen \in Nat /\ Unset \in Nat /\ Unset # 0
      BY ManifestConstantsOK DEF Init, ManifestInit, IndexInit, Unset
    <2> QED BY <2>1, <2>2 DEF TallyInv, Idle, NoTally, Fresh
  <1>4. GiveInv
    BY DEF Init, ManifestInit, NoJob, NoScan, GiveInv, GivenInv, ScanInv
  <1> QED BY <1>1, <1>2, <1>3, <1>4 DEF HeldInv

LEMMA StepHeld == HeldInv /\ [Next]_vars => HeldInv'
  <1> SUFFICES ASSUME HeldInv, [Next]_vars PROVE HeldInv'
    OBVIOUS
  <1>1. HeldTypes' /\ ManifestStep
    BY TypesStep, WritesAreOfFiles DEF HeldInv
  <1>2. StampsInv' /\ CountInv' /\ TallyInv'
    BY <1>1, StampsStep, CountStep, TallyStep DEF HeldInv, HeldTypes
  <1>3. GiveInv'
    BY TransferKeepsGive, ScanKeepsGive, OthersKeepGive DEF HeldInv, Next
  <1> QED BY <1>1, <1>2, <1>3 DEF HeldInv

THEOREM HeldInvariant == Spec => []HeldInv
  BY InitHeld, StepHeld, PTL DEF Spec

\* A last_sync that is cached is the newest stamp of the rows there are, after records,
\* retractions and listings in any order, for any files and any number of writes.
THEOREM LastSyncHolds == Spec => []LastSyncIsExact
  <1>1. HeldInv => LastSyncIsExact
    BY DEF HeldInv, StampsInv
  <1> QED BY <1>1, HeldInvariant, PTL

\* A tally that a page of any number of threads would be served is the count of the
\* rows as they are over the index as it is published, though it was counted while
\* writes and publications went on (manifests.coverage).
THEOREM TalliesHold == Spec => []TalliesAreCurrent
  <1>1. HeldInv => TalliesAreCurrent
    BY DEF HeldInv, TallyInv, Fresh, Committed, TalliesAreCurrent, CachedTallyIsCurrent
  <1> QED BY <1>1, HeldInvariant, PTL

\* What a transfer delivered and recorded stays claimed while it is on the device,
\* though a listing that passed it too early ends afterwards, and though the same
\* transfer retracts what it deleted (replace_scan, record, retract).
THEOREM DeliveredHolds == Spec => []DeliveredIsClaimed
  <1>1. HeldInv => DeliveredIsClaimed
    BY DEF HeldInv, GiveInv, GivenInv, DeliveredIsClaimed
  <1> QED BY <1>1, HeldInvariant, PTL

\* When a listing has ended, the rows of every file nobody moved or wrote about
\* meanwhile say what the device holds, whatever they said before (replace_scan).
THEOREM ScansTell == Spec => ScanTellsTheTruth
  <1> DEFINE Told == writer' = "scanned" /\ writer # "scanned" =>
                       \A p \in Files \ stirred : p \in Claimed' <=> p \in disk
  <1>1. HeldInv /\ [Next]_vars => [Told]_vars
    <2> SUFFICES ASSUME HeldInv, [Next]_vars, writer' = "scanned", writer # "scanned",
                        NEW p \in Files \ stirred
                 PROVE  p \in Claimed' <=> p \in disk
      OBVIOUS
    <2>1. scan.on /\ scan.todo = {} /\ ReplaceScan(scan.listed, scan.began)
      <3>1. CASE Transfer
        BY <3>1 DEF Transfer, Submit, Attempt, FileCounted, FileLands, FilePruned, PushDone,
                    PushStops, PushRetries, PullEnds, PullRetries, PullWantsIndex, PullSettles,
                    Account, Record, manifestVars, loop
      <3>2. CASE Scan
        BY <3>2 DEF Scan, ScanStarts, ScanLists, ScanEnds, ScanFails, manifestVars, loop
      <3>3. CASE Index \/ UNCHANGED vars \/ \E q \in Files : MoveOnDevice(q)
        BY <3>3 DEF Index, vars, MoveOnDevice, manifestVars, loop
      <3>4. CASE Manifest
        BY <3>4 DEF Manifest, Writing, Touch, Retract, TouchRetracted, TouchScanned,
                    AskLastSync, Counting, CoverHits, CoverMisses, CoverTallies, CoverStores,
                    CoverOpens, loop
      <3> QED BY <3>1, <3>2, <3>3, <3>4 DEF Next
    <2>2. row'[p] > 0 <=> p \in disk
      <3>1. row'[p] = IF p \in scan.listed THEN clock + 1
                      ELSE IF row[p] > scan.began THEN row[p] ELSE 0
        BY <2>1 DEF ReplaceScan, Spares
      <3>2. row[p] <= scan.began /\ (p \in scan.listed <=> p \in disk)
        BY <2>1 DEF HeldInv, GiveInv, ScanInv
      <3>3. row[p] \in Nat /\ scan.began \in Nat /\ clock + 1 > 0
        BY ManifestConstantsOK DEF HeldInv, HeldTypes, RowTypes, DeviceTypes, Scans
      <3> QED BY <3>1, <3>2, <3>3
    <2> QED BY <2>2 DEF Claimed
  <1> QED BY <1>1, HeldInvariant, PTL DEF Spec, ScanTellsTheTruth
=============================================================================
