------------------------------ MODULE Coverage ------------------------------
(***************************************************************************)
(* What the coverage map says of one device: which of a directory's books  *)
(* it holds, which its excludes keep from it, and the bar that is drawn    *)
(* (library.excluded_roots and held_back, manifests.coverage_view, the     *)
(* dialog's route).                                                        *)
(*                                                                         *)
(* The entries an exclude list holds back are found by one walk of the     *)
(* index, cached with the index's generation, and asked for by the event   *)
(* loop (a job's estimate) and by the thread of a dialog, while a reindex  *)
(* may publish.                                                            *)
(*                                                                         *)
(* A path is the sequence of its names.  Which entries the patterns match  *)
(* (ExcludeRules) is data: any set.  A file stands for Weight books that   *)
(* come and go together, so that the floors and ceilings of a bar matter.  *)
(***************************************************************************)
EXTENDS Integers, SequencesExt

CONSTANTS
  Dirs, Files,   \* the paths, without the root
  Weight,        \* of a file
  Indexes,     \* the sets of files the index may publish
  Situations,    \* what the device's rows may be: [held, stale]
  MaxGeneration  \* bound on the publications

Root == <<>>
Entries == Dirs \cup Files

ASSUME CoverageConstantsOK ==
  /\ \A e \in Entries : e \in Seq(STRING) /\ Len(e) > 0 /\ Front(e) \in Dirs \cup {Root}
  /\ IsFiniteSet(Entries) /\ Dirs \cap Files = {}
  /\ Weight \in [Files -> Nat \ {0}]
  /\ Indexes \subseteq SUBSET Files /\ MaxGeneration \in Nat
  /\ \A s \in Situations : s.held \subseteq Files /\ s.stale \subseteq s.held

VARIABLES
  matched,     \* the entries the device's patterns match
  rows,        \* its manifest: the files held, and those whose copy is stale
  scanned,     \* a scan has listed it
  index,       \* the files published
  generation,  \* indexed_at
  cache,       \* _excluded: a generation and its roots
  asker,       \* a call of excluded_roots, on the loop ("job") and on the thread ("map")
  map          \* the dialog

device == <<matched, rows, scanned>>
published == <<index, generation>>
coverageVars == <<device, published, cache, asker, map>>
-----------------------------------------------------------------------------
(* library.py: what the patterns hold back.                                  *)

Within(path, root) == IsPrefix(root, path)
Under(e) == {f \in Files : Within(f, e)}
Books(S) == SumFunctionOnSet(Weight, S)

\* Parents before children: what is below a directory already held back is not matched
\* again. (Matching every entry is the mutant.)
NothingAbove(d) == FALSE
OutDir(d) == \E n \in 1..Len(d) : SubSeq(d, 1, n) \in matched

ExcludedRoots(idx) ==
  {[path |-> e, files |-> Books(Under(e) \cap idx)] :
    e \in {e \in Dirs \cup idx : e \in matched /\ ~OutDir(Front(e))}}

HeldBack(e, total, roots) ==
  IF \E r \in roots : Within(e, r.path) THEN total
  ELSE SumFunctionOnSet([r \in roots |-> r.files], {r \in roots : Within(r.path, e)})

NoCache == [gen |-> 0, roots |-> {}]
Idle == [at |-> "idle", gen |-> 0, roots |-> {}]
Shut == [at |-> "closed"]

AskRoots(a) ==
  /\ asker[a].at = "idle"
  /\ asker' = [asker EXCEPT ![a] =
       IF cache.gen = generation THEN [at |-> "done", gen |-> cache.gen, roots |-> cache.roots]
       ELSE [at |-> "walking", gen |-> generation, roots |-> {}]]
  /\ UNCHANGED <<device, published, cache>>

Walks(a) ==
  /\ asker[a].at = "walking"
  /\ asker' = [asker EXCEPT ![a].at = "storing", ![a].roots = ExcludedRoots(index)]
  /\ UNCHANGED <<device, published, cache, map>>

\* sqlite fails, or there is no connection: no roots, and nothing is cached.
Unanswered == [at |-> "done", gen |-> 0, roots |-> {}]
WalkFails(a) ==
  /\ asker[a].at = "walking" /\ asker' = [asker EXCEPT ![a] = Unanswered]
  /\ UNCHANGED <<device, published, cache, map>>

\* The generation was read before the rows were. (Reading it now is the mutant.)
StampLate(a) == generation
Stamp(a) == asker[a].gen

Stores(a) ==
  /\ asker[a].at = "storing"
  /\ cache' = [gen |-> Stamp(a), roots |-> asker[a].roots]
  /\ asker' = [asker EXCEPT ![a].at = "done"]
  /\ UNCHANGED <<device, published, map>>
-----------------------------------------------------------------------------
(* manifests.py: what is counted, and how it is drawn.                       *)

Held(e) == rows.held \cap index \cap Under(e)
Stale(e) == rows.stale \cap Held(e)

\* Of the copies held, those inside an excluded root: held_under and _held_out.
HeldOut(e, roots) ==
  IF \E r \in roots : Within(e, r.path) THEN Books(Held(e))
  ELSE SumFunctionOnSet([r \in roots |-> Books(Held(r.path))], {r \in roots : Within(r.path, e)})

Drawn(e, total, roots, floor, ceiling) ==
  [entry |-> e, held |-> Books(Held(e)), total |-> total, stale |-> Books(Stale(e)),
   scanned |-> scanned, excluded |-> HeldBack(e, total, roots),
   heldOut |-> HeldOut(e, roots), floor |-> floor, ceiling |-> ceiling]

\* CoverageRow is a bar, CoverageCell a square 14 pixels tall.
Bar(e, total, roots) == Drawn(e, total, roots, 2, 97)
Cell(e, roots) == Drawn(e, Books(Under(e) \cap index), roots, 20, 80)

Share(d) == d.total - d.excluded
\* (Counting the leftovers in is the mutant.)
HeldAll(d) == d.held
HeldIn(d) == d.held - d.heldOut

State(d) ==
  IF d.held > 0 /\ d.held >= d.total THEN "complete"
  ELSE IF d.excluded > 0 /\ Share(d) <= 0 THEN "excluded"
  ELSE IF d.excluded > 0 /\ HeldIn(d) >= Share(d) THEN "share"
  ELSE IF d.held > 0 THEN "partial"
  ELSE IF d.scanned THEN "absent" ELSE "unknown"

\* In thousandths of a percent.
Percent == 1000
Fill(n, d) ==
  IF n <= 0 \/ d.total <= 0 THEN 0
  ELSE IF n >= d.total THEN 100 * Percent
  ELSE Min({Max({(100 * Percent * n) \div d.total, d.floor * Percent}), d.ceiling * Percent})

FillExcluded(d) ==
  IF d.excluded = 0 \/ State(d) = "complete" THEN 0
  ELSE IF Share(d) <= 0 THEN 100 * Percent ELSE Fill(d.excluded, d)

\* (Without the hatch's room taken off, as if the two were apart, is the mutant.)
FillHeldApart(d) == IF State(d) \in {"complete", "share"} THEN 100 * Percent ELSE Fill(d.held, d)
FillHeld(d) ==
  CASE State(d) = "complete" -> 100 * Percent
    [] State(d) = "share" -> 100 * Percent - FillExcluded(d)
    [] State(d) = "excluded" -> Fill(d.held, d)
    [] OTHER -> Min({Fill(HeldIn(d), d), 100 * Percent - FillExcluded(d)})

FillStale(d) ==
  IF d.stale = 0 THEN 0
  ELSE Min({Max({(FillHeld(d) * d.stale) \div d.held, d.floor * Percent}), FillHeld(d)})
FillOk(d) == FillHeld(d) - FillStale(d)

\* presence: the dot of a row of the Library page. A directory's is a count of the
\* device's rows in its range, whatever the library has. (One book short is the mutant.)
NearlyAll(have, total) == have + 1 >= total
AtLeast(have, total) == have >= total
Presence(e) ==
  LET have == Books(rows.held \cap Under(e)) total == Books(Under(e) \cap index) IN
  IF have = 0 \/ total = 0 THEN "absent"
  ELSE IF e \in Files THEN IF e \in rows.stale THEN "stale" ELSE "ok"
  ELSE IF AtLeast(have, total) THEN "ok" ELSE "partial"
-----------------------------------------------------------------------------
(* The dialog of the coverage map (routes/library.presence_dialog), and the  *)
(* other things that move meanwhile.                                         *)

CoverageInit ==
  /\ matched \in SUBSET Entries /\ rows \in Situations /\ scanned \in BOOLEAN
  /\ index \in Indexes /\ generation = 1
  /\ cache = NoCache /\ asker = [a \in {"job", "map"} |-> Idle] /\ map = Shut

\* A reindex ends.
Publish ==
  /\ generation < MaxGeneration
  /\ index' \in Indexes /\ generation' = generation + 1
  /\ UNCHANGED <<device, cache, asker, map>>

\* _estimate and _update_manifest.
JobAsks == AskRoots("job") /\ UNCHANGED map
JobGoesOn ==
  /\ asker["job"].at = "done" /\ asker' = [asker EXCEPT !["job"] = Idle]
  /\ UNCHANGED <<device, published, cache, map>>

\* require(p), and _excluded_here handed to a thread.
Open(e) ==
  /\ map.at = "closed" /\ Under(e) \cap index # {}
  /\ map' = [at |-> "asking", gen |-> generation, entry |-> e, total |-> Books(Under(e) \cap index)]
  /\ AskRoots("map")

\* Only the roots above the entry, or below it.
Touching(e, roots) == {r \in roots : Within(r.path, e) \/ Within(e, r.path)}

\* The folders, coverage and held_under; what is drawn of the entry and of each of its
\* child folders. A file's row (item_view) comes to the same; an empty directory is left out.
Draw ==
  /\ map.at = "asking" /\ asker["map"].at = "done"
  /\ LET roots == Touching(map.entry, asker["map"].roots)
         columns == {c \in Dirs : Front(c) = map.entry /\ Under(c) \cap index # {}}
     IN map' = [at |-> "drawn", gen |-> asker["map"].gen,
                bar |-> Bar(map.entry, map.total, roots),
                cells |-> {Cell(c, roots) : c \in columns}]
  /\ asker' = [asker EXCEPT !["map"] = Idle]
  /\ UNCHANGED <<device, published, cache>>

Close == map.at = "drawn" /\ map' = Shut /\ UNCHANGED <<device, published, cache, asker>>

CoverageNext ==
  \/ Publish \/ JobAsks \/ JobGoesOn \/ Draw \/ Close
  \/ \E e \in {Root} \cup Entries : Open(e)
  \/ \E a \in {"job", "map"} : Walks(a) \/ WalkFails(a) \/ Stores(a)

CoverageSpec == CoverageInit /\ [][CoverageNext]_coverageVars
-----------------------------------------------------------------------------
(* Properties.  What is drawn is looked at while the index its roots were    *)
(* found in is still the published one.                                      *)

Shown == IF map.at = "drawn" /\ map.gen = generation THEN {map.bar} \cup map.cells ELSE {}

\* rsync does not descend into what it excludes, so a file is held back when it or a
\* directory above it matches.
Out(e) == {f \in Under(e) \cap index : \E n \in 1..Len(f) : SubSeq(f, 1, n) \in matched}

\* The files a map takes off a device's share are those a push would not send, each
\* counted once however the patterns overlap.
HeldBackIsExact == \A d \in Shown : d.excluded = Books(Out(d.entry))

\* The answer that is cached under the published generation is that index's own: a walk
\* a reindex overtook is never served for the index that came after.
CachedRootsAreCurrent == cache.gen = generation => cache.roots = ExcludedRoots(index)

\* Every state says what it says of the files: "complete" that none is missing, "share"
\* that none is that the device takes, whatever it kept from before an exclude, and
\* "absent" only what a scan has seen.
Missing(e) == (Under(e) \cap index) \ rows.held
StateIsTrue ==
  \A d \in Shown : LET e == d.entry all == Under(e) \cap index IN
    /\ State(d) = "complete" <=> (all # {} /\ Missing(e) = {})
    /\ State(d) = "excluded" <=> (all # {} /\ Missing(e) # {} /\ Out(e) = all)
    /\ State(d) = "share" <=> (Missing(e) # {} /\ Missing(e) \subseteq Out(e) /\ Out(e) # all)
    /\ State(d) \in {"absent", "unknown"} => Held(e) = {}
    /\ State(d) = "absent" => scanned

\* Green, amber and hatch fit the bar, and leave none of it bare exactly when nothing the
\* device takes is missing. ("`ceiling` so something missing never reads as full.")
Tells(d) ==
  State(d) # "excluded" =>
    LET inked == FillOk(d) + FillStale(d) + FillExcluded(d) IN
    /\ inked <= 100 * Percent
    /\ inked = 100 * Percent <=> State(d) \in {"complete", "share"}
BarsAreHonest == map.at = "drawn" /\ map.gen = generation => Tells(map.bar)
CellsAreHonest == \A d \in Shown : Tells(d)

\* "`floor` so something held never reads as empty."
HeldIsVisible == \A d \in Shown : d.held > 0 => FillOk(d) + FillStale(d) > 0

\* The dot and the map are computed in two ways, and say the same of a device that holds
\* no file there that the library has not.
Retired(e) == (rows.held \cap Under(e)) \ index
PagesAgree ==
  \A d \in Shown : LET e == d.entry IN
    (e # Root /\ d.total > 0 /\ Retired(e) = {}) =>
      /\ Presence(e) = "absent" <=> d.held = 0
      /\ Presence(e) \in {"ok", "stale"} <=> State(d) = "complete"
      /\ Presence(e) = "stale" => d.stale = d.held

\* "ok" is said of a directory only when the device holds the library's books there.
PresentIsComplete ==
  \A d \in Shown : Presence(d.entry) = "ok" => Missing(d.entry) = {}
=============================================================================
