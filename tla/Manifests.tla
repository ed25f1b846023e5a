------------------------------ MODULE Manifests ------------------------------
(***************************************************************************)
(* What one device is believed to hold (manifests.py): the rows of the     *)
(* manifest, each stamped with the time it was written, the cached         *)
(* last_sync, the count of writes, and the cached tally of the whole       *)
(* library that the coverage threads share.                                *)
(*                                                                         *)
(* Every write is made by the event loop, in one go: nothing else of the   *)
(* loop runs between a commit and the counter that follows it.  A coverage *)
(* thread does.  So a write is a commit and a later touch, with `writer`   *)
(* saying which part of it the loop is in.                                 *)
(*                                                                         *)
(* A row is a file's; sizes, blobs and sources are left out.  Time is the  *)
(* number of writes so far: rows written together carry one stamp.         *)
(***************************************************************************)
EXTENDS Naturals, FiniteSets, FiniteSetsExt

CONSTANTS
  Files,     \* the paths a device may hold
  Threads,   \* of the pool coverage runs on
  MaxWrites  \* bound on the writes

ASSUME ManifestConstantsOK == MaxWrites \in Nat

VARIABLES
  row,     \* path |-> shipped_at, 0 for no row
  clock,   \* the time of the last write
  synced,  \* _last_sync: what it caches, or Unset
  writes,  \* _writes
  writer,  \* where the loop is: "free", or in the middle of a write
  owing,   \* the deletions it still has to retract, of the same transfer
  root,    \* _root: the writes and the generation of a tally, and the tally
  cover    \* the coverage threads

Stamps == 0..MaxWrites
Unset == MaxWrites + 1
NoTally == [writes |-> Unset, gen |-> 0, tally |-> {}]
Idle == [at |-> "idle", gen |-> 0, idx |-> {}, writes |-> 0, tally |-> {}]

rows == <<row, clock>>
loop == <<writer, owing>>
coverage == <<root, cover>>
manifestVars == <<rows, synced, writes, loop, coverage>>

ManifestTypeOK ==
  /\ row \in [Files -> Stamps] /\ clock \in Stamps
  /\ synced \in Stamps \cup {Unset} /\ writes \in Stamps
  /\ writer \in {"free", "recorded", "owing", "retracted", "scanned"}
  /\ owing \subseteq Files
  /\ root.writes \in Stamps \cup {Unset} /\ root.tally \subseteq Files
  /\ \A t \in Threads :
       /\ cover[t].at \in {"idle", "opened", "counting", "storing"}
       /\ cover[t].idx \subseteq Files /\ cover[t].tally \subseteq Files
       /\ cover[t].writes \in Stamps

Claimed == {p \in Files : row[p] > 0}
Newest == Max({row[p] : p \in Files} \cup {0})

ManifestInit ==
  /\ row = [p \in Files |-> 0] /\ clock = 0
  /\ synced = Unset /\ writes = 0
  /\ writer = "free" /\ owing = {}
  /\ root = NoTally /\ cover = [t \in Threads |-> Idle]
-----------------------------------------------------------------------------
(* The event loop's writes.                                                  *)

Stamp(ps) ==
  /\ clock < MaxWrites /\ clock' = clock + 1
  /\ row' = [p \in Files |-> IF p \in ps THEN clock + 1 ELSE row[p]]

\* The end of a transfer: record(ps) where there is something to record, then
\* retract(gone). Its first commit.
Record(ps, gone) ==
  /\ writer = "free"
  /\ owing' = gone
  /\ IF ps = {}
       THEN writer' = (IF gone = {} THEN "free" ELSE "owing") /\ UNCHANGED rows
       ELSE writer' = "recorded" /\ Stamp(ps)
  /\ UNCHANGED <<synced, writes, coverage>>

\* _stamped and _touched.
Touch ==
  /\ writer = "recorded"
  /\ synced' = clock /\ writes' = writes + 1
  /\ writer' = IF owing = {} THEN "free" ELSE "owing"
  /\ UNCHANGED <<rows, owing, coverage>>

\* A DELETE may have taken the newest row, so last_sync asks again. (Keeping it is
\* the mutant.)
Kept == synced
Popped == Unset

Retract ==
  /\ writer = "owing" /\ clock < MaxWrites
  /\ synced' = Popped
  /\ row' = [p \in Files |-> IF p \in owing THEN 0 ELSE row[p]]
  /\ clock' = clock + 1
  /\ owing' = {} /\ writer' = "retracted"
  /\ UNCHANGED <<writes, coverage>>

TouchRetracted ==
  /\ writer = "retracted"
  /\ writes' = writes + 1 /\ writer' = "free"
  /\ UNCHANGED <<rows, synced, owing, coverage>>

\* What the DELETE of replace_scan spares: the rows written after the listing began.
\* (Sparing none, or all as it once did, are its mutants.)
SparesNone(stamp, began) == FALSE
SparesAll(stamp, began) == TRUE
Spares(stamp, began) == stamp > began

\* replace_scan, one transaction: the DELETE, and what was listed is written.
ReplaceScan(listed, began) ==
  /\ writer = "free" /\ clock < MaxWrites /\ clock' = clock + 1
  /\ row' = [p \in Files |-> IF p \in listed THEN clock + 1
                             ELSE IF Spares(row[p], began) THEN row[p] ELSE 0]
  /\ writer' = "scanned"
  /\ UNCHANGED <<synced, writes, owing, coverage>>

TouchScanned ==
  /\ writer = "scanned"
  /\ synced' = Popped /\ writes' = writes + 1 /\ writer' = "free"
  /\ UNCHANGED <<rows, owing, coverage>>

\* last_sync: the Devices page asks on every poll.
AskLastSync ==
  /\ writer = "free" /\ synced = Unset
  /\ synced' = Newest
  /\ UNCHANGED <<rows, writes, loop, coverage>>

Writing == Touch \/ Retract \/ TouchRetracted \/ TouchScanned \/ AskLastSync
-----------------------------------------------------------------------------
(* coverage() of the library root, on a thread. `idx` and `g` are the index's *)
(* file at the moment it is attached: a rename leaves the thread the old one. *)

Thread(t, from, next) == cover[t].at = from /\ cover' = [cover EXCEPT ![t] = next]

CoverOpens(t, idx, g) ==
  /\ g > 0
  /\ Thread(t, "idle", [Idle EXCEPT !.at = "opened", !.idx = idx, !.gen = g])
  /\ UNCHANGED <<rows, synced, writes, loop, root>>

\* A hit is served as it is; a miss counts.
CoverHits(t) ==
  /\ root.writes = writes /\ root.gen = cover[t].gen
  /\ Thread(t, "opened", Idle)
  /\ UNCHANGED <<rows, synced, writes, loop, root>>

CoverMisses(t) ==
  /\ ~(root.writes = writes /\ root.gen = cover[t].gen)
  /\ Thread(t, "opened", [cover[t] EXCEPT !.at = "counting", !.writes = writes])
  /\ UNCHANGED <<rows, synced, writes, loop, root>>

CoverTallies(t) ==
  /\ Thread(t, "counting", [cover[t] EXCEPT !.at = "storing", !.tally = Claimed \cap cover[t].idx])
  /\ UNCHANGED <<rows, synced, writes, loop, root>>

\* The count it goes under: the one read before the tally. (Reading it now is the
\* mutant.)
CountNow(t) == writes
CountBefore(t) == cover[t].writes

CoverStores(t) ==
  /\ Thread(t, "storing", Idle)
  /\ root' = [writes |-> CountBefore(t), gen |-> cover[t].gen, tally |-> cover[t].tally]
  /\ UNCHANGED <<rows, synced, writes, loop>>

Counting(t) == CoverHits(t) \/ CoverMisses(t) \/ CoverTallies(t) \/ CoverStores(t)
-----------------------------------------------------------------------------
\* A cached tally that would be served now is the one a fresh count would give,
\* of the index that is published and of the rows as they are. While the loop is
\* between a commit and its touch the cache may lag by that one write. `coverage`
\* promises it of a count computed across a write, on whatever thread.
CachedTallyIsCurrent(published, g) ==
  writer \in {"free", "owing"} /\ root.writes = writes /\ root.gen = g =>
    root.tally = Claimed \cap published

\* "every write keeps it exact": a cached last_sync is the newest row's stamp.
LastSyncIsExact == writer \in {"free", "owing"} /\ synced # Unset => synced = Newest
=============================================================================
