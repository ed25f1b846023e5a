---------------------------- MODULE LibraryIndex ----------------------------
(***************************************************************************)
(* The index of the library (library.py) and the task that rebuilds it     *)
(* (state.py).  A walk reads the tree on a thread while books come and go, *)
(* and is published by one rename.  An ask that arrives during a walk      *)
(* makes the task walk again, because the running one may be past the      *)
(* directories that changed.  A pull asks when its books have landed, and  *)
(* ends by saying whether the index has them.                              *)
(*                                                                         *)
(* A book is one entry; that it lies in directories, whose totals the walk *)
(* sums up, and that the catalog gives it a title, is left out.            *)
(***************************************************************************)
EXTENDS Naturals, FiniteSets

CONSTANTS
  Paths,       \* the books there may be
  WalkFaults,  \* what may go wrong with a walk, see WalkKinds
  Budgets,     \* bounds of the model, one record for each situation to look at
  MaxGen       \* bound on the publications

\* An entry that cannot be read is counted and left out; an exception (a full
\* disk, say) is caught; the unlink that cleans up after it may raise again.
WalkKinds == {"unreadable", "caught", "raised"}

ASSUME IndexConstantsOK ==
  /\ WalkFaults \subseteq WalkKinds
  /\ MaxGen \in Nat
  /\ \A b \in Budgets : b.moves \in Nat /\ b.walks \in Nat

VARIABLES
  library,  \* the books on this host's disk
  index,    \* the published index
  gen,      \* its indexed_at: which publication it is, 0 while there is none
  partial,  \* its `errors`: what the walk met and could not read
  failed,   \* is _last_error set
  task,     \* _reindex_task: "none", or its one await, or what is left of it
  again,    \* _reindex_again
  todo,     \* what the walk has still to read
  seen,     \* what it has read
  missed,   \* what it could not read
  asker,    \* the pull that awaits the task, and what it then says
  promised, \* for the property: the books of the moment it asked, still here
  left      \* of the budget: books that may move by hand, walks that may begin

publication == <<index, gen, partial, failed>>
walking == <<task, again, todo, seen, missed>>
asking == <<asker, promised>>
indexVars == <<library, publication, walking, asking>>

IndexTypeOK ==
  /\ library \subseteq Paths /\ index \subseteq Paths /\ partial \subseteq Paths
  /\ todo \subseteq Paths /\ seen \subseteq Paths /\ missed \subseteq Paths
  /\ promised \subseteq Paths
  /\ gen \in 0..MaxGen
  /\ failed \in BOOLEAN /\ again \in BOOLEAN
  /\ task \in {"none", "walking", "walked"}
  /\ asker \in {"idle", "awaiting", "indexed", "failed", "raised"}

\* A first start: no index.db. A later one has the index of some earlier moment.
IndexInit ==
  /\ library \in SUBSET Paths
  /\ \/ index = {} /\ gen = 0
     \/ index \in SUBSET Paths /\ gen = 1
  /\ partial = {} /\ failed = FALSE
  /\ task = "none" /\ again = FALSE /\ todo = {} /\ seen = {} /\ missed = {}
  /\ asker = "idle" /\ promised = {}
  /\ left \in Budgets

Spend(what) == left[what] > 0 /\ left' = [left EXCEPT ![what] = @ - 1]
-----------------------------------------------------------------------------
(* The library on disk.                                                      *)

BookLands(p) == library' = library \cup {p} /\ UNCHANGED promised
BookGoes(p) == library' = library \ {p} /\ promised' = promised \ {p}

Move(p) ==
  /\ Spend("moves")
  /\ IF p \in library THEN BookGoes(p) ELSE BookLands(p)
  /\ UNCHANGED <<publication, walking, asker>>
-----------------------------------------------------------------------------
(* The event loop's side.                                                    *)

\* _reindex from its loop's top: the walk is handed to the thread.
BeginWalk ==
  /\ Spend("walks")
  /\ task' = "walking" /\ again' = FALSE
  /\ todo' = Paths /\ seen' = {} /\ missed' = {}

\* (Dropping an ask that comes during a walk, "as this once did", is the mutant.)
ReindexDropped == IF task = "none" THEN BeginWalk ELSE UNCHANGED <<walking, left>>

ReindexSoon ==
  IF task = "none"
    THEN BeginWalk
    ELSE again' = TRUE /\ UNCHANGED <<task, todo, seen, missed, left>>

\* The half-hourly loop, the start of the application, the Rescan button.
Tick == ReindexSoon /\ UNCHANGED <<library, publication, asking>>

\* reindex(): the pull that asked waits for the task, the new one or the old.
PullAsks ==
  /\ ReindexSoon
  /\ asker' = "awaiting" /\ promised' = library
  /\ UNCHANGED <<library, publication>>

\* run_in_executor returns to _reindex.
WalkEnds ==
  /\ task = "walked"
  /\ IF again THEN BeginWalk
     ELSE task' = "none" /\ UNCHANGED <<again, todo, seen, missed, left>>
  /\ UNCHANGED <<library, publication, asking>>

\* The awaited task is over; the pull reads the index's error.
PullHears ==
  /\ asker = "awaiting" /\ task = "none"
  /\ asker' = IF failed THEN "failed" ELSE "indexed"
  /\ UNCHANGED <<library, publication, walking, promised, left>>

PullOver ==
  /\ asker \in {"indexed", "failed", "raised"}
  /\ asker' = "idle" /\ promised' = {}
  /\ UNCHANGED <<library, publication, walking, left>>
-----------------------------------------------------------------------------
(* The thread's side: LibraryIndex.reindex and _walk.                        *)

WalkReads(p) ==
  /\ task = "walking" /\ p \in todo
  /\ todo' = todo \ {p}
  /\ \/ seen' = (IF p \in library THEN seen \cup {p} ELSE seen) /\ UNCHANGED missed
     \/ /\ "unreadable" \in WalkFaults /\ p \in library
        /\ missed' = missed \cup {p} /\ UNCHANGED seen
  /\ UNCHANGED <<library, publication, task, again, asking, left>>

WalkPublishes ==
  /\ task = "walking" /\ todo = {} /\ gen < MaxGen
  /\ task' = "walked"
  /\ index' = seen /\ partial' = missed /\ gen' = gen + 1 /\ failed' = FALSE
  /\ UNCHANGED <<library, again, todo, seen, missed, asking, left>>

\* The index that was published stays.
WalkFails ==
  /\ "caught" \in WalkFaults /\ task = "walking"
  /\ task' = "walked" /\ failed' = TRUE /\ todo' = {}
  /\ UNCHANGED <<library, index, gen, partial, again, seen, missed, asking, left>>

\* The task ends with the exception, and so does the pull that awaits it.
WalkRaises ==
  /\ "raised" \in WalkFaults /\ task = "walking"
  /\ task' = "none" /\ failed' = TRUE /\ todo' = {}
  /\ asker' = IF asker = "awaiting" THEN "raised" ELSE asker
  /\ UNCHANGED <<library, index, gen, partial, again, seen, missed, promised, left>>

IndexThread == (\E p \in Paths : WalkReads(p)) \/ WalkPublishes \/ WalkFails \/ WalkRaises
-----------------------------------------------------------------------------
\* A pull that ends with "library reindexed" leaves an index in which its books
\* are: whatever was on disk when it asked, and has not left since, except what
\* the walk counted as unreadable. state.reindex_soon promises it for a pull
\* that ends while a walk is past its directories.
PulledBooksAreIndexed == asker = "indexed" => promised \subseteq index \cup partial
=============================================================================
