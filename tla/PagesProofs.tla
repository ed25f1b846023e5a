----------------------------- MODULE PagesProofs -----------------------------
(* Proofs about the commands that are queued, and about the coverage map and *)
(* the cache behind it, for any nodes, libraries, indexes and bounds.        *)
(* The map's figures are sums over sets of files and of roots: what a sum is *)
(* worth is shown first, then which files the roots hold between them, then  *)
(* what is drawn from the two, and last that a dialog draws from the roots   *)
(* of the index that is published.                                           *)
EXTENDS Pages, FiniteSetTheorems, WellFoundedInduction, TLAPS

(* The commands: what is true of every job ever queued.                      *)

Flags == {"-n", "-L", "--delete", "--size-only", "--no-times", "--exclude the catalog",
          "--exclude"}
Forms == {"selection", "adopt", "preview", "full sync", "replicate", "pull"}

Runs == [dry : BOOLEAN, adopt : BOOLEAN, whole : BOOLEAN]
Argvs == [to : {"node", "here"}, root : BOOLEAN, sources : SUBSET (Names \cup {HostRoot}),
          flags : SUBSET Flags]
Asks == [form : Forms, of : Nat, node : Nodes, library : SUBSET Names, indexed : SUBSET Names]
Jobs == [kind : {"push", "pull"}, sources : SUBSET Posted, run : Runs, ask : Asks,
         catalog : BOOLEAN, argv : Argvs]

\* The node is a validated one, and the index knows no name that is never browsed.
WorldOK ==
  /\ node \in Nodes /\ library \in SUBSET Names /\ indexed \in SUBSET Names
  /\ node.prune => node.mode = "books"
  /\ indexed \cap Skipped = {}

\* A job's argv is the one its builder makes of what it was queued with.
Built(j) ==
  /\ j.ask.node.prune => j.ask.node.mode = "books"
  /\ j.kind = "push" => /\ ~IsUpstream(j.ask.node)
                        /\ j.argv = PushArgv(j.ask.node, j.sources, j.run)
  /\ j.kind = "pull" => IsUpstream(j.ask.node) /\ j.argv = PullArgv(j.ask.node, j.run)

\* Where the sources of a push to a reader come from.  The library itself is among them
\* only where a selection named it.
Sourced(j) ==
  /\ LibraryRoot \in j.sources => j.ask.form = "selection"
  /\ j.kind = "push" /\ ~IsMirror(j.ask.node) =>
       /\ j.sources \cap Skipped = {}
       /\ j.sources \subseteq j.ask.indexed \cup (j.ask.library \ Skipped) \cup {LibraryRoot}
       /\ j.run.whole => j.sources = j.ask.library \ Skipped

\* Which run a form of the menu asks for.
Asked(j) ==
  /\ j.run.whole /\ ~j.run.dry => j.ask.form = "full sync"
  /\ j.ask.of = 0 =>
       /\ j.ask.form = "full sync" =>
            j.kind = "push" /\ j.run = Run(FALSE, FALSE, TRUE) /\ ~IsMirror(j.ask.node)
       /\ j.ask.form = "replicate" => j.kind = "push" /\ j.run = Real /\ IsMirror(j.ask.node)
       /\ j.ask.form = "pull" => j.kind = "pull" /\ j.run = Real
       /\ j.ask.form = "preview" => \/ j.kind = "push" /\ j.run = Preview
                                    \/ j.kind = "pull" /\ j.run = Run(TRUE, FALSE, FALSE)

\* What a retry takes over from the job it repeats.
RetryOf(j, old) ==
  /\ j.kind = old.kind /\ j.run.dry = old.run.dry /\ ~j.run.adopt
  /\ j.kind = "push" /\ ~IsMirror(j.ask.node) =>
       \/ old.run.whole /\ j.ask.node.fullSync /\ j.run.whole
       \/ /\ ~(old.run.whole /\ j.ask.node.fullSync) /\ ~j.run.whole
          /\ j.sources = old.sources \cap (j.ask.indexed \cup {LibraryRoot})

JobOK(k) ==
  /\ Built(jobs[k]) /\ Sourced(jobs[k]) /\ Asked(jobs[k])
  /\ jobs[k].ask.of # 0 =>
       jobs[k].ask.of \in 1..(k - 1) /\ RetryOf(jobs[k], jobs[jobs[k].ask.of])

CommandsInv == WorldOK /\ jobs \in Seq(Jobs) /\ \A k \in 1..Len(jobs) : JobOK(k)
-----------------------------------------------------------------------------
(* Types of what is queued.                                                  *)

\* A run is a record of three flags.
LEMMA RunTypes ==
  ASSUME NEW dry \in BOOLEAN, NEW adopt \in BOOLEAN, NEW whole \in BOOLEAN
  PROVE  /\ Run(dry, adopt, whole) \in Runs
         /\ Run(dry, adopt, whole).dry = dry /\ Run(dry, adopt, whole).adopt = adopt
         /\ Run(dry, adopt, whole).whole = whole
BY DEF Run, Runs

\* Neither the library itself nor the host's root is a name.
LEMMA RootsAreNoNames ==
  /\ LibraryRoot \notin Names /\ LibraryRoot \notin Skipped
  /\ HostRoot \notin Names /\ HostRoot \notin Skipped
BY CommandsConstantsOK

\* What rsync is given for the sources: the names themselves, and the host's root for the
\* library itself, which is neither a name nor one of those that are never browsed.
LEMMA Arguments ==
  ASSUME NEW S \in SUBSET Posted
  PROVE  /\ {Argument(s) : s \in S} \in SUBSET (Names \cup {HostRoot})
         /\ S \subseteq Names => {Argument(s) : s \in S} = S
         /\ S \cap Skipped = {} => {Argument(s) : s \in S} \cap Skipped = {}
         /\ HostRoot \in {Argument(s) : s \in S} => LibraryRoot \in S
<1>1. /\ LibraryRoot \notin Names /\ HostRoot \notin Names /\ HostRoot \notin Skipped
      /\ \A s \in S : s \in Names \/ s = LibraryRoot
  BY RootsAreNoNames DEF Posted
<1>2. \A s \in S : Argument(s) = IF s = LibraryRoot THEN HostRoot ELSE s
  BY DEF Argument
<1>3. {Argument(s) : s \in S} \in SUBSET (Names \cup {HostRoot})
  BY <1>1, <1>2
<1>4. S \subseteq Names => {Argument(s) : s \in S} = S
  BY <1>1, <1>2
<1>5. S \cap Skipped = {} => {Argument(s) : s \in S} \cap Skipped = {}
  BY <1>1, <1>2
<1>6. HostRoot \in {Argument(s) : s \in S} => LibraryRoot \in S
  BY <1>1, <1>2
<1> QED
  BY <1>3, <1>4, <1>5, <1>6

\* What the builders make is a command line.
LEMMA ArgvTypes ==
  ASSUME NEW d \in Nodes, NEW S \in SUBSET Posted, NEW run \in Runs
  PROVE  PushArgv(d, S, run) \in Argvs /\ PullArgv(d, run) \in Argvs
<1>1. \A c \in BOOLEAN : \A f \in Flags : When(c, f) \subseteq Flags
  BY DEF When
<1>2. PushArgv(d, S, run).flags \subseteq Flags
  BY <1>1 DEF PushArgv, When, Flags
<1>3. PullArgv(d, run).flags \subseteq Flags
  BY <1>1 DEF PullArgv, When, Flags
<1>4. IsMirror(d) \in BOOLEAN
  BY DEF IsMirror
<1>5. PushArgv(d, S, run) \in Argvs
  <2>1. (IF IsMirror(d) THEN {} ELSE {Argument(s) : s \in S}) \in SUBSET (Names \cup {HostRoot})
    BY Arguments
  <2> QED
    BY <1>2, <1>4, <2>1 DEF PushArgv, Argvs
<1>6. PullArgv(d, run) \in Argvs
  BY <1>3 DEF PullArgv, Argvs
<1> QED
  BY <1>5, <1>6

\* What is asked for now.
LEMMA AskTypes ==
  ASSUME WorldOK, NEW form \in Forms, NEW of \in Nat
  PROVE  /\ Ask(form, of) \in Asks
         /\ Ask(form, of).form = form /\ Ask(form, of).of = of
         /\ Ask(form, of).node = node /\ Ask(form, of).library = library
         /\ Ask(form, of).indexed = indexed
BY DEF WorldOK, Ask, Asks

\* A job is queued behind the others, which stay what they are.
LEMMA Queueing ==
  ASSUME CommandsInv, NEW new \in Jobs, jobs' = Append(jobs, new), UNCHANGED world,
         Built(new), Sourced(new), Asked(new),
         new.ask.of # 0 =>
           new.ask.of \in 1..Len(jobs) /\ RetryOf(new, jobs[new.ask.of])
  PROVE  CommandsInv'
<1>1. jobs \in Seq(Jobs) /\ Len(jobs) \in Nat
  BY DEF CommandsInv
<1>2. jobs' \in Seq(Jobs) /\ Len(jobs') = Len(jobs) + 1
  BY <1>1
<1>3. /\ \A i \in 1..Len(jobs) : jobs'[i] = jobs[i]
      /\ jobs'[Len(jobs) + 1] = new
  BY <1>1
<1>4. WorldOK'
  BY DEF CommandsInv, WorldOK, world
<1>5. ASSUME NEW k \in 1..Len(jobs) PROVE JobOK(k)'
  <2>1. JobOK(k) /\ jobs'[k] = jobs[k]
    BY <1>3 DEF CommandsInv
  <2>2. jobs[k].ask.of # 0 => jobs'[jobs[k].ask.of] = jobs[jobs[k].ask.of]
    <3>1. jobs[k].ask.of \in 1..(k - 1) => jobs[k].ask.of \in 1..Len(jobs)
      BY <1>1
    <3> QED
      BY <1>3, <2>1, <3>1 DEF JobOK
  <2>3. Built(jobs[k])' /\ Asked(jobs[k])'
    BY <2>1 DEF JobOK, Built, Asked, Real, Preview, Run
  <2>4. Sourced(jobs[k])'
    BY <2>1 DEF JobOK, Sourced
  <2>5. (jobs[k].ask.of # 0 =>
          jobs[k].ask.of \in 1..(k - 1) /\ RetryOf(jobs[k], jobs[jobs[k].ask.of]))'
    BY <2>1, <2>2 DEF JobOK, RetryOf
  <2> QED
    BY <2>3, <2>4, <2>5 DEF JobOK
<1>6. ASSUME NEW k \in Nat, k = Len(jobs) + 1 PROVE JobOK(k)'
  <2>1. jobs'[k] = new /\ 1..(k - 1) = 1..Len(jobs)
    BY <1>1, <1>3, <1>6
  <2>2. new.ask.of # 0 => jobs'[new.ask.of] = jobs[new.ask.of]
    BY <1>3
  <2> QED
    BY <2>1, <2>2 DEF JobOK, Built, Sourced, Asked, RetryOf, Real, Preview, Run
<1>7. \A k \in 1..Len(jobs') : JobOK(k)'
  <2> SUFFICES ASSUME NEW k \in 1..Len(jobs') PROVE JobOK(k)'
    OBVIOUS
  <2>1. k \in 1..Len(jobs) \/ (k \in Nat /\ k = Len(jobs) + 1)
    BY <1>1, <1>2
  <2> QED
    BY <1>5, <1>6, <2>1
<1> QED
  BY <1>2, <1>4, <1>7 DEF CommandsInv
-----------------------------------------------------------------------------
(* The routes: what each of them queues.                                     *)

\* A push that a form or a retry builds may be queued.
LEMMA PushQueued ==
  ASSUME CommandsInv, NEW S \in SUBSET Posted, NEW dry \in BOOLEAN, NEW adopt \in BOOLEAN,
         NEW whole \in BOOLEAN, NEW form \in Forms, NEW of \in Nat,
         Submit(S, Run(dry, adopt, whole), Ask(form, of)),
         LibraryRoot \in S => form = "selection",
         ~IsMirror(node) /\ ~IsUpstream(node) =>
           /\ S \cap Skipped = {}
           /\ S \subseteq indexed \cup (library \ Skipped) \cup {LibraryRoot}
           /\ whole => S = library \ Skipped,
         whole /\ ~dry => form = "full sync",
         of = 0 =>
           /\ form = "full sync" => ~dry /\ ~adopt /\ whole /\ ~IsMirror(node)
           /\ form = "replicate" => ~dry /\ ~adopt /\ ~whole /\ IsMirror(node)
           /\ form # "pull"
           /\ form = "preview" => dry /\ ~adopt /\ whole,
         of # 0 =>
           /\ of \in 1..Len(jobs) /\ jobs[of].kind = "push"
           /\ jobs[of].run.dry = dry /\ ~adopt
           /\ ~IsMirror(node) =>
                \/ jobs[of].run.whole /\ node.fullSync /\ whole
                \/ /\ ~(jobs[of].run.whole /\ node.fullSync) /\ ~whole
                   /\ S = jobs[of].sources \cap (indexed \cup {LibraryRoot})
  PROVE  CommandsInv'
<1> DEFINE run == Run(dry, adopt, whole)
           ask == Ask(form, of)
           new == [kind |-> "push", sources |-> S, run |-> run, ask |-> ask,
                   catalog |-> IsMirror(node) /\ ~run.adopt,
                   argv |-> PushArgv(node, S, run)]
<1>1. jobs' = Append(jobs, new) /\ UNCHANGED world /\ ~IsUpstream(node)
  BY DEF Submit, Refused
<1>2. /\ run \in Runs /\ run.dry = dry /\ run.adopt = adopt /\ run.whole = whole
      /\ dry = FALSE /\ adopt = FALSE /\ whole = FALSE => run = Real
      /\ dry = FALSE /\ adopt = FALSE /\ whole = TRUE => run = Run(FALSE, FALSE, TRUE)
      /\ dry = TRUE /\ adopt = FALSE /\ whole = TRUE => run = Preview
  BY RunTypes DEF Real, Preview
<1>3. /\ ask \in Asks /\ ask.form = form /\ ask.of = of /\ ask.node = node
      /\ ask.library = library /\ ask.indexed = indexed
  <2>1. WorldOK
    BY DEF CommandsInv
  <2> QED
    BY <2>1, AskTypes, Zenon
<1>4. PushArgv(node, S, run) \in Argvs
  BY <1>2, ArgvTypes DEF CommandsInv, WorldOK
<1> HIDE DEF run, ask
<1>5. new \in Jobs
  BY <1>2, <1>3, <1>4 DEF Jobs, IsMirror
<1>6. /\ new.kind = "push" /\ new.sources = S /\ new.run = run /\ new.ask = ask
      /\ new.argv = PushArgv(node, S, run)
  OBVIOUS
<1> HIDE DEF new
<1>7. Built(new)
  BY <1>1, <1>3, <1>6 DEF Built, CommandsInv, WorldOK
<1>8. Sourced(new)
  BY <1>1, <1>2, <1>3, <1>6 DEF Sourced
<1>9. Asked(new)
  BY <1>2, <1>3, <1>6 DEF Asked
<1>10. new.ask.of # 0 =>
         new.ask.of \in 1..Len(jobs) /\ RetryOf(new, jobs[new.ask.of])
  BY <1>2, <1>3, <1>6 DEF RetryOf
<1> QED
  BY <1>1, <1>5, <1>7, <1>8, <1>9, <1>10, Queueing

\* So may a pull.
LEMMA PullQueued ==
  ASSUME CommandsInv, NEW dry \in BOOLEAN, NEW form \in Forms, NEW of \in Nat,
         SubmitPull(Run(dry, FALSE, FALSE), Ask(form, of)),
         of = 0 => \/ form = "preview" /\ dry = TRUE
                   \/ form = "pull" /\ dry = FALSE,
         of # 0 =>
           of \in 1..Len(jobs) /\ jobs[of].kind = "pull" /\ jobs[of].run.dry = dry
  PROVE  CommandsInv'
<1> DEFINE run == Run(dry, FALSE, FALSE)
           ask == Ask(form, of)
           new == [kind |-> "pull", sources |-> {}, run |-> run, ask |-> ask,
                   catalog |-> FALSE, argv |-> PullArgv(node, run)]
<1>1. jobs' = Append(jobs, new) /\ UNCHANGED world /\ IsUpstream(node)
  BY DEF SubmitPull
<1>2. /\ run \in Runs /\ run.dry = dry /\ run.adopt = FALSE /\ run.whole = FALSE
      /\ dry = FALSE => run = Real
      /\ dry = TRUE => run = Run(TRUE, FALSE, FALSE)
  BY RunTypes DEF Real
<1>3. /\ ask \in Asks /\ ask.form = form /\ ask.of = of /\ ask.node = node
  BY AskTypes DEF CommandsInv
<1>4. PullArgv(node, run) \in Argvs
  BY <1>2, ArgvTypes DEF CommandsInv, WorldOK
<1> HIDE DEF run, ask
<1>5. new \in Jobs
  BY <1>2, <1>3, <1>4 DEF Jobs
<1>6. /\ new.kind = "pull" /\ new.sources = {} /\ new.run = run /\ new.ask = ask
      /\ new.argv = PullArgv(node, run)
  OBVIOUS
<1> HIDE DEF new
<1>7. Built(new)
  BY <1>1, <1>3, <1>6 DEF Built, CommandsInv, WorldOK
<1>8. Sourced(new)
  BY <1>6 DEF Sourced
<1>9. Asked(new)
  BY <1>2, <1>3, <1>6 DEF Asked
<1>10. new.ask.of # 0 =>
         new.ask.of \in 1..Len(jobs) /\ RetryOf(new, jobs[new.ask.of])
  BY <1>2, <1>3, <1>6 DEF RetryOf
<1> QED
  BY <1>1, <1>5, <1>7, <1>8, <1>9, <1>10, Queueing

\* The forms of the menu, by name.
LEMMA FormsKnown ==
  {"selection", "adopt", "preview", "full sync", "replicate", "pull"} \subseteq Forms
BY DEF Forms

\* A request for something new.
LEMMA MenuStep ==
  ASSUME CommandsInv,
         \/ \E paths \in SUBSET Posted, dry \in BOOLEAN : Select(paths, dry)
         \/ Adopt \/ DeviceDryRun \/ FullSync \/ Replicate \/ Pull \/ PullDryRun
  PROVE  CommandsInv'
<1>0. /\ node \in Nodes /\ library \in SUBSET Names /\ indexed \in SUBSET Names
      /\ indexed \cap Skipped = {}
  BY DEF CommandsInv, WorldOK
<1>n. /\ Names \subseteq Posted /\ LibraryRoot \notin Names
      /\ {LibraryRoot} \cap Skipped = {}
  BY RootsAreNoNames DEF Posted
<1>1. /\ library \in SUBSET Posted /\ library \ Skipped \in SUBSET Posted
      /\ WholeRootSources(node) \in SUBSET Posted
      /\ LibraryRoot \notin library /\ LibraryRoot \notin WholeRootSources(node)
      /\ ~IsMirror(node) /\ ~IsUpstream(node) => WholeRootSources(node) = library \ Skipped
  BY <1>0, <1>n DEF WholeRootSources, FullSyncSources, MirrorSources, IsMirror, IsUpstream, Nodes,
     SyncModes
<1>2. ASSUME NEW paths \in SUBSET Posted, NEW dry \in BOOLEAN, Select(paths, dry)
      PROVE  CommandsInv'
  <2>1. Resolve(paths) \in SUBSET Posted /\ Resolve(paths) \subseteq indexed \cup {LibraryRoot}
    BY DEF Resolve
  <2>2. Submit(Resolve(paths), Run(dry, FALSE, FALSE), Ask("selection", 0))
    BY <1>2 DEF Select
  <2>3. Resolve(paths) \cap Skipped = {}
    BY <1>0, <1>n, <2>1
  <2> QED
    BY <2>1, <2>2, <2>3, FormsKnown, PushQueued
<1>3. CASE Adopt
  <2>1. Submit(WholeRootSources(node), Run(FALSE, TRUE, FALSE), Ask("adopt", 0))
    BY <1>3 DEF Adopt
  <2>2. ~IsMirror(node) /\ ~IsUpstream(node) => WholeRootSources(node) \cap Skipped = {}
    BY <1>1
  <2> QED
    BY <1>1, <2>1, <2>2, FormsKnown, PushQueued
<1>4. CASE DeviceDryRun
  <2>1. Submit(WholeRootSources(node), Run(TRUE, FALSE, TRUE), Ask("preview", 0))
    BY <1>4 DEF DeviceDryRun, Preview
  <2>2. ~IsMirror(node) /\ ~IsUpstream(node) => WholeRootSources(node) \cap Skipped = {}
    BY <1>1
  <2> QED
    BY <1>1, <2>1, <2>2, FormsKnown, PushQueued
<1>5. CASE FullSync
  <2>1. Submit(library \ Skipped, Run(FALSE, FALSE, TRUE), Ask("full sync", 0))
    BY <1>5 DEF FullSync, FullSyncSources
  <2>2. ~IsMirror(node) /\ (library \ Skipped) \cap Skipped = {}
    BY <1>5 DEF FullSync
  <2> QED
    BY <1>1, <2>1, <2>2, FormsKnown, PushQueued
<1>6. CASE Replicate
  <2>1. Submit(library, Run(FALSE, FALSE, FALSE), Ask("replicate", 0)) /\ IsMirror(node)
    BY <1>6 DEF Replicate, MirrorSources, Real
  <2> QED
    BY <1>1, <2>1, FormsKnown, PushQueued
<1>7. CASE Pull
  <2>1. SubmitPull(Run(FALSE, FALSE, FALSE), Ask("pull", 0))
    BY <1>7 DEF Pull, Real
  <2>2. "pull" \in Forms
    BY FormsKnown
  <2> QED
    BY <2>1, <2>2, PullQueued
<1>8. CASE PullDryRun
  <2>1. PICK dry \in BOOLEAN : dry = TRUE
    OBVIOUS
  <2>2. SubmitPull(Run(dry, FALSE, FALSE), Ask("preview", 0))
    BY <1>8, <2>1 DEF PullDryRun
  <2>3. "preview" \in Forms
    BY FormsKnown
  <2> QED
    BY <2>1, <2>2, <2>3, PullQueued
<1> QED
  BY <1>2, <1>3, <1>4, <1>5, <1>6, <1>7, <1>8

\* A retry queues a job that stands in that relation to the old one.
LEMMA RetryStep ==
  ASSUME CommandsInv, NEW k \in 1..MaxJobs, Retry(k)
  PROVE  CommandsInv'
<1> DEFINE old == jobs[k]
<1>1. k \in 1..Len(jobs) /\ k \in Nat /\ k # 0 /\ old \in Jobs /\ JobOK(k)
  BY DEF CommandsInv, Retry
<1>2. /\ old.ask.form \in Forms /\ old.run.dry \in BOOLEAN /\ old.run.whole \in BOOLEAN
      /\ old.kind \in {"push", "pull"} /\ old.sources \in SUBSET Posted
  BY <1>1 DEF Jobs, Asks, Runs
<1>3. Asked(old) /\ (LibraryRoot \in old.sources => old.ask.form = "selection")
  BY <1>1 DEF JobOK, Sourced
<1>4. /\ node \in Nodes /\ library \in SUBSET Posted /\ indexed \in SUBSET Posted
      /\ indexed \cap Skipped = {} /\ LibraryRoot \notin library
      /\ {LibraryRoot} \cap Skipped = {}
  BY RootsAreNoNames DEF CommandsInv, WorldOK, Posted
<1>5. CASE old.kind = "pull"
  <2>1. SubmitPull(Run(old.run.dry, FALSE, FALSE), Ask(old.ask.form, k))
    BY <1>5 DEF Retry
  <2> HIDE DEF old
  <2>2. old = jobs[k]
    BY DEF old
  <2> QED
    BY <1>1, <1>2, <1>5, <2>1, <2>2, PullQueued
<1>6. CASE old.kind = "push"
  <2>1. Queue(old, Ask(old.ask.form, k))
    BY <1>6 DEF Retry
  <2> HIDE DEF old
  <2>2. old = jobs[k]
    BY DEF old
  <2>3. CASE IsMirror(node)
    <3>1. Submit(library, Run(old.run.dry, FALSE, FALSE), Ask(old.ask.form, k))
      BY <2>1, <2>3 DEF Queue, Again, MirrorSources
    <3> QED
      BY <1>1, <1>2, <1>4, <1>6, <2>2, <2>3, <3>1, PushQueued
  <2>4. CASE ~IsMirror(node) /\ old.run.whole /\ node.fullSync
    <3>1. Submit(library \ Skipped, Run(old.run.dry, FALSE, TRUE), Ask(old.ask.form, k))
      BY <2>1, <2>4 DEF Queue, Again, FullSyncSources
    <3>2. ~old.run.dry => old.ask.form = "full sync"
      BY <1>3, <2>4 DEF Asked
    <3>3. /\ library \ Skipped \in SUBSET Posted /\ (library \ Skipped) \cap Skipped = {}
          /\ LibraryRoot \notin library \ Skipped
      BY <1>4
    <3> QED
      BY <1>1, <1>2, <1>6, <2>2, <2>4, <3>1, <3>2, <3>3, PushQueued
  <2>5. CASE ~IsMirror(node) /\ ~(old.run.whole /\ node.fullSync)
    <3>1. /\ Submit(Resolve(old.sources), Run(old.run.dry, FALSE, FALSE), Ask(old.ask.form, k))
          /\ Resolve(old.sources) = old.sources \cap (indexed \cup {LibraryRoot})
      BY <2>1, <2>5 DEF Queue, Again, Resolve
    <3> DEFINE S == Resolve(old.sources)
    <3>2. /\ S \in SUBSET Posted /\ S \cap Skipped = {}
          /\ S \subseteq indexed \cup {LibraryRoot}
          /\ LibraryRoot \in S => old.ask.form = "selection"
      BY <1>2, <1>3, <1>4, <3>1
    <3> HIDE DEF S
    <3> QED
      BY <1>1, <1>2, <1>6, <2>2, <2>5, <3>1, <3>2, PushQueued DEF S
  <2> QED
    BY <2>3, <2>4, <2>5
<1> QED
  BY <1>2, <1>5, <1>6

\* A reload, an index or a library that changes leaves the queue alone.
LEMMA WorldStep ==
  ASSUME CommandsInv, NEW n \in Nodes, n.prune => n.mode = "books",
         NEW l \in SUBSET Names, NEW i \in SUBSET Names, i \cap Skipped = {}, World(n, l, i)
  PROVE  CommandsInv'
<1>1. jobs' = jobs /\ node' = n /\ library' = l /\ indexed' = i
  BY DEF World
<1>2. WorldOK'
  BY <1>1 DEF WorldOK
<1>3. \A k \in 1..Len(jobs) : JobOK(k)'
  BY <1>1 DEF CommandsInv, JobOK, Built, Sourced, Asked, RetryOf, Real, Preview, Run
<1> QED
  BY <1>1, <1>2, <1>3 DEF CommandsInv

\* Validation keeps a node a node.
LEMMA ValidatedNodes ==
  ASSUME NEW d \in Declared
  PROVE  Validated(d) \in Nodes /\ (Validated(d).prune => Validated(d).mode = "books")
BY CommandsConstantsOK DEF Validated, Nodes

\* Every step of the commands keeps the invariant.
LEMMA CommandsStep ==
  ASSUME CommandsInv, [CommandsNext]_commandsVars
  PROVE  CommandsInv'
<1>0. /\ node \in Nodes /\ library \in SUBSET Names /\ indexed \in SUBSET Names
      /\ indexed \cap Skipped = {} /\ (node.prune => node.mode = "books")
      /\ \A l \in Libraries : l \in SUBSET Names
  BY DEF CommandsInv, WorldOK, Names
<1>1. CASE EditDevices
  BY <1>0, <1>1, ValidatedNodes, WorldStep DEF EditDevices
<1>2. CASE LibraryChanges
  BY <1>0, <1>2, WorldStep DEF LibraryChanges
<1>3. CASE Reindex
  <2>1. library \ Skipped \in SUBSET Names /\ (library \ Skipped) \cap Skipped = {}
    BY <1>0
  <2> QED
    BY <1>0, <1>3, <2>1, WorldStep DEF Reindex
<1>4. CASE UNCHANGED commandsVars
  BY <1>4 DEF commandsVars, CommandsInv, WorldOK, JobOK, Built, Sourced, Asked, RetryOf, Real,
     Preview, Run
<1> QED
  BY <1>1, <1>2, <1>3, <1>4, MenuStep, RetryStep DEF CommandsNext

\* Nothing is queued at first.
LEMMA CommandsInitially == CommandsInit => CommandsInv
<1> SUFFICES ASSUME CommandsInit PROVE CommandsInv
  OBVIOUS
<1>1. WorldOK
  BY ValidatedNodes DEF CommandsInit, WorldOK, Names
<1> QED
  BY <1>1 DEF CommandsInit, CommandsInv

\* Every job, at any time: its argv is what its builder makes of what was queued; a
\* reader's sources are names of the index or of the library, or the library itself where
\* a selection named it (_resolve, index.entry); a retry takes over what it repeats.
THEOREM CommandsInvariant == Spec => []CommandsInv
<1>1. Init => CommandsInv
  BY CommandsInitially DEF Init, NobodyAsks
<1>2. CommandsInv /\ [Next]_vars => CommandsInv'
  <2>1. [Next]_vars => [CommandsNext]_commandsVars
    BY DEF Next, vars
  <2> QED
    BY <2>1, CommandsStep
<1> QED
  BY <1>1, <1>2, PTL DEF Spec
-----------------------------------------------------------------------------
(* What follows of the commands.                                             *)

\* What the invariant says of one job.
LEMMA QueuedJobs ==
  ASSUME CommandsInv, NEW j \in Queued
  PROVE  /\ j \in Jobs /\ Built(j) /\ Sourced(j) /\ Asked(j)
         /\ j.ask.of # 0 => jobs[j.ask.of] \in Queued /\ RetryOf(j, jobs[j.ask.of])
<1>1. PICK k \in 1..Len(jobs) : j = jobs[k]
  BY DEF Queued, CommandsInv
<1>2. JobOK(k) /\ jobs[k] \in Jobs
  BY DEF CommandsInv
<1>3. j.ask.of # 0 => j.ask.of \in 1..Len(jobs)
  BY <1>1, <1>2 DEF JobOK, CommandsInv
<1>4. \A i \in 1..Len(jobs) : jobs[i] \in Queued
  BY DEF Queued, CommandsInv
<1> QED
  BY <1>1, <1>2, <1>3, <1>4 DEF JobOK

\* What a job's fields are.
LEMMA JobFields ==
  ASSUME NEW j \in Jobs
  PROVE  /\ j.kind \in {"push", "pull"} /\ j.ask.node \in Nodes
         /\ j.run.dry \in BOOLEAN /\ j.run.adopt \in BOOLEAN /\ j.run.whole \in BOOLEAN
BY DEF Jobs, Asks, Runs

\* What is in the argv of a push, and of a pull.
LEMMA PushFields ==
  ASSUME NEW d \in Nodes, NEW S \in SUBSET Posted, NEW run \in Runs
  PROVE  /\ PushArgv(d, S, run).to = "node" /\ PushArgv(d, S, run).root = IsMirror(d)
         /\ ~IsMirror(d) => PushArgv(d, S, run).sources = {Argument(s) : s \in S}
         /\ ("-n" \in PushArgv(d, S, run).flags <=> run.dry)
         /\ ("--delete" \in PushArgv(d, S, run).flags
               <=> ((IsMirror(d) /\ ~run.adopt) \/ Prunes(d, run)))
         /\ ("--exclude" \in PushArgv(d, S, run).flags <=> d.excludes)
         /\ ("--exclude the catalog" \in PushArgv(d, S, run).flags <=> IsMirror(d))
<1>1. /\ d.excludes \in BOOLEAN /\ d.storesTimes \in BOOLEAN /\ run.dry \in BOOLEAN
      /\ IsMirror(d) \in BOOLEAN /\ run.adopt \in BOOLEAN /\ Prunes(d, run) \in BOOLEAN
  BY DEF Nodes, Runs, IsMirror, Prunes
<1>2. PushArgv(d, S, run).flags =
        When(run.dry, "-n") \cup When(~IsMirror(d), "-L")
          \cup When((IsMirror(d) /\ ~run.adopt) \/ Prunes(d, run), "--delete")
          \cup When(run.adopt \/ ~d.storesTimes, "--size-only")
          \cup When(~d.storesTimes, "--no-times")
          \cup When(IsMirror(d), "--exclude the catalog") \cup When(d.excludes, "--exclude")
  BY DEF PushArgv
<1>3. "-n" \in PushArgv(d, S, run).flags <=> run.dry
  BY <1>1, <1>2 DEF When
<1>4. "--delete" \in PushArgv(d, S, run).flags
        <=> ((IsMirror(d) /\ ~run.adopt) \/ Prunes(d, run))
  BY <1>1, <1>2 DEF When
<1>5. "--exclude" \in PushArgv(d, S, run).flags <=> d.excludes
  BY <1>1, <1>2 DEF When
<1>6. "--exclude the catalog" \in PushArgv(d, S, run).flags <=> IsMirror(d)
  BY <1>1, <1>2 DEF When
<1>7. /\ PushArgv(d, S, run).to = "node" /\ PushArgv(d, S, run).root = IsMirror(d)
      /\ ~IsMirror(d) => PushArgv(d, S, run).sources = {Argument(s) : s \in S}
  BY DEF PushArgv
<1> QED
  BY <1>3, <1>4, <1>5, <1>6, <1>7

\* The fields of a pull's command line.
LEMMA PullFields ==
  ASSUME NEW d \in Nodes, NEW run \in Runs
  PROVE  /\ PullArgv(d, run).to = "here" /\ PullArgv(d, run).root
         /\ ("-n" \in PullArgv(d, run).flags <=> run.dry)
         /\ "--exclude the catalog" \in PullArgv(d, run).flags
BY DEF PullArgv, When, Runs

\* The same of a job that was queued.
LEMMA PushCommand ==
  ASSUME CommandsInv, NEW j \in Queued, j.kind = "push"
  PROVE  /\ j.argv = PushArgv(j.ask.node, j.sources, j.run) /\ ~IsUpstream(j.ask.node)
         /\ j.argv.to = "node" /\ j.argv.root = IsMirror(j.ask.node)
         /\ ~IsMirror(j.ask.node) => j.argv.sources = {Argument(s) : s \in j.sources}
         /\ ("-n" \in j.argv.flags <=> j.run.dry)
         /\ ("--delete" \in j.argv.flags
               <=> ((IsMirror(j.ask.node) /\ ~j.run.adopt) \/ Prunes(j.ask.node, j.run)))
         /\ ("--exclude" \in j.argv.flags <=> j.ask.node.excludes)
         /\ ("--exclude the catalog" \in j.argv.flags <=> IsMirror(j.ask.node))
<1>1. j \in Jobs /\ Built(j)
  BY QueuedJobs
<1>2. j.ask.node \in Nodes /\ j.sources \in SUBSET Posted /\ j.run \in Runs
  BY <1>1 DEF Jobs, Asks
<1>3. j.argv = PushArgv(j.ask.node, j.sources, j.run) /\ ~IsUpstream(j.ask.node)
  BY <1>1 DEF Built
<1> DEFINE argv == PushArgv(j.ask.node, j.sources, j.run)
<1>4. /\ argv.to = "node" /\ argv.root = IsMirror(j.ask.node)
      /\ ~IsMirror(j.ask.node) => argv.sources = {Argument(s) : s \in j.sources}
      /\ ("-n" \in argv.flags <=> j.run.dry)
      /\ ("--delete" \in argv.flags
            <=> ((IsMirror(j.ask.node) /\ ~j.run.adopt) \/ Prunes(j.ask.node, j.run)))
      /\ ("--exclude" \in argv.flags <=> j.ask.node.excludes)
      /\ ("--exclude the catalog" \in argv.flags <=> IsMirror(j.ask.node))
  BY <1>2, PushFields, Zenon
<1> QED
  BY <1>3, <1>4

\* A pull that was queued has such a line.
LEMMA PullCommand ==
  ASSUME CommandsInv, NEW j \in Queued, j.kind = "pull"
  PROVE  /\ j.argv = PullArgv(j.ask.node, j.run) /\ IsUpstream(j.ask.node)
         /\ j.argv.to = "here" /\ j.argv.root
         /\ ("-n" \in j.argv.flags <=> j.run.dry)
         /\ "--exclude the catalog" \in j.argv.flags
<1>1. j \in Jobs /\ Built(j)
  BY QueuedJobs
<1>2. j.ask.node \in Nodes /\ j.run \in Runs
  BY <1>1 DEF Jobs, Asks
<1>3. j.argv = PullArgv(j.ask.node, j.run) /\ IsUpstream(j.ask.node)
  BY <1>1 DEF Built
<1> QED
  BY <1>2, <1>3, PullFields

\* There are two kinds of job.
LEMMA Kinds ==
  ASSUME CommandsInv, NEW j \in Queued
  PROVE  j.kind = "push" \/ j.kind = "pull"
BY QueuedJobs, JobFields

\* The dry run of a job is the one its argv asks for.
LEMMA DryRuns ==
  ASSUME CommandsInv, NEW j \in Queued
  PROVE  Dry(j) <=> j.run.dry
BY Kinds, PushCommand, PullCommand DEF Dry

\* A reader loses a file only to a Full Sync that its node's prune asks for
\* (models.build_argv, routes/jobs.py, routes/devices.py), however the request
\* came, before or after whatever edit of devices.yaml.
THEOREM RemovalsHold == Spec => []RemovalsAreAsked
<1>1. CommandsInv => RemovalsAreAsked
  <2> SUFFICES ASSUME CommandsInv, NEW j \in Queued, Removed(j) # {},
                      ~(IsMirror(j.ask.node) /\ ~j.run.adopt)
               PROVE  /\ j.ask.form = "full sync"
                      /\ j.ask.node.prune /\ j.ask.node.fullSync
                      /\ \A f \in Removed(j) : /\ f.top \in j.ask.library \ Skipped
                                               /\ f.spared => ~j.ask.node.excludes
    BY DEF RemovalsAreAsked
  <2>1. Sourced(j) /\ Asked(j)
    BY QueuedJobs
  <2>2. ~Dry(j) /\ "--delete" \in j.argv.flags /\ j.argv.to = "node"
    BY DEF Removed
  <2>3. j.kind = "push"
    BY <2>2, Kinds, PullCommand
  <2>4. Prunes(j.ask.node, j.run)
    BY <2>2, <2>3, PushCommand
  <2>5. /\ j.run.whole /\ ~j.run.dry /\ ~IsMirror(j.ask.node)
        /\ j.ask.node.prune /\ j.ask.node.fullSync
    BY <2>2, <2>4, DryRuns DEF Prunes
  <2>6. j.ask.form = "full sync" /\ j.sources = j.ask.library \ Skipped
    BY <2>1, <2>3, <2>5 DEF Asked, Sourced
  <2>7. /\ ~j.argv.root /\ j.argv.sources = {Argument(s) : s \in j.sources}
        /\ ("--exclude" \in j.argv.flags <=> j.ask.node.excludes)
    BY <2>3, <2>5, PushCommand
  <2>8. j.sources \subseteq Names /\ j.sources \in SUBSET Posted
    BY <2>6, QueuedJobs DEF Jobs, Asks
  <2>9. j.argv.sources = j.sources /\ HostRoot \notin j.argv.sources
    BY <2>7, <2>8, Arguments, RootsAreNoNames
  <2>10. \A f \in Removed(j) : /\ f.top \in j.argv.sources
                               /\ ~(f.spared /\ "--exclude" \in j.argv.flags)
    BY <2>2, <2>7, <2>9 DEF Removed
  <2> QED
    BY <2>5, <2>6, <2>7, <2>9, <2>10
<1> QED
  BY <1>1, CommandsInvariant, PTL

\* A reader is never sent a name that is never browsed, nor the host's root, which lies
\* above them all, unless a selection named the library itself (models.build_argv,
\* routes/jobs.py's _resolve, config.SKIP_TOPLEVEL).  Whoever sends or takes the vault
\* leaves the live catalog out (build_pull_argv).
THEOREM InfrastructureHolds == Spec => []InfrastructureStaysHome
<1>1. CommandsInv => InfrastructureStaysHome
  <2> SUFFICES ASSUME CommandsInv, NEW j \in Queued
               PROVE  /\ ToReader(j) => /\ j.argv.sources \cap Skipped = {}
                                        /\ HostRoot \in j.argv.sources => NamesTheLibrary(j)
                      /\ j.argv.root => "--exclude the catalog" \in j.argv.flags
    BY DEF InfrastructureStaysHome
  <2>1. Sourced(j) /\ j.sources \in SUBSET Posted
    BY QueuedJobs DEF Jobs
  <2>2. CASE j.kind = "push"
    <3>1. ASSUME ToReader(j)
          PROVE  /\ j.argv.sources \cap Skipped = {}
                 /\ HostRoot \in j.argv.sources => NamesTheLibrary(j)
      <4>1. ~IsMirror(j.ask.node) /\ j.argv.sources = {Argument(s) : s \in j.sources}
        BY <2>2, <3>1, PushCommand DEF ToReader
      <4>2. /\ j.sources \cap Skipped = {}
            /\ LibraryRoot \in j.sources => j.ask.form = "selection"
        BY <2>1, <2>2, <4>1 DEF Sourced
      <4> QED
        BY <2>1, <4>1, <4>2, Arguments DEF NamesTheLibrary
    <3>2. j.argv.root => "--exclude the catalog" \in j.argv.flags
      BY <2>2, PushCommand
    <3> QED
      BY <3>1, <3>2
  <2>3. CASE j.kind = "pull"
    BY <2>3, PullCommand DEF ToReader
  <2> QED
    BY <2>2, <2>3, Kinds
<1> QED
  BY <1>1, CommandsInvariant, PTL

\* Two runs that delete alike, of the same sources where sources are named.
LEMMA SamePush ==
  ASSUME NEW d \in Nodes, NEW S, NEW T, NEW run \in Runs, NEW run2 \in Runs,
         run.dry = run2.dry, run.adopt = run2.adopt, Prunes(d, run) <=> Prunes(d, run2),
         IsMirror(d) \/ S = T
  PROVE  PushArgv(d, S, run) = PushArgv(d, T, run2)
<1>1. Prunes(d, run) = Prunes(d, run2)
  BY DEF Prunes, Nodes, Runs, IsMirror
<1>2. (IF IsMirror(d) THEN {} ELSE {Argument(s) : s \in S})
        = (IF IsMirror(d) THEN {} ELSE {Argument(s) : s \in T})
  OBVIOUS
<1> QED
  BY <1>1, <1>2 DEF PushArgv

\* A command with -n.
Drier(argv) == [argv EXCEPT !.flags = @ \cup {"-n"}]

\* The preview of a run has that run's flags and -n.
LEMMA DrierFlags ==
  ASSUME NEW to, NEW root, NEW sources, NEW flags
  PROVE  Drier([to |-> to, root |-> root, sources |-> sources, flags |-> flags]) =
           [to |-> to, root |-> root, sources |-> sources, flags |-> flags \cup {"-n"}]
BY DEF Drier

\* A preview differs from what it previews by its -n.
LEMMA DryPush ==
  ASSUME NEW d \in Nodes, NEW S, NEW T, NEW dry \in Runs, NEW run \in Runs,
         dry.dry, ~run.dry, run.adopt = dry.adopt, Prunes(d, dry) <=> Prunes(d, run),
         IsMirror(d) \/ S = T
  PROVE  PushArgv(d, S, dry) = Drier(PushArgv(d, T, run))
<1> DEFINE rest == When(~IsMirror(d), "-L")
             \cup When((IsMirror(d) /\ ~run.adopt) \/ Prunes(d, run), "--delete")
             \cup When(run.adopt \/ ~d.storesTimes, "--size-only")
             \cup When(~d.storesTimes, "--no-times")
             \cup When(IsMirror(d), "--exclude the catalog") \cup When(d.excludes, "--exclude")
           sources == IF IsMirror(d) THEN {} ELSE {Argument(s) : s \in T}
           root == IsMirror(d)
<1>1. Prunes(d, run) = Prunes(d, dry)
  BY DEF Prunes, Nodes, Runs, IsMirror
<1>2. (IF IsMirror(d) THEN {} ELSE {Argument(s) : s \in S}) = sources
  OBVIOUS
<1>3. /\ When(run.dry, "-n") = {} /\ When(dry.dry, "-n") = {"-n"}
  BY DEF When
<1>4. When(dry.dry, "-n") \cup rest = rest \cup {"-n"} /\ When(run.dry, "-n") \cup rest = rest
  BY <1>3
<1>5. PushArgv(d, T, run) =
        [to |-> "node", root |-> root, sources |-> sources,
         flags |-> When(run.dry, "-n") \cup rest]
  BY DEF PushArgv
<1>6. PushArgv(d, S, dry) =
        [to |-> "node", root |-> root, sources |-> sources,
         flags |-> When(dry.dry, "-n") \cup rest]
  BY <1>1, <1>2 DEF PushArgv
<1> HIDE DEF rest, sources, root
<1>7. Drier(PushArgv(d, T, run)) =
        [to |-> "node", root |-> root, sources |-> sources, flags |-> rest \cup {"-n"}]
  BY <1>4, <1>5, DrierFlags
<1> QED
  BY <1>4, <1>6, <1>7

\* The dry run of a device's menu runs what its Full Sync, its Replicate or its
\* Pull would, but for -n (routes/devices.py): the excludes and the --delete too.
THEOREM PreviewsHold == Spec => []PreviewIsFaithful
<1>1. CommandsInv => PreviewIsFaithful
  <2> SUFFICES ASSUME CommandsInv, NEW p \in Queued, NEW j \in Queued,
                      p.ask.form = "preview", p.ask.of = 0,
                      j.ask.form \in Previewed, j.ask.of = 0,
                      p.ask.node = j.ask.node, p.ask.library = j.ask.library
               PROVE  p.argv = Drier(j.argv)
    BY DEF PreviewIsFaithful, Drier
  <2> DEFINE d == j.ask.node
  <2>1. /\ Sourced(p) /\ Sourced(j) /\ Asked(p) /\ Asked(j)
        /\ p.run \in Runs /\ j.run \in Runs /\ d \in Nodes
    BY QueuedJobs DEF Jobs, Asks
  <2>2. CASE j.kind = "push"
    <3>1. p.kind = "push"
      BY <2>2, Kinds, PushCommand, PullCommand
    <3>2. p.run = Preview
      BY <2>1, <3>1 DEF Asked
    <3>3. /\ p.run.dry /\ ~p.run.adopt /\ p.run.whole
      BY <3>2 DEF Preview, Run
    <3>4. CASE j.ask.form = "full sync"
      <4>1. j.run = Run(FALSE, FALSE, TRUE) /\ ~IsMirror(d)
        BY <2>1, <3>4 DEF Asked
      <4>2. ~j.run.dry /\ ~j.run.adopt /\ j.run.whole
        BY <4>1 DEF Run
      <4>3. p.sources = j.sources
        BY <2>1, <2>2, <3>1, <3>3, <4>1, <4>2 DEF Sourced
      <4>4. (Prunes(d, p.run) <=> Prunes(d, j.run)) /\ j.run.adopt = p.run.adopt
        BY <2>1, <3>3, <4>2 DEF Prunes, Runs
      <4>5. p.argv = PushArgv(d, p.sources, p.run) /\ j.argv = PushArgv(d, j.sources, j.run)
        BY <2>2, <3>1, PushCommand
      <4> HIDE DEF d
      <4> QED
        BY <2>1, <3>3, <4>2, <4>3, <4>4, <4>5, DryPush
    <3>5. CASE j.ask.form = "replicate"
      <4>1. j.run = Real /\ IsMirror(d)
        BY <2>1, <3>5 DEF Asked
      <4>2. ~j.run.dry /\ ~j.run.adopt
        BY <4>1 DEF Real, Run
      <4>3. (Prunes(d, p.run) <=> Prunes(d, j.run)) /\ j.run.adopt = p.run.adopt
        BY <2>1, <3>3, <4>1, <4>2 DEF Prunes, Runs
      <4>4. p.argv = PushArgv(d, p.sources, p.run) /\ j.argv = PushArgv(d, j.sources, j.run)
        BY <2>2, <3>1, PushCommand
      <4> HIDE DEF d
      <4> QED
        BY <2>1, <3>3, <4>1, <4>2, <4>3, <4>4, DryPush
    <3>6. j.ask.form # "pull"
      BY <2>1, <2>2 DEF Asked
    <3> QED
      BY <3>4, <3>5, <3>6 DEF Previewed
  <2>3. CASE j.kind = "pull"
    <3>1. p.kind = "pull"
      BY <2>3, Kinds, PushCommand, PullCommand
    <3>2. j.run = Real /\ p.run = Run(TRUE, FALSE, FALSE)
      BY <2>1, <2>3, <3>1 DEF Asked, Previewed
    <3>3. ~j.run.dry /\ p.run.dry
      BY <3>2 DEF Real, Run
    <3>4. p.argv = PullArgv(d, p.run) /\ j.argv = PullArgv(d, j.run)
      BY <2>3, <3>1, PullCommand
    <3>5. PullArgv(d, j.run).flags \cup {"-n"} = PullArgv(d, p.run).flags
      BY <3>3 DEF PullArgv, When
    <3> DEFINE root == TRUE
               flags == PullArgv(d, j.run).flags
    <3>6. /\ PullArgv(d, j.run) = [to |-> "here", root |-> root, sources |-> {}, flags |-> flags]
          /\ PullArgv(d, p.run) = [to |-> "here", root |-> root, sources |-> {},
                                   flags |-> flags \cup {"-n"}]
      BY <3>5 DEF PullArgv
    <3> HIDE DEF root, flags
    <3>7. Drier(PullArgv(d, j.run)) = PullArgv(d, p.run)
      BY <3>6, DrierFlags
    <3> QED
      BY <3>4, <3>7
  <2> QED
    BY <2>2, <2>3, Kinds
<1> QED
  BY <1>1, CommandsInvariant, PTL

\* A retried preview stays a preview (routes/jobs.py, _queue), whatever the node
\* has become.
THEOREM RetriedPreviewsHold == Spec => []RetriedPreviewIsOne
<1>1. CommandsInv => RetriedPreviewIsOne
  BY QueuedJobs, DryRuns DEF RetriedPreviewIsOne, RetryOf
<1> QED
  BY <1>1, CommandsInvariant, PTL

\* In a world that has not changed, and that the index knows, a retry of anything
\* but an Adopt runs the same command (routes/jobs.py, retry_job and _queue).
THEOREM RetriesHold == Spec => []RetryRepeatsAPush
<1>1. CommandsInv => RetryRepeatsAPush
  <2> SUFFICES ASSUME CommandsInv, NEW j \in Queued, NEW old \in Queued, j.ask.of # 0,
                      old = jobs[j.ask.of], ~old.run.adopt,
                      j.ask.node = old.ask.node, j.ask.library = old.ask.library,
                      j.ask.indexed = j.ask.library \ Skipped, old.ask.indexed = j.ask.indexed
               PROVE  j.argv = old.argv
    BY QueuedJobs DEF RetryRepeatsAPush, Repeats
  <2> DEFINE d == old.ask.node
  <2>1. /\ Sourced(j) /\ Sourced(old) /\ RetryOf(j, old)
        /\ j.run \in Runs /\ old.run \in Runs /\ d \in Nodes
    BY QueuedJobs DEF Jobs, Asks
  <2>2. j.kind = old.kind /\ j.run.dry = old.run.dry /\ ~j.run.adopt
    BY <2>1 DEF RetryOf
  <2>3. j.run.adopt = old.run.adopt
    BY <2>1, <2>2 DEF Runs
  <2>4. CASE j.kind = "push"
    <3>1. j.argv = PushArgv(d, j.sources, j.run) /\ old.argv = PushArgv(d, old.sources, old.run)
      BY <2>2, <2>4, PushCommand
    <3>2. CASE IsMirror(d)
      <4>1. Prunes(d, j.run) <=> Prunes(d, old.run)
        BY <3>2 DEF Prunes
      <4> HIDE DEF d
      <4> QED
        BY <2>1, <2>2, <2>3, <3>1, <3>2, <4>1, SamePush
    <3>3. CASE ~IsMirror(d) /\ old.run.whole /\ d.fullSync
      <4>1. j.run.whole
        BY <2>1, <2>4, <3>3 DEF RetryOf
      <4>2. j.sources = old.sources
        BY <2>1, <2>2, <2>4, <3>3, <4>1 DEF Sourced
      <4>3. Prunes(d, j.run) <=> Prunes(d, old.run)
        BY <2>2, <3>3, <4>1 DEF Prunes
      <4> HIDE DEF d
      <4> QED
        BY <2>1, <2>2, <2>3, <3>1, <4>2, <4>3, SamePush
    <3>4. CASE ~IsMirror(d) /\ ~(old.run.whole /\ d.fullSync)
      <4>1. ~j.run.whole /\ j.sources = old.sources \cap (j.ask.indexed \cup {LibraryRoot})
        BY <2>1, <2>4, <3>4 DEF RetryOf
      <4>2. old.sources \subseteq j.ask.indexed \cup {LibraryRoot}
        BY <2>1, <2>2, <2>4, <3>4 DEF Sourced
      <4>3. j.sources = old.sources
        BY <4>1, <4>2
      <4>4. Prunes(d, j.run) <=> Prunes(d, old.run)
        BY <3>4, <4>1 DEF Prunes
      <4> HIDE DEF d
      <4> QED
        BY <2>1, <2>2, <2>3, <3>1, <4>3, <4>4, SamePush
    <3> QED
      BY <3>2, <3>3, <3>4
  <2>5. CASE j.kind = "pull"
    <3>1. j.argv = PullArgv(d, j.run) /\ old.argv = PullArgv(d, old.run)
      BY <2>2, <2>5, PullCommand
    <3> QED
      BY <2>2, <3>1 DEF PullArgv
  <2> QED
    BY <2>4, <2>5, Kinds
<1> QED
  BY <1>1, CommandsInvariant, PTL
-----------------------------------------------------------------------------
(* Sums over finite sets.  SumFunctionOnSet is, once unfolded, a function that  *)
(* is chosen to add up one set after another; what it comes to is shown by        *)
(* looking for a least set for which it does not.                                *)

\* Induction over the subsets of a finite set: what is not empty has a least member.
LEMMA LeastSubset ==
  ASSUME NEW F, IsFiniteSet(F), NEW Bad \in SUBSET SUBSET F, Bad # {}
  PROVE  \E s \in Bad : \A t \in Bad : ~(t \subseteq s /\ t # s)
<1>1. IsWellFoundedOn(StrictSubsetOrdering(F), FiniteSubsetsOf(F)) /\ FiniteSubsetsOf(F) = SUBSET F
  BY FS_StrictSubsetOrderingWellFounded, FS_FiniteSubsetsOfFinite
<1>2. \E s \in Bad : \A t \in Bad : ~ (<<t, s>> \in StrictSubsetOrdering(F))
  BY <1>1, WFMin
<1> QED
  BY <1>2 DEF StrictSubsetOrdering

\* A set of natural numbers has a least.
LEMMA LeastNat ==
  ASSUME NEW T \in SUBSET Nat, T # {}
  PROVE  \E n \in T : \A m \in T : n <= m
<1>1. PICK k \in T : TRUE
  OBVIOUS
<1> DEFINE F == 0..k
           Bad == {0..m : m \in {m \in T : m <= k}}
<1>2. IsFiniteSet(F)
  BY FS_Interval
<1>3. PICK s \in Bad : \A t \in Bad : ~(t \subseteq s /\ t # s)
  <2>1. Bad \in SUBSET SUBSET F
    OBVIOUS
  <2>2. 0..k \in Bad
    OBVIOUS
  <2> HIDE DEF Bad, F
  <2> QED
    BY <1>2, <2>1, <2>2, LeastSubset
<1>4. PICK n \in T : n <= k /\ s = 0..n
  BY <1>3
<1>5. ASSUME NEW m \in T, ~(n <= m) PROVE FALSE
  <2>1. 0..m \in Bad /\ 0..m \subseteq 0..n /\ 0..m # 0..n
    BY <1>4, <1>5
  <2> QED
    BY <1>3, <1>4, <2>1
<1> QED
  BY <1>5

First(s) == CHOOSE x \in s : TRUE
Adds(g, D, h) ==
  h = [s \in SUBSET D |-> IF s = {} THEN 0 ELSE g[First(s)] + h[s \ {First(s)}]]
Adder(g, D) == CHOOSE h : Adds(g, D, h)

\* A sum, unfolded.
LEMMA Unfold ==
  ASSUME NEW g, NEW S
  PROVE  SumFunctionOnSet(g, S) = Adder(g, S)[S]
BY DEF SumFunctionOnSet, FoldFunctionOnSet, MapThenFoldSet, Adder, Adds, First

\* The member that is added first is one.
LEMMA FirstIn == ASSUME NEW s, s # {} PROVE First(s) \in s
BY DEF First

\* Two that add agree where both do.
LEMMA AddersAgree ==
  ASSUME NEW D, IsFiniteSet(D), NEW E \in SUBSET D, NEW g, NEW h, NEW k,
         Adds(g, D, h), Adds(g, E, k)
  PROVE  \A s \in SUBSET E : h[s] = k[s]
<1> DEFINE Bad == {s \in SUBSET E : h[s] # k[s]}
<1> SUFFICES ASSUME Bad # {} PROVE FALSE
  OBVIOUS
<1>1. PICK s \in Bad : \A t \in Bad : ~(t \subseteq s /\ t # s)
  <2>1. Bad \in SUBSET SUBSET D
    OBVIOUS
  <2> HIDE DEF Bad
  <2> QED
    BY <2>1, LeastSubset
<1>2. h[s] = (IF s = {} THEN 0 ELSE g[First(s)] + h[s \ {First(s)}])
  BY DEF Adds
<1>3. k[s] = (IF s = {} THEN 0 ELSE g[First(s)] + k[s \ {First(s)}])
  BY DEF Adds
<1>4. s # {}
  BY <1>2, <1>3
<1>5. /\ s \ {First(s)} \subseteq s /\ s \ {First(s)} # s /\ s \ {First(s)} \in SUBSET E
  BY <1>4, FirstIn
<1>6. h[s \ {First(s)}] = k[s \ {First(s)}]
  BY <1>1, <1>5
<1> QED
  BY <1>2, <1>3, <1>6

\* There is one.
LEMMA AdderExists ==
  ASSUME NEW D, IsFiniteSet(D), NEW g
  PROVE  \A s \in SUBSET D : Adds(g, s, Adder(g, s))
<1> DEFINE Bad == {s \in SUBSET D : ~Adds(g, s, Adder(g, s))}
<1> SUFFICES ASSUME Bad # {} PROVE FALSE
  OBVIOUS
<1>1. PICK s \in Bad : \A t \in Bad : ~(t \subseteq s /\ t # s)
  <2>1. Bad \in SUBSET SUBSET D
    OBVIOUS
  <2> HIDE DEF Bad
  <2> QED
    BY <2>1, LeastSubset
<1>2. \A t \in SUBSET s : t # s => Adds(g, t, Adder(g, t))
  BY <1>1
<1> DEFINE rest(u) == u \ {First(u)}
           h == [u \in SUBSET s |->
                  IF u = {} THEN 0 ELSE g[First(u)] + Adder(g, rest(u))[rest(u)]]
<1>3. ASSUME NEW u \in SUBSET s, u # {} PROVE h[rest(u)] = Adder(g, rest(u))[rest(u)]
  <2> DEFINE v == rest(u)
  <2>1. v \in SUBSET s /\ v # s
    BY <1>3, FirstIn
  <2>2. Adds(g, v, Adder(g, v))
    BY <1>2, <2>1
  <2>3. CASE v = {}
    <3>1. Adder(g, v)[v] = 0
      BY <2>2, <2>3 DEF Adds
    <3> QED
      BY <2>1, <2>3, <3>1
  <2>4. CASE v # {}
    <3>1. /\ rest(v) \in SUBSET v /\ rest(v) \in SUBSET s /\ rest(v) # s
      BY <2>1, <2>4, FirstIn
    <3>2. Adds(g, rest(v), Adder(g, rest(v)))
      BY <1>2, <3>1
    <3>3. IsFiniteSet(v)
      BY <2>1, FS_Subset
    <3>4. Adder(g, v)[rest(v)] = Adder(g, rest(v))[rest(v)]
      BY <2>2, <3>1, <3>2, <3>3, AddersAgree
    <3>5. Adder(g, v)[v] = g[First(v)] + Adder(g, v)[rest(v)]
      BY <2>2, <2>4 DEF Adds
    <3>6. h[v] = g[First(v)] + Adder(g, rest(v))[rest(v)]
      BY <2>1, <2>4
    <3> QED
      BY <3>4, <3>5, <3>6
  <2> QED
    BY <2>3, <2>4
<1>4. Adds(g, s, h)
  BY <1>3 DEF Adds
<1>5. Adds(g, s, Adder(g, s))
  BY <1>4 DEF Adder
<1> QED
  BY <1>1, <1>5

\* So a sum is its first member's value and the rest.
LEMMA SumStep ==
  ASSUME NEW S, IsFiniteSet(S), NEW g
  PROVE  /\ S = {} => SumFunctionOnSet(g, S) = 0
         /\ S # {} => SumFunctionOnSet(g, S) =
                        g[First(S)] + SumFunctionOnSet(g, S \ {First(S)})
<1>1. Adds(g, S, Adder(g, S)) /\ Adds(g, S \ {First(S)}, Adder(g, S \ {First(S)}))
  BY AdderExists
<1>2. Adder(g, S)[S \ {First(S)}] = Adder(g, S \ {First(S)})[S \ {First(S)}]
  BY <1>1, AddersAgree
<1>3. Adder(g, S)[S] = IF S = {} THEN 0 ELSE g[First(S)] + Adder(g, S)[S \ {First(S)}]
  BY <1>1 DEF Adds
<1> QED
  BY <1>2, <1>3, Unfold

\* A total does not depend on the order, and is a natural number.
LEMMA SumTakesAny ==
  ASSUME NEW F, IsFiniteSet(F), NEW g, \A x \in F : g[x] \in Nat
  PROVE  \A S \in SUBSET F :
           /\ SumFunctionOnSet(g, S) \in Nat
           /\ \A x \in S : SumFunctionOnSet(g, S) = g[x] + SumFunctionOnSet(g, S \ {x})
<1> DEFINE Sum(S) == SumFunctionOnSet(g, S)
           OK(S) == Sum(S) \in Nat /\ \A x \in S : Sum(S) = g[x] + Sum(S \ {x})
           Bad == {S \in SUBSET F : ~OK(S)}
<1> SUFFICES ASSUME Bad # {} PROVE FALSE
  OBVIOUS
<1>1. PICK S \in Bad : \A t \in Bad : ~(t \subseteq S /\ t # S)
  <2>1. Bad \in SUBSET SUBSET F
    OBVIOUS
  <2> HIDE DEF Bad
  <2> QED
    BY <2>1, LeastSubset
<1>2. S \in SUBSET F /\ ~OK(S)
  BY <1>1
<1>3. \A T \in SUBSET S : T # S => OK(T)
  BY <1>1
<1>4. \A T \in SUBSET F : /\ T = {} => Sum(T) = 0
                          /\ T # {} => Sum(T) = g[First(T)] + Sum(T \ {First(T)})
  BY SumStep, FS_Subset
<1>5. S # {}
  <2> SUFFICES ASSUME S = {} PROVE FALSE
    OBVIOUS
  <2>1. Sum(S) = 0
    BY <1>2, <1>4
  <2> QED
    BY <1>2, <2>1
<1> DEFINE p == First(S)
<1>6. p \in S /\ Sum(S) = g[p] + Sum(S \ {p})
  BY <1>2, <1>4, <1>5, FirstIn
<1> HIDE DEF p
<1>7. OK(S \ {p})
  BY <1>3, <1>6
<1>8. Sum(S) \in Nat
  BY <1>2, <1>6, <1>7
<1>9. ASSUME NEW x \in S PROVE Sum(S) = g[x] + Sum(S \ {x})
  <2>1. CASE x = p
    BY <1>6, <2>1
  <2>2. CASE x # p
    <3>1. Sum(S \ {p}) = g[x] + Sum((S \ {p}) \ {x})
      BY <1>7, <2>2
    <3>2. OK(S \ {x}) /\ p \in S \ {x}
      BY <1>3, <1>6, <2>2
    <3>3. Sum(S \ {x}) = g[p] + Sum((S \ {x}) \ {p})
      BY <3>2
    <3>4. (S \ {x}) \ {p} = (S \ {p}) \ {x}
      OBVIOUS
    <3>5. OK((S \ {p}) \ {x})
      BY <1>3, <1>6
    <3>6. g[p] \in Nat /\ g[x] \in Nat
      BY <1>2, <1>6
    <3> QED
      BY <1>6, <3>1, <3>3, <3>4, <3>5, <3>6
  <2> QED
    BY <2>1, <2>2
<1> QED
  BY <1>2, <1>8, <1>9

\* What does not meet is added.
LEMMA SumSplits ==
  ASSUME NEW F, IsFiniteSet(F), NEW g, \A x \in F : g[x] \in Nat, NEW B \in SUBSET F
  PROVE  \A A \in SUBSET F : A \cap B = {} =>
           SumFunctionOnSet(g, A \cup B) = SumFunctionOnSet(g, A) + SumFunctionOnSet(g, B)
<1> DEFINE Sum(S) == SumFunctionOnSet(g, S)
           Bad == {A \in SUBSET F : A \cap B = {} /\ Sum(A \cup B) # Sum(A) + Sum(B)}
<1> SUFFICES ASSUME Bad # {} PROVE FALSE
  OBVIOUS
<1>1. PICK A \in Bad : \A t \in Bad : ~(t \subseteq A /\ t # A)
  <2>1. Bad \in SUBSET SUBSET F
    OBVIOUS
  <2> HIDE DEF Bad
  <2> QED
    BY <2>1, LeastSubset
<1>2. A \in SUBSET F /\ A \cap B = {} /\ Sum(A \cup B) # Sum(A) + Sum(B)
  BY <1>1
<1>3. \A S \in SUBSET F : Sum(S) \in Nat /\ \A x \in S : Sum(S) = g[x] + Sum(S \ {x})
  BY SumTakesAny
<1>4. Sum({}) = 0
  BY SumStep, FS_EmptySet
<1>5. CASE A = {}
  <2>1. A \cup B = B
    BY <1>5
  <2> QED
    BY <1>2, <1>3, <1>4, <1>5, <2>1
<1>6. ASSUME NEW x \in A PROVE FALSE
  <2>1. Sum((A \ {x}) \cup B) = Sum(A \ {x}) + Sum(B)
    <3>1. A \ {x} \notin Bad
      BY <1>1
    <3> QED
      BY <1>2, <3>1
  <2>2. Sum(A) = g[x] + Sum(A \ {x})
    BY <1>2, <1>3
  <2>3. Sum(A \cup B) = g[x] + Sum((A \cup B) \ {x})
    <3>1. A \cup B \in SUBSET F /\ x \in A \cup B
      BY <1>2
    <3> QED
      BY <1>3, <3>1
  <2>4. (A \cup B) \ {x} = (A \ {x}) \cup B
    BY <1>2
  <2>5. g[x] \in Nat /\ Sum(B) \in Nat /\ Sum(A \ {x}) \in Nat
    BY <1>2, <1>3
  <2> QED
    BY <1>2, <2>1, <2>2, <2>3, <2>4, <2>5
<1> QED
  BY <1>5, <1>6

\* The total of a union of sets that do not meet is the total of their totals.
LEMMA SumOfParts ==
  ASSUME NEW F, IsFiniteSet(F), NEW g, \A x \in F : g[x] \in Nat,
         NEW R, IsFiniteSet(R), NEW U \in [R -> SUBSET F],
         \A p, q \in R : p # q => U[p] \cap U[q] = {},
         NEW h, \A r \in R : h[r] = SumFunctionOnSet(g, U[r])
  PROVE  \A S \in SUBSET R :
           SumFunctionOnSet(h, S) = SumFunctionOnSet(g, UNION {U[r] : r \in S})
<1> DEFINE All(S) == UNION {U[r] : r \in S}
           Bad == {S \in SUBSET R : SumFunctionOnSet(h, S) # SumFunctionOnSet(g, All(S))}
<1> SUFFICES ASSUME Bad # {} PROVE FALSE
  OBVIOUS
<1>1. PICK S \in Bad : \A t \in Bad : ~(t \subseteq S /\ t # S)
  <2>1. Bad \in SUBSET SUBSET R
    OBVIOUS
  <2> HIDE DEF Bad
  <2> QED
    BY <2>1, LeastSubset
<1>2. S \in SUBSET R /\ SumFunctionOnSet(h, S) # SumFunctionOnSet(g, All(S))
  BY <1>1
<1>3. \A r \in R : h[r] \in Nat
  BY SumTakesAny
<1>4. CASE S = {}
  <2>1. All(S) = {}
    BY <1>4
  <2> QED
    BY <1>2, <1>4, <2>1, SumStep, FS_EmptySet
<1>5. ASSUME NEW x \in S PROVE FALSE
  <2> DEFINE T == S \ {x}
  <2>1. SumFunctionOnSet(h, S) = h[x] + SumFunctionOnSet(h, T)
    BY <1>2, <1>3, SumTakesAny
  <2>2. SumFunctionOnSet(h, T) = SumFunctionOnSet(g, All(T))
    <3>1. T \notin Bad
      BY <1>1
    <3> QED
      BY <1>2, <3>1
  <2>3. x \in R /\ U[x] \in SUBSET F /\ All(T) \in SUBSET F
    BY <1>2
  <2>4. U[x] \cap All(T) = {}
    BY <1>2
  <2>5. SumFunctionOnSet(g, U[x] \cup All(T)) =
          SumFunctionOnSet(g, U[x]) + SumFunctionOnSet(g, All(T))
    <3> HIDE DEF All, T
    <3> QED
      BY <2>3, <2>4, SumSplits
  <2>6. U[x] \cup All(T) = All(S)
    BY <1>2
  <2> QED
    BY <1>2, <2>1, <2>2, <2>3, <2>5, <2>6
<1> QED
  BY <1>4, <1>5

-----------------------------------------------------------------------------
(* The paths of the library.                                                 *)

Paths == {Root} \cup Entries

\* The root is the empty path.
LEMMA RootPath == Root \in Seq(STRING) /\ Len(Root) = 0
BY DEF Root

\* Paths are sequences of names, and entries have one or more.
LEMMA PathTypes ==
  /\ \A e \in Paths : e \in Seq(STRING)
  /\ \A e \in Entries : Len(e) \in Nat \ {0} /\ Front(e) \in Dirs \cup {Root}
<1>1. \A e \in Entries : e \in Seq(STRING) /\ Len(e) > 0 /\ Front(e) \in Dirs \cup {Root}
  BY CoverageConstantsOK
<1>2. \A e \in Paths : e \in Seq(STRING)
  BY <1>1, RootPath DEF Paths
<1>3. \A e \in Entries : Len(e) \in Nat \ {0}
  BY <1>1
<1> QED
  BY <1>1, <1>2, <1>3

\* The first n names of a path.
LEMMA Cuts ==
  ASSUME NEW a \in Seq(STRING), NEW n \in 0..Len(a)
  PROVE  /\ SubSeq(a, 1, n) \in Seq(STRING) /\ Len(SubSeq(a, 1, n)) = n
         /\ \A i \in 1..n : SubSeq(a, 1, n)[i] = a[i]
<1>1. SubSeq(a, 1, n) \in Seq(STRING)
  OBVIOUS
<1>2. Len(SubSeq(a, 1, n)) = n
  OBVIOUS
<1>3. \A i \in 1..n : SubSeq(a, 1, n)[i] = a[i]
  OBVIOUS
<1> QED
  BY <1>1, <1>2, <1>3

\* Paths of the same names are the same.
LEMMA SameSeq ==
  ASSUME NEW a \in Seq(STRING), NEW b \in Seq(STRING), Len(a) = Len(b),
         \A i \in 1..Len(a) : a[i] = b[i]
  PROVE  a = b
OBVIOUS

\* The beginning of a beginning.
LEMMA CutsCut ==
  ASSUME NEW a \in Seq(STRING), NEW n \in 0..Len(a), NEW m \in 0..n
  PROVE  SubSeq(SubSeq(a, 1, n), 1, m) = SubSeq(a, 1, m)
<1> DEFINE b == SubSeq(a, 1, n) 
           c == SubSeq(b, 1, m)
           d == SubSeq(a, 1, m)
<1>1. b \in Seq(STRING) /\ Len(b) = n /\ \A i \in 1..n : b[i] = a[i]
  BY Cuts
<1>2. m \in 0..Len(a)
  OBVIOUS
<1>3. d \in Seq(STRING) /\ Len(d) = m /\ \A i \in 1..m : d[i] = a[i]
  BY <1>2, Cuts
<1> HIDE DEF b, d
<1>4. c \in Seq(STRING) /\ Len(c) = m /\ \A i \in 1..m : c[i] = b[i]
  BY <1>1, Cuts
<1> HIDE DEF c
<1>5. \A i \in 1..m : c[i] = d[i]
  BY <1>1, <1>3, <1>4
<1>6. c = d
  BY <1>3, <1>4, <1>5, SameSeq
<1> QED
  BY <1>6 DEF b, c, d

\* A path begins with all of itself.
LEMMA Whole == ASSUME NEW a \in Seq(STRING) PROVE SubSeq(a, 1, Len(a)) = a
<1>1. Len(a) \in 0..Len(a)
  OBVIOUS
<1> QED
  BY <1>1, Cuts, SameSeq

\* A path begins with another where both name the same up to the other's length.
LEMMA BeginsWith ==
  ASSUME NEW a \in Seq(STRING), NEW b \in Seq(STRING)
  PROVE  Within(b, a) <=> (Len(a) <= Len(b) /\ a = SubSeq(b, 1, Len(a)))
<1>1. SubSeq(a, 1, Len(a)) = a
  BY Whole
<1>2. Within(b, a) <=> IsPrefix(a, b)
  BY DEF Within
<1>3. IsPrefix(a, b) <=> (Len(a) <= Len(b) /\ SubSeq(a, 1, Len(a)) = SubSeq(b, 1, Len(a)))
  BY DEF IsPrefix
<1> QED
  BY <1>1, <1>2, <1>3

\* What a path begins with is a directory.
LEMMA AboveIsDir ==
  ASSUME NEW e \in Entries, NEW n \in 1..(Len(e) - 1)
  PROVE  SubSeq(e, 1, n) \in Dirs
<1>1. e \in Seq(STRING) /\ Len(e) \in Nat
  BY PathTypes DEF Paths
<1> DEFINE Up(k) == SubSeq(e, 1, Len(e) - k)
           T == {k \in 1..(Len(e) - 1) : Up(k) \notin Dirs}
<1>2. T = {}
  <2> SUFFICES ASSUME T # {} PROVE FALSE
    OBVIOUS
  <2>1. PICK k \in T : \A m \in T : k <= m
    <3>1. T \in SUBSET Nat
      OBVIOUS
    <3> HIDE DEF T
    <3> QED
      BY <3>1, LeastNat
  <2>2. k \in 1..(Len(e) - 1) /\ Up(k) \notin Dirs
    OBVIOUS
  <2> DEFINE d == SubSeq(e, 1, Len(e) - (k - 1))
  <2>3. d \in Entries
    <3>1. CASE k = 1
      <4>1. Len(e) - (k - 1) = Len(e)
        BY <1>1, <3>1
      <4>2. d = e
        BY <1>1, <4>1, Whole
      <4> QED
        BY <4>2
    <3>2. CASE k # 1
      <4>1. k - 1 \in 1..(Len(e) - 1) /\ ~(k <= k - 1)
        BY <1>1, <2>2, <3>2
      <4>2. Up(k - 1) \in Dirs
        BY <2>1, <4>1
      <4> QED
        BY <4>2 DEF Entries
    <3> QED
      BY <3>1, <3>2
  <2>4. Len(d) = Len(e) - k + 1 /\ Front(d) = SubSeq(e, 1, Len(e) - k) /\ Len(Front(d)) # 0
    <3>1. Len(e) - (k - 1) \in 0..Len(e) /\ Len(e) - k \in 0..(Len(e) - (k - 1))
          /\ Len(e) - (k - 1) - 1 = Len(e) - k /\ Len(e) - k \in 0..Len(e) /\ Len(e) - k # 0
      BY <1>1, <2>2
    <3>2. Len(d) = Len(e) - (k - 1)
      BY <1>1, <3>1, Cuts
    <3>3. SubSeq(d, 1, Len(e) - k) = SubSeq(e, 1, Len(e) - k)
      BY <1>1, <3>1, CutsCut
    <3>4. Front(d) = SubSeq(e, 1, Len(e) - k)
      BY <3>1, <3>2, <3>3 DEF Front
    <3>5. Len(SubSeq(e, 1, Len(e) - k)) = Len(e) - k
      BY <1>1, <3>1, Cuts
    <3>6. Len(e) - (k - 1) = Len(e) - k + 1
      BY <1>1, <2>2
    <3>7. Len(d) = Len(e) - k + 1
      BY <3>2, <3>6
    <3>8. Len(Front(d)) # 0
      BY <3>1, <3>4, <3>5
    <3> QED
      BY <3>4, <3>7, <3>8
  <2>5. Front(d) \in Dirs \cup {Root} /\ Front(d) # Root
    BY <2>3, <2>4, PathTypes, RootPath
  <2> QED
    BY <2>2, <2>4, <2>5
<1>3. Len(e) - n \in 1..(Len(e) - 1) /\ Len(e) - (Len(e) - n) = n
  BY <1>1
<1> QED
  BY <1>2, <1>3

RootsAt(idx) == {e \in Dirs \cup idx : e \in matched /\ ~OutDir(Front(e))}

\* Front leaves out the last name.
LEMMA FrontIsCut ==
  ASSUME NEW e \in Seq(STRING), Len(e) \in Nat \ {0}
  PROVE  /\ Front(e) = SubSeq(e, 1, Len(e) - 1) /\ Front(e) \in Seq(STRING)
         /\ Len(Front(e)) = Len(e) - 1
<1>1. Len(e) - 1 \in 0..Len(e)
  OBVIOUS
<1> QED
  BY <1>1, Cuts DEF Front

\* Within is a partial order, and what two paths both lie above puts them in line.
LEMMA WithinTrans ==
  ASSUME NEW a \in Seq(STRING), NEW b \in Seq(STRING), NEW c \in Seq(STRING),
         Within(a, b), Within(b, c)
  PROVE  Within(a, c)
<1>1. /\ Len(b) <= Len(a) /\ b = SubSeq(a, 1, Len(b))
      /\ Len(c) <= Len(b) /\ c = SubSeq(b, 1, Len(c))
  BY BeginsWith
<1>2. Len(a) \in Nat /\ Len(b) \in Nat /\ Len(c) \in Nat
  OBVIOUS
<1>3. Len(b) \in 0..Len(a) /\ Len(c) \in 0..Len(b) /\ Len(c) <= Len(a)
  BY <1>1, <1>2
<1>4. SubSeq(SubSeq(a, 1, Len(b)), 1, Len(c)) = SubSeq(a, 1, Len(c))
  BY <1>3, CutsCut
<1> QED
  BY <1>1, <1>3, <1>4, BeginsWith

\* Of two paths above a third, the shorter is above the longer.
LEMMA InLine ==
  ASSUME NEW f \in Seq(STRING), NEW a \in Seq(STRING), NEW b \in Seq(STRING),
         Within(f, a), Within(f, b), Len(a) <= Len(b)
  PROVE  Within(b, a)
<1>1. /\ Len(a) <= Len(f) /\ a = SubSeq(f, 1, Len(a))
      /\ Len(b) <= Len(f) /\ b = SubSeq(f, 1, Len(b))
  BY BeginsWith
<1>2. Len(a) \in Nat /\ Len(b) \in Nat /\ Len(f) \in Nat
  OBVIOUS
<1>3. Len(b) \in 0..Len(f) /\ Len(a) \in 0..Len(b)
  BY <1>1, <1>2
<1>4. SubSeq(SubSeq(f, 1, Len(b)), 1, Len(a)) = SubSeq(f, 1, Len(a))
  BY <1>3, CutsCut
<1> QED
  BY <1>1, <1>4, BeginsWith

\* What lies within a directory other than itself lies within one of its children.
LEMMA AboveFront ==
  ASSUME NEW c \in Seq(STRING), Len(c) \in Nat \ {0}, NEW r \in Seq(STRING), Within(c, r)
  PROVE  r = c \/ Within(Front(c), r)
<1>1. Len(r) <= Len(c) /\ r = SubSeq(c, 1, Len(r)) /\ Len(r) \in Nat
  BY BeginsWith
<1>2. CASE Len(r) = Len(c)
  BY <1>1, <1>2, Whole
<1>3. CASE Len(r) # Len(c)
  <2>1. Len(c) - 1 \in 0..Len(c) /\ Len(r) \in 0..(Len(c) - 1)
    BY <1>1, <1>3
  <2>2. SubSeq(SubSeq(c, 1, Len(c) - 1), 1, Len(r)) = SubSeq(c, 1, Len(r))
    BY <2>1, CutsCut
  <2>3. Len(r) <= Len(Front(c))
    BY <2>1, FrontIsCut
  <2> QED
    BY <1>1, <2>2, <2>3, FrontIsCut, BeginsWith
<1> QED
  BY <1>2, <1>3

\* A path lies within its parent.
LEMMA WithinFront ==
  ASSUME NEW c \in Seq(STRING), Len(c) \in Nat \ {0}
  PROVE  Within(c, Front(c))
<1>1. Len(Front(c)) <= Len(c)
  BY FrontIsCut
<1> QED
  BY <1>1, FrontIsCut, BeginsWith

-----------------------------------------------------------------------------
(* The entries that are held back (excluded_roots): the roots.                *)

\* A root is an entry that matches, and nothing above it does.
LEMMA RootPaths ==
  ASSUME NEW idx \in SUBSET Files, NEW p \in RootsAt(idx)
  PROVE  /\ p \in Entries /\ p \in Seq(STRING) /\ Len(p) \in Nat \ {0}
         /\ p \in matched /\ ~OutDir(Front(p))
<1>1. p \in Entries /\ p \in matched /\ ~OutDir(Front(p))
  BY DEF RootsAt, Entries
<1> QED
  BY <1>1, PathTypes DEF Paths

\* A file that matches, or has a directory above it that does, lies within a root: the
\* highest of them.
LEMMA RootAbove ==
  ASSUME NEW idx \in SUBSET Files, NEW f \in idx, OutDir(f)
  PROVE  \E p \in RootsAt(idx) : Within(f, p)
<1>1. f \in Entries /\ f \in Seq(STRING) /\ Len(f) \in Nat
  BY PathTypes DEF Entries, Paths
<1> DEFINE T == {n \in 1..Len(f) : SubSeq(f, 1, n) \in matched}
<1>2. PICK n \in T : \A m \in T : n <= m
  <2>1. T \in SUBSET Nat /\ T # {}
    BY <1>1 DEF OutDir
  <2> HIDE DEF T
  <2> QED
    BY <2>1, LeastNat
<1> DEFINE p == SubSeq(f, 1, n)
<1>3. n \in 1..Len(f) /\ p \in matched
  OBVIOUS
<1>4. n \in 0..Len(f) /\ n - 1 \in 0..n /\ n \in Nat \ {0}
  BY <1>1, <1>3
<1>5. p \in Seq(STRING) /\ Len(p) = n
  BY <1>1, <1>4, Cuts
<1>6. Within(f, p)
  <2>1. Len(p) <= Len(f) /\ p = SubSeq(f, 1, Len(p))
    BY <1>1, <1>3, <1>5
  <2> QED
    BY <1>1, <1>5, <2>1, BeginsWith
<1>7. p \in Dirs \cup idx
  <2>1. CASE n = Len(f)
    BY <1>1, <2>1, Whole
  <2>2. CASE n # Len(f)
    <3>1. n \in 1..(Len(f) - 1)
      BY <1>1, <1>3, <2>2
    <3> QED
      BY <1>1, <3>1, AboveIsDir
  <2> QED
    BY <2>1, <2>2
<1>8. ~OutDir(Front(p))
  <2>1. Front(p) = SubSeq(f, 1, n - 1) /\ Len(Front(p)) = n - 1
    <3>1. Front(p) = SubSeq(p, 1, n - 1) /\ Len(Front(p)) = n - 1
      BY <1>4, <1>5, FrontIsCut
    <3>2. SubSeq(p, 1, n - 1) = SubSeq(f, 1, n - 1)
      BY <1>1, <1>4, CutsCut
    <3> QED
      BY <3>1, <3>2
  <2>2. ASSUME NEW m \in 1..(n - 1) PROVE SubSeq(Front(p), 1, m) \notin matched
    <3>1. n - 1 \in 0..Len(f) /\ m \in 0..(n - 1) /\ m \in 1..Len(f) /\ ~(n <= m)
      BY <1>1, <1>3, <1>4
    <3>2. SubSeq(Front(p), 1, m) = SubSeq(f, 1, m)
      BY <1>1, <2>1, <3>1, CutsCut
    <3>3. m \notin T
      BY <1>2, <3>1
    <3> QED
      BY <3>1, <3>2, <3>3
  <2> HIDE DEF p
  <2> QED
    BY <2>1, <2>2 DEF OutDir
<1> HIDE DEF p
<1> QED
  BY <1>3, <1>6, <1>7, <1>8 DEF RootsAt

\* What lies within a root is held back.
LEMMA BelowRoot ==
  ASSUME NEW p \in Seq(STRING), Len(p) \in Nat \ {0}, p \in matched,
         NEW f \in Seq(STRING), Within(f, p)
  PROVE  OutDir(f)
<1>1. Len(p) <= Len(f) /\ p = SubSeq(f, 1, Len(p)) /\ Len(f) \in Nat
  BY BeginsWith
<1>2. Len(p) \in 1..Len(f)
  BY <1>1
<1> QED
  BY <1>1, <1>2 DEF OutDir

\* No root lies within another, so that no file lies within two.
LEMMA RootsApart ==
  ASSUME NEW idx \in SUBSET Files, NEW p \in RootsAt(idx), NEW q \in RootsAt(idx),
         Within(q, p)
  PROVE  p = q
<1>1. ~Within(Front(q), p)
  BY RootPaths, FrontIsCut, BelowRoot
<1> QED
  BY <1>1, RootPaths, AboveFront

\* No path lies within two roots.
LEMMA OneRoot ==
  ASSUME NEW idx \in SUBSET Files, NEW p \in RootsAt(idx), NEW q \in RootsAt(idx),
         NEW f \in Seq(STRING), Within(f, p), Within(f, q)
  PROVE  p = q
<1>1. p \in Seq(STRING) /\ q \in Seq(STRING)
  BY RootPaths
<1>2. Len(p) <= Len(q) \/ Len(q) <= Len(p)
  BY <1>1
<1>3. Within(q, p) \/ Within(p, q)
  BY <1>1, <1>2, InLine
<1> QED
  BY <1>3, RootsApart

-----------------------------------------------------------------------------
(* What a map counts.                                                        *)

\* The files are finitely many, and each stands for a book or more.
LEMMA FilesFinite ==
  /\ IsFiniteSet(Files) /\ IsFiniteSet(Dirs)
  /\ \A f \in Files : Weight[f] \in Nat \ {0} /\ f \in Paths /\ f \in Seq(STRING)
<1>1. Files \subseteq Entries /\ Dirs \subseteq Entries
  BY DEF Entries
<1>2. IsFiniteSet(Files) /\ IsFiniteSet(Dirs)
  BY <1>1, CoverageConstantsOK, FS_Subset
<1>3. \A f \in Files : Weight[f] \in Nat \ {0}
  BY CoverageConstantsOK
<1> QED
  BY <1>1, <1>2, <1>3, PathTypes DEF Paths

\* The records of the roots are told apart by their paths.
LEMMA RootRecords ==
  ASSUME NEW idx \in SUBSET Files
  PROVE  /\ \A p \in RootsAt(idx) : \E r \in ExcludedRoots(idx) : r.path = p
         /\ \A r \in ExcludedRoots(idx) :
              r.path \in RootsAt(idx) /\ r.files = Books(Under(r.path) \cap idx)
         /\ \A r, q \in ExcludedRoots(idx) : r # q => r.path # q.path
         /\ IsFiniteSet(ExcludedRoots(idx))
<1> DEFINE rec(p) == [path |-> p, files |-> Books(Under(p) \cap idx)]
           P == RootsAt(idx)
<1>1. ExcludedRoots(idx) = {rec(p) : p \in P}
  BY DEF ExcludedRoots, RootsAt
<1>2. IsFiniteSet(P)
  <2>1. IsFiniteSet(Dirs \cup idx)
    BY FilesFinite, FS_Subset, FS_Union
  <2>2. P \subseteq Dirs \cup idx
    BY DEF RootsAt
  <2> QED
    BY <2>1, <2>2, FS_Subset
<1>3. IsFiniteSet({rec(p) : p \in P})
  <2> DEFINE f == [p \in P |-> rec(p)]
  <2>1. f \in Surjection(P, {rec(p) : p \in P})
    BY DEF Surjection
  <2> HIDE DEF P, rec, f
  <2> QED
    BY <1>2, <2>1, FS_Surjection
<1>4. \A p \in P : rec(p).path = p /\ rec(p).files = Books(Under(p) \cap idx)
  OBVIOUS
<1>5. \A r \in ExcludedRoots(idx) : r.path \in P /\ r.files = Books(Under(r.path) \cap idx) /\ r = rec(r.path)
  <2> SUFFICES ASSUME NEW r \in ExcludedRoots(idx)
               PROVE  r.path \in P /\ r.files = Books(Under(r.path) \cap idx) /\ r = rec(r.path)
    OBVIOUS
  <2>1. PICK p \in P : r = rec(p)
    BY <1>1
  <2>2. r.path = p /\ r.files = Books(Under(p) \cap idx)
    BY <1>4, <2>1
  <2> HIDE DEF rec, P
  <2> QED
    BY <2>1, <2>2
<1>6. \A p \in P : \E r \in ExcludedRoots(idx) : r.path = p
  <2> HIDE DEF P
  <2> QED
    BY <1>1, <1>4
<1> HIDE DEF rec
<1>7. \A r, q \in ExcludedRoots(idx) : r # q => r.path # q.path
  BY <1>5
<1> QED
  BY <1>1, <1>3, <1>5, <1>6, <1>7

\* What is looked at of the roots is enough for the path that is opened and for its children.
Looked(e, m) == m \in Paths /\ e \in Paths /\ (e = m \/ (e \in Entries /\ Front(e) = m))

\* A root above or below one of these touches the path that was opened.
LEMMA TouchingIsEnough ==
  ASSUME NEW e, NEW m, Looked(e, m), NEW p \in Seq(STRING), Within(e, p) \/ Within(p, e)
  PROVE  Within(p, m) \/ Within(m, p)
<1>1. e \in Seq(STRING) /\ m \in Seq(STRING)
  BY PathTypes DEF Looked
<1>2. CASE e = m
  BY <1>2
<1>3. CASE e \in Entries /\ Front(e) = m
  <2>1. Len(e) \in Nat \ {0}
    BY <1>3, PathTypes
  <2>2. Within(e, m)
    BY <1>1, <1>3, <2>1, WithinFront
  <2>3. CASE Within(p, e)
    BY <1>1, <2>2, <2>3, WithinTrans
  <2>4. CASE Within(e, p)
    <3>1. p = e \/ Within(m, p)
      BY <1>1, <1>3, <2>1, <2>4, AboveFront
    <3> QED
      BY <2>2, <3>1
  <2> QED
    BY <2>3, <2>4
<1> QED
  BY <1>2, <1>3 DEF Looked

\* Below a path that no root contains, the roots hold between them what is out, and no
\* file twice.
LEMMA Parts ==
  ASSUME NEW idx \in SUBSET Files, NEW X \in SUBSET idx, NEW e, NEW m, Looked(e, m),
         NEW roots, roots = Touching(m, ExcludedRoots(idx))
  PROVE  /\ (\E r \in roots : Within(e, r.path)) => \A f \in Under(e) \cap X : OutDir(f)
         /\ ~(\E r \in roots : Within(e, r.path)) =>
              UNION {Under(r.path) \cap X : r \in {r \in roots : Within(r.path, e)}} =
                {f \in Under(e) \cap X : OutDir(f)}
         /\ \A r, q \in roots : r # q => (Under(r.path) \cap X) \cap (Under(q.path) \cap X) = {}
         /\ IsFiniteSet(roots)
<1>1. /\ roots \subseteq ExcludedRoots(idx)
      /\ \A r \in ExcludedRoots(idx) :
           Within(r.path, m) \/ Within(m, r.path) => r \in roots
  BY DEF Touching
<1>2. IsFiniteSet(roots)
  BY <1>1, RootRecords, FS_Subset
<1>3. e \in Seq(STRING) /\ m \in Seq(STRING)
  BY PathTypes DEF Looked
<1>4. \A f \in X : f \in Files /\ f \in idx /\ f \in Seq(STRING)
  BY FilesFinite
<1>5. \A r \in roots : /\ r.path \in RootsAt(idx) /\ r.path \in Seq(STRING)
                       /\ Len(r.path) \in Nat \ {0} /\ r.path \in matched
  BY <1>1, RootRecords, RootPaths
<1>6. ASSUME NEW r \in roots, NEW f \in Under(r.path) \cap X PROVE OutDir(f)
  BY <1>4, <1>5, BelowRoot DEF Under
<1>7. ASSUME NEW r \in roots, Within(e, r.path), NEW f \in Under(e) \cap X PROVE OutDir(f)
  <2>1. Within(f, r.path)
    BY <1>3, <1>4, <1>5, <1>7, WithinTrans DEF Under
  <2> QED
    BY <1>4, <1>6, <2>1 DEF Under
<1>8. ASSUME NEW r \in roots, Within(r.path, e), NEW f \in Under(r.path) \cap X
      PROVE  f \in Under(e) \cap X
  BY <1>3, <1>4, <1>5, <1>8, WithinTrans DEF Under
<1>9. ASSUME ~(\E r \in roots : Within(e, r.path)), NEW f \in Under(e) \cap X, OutDir(f)
      PROVE  \E r \in roots : Within(r.path, e) /\ f \in Under(r.path)
  <2>1. PICK p \in RootsAt(idx) : Within(f, p)
    BY <1>4, <1>9, RootAbove
  <2>2. p \in Seq(STRING)
    BY RootPaths
  <2>3. Within(f, e) /\ f \in Seq(STRING)
    BY <1>4 DEF Under
  <2>4. Within(e, p) \/ Within(p, e)
    <3>1. Len(e) <= Len(p) \/ Len(p) <= Len(e)
      BY <1>3, <2>2
    <3> QED
      BY <1>3, <2>1, <2>2, <2>3, <3>1, InLine
  <2>5. PICK r \in ExcludedRoots(idx) : r.path = p
    BY RootRecords
  <2>6. r \in roots
    BY <1>1, <2>2, <2>4, <2>5, TouchingIsEnough
  <2> QED
    BY <1>4, <1>9, <2>1, <2>4, <2>5, <2>6 DEF Under
<1>10. ASSUME NEW r \in roots, NEW q \in roots, r # q,
              NEW f \in Under(r.path) \cap X, f \in Under(q.path)
       PROVE  FALSE
  <2>1. r.path # q.path
    BY <1>1, <1>10, RootRecords
  <2>2. Within(f, r.path) /\ Within(f, q.path)
    BY <1>10 DEF Under
  <2> QED
    BY <1>4, <1>5, <2>1, <2>2, OneRoot
<1>11. ASSUME ~(\E r \in roots : Within(e, r.path))
       PROVE  UNION {Under(r.path) \cap X : r \in {r \in roots : Within(r.path, e)}} =
                {f \in Under(e) \cap X : OutDir(f)}
  BY <1>6, <1>8, <1>9, <1>11
<1> QED
  BY <1>2, <1>7, <1>10, <1>11

\* So their totals add up to that of what is out.
LEMMA PartsAddUp ==
  ASSUME NEW idx \in SUBSET Files, NEW X \in SUBSET idx, NEW e, NEW m, Looked(e, m),
         NEW roots, roots = Touching(m, ExcludedRoots(idx)),
         ~(\E r \in roots : Within(e, r.path)),
         NEW h, \A r \in roots : h[r] = Books(Under(r.path) \cap X)
  PROVE  SumFunctionOnSet(h, {r \in roots : Within(r.path, e)}) =
           Books({f \in Under(e) \cap X : OutDir(f)})
<1> DEFINE U == [r \in roots |-> Under(r.path) \cap X]
           S == {r \in roots : Within(r.path, e)}
<1>1. IsFiniteSet(roots) /\ IsFiniteSet(Files) /\ \A f \in Files : Weight[f] \in Nat
  BY Parts, FilesFinite
<1>2. U \in [roots -> SUBSET Files] /\ S \in SUBSET roots
  OBVIOUS
<1>3. \A r, q \in roots : r # q => U[r] \cap U[q] = {}
  BY Parts
<1>4. \A r \in roots : h[r] = SumFunctionOnSet(Weight, U[r])
  BY DEF Books
<1>5. UNION {U[r] : r \in S} = {f \in Under(e) \cap X : OutDir(f)}
  <2>1. UNION {U[r] : r \in S} = UNION {Under(r.path) \cap X : r \in S}
    OBVIOUS
  <2>2. UNION {Under(r.path) \cap X : r \in S} = {f \in Under(e) \cap X : OutDir(f)}
    BY Parts
  <2> QED
    BY <2>1, <2>2
<1>6. SumFunctionOnSet(h, S) = SumFunctionOnSet(Weight, UNION {U[r] : r \in S})
  <2> HIDE DEF U, S
  <2> QED
    BY <1>1, <1>2, <1>3, <1>4, SumOfParts
<1> QED
  BY <1>5, <1>6 DEF Books

\* The two figures that are sums over the roots count what is out, and what is held of it.
LEMMA Figures ==
  ASSUME index \in SUBSET Files, NEW e, NEW m, Looked(e, m),
         NEW roots, roots = Touching(m, ExcludedRoots(index)),
         NEW total, total = Books(Under(e) \cap index)
  PROVE  /\ HeldBack(e, total, roots) = Books(Out(e))
         /\ HeldOut(e, roots) = Books(Held(e) \cap Out(e))
<1> DEFINE X == rows.held \cap index
<1>1. /\ Out(e) = {f \in Under(e) \cap index : OutDir(f)}
      /\ Held(e) \cap Out(e) = {f \in Under(e) \cap X : OutDir(f)}
      /\ \A p : Held(p) = Under(p) \cap X
  BY DEF Out, OutDir, Held
<1>2. X \in SUBSET index /\ index \in SUBSET index
  OBVIOUS
<1>3. CASE \E r \in roots : Within(e, r.path)
  <2>1. Out(e) = Under(e) \cap index
    BY <1>1, <1>2, <1>3, Parts
  <2>2. Held(e) \cap Out(e) = Held(e)
    BY <2>1 DEF Held
  <2> QED
    BY <1>3, <2>1, <2>2 DEF HeldBack, HeldOut
<1>4. CASE ~(\E r \in roots : Within(e, r.path))
  <2> DEFINE S == {r \in roots : Within(r.path, e)}
             h == [r \in roots |-> r.files]
             k == [r \in roots |-> Books(Held(r.path))]
  <2>1. \A r \in roots : h[r] = Books(Under(r.path) \cap index)
    BY RootRecords DEF Touching
  <2>2. \A r \in roots : k[r] = Books(Under(r.path) \cap X)
    BY <1>1
  <2>3. HeldBack(e, total, roots) = SumFunctionOnSet(h, S)
    BY <1>4 DEF HeldBack
  <2>4. HeldOut(e, roots) = SumFunctionOnSet(k, S)
    BY <1>4 DEF HeldOut
  <2> HIDE DEF h, k, X
  <2>5. SumFunctionOnSet(h, S) = Books({f \in Under(e) \cap index : OutDir(f)})
    BY <1>2, <1>4, <2>1, PartsAddUp
  <2>6. SumFunctionOnSet(k, S) = Books({f \in Under(e) \cap X : OutDir(f)})
    BY <1>2, <1>4, <2>2, PartsAddUp
  <2> QED
    BY <1>1, <2>3, <2>4, <2>5, <2>6
<1> QED
  BY <1>3, <1>4

\* Part of the books come to less, and to as many only if they are all of them.
LEMMA BooksGrow ==
  ASSUME NEW B \in SUBSET Files, NEW A \in SUBSET B
  PROVE  /\ Books(A) \in Nat /\ Books(B) \in Nat /\ Books(A) <= Books(B)
         /\ Books(B \ A) = Books(B) - Books(A)
         /\ Books(A) >= Books(B) <=> A = B
         /\ Books(A) = 0 <=> A = {}
<1>0. IsFiniteSet(Files) /\ \A f \in Files : Weight[f] \in Nat /\ Weight[f] # 0
  BY FilesFinite
<1>1. \A S \in SUBSET Files : Books(S) \in Nat /\ \A x \in S : Books(S) = Weight[x] + Books(S \ {x})
  BY <1>0, SumTakesAny DEF Books
<1>2. Books({}) = 0
  BY SumStep, FS_EmptySet DEF Books
<1>3. Books(A \cup (B \ A)) = Books(A) + Books(B \ A)
  <2>1. A \in SUBSET Files /\ B \ A \in SUBSET Files /\ A \cap (B \ A) = {}
    OBVIOUS
  <2> QED
    BY <1>0, <2>1, SumSplits DEF Books
<1>4. A \cup (B \ A) = B
  OBVIOUS
<1>5. \A S \in SUBSET Files : Books(S) = 0 => S = {}
  <2> SUFFICES ASSUME NEW S \in SUBSET Files, NEW x \in S PROVE Books(S) # 0
    OBVIOUS
  <2>1. Books(S) = Weight[x] + Books(S \ {x}) /\ Books(S \ {x}) \in Nat
    BY <1>1
  <2>2. Weight[x] \in Nat /\ Weight[x] # 0
    BY <1>0
  <2> QED
    BY <2>1, <2>2
<1>6. Books(A) \in Nat /\ Books(B) \in Nat /\ Books(B \ A) \in Nat
  BY <1>1
<1>7. Books(B \ A) = 0 => A = B
  BY <1>5
<1>8. Books(A) = 0 <=> A = {}
  BY <1>2, <1>5
<1>9. Books(B) = Books(A) + Books(B \ A)
  BY <1>3, <1>4
<1>10. A = B => Books(A) = Books(B)
  OBVIOUS
<1> QED
  BY <1>6, <1>7, <1>8, <1>9, <1>10

\* What a drawing tells of its entry: the figures count the sets they are named for.
Told(d) ==
  LET e == d.entry all == Under(e) \cap index IN
  /\ all # {} /\ e \in Paths
  /\ d.held = Books(Held(e)) /\ d.total = Books(all) /\ d.stale = Books(Stale(e))
  /\ d.scanned = scanned
  /\ d.excluded = Books(Out(e)) /\ d.heldOut = Books(Held(e) \cap Out(e))
IsBar(d) == Told(d) /\ d.floor = 2 /\ d.ceiling = 97

\* Drawn from the roots that touch, each row tells this.
LEMMA DrawnTells ==
  ASSUME index \in SUBSET Files, NEW e, NEW m, Looked(e, m), Under(e) \cap index # {},
         NEW roots, roots = Touching(m, ExcludedRoots(index)),
         NEW total, total = Books(Under(e) \cap index), NEW floor, NEW ceiling
  PROVE  /\ Told(Drawn(e, total, roots, floor, ceiling))
         /\ Drawn(e, total, roots, floor, ceiling).entry = e
         /\ Drawn(e, total, roots, floor, ceiling).floor = floor
         /\ Drawn(e, total, roots, floor, ceiling).ceiling = ceiling
<1>1. HeldBack(e, total, roots) = Books(Out(e)) /\ HeldOut(e, roots) = Books(Held(e) \cap Out(e))
  BY Figures
<1>2. e \in Paths
  BY DEF Looked
<1> QED
  BY <1>1, <1>2 DEF Told, Drawn

Sizes(d) ==
  LET e == d.entry all == Under(e) \cap index IN
  /\ d.held \in Nat /\ d.total \in Nat /\ d.stale \in Nat /\ d.excluded \in Nat
  /\ d.heldOut \in Nat /\ d.total > 0 /\ d.scanned = scanned
  /\ d.held = 0 <=> Held(e) = {}
  /\ d.held <= d.total /\ (d.held >= d.total <=> Missing(e) = {})
  /\ d.stale <= d.held
  /\ d.excluded <= d.total /\ (d.excluded >= d.total <=> Out(e) = all)
  /\ d.excluded = 0 <=> Out(e) = {}
  /\ d.heldOut <= d.held /\ d.heldOut <= d.excluded
  /\ d.held - d.heldOut <= d.total - d.excluded
  /\ d.held - d.heldOut >= d.total - d.excluded <=> Missing(e) \subseteq Out(e)

\* The sizes that follow, whatever the sets are.
LEMMA ToldSizes ==
  ASSUME index \in SUBSET Files, NEW d, Told(d)
  PROVE  Sizes(d) /\ d.entry \in Paths /\ Under(d.entry) \cap index # {}
<1> DEFINE e == d.entry
           A == Under(e) \cap index
           H == Held(e)
           O == Out(e)
           St == Stale(e)
<1>1. /\ d.held = Books(H) /\ d.total = Books(A) /\ d.stale = Books(St)
      /\ d.excluded = Books(O) /\ d.heldOut = Books(H \cap O) /\ A # {} /\ e \in Paths
      /\ d.scanned = scanned
  BY DEF Told
<1>2. /\ A \in SUBSET Files /\ H \in SUBSET A /\ O \in SUBSET A /\ St \in SUBSET H
      /\ H \in SUBSET Files /\ O \in SUBSET Files
  BY DEF Held, Out, Stale
<1>3. H = rows.held \cap A /\ Missing(e) = A \ H
  BY DEF Held, Missing
<1> HIDE DEF e, A, H, O, St
<1>4. /\ Books(H) \in Nat /\ Books(A) \in Nat /\ Books(H) <= Books(A)
      /\ Books(H) >= Books(A) <=> H = A
      /\ Books(H) = 0 <=> H = {}
  BY <1>2, BooksGrow
<1>5. /\ Books(O) \in Nat /\ Books(O) <= Books(A)
      /\ Books(A \ O) = Books(A) - Books(O)
      /\ Books(O) >= Books(A) <=> O = A
      /\ Books(O) = 0 <=> O = {}
  BY <1>2, BooksGrow
<1>6. Books(St) \in Nat /\ Books(St) <= Books(H)
  BY <1>2, BooksGrow
<1>7. /\ Books(H \cap O) \in Nat /\ Books(H \cap O) <= Books(H)
      /\ Books(H \ (H \cap O)) = Books(H) - Books(H \cap O)
  <2>1. H \cap O \in SUBSET H
    OBVIOUS
  <2> QED
    BY <1>2, <2>1, BooksGrow
<1>8. Books(H \cap O) <= Books(O)
  <2>1. H \cap O \in SUBSET O
    OBVIOUS
  <2> QED
    BY <1>2, <2>1, BooksGrow
<1>9. /\ Books(H \ (H \cap O)) <= Books(A \ O)
      /\ Books(H \ (H \cap O)) >= Books(A \ O) <=> H \ (H \cap O) = A \ O
  <2>1. H \ (H \cap O) \in SUBSET (A \ O) /\ A \ O \in SUBSET Files
    BY <1>2
  <2> QED
    BY <2>1, BooksGrow
<1>10. /\ H = A <=> A \ H = {}
       /\ H \ (H \cap O) = A \ O <=> A \ H \subseteq O
  BY <1>2
<1>11. Books(A) # 0
  <2>1. A \in SUBSET A
    OBVIOUS
  <2> QED
    BY <1>1, <1>2, <2>1, BooksGrow
<1>12. /\ d.held \in Nat /\ d.total \in Nat /\ d.stale \in Nat /\ d.excluded \in Nat
       /\ d.heldOut \in Nat /\ d.total > 0 /\ d.scanned = scanned
       /\ d.held <= d.total /\ d.stale <= d.held /\ d.excluded <= d.total
       /\ d.heldOut <= d.held /\ d.heldOut <= d.excluded
  BY <1>1, <1>4, <1>5, <1>6, <1>7, <1>8, <1>11
<1>13. /\ d.held = 0 <=> H = {}
       /\ d.held >= d.total <=> Missing(e) = {}
       /\ d.excluded >= d.total <=> O = A
       /\ d.excluded = 0 <=> O = {}
  BY <1>1, <1>3, <1>4, <1>5, <1>10
<1>14. /\ d.held - d.heldOut <= d.total - d.excluded
       /\ d.held - d.heldOut >= d.total - d.excluded <=> Missing(e) \subseteq O
  BY <1>1, <1>3, <1>5, <1>7, <1>9, <1>10
<1> QED
  BY <1>1, <1>12, <1>13, <1>14 DEF Sizes, e, A, H, O

\* State says of the files what its names promise.
LEMMA StateTold ==
  ASSUME index \in SUBSET Files, NEW d, Told(d)
  PROVE  LET e == d.entry all == Under(e) \cap index IN
         /\ State(d) = "complete" <=> (all # {} /\ Missing(e) = {})
         /\ State(d) = "excluded" <=> (all # {} /\ Missing(e) # {} /\ Out(e) = all)
         /\ State(d) = "share" <=> (Missing(e) # {} /\ Missing(e) \subseteq Out(e) /\ Out(e) # all)
         /\ State(d) \in {"absent", "unknown"} => Held(e) = {}
         /\ State(d) = "absent" => scanned
<1>1. Sizes(d) /\ Under(d.entry) \cap index # {}
  BY ToldSizes
<1> DEFINE complete == Missing(d.entry) = {}
           allOut == Out(d.entry) = Under(d.entry) \cap index
           gapOut == Missing(d.entry) \subseteq Out(d.entry)
<1>2. /\ d.held > 0 /\ d.held >= d.total <=> complete
      /\ d.excluded > 0 /\ Share(d) <= 0 <=> allOut
  BY <1>1 DEF Sizes, Share
<1>3. ~complete => (d.excluded > 0 /\ HeldIn(d) >= Share(d) <=> gapOut)
  BY <1>1 DEF Sizes, Share, HeldIn
<1>4. d.held > 0 <=> Held(d.entry) # {}
  BY <1>1 DEF Sizes
<1>5. d.scanned = scanned
  BY <1>1 DEF Sizes
<1>6. State(d) = IF complete THEN "complete" ELSE IF allOut THEN "excluded"
                 ELSE IF gapOut THEN "share" ELSE IF d.held > 0 THEN "partial"
                 ELSE IF d.scanned THEN "absent" ELSE "unknown"
  <2> HIDE DEF complete, allOut, gapOut
  <2> QED
    BY <1>2, <1>3 DEF State
<1> QED
  BY <1>1, <1>4, <1>5, <1>6

-----------------------------------------------------------------------------
(* How it is drawn.                                                          *)

\* Division rounds down; products grow with their factors. (Times is opaque where the
\* rest is linear.)
Times(n, t) == n * t

\* A quotient, rounded down.
LEMMA DivisionIs ==
  ASSUME NEW n \in Nat, NEW t \in Nat, t > 0
  PROVE  n \div t \in Nat /\ Times(n \div t, t) <= n
<1>1. n \div t \in Int
  OBVIOUS
<1>2. n \div t >= 0
  BY Z3
<1>3. (n \div t) * t <= n
  BY Z3
<1> QED
  BY <1>1, <1>2, <1>3 DEF Times

\* A product grows with its first factor, and the factors change places.
LEMMA TimesGrows ==
  ASSUME NEW s \in Nat, NEW k \in Nat, NEW t \in Nat
  PROVE  /\ s >= k => Times(s, t) >= Times(k, t)
         /\ s > k /\ t > 0 => Times(s, t) > Times(k, t)
         /\ Times(s, t) = Times(t, s)
<1>1. s >= k => s * t >= k * t
  BY Z3
<1>2. s > k /\ t > 0 => s * t > k * t
  BY Z3
<1>3. s * t = t * s
  BY Z3
<1> QED
  BY <1>1, <1>2, <1>3 DEF Times

\* Products of a sum.
LEMMA TimesAdds ==
  ASSUME NEW a \in Nat, NEW b \in Nat, NEW t \in Nat
  PROVE  Times(a + b, t) = Times(a, t) + Times(b, t) /\ Times(a, t) \in Nat /\ Times(b, t) \in Nat
<1>1. (a + b) * t = a * t + b * t
  BY Z3
<1>2. a * t \in Nat
  BY Z3
<1>3. b * t \in Nat
  BY Z3
<1> QED
  BY <1>1, <1>2, <1>3 DEF Times

\* Of two numbers.
LEMMA MinMax ==
  ASSUME NEW a \in Int, NEW b \in Int
  PROVE  /\ Min({a, b}) = IF a <= b THEN a ELSE b
         /\ Max({a, b}) = IF a >= b THEN a ELSE b
<1>1. Min({a, b}) = IF a <= b THEN a ELSE b
  BY DEF Min
<1>2. Max({a, b}) = IF a >= b THEN a ELSE b
  BY DEF Max
<1> QED
  BY <1>1, <1>2

Full == 100 * Percent
Floor == 2 * Percent
Ceiling == 97 * Percent

\* The floor and the ceiling together fall short of the whole.
LEMMA Percents ==
  /\ Full \in Nat /\ Floor \in Nat /\ Ceiling \in Nat
  /\ Full > 0 /\ Floor < Ceiling /\ Floor + Ceiling < Full
BY DEF Percent, Full, Floor, Ceiling

\* A bar that is drawn with a floor of 2 and a ceiling of 97.
LEMMA FillBounds ==
  ASSUME NEW d, d.total \in Nat, d.total > 0, d.floor = 2, d.ceiling = 97, NEW n \in Nat
  PROVE  /\ Fill(n, d) \in Nat /\ Fill(n, d) <= Full
         /\ n = 0 => Fill(n, d) = 0
         /\ n < d.total => Fill(n, d) <= Ceiling
         /\ n < d.total => \/ Fill(n, d) <= Floor
                           \/ Times(Fill(n, d), d.total) <= Times(Full, n)
<1> DEFINE t == d.total
           m == Times(Full, n)
           q == m \div t
<1>1. Fill(n, d) = IF n <= 0 \/ t <= 0 THEN 0 ELSE IF n >= t THEN Full
                   ELSE Min({Max({q, Floor}), Ceiling})
  BY Zenon DEF Fill, Times, Full, Floor, Ceiling
<1>2. t \in Nat /\ t > 0
  OBVIOUS
<1>3. m \in Nat
  BY Percents, TimesAdds
<1>4. q \in Nat /\ Times(q, t) <= m
  <2> HIDE DEF m, t
  <2> QED
    BY <1>2, <1>3, DivisionIs
<1> HIDE DEF q, t
<1>5. Min({Max({q, Floor}), Ceiling}) =
        IF q <= Floor THEN Floor ELSE IF q <= Ceiling THEN q ELSE Ceiling
  <2> HIDE DEF m
  <2>0. q \in Int /\ Floor \in Int
    BY <1>4, Percents
  <2>1. Max({q, Floor}) = IF q >= Floor THEN q ELSE Floor
    BY <2>0, MinMax
  <2> DEFINE w == Max({q, Floor})
  <2>2. w \in Int
    BY <1>4, <2>1, Percents
  <2>3. w = IF q >= Floor THEN q ELSE Floor
    BY <2>1
  <2> HIDE DEF w
  <2>4. Min({w, Ceiling}) = IF w <= Ceiling THEN w ELSE Ceiling
    <3>1. Ceiling \in Int
      BY Percents
    <3> QED
      BY <2>2, <3>1, MinMax
  <2>5. Min({w, Ceiling}) =
          IF q <= Floor THEN Floor ELSE IF q <= Ceiling THEN q ELSE Ceiling
    BY <1>4, <2>3, <2>4, Percents
  <2> QED
    BY <2>5 DEF w
<1>6. ASSUME n < t, n > 0, q > Floor PROVE Times(Fill(n, d), t) <= m
  <2>1. Fill(n, d) = IF q <= Ceiling THEN q ELSE Ceiling
    BY <1>1, <1>2, <1>4, <1>5, <1>6, Percents
  <2>2. CASE q <= Ceiling
    BY <1>4, <2>1, <2>2
  <2>3. CASE ~(q <= Ceiling)
    <3>1. Fill(n, d) = Ceiling
      BY <2>1, <2>3
    <3>2. Times(q, t) >= Times(Ceiling, t)
      BY <1>2, <1>4, <2>3, TimesGrows, Percents
    <3>3. Times(q, t) \in Nat /\ Times(Ceiling, t) \in Nat
      BY <1>2, <1>4, TimesAdds, Percents
    <3> QED
      BY <1>3, <1>4, <3>1, <3>2, <3>3
  <2> QED
    BY <2>2, <2>3
<1>7. /\ Fill(n, d) \in Nat /\ Fill(n, d) <= Full
      /\ n = 0 => Fill(n, d) = 0
      /\ n < t => Fill(n, d) <= Ceiling
      /\ n < t /\ (n = 0 \/ q <= Floor) => Fill(n, d) <= Floor
  BY <1>1, <1>2, <1>4, <1>5, Percents
<1>8. n < t => Fill(n, d) <= Floor \/ Times(Fill(n, d), t) <= Times(Full, n)
  BY <1>4, <1>6, <1>7, Percents
<1> QED
  BY <1>7, <1>8 DEF t

\* Two proportions of less than the whole, rounded down, come to less than it.
LEMMA ProportionsFit ==
  ASSUME NEW a \in Nat, NEW b \in Nat, NEW t \in Nat, NEW F \in Nat, F > 0,
         NEW m \in Nat, NEW n \in Nat, m + n < t,
         Times(a, t) <= Times(F, m), Times(b, t) <= Times(F, n)
  PROVE  a + b < F
<1>1. Times(a + b, t) = Times(a, t) + Times(b, t) /\ Times(a, t) \in Nat /\ Times(b, t) \in Nat
  BY TimesAdds
<1>2. Times(m + n, F) = Times(F, m) + Times(F, n) /\ Times(F, m) \in Nat /\ Times(F, n) \in Nat
  <2>1. Times(m, F) = Times(F, m) /\ Times(n, F) = Times(F, n)
    BY TimesGrows
  <2> QED
    BY <2>1, TimesAdds
<1>3. a + b >= F => Times(a + b, t) >= Times(t, F)
  <2>1. a + b \in Nat
    OBVIOUS
  <2> QED
    BY <2>1, TimesGrows
<1>4. Times(t, F) > Times(m + n, F)
  <2>1. m + n \in Nat /\ t > m + n
    OBVIOUS
  <2> QED
    BY <2>1, TimesGrows
<1>5. Times(t, F) \in Nat
  BY TimesAdds
<1>6. ~(a + b >= F)
  BY <1>1, <1>2, <1>3, <1>4, <1>5
<1> QED
  BY <1>6

\* Two shares of less than the whole leave some of it bare, floors included.
LEMMA SharesFit ==
  ASSUME NEW d, d.total \in Nat, d.total > 0, d.floor = 2, d.ceiling = 97,
         NEW m \in Nat, NEW n \in Nat, m + n < d.total
  PROVE  Fill(m, d) + Fill(n, d) < Full
<1>1. m < d.total /\ n < d.total
  OBVIOUS
<1>2. \A k \in {m, n} :
        /\ Fill(k, d) \in Nat /\ Fill(k, d) <= Ceiling
        /\ Fill(k, d) <= Floor \/ Times(Fill(k, d), d.total) <= Times(Full, k)
  BY <1>1, FillBounds
<1>3. CASE Fill(m, d) <= Floor \/ Fill(n, d) <= Floor
  BY <1>2, <1>3, Percents
<1>4. CASE /\ Times(Fill(m, d), d.total) <= Times(Full, m)
           /\ Times(Fill(n, d), d.total) <= Times(Full, n)
  BY <1>2, <1>4, Percents, ProportionsFit
<1> QED
  BY <1>2, <1>3, <1>4

\* Such a bar is honest.
LEMMA BarTold ==
  ASSUME index \in SUBSET Files, NEW d, IsBar(d)
  PROVE  Tells(d)
<1>1. Sizes(d) /\ d.floor = 2 /\ d.ceiling = 97
  BY ToldSizes DEF IsBar
<1>2. /\ d.held \in Nat /\ d.total \in Nat /\ d.stale \in Nat /\ d.excluded \in Nat
      /\ d.heldOut \in Nat /\ d.total > 0 /\ d.stale <= d.held
      /\ d.held <= d.total /\ d.excluded <= d.total /\ d.heldOut <= d.held
      /\ d.heldOut <= d.excluded
      /\ HeldIn(d) = d.held - d.heldOut /\ Share(d) = d.total - d.excluded
      /\ HeldIn(d) \in Nat /\ Share(d) \in Nat /\ HeldIn(d) <= Share(d)
  BY <1>1 DEF Sizes, HeldIn, Share
<1>3. 100 * Percent = Full /\ Full \in Nat /\ Ceiling < Full
  BY Percents DEF Full
<1> DEFINE ok == FillOk(d)
           st == FillStale(d)
           ex == FillExcluded(d)
           in == Fill(HeldIn(d), d)
           held == FillHeld(d)
           room == Full - ex
<1>4. ex \in Nat /\ ex <= Full /\ room \in Int
  <2>1. Fill(d.excluded, d) \in Nat /\ Fill(d.excluded, d) <= Full
    BY <1>1, <1>2, FillBounds
  <2>2. ex \in Nat /\ ex <= Full
    BY <1>3, <2>1 DEF FillExcluded
  <2> HIDE DEF ex
  <2> QED
    BY <1>3, <2>2
<1>5. in \in Nat
  BY <1>1, <1>2, FillBounds
<1>6. /\ State(d) = "complete" => held = Full
      /\ State(d) = "share" => held = room
      /\ State(d) \notin {"complete", "share", "excluded"} => held = Min({in, room})
  BY <1>3 DEF FillHeld
<1>7. Min({in, room}) = IF in <= room THEN in ELSE room
  <2> HIDE DEF in, room
  <2> QED
    BY <1>4, <1>5, MinMax
<1>8. State(d) # "excluded" => held \in Int
  <2> HIDE DEF in, room, held
  <2> QED
    BY <1>3, <1>4, <1>5, <1>6, <1>7
<1>9. State(d) # "excluded" => ok + st = held
  <2> SUFFICES ASSUME State(d) # "excluded" PROVE ok + st = held
    OBVIOUS
  <2>1. st \in Int
    <3>1. CASE d.stale = 0
      BY <3>1 DEF FillStale
    <3>2. CASE d.stale # 0
      <4> DEFINE x == (held * d.stale) \div d.held
                 y == d.floor * Percent
                 z == Max({x, y})
      <4>1. st = Min({z, held})
        BY <3>2, Zenon DEF FillStale
      <4>2. x \in Int
        <5> HIDE DEF held
        <5>1. d.held \in Nat /\ d.held > 0 /\ d.stale \in Int
          BY <1>2, <3>2
        <5>2. held * d.stale \in Int
          BY <1>8, <5>1
        <5> QED
          BY <5>1, <5>2
      <4>3. y \in Int
        BY <1>1 DEF Percent
      <4> HIDE DEF x, y, held
      <4>4. z \in Int
        BY <4>2, <4>3, MinMax
      <4> HIDE DEF z
      <4>5. Min({z, held}) \in Int
        BY <1>8, <4>4, MinMax
      <4> HIDE DEF st
      <4> QED
        BY <4>1, <4>5
    <3> QED
      BY <3>1, <3>2
  <2>2. ok = held - st
    BY DEF FillOk
  <2> HIDE DEF ok, st, held
  <2> QED
    BY <1>8, <2>1, <2>2
<1>10. State(d) = "complete" => ex = 0
  BY DEF FillExcluded
<1>11. State(d) \notin {"complete", "share", "excluded"} => in + ex < Full
  <2> SUFFICES ASSUME State(d) \notin {"complete", "share", "excluded"}
               PROVE  in + ex < Full
    OBVIOUS
  <2>1. d.held < d.total
    BY <1>2 DEF State
  <2>2. CASE d.excluded = 0
    <3>1. ex = 0 /\ HeldIn(d) < d.total
      BY <1>2, <2>1, <2>2 DEF FillExcluded
    <3>2. in <= Ceiling
      BY <1>1, <1>2, <3>1, FillBounds
    <3> HIDE DEF in, ex
    <3> QED
      BY <1>3, <1>5, <3>1, <3>2, Percents
  <2>3. CASE d.excluded > 0
    <3>1. Share(d) > 0 /\ HeldIn(d) < Share(d)
      BY <1>2, <2>1, <2>3 DEF State
    <3>2. ex = Fill(d.excluded, d)
      BY <1>2, <2>3, <3>1 DEF FillExcluded
    <3>3. HeldIn(d) + d.excluded < d.total
      BY <1>2, <3>1
    <3> QED
      BY <1>1, <1>2, <3>2, <3>3, SharesFit
  <2> QED
    BY <1>2, <2>2, <2>3
<1> SUFFICES ASSUME State(d) # "excluded"
             PROVE  /\ ok + st + ex <= Full
                    /\ ok + st + ex = Full <=> State(d) \in {"complete", "share"}
  BY <1>3, Zenon DEF Tells
<1>12. ok + st + ex = held + ex
  BY <1>9
<1> DEFINE inked == ok + st + ex
           state == State(d)
<1>13. inked = held + ex /\ inked \in Int /\ state # "excluded"
  <2> HIDE DEF ok, st, ex, held
  <2> QED
    BY <1>4, <1>8, <1>12
<1> HIDE DEF in, ex, held, inked, state
<1>14. state = "complete" => inked = Full
  BY <1>3, <1>6, <1>10, <1>13 DEF state
<1>15. state = "share" => inked = Full
  BY <1>3, <1>4, <1>6, <1>13 DEF state
<1>16. state \notin {"complete", "share"} => inked < Full
  BY <1>3, <1>4, <1>5, <1>6, <1>7, <1>11, <1>13 DEF state
<1>17. inked <= Full /\ (inked = Full <=> state \in {"complete", "share"})
  BY <1>3, <1>13, <1>14, <1>15, <1>16
<1> QED
  BY <1>17 DEF inked, state

-----------------------------------------------------------------------------
(* The cache of library.py behind the coverage map.                          *)

\* What is kept under the published generation is that index's own.
CacheOK(g, r) == g = generation => r = ExcludedRoots(index)

\* It is inductive only with what an asker holds: no generation from the future
\* is on its way into the cache. What an asker was given is held to the same.
AskerOK(a) ==
  /\ asker[a].at \in {"walking", "storing"} => asker[a].gen \in 1..generation
  /\ asker[a].at = "done" => asker[a].gen \in 0..generation
  /\ asker[a].at \in {"storing", "done"} => CacheOK(asker[a].gen, asker[a].roots)
CacheInv ==
  /\ generation \in Nat \ {0} /\ cache.gen \in 0..generation
  /\ CacheOK(cache.gen, cache.roots)
  /\ DOMAIN asker = {"job", "map"}
  /\ \A a \in {"job", "map"} : AskerOK(a)

\* The roots depend on the patterns and the index only.
LEMMA SameRoots ==
  ASSUME matched' = matched, index' = index
  PROVE  ExcludedRoots(index)' = ExcludedRoots(index)
BY DEF ExcludedRoots, OutDir

\* Asking takes the cached answer only under the published generation.
LEMMA AskRootsStep ==
  ASSUME CacheInv, NEW a \in {"job", "map"}, AskRoots(a)
  PROVE  CacheInv'
<1>1. /\ cache' = cache /\ generation' = generation
      /\ ExcludedRoots(index)' = ExcludedRoots(index)
  BY SameRoots DEF AskRoots, device, published
<1>2. /\ asker'[a].at \in {"done", "walking"} /\ asker'[a].gen = generation
      /\ asker'[a].at = "done" => asker'[a].roots = cache.roots /\ cache.gen = generation
  BY DEF AskRoots, CacheInv
<1>3. DOMAIN asker' = {"job", "map"}
  BY DEF AskRoots, CacheInv
<1>4. \A b \in {"job", "map"} : b # a => asker'[b] = asker[b]
  BY DEF AskRoots, CacheInv
<1>5. AskerOK(a)'
  BY <1>1, <1>2 DEF AskerOK, CacheInv, CacheOK
<1>6. \A b \in {"job", "map"} : b # a => AskerOK(b)'
  BY <1>1, <1>4 DEF AskerOK, CacheInv, CacheOK
<1> QED
  BY <1>1, <1>3, <1>5, <1>6 DEF CacheInv, CacheOK

\* An asker that is back to nothing holds nothing.
LEMMA CacheStep ==
  ASSUME CacheInv, [CoverageNext]_coverageVars
  PROVE  CacheInv'
<1>1. CASE Publish
  <2>1. /\ cache' = cache /\ asker' = asker /\ generation' = generation + 1
    BY <1>1 DEF Publish
  <2>2. generation \in Nat
    BY DEF CacheInv
  <2> QED
    BY <2>1, <2>2 DEF CacheInv, AskerOK, CacheOK
<1>2. CASE JobAsks
  BY <1>2, AskRootsStep DEF JobAsks
<1>3. CASE JobGoesOn \/ Draw
  <2>1. PICK a \in {"job", "map"} : asker' = [asker EXCEPT ![a] = Idle]
    BY <1>3 DEF JobGoesOn, Draw
  <2>2. /\ cache' = cache /\ generation' = generation
        /\ ExcludedRoots(index)' = ExcludedRoots(index)
    BY <1>3, SameRoots DEF JobGoesOn, Draw, device, published
  <2>3. /\ DOMAIN asker' = {"job", "map"} /\ asker'[a] = Idle
        /\ \A b \in {"job", "map"} : b # a => asker'[b] = asker[b]
    BY <2>1 DEF CacheInv
  <2>4. AskerOK(a)'
    BY <2>3 DEF AskerOK, Idle
  <2>5. \A b \in {"job", "map"} : b # a => AskerOK(b)'
    BY <2>2, <2>3 DEF AskerOK, CacheInv, CacheOK
  <2> QED
    BY <2>2, <2>3, <2>4, <2>5 DEF CacheInv, CacheOK
<1>4. CASE Close \/ UNCHANGED coverageVars
  <2>1. /\ cache' = cache /\ generation' = generation /\ asker' = asker
        /\ ExcludedRoots(index)' = ExcludedRoots(index)
    BY <1>4, SameRoots DEF Close, coverageVars, device, published
  <2> QED
    BY <2>1 DEF CacheInv, AskerOK, CacheOK
<1>5. ASSUME NEW e \in {Root} \cup Entries, Open(e) PROVE CacheInv'
  BY <1>5, AskRootsStep DEF Open
<1>6. ASSUME NEW a \in {"job", "map"}, Walks(a) PROVE CacheInv'
  <2>1. /\ cache' = cache /\ generation' = generation
        /\ ExcludedRoots(index)' = ExcludedRoots(index) /\ asker[a].at = "walking"
    BY <1>6, SameRoots DEF Walks, device, published
  <2>2. asker' = [asker EXCEPT ![a] =
                    [[asker[a] EXCEPT !.at = "storing"] EXCEPT !.roots = ExcludedRoots(index)]]
    BY <1>6 DEF Walks, CacheInv
  <2> QED
    BY <2>1, <2>2 DEF CacheInv, AskerOK, CacheOK
<1>w. ASSUME NEW a \in {"job", "map"}, WalkFails(a) PROVE CacheInv'
  <2>1. /\ cache' = cache /\ generation' = generation
        /\ ExcludedRoots(index)' = ExcludedRoots(index)
    BY <1>w, SameRoots DEF WalkFails, device, published
  <2>2. /\ DOMAIN asker' = {"job", "map"} /\ asker'[a] = Unanswered
        /\ \A b \in {"job", "map"} : b # a => asker'[b] = asker[b]
    BY <1>w DEF WalkFails, CacheInv
  <2>3. AskerOK(a)'
    BY <2>1, <2>2 DEF AskerOK, CacheInv, CacheOK, Unanswered
  <2>4. \A b \in {"job", "map"} : b # a => AskerOK(b)'
    BY <2>1, <2>2 DEF AskerOK, CacheInv, CacheOK
  <2> QED
    BY <2>1, <2>2, <2>3, <2>4 DEF CacheInv, CacheOK
<1>7. ASSUME NEW a \in {"job", "map"}, Stores(a) PROVE CacheInv'
  <2>1. /\ cache'.gen = asker[a].gen /\ cache'.roots = asker[a].roots
        /\ generation' = generation
        /\ ExcludedRoots(index)' = ExcludedRoots(index) /\ asker[a].at = "storing"
    BY <1>7, SameRoots DEF Stores, Stamp, device, published
  <2>2. /\ DOMAIN asker' = {"job", "map"} /\ asker'[a].at = "done"
        /\ asker'[a].gen = asker[a].gen /\ asker'[a].roots = asker[a].roots
        /\ \A b \in {"job", "map"} : b # a => asker'[b] = asker[b]
    BY <1>7 DEF Stores, CacheInv
  <2>3. cache'.gen \in 0..generation /\ CacheOK(cache.gen, cache.roots)'
    <3>1. asker[a].gen \in 1..generation /\ CacheOK(asker[a].gen, asker[a].roots)
      BY <2>1 DEF CacheInv, AskerOK
    <3> QED
      BY <2>1, <3>1 DEF CacheInv, CacheOK
  <2>4. AskerOK(a)'
    <3>1. asker[a].gen \in 1..generation /\ CacheOK(asker[a].gen, asker[a].roots)
      BY <2>1 DEF CacheInv, AskerOK
    <3> QED
      BY <2>1, <2>2, <3>1 DEF AskerOK, CacheOK
  <2>5. \A b \in {"job", "map"} : b # a => AskerOK(b)'
    BY <2>1, <2>2 DEF AskerOK, CacheInv, CacheOK
  <2> QED
    BY <2>1, <2>2, <2>3, <2>4, <2>5 DEF CacheInv
<1> QED
  BY <1>1, <1>2, <1>3, <1>4, <1>5, <1>6, <1>w, <1>7 DEF CoverageNext

\* A path in the library is a file or a directory, so that a file has only itself below it.
LEMMA FileAlone ==
  ASSUME NEW e \in Files, NEW f \in Files, Within(f, e)
  PROVE  f = e
<1>1. /\ e \in Seq(STRING) /\ f \in Seq(STRING) /\ f \in Entries
      /\ Len(e) \in Nat \ {0} /\ Len(f) \in Nat
  BY FilesFinite, PathTypes DEF Entries
<1>2. Len(e) <= Len(f) /\ e = SubSeq(f, 1, Len(e))
  BY <1>1, BeginsWith
<1>3. CASE Len(e) = Len(f)
  BY <1>1, <1>2, <1>3, Whole
<1>4. CASE Len(e) # Len(f)
  <2>1. Len(e) \in 1..(Len(f) - 1)
    BY <1>1, <1>2, <1>4
  <2>2. e \in Dirs
    BY <1>1, <1>2, <2>1, AboveIsDir
  <2> QED
    BY <2>2, CoverageConstantsOK
<1> QED
  BY <1>3, <1>4

\* The dot says what the row's state says, when nothing retired is held.
LEMMA PresenceTold ==
  ASSUME index \in SUBSET Files, rows \in Situations, NEW d, Told(d), Retired(d.entry) = {}
  PROVE  /\ Presence(d.entry) = "absent" <=> d.held = 0
         /\ Presence(d.entry) \in {"ok", "stale"} <=> State(d) = "complete"
         /\ Presence(d.entry) = "stale" => d.stale = d.held
<1> DEFINE e == d.entry
           all == Under(e) \cap index
           mine == rows.held \cap Under(e)
<1>1. Sizes(d) /\ e \in Paths /\ all # {}
  BY ToldSizes
<1>2. d.held = Books(Held(e)) /\ d.total = Books(all) /\ d.stale = Books(Stale(e))
  BY DEF Told
<1>3. mine = Held(e)
  BY DEF Retired, Held
<1>4. State(d) = "complete" <=> Missing(e) = {}
  <2>1. State(d) = "complete" <=> (Under(d.entry) \cap index # {} /\ Missing(d.entry) = {})
    BY StateTold
  <2> QED
    BY <1>1, <2>1
<1>5. /\ d.held \in Nat /\ d.total \in Nat /\ d.total > 0
      /\ d.held = 0 <=> Held(e) = {}
      /\ d.held >= d.total <=> Missing(e) = {}
  BY <1>1 DEF Sizes
<1>6. Presence(e) = IF d.held = 0 \/ d.total = 0 THEN "absent"
                    ELSE IF e \in Files THEN IF e \in rows.stale THEN "stale" ELSE "ok"
                    ELSE IF d.held >= d.total THEN "ok" ELSE "partial"
  <2>1. Presence(e) = IF Books(mine) = 0 \/ Books(all) = 0 THEN "absent"
                      ELSE IF e \in Files THEN IF e \in rows.stale THEN "stale" ELSE "ok"
                      ELSE IF Books(mine) >= Books(all) THEN "ok" ELSE "partial"
    BY DEF Presence, AtLeast
  <2>2. Books(mine) = d.held /\ Books(all) = d.total
    BY <1>2, <1>3
  <2> QED
    BY <2>1, <2>2
<1>7. ASSUME e \in Files, d.held # 0
      PROVE  /\ Missing(e) = {}
             /\ e \in rows.stale => Stale(e) = Held(e)
  <2>1. \A f \in Under(e) : f = e
    BY <1>7, FileAlone DEF Under
  <2>2. Held(e) # {}
    BY <1>5, <1>7
  <2>3. e \in Held(e)
    BY <2>1, <2>2 DEF Held
  <2> QED
    BY <2>1, <2>3 DEF Missing, Stale, Held
<1> HIDE DEF e
<1>8. Presence(e) \in {"ok", "stale"} <=> Missing(e) = {}
  BY <1>5, <1>6, <1>7
<1>9. Presence(e) = "stale" => d.stale = d.held
  BY <1>2, <1>6, <1>7
<1>10. Presence(e) = "absent" <=> d.held = 0
  BY <1>5, <1>6
<1> QED
  BY <1>4, <1>8, <1>9, <1>10 DEF e

\* While the index is the one the dialog was opened on, what it holds is of that index,
\* unless the walk failed: then it is drawn of no generation.
MapInv ==
  /\ rows \in Situations /\ index \in SUBSET Files
  /\ map.at = "asking" =>
       /\ map.gen \in 1..generation /\ map.entry \in Paths
       /\ asker["map"].at # "idle" /\ asker["map"].gen \in {0, map.gen}
       /\ map.gen = generation => /\ map.total = Books(Under(map.entry) \cap index)
                                  /\ Under(map.entry) \cap index # {}
  /\ map.at = "drawn" =>
       /\ map.gen \in 0..generation
       /\ map.gen = generation => IsBar(map.bar) /\ \A c \in map.cells : Told(c)
CoverageInv ==
  /\ CacheInv /\ MapInv
  /\ \A a \in {"job", "map"} : asker[a].at \in {"idle", "walking", "storing", "done"}

\* What is told changes with the device and the index only.
LEMMA SameTold ==
  ASSUME matched' = matched, rows' = rows, scanned' = scanned, index' = index
  PROVE  \A d : (Told(d)' <=> Told(d)) /\ (IsBar(d)' <=> IsBar(d))
BY DEF Told, IsBar, Held, Stale, Out

\* What neither draws nor publishes, and keeps the dialog's question.
LEMMA MapStays ==
  ASSUME CoverageInv, UNCHANGED <<device, published, map>>,
         map.at = "asking" => asker'["map"].at # "idle" /\ asker'["map"].gen \in {0, asker["map"].gen}
  PROVE  MapInv'
<1>1. /\ matched' = matched /\ rows' = rows /\ scanned' = scanned /\ index' = index
      /\ generation' = generation /\ map' = map
  BY DEF device, published
<1>2. \A d : (Told(d)' <=> Told(d)) /\ (IsBar(d)' <=> IsBar(d))
  BY <1>1, SameTold
<1>3. MapInv
  BY DEF CoverageInv
<1>4. (map.at = "drawn" /\ map.gen = generation => IsBar(map.bar) /\ \A c \in map.cells : Told(c))'
  BY <1>1, <1>2, <1>3 DEF MapInv
<1>5. (map.at = "drawn" => map.gen \in 0..generation)'
  BY <1>1, <1>3 DEF MapInv
<1> QED
  BY <1>1, <1>3, <1>4, <1>5 DEF MapInv

\* What is drawn from an answer for the published index is told of that index.
LEMMA DrawStep ==
  ASSUME CoverageInv, Draw
  PROVE  MapInv'
<1>1. /\ matched' = matched /\ rows' = rows /\ scanned' = scanned /\ index' = index
      /\ generation' = generation /\ map.at = "asking" /\ asker["map"].at = "done"
  BY DEF Draw, device, published
<1>2. \A d : (Told(d)' <=> Told(d)) /\ (IsBar(d)' <=> IsBar(d))
  BY <1>1, SameTold
<1>3. MapInv /\ CacheInv
  BY DEF CoverageInv
<1> DEFINE m == map.entry
           roots == Touching(m, asker["map"].roots)
           columns == {c \in Dirs : Front(c) = m /\ Under(c) \cap index # {}}
<1>4. /\ map'.at = "drawn" /\ map'.gen = asker["map"].gen /\ map'.bar = Bar(m, map.total, roots)
      /\ map'.cells = {Cell(c, roots) : c \in columns}
  BY DEF Draw
<1>5. ASSUME asker["map"].gen = generation
      PROVE  IsBar(map'.bar) /\ \A c \in map'.cells : Told(c)
  <2>0. map.gen = generation
    BY <1>1, <1>3, <1>5 DEF MapInv, CacheInv
  <2>1. /\ m \in Paths /\ map.total = Books(Under(m) \cap index) /\ Under(m) \cap index # {}
        /\ asker["map"].gen = generation /\ index \in SUBSET Files
    BY <1>1, <1>3, <1>5, <2>0 DEF MapInv
  <2>2. roots = Touching(m, ExcludedRoots(index))
    <3>1. CacheOK(asker["map"].gen, asker["map"].roots)
      BY <1>1, <1>3 DEF CacheInv, AskerOK
    <3> QED
      BY <2>1, <3>1 DEF CacheOK
  <2> HIDE DEF m, roots
  <2>3. IsBar(Bar(m, map.total, roots))
    <3>1. Looked(m, m)
      BY <2>1 DEF Looked
    <3> QED
      BY <2>1, <2>2, <3>1, DrawnTells DEF Bar, IsBar
  <2>4. ASSUME NEW c \in columns PROVE Told(Cell(c, roots))
    <3>1. Looked(c, m)
      BY <2>1 DEF Looked, Paths, Entries
    <3> QED
      BY <2>1, <2>2, <3>1, DrawnTells DEF Cell
  <2> HIDE DEF columns
  <2> QED
    BY <1>4, <2>3, <2>4
<1>6. map'.at # "asking" /\ map'.gen \in 0..generation'
  <2>1. asker["map"].gen \in 0..generation
    BY <1>1, <1>3 DEF CacheInv, AskerOK
  <2> QED
    BY <1>1, <1>4, <2>1
<1>7. map'.gen = generation' => (IsBar(map.bar) /\ \A c \in map.cells : Told(c))'
  BY <1>1, <1>2, <1>4, <1>5
<1> QED
  BY <1>1, <1>3, <1>6, <1>7 DEF MapInv

\* The question is asked under the generation that the dialog notes.
LEMMA OpenStep ==
  ASSUME CoverageInv, NEW e \in {Root} \cup Entries, Open(e)
  PROVE  MapInv'
<1>1. /\ rows' = rows /\ index' = index /\ generation' = generation /\ cache' = cache
      /\ Under(e) \cap index # {}
  BY DEF Open, AskRoots, device, published
<1>2. /\ map'.at = "asking" /\ map'.gen = generation /\ map'.entry = e
      /\ map'.total = Books(Under(e) \cap index)
  BY DEF Open
<1>3. asker'["map"].at # "idle" /\ asker'["map"].gen = generation
  BY DEF Open, AskRoots, CoverageInv, CacheInv
<1>4. generation \in Nat \ {0} /\ MapInv
  BY DEF CoverageInv, CacheInv
<1> QED
  BY <1>1, <1>2, <1>3, <1>4 DEF MapInv, Paths

\* Every step of the map keeps the invariant.
LEMMA CoverageStep ==
  ASSUME CoverageInv, [CoverageNext]_coverageVars
  PROVE  CoverageInv'
<1>1. CacheInv'
  BY CacheStep DEF CoverageInv
<1>2. DOMAIN asker = {"job", "map"} /\ MapInv /\ generation \in Nat \ {0}
  BY DEF CoverageInv, CacheInv
<1>3. CASE Publish
  <2>1. /\ rows' = rows /\ generation' = generation + 1 /\ map' = map /\ asker' = asker
        /\ index' \in Indexes
    BY <1>3 DEF Publish, device
  <2>2. Indexes \subseteq SUBSET Files
    BY CoverageConstantsOK
  <2> QED
    BY <1>1, <1>2, <2>1, <2>2 DEF CoverageInv, MapInv
<1>4. CASE JobAsks \/ JobGoesOn
  <2>1. /\ asker'["map"] = asker["map"] /\ UNCHANGED <<device, published, map>>
        /\ asker'["job"].at \in {"idle", "walking", "storing", "done"}
    BY <1>2, <1>4 DEF JobAsks, JobGoesOn, AskRoots, Idle
  <2>2. MapInv'
    BY <1>2, <2>1, MapStays DEF MapInv
  <2> QED
    BY <1>1, <2>1, <2>2 DEF CoverageInv
<1>5. CASE Draw
  <2>1. \A a \in {"job", "map"} : asker'[a].at \in {"idle", "walking", "storing", "done"}
    BY <1>2, <1>5 DEF Draw, CoverageInv, Idle
  <2> QED
    BY <1>1, <1>5, <2>1, DrawStep DEF CoverageInv
<1>6. CASE Close
  BY <1>1, <1>2, <1>6 DEF Close, CoverageInv, MapInv, device, published, Shut
<1>7. CASE UNCHANGED coverageVars
  <2>1. MapInv'
    BY <1>2, <1>7, MapStays DEF coverageVars, MapInv
  <2> QED
    BY <1>1, <1>7, <2>1 DEF CoverageInv, coverageVars
<1>8. ASSUME NEW e \in {Root} \cup Entries, Open(e) PROVE CoverageInv'
  <2>1. \A a \in {"job", "map"} : asker'[a].at \in {"idle", "walking", "storing", "done"}
    BY <1>2, <1>8 DEF Open, AskRoots, CoverageInv
  <2> QED
    BY <1>1, <1>8, <2>1, OpenStep DEF CoverageInv
<1>9. ASSUME NEW a \in {"job", "map"}, Walks(a) \/ WalkFails(a) \/ Stores(a)
      PROVE  CoverageInv'
  <2>1. /\ UNCHANGED <<device, published, map>>
        /\ asker'[a].at \in {"storing", "done"} /\ asker'[a].gen \in {0, asker[a].gen}
        /\ \A b \in {"job", "map"} : b # a => asker'[b] = asker[b]
    <3>1. CASE Walks(a)
      <4>1. asker' = [asker EXCEPT ![a] =
                        [[asker[a] EXCEPT !.at = "storing"] EXCEPT !.roots = ExcludedRoots(index)]]
        BY <1>2, <3>1 DEF Walks
      <4> QED
        BY <1>2, <3>1, <4>1 DEF Walks
    <3>2. CASE Stores(a)
      BY <1>2, <3>2 DEF Stores
    <3>3. CASE WalkFails(a)
      BY <1>2, <3>3 DEF WalkFails, Unanswered
    <3> QED
      BY <1>9, <3>1, <3>2, <3>3
  <2>2. MapInv'
    BY <1>2, <2>1, MapStays DEF MapInv
  <2> QED
    BY <1>1, <2>1, <2>2 DEF CoverageInv
<1> QED
  BY <1>3, <1>4, <1>5, <1>6, <1>7, <1>8, <1>9 DEF CoverageNext

\* The dialog and the cache behind it are what CoverageInv says.
THEOREM CoverageInvariant == Spec => []CoverageInv
<1>1. CoverageInit => CoverageInv
  <2> SUFFICES ASSUME CoverageInit PROVE CoverageInv
    OBVIOUS
  <2>1. CacheInv /\ \A a \in {"job", "map"} : asker[a].at = "idle"
    BY DEF CoverageInit, CacheInv, AskerOK, CacheOK, NoCache, Idle
  <2>2. MapInv
    BY CoverageConstantsOK DEF CoverageInit, MapInv, Shut
  <2> QED
    BY <2>1, <2>2 DEF CoverageInv
<1>2. Init => CoverageInv
  BY <1>1 DEF Init, NobodyLooks
<1>3. CoverageInv /\ [Next]_vars => CoverageInv'
  <2>1. [Next]_vars => [CoverageNext]_coverageVars
    BY DEF Next, vars
  <2> QED
    BY <2>1, CoverageStep
<1> QED
  BY <1>2, <1>3, PTL DEF Spec

\* What is looked at is told of the published index.
LEMMA ShownIsTold ==
  ASSUME CoverageInv, NEW d \in Shown
  PROVE  Told(d) /\ index \in SUBSET Files /\ rows \in Situations
BY DEF CoverageInv, MapInv, Shown, IsBar

\* The answer cached under the published generation is that index's own: a walk a
\* reindex overtook is never served for the index that came after
\* (library.excluded_roots).
THEOREM CacheHolds == Spec => []CachedRootsAreCurrent
<1>1. CoverageInv => CachedRootsAreCurrent
  BY DEF CoverageInv, CacheInv, CacheOK, CachedRootsAreCurrent
<1> QED
  BY <1>1, CoverageInvariant, PTL

\* The books a map takes off a device's share are those a push would not send, each
\* counted once however the patterns overlap, whatever the library and the patterns are
\* (excluded_roots, held_back).
THEOREM HeldBackHolds == Spec => []HeldBackIsExact
<1>1. CoverageInv => HeldBackIsExact
  BY ShownIsTold DEF HeldBackIsExact, Told
<1> QED
  BY <1>1, CoverageInvariant, PTL

\* Each state of a row says of the files what it is named for (_Drawn.state).
THEOREM StatesHold == Spec => []StateIsTrue
<1>1. CoverageInv => StateIsTrue
  BY ShownIsTold, StateTold DEF StateIsTrue
<1> QED
  BY <1>1, CoverageInvariant, PTL

\* The segments of a bar fit it, and fill it only when nothing the device takes is
\* missing, floors and ceiling included (_fill, fill_ok, fill_stale, fill_excluded).
THEOREM BarsHold == Spec => []BarsAreHonest
<1>1. CoverageInv => BarsAreHonest
  BY BarTold DEF CoverageInv, MapInv, BarsAreHonest
<1> QED
  BY <1>1, CoverageInvariant, PTL

\* The dot of the Library page and the row of the map, computed in two ways, say the same
\* (presence, coverage_view).
THEOREM PagesHold == Spec => []PagesAgree
<1>1. CoverageInv => PagesAgree
  BY ShownIsTold, PresenceTold DEF PagesAgree
<1> QED
  BY <1>1, CoverageInvariant, PTL
=============================================================================
