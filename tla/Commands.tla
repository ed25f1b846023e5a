------------------------------ MODULE Commands ------------------------------
(***************************************************************************)
(* From a request to the command that is queued: the routes of the Library *)
(* and of a device's menu, the retry of a job (routes/jobs.py,             *)
(* routes/devices.py), JobRunner.submit and submit_pull, and the two       *)
(* builders of rsync's argv, while devices.yaml is edited, the library     *)
(* changes and the index lags behind it.                                   *)
(*                                                                         *)
(* One node.  A source is a top-level name of the library, or the library  *)
(* itself, which is no name: rsync deletes below the names it is given, or *)
(* everywhere when it is given the root.                                   *)
(* Whether a job is deferred, and all that happens to it later, is         *)
(* JobQueue's.  A request the code refuses queues nothing.                 *)
(***************************************************************************)
EXTENDS Naturals, Sequences, FiniteSets

CONSTANTS
  Skipped,    \* SKIP_TOPLEVEL: names that are never browsed
  Vault,      \* the one of them that holds the blobs and the catalog, .data
  Declared,   \* the node, as devices.yaml may declare it
  Libraries,  \* the sets of names library_root may have; {} when it is unreadable
  MaxJobs     \* bound on the requests that queue a job

\* What models.Device makes sure of, whatever devices.yaml says.
SyncModes == {"books", "mirror", "upstream"}
Nodes == [mode : SyncModes, fullSync : BOOLEAN, prune : BOOLEAN, excludes : BOOLEAN,
          atRoot : BOOLEAN, storesTimes : BOOLEAN]

\* Every name the library ever has.
Names == UNION Libraries

\* The library itself as a source (in the index it is the path ''), and what rsync is given
\* for it: the host's own root.
LibraryRoot == "the library"
HostRoot == "/"

ASSUME CommandsConstantsOK ==
  /\ Vault \in Skipped /\ MaxJobs \in Nat
  /\ Declared \subseteq Nodes
  /\ {LibraryRoot, HostRoot} \cap (Names \cup Skipped) = {}

VARIABLES
  node,     \* the device of the configuration that was loaded
  library,  \* what scandir finds at library_root
  indexed,  \* the names the index vouches for
  jobs      \* all jobs ever, in order

world == <<node, library, indexed>>
commandsVars == <<node, library, indexed, jobs>>
-----------------------------------------------------------------------------
(* models.Device, and the builders.                                          *)

Validated(d) ==
  [d EXCEPT !.fullSync = @ /\ d.mode # "upstream", !.prune = @ /\ d.mode = "books"]

IsMirror(d) == d.mode = "mirror"
IsUpstream(d) == d.mode = "upstream"

FullSyncSources == library \ Skipped
MirrorSources == library
WholeRootSources(d) == IF d.mode = "books" THEN FullSyncSources ELSE MirrorSources
\* The index is the whitelist, and it always vouches for the library itself. (Taking the
\* sources as they were is a mutant.)
Unresolved(paths) == paths
Resolve(paths) == paths \cap (indexed \cup {LibraryRoot})

\* --delete on a reader. (Without the whole library as its source is a mutant.)
PrunesAnyPush(d, run) == d.prune /\ d.fullSync /\ ~IsMirror(d) /\ ~run.adopt
Prunes(d, run) == run.whole /\ d.prune /\ d.fullSync /\ ~IsMirror(d) /\ ~run.adopt

Refused(d, sources, run) ==
  \/ IsUpstream(d)
  \/ (IsMirror(d) \/ Prunes(d, run)) /\ (sources = {} \/ d.atRoot)

When(cond, flag) == IF cond THEN {flag} ELSE {}

\* A directory is written with a slash behind its name.
Argument(source) == IF source = LibraryRoot THEN HostRoot ELSE source

PushArgv(d, sources, run) ==
  [to |-> "node", root |-> IsMirror(d),
   sources |-> IF IsMirror(d) THEN {} ELSE {Argument(s) : s \in sources},
   flags |-> When(run.dry, "-n") \cup When(~IsMirror(d), "-L")
     \cup When((IsMirror(d) /\ ~run.adopt) \/ Prunes(d, run), "--delete")
     \cup When(run.adopt \/ ~d.storesTimes, "--size-only")
     \cup When(~d.storesTimes, "--no-times")
     \cup When(IsMirror(d), "--exclude the catalog") \cup When(d.excludes, "--exclude")]

PullArgv(d, run) ==
  [to |-> "here", root |-> TRUE, sources |-> {},
   flags |-> When(run.dry, "-n") \cup {"--delete", "--exclude the catalog", "--exclude"}]
-----------------------------------------------------------------------------
(* JobRunner.submit and submit_pull.                                         *)

Run(dry, adopt, whole) == [dry |-> dry, adopt |-> adopt, whole |-> whole]
Real == Run(FALSE, FALSE, FALSE)

\* What was asked for, of which job it is a retry, and the world it was queued in are
\* not in the code's Job: they are there for the properties.
Ask(form, of) ==
  [form |-> form, of |-> of, node |-> node, library |-> library, indexed |-> indexed]

Submit(sources, run, ask) ==
  /\ Len(jobs) < MaxJobs /\ ~Refused(node, sources, run)
  /\ jobs' = Append(jobs, [kind |-> "push", sources |-> sources, run |-> run, ask |-> ask,
                           catalog |-> IsMirror(node) /\ ~run.adopt,
                           argv |-> PushArgv(node, sources, run)])
  /\ UNCHANGED world

SubmitPull(run, ask) ==
  /\ Len(jobs) < MaxJobs /\ IsUpstream(node)
  /\ jobs' = Append(jobs, [kind |-> "pull", sources |-> {}, run |-> run, ask |-> ask,
                           catalog |-> FALSE, argv |-> PullArgv(node, run)])
  /\ UNCHANGED world
-----------------------------------------------------------------------------
(* The routes.                                                               *)

\* create_job and dry_run, of a selection: _selection lets neither an upstream nor a
\* mirror through. "A form post is not limited to what the picker drew".
Select(paths, dry) ==
  /\ node.mode = "books" /\ Resolve(paths) # {}
  /\ Submit(Resolve(paths), Run(dry, FALSE, FALSE), Ask("selection", 0))

Adopt ==
  ~IsUpstream(node) /\ Submit(WholeRootSources(node), Run(FALSE, TRUE, FALSE), Ask("adopt", 0))

\* (A preview that does not say it is of the whole library is a mutant.)
PreviewOfSome == Run(TRUE, FALSE, FALSE)
Preview == Run(TRUE, FALSE, TRUE)
DeviceDryRun ==
  ~IsUpstream(node) /\ Submit(WholeRootSources(node), Preview, Ask("preview", 0))

FullSync ==
  /\ node.fullSync /\ ~IsMirror(node) /\ ~IsUpstream(node)
  /\ Submit(FullSyncSources, Run(FALSE, FALSE, TRUE), Ask("full sync", 0))

Replicate == IsMirror(node) /\ Submit(MirrorSources, Real, Ask("replicate", 0))

Pull == SubmitPull(Real, Ask("pull", 0))
PullDryRun == SubmitPull(Run(TRUE, FALSE, FALSE), Ask("preview", 0))

\* _queue: the sources of a whole library are derived again, the others resolved again.
\* (A replicate that forgets it was a dry run, a full sync that forgets it was whole, are
\* mutants.)
AgainForReal(old, whole) == Run(FALSE, FALSE, whole)
AgainInPart(old, whole) == Run(old.run.dry, FALSE, FALSE)
Again(old, whole) == Run(old.run.dry, FALSE, whole)

Queue(old, ask) ==
  IF IsMirror(node) THEN Submit(MirrorSources, Again(old, FALSE), ask)
  ELSE IF old.run.whole /\ node.fullSync THEN Submit(FullSyncSources, Again(old, TRUE), ask)
  ELSE Resolve(old.sources) # {} /\ Submit(Resolve(old.sources), Again(old, FALSE), ask)

Retry(k) ==
  /\ k \in DOMAIN jobs
  /\ LET old == jobs[k] ask == Ask(old.ask.form, k) IN
     IF old.kind = "pull" THEN SubmitPull(Run(old.run.dry, FALSE, FALSE), ask) ELSE Queue(old, ask)
-----------------------------------------------------------------------------
CommandsInit ==
  /\ node \in {Validated(d) : d \in Declared}
  /\ library \in Libraries /\ indexed = library \ Skipped
  /\ jobs = <<>>

\* What happens after the last request that is explored bears on no command.
World(n, l, i) ==
  /\ Len(jobs) < MaxJobs
  /\ node' = n /\ library' = l /\ indexed' = i /\ UNCHANGED jobs

EditDevices == \E d \in Declared : World(Validated(d), library, indexed)
LibraryChanges == \E l \in Libraries : World(node, l, indexed)
Reindex == World(node, library, library \ Skipped)

Posted == Names \cup {LibraryRoot}

CommandsNext ==
  \/ \E paths \in SUBSET Posted, dry \in BOOLEAN : Select(paths, dry)
  \/ Adopt \/ DeviceDryRun \/ FullSync \/ Replicate \/ Pull \/ PullDryRun
  \/ \E k \in 1..MaxJobs : Retry(k)
  \/ EditDevices \/ LibraryChanges \/ Reindex

CommandsSpec == CommandsInit /\ [][CommandsNext]_commandsVars
-----------------------------------------------------------------------------
(* Properties.                                                               *)

Queued == {jobs[k] : k \in DOMAIN jobs}
Dry(j) == "-n" \in j.argv.flags

\* A file of the node that the library has not: under which name, and whether the node's
\* excludes match it. What rsync removes of them.
Strays == [top : Names \cup {"another"}, spared : BOOLEAN]
Removed(j) ==
  IF Dry(j) \/ "--delete" \notin j.argv.flags \/ j.argv.to # "node" THEN {}
  ELSE {f \in Strays : /\ j.argv.root \/ {f.top, HostRoot} \cap j.argv.sources # {}
                       /\ ~(f.spared /\ "--exclude" \in j.argv.flags)}

\* A reader loses a file only to a Full Sync of a node that declares prune, only under a
\* name the library itself has, and never what its excludes match; nobody loses one to an
\* Adopt. However the request came: from the menu, from a selection, as a retry, before or
\* after an edit of devices.yaml.
RemovalsAreAsked ==
  \A j \in Queued : Removed(j) # {} =>
    \/ IsMirror(j.ask.node) /\ ~j.run.adopt
    \/ /\ j.ask.form = "full sync"
       /\ j.ask.node.prune /\ j.ask.node.fullSync
       /\ \A f \in Removed(j) : /\ f.top \in j.ask.library \ Skipped
                                /\ f.spared => ~j.ask.node.excludes

\* The infrastructure of the library reaches mirrors alone, and the live catalog nobody:
\* whoever sends the vault, or takes it, leaves the catalog out. But for a selection that
\* names the library itself, and what is retried of it.
NamesTheLibrary(j) == j.ask.form = "selection" /\ LibraryRoot \in j.sources
ToReader(j) == j.argv.to = "node" /\ ~IsMirror(j.ask.node)
InfrastructureStaysHome ==
  \A j \in Queued :
    /\ ToReader(j) => /\ j.argv.sources \cap Skipped = {}
                      /\ HostRoot \in j.argv.sources => NamesTheLibrary(j)
    /\ j.argv.root => "--exclude the catalog" \in j.argv.flags

\* "Keep only paths the index vouches for" (_resolve): what a reader is sent lies in the
\* library. Of the library itself rsync is given the host's root.
ReadersGetTheLibrary ==
  \A j \in Queued : ToReader(j) => j.argv.sources \subseteq Names \ Skipped

\* The dry run of a device's menu runs the command its Full Sync, its Replicate or its
\* Pull would, but for -n: --delete and excludes included.
Previewed == {"full sync", "replicate", "pull"}
PreviewIsFaithful ==
  \A p, j \in Queued :
    (/\ p.ask.form = "preview" /\ p.ask.of = 0 /\ j.ask.form \in Previewed /\ j.ask.of = 0
     /\ p.ask.node = j.ask.node /\ p.ask.library = j.ask.library)
    => p.argv = [j.argv EXCEPT !.flags = @ \cup {"-n"}]

\* "a retried preview must stay a preview", whatever the node has become.
RetriedPreviewIsOne ==
  \A j \in Queued : (j.ask.of # 0 /\ Dry(jobs[j.ask.of])) => Dry(j)

\* "Repeat what was run": in a world that has not changed, and that the index knows, a
\* retry runs the same command.
Repeats(j, old) ==
  (/\ j.ask.node = old.ask.node /\ j.ask.library = old.ask.library
   /\ j.ask.indexed = j.ask.library \ Skipped /\ old.ask.indexed = j.ask.indexed)
  => j.argv = old.argv
RetryRepeats == \A j \in Queued : j.ask.of # 0 => Repeats(j, jobs[j.ask.of])

\* Only an Adopt does not: it is retried as an ordinary push.
RetryRepeatsAPush ==
  \A j \in Queued : (j.ask.of # 0 /\ ~jobs[j.ask.of].run.adopt) => Repeats(j, jobs[j.ask.of])
=============================================================================
