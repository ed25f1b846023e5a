-------------------------------- MODULE Probe --------------------------------
(***************************************************************************)
(* Which node answers (probe.py), and who is told (JobRunner's             *)
(* _watch_deferred).  A sweep notes the states it starts from, connects to *)
(* its nodes side by side, and at its end reports those whose state is not *)
(* the one it noted.  The loop's sweeps take the nodes that are due (any   *)
(* set of them: intervals and backoff are left out); a forced one, of the  *)
(* Rescan button or of an edited devices.yaml, takes all; the Test button  *)
(* probes one node and reports to nobody.  They overlap, and write the     *)
(* same states.                                                            *)
(*                                                                         *)
(* The watcher promotes a deferred job when a report names its node and,   *)
(* as a backstop, every job it can when no report came for five minutes.   *)
(***************************************************************************)
EXTENDS Naturals, Sequences, FiniteSets

CONSTANTS
  Devices,
  NoticeCap,  \* size of the watcher's queue
  Budgets     \* bounds of the model, one record for each situation to look at

ASSUME ProbeConstantsOK ==
  /\ NoticeCap \in Nat \ {0}
  /\ \A b \in Budgets : /\ b.flaps \in Nat /\ b.rescans \in Nat /\ b.edits \in Nat
                        /\ b.tests \in Nat /\ b.submits \in Nat
                        /\ b.fleet \subseteq Devices

VARIABLES
  up,        \* does the node answer
  reach,     \* the state of its slot
  before,    \* per sweep under way: the states it noted, "none" for a node it leaves out
  todo,      \* and the nodes it has no answer of yet
  notices,   \* the watcher's queue
  deferred,  \* the nodes that deferred jobs wait for (a held job waits for its user)
  crossed,   \* for a property: the nodes another probe has written since a sweep began
  excused,   \* for a property: the nodes whose wake a known gap may have swallowed
  left       \* of the budget; left.fleet are the devices of devices.yaml

watch == <<notices, deferred, excused>>
sweeps == <<before, todo, crossed>>
probeVars == <<up, reach, sweeps, watch>>

States == {"unknown", "online", "sleeping", "offline"}
Probers == {"loop", "forced", "test"}
NoSweep == [d \in Devices |-> "none"]

ProbeTypeOK ==
  /\ up \in [Devices -> BOOLEAN] /\ reach \in [Devices -> States]
  /\ before \in [Probers -> [Devices -> States \cup {"none"}]]
  /\ todo \in [Probers -> SUBSET Devices] /\ crossed \in [Probers -> SUBSET Devices]
  /\ deferred \subseteq Devices /\ excused \subseteq Devices
  /\ notices \in Seq(SUBSET Devices) /\ Len(notices) <= NoticeCap

\* After a start: every state is to be measured, and jobs may have waited before.
ProbeInit ==
  /\ left \in Budgets
  /\ up \in [Devices -> BOOLEAN] /\ \A d \in Devices \ left.fleet : ~up[d]
  /\ reach = [d \in Devices |-> "unknown"]
  /\ before = [s \in Probers |-> NoSweep] /\ todo = [s \in Probers |-> {}]
  /\ crossed = [s \in Probers |-> {}]
  /\ notices = <<>> /\ deferred \in SUBSET left.fleet /\ excused = {}

Spend(what) == left[what] > 0 /\ left' = [left EXCEPT ![what] = @ - 1]

Flap(d) ==
  /\ d \in left.fleet /\ Spend("flaps")
  /\ up' = [up EXCEPT ![d] = ~@]
  /\ UNCHANGED <<reach, sweeps, watch>>
-----------------------------------------------------------------------------
(* probe_all and probe.                                                      *)

On(s) == before[s] # NoSweep

Begin(s, wanted) ==
  /\ ~On(s) /\ wanted # {}
  /\ before' = [before EXCEPT ![s] =
                 [d \in Devices |-> IF d \in wanted THEN reach[d] ELSE "none"]]
  /\ todo' = [todo EXCEPT ![s] = wanted]
  /\ UNCHANGED <<up, reach, crossed, watch>>

LoopSweeps(wanted) == wanted \subseteq left.fleet /\ Begin("loop", wanted) /\ UNCHANGED left
Rescan(why) == Begin("forced", left.fleet) /\ Spend(why)
Test(d) == d \in left.fleet /\ Begin("test", {d}) /\ Spend("tests")

\* What a failed connect makes of a state: sleeping if the node answered within the
\* sleeping window, offline if not.
Failed(state) == IF state = "offline" THEN {"offline"} ELSE {"sleeping", "offline"}

Answer(d) == IF up[d] THEN {"online"} ELSE Failed(reach[d])

\* probe, to its end.
Probed(s, d) ==
  /\ d \in todo[s] /\ todo' = [todo EXCEPT ![s] = @ \ {d}]
  /\ \E state \in Answer(d) : reach' = [reach EXCEPT ![d] = state]
  /\ crossed' = [r \in Probers |-> IF r # s /\ before[r][d] # "none"
                                  THEN crossed[r] \cup {d} ELSE crossed[r]]
  /\ excused' = IF s = "test" \/ d \in crossed[s] THEN excused \cup {d} ELSE excused
  /\ UNCHANGED <<up, before, notices, deferred, left>>

\* What a sweep reports. (Only of nodes that were offline is a mutant.)
FlippedOffline(s) == {d \in Devices : before[s][d] = "offline" /\ reach[d] # "offline"}
Flipped(s) == {d \in Devices : before[s][d] \notin {"none", reach[d]}}

\* _notify: a full queue drops the report.
Ends(s) ==
  /\ On(s) /\ todo[s] = {}
  /\ before' = [before EXCEPT ![s] = NoSweep] /\ crossed' = [crossed EXCEPT ![s] = {}]
  /\ LET f == Flipped(s) IN
       IF s = "test" \/ f = {} THEN UNCHANGED <<notices, excused>>
       ELSE IF Len(notices) < NoticeCap
         THEN notices' = Append(notices, f) /\ UNCHANGED excused
         ELSE excused' = excused \cup f /\ UNCHANGED notices
  /\ UNCHANGED <<up, reach, todo, deferred, left>>
-----------------------------------------------------------------------------
(* Deferred jobs.                                                            *)

\* submit: a job for a node that is not online is deferred.
Defer(d) ==
  /\ d \in left.fleet /\ Spend("submits")
  /\ reach[d] # "online" /\ d \notin deferred
  /\ deferred' = deferred \cup {d} /\ excused' = excused \ {d}
  /\ UNCHANGED <<up, reach, sweeps, notices>>

Promote(ds) ==
  LET served == {d \in deferred \cap ds : reach[d] = "online"} IN
  /\ deferred' = deferred \ served /\ excused' = excused \ served

\* _watch_deferred: the next report, or five minutes without one.
Told ==
  /\ notices # <<>>
  /\ notices' = Tail(notices) /\ Promote(Head(notices))
  /\ UNCHANGED <<up, reach, sweeps, left>>

\* (A backstop that promotes nothing is the mutant.)
Nobody == {}
Anybody == Devices

Backstop ==
  /\ notices = <<>> /\ Promote(Anybody)
  /\ UNCHANGED <<up, reach, sweeps, notices, left>>
-----------------------------------------------------------------------------
Reported(d) ==
  \/ \E i \in DOMAIN notices : d \in notices[i]
  \/ \E s \in {"loop", "forced"} : before[s][d] \notin {"none", "online"}

\* A job whose node is online and that still waits is about to be told: a report
\* that names the node is queued, or a sweep under way will report it. The only
\* other case is a gap: another probe wrote the node's state in the middle of the
\* sweep, Test found the node, or the queue was full. (subscribe: "a deferred job starts when its dot goes green".)
WakesAreReported ==
  \A d \in deferred \ excused : reach[d] = "online" => Reported(d)

\* Without the gaps, which the code has: see the README.
DeferredStartsWhenGreen == \A d \in deferred : reach[d] = "online" => Reported(d)

\* Gaps or not, a job does not wait for ever for a node that stays up, once the
\* other nodes have stopped flapping: the backstop finds it.
WaitersAreServed == \A d \in Devices : []<>(d \notin deferred \/ ~up[d])
=============================================================================
