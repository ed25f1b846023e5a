----------------------------- MODULE Admission -----------------------------
(***************************************************************************)
(* What JobRunner._admit promises, with no queue, no device and no job:    *)
(* pushes run together, a pull runs alone, and a waiting pull holds back   *)
(* the pushes that arrive after it.  A worker task of the runner is        *)
(* outside, waiting for admission, or inside (executing a job); it comes   *)
(* and goes for ever, which is what a busy fleet looks like from here.     *)
(*                                                                         *)
(* JobQueue, which has the counters the code keeps, is shown to implement  *)
(* this specification.                                                     *)
(***************************************************************************)
EXTENDS Naturals

CONSTANT Workers    \* the runner's worker tasks

VARIABLES
  phase,   \* worker -> outside, waiting for admission, or inside
  role     \* worker -> the kind of job it carries (JobKind)

vars == <<phase, role>>

Kinds == {"push", "pull"}

TypeOK ==
  /\ phase \in [Workers -> {"outside", "waiting", "inside"}]
  /\ role \in [Workers -> Kinds]

Is(w, p, k) == phase[w] = p /\ role[w] = k

Init ==
  /\ phase = [w \in Workers |-> "outside"]
  /\ role = [w \in Workers |-> "push"]

\* A worker reaches the gate with a job in hand.
Arrive(w) ==
  /\ phase[w] = "outside"
  /\ phase' = [phase EXCEPT ![w] = "waiting"]
  /\ \E k \in Kinds : role' = [role EXCEPT ![w] = k]

\* A mutant of EnterPush: it does not look for a pull that waits.
PushOvertakes(w) ==
  /\ Is(w, "waiting", "push")
  /\ \A v \in Workers : ~Is(v, "inside", "pull")
  /\ phase' = [phase EXCEPT ![w] = "inside"]
  /\ UNCHANGED role

\* A push: no pull is inside and none is waiting.
EnterPush(w) ==
  /\ Is(w, "waiting", "push")
  /\ \A v \in Workers : ~Is(v, "inside", "pull") /\ ~Is(v, "waiting", "pull")
  /\ phase' = [phase EXCEPT ![w] = "inside"]
  /\ UNCHANGED role

\* A mutant of EnterPull: it waits for the other pulls only.
PullEntersEarly(w) ==
  /\ Is(w, "waiting", "pull")
  /\ \A v \in Workers : ~Is(v, "inside", "pull")
  /\ phase' = [phase EXCEPT ![w] = "inside"]
  /\ UNCHANGED role

\* A pull: nobody is inside.
EnterPull(w) ==
  /\ Is(w, "waiting", "pull")
  /\ \A v \in Workers : phase[v] # "inside"
  /\ phase' = [phase EXCEPT ![w] = "inside"]
  /\ UNCHANGED role

Exit(w) ==
  /\ phase[w] = "inside"
  /\ phase' = [phase EXCEPT ![w] = "outside"]
  /\ role' = [role EXCEPT ![w] = "push"]

\* The process is gone, and every worker with it.
Restart ==
  /\ phase' = [w \in Workers |-> "outside"]
  /\ role' = [w \in Workers |-> "push"]

Next ==
  \/ \E w \in Workers : Arrive(w) \/ EnterPush(w) \/ EnterPull(w) \/ Exit(w)
  \/ Restart

Spec == Init /\ [][Next]_vars

\* A worker that may enter is woken (notify_all), and every rsync ends. Nothing
\* obliges a job to arrive or the process to restart.
Fairness == \A w \in Workers :
              WF_vars(EnterPush(w)) /\ WF_vars(EnterPull(w)) /\ WF_vars(Exit(w))

FairSpec == Spec /\ Fairness

\* "Pushes run together; a pull runs alone": a worker inside with a pull is the
\* only worker inside (jobs.py, JobRunner._admit).
PullRunsAlone ==
  \A v, w \in Workers : Is(v, "inside", "pull") /\ phase[w] = "inside" => v = w

\* "A waiting pull holds back pushes that arrive after it, or a busy fleet could
\* keep it waiting for ever": however the pushes come and go, a pull at the gate
\* is followed by a pull inside, unless the process restarts. It need not be the
\* same pull, because the condition does not queue its waiters.
PullIsNotStarved ==
  (\E w \in Workers : Is(w, "waiting", "pull"))
    ~> ((\E w \in Workers : Is(w, "inside", "pull")) \/ (\A w \in Workers : phase[w] = "outside"))
=============================================================================
