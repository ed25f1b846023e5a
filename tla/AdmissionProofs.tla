--------------------------- MODULE AdmissionProofs ---------------------------
(* The abstract gate keeps its promise, for every set of workers.  JobQueue   *)
(* implements the gate (JobQueueProofs), so the runner keeps it too.          *)
EXTENDS Admission, TLAPS

\* A worker that is inside changes neither its phase nor its kind but by leaving.
GateInv == TypeOK /\ PullRunsAlone

LEMMA GateStep == GateInv /\ [Next]_vars => GateInv'
  <1> SUFFICES ASSUME GateInv, [Next]_vars PROVE GateInv'
    OBVIOUS
  <1> USE DEF GateInv, TypeOK, PullRunsAlone, Is, Kinds
  <1>1. ASSUME NEW w \in Workers, Arrive(w)
        PROVE  GateInv'
    BY <1>1 DEF Arrive
  <1>2. ASSUME NEW w \in Workers, EnterPush(w)
        PROVE  GateInv'
    BY <1>2 DEF EnterPush
  <1>3. ASSUME NEW w \in Workers, EnterPull(w)
        PROVE  GateInv'
    BY <1>3 DEF EnterPull
  <1>4. ASSUME NEW w \in Workers, Exit(w)
        PROVE  GateInv'
    BY <1>4 DEF Exit
  <1>5. CASE Restart
    BY <1>5 DEF Restart
  <1>6. CASE UNCHANGED vars
    BY <1>6 DEF vars
  <1> QED BY <1>1, <1>2, <1>3, <1>4, <1>5, <1>6 DEF Next

\* A pull that was let in is the only worker inside, however many workers come and go
\* ("Pushes run together; a pull runs alone", JobRunner._admit).
THEOREM PullIsAlone == Spec => []PullRunsAlone
  <1>1. Init => GateInv
    BY DEF Init, GateInv, TypeOK, PullRunsAlone, Is, Kinds
  <1>2. GateInv => PullRunsAlone
    BY DEF GateInv
  <1> QED BY <1>1, <1>2, GateStep, PTL DEF Spec
=============================================================================
