------------------------- MODULE PullServiceProofs -------------------------
(* What PullService promises for every number of pulls, crashes and restarts. *)
EXTENDS PullService, TLAPS

\* What the proofs about the counters take from ConstantsOK.
LEMMA Bounds ==
  MaxPulls \in Nat /\ MaxCrashes \in Nat /\ MaxStops \in Nat /\ MaxByHand \in Nat
  BY ConstantsOK

\* The counters and the versions never leave their ranges, whatever fails.
LEMMA TypeInit == Init => TypeOK
<1> SUFFICES ASSUME Init PROVE TypeOK
  OBVIOUS
<1>1. 0 \in Versions /\ 0 \in 0..MaxCrashes /\ 0 \in 0..MaxStops /\ 0 \in 0..MaxByHand
  BY Bounds DEF Versions
<1>2. step \in Steps
  BY DEF Init, Steps
<1> QED
  BY <1>1, <1>2 DEF Init, TypeOK, Versions

\* Every step keeps the types.
LEMMA TypeStep == TypeOK /\ [Next]_vars => TypeOK'
<1> SUFFICES ASSUME TypeOK, [Next]_vars
             PROVE  TypeOK'
  OBVIOUS
<1> USE Bounds DEF TypeOK, Versions, NoWal, Steps, unit, catalog, process, spent
<1>1. CASE ServiceWrites
  BY <1>1 DEF ServiceWrites
<1>2. CASE UnitStops
  BY <1>2 DEF UnitStops
<1>3. CASE ByHand
  <2>1. byHand \in Nat /\ byHand < MaxByHand /\ byHand' = byHand + 1
    BY <1>3 DEF ByHand
  <2>2. byHand' \in 0..MaxByHand
    BY <2>1
  <2>3. /\ service' \in {"active", "stopping"} /\ owed' \in BOOLEAN
        /\ reading' \in Versions
    <3>1. CASE UnitStarts
      BY <3>1 DEF UnitStarts
    <3>2. CASE service' = "stopping" /\ UNCHANGED <<reading, owed>>
      BY <3>2
    <3> QED
      BY <1>3, <3>1, <3>2 DEF ByHand
  <2>4. /\ UNCHANGED <<catalog, hold, snapshot, process, step, stopped, copy>>
        /\ UNCHANGED <<pulls, crashes, stops>>
    BY <1>3 DEF ByHand
  <2> QED
    BY <2>2, <2>3, <2>4
<1>4. CASE Begin
  <2>1. pulls \in Nat /\ pulls < MaxPulls /\ pulls' = pulls + 1
    BY <1>4 DEF Begin
  <2>2. pulls' \in 0..MaxPulls
    BY <2>1
  <2> QED
    BY <1>4, <2>2 DEF Begin, At
<1>5. CASE Preflight
  BY <1>5 DEF Preflight, At, Goto, Answers
<1>6. CASE Authorise
  BY <1>6 DEF Authorise, At, Goto, UnitStarts
<1>7. CASE Library
  BY <1>7 DEF Library, At, Goto
<1>8. CASE Snapshot
  BY <1>8 DEF Snapshot, At
<1>9. CASE Ask
  BY <1>9 DEF Ask, At, Answers, StartCopy
<1>10. CASE StopBegins
  BY <1>10 DEF StopBegins, At
<1>11. CASE StopReturns
  BY <1>11 DEF StopReturns, At, StartCopy
<1>12. CASE StopFails
  BY <1>12 DEF StopFails, At
<1>13. CASE CopyLands
  BY <1>13 DEF CopyLands
<1>14. CASE CopyFails
  BY <1>14 DEF CopyFails
<1>15. CASE CatalogDone
  BY <1>15 DEF CatalogDone, At, Finally
<1>16. CASE StartWorks
  BY <1>16 DEF StartWorks, At, UnitStarts
<1>17. CASE StartReturns
  BY <1>17 DEF StartReturns, At, Onwards
<1>18. CASE StartFails
  BY <1>18 DEF StartFails, At, Onwards
<1>19. CASE Cleanup
  BY <1>19 DEF Cleanup, At
<1>20. CASE LogRaises
  BY <1>20 DEF LogRaises
<1>21. CASE Shutdown
  BY <1>21 DEF Shutdown
<1>22. CASE Reap
  BY <1>22 DEF Reap, Gone
<1>23. CASE Crash
  <2>1. crashes \in Nat /\ crashes < MaxCrashes /\ crashes' = crashes + 1
    BY <1>23 DEF Crash
  <2>2. crashes' \in 0..MaxCrashes
    BY <2>1
  <2> QED
    BY <1>23, <2>2 DEF Crash, Gone
<1>24. CASE Start
  BY <1>24 DEF Start, UnitStarts
<1>25. CASE Rest
  BY <1>25 DEF Rest, At, vars
<1>26. CASE UNCHANGED vars
  BY <1>26 DEF vars
<1> QED
  BY <1>1, <1>2, <1>3, <1>4, <1>5, <1>6, <1>7, <1>8, <1>9, <1>10, <1>11, <1>12, <1>13, <1>14, <1>15, <1>16, <1>17, <1>18, <1>19, <1>20, <1>21, <1>22, <1>23, <1>24, <1>25, <1>26 DEF Next, Pull, Host

\* The state of a pull is always well formed.
THEOREM PullTypeCorrect == Spec => []TypeOK
  BY TypeInit, TypeStep, PTL DEF Spec
-----------------------------------------------------------------------------
(* The record. That a service that is down and owed a start is on record is   *)
(* not inductive: the two steps that remove the record are safe because of    *)
(* where the pull is, and that is the rest of RecordInv.                      *)
RecordInv ==
  /\ owed => hold /\ service # "active"
  /\ step = "stop" => hold
  /\ step = "started" => ~owed
  /\ ~up => step = "idle"

\* A step keeps RecordInv, if no signal reaches the client of a stop and if
\* start() finds systemd willing.
LEMMA RecordStep ==
  ASSUME "recovery" \notin Faults, "signal" \notin Faults,
         TypeOK, RecordInv, [Next]_vars
  PROVE  RecordInv'
<1> USE DEF RecordInv, unit, catalog, process, spent, TypeOK
<1>1. CASE ServiceWrites
  BY <1>1 DEF ServiceWrites
<1>2. CASE UnitStops
  BY <1>2 DEF UnitStops
<1>3. CASE ByHand
  BY <1>3 DEF ByHand, UnitStarts
<1>4. CASE Begin
  BY <1>4 DEF Begin, At
<1>5. CASE Preflight
  BY <1>5 DEF Preflight, At, Goto, Answers
<1>6. CASE Authorise
  <2>1. CASE UnitStarts /\ step' = "library"
    BY <1>6, <2>1 DEF Authorise, At, Goto, UnitStarts
  <2>2. CASE Goto("idle")
    BY <1>6, <2>2 DEF Authorise, At, Goto
  <2> QED
    BY <1>6, <2>1, <2>2 DEF Authorise
<1>7. CASE Library
  BY <1>7 DEF Library, At, Goto
<1>8. CASE Snapshot
  BY <1>8 DEF Snapshot, At
<1>9. CASE Ask
  BY <1>9 DEF Ask, At, Answers, StartCopy
<1>10. CASE StopBegins
  BY <1>10 DEF StopBegins, At
<1>11. CASE StopReturns
  BY <1>11 DEF StopReturns, At, StartCopy
<1>12. CASE StopFails
  BY <1>12 DEF StopFails, At
<1>13. CASE CopyLands
  BY <1>13 DEF CopyLands
<1>14. CASE CopyFails
  BY <1>14 DEF CopyFails
<1>15. CASE CatalogDone
  BY <1>15 DEF CatalogDone, At, Finally
<1>16. CASE StartWorks
  BY <1>16 DEF StartWorks, At, UnitStarts
<1>17. CASE StartReturns
  BY <1>17 DEF StartReturns, At, Onwards
<1>18. CASE StartFails
  BY <1>18 DEF StartFails, At, Onwards
<1>19. CASE Cleanup
  BY <1>19 DEF Cleanup, At
<1>20. CASE LogRaises
  BY <1>20 DEF LogRaises
<1>21. CASE Shutdown
  BY <1>21 DEF Shutdown
<1>22. CASE Reap
  BY <1>22 DEF Reap, Gone
<1>23. CASE Crash
  BY <1>23 DEF Crash, Gone
<1>24. CASE Start
  BY <1>24 DEF Start, UnitStarts
<1>25. CASE Rest
  BY <1>25 DEF Rest, At, vars
<1>26. CASE UNCHANGED vars
  BY <1>26 DEF vars
<1> QED
  BY <1>1, <1>2, <1>3, <1>4, <1>5, <1>6, <1>7, <1>8, <1>9, <1>10, <1>11, <1>12, <1>13, <1>14, <1>15, <1>16, <1>17, <1>18, <1>19, <1>20, <1>21, <1>22, <1>23, <1>24, <1>25, <1>26 DEF Next, Pull, Host

\* Wherever the process dies, a service that it stopped and that is still down is
\* on record for the next one (_run_pull, _service_hold, start).
THEOREM OwedServiceIsOnRecord ==
  ASSUME "recovery" \notin Faults, "signal" \notin Faults
  PROVE  Spec => []OwedIsOnRecord
<1>1. Init => RecordInv
  BY DEF Init, RecordInv
<1>2. TypeOK /\ RecordInv /\ [Next]_vars => RecordInv'
  BY RecordStep
<1>3. RecordInv => OwedIsOnRecord
  BY DEF RecordInv, OwedIsOnRecord
<1> QED
  BY <1>1, <1>2, <1>3, PullTypeCorrect, PTL DEF Spec
-----------------------------------------------------------------------------
(* The quiet window: where the service is stopping the pull waits for it, or  *)
(* a crash left the record that makes the next process start it; and a reader *)
(* reads the catalog that is there.                                           *)
QuietInv ==
  /\ stops = 0 /\ ~leaving
  /\ service = "stopping" => hold /\ (up => step = "stop")
  /\ step = "stop" => hold
  /\ step = "catalog" => service = "inactive"
  /\ copy # "none" => up /\ step = "catalog"
  /\ copy = "running" => wal = NoWal
  /\ ~up => step = "idle"
  /\ service # "inactive" => reading = db
  /\ wal \in {db, NoWal}

\* A step keeps QuietInv, if nothing but the stop and the start may fail and the
\* process is never told to leave.
LEMMA QuietStep ==
  ASSUME Faults \subseteq {"stop", "start"}, MaxStops = 0, TypeOK, QuietInv, [Next]_vars
  PROVE  QuietInv'
<1> USE DEF QuietInv, unit, catalog, process, spent, TypeOK, Versions, NoWal
<1>1. CASE ServiceWrites
  BY <1>1 DEF ServiceWrites
<1>2. CASE UnitStops
  BY <1>2 DEF UnitStops
<1>3. CASE ByHand
  BY <1>3 DEF ByHand, UnitStarts
<1>4. CASE Begin
  BY <1>4 DEF Begin, At
<1>5. CASE Preflight
  BY <1>5 DEF Preflight, At, Goto, Answers
<1>6. CASE Authorise
  <2>1. CASE UnitStarts /\ step' = "library"
    BY <1>6, <2>1 DEF Authorise, At, Goto, UnitStarts
  <2>2. CASE Goto("idle")
    BY <1>6, <2>2 DEF Authorise, At, Goto
  <2> QED
    BY <1>6, <2>1, <2>2 DEF Authorise
<1>7. CASE Library
  BY <1>7 DEF Library, At, Goto
<1>8. CASE Snapshot
  BY <1>8 DEF Snapshot, At
<1>9. CASE Ask
  BY <1>9 DEF Ask, At, Answers, StartCopy
<1>10. CASE StopBegins
  BY <1>10 DEF StopBegins, At
<1>11. CASE StopReturns
  BY <1>11 DEF StopReturns, At, StartCopy
<1>12. CASE StopFails
  BY <1>12 DEF StopFails, At
<1>13. CASE CopyLands
  BY <1>13 DEF CopyLands
<1>14. CASE CopyFails
  BY <1>14 DEF CopyFails
<1>15. CASE CatalogDone
  BY <1>15 DEF CatalogDone, At, Finally
<1>16. CASE StartWorks
  BY <1>16 DEF StartWorks, At, UnitStarts
<1>17. CASE StartReturns
  BY <1>17 DEF StartReturns, At, Onwards
<1>18. CASE StartFails
  BY <1>18 DEF StartFails, At, Onwards
<1>19. CASE Cleanup
  BY <1>19 DEF Cleanup, At
<1>20. CASE LogRaises
  BY <1>20 DEF LogRaises
<1>21. CASE Shutdown
  BY <1>21 DEF Shutdown
<1>22. CASE Reap
  BY <1>22 DEF Reap, Gone
<1>23. CASE Crash
  BY <1>23 DEF Crash, Gone
<1>24. CASE Start
  BY <1>24 DEF Start, UnitStarts
<1>25. CASE Rest
  BY <1>25 DEF Rest, At, vars
<1>26. CASE UNCHANGED vars
  BY <1>26 DEF vars
<1> QED
  BY <1>1, <1>2, <1>3, <1>4, <1>5, <1>6, <1>7, <1>8, <1>9, <1>10, <1>11, <1>12, <1>13, <1>14, <1>15, <1>16, <1>17, <1>18, <1>19, <1>20, <1>21, <1>22, <1>23, <1>24, <1>25, <1>26 DEF Next, Pull, Host

\* The window is quiet from the first state on.
LEMMA QuietInvariant ==
  ASSUME Faults \subseteq {"stop", "start"}, MaxStops = 0
  PROVE  Spec => []QuietInv
<1>1. Init => QuietInv
  BY DEF Init, QuietInv, NoWal
<1>2. TypeOK /\ QuietInv /\ [Next]_vars => QuietInv'
  BY QuietStep
<1> QED
  BY <1>1, <1>2, PullTypeCorrect, PTL DEF Spec

\* The catalog is replaced only while nothing reads it (phases 3 to 5 of _run_pull),
\* through any crash. (MCPullService_query.cfg and MCPullService_shutdown.cfg show that
\* without either assumption it is not so.)
THEOREM SwapIsQuiet ==
  ASSUME Faults \subseteq {"stop", "start"}, MaxStops = 0
  PROVE  Spec => []QuietSwap
<1>1. QuietInv => QuietSwap
  BY DEF QuietInv, QuietSwap
<1> QED
  BY <1>1, QuietInvariant, PTL

\* The -wal beside the catalog is never that of another one, however often the
\* catalog is replaced, the service writes and the process dies (phase 4).
THEOREM WalStaysWithItsCatalog ==
  ASSUME Faults \subseteq {"stop", "start"}, MaxStops = 0
  PROVE  Spec => []WalBelongsToCatalog
<1>1. QuietInv => WalBelongsToCatalog
  BY DEF QuietInv, WalBelongsToCatalog
<1> QED
  BY <1>1, QuietInvariant, PTL
-----------------------------------------------------------------------------
(* Only what it stopped: a hold is written while the service is up, so that a  *)
(* hold beside a service that is down means libnodes stopped it.               *)
TouchInv ==
  byHand = 0 =>
    /\ hold /\ service # "active" => owed
    /\ step = "authorise" => service = "active"
    /\ step \in {"preflight", "authorise", "library", "snapshot", "ask", "stop"} => ~stopped
    /\ step = "stop" => hold
    /\ stopped /\ step = "catalog" => hold
    /\ step = "start" => hold
    /\ ~up => step = "idle"

\* A step keeps TouchInv, whatever fails.
LEMMA TouchStep ==
  ASSUME TypeOK, TouchInv, [Next]_vars
  PROVE  TouchInv'
<1> USE DEF TouchInv, unit, catalog, process, spent, TypeOK
<1>1. CASE ServiceWrites
  BY <1>1 DEF ServiceWrites
<1>2. CASE UnitStops
  BY <1>2 DEF UnitStops
<1>3. CASE ByHand
  BY <1>3 DEF ByHand, UnitStarts
<1>4. CASE Begin
  BY <1>4 DEF Begin, At
<1>5. CASE Preflight
  <2>1. step = "preflight" /\ up
    BY <1>5 DEF Preflight, At
  <2>2. PICK active \in Answers : Goto(IF active THEN "authorise" ELSE "library")
    BY <1>5 DEF Preflight
  <2>3. CASE active
    BY <2>1, <2>2, <2>3 DEF Answers, Goto
  <2>4. CASE ~active
    BY <2>1, <2>2, <2>4 DEF Goto
  <2> QED
    BY <2>3, <2>4
<1>6. CASE Authorise
  <2>1. CASE UnitStarts /\ step' = "library"
    BY <1>6, <2>1 DEF Authorise, At, Goto, UnitStarts
  <2>2. CASE Goto("idle")
    BY <1>6, <2>2 DEF Authorise, At, Goto
  <2> QED
    BY <1>6, <2>1, <2>2 DEF Authorise
<1>7. CASE Library
  BY <1>7 DEF Library, At, Goto
<1>8. CASE Snapshot
  BY <1>8 DEF Snapshot, At
<1>9. CASE Ask
  BY <1>9 DEF Ask, At, Answers, StartCopy
<1>10. CASE StopBegins
  BY <1>10 DEF StopBegins, At
<1>11. CASE StopReturns
  BY <1>11 DEF StopReturns, At, StartCopy
<1>12. CASE StopFails
  BY <1>12 DEF StopFails, At
<1>13. CASE CopyLands
  BY <1>13 DEF CopyLands
<1>14. CASE CopyFails
  BY <1>14 DEF CopyFails
<1>15. CASE CatalogDone
  BY <1>15 DEF CatalogDone, At, Finally
<1>16. CASE StartWorks
  BY <1>16 DEF StartWorks, At, UnitStarts
<1>17. CASE StartReturns
  BY <1>17 DEF StartReturns, At, Onwards
<1>18. CASE StartFails
  BY <1>18 DEF StartFails, At, Onwards
<1>19. CASE Cleanup
  BY <1>19 DEF Cleanup, At
<1>20. CASE LogRaises
  BY <1>20 DEF LogRaises
<1>21. CASE Shutdown
  BY <1>21 DEF Shutdown
<1>22. CASE Reap
  BY <1>22 DEF Reap, Gone
<1>23. CASE Crash
  BY <1>23 DEF Crash, Gone
<1>24. CASE Start
  BY <1>24 DEF Start, UnitStarts
<1>25. CASE Rest
  BY <1>25 DEF Rest, At, vars
<1>26. CASE UNCHANGED vars
  BY <1>26 DEF vars
<1> QED
  BY <1>1, <1>2, <1>3, <1>4, <1>5, <1>6, <1>7, <1>8, <1>9, <1>10, <1>11, <1>12, <1>13, <1>14, <1>15, <1>16, <1>17, <1>18, <1>19, <1>20, <1>21, <1>22, <1>23, <1>24, <1>25, <1>26 DEF Next, Pull, Host

\* Until somebody touches the service by hand, libnodes starts it only if it stopped
\* it, whatever fails and wherever it dies (_run_pull: "no start afterwards of a
\* service somebody stopped").
THEOREM OnlyWhatItStopped == Spec => StartsOnlyWhatItStopped
<1>1. Init => TouchInv
  BY DEF Init, TouchInv
<1>2. TypeOK /\ TouchInv /\ [Next]_vars => TouchInv'
  BY TouchStep
<1>3. TouchInv /\ [Next]_vars
      => [byHand = 0 /\ byHand' = 0 /\ service # "active" /\ service' = "active"
          => owed]_vars
  <2> SUFFICES ASSUME TouchInv, Next, byHand = 0, byHand' = 0,
                      service # "active", service' = "active"
               PROVE  owed
    BY DEF Next
  <2>1. CASE Authorise
    BY <2>1 DEF Authorise, At, TouchInv
  <2>2. CASE StartWorks
    BY <2>2 DEF StartWorks, At, TouchInv
  <2>3. CASE Start
    BY <2>3 DEF Start, TouchInv, unit
  <2>4. CASE ByHand
    BY <2>4 DEF ByHand
  <2> QED
    BY <2>1, <2>2, <2>3, <2>4
    DEF Next, Pull, Host, ServiceWrites, UnitStops, Begin, Preflight, Goto, Library,
        Snapshot, Ask, StopBegins, StopReturns, StopFails, CopyLands, CopyFails,
        CatalogDone, StartReturns, StartFails, Cleanup, LogRaises, Shutdown, Reap,
        Crash, Gone, Rest, unit, vars
<1> QED
  BY <1>1, <1>2, <1>3, PullTypeCorrect, PTL DEF Spec, StartsOnlyWhatItStopped
=============================================================================
