--------------------------- MODULE NodeWatchProofs ---------------------------
(***************************************************************************)
(* What the probe promises for any fleet, any size of the watcher's queue  *)
(* and any number of flaps, sweeps, transfers and tests: who waits for a   *)
(* node that woke is about to be told, and a figure that a transfer made   *)
(* stale is known to be stale.                                             *)
(***************************************************************************)
EXTENDS NodeWatch, TLAPS

-----------------------------------------------------------------------------
(* Reports.  The node of a job that waits turns green in the middle of a     *)
(* sweep that noted another state: until the sweep ends, what it noted says  *)
(* that it will report the node.  That holds because a node the sweep has    *)
(* still to probe has the state that was noted, or was written by another.   *)

WatchTypes ==
  /\ reach \in [Devices -> States]
  /\ before \in [Probers -> [Devices -> States \cup {"none"}]]
  /\ DOMAIN todo = Probers /\ DOMAIN crossed = Probers
  /\ notices \in Seq(SUBSET Devices) /\ deferred \in SUBSET Devices

SweepInv ==
  \A s \in Probers, d \in Devices :
    /\ d \in todo[s] => before[s][d] # "none"
    /\ d \in crossed[s] => before[s][d] # "none"
    /\ d \in todo[s] /\ d \notin crossed[s] => before[s][d] = reach[d]

WatchInv == WatchTypes /\ SweepInv /\ WakesAreReported

\* A sweep begins with the states as they are.
LEMMA BeginKeepsWatch ==
  ASSUME WatchInv, NEW s \in Probers, NEW wanted, Begin(s, wanted)
  PROVE  WatchInv'
  <1> DEFINE noted == [d \in Devices |-> IF d \in wanted THEN reach[d] ELSE "none"]
  <1>1. /\ before' = [before EXCEPT ![s] = noted] /\ todo' = [todo EXCEPT ![s] = wanted]
        /\ before[s] = NoSweep
        /\ UNCHANGED <<reach, crossed, notices, deferred, excused>>
    BY DEF Begin, On, watch
  <1>2. noted \in [Devices -> States \cup {"none"}]
    BY DEF WatchInv, WatchTypes
  <1>3. WatchTypes'
    BY <1>1, <1>2 DEF WatchInv, WatchTypes
  <1>4. SweepInv'
    <2> SUFFICES ASSUME NEW r \in Probers, NEW d \in Devices
                 PROVE  /\ d \in todo'[r] => before'[r][d] # "none"
                        /\ d \in crossed'[r] => before'[r][d] # "none"
                        /\ d \in todo'[r] /\ d \notin crossed'[r] => before'[r][d] = reach'[d]
      BY DEF SweepInv
    <2>1. CASE r # s
      <3>1. before'[r] = before[r] /\ todo'[r] = todo[r]
        BY <1>1, <2>1 DEF WatchInv, WatchTypes
      <3> QED BY <1>1, <3>1 DEF WatchInv, SweepInv
    <2>2. CASE r = s
      <3>1. before'[r] = noted /\ todo'[r] = wanted
        BY <1>1, <2>2 DEF WatchInv, WatchTypes
      <3>2. d \notin crossed[r]
        BY <1>1, <2>2 DEF WatchInv, SweepInv, NoSweep
      <3>3. reach[d] # "none"
        BY DEF WatchInv, WatchTypes, States
      <3> QED BY <1>1, <3>1, <3>2, <3>3
    <2> QED BY <2>1, <2>2
  <1>5. WakesAreReported'
    BY <1>1 DEF WatchInv, WatchTypes, WakesAreReported, Reported, NoSweep
  <1> QED BY <1>3, <1>4, <1>5 DEF WatchInv

\* A probe that finds its node online either is of a sweep that noted another state,
\* or finds what was so before.
LEMMA ProbedKeepsWatch ==
  ASSUME WatchInv, NEW s \in Probers, NEW d \in Devices, Probed(s, d)
  PROVE  WatchInv'
  <1>1. PICK state \in Answer(d) : reach' = [reach EXCEPT ![d] = state]
    BY DEF Probed
  <1>2. /\ d \in todo[s] /\ todo' = [todo EXCEPT ![s] = @ \ {d}]
        /\ crossed' = [r \in Probers |-> IF r # s /\ before[r][d] # "none"
                                         THEN crossed[r] \cup {d} ELSE crossed[r]]
        /\ excused' = IF s = "test" \/ d \in crossed[s] THEN excused \cup {d} ELSE excused
        /\ UNCHANGED <<before, notices, deferred>>
    BY DEF Probed
  <1>3. state \in States
    BY <1>1 DEF Answer, Failed, States
  <1>4. WatchTypes'
    BY <1>1, <1>2, <1>3 DEF WatchInv, WatchTypes
  <1>5. SweepInv'
    <2> SUFFICES ASSUME NEW r \in Probers, NEW e \in Devices
                 PROVE  /\ e \in todo'[r] => before[r][e] # "none"
                        /\ e \in crossed'[r] => before[r][e] # "none"
                        /\ e \in todo'[r] /\ e \notin crossed'[r] => before[r][e] = reach'[e]
      BY <1>2 DEF SweepInv
    <2>1. todo'[r] \subseteq todo[r] /\ (r = s => d \notin todo'[r])
      BY <1>2 DEF WatchInv, WatchTypes
    <2>2. /\ e \in crossed'[r] => e \in crossed[r] \/ before[r][e] # "none"
          /\ e = d /\ r # s /\ before[r][e] # "none" => e \in crossed'[r]
          /\ e \in crossed[r] => e \in crossed'[r]
      BY <1>2
    <2>3. e # d => reach'[e] = reach[e]
      BY <1>1 DEF WatchInv, WatchTypes
    <2> QED BY <2>1, <2>2, <2>3 DEF WatchInv, SweepInv
  <1>6. WakesAreReported'
    <2> SUFFICES ASSUME NEW e \in deferred \ excused', reach'[e] = "online"
                 PROVE  Reported(e)
      BY <1>2 DEF WakesAreReported, Reported
    <2> e \in Devices
      BY DEF WatchInv, WatchTypes
    <2>1. CASE e # d
      BY <1>1, <1>2, <2>1 DEF WatchInv, WatchTypes, WakesAreReported
    <2>2. CASE e = d
      <3>1. s # "test" /\ d \notin crossed[s] /\ e \notin excused
        BY <1>2, <2>2
      <3>2. before[s][d] = reach[d] /\ before[s][d] # "none"
        BY <1>2, <3>1 DEF WatchInv, SweepInv
      <3>3. CASE before[s][d] = "online"
        BY <2>2, <3>1, <3>2, <3>3 DEF WatchInv, WakesAreReported
      <3>4. CASE before[s][d] # "online"
        BY <2>2, <3>1, <3>2, <3>4 DEF Reported, Probers
      <3> QED BY <3>3, <3>4
    <2> QED BY <2>1, <2>2
  <1> QED BY <1>4, <1>5, <1>6 DEF WatchInv

\* A sweep that ends reports what is not as it noted it, unless nobody has room for it.
LEMMA EndKeepsWatch ==
  ASSUME WatchInv, NEW s \in Probers, Ends(s)
  PROVE  WatchInv'
  <1>1. /\ before' = [before EXCEPT ![s] = NoSweep] /\ crossed' = [crossed EXCEPT ![s] = {}]
        /\ todo[s] = {} /\ UNCHANGED <<reach, todo, deferred>>
    BY DEF Ends
  <1>2. /\ notices' = notices \/ notices' = Append(notices, Flipped(s))
        /\ excused \subseteq excused'
        /\ s # "test" /\ Flipped(s) # {}
             => notices' = Append(notices, Flipped(s)) \/ Flipped(s) \subseteq excused'
    BY DEF Ends
  <1>3. Flipped(s) \in SUBSET Devices /\ NoSweep \in [Devices -> States \cup {"none"}]
    BY DEF Flipped, NoSweep
  <1>4. notices' \in Seq(SUBSET Devices)
    BY <1>2, <1>3 DEF WatchInv, WatchTypes
  <1>5. WatchTypes' /\ SweepInv'
    <2>1. WatchTypes'
      BY <1>1, <1>3, <1>4 DEF WatchInv, WatchTypes
    <2>2. SweepInv'
      BY <1>1 DEF WatchInv, WatchTypes, SweepInv, NoSweep
    <2> QED BY <2>1, <2>2
  <1>6. WakesAreReported'
    <2> SUFFICES ASSUME NEW d \in deferred \ excused', reach[d] = "online"
                 PROVE  Reported(d)'
      BY <1>1 DEF WakesAreReported
    <2>1. d \in Devices /\ Reported(d)
      BY <1>2 DEF WatchInv, WatchTypes, WakesAreReported
    <2>2. CASE \E i \in DOMAIN notices : d \in notices[i]
      <3>1. PICK i \in DOMAIN notices : d \in notices[i]
        BY <2>2
      <3>2. i \in DOMAIN notices' /\ notices'[i] = notices[i]
        <4>1. notices \in Seq(SUBSET Devices)
          BY DEF WatchInv, WatchTypes
        <4>2. CASE notices' = Append(notices, Flipped(s))
          BY <1>3, <3>1, <4>1, <4>2
        <4> QED BY <1>2, <3>1, <4>2
      <3> QED BY <3>1, <3>2 DEF Reported
    <2>3. ASSUME NEW r \in {"loop", "forced"}, before[r][d] \notin {"none", "online"}
          PROVE  Reported(d)'
      <3>1. CASE r # s
        <4>1. before'[r] = before[r]
          BY <1>1, <3>1 DEF WatchInv, WatchTypes, Probers
        <4> QED BY <2>3, <4>1 DEF Reported
      <3>2. CASE r = s
        <4>1. d \in Flipped(s)
          BY <2>1, <2>3, <3>2 DEF Flipped
        <4>2. notices' = Append(notices, Flipped(s))
          BY <1>2, <2>3, <3>2, <4>1
        <4>3. Len(notices) + 1 \in DOMAIN notices' /\ notices'[Len(notices) + 1] = Flipped(s)
          BY <1>3, <4>2 DEF WatchInv, WatchTypes
        <4> QED BY <4>1, <4>3 DEF Reported
      <3> QED BY <3>1, <3>2
    <2> QED BY <2>1, <2>2, <2>3 DEF Reported
  <1> QED BY <1>5, <1>6 DEF WatchInv

\* A report that is taken from the queue promotes whom it names.
LEMMA PromotionKeepsWatch ==
  ASSUME WatchInv, Told \/ Backstop
  PROVE  WatchInv'
  <1>1. UNCHANGED <<reach, before, todo, crossed>>
    BY DEF Told, Backstop, sweeps
  <1>2. /\ deferred' \subseteq deferred
        /\ \A d \in deferred' : d \in excused => d \in excused'
    BY DEF Told, Backstop, Promote
  <1>3. notices' \in Seq(SUBSET Devices)
    BY DEF WatchInv, WatchTypes, Told, Backstop
  <1>4. WatchTypes' /\ SweepInv'
    BY <1>1, <1>2, <1>3 DEF WatchInv, WatchTypes, SweepInv
  <1>5. WakesAreReported'
    <2> SUFFICES ASSUME NEW d \in deferred' \ excused', reach[d] = "online"
                 PROVE  Reported(d)'
      BY <1>1 DEF WakesAreReported
    <2>1. Reported(d)
      BY <1>2 DEF WatchInv, WakesAreReported
    <2>2. CASE Backstop
      BY <1>1, <2>1, <2>2 DEF Backstop, Reported
    <2>3. CASE Told
      <3>1. d \notin Head(notices) /\ notices # <<>> /\ notices' = Tail(notices)
        BY <1>2, <2>3 DEF Told, Promote
      <3>2. ASSUME NEW i \in DOMAIN notices, d \in notices[i]
            PROVE  i - 1 \in DOMAIN notices' /\ d \in notices'[i - 1]
        BY <3>1, <3>2 DEF WatchInv, WatchTypes
      <3> QED BY <1>1, <2>1, <3>2 DEF Reported
    <2> QED BY <2>2, <2>3
  <1> QED BY <1>4, <1>5 DEF WatchInv

LEMMA WatchStep == WatchInv /\ [Next]_vars => WatchInv'
  <1> SUFFICES ASSUME WatchInv, [Next]_vars PROVE WatchInv'
    OBVIOUS
  <1> USE DEF Probers
  <1>1. CASE Reaching
    <2>1. CASE Told \/ Backstop
      BY <2>1, PromotionKeepsWatch
    <2>2. CASE Ends("loop") \/ Ends("forced")
      BY <2>2, EndKeepsWatch
    <2>3. ASSUME NEW d \in Devices, Flap(d)
          PROVE  WatchInv'
      BY <2>3 DEF Flap, sweeps, watch, WatchInv, WatchTypes, SweepInv, WakesAreReported, Reported
    <2>4. ASSUME NEW d \in Devices, Defer(d)
          PROVE  WatchInv'
      BY <2>4 DEF Defer, sweeps, WatchInv, WatchTypes, SweepInv, WakesAreReported, Reported
    <2>5. ASSUME NEW d \in Devices, NEW s \in Probers, Probed(s, d)
          PROVE  WatchInv'
      BY <2>5, ProbedKeepsWatch
    <2>6. ASSUME NEW wanted \in SUBSET Devices, LoopSweeps(wanted)
          PROVE  WatchInv'
      BY <2>6, BeginKeepsWatch DEF LoopSweeps
    <2> QED BY <1>1, <2>1, <2>2, <2>3, <2>4, <2>5, <2>6 DEF Reaching
  <1>2. CASE RescanAll \/ RefreshAll
    <2>1. CASE \E why : Rescan(why)
      BY <2>1, BeginKeepsWatch DEF Rescan
    <2>2. CASE UNCHANGED probeVars
      BY <2>2 DEF probeVars, sweeps, watch, WatchInv, WatchTypes, SweepInv, WakesAreReported,
                  Reported
    <2> QED BY <1>2, <2>1, <2>2 DEF RescanAll, RefreshAll
  <1>3. CASE TestEnds
    BY <1>3, EndKeepsWatch DEF TestEnds
  <1>4. ASSUME NEW d \in Devices, TestBegins(d)
        PROVE  WatchInv'
    BY <1>4, BeginKeepsWatch DEF TestBegins, Test
  <1>5. CASE Reading \/ UNCHANGED vars
    <2>1. UNCHANGED probeVars
      BY <1>5 DEF Reading, vars
    <2> QED
      BY <2>1 DEF probeVars, sweeps, watch, WatchInv, WatchTypes, SweepInv, WakesAreReported,
                  Reported
  <1> QED BY <1>1, <1>2, <1>3, <1>4, <1>5 DEF Next

\* A job whose node is online and that still waits is about to be told of it, but for
\* the gaps `excused` names, in any fleet and with any overlap of sweeps (probe_all,
\* _notify, _watch_deferred).
THEOREM WakesReachTheWatcher == Spec => []WakesAreReported
  <1>1. Init => WatchInv
    <2> SUFFICES ASSUME Init PROVE WatchInv
      OBVIOUS
    <2>1. left.fleet \subseteq Devices
      BY ProbeConstantsOK DEF Init, ProbeInit
    <2>2. WatchTypes
      BY <2>1 DEF Init, ProbeInit, WatchTypes, NoSweep, States
    <2>3. SweepInv /\ WakesAreReported
      BY <2>1 DEF Init, ProbeInit, SweepInv, WakesAreReported
    <2> QED BY <2>2, <2>3 DEF WatchInv
  <1>2. WatchInv => WakesAreReported
    BY DEF WatchInv
  <1> QED BY <1>1, <1>2, WatchStep, PTL DEF Spec
-----------------------------------------------------------------------------
(* Figures.  A figure that is older than the last transfer is owned by the    *)
(* flag or by a df, and so is one that a df has read and not yet stored.      *)

FigureInv ==
  /\ used \in Nat /\ settled \in Nat /\ settled <= used /\ used <= MaxUsed
  /\ df.at \in {"none", "ssh", "read"} /\ DOMAIN df = {"at", "saw"}
  /\ df.at = "read" => df.saw \in Nat /\ (df.saw < settled => stale)
  /\ tested.at = "read" => tested.saw \in Nat
  /\ FigureIsOwned

\* The gap the code has (MCNodeWatch_hidden.cfg): a Test adopts its figure, and clears
\* the flag, though a transfer ended after its df or after the one that is under way.
TestUndisturbed ==
  tested.at = "read" => tested.saw >= settled /\ (df.at = "read" => df.saw >= settled)

LEMMA FigureStep == FigureInv /\ TestUndisturbed /\ [Next]_vars => FigureInv'
  <1> SUFFICES ASSUME FigureInv, TestUndisturbed, [Next]_vars PROVE FigureInv'
    OBVIOUS
  <1> USE ReadingsConstantsOK DEF FigureInv, FigureIsOwned
  <1>1. CASE TransferLands
    BY <1>1 DEF TransferLands
  <1>2. CASE TransferSettles
    BY <1>2 DEF TransferSettles, Stale
  <1>3. CASE Refreshed
    BY <1>3 DEF Refreshed
  <1>4. CASE SpaceProbe
    BY <1>4 DEF SpaceProbe
  <1>5. CASE DfReads
    BY <1>5 DEF DfReads
  <1>6. CASE DfStores
    BY <1>6 DEF DfStores, NoDf
  <1>7. CASE DfFails
    BY <1>7 DEF DfFails, NoDf, NoFigure
  <1>8. CASE TestReads
    BY <1>8 DEF TestReads
  <1>9. CASE TestAdopts
    BY <1>9 DEF TestAdopts, TestUndisturbed, NoDf
  <1>10. CASE UNCHANGED readingsVars
    BY <1>10 DEF readingsVars
  <1> QED
    BY <1>1, <1>2, <1>3, <1>4, <1>5, <1>6, <1>7, <1>8, <1>9, <1>10
    DEF Next, Reaching, Reading, RescanAll, RefreshAll, TestBegins, TestEnds, Df, vars

\* As long as no Test is caught out by a transfer, a figure older than the last
\* transfer that was recorded is never taken for a fresh one, for any number of
\* transfers, readings, edits and tests (invalidate_space, probe_space, adopt_space).
THEOREM FiguresAreOwned == Spec /\ []TestUndisturbed => []FigureIsOwned
  <1>1. Init => FigureInv
    BY ReadingsConstantsOK DEF Init, ReadingsInit, FigureInv, FigureIsOwned, NoDf
  <1>2. FigureInv => FigureIsOwned
    BY DEF FigureInv
  <1> QED BY <1>1, <1>2, FigureStep, PTL DEF Spec
=============================================================================
