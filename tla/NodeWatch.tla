------------------------------ MODULE NodeWatch ------------------------------
(***************************************************************************)
(* The two halves of DeviceProbe together: reachability (Probe) and the    *)
(* free space of one of the nodes (Readings).  A df is started only where  *)
(* the node is online; the Test button does both on its own, one after the *)
(* other; an edited devices.yaml asks for both.                            *)
(***************************************************************************)
EXTENDS Probe, Readings

CONSTANT Node   \* the one whose free space is looked at

ASSUME NodeWatchConstantsOK ==
  /\ Node \in Devices
  /\ \A b \in Budgets : b.transfers \in 0..MaxUsed /\ b.dfs \in Nat

vars == <<probeVars, readingsVars, left>>

TypeOK == ProbeTypeOK /\ ReadingsTypeOK

Init == ProbeInit /\ ReadingsInit

\* devices_rescan forces a sweep, unless one runs.
RescanAll == Rescan("rescans") /\ UNCHANGED readingsVars

\* refresh_all, when devices.yaml was edited: every reading is stale, and the same.
RefreshAll ==
  /\ Refreshed
  /\ IF On("forced") THEN Spend("edits") /\ UNCHANGED probeVars ELSE Rescan("edits")

\* device_test: the ssh, then probe, then adopt_space.
TestBegins(d) == Test(d) /\ IF d = Node THEN TestReads ELSE UNCHANGED readingsVars

TestEnds ==
  /\ Ends("test")
  /\ IF tested.at = "read" THEN TestAdopts ELSE UNCHANGED readingsVars

Reading ==
  /\ \/ reach[Node] = "online" /\ SpaceProbe /\ Spend("dfs")
     \/ (Df \/ TransferSettles) /\ UNCHANGED left
     \/ TransferLands /\ Spend("transfers")
  /\ UNCHANGED probeVars

Reaching ==
  /\ \/ Told \/ Backstop \/ Ends("loop") \/ Ends("forced")
     \/ \E d \in Devices : Flap(d) \/ Defer(d) \/ \E s \in Probers : Probed(s, d)
     \/ \E wanted \in SUBSET Devices : LoopSweeps(wanted)
  /\ UNCHANGED readingsVars

Next ==
  \/ Reaching \/ Reading \/ RescanAll \/ RefreshAll \/ TestEnds
  \/ \E d \in Devices : TestBegins(d)

Spec == Init /\ [][Next]_vars

\* The loop goes round and the backoff is bounded, so every node is swept again and
\* again; a connect has a timeout; the watcher is an asyncio task. The backstop is owed
\* only while no report comes: weak fairness says no more.
Sweeps(d) == \E wanted \in SUBSET Devices : d \in wanted /\ LoopSweeps(wanted)

Fairness ==
  /\ WF_vars(Told /\ UNCHANGED readingsVars)
  /\ WF_vars(Backstop /\ UNCHANGED readingsVars)
  /\ WF_vars(Ends("loop") /\ UNCHANGED readingsVars)
  /\ WF_vars(Ends("forced") /\ UNCHANGED readingsVars)
  /\ \A d \in Devices :
       /\ SF_vars(Sweeps(d) /\ UNCHANGED readingsVars)
       /\ \A s \in {"loop", "forced"} : WF_vars(Probed(s, d) /\ UNCHANGED readingsVars)

FairSpec == Spec /\ Fairness
=============================================================================
