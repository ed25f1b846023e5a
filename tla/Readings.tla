------------------------------ MODULE Readings ------------------------------
(***************************************************************************)
(* The free space of one node as the Devices page shows it (probe_space,   *)
(* invalidate_space, adopt_space in probe.py): a reading that a df over    *)
(* ssh takes, which is slow, and that a finished transfer makes stale.     *)
(*                                                                         *)
(* What is on the node is a number of transfers; a reading is the number   *)
(* df saw.                                                                 *)
(***************************************************************************)
EXTENDS Naturals

CONSTANT MaxUsed   \* bound on the transfers

ASSUME ReadingsConstantsOK == MaxUsed \in Nat

VARIABLES
  used,     \* what the node holds
  settled,  \* what it held when the last transfer was recorded
  space,    \* slot.space: what df saw, or NoFigure
  stale,    \* space_stale
  df,       \* the probe in flight (space_inflight): where it is and what it saw
  tested    \* a Test whose df has run, and that will adopt the figure

readingsVars == <<used, settled, space, stale, df, tested>>

NoFigure == MaxUsed + 1
NoDf == [at |-> "none", saw |-> 0]

ReadingsTypeOK ==
  /\ used \in 0..MaxUsed /\ settled \in 0..used
  /\ space \in 0..NoFigure /\ stale \in BOOLEAN
  /\ df \in [at : {"none", "ssh", "read"}, saw : 0..MaxUsed]
  /\ tested \in [at : {"none", "read"}, saw : 0..MaxUsed]

\* load_cache brings back the last session's reading.
ReadingsInit ==
  /\ used = 0 /\ settled = 0
  /\ space = 0 /\ stale = FALSE
  /\ df = NoDf /\ tested = NoDf
-----------------------------------------------------------------------------
\* A transfer delivers, and is recorded when its job ends: invalidate_space.
TransferLands ==
  /\ used < MaxUsed /\ used' = used + 1
  /\ UNCHANGED <<settled, space, stale, df, tested>>

\* (Taking a df that is under way for a fresh one is the mutant.)
StaleIfIdle == df.at = "none"
Stale == TRUE

TransferSettles ==
  /\ settled < used /\ settled' = used
  /\ stale' = Stale
  /\ UNCHANGED <<used, space, df, tested>>

\* refresh_all, after an edit of devices.yaml.
Refreshed == stale' = TRUE /\ UNCHANGED <<used, settled, space, df, tested>>

\* probe_space commits to the ssh: because the reading is stale, or there is none, or
\* it is old. The flag is cleared here, not where the result is stored.
SpaceProbe ==
  /\ df.at = "none"
  /\ df' = [df EXCEPT !.at = "ssh"] /\ stale' = FALSE
  /\ UNCHANGED <<used, settled, space, tested>>

DfReads ==
  /\ df.at = "ssh" /\ df' = [at |-> "read", saw |-> used]
  /\ UNCHANGED <<used, settled, space, stale, tested>>

DfStores ==
  /\ df.at = "read" /\ space' = df.saw /\ df' = NoDf
  /\ UNCHANGED <<used, settled, stale, tested>>

\* ssh or df fails, or the 15 seconds are over: an error is shown instead.
DfFails ==
  /\ df.at # "none" /\ space' = NoFigure /\ df' = NoDf
  /\ UNCHANGED <<used, settled, stale, tested>>

\* The Test button: its own ssh runs df; then it awaits a probe; then adopt_space.
TestReads ==
  /\ tested.at = "none" /\ tested' = [at |-> "read", saw |-> used]
  /\ UNCHANGED <<used, settled, space, stale, df>>

\* A df that did not parse is not adopted.
TestAdopts ==
  /\ tested.at = "read" /\ tested' = NoDf
  /\ \/ space' = tested.saw /\ stale' = FALSE
     \/ UNCHANGED <<space, stale>>
  /\ UNCHANGED <<used, settled, df>>

Df == DfReads \/ DfStores \/ DfFails
-----------------------------------------------------------------------------
\* A figure older than the last recorded transfer is never taken for a fresh one:
\* another df is asked for, or one is under way that will see the transfer.
\* (invalidate_space: "Force the next space probe (a transfer landed)".)
FigureIsOwned ==
  space < settled =>
    \/ stale
    \/ df.at = "ssh"
    \/ df.at = "read" /\ df.saw >= settled
=============================================================================
