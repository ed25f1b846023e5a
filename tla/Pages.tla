------------------------------- MODULE Pages -------------------------------
(***************************************************************************)
(* The two parts of the web application that compute what is shown and     *)
(* what is queued: the coverage map and the commands.  They share no state *)
(* and no step, so a behaviour follows one of them, in any situation, and  *)
(* leaves the other in one of its initial states.                          *)
(***************************************************************************)
EXTENDS Coverage, Commands

VARIABLE page

vars == <<page, coverageVars, commandsVars>>

\* One initial state of each part, for when the other is followed.
NobodyLooks ==
  /\ CoverageInit /\ matched = {} /\ ~scanned
  /\ rows = (CHOOSE s \in Situations : TRUE) /\ index = (CHOOSE i \in Indexes : TRUE)
NobodyAsks ==
  CommandsInit /\ node = (CHOOSE d \in Declared : d = Validated(d)) /\ library = {}

Init ==
  \/ page = "map" /\ CoverageInit /\ NobodyAsks
  \/ page = "commands" /\ CommandsInit /\ NobodyLooks

Next ==
  \/ page = "map" /\ CoverageNext /\ UNCHANGED <<page, commandsVars>>
  \/ page = "commands" /\ CommandsNext /\ UNCHANGED <<page, coverageVars>>

Spec == Init /\ [][Next]_vars
=============================================================================
