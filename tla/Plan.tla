-------------------------------- MODULE Plan --------------------------------
(***************************************************************************)
(* The two plans main makes of a configuration: assign_peers first and,    *)
(* once the peers have started, the timeline.  No run gets to the timeline *)
(* if the assignment failed: main returns its error.                       *)
(***************************************************************************)
EXTENDS AssignPeers, Timeline

vars == <<assignVars, timelineVars>>

Init == AssignInit /\ TimelineInit

AssignFirst  == AssignNext /\ UNCHANGED timelineVars
ThenTimeline == outcome = "ok" /\ TimelineNext /\ UNCHANGED assignVars

Next == AssignFirst \/ ThenTimeline

(* tm computes, its loops are polled, and time passes.                     *)
Fairness ==
  /\ WF_vars(AssignFirst)
  /\ WF_vars(outcome = "ok" /\ Loop /\ UNCHANGED assignVars)
  /\ WF_vars(outcome = "ok" /\ Clock /\ UNCHANGED assignVars)

Spec == Init /\ [][Next]_vars /\ Fairness

TypeOK == AssignTypeOK /\ TimelineTypeOK

(* A configuration is either refused or its peers are all assigned, and    *)
(* then every command of its timeline is sent in the end, sorted or not.   *)
PlanEnds ==
  <>(\/ outcome \in {"err", "panicked"}
     \/ outcome = "ok" /\ loop = "asleep" /\ Len(tried) = Len(time))

=============================================================================
