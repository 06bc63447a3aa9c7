------------------------------- MODULE MCPlan -------------------------------
(***************************************************************************)
(* Three overlapping groups.  The two halves of a plan share nothing but   *)
(* the outcome, so the initial states vary one of them at a time.          *)
(***************************************************************************)
EXTENDS Plan

MCGroupTags == << {}, {"gpu"}, {"gpu", "lan"} >>

(* No tags, and a build that wraps: the assignment succeeds.               *)
PlainHosts ==
  /\ group = [p \in APeer |-> 1]
  /\ hostTags = [h \in Host |-> {}] /\ ~checked

MCInit == Init /\ (PlainHosts \/ time = <<>>)

MCSpec == MCInit /\ [][Next]_vars /\ Fairness

=============================================================================
