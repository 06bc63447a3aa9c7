--------------------------- MODULE MCConsoleEvents --------------------------
(***************************************************************************)
(* One peer of each kind and its path to the console.  How an entry came   *)
(* to the list makes no difference to the monitor and to run_console: the  *)
(* monitor loses entries, is cancelled and has a console that listens in   *)
(* runs of a Go peer only, and the console in runs of one process without  *)
(* faults, whose entries all reach the monitor.                            *)
(***************************************************************************)
EXTENDS ConsoleEvents

MCNext ==
  /\ Next
  /\ lost' # {} \/ task' = "gone" => client = "go"
  /\ console' # "before" =>
       client = "go" /\ process' = 1 /\ logFaults' = 0 /\ lost' = {}

MCSpec == Init /\ [][MCNext]_vars /\ Fairness

=============================================================================
