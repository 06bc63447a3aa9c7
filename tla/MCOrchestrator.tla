--------------------------- MODULE MCOrchestrator ---------------------------
(***************************************************************************)
(* Constants for the runs of Orchestrator: a Rust peer (rust), whose       *)
(* program may start without a multiaddr, and a Python one (py), which is  *)
(* bootstrapped from it.                                                   *)
(***************************************************************************)
EXTENDS Orchestrator

CONSTANTS rust, py

MCPeers    == {rust, py}
MCPlain    == {rust}
MCPrefetch == {rust}
MCSeq      == <<rust, py>>
MCBoot     == << <<py, rust>> >>

(* One batch, that restarts the Rust peer or sends the other one a command. *)
MCRestartOne == << << <<rust, "restart">> >> >>
MCOneCommand == << << <<py, "other">> >> >>

MCNoStale == {NoRaw}
MCStale   == {NoRaw, Client!Bare, [base |-> "started", addr |-> OldAddr]}

-----------------------------------------------------------------------------
(* The Rust peer reports its multiaddr before the timeline begins, or not  *)
(* at all.  When it has, the run is followed until the timeline begins.    *)
Starting == main \in {"startTop", "startCheck", "bootWait", "bootSend"}

Reported ==
  \E k \in 1 .. Len(writes[rust]) : writes[rust][k] = Client!Started(rust)

EarlyOrNever ==
  /\ Reported => ~TestRuns
  /\ Reported' => Reported \/ Starting

(* Only the Rust peer took part in an earlier run.                         *)
MCOldInit == Init /\ \A p \in Peer : oldSent[p] > 0 <=> p = rust

MCOldSpec == MCOldInit /\ [][Next]_vars /\ LiveFairness

=============================================================================
