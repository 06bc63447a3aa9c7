--------------------------- MODULE MCPeerMonitor ---------------------------
(***************************************************************************)
(* Constants for the runs of PeerMonitor.  The code compares the words of  *)
(* Base with "started" only, and a level with those of tracing: one of     *)
(* each kind is enough.                                                    *)
(***************************************************************************)
EXTENDS PeerMonitor

MCBase     == {"started", "connected"}
MCLevel    == {"error", "notice"}
MCOneLevel == {"notice"}

=============================================================================
