----------------------------- MODULE PeerStatus -----------------------------
(***************************************************************************)
(* The raw statuses a peer SETs on its {peer}_status key, and what the     *)
(* orchestrator's PeerState keeps of one.                                  *)
(***************************************************************************)
CONSTANTS
  Base,      \* status words: "started", "restarting", "stopped", ...
  Addr,      \* multiaddrs a "started" status may carry
  NoAddr     \* the status has no "|<multiaddr>" part, or none is known

ASSUME StatusAssumption ==
  /\ "unknown" \notin Base
  /\ NoAddr \notin Addr

(* "<word>|<multiaddr>" split at its first bar.                            *)
Raw == [base : Base, addr : Addr \cup {NoAddr}]

(* PeerState.peer_info after raw status r, when it was old before.         *)
InfoAfter(r, old) ==
  IF r.base = "started" /\ r.addr # NoAddr THEN r.addr ELSE old

=============================================================================
