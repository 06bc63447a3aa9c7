----------------------------- MODULE StatusView -----------------------------
(***************************************************************************)
(* What the orchestrator is promised about the status of one peer.         *)
(*                                                                         *)
(* A peer SETs a Redis string key to a succession of raw statuses; the     *)
(* orchestrator's shared PeerState shows one of them.  The view may skip   *)
(* statuses (a GET returns only the newest), it never goes back to an      *)
(* older SET, it moves only to a status that differs from the one shown,   *)
(* and as long as the newest status differs from the one shown, the view   *)
(* goes on moving forward.  PeerMonitor implements this specification.     *)
(***************************************************************************)
EXTENDS Naturals, Sequences, PeerStatus

VARIABLES
  writes,    \* every value SET on {peer}_status, oldest first
  seen,      \* the index in writes of the status shown, 0 before the first
  status,    \* PeerState.statuses: the word shown, "unknown" when absent
  info       \* PeerState.peer_info: the multiaddr known, NoAddr when absent

vars == <<writes, seen, status, info>>

Init ==
  /\ writes \in {<<>>} \cup {<<r>> : r \in Raw}   \* Redis may hold an old one
  /\ seen = 0
  /\ status = "unknown"
  /\ info = NoAddr

SetStatus(r) ==
  /\ writes' = Append(writes, r)
  /\ UNCHANGED <<seen, status, info>>

Observe(i) ==
  /\ seen = 0 \/ writes[i] # writes[seen]
  /\ seen' = i
  /\ status' = writes[i].base
  /\ info' = InfoAfter(writes[i], info)
  /\ UNCHANGED writes

ObserveLater == \E i \in (seen + 1) .. Len(writes) : Observe(i)

Next == (\E r \in Raw : SetStatus(r)) \/ ObserveLater

SafeSpec == Init /\ [][Next]_vars

(* The newest SET differs from the status shown.                           *)
Behind ==
  /\ writes # <<>>
  /\ seen = 0 \/ writes[Len(writes)] # writes[seen]

Spec == SafeSpec /\ WF_vars(Behind /\ ObserveLater)

=============================================================================
