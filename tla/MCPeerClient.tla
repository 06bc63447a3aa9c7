---------------------------- MODULE MCPeerClient ----------------------------
(***************************************************************************)
(* Peers do not interact: each run of a peer is looked at alone, and who   *)
(* is the one that is launched.                                            *)
(***************************************************************************)
EXTENDS PeerClient

VARIABLE who

mcVars == <<clientVars, who>>

MCInit == Init /\ who \in Peer

MCNext ==
  /\ Launch(who) \/ Send(who) \/ Step(who) \/ Fault(who)
  /\ UNCHANGED who

MCSpec == MCInit /\ [][MCNext]_mcVars

(* Nothing of a peer that is never launched is enabled but its launch.     *)
MCLiveSpec ==
  /\ MCSpec
  /\ \A p \in Peer :
       PeerFairness(p) /\ WF_clientVars(who = p /\ Launch(p))

=============================================================================
