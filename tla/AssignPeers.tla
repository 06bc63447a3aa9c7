---------------------------- MODULE AssignPeers ----------------------------
(***************************************************************************)
(* assign_peers: which host every peer of a test runs on, and on which     *)
(* port.  A peer is its rank in the alphabetical order of the names, a     *)
(* host its position in the configuration.  Peers that require the same    *)
(* tags form a group; the groups are served in the order of their tag      *)
(* lists, each round-robin over the hosts that have its tags, and all of   *)
(* them take their ports from one counter per host.                        *)
(*                                                                         *)
(* The configuration is part of the state and never changes, so that one   *)
(* run covers every small configuration.                                   *)
(*                                                                         *)
(* A definition Name_Change is a mutant of Name: a change that a bug could *)
(* make and that some property must notice.  No specification uses it.     *)
(***************************************************************************)
EXTENDS Naturals, Sequences, FiniteSets

CONSTANTS
  NPeers,      \* how many peers the configuration has
  NHosts,      \* how many hosts
  Tag,         \* the tags of hosts
  GroupTags,   \* the tags each group requires, in the order of the groups
  Ports,       \* how many port numbers there are (65536)
  BasePort     \* the values of base_port

ASSUME AssignAssumption ==
  /\ NPeers \in Nat /\ NHosts \in Nat /\ Ports \in Nat
  /\ GroupTags \in Seq(SUBSET Tag)
  /\ NPeers <= Ports
  /\ BasePort \subseteq 0 .. Ports - 1

APeer == 1 .. NPeers
Host  == 1 .. NHosts
Group == 1 .. Len(GroupTags)
Port  == 0 .. Ports - 1

VARIABLES
  group,       \* configuration: the group of a peer (its runs_on, sorted)
  hostTags,    \* configuration: the tags of a host
  basePort,    \* configuration: the first port of a host
  checked,     \* the build traps an overflow (debug) or wraps (release)
  hostOf,      \* the host of a peer, 0 before it has one
  portOf,      \* its port, 0 before it has one
  counters,    \* port_counters: how many ports of a host are taken
  outcome      \* "running", "ok", "err" or "panicked"

configVars == <<group, hostTags, basePort, checked>>
assignVars == <<group, hostTags, basePort, checked, hostOf, portOf, counters,
                outcome>>

AssignInit ==
  /\ group \in [APeer -> Group]
  /\ hostTags \in [Host -> SUBSET Tag]
  /\ basePort \in [Host -> BasePort]
  /\ checked \in BOOLEAN
  /\ hostOf = [p \in APeer |-> 0]
  /\ portOf = [p \in APeer |-> 0]
  /\ counters = [h \in Host |-> 0]
  /\ outcome = "running"

(* The hosts that have all the tags of a group.                            *)
Matching(g) == {h \in Host : GroupTags[g] \subseteq hostTags[h]}

(* The peer whose turn it is: the first of the first group not yet served. *)
Assigned == {p \in APeer : hostOf[p] # 0}
Before(p, q) == group[p] < group[q] \/ (group[p] = group[q] /\ p < q)
Turn(p) == p \notin Assigned
           /\ \A q \in APeer \ Assigned : q # p => Before(p, q)

(* matching_indices[i % len] for the i-th peer of its group.               *)
RoundRobin_Global(p, h) ==                              \* mutant
  Cardinality({j \in Matching(group[p]) : j < h})
    = (p - 1) % Cardinality(Matching(group[p]))

RoundRobin_FromOne(p, h) ==                             \* mutant
  Cardinality({j \in Matching(group[p]) : j <= h})
    = Cardinality({q \in APeer : group[q] = group[p] /\ q < p})
        % Cardinality(Matching(group[p]))

RoundRobin(p, h) ==
  Cardinality({j \in Matching(group[p]) : j < h})
    = Cardinality({q \in APeer : group[q] = group[p] /\ q < p})
        % Cardinality(Matching(group[p]))

Wrap_Never(n) == n                                      \* mutant

Wrap(n) == IF n < Ports THEN n ELSE n - Ports

(* The port is computed before the peer has its assignment: a build that   *)
(* checks its arithmetic ends here, any other takes a port from 0 up.      *)
Assign_PerGroup(p) ==                                   \* mutant
  /\ outcome = "running" /\ Turn(p)
  /\ \E h \in Matching(group[p]) :
       LET mine == {q \in Assigned : hostOf[q] = h /\ group[q] = group[p]}
           port == basePort[h] + Cardinality(mine)
       IN
       /\ RoundRobin(p, h)
       /\ port < Ports \/ ~checked
       /\ hostOf' = [hostOf EXCEPT ![p] = h]
       /\ portOf' = [portOf EXCEPT ![p] = Wrap(port)]
       /\ counters' = [counters EXCEPT ![h] = @ + 1]
  /\ UNCHANGED <<outcome, configVars>>

Assign(p) ==
  /\ outcome = "running" /\ Turn(p)
  /\ \E h \in Matching(group[p]) :
       /\ RoundRobin(p, h)
       /\ basePort[h] + counters[h] < Ports \/ ~checked
       /\ hostOf' = [hostOf EXCEPT ![p] = h]
       /\ portOf' = [portOf EXCEPT ![p] = Wrap(basePort[h] + counters[h])]
       /\ counters' = [counters EXCEPT ![h] = @ + 1]
  /\ UNCHANGED <<outcome, configVars>>

Overflow(p) ==
  /\ outcome = "running" /\ Turn(p) /\ checked
  /\ \E h \in Matching(group[p]) :
       RoundRobin(p, h) /\ basePort[h] + counters[h] >= Ports
  /\ outcome' = "panicked"
  /\ UNCHANGED <<hostOf, portOf, counters, configVars>>

(* no host matches tags ... required by peer(s) ...                        *)
NoHost(p) ==
  /\ outcome = "running" /\ Turn(p) /\ Matching(group[p]) = {}
  /\ outcome' = "err"
  /\ UNCHANGED <<hostOf, portOf, counters, configVars>>

Done ==
  /\ outcome = "running" /\ Assigned = APeer
  /\ outcome' = "ok"
  /\ UNCHANGED <<hostOf, portOf, counters, configVars>>

AssignNext ==
  \/ \E p \in APeer : Assign(p) \/ Overflow(p) \/ NoHost(p)
  \/ Done

AssignSpec == AssignInit /\ [][AssignNext]_assignVars

-----------------------------------------------------------------------------
(* Properties.                                                             *)

On(h) == {p \in Assigned : hostOf[p] = h}

AssignTypeOK ==
  /\ group \in [APeer -> Group]
  /\ hostTags \in [Host -> SUBSET Tag]
  /\ basePort \in [Host -> BasePort]
  /\ checked \in BOOLEAN
  /\ hostOf \in [APeer -> 0 .. NHosts]
  /\ portOf \in [APeer -> Port \cup {0}]
  /\ counters \in [Host -> 0 .. NPeers]
  /\ outcome \in {"running", "ok", "err", "panicked"}

(* "unique ports per host": no two peers of one entry of "hosts" listen on *)
(* one port, although groups that overlap share the hosts, and even when   *)
(* the ports wrap (config.rs:303).                                         *)
PortsUnique ==
  \A p, q \in Assigned :
    p # q /\ hostOf[p] = hostOf[q] => portOf[p] # portOf[q]

(* Every group is spread evenly over the hosts that have its tags, and     *)
(* over no other host: two of them never differ by more than one peer of   *)
(* the group (config.rs:299).                                              *)
Load(g, h) == Cardinality({p \in On(h) : group[p] = g})
Balanced ==
  \A g \in Group :
    /\ \A h \in Host \ Matching(g) : Load(g, h) = 0
    /\ \A h, k \in Matching(g) : Load(g, h) <= Load(g, k) + 1

=============================================================================
