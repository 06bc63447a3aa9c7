-------------------------- MODULE AssignPeersProofs -------------------------
(***************************************************************************)
(* Proofs about AssignPeers, for any number of peers, hosts, tags, groups  *)
(* and ports: ports are unique per host entry, also when they wrap.        *)
(*                                                                         *)
(* PortsUnique is not inductive: that the next port differs from those     *)
(* taken needs that they are the ports up to the counter (Numbered), and   *)
(* that the counter has not gone once around, which holds since no host    *)
(* has more peers than there are peers (Counted) and no configuration has  *)
(* more peers than there are ports (AssignAssumption).                     *)
(***************************************************************************)
EXTENDS AssignPeers, FiniteSetTheorems, TLAPS

Typed ==
  /\ group \in [APeer -> Group]
  /\ hostTags \in [Host -> SUBSET Tag]
  /\ basePort \in [Host -> BasePort]
  /\ checked \in BOOLEAN
  /\ hostOf \in [APeer -> 0 .. NHosts]
  /\ portOf \in [APeer -> Port \cup {0}]
  /\ counters \in [Host -> Nat]
  /\ outcome \in {"running", "ok", "err", "panicked"}

Counted == \A h \in Host : counters[h] <= Cardinality(Assigned)

Numbered ==
  \A p \in Assigned : \E k \in Nat :
    /\ k < counters[hostOf[p]]
    /\ portOf[p] = Wrap(basePort[hostOf[p]] + k)

AssignInv == Typed /\ Counted /\ Numbered /\ PortsUnique

-----------------------------------------------------------------------------

(* Two numbers less than Ports apart do not wrap to the same port.         *)
LEMMA WrapUnique ==
  ASSUME NEW b \in 0 .. Ports - 1, NEW j \in Nat, NEW k \in Nat,
         j < k, k < Ports
  PROVE  Wrap(b + j) # Wrap(b + k)
BY AssignAssumption DEF Wrap

(* A wrapped port is a port number.                                        *)
LEMMA WrapType ==
  ASSUME NEW b \in 0 .. Ports - 1, NEW k \in Nat, k < Ports
  PROVE  Wrap(b + k) \in Port
BY AssignAssumption DEF Wrap, Port

(* While a peer has no host, fewer than NPeers have one.                   *)
LEMMA AssignedCount ==
  /\ IsFiniteSet(Assigned) /\ Cardinality(Assigned) \in Nat
  /\ Cardinality(Assigned) <= NPeers
  /\ \A p \in APeer \ Assigned : Cardinality(Assigned) < NPeers
<1>1. IsFiniteSet(APeer) /\ Cardinality(APeer) = NPeers
  <2>1. 1 \in Int /\ NPeers \in Int /\ NPeers \in Nat  BY AssignAssumption
  <2>2. /\ IsFiniteSet(1 .. NPeers)
        /\ Cardinality(1 .. NPeers)
             = IF 1 > NPeers THEN 0 ELSE NPeers - 1 + 1
    BY <2>1, FS_Interval
  <2> QED  BY <2>1, <2>2 DEF APeer
<1>2. Assigned \subseteq APeer  BY DEF Assigned
<1>3. IsFiniteSet(Assigned) /\ Cardinality(Assigned) <= NPeers
  BY <1>1, <1>2, FS_Subset
<1>4. Cardinality(Assigned) \in Nat  BY <1>3, FS_CardinalityType
<1>5. ASSUME NEW p \in APeer \ Assigned
      PROVE  Cardinality(Assigned) < NPeers
  <2>1. Assigned # APeer  BY <1>5
  <2>2. Cardinality(Assigned) # Cardinality(APeer)
    BY <1>1, <1>2, <2>1, FS_Subset
  <2> QED  BY <1>1, <1>3, <1>4, <2>2, AssignAssumption
<1> QED  BY <1>3, <1>4, <1>5

(* Before the first assignment nothing is taken.                           *)
LEMMA InitInv == AssignInit => AssignInv
<1> SUFFICES ASSUME AssignInit PROVE AssignInv  OBVIOUS
<1>1. Assigned = {}  BY DEF AssignInit, Assigned
<1>2. Typed  BY AssignAssumption DEF AssignInit, Typed, Host, APeer
<1>3. Counted  BY <1>1, FS_EmptySet DEF AssignInit, Counted
<1>4. Numbered /\ PortsUnique  BY <1>1 DEF Numbered, PortsUnique
<1> QED  BY <1>2, <1>3, <1>4 DEF AssignInv

-----------------------------------------------------------------------------

(* An assignment: the new peer gets the port of its host's counter.        *)
LEMMA AssignStep ==
  ASSUME AssignInv, NEW p \in APeer, Assign(p)
  PROVE  AssignInv'
<1>1. PICK h \in Host :
        /\ hostOf' = [hostOf EXCEPT ![p] = h]
        /\ portOf' = [portOf EXCEPT ![p] = Wrap(basePort[h] + counters[h])]
        /\ counters' = [counters EXCEPT ![h] = @ + 1]
  BY DEF Assign, Matching
<1>2. p \in APeer \ Assigned /\ UNCHANGED <<outcome, configVars>>
  BY DEF Assign, Turn
<1>3. h # 0 /\ h \in 0 .. NHosts  BY AssignAssumption DEF Host
<1>4. Assigned' = Assigned \cup {p}
  BY <1>1, <1>3 DEF AssignInv, Typed, Assigned
<1>5. Cardinality(Assigned') = Cardinality(Assigned) + 1
  BY <1>2, <1>4, AssignedCount, FS_AddElement
<1>6. counters[h] \in Nat /\ counters[h] < Ports
  <2>1. counters[h] \in Nat /\ counters[h] <= Cardinality(Assigned)
    BY DEF AssignInv, Typed, Counted
  <2> QED  BY <1>2, <2>1, AssignedCount, AssignAssumption
<1>7. basePort[h] \in 0 .. Ports - 1
  BY AssignAssumption DEF AssignInv, Typed
<1>8. Typed'
  <2>1. Wrap(basePort[h] + counters[h]) \in Port  BY <1>6, <1>7, WrapType
  <2>2. hostOf' \in [APeer -> 0 .. NHosts]
    BY <1>1, <1>3 DEF AssignInv, Typed
  <2>3. portOf' \in [APeer -> Port \cup {0}]
    BY <1>1, <2>1 DEF AssignInv, Typed
  <2>4. counters' \in [Host -> Nat]  BY <1>1, <1>6 DEF AssignInv, Typed
  <2> QED  BY <1>2, <2>2, <2>3, <2>4 DEF AssignInv, Typed, configVars
<1>9. Counted'
  BY <1>1, <1>5, AssignedCount DEF AssignInv, Typed, Counted
<1>10. Numbered'
  <2> SUFFICES ASSUME NEW q \in Assigned'
               PROVE  \E k \in Nat :
                        /\ k < counters'[hostOf'[q]]
                        /\ portOf'[q] = Wrap(basePort'[hostOf'[q]] + k)
    BY DEF Numbered
  <2>1. CASE q = p
    BY <2>1, <1>1, <1>2, <1>6 DEF AssignInv, Typed, configVars
  <2>2. CASE q # p
    <3>1. q \in Assigned /\ hostOf'[q] = hostOf[q] /\ portOf'[q] = portOf[q]
      BY <2>2, <1>1, <1>4 DEF AssignInv, Typed, Assigned
    <3>2. PICK k \in Nat : /\ k < counters[hostOf[q]]
                           /\ portOf[q] = Wrap(basePort[hostOf[q]] + k)
      BY <3>1 DEF AssignInv, Numbered
    <3>3. hostOf[q] \in Host
      BY <3>1, AssignAssumption DEF AssignInv, Typed, Assigned, Host
    <3>4. counters'[hostOf[q]] >= counters[hostOf[q]]
      BY <1>1, <3>3 DEF AssignInv, Typed
    <3>5. k < counters'[hostOf[q]]
      BY <1>1, <3>2, <3>3, <3>4 DEF AssignInv, Typed
    <3> QED  BY <1>2, <3>1, <3>2, <3>5 DEF configVars
  <2> QED  BY <2>1, <2>2
<1>11. PortsUnique'
  <2>1. ASSUME NEW q \in Assigned, hostOf[q] = h
        PROVE  portOf[q] # portOf'[p]
    <3>1. PICK k \in Nat : k < counters[h] /\ portOf[q] = Wrap(basePort[h] + k)
      BY <2>1 DEF AssignInv, Numbered
    <3>2. Wrap(basePort[h] + k) # Wrap(basePort[h] + counters[h])
      BY <3>1, <1>6, <1>7, WrapUnique
    <3> QED  BY <1>1, <3>1, <3>2 DEF AssignInv, Typed
  <2>2. \A q \in Assigned : /\ q # p /\ q \in APeer
                            /\ hostOf'[q] = hostOf[q]
                            /\ portOf'[q] = portOf[q]
    BY <1>1, <1>2 DEF AssignInv, Typed, Assigned
  <2>3. hostOf'[p] = h  BY <1>1 DEF AssignInv, Typed
  <2> QED
    BY <2>1, <2>2, <2>3, <1>4 DEF AssignInv, PortsUnique
<1> QED  BY <1>8, <1>9, <1>10, <1>11 DEF AssignInv

(* Every step of assign_peers keeps the invariant.                         *)
LEMMA StepInv == AssignInv /\ [AssignNext]_assignVars => AssignInv'
<1> SUFFICES ASSUME AssignInv, [AssignNext]_assignVars PROVE AssignInv'
  OBVIOUS
<1>1. ASSUME NEW p \in APeer, Assign(p) PROVE AssignInv'
  BY <1>1, AssignStep
<1>2. ASSUME UNCHANGED <<hostOf, portOf, counters, configVars>>,
             outcome' \in {"running", "ok", "err", "panicked"}
      PROVE  AssignInv'
  BY <1>2 DEF AssignInv, Typed, Counted, Numbered, PortsUnique, Assigned,
              Wrap, configVars
<1>3. ASSUME NEW p \in APeer, Overflow(p) PROVE AssignInv'
  BY <1>2, <1>3 DEF Overflow
<1>4. ASSUME NEW p \in APeer, NoHost(p) PROVE AssignInv'
  BY <1>2, <1>4 DEF NoHost
<1>5. CASE Done  BY <1>2, <1>5 DEF Done
<1>6. CASE UNCHANGED assignVars
  BY <1>2, <1>6 DEF assignVars, configVars, AssignInv, Typed
<1> QED  BY <1>1, <1>3, <1>4, <1>5, <1>6 DEF AssignNext

(* The invariant holds in every state.                                     *)
LEMMA AssignInvariant == AssignSpec => []AssignInv
BY InitInv, StepInv, PTL DEF AssignSpec

-----------------------------------------------------------------------------

(* assign_peers keeps its types: in particular no counter exceeds the      *)
(* number of peers, and every port is a port number (config.rs:303).       *)
THEOREM AssignTypes == AssignSpec => []AssignTypeOK
<1>1. AssignInv => AssignTypeOK
  <2> SUFFICES ASSUME AssignInv PROVE AssignTypeOK  OBVIOUS
  <2>1. ASSUME NEW h \in Host PROVE counters[h] \in 0 .. NPeers
    BY AssignedCount, AssignAssumption DEF AssignInv, Typed, Counted
  <2>2. counters \in [Host -> 0 .. NPeers]  BY <2>1 DEF AssignInv, Typed
  <2> QED  BY <2>2 DEF AssignInv, Typed, AssignTypeOK
<1> QED  BY <1>1, AssignInvariant, PTL

(* "unique ports per host", for every configuration, also when base_port   *)
(* plus an offset passes the last port and wraps (config.rs:303).          *)
THEOREM PortsAreUnique == AssignSpec => []PortsUnique
<1>1. AssignInv => PortsUnique  BY DEF AssignInv
<1> QED  BY <1>1, AssignInvariant, PTL


-----------------------------------------------------------------------------
(* Balanced.  What the loads of a group are after n of its peers: every    *)
(* host has had k full rounds, and the first r of them one peer more,      *)
(* where n = k * m + r for the m hosts of the group.  The round-robin index *)
(* of a peer counts the peers of its group before it in the alphabet; that *)
(* these are the peers of the group already served is what the order of    *)
(* service gives (InTurn).                                                 *)

Rank(g, h) == Cardinality({j \in Matching(g) : j < h})
Served(g)  == {p \in Assigned : group[p] = g}

InTurn ==
  \A q \in Assigned : \A p \in APeer : Before(p, q) => p \in Assigned

Fitting == \A p \in Assigned : hostOf[p] \in Matching(group[p])

RoundsOf(g, k, r) ==
  /\ Cardinality(Served(g)) = k * Cardinality(Matching(g)) + r
  /\ r < Cardinality(Matching(g))
  /\ \A h \in Matching(g) :
       Load(g, h) = k + (IF Rank(g, h) < r THEN 1 ELSE 0)

Rounds ==
  \A g \in Group :
    Matching(g) # {} => \E k, r \in Nat : RoundsOf(g, k, r)

SpreadInv == AssignInv /\ InTurn /\ Fitting /\ Rounds

(* k full rounds and r more leave the remainder r.                         *)
LEMMA Remainder ==
  ASSUME NEW m \in Nat \ {0}, NEW k \in Nat, NEW r \in Nat, r < m
  PROVE  (k * m + r) % m = r
<1> DEFINE n == k * m + r
           e == n % m
           d == n \div m
<1>1. k * m \in Nat /\ n \in Nat
  BY SMT
<1> HIDE DEF n
<1>2. d \in Int /\ e \in 0 .. m - 1 /\ n = m * d + e
  BY <1>1, SMT
<1>3. n = k * m + r  BY DEF n
<1> HIDE DEF d, e
<1>4. ASSUME d > k PROVE FALSE
  <2>1. m * d = m * k + m * (d - k)  BY <1>2, SMT
  <2>2. m * (d - k) >= m  BY <1>2, <1>4, SMT
  <2>3. m * k = k * m  BY SMT
  <2>4. m * k \in Int /\ m * d \in Int /\ m * (d - k) \in Int
    BY <1>2, SMT
  <2> QED  BY <1>1, <1>2, <1>3, <2>1, <2>2, <2>3, <2>4
<1>5. ASSUME d < k PROVE FALSE
  <2>1. m * k = m * d + m * (k - d)  BY <1>2, SMT
  <2>2. m * (k - d) >= m  BY <1>2, <1>5, SMT
  <2>3. m * k = k * m  BY SMT
  <2>4. m * k \in Int /\ m * d \in Int /\ m * (k - d) \in Int
    BY <1>2, SMT
  <2> QED  BY <1>1, <1>2, <1>3, <2>1, <2>2, <2>3, <2>4
<1>6. d = k  BY <1>2, <1>4, <1>5
<1>7. m * k = k * m /\ m * k \in Int  BY SMT
<1>8. e = r  BY <1>1, <1>2, <1>3, <1>6, <1>7
<1> QED  BY <1>8 DEF e, n

(* A set of hosts, or of peers, is finite.                                 *)
LEMMA FiniteHosts ==
  ASSUME NEW g \in Group
  PROVE  /\ IsFiniteSet(Matching(g)) /\ Cardinality(Matching(g)) \in Nat
         /\ Matching(g) # {} => Cardinality(Matching(g)) \in Nat \ {0}
<1>1. IsFiniteSet(Host)
  <2>1. 1 \in Int /\ NHosts \in Int  BY AssignAssumption
  <2> QED  BY <2>1, FS_Interval DEF Host
<1>2. IsFiniteSet(Matching(g))  BY <1>1, FS_Subset DEF Matching
<1> QED  BY <1>2, FS_CardinalityType, FS_EmptySet

(* The ranks of the hosts of a group are different and below their number. *)
LEMMA RankUnique ==
  ASSUME NEW g \in Group, NEW h \in Matching(g)
  PROVE  /\ Rank(g, h) \in Nat /\ Rank(g, h) < Cardinality(Matching(g))
         /\ \A k \in Matching(g) : k # h => Rank(g, k) # Rank(g, h)
<1> DEFINE Below(k) == {j \in Matching(g) : j < k}
<1>1. IsFiniteSet(Matching(g)) /\ Cardinality(Matching(g)) \in Nat
  BY FiniteHosts
<1>2. \A k \in Matching(g) : k \in Int
  BY AssignAssumption DEF Matching, Host
<1>3. \A k \in Matching(g) : IsFiniteSet(Below(k)) /\ Rank(g, k) \in Nat
  BY <1>1, FS_Subset, FS_CardinalityType DEF Rank
<1>4. ASSUME NEW k \in Matching(g), NEW S \in SUBSET Matching(g),
             Below(k) \subseteq S, k \in S
      PROVE  Rank(g, k) < Cardinality(S)
  <2>1. k \notin Below(k)  BY <1>2
  <2>2. IsFiniteSet(S)  BY <1>1, FS_Subset
  <2>3. Below(k) # S  BY <1>4, <2>1
  <2>4. Cardinality(S) \in Nat  BY <2>2, FS_CardinalityType
  <2>5. Cardinality(Below(k)) <= Cardinality(S)  BY <1>4, <2>2, FS_Subset
  <2>6. Cardinality(Below(k)) # Cardinality(S)
    BY <1>4, <2>2, <2>3, FS_Subset
  <2> QED  BY <1>3, <2>4, <2>5, <2>6 DEF Rank
<1>5. Rank(g, h) < Cardinality(Matching(g))
  <2>1. Below(h) \subseteq Matching(g) /\ Matching(g) \in SUBSET Matching(g)
    OBVIOUS
  <2> QED  BY <1>4, <2>1
<1>6. ASSUME NEW j \in Matching(g), NEW k \in Matching(g), j < k
      PROVE  Rank(g, j) < Rank(g, k)
  <2>1. Below(j) \subseteq Below(k) /\ j \in Below(k)  BY <1>2, <1>6
  <2>2. Below(k) \in SUBSET Matching(g)  OBVIOUS
  <2> HIDE DEF Below
  <2>3. Rank(g, j) < Cardinality(Below(k))  BY <1>4, <2>1, <2>2
  <2> QED  BY <2>3 DEF Rank, Below
<1>7. ASSUME NEW k \in Matching(g), k # h PROVE Rank(g, k) # Rank(g, h)
  <2>1. k < h \/ h < k  BY <1>2, <1>7
  <2>2. Rank(g, k) < Rank(g, h) \/ Rank(g, h) < Rank(g, k)  BY <1>6, <2>1
  <2>3. Rank(g, k) \in Nat /\ Rank(g, h) \in Nat  BY <1>3
  <2> QED  BY <2>2, <2>3
<1> QED  BY <1>3, <1>5, <1>7

(* The peers a peer's index counts are the peers of its group that have    *)
(* been served when its turn comes.                                        *)
LEMMA IndexIsServed ==
  ASSUME AssignInv, InTurn, NEW p \in APeer, Turn(p)
  PROVE  {q \in APeer : group[q] = group[p] /\ q < p} = Served(group[p])
<1>1. \A q \in APeer : q \in Int  BY AssignAssumption DEF APeer
<1>2. ASSUME NEW q \in APeer, group[q] = group[p], q < p
      PROVE  q \in Assigned
  <2>1. group[p] \in Nat
    BY AssignAssumption DEF AssignInv, Typed, Group
  <2>2. ~ Before(p, q)  BY <1>1, <1>2, <2>1 DEF Before
  <2>3. q # p  BY <1>1, <1>2
  <2> QED  BY <2>2, <2>3 DEF Turn
<1>3. ASSUME NEW q \in Assigned, group[q] = group[p]
      PROVE  q \in APeer /\ q < p
  <2>1. q \in APeer /\ q # p  BY DEF Assigned, Turn
  <2>2. ~ Before(p, q)  BY DEF InTurn, Turn
  <2> QED  BY <1>1, <1>3, <2>1, <2>2 DEF Before
<1> QED  BY <1>2, <1>3 DEF Served


(* An assignment hands the group's next peer to the host of rank r: it     *)
(* goes from r to r + 1, or, at the last host, to the next round.          *)
LEMMA AssignSpread ==
  ASSUME SpreadInv, NEW p \in APeer, Assign(p)
  PROVE  InTurn' /\ Fitting' /\ Rounds'
<1> DEFINE c == group[p]
<1>1. PICK h \in Matching(c) :
        RoundRobin(p, h) /\ hostOf' = [hostOf EXCEPT ![p] = h]
  BY DEF Assign
<1>2. /\ p \in APeer \ Assigned /\ Turn(p)
      /\ UNCHANGED <<group, hostTags, basePort, checked>>
  BY DEF Assign, Turn, configVars
<1>3. h # 0  BY AssignAssumption DEF Matching, Host
<1>4. Assigned' = Assigned \cup {p}
  BY <1>1, <1>3 DEF SpreadInv, AssignInv, Typed, Assigned
<1>5. \A g \in Group : Matching(g)' = Matching(g)  BY <1>2 DEF Matching
<1>6. \A q \in Assigned : q # p /\ q \in APeer /\ hostOf'[q] = hostOf[q]
  BY <1>1, <1>2 DEF SpreadInv, AssignInv, Typed, Assigned
<1>7. hostOf'[p] = h /\ c \in Group
  BY <1>1 DEF SpreadInv, AssignInv, Typed
<1>8. InTurn'
  <2>1. \A q, r \in APeer : Before(q, r)' = Before(q, r)
    BY <1>2 DEF Before
  <2>2. ASSUME NEW q \in APeer, Before(q, p) PROVE q \in Assigned
    <3>1. \A x \in APeer : group[x] \in Nat /\ x \in Nat
      BY AssignAssumption DEF SpreadInv, AssignInv, Typed, Group, APeer
    <3>2. q # p /\ ~ Before(p, q)  BY <2>2, <3>1 DEF Before
    <3> QED  BY <1>2, <3>2 DEF Turn
  <2> SUFFICES ASSUME NEW q \in Assigned', NEW x \in APeer, Before(x, q)'
               PROVE  x \in Assigned'
    BY DEF InTurn
  <2> QED  BY <1>4, <1>6, <2>1, <2>2 DEF SpreadInv, InTurn
<1>9. Fitting'
  <2> SUFFICES ASSUME NEW q \in Assigned'
               PROVE  hostOf'[q] \in Matching(group[q])'
    BY <1>2 DEF Fitting
  <2>1. group[q] \in Group
    BY <1>4, <1>6, <1>7 DEF SpreadInv, AssignInv, Typed
  <2>2. Matching(group[q])' = Matching(group[q])
    BY <1>2, <1>5, <2>1 DEF Matching
  <2>3. hostOf'[q] \in Matching(group[q])
    BY <1>4, <1>6, <1>7 DEF SpreadInv, Fitting
  <2> QED  BY <2>2, <2>3
<1>10. \A g \in Group, k \in Host :
         /\ {q \in On(k) : group[q] = g}' =
              IF g = c /\ k = h THEN {q \in On(k) : group[q] = g} \cup {p}
                                ELSE {q \in On(k) : group[q] = g}
         /\ p \notin On(k) /\ IsFiniteSet({q \in On(k) : group[q] = g})
  <2> SUFFICES ASSUME NEW g \in Group, NEW k \in Host
               PROVE  /\ {q \in On(k) : group[q] = g}' =
                           IF g = c /\ k = h
                             THEN {q \in On(k) : group[q] = g} \cup {p}
                             ELSE {q \in On(k) : group[q] = g}
                      /\ p \notin On(k)
                      /\ IsFiniteSet({q \in On(k) : group[q] = g})
    OBVIOUS
  <2>1. p \notin On(k)  BY <1>2 DEF On
  <2>2. IsFiniteSet({q \in On(k) : group[q] = g})
    BY AssignedCount, FS_Subset DEF On
  <2>3. On(k)' = IF k = h THEN On(k) \cup {p} ELSE On(k)
    BY <1>4, <1>6, <1>7 DEF On
  <2>4. {q \in On(k) : group[q] = g}' = {q \in On(k)' : group[q] = g}
    BY <1>2
  <2>5. CASE k = h
    BY <2>1, <2>2, <2>3, <2>4, <2>5
  <2>6. CASE k # h  BY <2>1, <2>2, <2>3, <2>4, <2>6
  <2> QED  BY <2>1, <2>2, <2>5, <2>6
<1>11. \A g \in Group, k \in Host :
         /\ Load(g, k) \in Nat
         /\ Load(g, k)' =
              Load(g, k) + (IF g = c /\ k = h THEN 1 ELSE 0)
  <2> SUFFICES ASSUME NEW g \in Group, NEW k \in Host
               PROVE  /\ Load(g, k) \in Nat
                      /\ Load(g, k)' = Load(g, k)
                           + (IF g = c /\ k = h THEN 1 ELSE 0)
    OBVIOUS
  <2> DEFINE S == {q \in On(k) : group[q] = g}
  <2>1. IsFiniteSet(S) /\ p \notin S  BY <1>10
  <2>2. Load(g, k) = Cardinality(S) /\ Load(g, k)' = Cardinality(S')
    BY DEF Load
  <2>3. S' = IF g = c /\ k = h THEN S \cup {p} ELSE S  BY <1>10
  <2> HIDE DEF S
  <2>4. Cardinality(S) \in Nat /\ Cardinality(S \cup {p}) = Cardinality(S) + 1
    BY <2>1, FS_CardinalityType, FS_AddElement
  <2> QED  BY <2>2, <2>3, <2>4
<1>12. \A g \in Group :
         Served(g)' = IF g = c THEN Served(g) \cup {p} ELSE Served(g)
  BY <1>2, <1>4 DEF Served
<1>13. Rounds'
  <2> SUFFICES ASSUME NEW g \in Group, Matching(g) # {}
               PROVE  \E k, r \in Nat : RoundsOf(g, k, r)'
    BY <1>5 DEF Rounds
  <2>1. PICK k \in Nat, r \in Nat : RoundsOf(g, k, r)
    BY DEF SpreadInv, Rounds
  <2>2. /\ Matching(g)' = Matching(g)
        /\ \A j \in Matching(g) : Rank(g, j)' = Rank(g, j)
    BY <1>5 DEF Rank
  <2>3. \A j \in Matching(g) : j \in Host  BY DEF Matching
  <2>4. CASE g # c
    <3>1. Served(g)' = Served(g)  BY <1>12, <2>4
    <3>2. \A j \in Matching(g) : Load(g, j)' = Load(g, j)
      BY <1>11, <2>3, <2>4
    <3>3. RoundsOf(g, k, r)'
      BY <2>1, <2>2, <3>1, <3>2 DEF RoundsOf
    <3> QED  BY <3>3
  <2>5. CASE g = c
    <3> DEFINE m == Cardinality(Matching(g))
    <3>1. m \in Nat \ {0} /\ r < m  BY <2>1, FiniteHosts DEF RoundsOf
    <3>2. /\ p \notin Served(g) /\ IsFiniteSet(Served(g))
          /\ Cardinality(Served(g)) = k * m + r
      BY <1>2, <2>1, AssignedCount, FS_Subset DEF Served, RoundsOf
    <3>3. Cardinality(Served(g))' = k * m + r + 1
      <4>1. Served(g)' = Served(g) \cup {p}  BY <1>12, <2>5
      <4>2. Cardinality(Served(g) \cup {p}) = Cardinality(Served(g)) + 1
        BY <3>2, FS_AddElement
      <4> QED  BY <3>2, <4>1, <4>2
    <3>4. h \in Matching(g) /\ Rank(g, h) = r
      <4>1. Rank(g, h) = Cardinality(Served(g)) % m
        BY <1>1, <1>2, <2>5, IndexIsServed DEF RoundRobin, Rank, SpreadInv
      <4>2. h \in Matching(g)  BY <1>1, <2>5
      <4> HIDE DEF m, c
      <4> QED  BY <4>1, <4>2, <3>1, <3>2, Remainder
    <3>5. \A j \in Matching(g) :
            /\ Rank(g, j) \in Nat /\ Rank(g, j) < m
            /\ j # h => Rank(g, j) # r
      BY <3>4, RankUnique
    <3>6. \A j \in Matching(g) :
            /\ Load(g, j) = k + (IF Rank(g, j) < r THEN 1 ELSE 0)
            /\ Load(g, j)' = Load(g, j) + (IF j = h THEN 1 ELSE 0)
      BY <1>11, <2>1, <2>3, <2>5 DEF RoundsOf
    <3>7. k * m \in Nat /\ (k + 1) * m = k * m + m
      <4> HIDE DEF m
      <4> QED  BY <3>1, SMT
    <3> HIDE DEF c
    <3>8. CASE r + 1 < m
      <4>1. \A j \in Matching(g) :
              Load(g, j)' = k + (IF Rank(g, j) < r + 1 THEN 1 ELSE 0)
        BY <3>4, <3>5, <3>6
      <4>2. RoundsOf(g, k, r + 1)'
        BY <2>2, <3>3, <3>7, <3>8, <4>1 DEF RoundsOf
      <4> QED  BY <4>2
    <3>9. CASE r + 1 = m
      <4>1. \A j \in Matching(g) : Load(g, j)' = k + 1
        BY <3>4, <3>5, <3>6, <3>9
      <4>2. \A j \in Matching(g) :
              Load(g, j)' = k + 1 + (IF Rank(g, j) < 0 THEN 1 ELSE 0)
        BY <3>5, <4>1
      <4>3. RoundsOf(g, k + 1, 0)'
        BY <2>2, <3>1, <3>3, <3>7, <3>9, <4>2 DEF RoundsOf
      <4> QED  BY <4>3
    <3> QED  BY <3>1, <3>8, <3>9
  <2> QED  BY <2>4, <2>5
<1> QED  BY <1>8, <1>9, <1>13

(* The distribution is even in every state.                                *)
LEMMA SpreadInvariant == AssignSpec => []SpreadInv
<1>1. AssignInit => SpreadInv
  <2> SUFFICES ASSUME AssignInit PROVE SpreadInv  OBVIOUS
  <2>1. Assigned = {}  BY DEF AssignInit, Assigned
  <2>2. InTurn /\ Fitting  BY <2>1 DEF InTurn, Fitting
  <2>3. Rounds
    <3> SUFFICES ASSUME NEW g \in Group, Matching(g) # {}
                 PROVE  RoundsOf(g, 0, 0)
      BY DEF Rounds
    <3>1. Cardinality(Matching(g)) \in Nat \ {0}  BY FiniteHosts
    <3>2. Cardinality(Served(g)) = 0  BY <2>1, FS_EmptySet DEF Served
    <3>3. \A h \in Matching(g) : Load(g, h) = 0
      BY <2>1, FS_EmptySet DEF Load, On
    <3>4. \A h \in Matching(g) : Rank(g, h) \in Nat  BY RankUnique
    <3> QED  BY <3>1, <3>2, <3>3, <3>4 DEF RoundsOf
  <2> QED  BY InitInv, <2>2, <2>3 DEF SpreadInv
<1>2. SpreadInv /\ [AssignNext]_assignVars => SpreadInv'
  <2> SUFFICES ASSUME SpreadInv, [AssignNext]_assignVars PROVE SpreadInv'
    OBVIOUS
  <2>1. AssignInv'  BY StepInv DEF SpreadInv
  <2>2. ASSUME NEW p \in APeer, Assign(p) PROVE SpreadInv'
    BY <2>1, <2>2, AssignSpread DEF SpreadInv
  <2>3. ASSUME UNCHANGED <<hostOf, configVars>> PROVE SpreadInv'
    <3>1. hostOf' = hostOf /\ group' = group /\ hostTags' = hostTags
      BY <2>3 DEF configVars
    <3>2. Assigned' = Assigned  BY <3>1 DEF Assigned
    <3>3. InTurn'
      BY <3>1, <3>2 DEF SpreadInv, InTurn, Before
    <3>4. Fitting'
      BY <3>1, <3>2 DEF SpreadInv, Fitting, Matching
    <3>5. Rounds'
      <4> SUFFICES ASSUME NEW g \in Group, Matching(g) # {},
                          NEW k \in Nat, NEW r \in Nat, RoundsOf(g, k, r)
                   PROVE  RoundsOf(g, k, r)'
        BY <3>1 DEF SpreadInv, Rounds, Matching
      <4>1. Matching(g)' = Matching(g)  BY <3>1 DEF Matching
      <4>2. \A h \in Matching(g) :
              Rank(g, h)' = Rank(g, h) /\ Load(g, h)' = Load(g, h)
        BY <3>1, <3>2, <4>1 DEF Rank, Load, On
      <4>3. Served(g)' = Served(g)  BY <3>1, <3>2 DEF Served
      <4> QED  BY <4>1, <4>2, <4>3 DEF RoundsOf
    <3> QED  BY <2>1, <3>3, <3>4, <3>5 DEF SpreadInv
  <2> QED
    BY <2>2, <2>3
       DEF AssignNext, Overflow, NoHost, Done, assignVars, configVars
<1> QED  BY <1>1, <1>2, PTL DEF AssignSpec

(* "Round-robin within matching hosts" (config.rs:298), for every          *)
(* configuration: at every moment the hosts of a group differ by at most   *)
(* one of its peers, and no other host has any.                            *)
THEOREM EvenlySpread == AssignSpec => []Balanced
<1>1. SpreadInv => Balanced
  <2> SUFFICES ASSUME SpreadInv, NEW g \in Group
               PROVE  /\ \A h \in Host \ Matching(g) : Load(g, h) = 0
                      /\ \A h, k \in Matching(g) :
                           Load(g, h) <= Load(g, k) + 1
    BY DEF Balanced
  <2>1. ASSUME NEW h \in Host \ Matching(g) PROVE Load(g, h) = 0
    <3>1. {p \in On(h) : group[p] = g} = {}
      BY <2>1 DEF SpreadInv, Fitting, On
    <3> QED  BY <3>1, FS_EmptySet DEF Load
  <2>2. ASSUME NEW h \in Matching(g), NEW k \in Matching(g)
        PROVE  Load(g, h) <= Load(g, k) + 1
    <3>1. PICK n \in Nat, r \in Nat : RoundsOf(g, n, r)
      BY <2>2 DEF SpreadInv, Rounds
    <3>2. /\ Load(g, h) = n \/ Load(g, h) = n + 1
          /\ Load(g, k) = n \/ Load(g, k) = n + 1
      BY <3>1 DEF RoundsOf
    <3> QED  BY <3>2
  <2> QED  BY <2>1, <2>2
<1> QED  BY <1>1, SpreadInvariant, PTL

=============================================================================
