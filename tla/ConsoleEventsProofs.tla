------------------------ MODULE ConsoleEventsProofs ------------------------
(***************************************************************************)
(* Proofs about ConsoleEvents and its LogForward, for any capacities and   *)
(* bounds.                                                                 *)
(***************************************************************************)
EXTENDS ConsoleEvents, ListLemmas

-----------------------------------------------------------------------------
(* The state.                                                              *)

Word == {"started", "stopped", "restarting"}

ForwardTypes ==
  /\ client \in {"rust", "python", "go"}
  /\ proc \in {"running", "leaving", "asleep", "exited"}
  /\ process \in Nat \ {0}
  /\ owner \in Seq(Nat) /\ queue \in Seq(Nat) /\ list \in Seq(Nat)
  /\ inFlight \in Nat /\ statuses \in Seq(Word)

(* Entries have the numbers from 1.                                        *)
LEMMA MembersAre ==
  ASSUME NEW s PROVE Members(s) = Entries(s)
BY DEF Members, Entries

(* The length of a sequence of entries, and of one that grows.             *)
LEMMA Grows ==
  ASSUME NEW S, NEW s \in Seq(S), NEW x \in S
  PROVE  /\ Append(s, x) \in Seq(S) /\ Len(Append(s, x)) = Len(s) + 1
         /\ Len(s) \in Nat
         /\ \A k \in 1 .. Len(s) : Append(s, x)[k] = s[k]
         /\ Append(s, x)[Len(s) + 1] = x
BY AppendProperties

(* The types hold at first.                                                *)
LEMMA ForwardTypesInit == ASSUME Init PROVE ForwardTypes
<1>1. <<"started">> \in Seq(Word) /\ <<>> \in Seq(Nat)
  BY DEF Word
<1> QED
  BY <1>1 DEF Init, ForwardInit, ForwardTypes

(* An entry that arrives is pushed, ...                                    *)
LEMMA ArrivesTypes ==
  ASSUME list \in Seq(Nat), NEW e \in Nat, Arrives(e)
  PROVE  list' \in Seq(Nat)
BY PushedHead DEF Arrives

(* ... what is left of a process too, ...                                  *)
LEMMA PerishTypes ==
  ASSUME ForwardTypes, Perish
  PROVE  list' \in Seq(Nat) /\ queue' \in Seq(Nat) /\ inFlight' \in Nat
BY ArrivesTypes DEF ForwardTypes, Perish

(* ... and every step keeps the types.                                     *)
LEMMA ForwardTypesStep ==
  ASSUME ForwardTypes, [Next]_vars PROVE ForwardTypes'
<1>1. CASE Log
  <2>1. /\ Append(owner, process) \in Seq(Nat) /\ Len(owner) + 1 \in Nat
        /\ Append(queue, Len(owner) + 1) \in Seq(Nat)
    BY DEF ForwardTypes
  <2> QED
    BY <1>1, <2>1 DEF ForwardTypes, Log, Emit
<1>2. CASE Leave
  <2>1. \A s \in Word : Append(statuses, s) \in Seq(Word)
    BY DEF ForwardTypes
  <2> QED
    BY <1>2, <2>1 DEF ForwardTypes, Leave, Word
<1>3. CASE Take
  <2>1. Head(queue) \in Nat /\ Tail(queue) \in Seq(Nat)
    BY <1>3, PoppedHead DEF ForwardTypes, Take
  <2> QED
    BY <1>3, <2>1 DEF ForwardTypes, Take
<1>4. CASE Lpush \/ LpushFails
  BY <1>4, ArrivesTypes DEF ForwardTypes, Lpush, LpushFails
<1>5. CASE Exit \/ Crash
  <2>1. proc' \in {"asleep", "exited"}
    BY <1>5 DEF Exit, Crash, Ends
  <2> QED
    BY <1>5, <2>1, PerishTypes DEF ForwardTypes, Exit, Crash
<1>6. CASE Restart
  <2>1. /\ Append(owner, 0) \in Seq(Nat) /\ Len(owner) + 1 \in Nat
        /\ Append(statuses, "started") \in Seq(Word)
        /\ process + 1 \in Nat \ {0}
    BY DEF ForwardTypes, Word
  <2> QED
    BY <1>6, <2>1, ArrivesTypes DEF ForwardTypes, Restart
<1>7. CASE TakeEntry \/ LoseEntry
  <2>1. Tail(list) \in Seq(Nat)
    BY <1>7, PoppedHead DEF ForwardTypes, TakeEntry, LoseEntry
  <2> QED
    BY <1>7, <2>1 DEF ForwardTypes, TakeEntry, LoseEntry, Pop
<1>8. CASE UNCHANGED forwardVars
  BY <1>8 DEF ForwardTypes, forwardVars
<1> QED
  BY <1>1, <1>2, <1>3, <1>4, <1>5, <1>6, <1>7, <1>8
     DEF Next, Forward, Flusher, MonitorStep, ConsoleStep, Observe, SendEvent,
         Cancel, SubscribeEvents, Lagged, Receive, EndConsole, vars

-----------------------------------------------------------------------------
(* Every entry is in one place.                                            *)

(* Sets that partition the entries 1 .. n.                                 *)
Parts(P, n) ==
  /\ UNION {P[k] : k \in DOMAIN P} = 1 .. n
  /\ \A j, k \in DOMAIN P : j # k => P[j] \cap P[k] = {}

(* They still do when entries move from one of them to another, ...        *)
LEMMA Moved ==
  ASSUME NEW P, NEW Q, NEW n \in Nat, Parts(P, n), DOMAIN Q = DOMAIN P,
         NEW j \in DOMAIN P, NEW k \in DOMAIN P, j # k,
         Q[j] \subseteq P[j], Q[k] = P[k] \cup (P[j] \ Q[j]),
         \A m \in DOMAIN P \ {j, k} : Q[m] = P[m]
  PROVE  Parts(Q, n)
<1> DEFINE X == P[j] \ Q[j]
<1>1. \A m \in DOMAIN P : Q[m] = IF m = j THEN P[m] \ X
                                 ELSE IF m = k THEN P[m] \cup X ELSE P[m]
  OBVIOUS
<1>2. UNION {Q[m] : m \in DOMAIN Q} = UNION {P[m] : m \in DOMAIN P}
  <2>1. ASSUME NEW m \in DOMAIN P, NEW x \in Q[m]
        PROVE  \E l \in DOMAIN P : x \in P[l]
    BY <1>1, <2>1
  <2>2. ASSUME NEW m \in DOMAIN P, NEW x \in P[m]
        PROVE  \E l \in DOMAIN P : x \in Q[l]
    <3>1. CASE m = j /\ x \in X
      BY <1>1, <3>1
    <3>2. CASE ~ (m = j /\ x \in X)
      BY <1>1, <2>2, <3>2
    <3> QED
      BY <3>1, <3>2
  <2> QED
    BY <2>1, <2>2
<1>3. ASSUME NEW l \in DOMAIN P, NEW m \in DOMAIN P, l # m
      PROVE  Q[l] \cap Q[m] = {}
  <2>1. P[l] \cap P[m] = {} /\ (l # j => P[l] \cap X = {})
                            /\ (m # j => P[m] \cap X = {})
    BY <1>3 DEF Parts
  <2> QED
    BY <1>1, <1>3, <2>1
<1> QED
  BY <1>2, <1>3 DEF Parts

(* ... and when a new entry joins one of them.                             *)
LEMMA Joined ==
  ASSUME NEW P, NEW Q, NEW n \in Nat, Parts(P, n), DOMAIN Q = DOMAIN P,
         NEW k \in DOMAIN P, Q[k] = P[k] \cup {n + 1},
         \A m \in DOMAIN P \ {k} : Q[m] = P[m]
  PROVE  Parts(Q, n + 1)
<1>1. 1 .. n + 1 = 1 .. n \cup {n + 1} /\ n + 1 \notin 1 .. n
  OBVIOUS
<1>2. \A m \in DOMAIN P : n + 1 \notin P[m]
  BY <1>1 DEF Parts
<1>3. UNION {Q[m] : m \in DOMAIN Q}
        = (UNION {P[m] : m \in DOMAIN P}) \cup {n + 1}
  <2>1. ASSUME NEW m \in DOMAIN P, NEW x \in Q[m]
        PROVE  x = n + 1 \/ \E l \in DOMAIN P : x \in P[l]
    BY <2>1
  <2>2. ASSUME NEW m \in DOMAIN P, NEW x \in P[m]
        PROVE  x \in Q[m]
    BY <2>2
  <2>3. n + 1 \in Q[k]
    OBVIOUS
  <2> QED
    BY <2>1, <2>2, <2>3
<1>4. ASSUME NEW l \in DOMAIN P, NEW m \in DOMAIN P, l # m
      PROVE  Q[l] \cap Q[m] = {}
  <2>1. P[l] \cap P[m] = {}
    BY <1>4 DEF Parts
  <2> QED
    BY <1>2, <1>4, <2>1
<1> QED
  BY <1>1, <1>3, <1>4 DEF Parts

(* The places of an entry, one by one, ...                                *)
LEMMA PlacesAre ==
  /\ DOMAIN Places = 1 .. 8
  /\ Places[1] = Members(queue) /\ Places[2] = Held
  /\ Places[3] = Members(list) /\ Places[4] = logs /\ Places[5] = full
  /\ Places[6] = refused /\ Places[7] = cut /\ Places[8] = lost
BY DEF Places

(* ... and after a step.                                                   *)
LEMMA PlacesNext ==
  /\ DOMAIN Places' = 1 .. 8
  /\ Places'[1] = Members(queue') /\ Places'[2] = Held'
  /\ Places'[3] = Members(list') /\ Places'[4] = logs' /\ Places'[5] = full'
  /\ Places'[6] = refused' /\ Places'[7] = cut' /\ Places'[8] = lost'
BY DEF Places, Members

(* What a step leaves where it was.                                        *)
LEMMA PlacesStay ==
  ASSUME NEW J,
         1 \in J \/ queue' = queue, 2 \in J \/ inFlight' = inFlight,
         3 \in J \/ list' = list, 4 \in J \/ logs' = logs,
         5 \in J \/ full' = full, 6 \in J \/ refused' = refused,
         7 \in J \/ cut' = cut, 8 \in J \/ lost' = lost
  PROVE  /\ DOMAIN Places' = DOMAIN Places
         /\ \A k \in DOMAIN Places \ J : Places'[k] = Places[k]
<1>1. \A k \in 1 .. 8 : k \in {1, 2, 3, 4, 5, 6, 7, 8}
  OBVIOUS
<1>2. 1 \in J \/ Places'[1] = Places[1]
  BY PlacesAre, PlacesNext
<1>3. 2 \in J \/ Places'[2] = Places[2]
  BY PlacesAre, PlacesNext DEF Held
<1>4. 3 \in J \/ Places'[3] = Places[3]
  BY PlacesAre, PlacesNext
<1>5. \A k \in {4, 5, 6, 7, 8} : k \in J \/ Places'[k] = Places[k]
  BY PlacesAre, PlacesNext
<1> QED
  BY <1>1, <1>2, <1>3, <1>4, <1>5, PlacesAre, PlacesNext

(* So a step partitions the entries anew when a new entry joins place k,   *)
LEMMA JoinedPlace ==
  ASSUME NEW n \in Nat, Parts(Places, n), NEW k \in 1 .. 8,
         k = 1 \/ queue' = queue, k = 2 \/ inFlight' = inFlight,
         k = 3 \/ list' = list, k = 4 \/ logs' = logs,
         k = 5 \/ full' = full, k = 6 \/ refused' = refused,
         k = 7 \/ cut' = cut, k = 8 \/ lost' = lost,
         Places'[k] = Places[k] \cup {n + 1}
  PROVE  Parts(Places', n + 1)
<1> DEFINE J == {k}
<1>1. /\ DOMAIN Places' = DOMAIN Places
      /\ \A l \in DOMAIN Places \ J : Places'[l] = Places[l]
  <2>1. \A l \in 1 .. 8 : k = l => l \in J
    OBVIOUS
  <2> HIDE DEF J
  <2> QED
    BY <2>1, PlacesStay
<1> QED
  BY <1>1, Joined, PlacesAre

(* or entries move from place j to place k.                                *)
LEMMA MovedPlace ==
  ASSUME NEW n \in Nat, Parts(Places, n), NEW j \in 1 .. 8, NEW k \in 1 .. 8,
         j # k,
         j = 1 \/ k = 1 \/ queue' = queue,
         j = 2 \/ k = 2 \/ inFlight' = inFlight,
         j = 3 \/ k = 3 \/ list' = list, j = 4 \/ k = 4 \/ logs' = logs,
         j = 5 \/ k = 5 \/ full' = full, j = 6 \/ k = 6 \/ refused' = refused,
         j = 7 \/ k = 7 \/ cut' = cut, j = 8 \/ k = 8 \/ lost' = lost,
         Places'[j] \subseteq Places[j],
         Places'[k] = Places[k] \cup (Places[j] \ Places'[j])
  PROVE  Parts(Places', n)
<1> DEFINE J == {j, k}
<1>1. /\ DOMAIN Places' = DOMAIN Places
      /\ \A l \in DOMAIN Places \ J : Places'[l] = Places[l]
  <2>1. \A l \in 1 .. 8 : j = l \/ k = l => l \in J
    OBVIOUS
  <2> HIDE DEF J
  <2> QED
    BY <2>1, PlacesStay
<1>2. j \in DOMAIN Places /\ k \in DOMAIN Places
  BY PlacesAre
<1>3. ASSUME NEW Q, DOMAIN Q = DOMAIN Places,
             \A l \in DOMAIN Places \ {j, k} : Q[l] = Places[l],
             Q[j] \subseteq Places[j],
             Q[k] = Places[k] \cup (Places[j] \ Q[j])
      PROVE  Parts(Q, n)
  BY <1>2, <1>3, Moved
<1> QED
  BY <1>1, <1>3

AccountInv ==
  ForwardTypes /\ Parts(Places, Len(owner)) /\ Distinct(queue) /\ Distinct(list)

(* What EntriesAccounted says.                                             *)
LEMMA AccountIs == AccountInv => EntriesAccounted
<1> SUFFICES ASSUME AccountInv PROVE EntriesAccounted
  OBVIOUS
<1>1. \A s \in {queue, list} : Cardinality(Members(s)) = Len(s)
  BY DistinctCount, MembersAre DEF AccountInv, ForwardTypes
<1> QED
  BY <1>1 DEF AccountInv, Parts, EntriesAccounted, Logged

(* At first there are no entries.                                          *)
LEMMA AccountInit == ASSUME Init PROVE AccountInv
<1>1. \A k \in 1 .. 8 : Places[k] = {}
  <2>1. Members(queue) = {} /\ Members(list) = {} /\ Held = {}
    BY DEF Init, ForwardInit, Members, Held
  <2> QED
    BY <2>1, PlacesAre DEF Init, ForwardInit
<1>2. Parts(Places, Len(owner))
  <2>1. Len(owner) = 0 /\ 1 .. 0 = {}
    BY DEF Init, ForwardInit
  <2>2. UNION {Places[k] : k \in DOMAIN Places} = {}
    BY <1>1, PlacesAre
  <2> QED
    BY <1>1, <2>1, <2>2, PlacesAre DEF Parts
<1>3. Distinct(queue) /\ Distinct(list)
  BY DEF Init, ForwardInit, Distinct
<1> QED
  BY <1>2, <1>3, ForwardTypesInit DEF AccountInv

(* What the entries in one place are not.                                  *)
LEMMA Numbers ==
  ASSUME AccountInv
  PROVE  /\ Len(owner) \in Nat
         /\ \A k \in 1 .. 8 : Places[k] \subseteq 1 .. Len(owner)
         /\ \A j, k \in 1 .. 8 : j # k => Places[j] \cap Places[k] = {}
         /\ \A e \in Entries(queue) \cup Entries(list) \cup Held :
              e \in 1 .. Len(owner)
<1>1. Len(owner) \in Nat
  BY DEF AccountInv, ForwardTypes
<1>2. \A k \in 1 .. 8 : Places[k] \subseteq 1 .. Len(owner)
  BY PlacesAre DEF AccountInv, Parts
<1>3. \A j, k \in 1 .. 8 : j # k => Places[j] \cap Places[k] = {}
  BY PlacesAre DEF AccountInv, Parts
<1> QED
  BY <1>1, <1>2, <1>3, PlacesAre, MembersAre

(* A new entry joins the queue, the LPUSH or the dropped ones, ...         *)
LEMMA LogAccount ==
  ASSUME AccountInv, ForwardTypes', Log, UNCHANGED monitorVars
  PROVE  AccountInv'
<1> DEFINE n == Len(owner)
<1>1. n \in Nat /\ Len(owner)' = n + 1 /\ n + 1 \notin Entries(queue)
  <2>1. Len(owner)' = n + 1
    BY Grows DEF AccountInv, ForwardTypes, Log
  <2> QED
    BY <2>1, Numbers
<1>2. /\ list' = list /\ logs' = logs /\ refused' = refused /\ cut' = cut
      /\ lost' = lost
  BY DEF Log, monitorVars
<1>3. CASE client = "go"
  <2>1. queue' = queue /\ full' = full /\ inFlight = 0 /\ inFlight' = n + 1
    BY <1>3 DEF Log, Emit, ProgramRuns
  <2>2. Places'[2] = Places[2] \cup {n + 1}
    BY <1>1, <2>1, PlacesAre, PlacesNext DEF Held
  <2>3. Parts(Places', n + 1)
    BY <1>1, <1>2, <2>1, <2>2, JoinedPlace DEF AccountInv
  <2> QED
    BY <1>1, <1>2, <2>1, <2>3 DEF AccountInv
<1>4. CASE client # "go" /\ Len(queue) < QueueCap
  <2>1. queue' = Append(queue, n + 1) /\ full' = full /\ inFlight' = inFlight
    BY <1>4 DEF Log, Emit
  <2>2. Entries(queue)' = Entries(queue) \cup {n + 1} /\ Distinct(queue)'
    BY <1>1, <2>1, EndJoins DEF AccountInv, ForwardTypes
  <2>3. Places'[1] = Places[1] \cup {n + 1}
    BY <2>2, PlacesAre, PlacesNext, MembersAre
  <2>4. Parts(Places', n + 1)
    BY <1>1, <1>2, <2>1, <2>3, JoinedPlace DEF AccountInv
  <2> QED
    BY <1>1, <1>2, <2>2, <2>4 DEF AccountInv
<1>5. CASE client # "go" /\ ~ (Len(queue) < QueueCap)
  <2>1. queue' = queue /\ full' = full \cup {n + 1} /\ inFlight' = inFlight
    BY <1>5 DEF Log, Emit
  <2>2. Places'[5] = Places[5] \cup {n + 1}
    BY <2>1, PlacesAre, PlacesNext
  <2>3. Parts(Places', n + 1)
    BY <1>1, <1>2, <2>1, <2>2, JoinedPlace DEF AccountInv
  <2> QED
    BY <1>1, <1>2, <2>1, <2>3 DEF AccountInv
<1> QED
  BY <1>3, <1>4, <1>5

(* Take moves the head of the queue to the LPUSH, ...                      *)
LEMMA TakeAccount ==
  ASSUME AccountInv, ForwardTypes', Take, UNCHANGED monitorVars
  PROVE  AccountInv'
<1> DEFINE e == Head(queue)
<1>1. /\ queue # <<>> /\ inFlight = 0 /\ inFlight' = e /\ queue' = Tail(queue)
      /\ UNCHANGED <<owner, list, logs, full, refused, cut, lost>>
  BY DEF Take, monitorVars
<1>2. /\ Entries(queue)' = Entries(queue) \ {e} /\ Distinct(queue)'
      /\ e \in Entries(queue)
  BY <1>1, HeadLeaves DEF AccountInv, ForwardTypes
<1>3. e # 0
  BY <1>2, Numbers
<1>4. /\ Places'[1] \subseteq Places[1] /\ Places[1] \ Places'[1] = {e}
      /\ Places'[2] = Places[2] \cup {e}
  BY <1>1, <1>2, <1>3, PlacesAre, PlacesNext, MembersAre DEF Held
<1>5. Parts(Places', Len(owner))
  BY <1>1, <1>4, Numbers, MovedPlace DEF AccountInv
<1> QED
  BY <1>1, <1>2, <1>5 DEF AccountInv

(* ... which ends in the list or is refused, ...                           *)
LEMMA LpushAccount ==
  ASSUME AccountInv, ForwardTypes', Lpush \/ LpushFails, UNCHANGED monitorVars
  PROVE  AccountInv'
<1> DEFINE e == inFlight
<1>1. /\ e # 0 /\ inFlight' = 0
      /\ UNCHANGED <<owner, queue, logs, full, cut, lost>>
  BY DEF Lpush, LpushFails, monitorVars
<1>2. /\ Places'[2] \subseteq Places[2] /\ Places[2] \ Places'[2] = {e}
      /\ e \in Places[2]
  BY <1>1, PlacesAre, PlacesNext DEF Held
<1>3. CASE Lpush
  <2>1. list' = <<e>> \o list /\ refused' = refused
    BY <1>3 DEF Lpush, Arrives
  <2>2. e \notin Entries(list)
    BY <1>2, Numbers, PlacesAre, MembersAre
  <2>3. Entries(list)' = Entries(list) \cup {e} /\ Distinct(list)'
    BY <2>1, <2>2, HeadJoins DEF AccountInv, ForwardTypes
  <2>4. Places'[3] = Places[3] \cup (Places[2] \ Places'[2])
    BY <1>2, <2>3, PlacesAre, PlacesNext, MembersAre
  <2>5. Parts(Places', Len(owner))
    <3>1. Len(owner) \in Nat /\ Parts(Places, Len(owner))
      BY Numbers DEF AccountInv
    <3> QED
      BY <1>1, <1>2, <2>1, <2>4, <3>1, MovedPlace
  <2> QED
    BY <1>1, <2>3, <2>5 DEF AccountInv
<1>4. CASE LpushFails
  <2>1. list' = list /\ refused' = refused \cup {e}
    BY <1>4 DEF LpushFails
  <2>2. Places'[6] = Places[6] \cup {e}
    BY <2>1, PlacesAre, PlacesNext
  <2>3. Parts(Places', Len(owner))
    BY <1>1, <1>2, <2>1, <2>2, Numbers, MovedPlace DEF AccountInv
  <2> QED
    BY <1>1, <2>1, <2>3 DEF AccountInv
<1> QED
  BY <1>3, <1>4

(* ... and what the process still has dies with it, but for the entry      *)
(* whose LPUSH had reached Redis.                                          *)
LEMMA PerishAccount ==
  ASSUME AccountInv, ForwardTypes', Perish, UNCHANGED monitorVars,
         UNCHANGED <<owner, full, refused>>
  PROVE  AccountInv'
<1> DEFINE n == Len(owner)
           X == Members(queue)
           P == [k \in 1 .. 8 |-> IF k = 1 THEN {}
                                  ELSE IF k = 7 THEN cut \cup X ELSE Places[k]]
<1>1. n \in Nat /\ Parts(Places, n)
  BY Numbers DEF AccountInv
<1>2. Parts(P, n)
  <2>1. /\ DOMAIN P = DOMAIN Places
        /\ 1 \in DOMAIN Places /\ 7 \in DOMAIN Places
        /\ P[1] \subseteq Places[1] /\ P[7] = Places[7] \cup (Places[1] \ P[1])
        /\ \A k \in DOMAIN Places \ {1, 7} : P[k] = Places[k]
    BY PlacesAre
  <2> HIDE DEF P, X
  <2> QED
    BY <1>1, <2>1, Moved
<1>3. /\ queue' = <<>> /\ inFlight' = 0
      /\ UNCHANGED <<owner, logs, full, refused, lost>>
  BY DEF Perish, monitorVars
<1>4. Entries(queue)' = {} /\ Distinct(queue)' /\ Held' = {}
  BY <1>3 DEF Entries, Distinct, Held
<1>5. /\ Places'[1] = {} /\ Places'[2] = {} /\ Places'[4] = P[4]
      /\ Places'[5] = P[5] /\ Places'[6] = P[6] /\ Places'[8] = P[8]
      /\ P[1] = {} /\ P[2] = Held /\ P[3] = Entries(list)
      /\ P[7] = cut \cup X /\ Places'[7] = cut'
      /\ Places'[3] = Entries(list)'
  BY <1>3, <1>4, PlacesAre, PlacesNext, MembersAre
<1>6. /\ DOMAIN P = 1 .. 8 /\ DOMAIN Places' = 1 .. 8
      /\ \A k \in 1 .. 8 : k \in {1, 2, 3, 4, 5, 6, 7, 8}
  BY PlacesNext
<1>7. CASE inFlight # 0 /\ Arrives(inFlight) /\ cut' = cut \cup X
  <2>1. list' = <<inFlight>> \o list /\ Held = {inFlight}
    BY <1>7 DEF Arrives, Held
  <2>2. inFlight \notin Entries(list)
    BY <2>1, Numbers, PlacesAre, MembersAre
  <2>3. Entries(list)' = Entries(list) \cup {inFlight} /\ Distinct(list)'
    BY <2>1, <2>2, HeadJoins DEF AccountInv, ForwardTypes
  <2>4. /\ Places'[2] \subseteq P[2]
        /\ Places'[3] = P[3] \cup (P[2] \ Places'[2])
        /\ \A k \in DOMAIN P \ {2, 3} : Places'[k] = P[k]
    BY <1>5, <1>6, <1>7, <2>1, <2>3
  <2>5. Parts(Places', n)
    <3>1. ASSUME NEW Q, DOMAIN Q = DOMAIN P, Q[2] \subseteq P[2],
                 Q[3] = P[3] \cup (P[2] \ Q[2]),
                 \A k \in DOMAIN P \ {2, 3} : Q[k] = P[k]
          PROVE  Parts(Q, n)
      <4>1. 2 \in DOMAIN P /\ 3 \in DOMAIN P
        BY <1>6
      <4> HIDE DEF P
      <4> QED
        BY <1>1, <1>2, <3>1, <4>1, Moved
    <3> QED
      BY <1>6, <2>4, <3>1
  <2> QED
    BY <1>3, <1>4, <2>3, <2>5 DEF AccountInv
<1>8. CASE cut' = cut \cup X \cup Held /\ UNCHANGED list
  <2>1. /\ Places'[2] \subseteq P[2]
        /\ Places'[7] = P[7] \cup (P[2] \ Places'[2])
        /\ \A k \in DOMAIN P \ {2, 7} : Places'[k] = P[k]
    BY <1>5, <1>6, <1>8
  <2>2. Parts(Places', n)
    <3>1. ASSUME NEW Q, DOMAIN Q = DOMAIN P, Q[2] \subseteq P[2],
                 Q[7] = P[7] \cup (P[2] \ Q[2]),
                 \A k \in DOMAIN P \ {2, 7} : Q[k] = P[k]
          PROVE  Parts(Q, n)
      <4>1. 2 \in DOMAIN P /\ 7 \in DOMAIN P
        BY <1>6
      <4> HIDE DEF P
      <4> QED
        BY <1>1, <1>2, <3>1, <4>1, Moved
    <3> QED
      BY <1>6, <2>1, <3>1
  <2> QED
    BY <1>3, <1>4, <1>8, <2>2 DEF AccountInv
<1> QED
  BY <1>7, <1>8 DEF Perish

(* entrypoint.sh logs an entry of its own.                                 *)
LEMMA RestartAccount ==
  ASSUME AccountInv, ForwardTypes', Restart, UNCHANGED monitorVars
  PROVE  AccountInv'
<1> DEFINE n == Len(owner)
<1>1. n \in Nat /\ Len(owner)' = n + 1 /\ n + 1 \notin Entries(list)
  <2>1. Len(owner)' = n + 1
    BY Grows DEF AccountInv, ForwardTypes, Restart
  <2> QED
    BY <2>1, Numbers
<1>2. UNCHANGED <<queue, inFlight, logs, full, cut, lost>>
  BY DEF Restart, monitorVars
<1>3. CASE list' = <<n + 1>> \o list /\ UNCHANGED refused
  <2>1. Entries(list)' = Entries(list) \cup {n + 1} /\ Distinct(list)'
    BY <1>1, <1>3, HeadJoins DEF AccountInv, ForwardTypes
  <2>2. Places'[3] = Places[3] \cup {n + 1}
    BY <2>1, PlacesAre, PlacesNext, MembersAre
  <2>3. Parts(Places', n + 1)
    BY <1>1, <1>2, <1>3, <2>2, JoinedPlace DEF AccountInv
  <2> QED
    BY <1>1, <1>2, <2>1, <2>3 DEF AccountInv
<1>4. CASE refused' = refused \cup {n + 1} /\ UNCHANGED list
  <2>1. Places'[6] = Places[6] \cup {n + 1}
    BY <1>4, PlacesAre, PlacesNext
  <2>2. Parts(Places', n + 1)
    BY <1>1, <1>2, <1>4, <2>1, JoinedPlace DEF AccountInv
  <2> QED
    BY <1>1, <1>2, <1>4, <2>2 DEF AccountInv
<1> QED
  BY <1>3, <1>4 DEF Restart, Arrives

(* The monitor takes the head of the list, and shows it or drops it.       *)
LEMMA PopAccount ==
  ASSUME AccountInv, ForwardTypes', TakeEntry \/ LoseEntry
  PROVE  AccountInv'
<1> DEFINE e == Head(list)
<1>1. /\ list # <<>> /\ list' = Tail(list)
      /\ UNCHANGED <<owner, queue, inFlight, full, refused, cut>>
  BY DEF TakeEntry, LoseEntry, Pop
<1>2. /\ Entries(list)' = Entries(list) \ {e} /\ Distinct(list)'
      /\ e \in Entries(list)
  BY <1>1, HeadLeaves DEF AccountInv, ForwardTypes
<1>3. Places'[3] \subseteq Places[3] /\ Places[3] \ Places'[3] = {e}
  BY <1>2, PlacesAre, PlacesNext, MembersAre
<1>4. CASE logs' = logs \cup {e} /\ UNCHANGED lost
  <2>1. Places'[4] = Places[4] \cup {e}
    BY <1>4, PlacesAre, PlacesNext
  <2>2. Parts(Places', Len(owner))
    BY <1>1, <1>3, <1>4, <2>1, Numbers, MovedPlace DEF AccountInv
  <2> QED
    BY <1>1, <1>2, <2>2 DEF AccountInv
<1>5. CASE lost' = lost \cup {e} /\ UNCHANGED logs
  <2>1. Places'[8] = Places[8] \cup {e}
    BY <1>5, PlacesAre, PlacesNext
  <2>2. Parts(Places', Len(owner))
    BY <1>1, <1>3, <1>5, <2>1, Numbers, MovedPlace DEF AccountInv
  <2> QED
    BY <1>1, <1>2, <2>2 DEF AccountInv
<1> QED
  BY <1>4, <1>5 DEF TakeEntry, LoseEntry

(* Every other step leaves the entries where they are.                     *)
LEMMA AccountStep == ASSUME AccountInv, [Next]_vars PROVE AccountInv'
<1>1. ForwardTypes'
  BY ForwardTypesStep DEF AccountInv
<1>2. ASSUME UNCHANGED <<owner, queue, inFlight, list, logs, full, refused, cut,
                         lost>>
      PROVE  AccountInv'
  BY <1>1, <1>2 DEF AccountInv, Places, Held, Members, Distinct
<1>3. CASE Forward /\ UNCHANGED <<monitorVars, consoleVars>>
  <2>1. CASE Leave
    BY <1>2, <1>3, <2>1 DEF Leave, monitorVars
  <2>2. CASE Exit \/ Crash
    BY <1>1, <1>3, <2>2, PerishAccount DEF Exit, Crash
  <2> QED
    BY <1>1, <1>3, <2>1, <2>2, LogAccount, TakeAccount, LpushAccount,
       RestartAccount DEF Forward, Flusher
<1>4. CASE TakeEntry \/ LoseEntry
  BY <1>1, <1>4, PopAccount
<1>5. CASE Observe \/ SendEvent \/ Cancel \/ ConsoleStep \/ UNCHANGED vars
  BY <1>2, <1>5 DEF Observe, SendEvent, Cancel, ConsoleStep, SubscribeEvents,
     Lagged, Receive, EndConsole, vars, forwardVars, monitorVars
<1> QED
  BY <1>3, <1>4, <1>5 DEF Next, MonitorStep

(* From the program to PeerState no entry is duplicated, and none vanishes *)
(* but in one of the four ways, whatever fails or is killed, and whenever  *)
(* the console listens.                                                    *)
THEOREM NoEntryVanishes == Spec => []EntriesAccounted
<1> QED
  BY AccountIs, AccountInit, AccountStep, PTL DEF Spec

-----------------------------------------------------------------------------
(* The console.                                                            *)

Event == [kind : {"status", "log"}, of : Nat]

(* The events that are to be printed, those the receiver has passed without *)
(* printing them, and those it should have printed of them.                *)
ToPrint == {k \in 1 .. Len(events) : Printable(k)}
Skipped == (1 .. next - 1) \ Members(printed)
Missed  == (ToPrint \cap (1 .. next - 1)) \ Members(printed)

ReceiverInv ==
  /\ next \in 1 .. Len(events) + 1
  /\ \A k \in 1 .. Len(printed) :
       printed[k] \in 1 .. next - 1 /\ printed[k] \in ToPrint
  /\ \A j, k \in 1 .. Len(printed) : j < k => printed[j] < printed[k]
  /\ Cardinality(Missed) <= announced /\ announced <= Cardinality(Skipped)

(* The last status event is that of the status PeerState shows.            *)
LastStatus ==
  \/ \A k \in 1 .. Len(events) : events[k].kind # "status"
  \/ \E k \in 1 .. Len(events) :
       /\ events[k] = Status(seen)
       /\ \A j \in k + 1 .. Len(events) : events[j].kind # "status"

(* The entries that are sent are shown, so they have been logged.          *)
ShownInv ==
  /\ unsent # 0 => unsent \in logs
  /\ \A k \in 1 .. Len(events) : events[k].kind = "log" => events[k].of \in logs

ConsoleInv ==
  /\ AccountInv
  /\ seen \in Nat /\ unsent \in Nat /\ events \in Seq(Event)
  /\ printed \in Seq(Nat) /\ announced \in Nat
  /\ console # "loop" => events = <<>> /\ next = 1
  /\ ReceiverInv /\ LastStatus /\ ShownInv

(* At first there are no events.                                           *)
LEMMA ConsoleInit == ASSUME Init PROVE ConsoleInv
<1>1. /\ Len(events) = 0 /\ Len(printed) = 0 /\ next = 1 /\ announced = 0
      /\ 1 .. next - 1 = {}
  BY DEF Init
<1>2. Missed = {} /\ Skipped = {}
  BY <1>1 DEF Missed, Skipped
<1>3. ReceiverInv
  BY <1>1, <1>2, FS_EmptySet DEF ReceiverInv
<1>4. LastStatus /\ ShownInv
  BY <1>1 DEF Init, LastStatus, ShownInv
<1> QED
  BY <1>3, <1>4, AccountInit DEF Init, ConsoleInv

(* Who has logged an entry does not change, ...                            *)
LEMMA OwnersStay ==
  ASSUME ForwardTypes, [Next]_vars, NEW e \in 1 .. Len(owner)
  PROVE  owner'[e] = owner[e]
<1>1. CASE owner' = owner
  BY <1>1
<1>2. ASSUME NEW x \in Nat, owner' = Append(owner, x)
      PROVE  owner'[e] = owner[e]
  BY <1>2, Grows DEF ForwardTypes
<1>3. CASE Log \/ Restart
  BY <1>2, <1>3 DEF Log, Restart, ForwardTypes
<1> QED
  BY <1>1, <1>3 DEF Next, Forward, Flusher, Leave, Take, Lpush, LpushFails, Exit,
     Crash, MonitorStep, Observe, TakeEntry, SendEvent, LoseEntry, Cancel, Pop,
     ConsoleStep, SubscribeEvents, Lagged, Receive, EndConsole, vars,
     forwardVars

(* ... so whether an event is one to print does not change either.         *)
LEMMA PrintableStays ==
  ASSUME ConsoleInv, [Next]_vars, Len(events') \in Nat,
         Len(events') >= Len(events),
         \A k \in 1 .. Len(events) : events'[k] = events[k]
  PROVE  ToPrint' \cap (1 .. Len(events)) = ToPrint
<1>1. ASSUME NEW k \in 1 .. Len(events) PROVE Printable(k)' <=> Printable(k)
  <2>1. events[k] \in Event /\ events'[k] = events[k]
    BY ElementOfSeq DEF ConsoleInv
  <2>2. events[k].kind \in {"status", "log"}
    BY <2>1 DEF Event
  <2>3. CASE events[k].kind = "status"
    BY <2>1, <2>3 DEF Printable
  <2>4. CASE events[k].kind = "log"
    <3>1. events[k].of \in logs
      BY <2>4 DEF ConsoleInv, ShownInv
    <3>2. events[k].of \in 1 .. Len(owner)
      BY <3>1, Numbers, PlacesAre DEF ConsoleInv
    <3>3. owner'[events[k].of] = owner[events[k].of]
      BY <3>2, OwnersStay DEF ConsoleInv, AccountInv
    <3> QED
      BY <2>1, <3>3 DEF Printable
  <2> QED
    BY <2>2, <2>3, <2>4
<1>2. Len(events) \in Nat /\ \A k \in 1 .. Len(events) : k \in 1 .. Len(events')
  BY DEF ConsoleInv
<1> QED
  BY <1>1, <1>2 DEF ToPrint

(* While the receiver stands still, what it has passed stays the same.     *)
LEMMA ReceiverStays ==
  ASSUME ConsoleInv, [Next]_vars, UNCHANGED consoleVars,
         Len(events') \in Nat, Len(events') >= Len(events),
         \A k \in 1 .. Len(events) : events'[k] = events[k]
  PROVE  ReceiverInv'
<1>1. UNCHANGED <<next, printed, announced>>
  BY DEF consoleVars
<1>2. next \in 1 .. Len(events) + 1 /\ Len(events) \in Nat /\ next \in Nat
  BY DEF ConsoleInv, ReceiverInv
<1>3. ToPrint' \cap (1 .. Len(events)) = ToPrint
  BY PrintableStays
<1>4. (1 .. next - 1) \subseteq 1 .. Len(events)
  BY <1>2
<1>5. Skipped' = Skipped
  BY <1>1 DEF Skipped, Members
<1>6. Missed' = Missed
  BY <1>1, <1>3, <1>4 DEF Missed, Members
<1>7. \A k \in 1 .. Len(printed) :
        printed[k] \in 1 .. next - 1 /\ printed[k] \in ToPrint'
  BY <1>3 DEF ConsoleInv, ReceiverInv
<1>8. next \in 1 .. Len(events') + 1
  BY <1>2
<1> QED
  BY <1>1, <1>5, <1>6, <1>7, <1>8 DEF ConsoleInv, ReceiverInv

(* A log event is sent of an entry that is shown, and none is hidden again.*)
LEMMA ShownStep ==
  ASSUME ConsoleInv, [Next]_vars PROVE ShownInv'
<1>1. ASSUME UNCHANGED <<unsent, events>>, logs \subseteq logs' PROVE ShownInv'
  BY <1>1 DEF ConsoleInv, ShownInv
<1>2. ASSUME NEW event \in Event, Send(event), logs' = logs,
             event.kind = "log" => event.of \in logs,
             unsent' = 0 \/ unsent' = unsent
      PROVE  ShownInv'
  <2>1. CASE events' = events
    BY <1>2, <2>1 DEF ConsoleInv, ShownInv
  <2>2. CASE events' = Append(events, event)
    <3>1. /\ Len(events') = Len(events) + 1 /\ Len(events) \in Nat
          /\ \A k \in 1 .. Len(events) : events'[k] = events[k]
          /\ events'[Len(events) + 1] = event
      BY <1>2, <2>2, Grows DEF ConsoleInv
    <3>2. \A k \in 1 .. Len(events') :
            k \in 1 .. Len(events) \/ k = Len(events) + 1
      BY <3>1
    <3> QED
      BY <1>2, <3>1, <3>2 DEF ConsoleInv, ShownInv
  <2> QED
    BY <1>2, <2>1, <2>2 DEF Send
<1>3. CASE Observe
  <2>1. PICK i \in seen + 1 .. Len(statuses) : Send(Status(i))
    BY <1>3 DEF Observe
  <2>2. Status(i) \in Event /\ Status(i).kind # "log"
    BY DEF ConsoleInv, Status, Event
  <2>3. UNCHANGED <<logs, unsent>>
    BY <1>3 DEF Observe
  <2> QED
    BY <1>2, <2>1, <2>2, <2>3
<1>4. CASE SendEvent
  <2>1. Entry(unsent) \in Event /\ Entry(unsent).of = unsent
    BY DEF ConsoleInv, Entry, Event
  <2>2. unsent \in logs
    BY <1>4 DEF SendEvent, ConsoleInv, ShownInv
  <2>3. Send(Entry(unsent)) /\ logs' = logs /\ unsent' = 0
    BY <1>4 DEF SendEvent
  <2> QED
    BY <1>2, <2>1, <2>2, <2>3
<1>5. CASE TakeEntry
  BY <1>5 DEF TakeEntry, ConsoleInv, ShownInv
<1>6. CASE EndConsole
  <2>1. Len(events') = 0
    BY <1>6 DEF EndConsole
  <2> QED
    BY <1>6, <2>1 DEF EndConsole, ConsoleInv, ShownInv
<1>7. CASE \/ Forward /\ UNCHANGED <<monitorVars, consoleVars>>
           \/ LoseEntry \/ Cancel \/ SubscribeEvents \/ Lagged \/ Receive
           \/ UNCHANGED vars
  BY <1>1, <1>7 DEF LoseEntry, Cancel, SubscribeEvents, Lagged, Receive, vars,
                    monitorVars
<1> QED
  BY <1>3, <1>4, <1>5, <1>6, <1>7 DEF Next, MonitorStep, ConsoleStep

(* An event reaches the channel while the console listens, ...             *)
LEMMA SendConsole ==
  ASSUME ConsoleInv, [Next]_vars, AccountInv', NEW event \in Event, Send(event),
         UNCHANGED consoleVars, seen' \in Nat, unsent' \in Nat,
         IF event.kind = "status" THEN event = Status(seen') ELSE seen' = seen
  PROVE  ConsoleInv'
<1>1. CASE console # "loop"
  <2>1. events' = <<>> /\ Len(events) = 0 /\ Len(events)' = 0
    BY <1>1 DEF ConsoleInv, Send
  <2>2. ReceiverInv' /\ LastStatus'
    <3>1. LastStatus'
      BY <2>1 DEF LastStatus
    <3>2. Len(events') \in Nat /\ Len(events') >= Len(events)
      BY <2>1
    <3>3. \A k \in 1 .. Len(events) : events'[k] = events[k]
      BY <2>1
    <3> QED
      BY <3>1, <3>2, <3>3, ReceiverStays
  <2> QED
    BY <1>1, <2>1, <2>2, ShownStep DEF ConsoleInv, consoleVars
<1>2. CASE console = "loop"
  <2>1. events' = Append(events, event)
    BY <1>2 DEF Send
  <2>2. /\ events' \in Seq(Event) /\ Len(events)' = Len(events) + 1
        /\ \A k \in 1 .. Len(events) : events'[k] = events[k]
        /\ events'[Len(events) + 1] = event /\ Len(events) \in Nat
    BY <2>1, Grows DEF ConsoleInv
  <2>3. ReceiverInv'
    <3>1. Len(events') \in Nat /\ Len(events') >= Len(events)
      BY <2>2
    <3> QED
      BY <2>2, <3>1, ReceiverStays
  <2>4. CASE event.kind = "status"
    <3>1. event = Status(seen')
      BY <2>4
    <3>2. LastStatus'
      <4>1. Len(events) + 1 \in 1 .. Len(events)'
        BY <2>2
      <4>2. \A j \in Len(events) + 2 .. Len(events)' : FALSE
        BY <2>2
      <4>3. events'[Len(events) + 1] = Status(seen)'
        BY <2>2, <3>1 DEF Status
      <4> QED
        BY <2>2, <4>1, <4>2, <4>3 DEF LastStatus
    <3> QED
      BY <1>2, <2>2, <2>3, <3>2, ShownStep DEF ConsoleInv, consoleVars
  <2>5. CASE event.kind # "status"
    <3>1. seen' = seen
      BY <2>5
    <3>2. \A k \in 1 .. Len(events)' :
            k \in 1 .. Len(events) \/ k = Len(events) + 1
      BY <2>2
    <3>3. LastStatus'
      <4>1. CASE \A k \in 1 .. Len(events) : events[k].kind # "status"
        BY <2>2, <2>5, <3>2, <4>1 DEF LastStatus
      <4>2. ASSUME NEW k \in 1 .. Len(events), events[k] = Status(seen),
                   \A j \in k + 1 .. Len(events) : events[j].kind # "status"
            PROVE  LastStatus'
        <5>1. k \in 1 .. Len(events)' /\ events'[k] = Status(seen)'
          BY <2>2, <3>1, <4>2 DEF Status
        <5>2. ASSUME NEW j \in k + 1 .. Len(events)'
              PROVE  events'[j].kind # "status"
          BY <2>2, <2>5, <3>2, <4>2
        <5> QED
          BY <5>1, <5>2 DEF LastStatus
      <4> QED
        BY <4>1, <4>2 DEF ConsoleInv, LastStatus
    <3> QED
      BY <1>2, <2>2, <2>3, <3>1, <3>3, ShownStep DEF ConsoleInv, consoleVars
  <2> QED
    BY <2>4, <2>5
<1> QED
  BY <1>1, <1>2

(* ... the console gets past them one by one, or past those the channel    *)
(* has dropped all at once, ...                                            *)
LEMMA ReceiveConsole ==
  ASSUME ConsoleInv, [Next]_vars, Lagged \/ Receive
  PROVE  ReceiverInv' /\ LastStatus'
<1>1. /\ Len(events) \in Nat /\ Len(printed) \in Nat /\ ChanCap \in Nat \ {0}
      /\ next \in 1 .. Len(events) + 1 /\ next \in Nat /\ announced \in Nat
      /\ \A k \in 1 .. Len(printed) :
           printed[k] \in 1 .. next - 1 /\ printed[k] \in ToPrint
  BY ChanAssumption DEF ConsoleInv, ReceiverInv
<1>2. UNCHANGED <<events, seen, console, owner>>
  BY DEF Lagged, Receive, monitorVars, forwardVars
<1>3. LastStatus'
  BY <1>2 DEF ConsoleInv, LastStatus, Status
<1>4. ToPrint' = ToPrint
  BY <1>2 DEF ToPrint, Printable
<1>5. /\ IsFiniteSet(1 .. next - 1) /\ IsFiniteSet(Skipped) /\ IsFiniteSet(Missed)
      /\ Cardinality(Skipped) \in Nat /\ Cardinality(Missed) \in Nat
  <2>1. 1 \in Int /\ next - 1 \in Int
    BY <1>1
  <2>2. IsFiniteSet(1 .. next - 1)
    BY <2>1, FS_Interval
  <2>3. Skipped \in SUBSET (1 .. next - 1) /\ Missed \in SUBSET (1 .. next - 1)
    BY DEF Skipped, Missed
  <2>4. IsFiniteSet(Skipped) /\ IsFiniteSet(Missed)
    BY <2>2, <2>3, FS_Subset
  <2> QED
    BY <2>2, <2>4, FS_CardinalityType
<1>6. CASE Lagged
  <2> DEFINE gap == next .. next + Behind - 1
  <2>1. /\ Behind \in Nat \ {0} /\ next + Behind <= Len(events) + 1
        /\ announced' = announced + Behind /\ next' = next + Behind
        /\ printed' = printed
    BY <1>1, <1>6 DEF Lagged, Behind
  <2>2. IsFiniteSet(gap) /\ Cardinality(gap) = Behind
    <3>1. next \in Int /\ next + Behind - 1 \in Int /\ ~ next > next + Behind - 1
      BY <1>1, <2>1
    <3>2. IsFiniteSet(gap) /\ Cardinality(gap) = (next + Behind - 1) - next + 1
      BY <3>1, FS_Interval
    <3> QED
      BY <1>1, <2>1, <3>2
  <2>3. 1 .. next' - 1 = (1 .. next - 1) \cup gap /\ (1 .. next - 1) \cap gap = {}
    BY <1>1, <2>1
  <2>4. Members(printed') = Members(printed) /\ Members(printed) \subseteq 1 .. next - 1
    BY <1>1, <2>1 DEF Members
  <2>5. Skipped' = Skipped \cup gap /\ Skipped \cap gap = {}
    BY <2>3, <2>4 DEF Skipped
  <2>6. Missed' \subseteq Missed \cup gap
    BY <1>4, <2>3, <2>4 DEF Missed
  <2> HIDE DEF gap
  <2>7. Cardinality(Skipped') = Cardinality(Skipped) + Behind
    <3>1. /\ Cardinality(Skipped \cup gap)
               = Cardinality(Skipped) + Cardinality(gap)
                   - Cardinality(Skipped \cap gap)
          /\ Cardinality(Skipped \cap gap) = 0
      BY <1>5, <2>2, <2>5, FS_Union, FS_EmptySet
    <3> QED
      BY <1>5, <2>1, <2>2, <2>5, <3>1
  <2>8. Cardinality(Missed') <= Cardinality(Missed) + Behind
    <3>1. /\ IsFiniteSet(Missed \cup gap) /\ IsFiniteSet(Missed \cap gap)
          /\ Cardinality(Missed \cup gap)
               = Cardinality(Missed) + Cardinality(gap)
                   - Cardinality(Missed \cap gap)
      BY <1>5, <2>2, FS_Union, FS_Subset
    <3>2. /\ Cardinality(Missed') <= Cardinality(Missed \cup gap)
          /\ Cardinality(Missed') \in Nat /\ Cardinality(Missed \cup gap) \in Nat
          /\ Cardinality(Missed \cap gap) \in Nat
      BY <2>6, <3>1, FS_Subset, FS_CardinalityType
    <3> QED
      BY <1>5, <2>1, <2>2, <3>1, <3>2
  <2>9. Cardinality(Missed') <= announced' /\ announced' <= Cardinality(Skipped')
    <3>1. Cardinality(Missed) <= announced /\ announced <= Cardinality(Skipped)
      BY DEF ConsoleInv, ReceiverInv
    <3>2. Cardinality(Missed') \in Nat
      <4>1. IsFiniteSet(Missed \cup gap)
        BY <1>5, <2>2, FS_Union
      <4> QED
        BY <2>6, <4>1, FS_Subset, FS_CardinalityType
    <3> QED
      BY <1>1, <1>5, <2>1, <2>7, <2>8, <3>1, <3>2
  <2>10. \A k \in 1 .. Len(printed') :
           printed'[k] \in 1 .. next' - 1 /\ printed'[k] \in ToPrint'
    BY <1>1, <1>4, <2>1
  <2>11. \A j, k \in 1 .. Len(printed') : j < k => printed'[j] < printed'[k]
    BY <2>1 DEF ConsoleInv, ReceiverInv
  <2>12. next' \in 1 .. Len(events') + 1
    BY <1>1, <1>2, <2>1
  <2> QED
    BY <1>3, <2>9, <2>10, <2>11, <2>12 DEF ReceiverInv
<1>7. CASE Receive
  <2>1. next <= Len(events) /\ next' = next + 1 /\ announced' = announced
    BY <1>7 DEF Receive
  <2>2. /\ 1 .. next' - 1 = (1 .. next - 1) \cup {next}
        /\ next \notin 1 .. next - 1 /\ next' \in 1 .. Len(events') + 1
    BY <1>1, <1>2, <2>1
  <2>3. Members(printed) \subseteq 1 .. next - 1
    BY <1>1 DEF Members
  <2>4. Cardinality(Missed) <= announced /\ announced <= Cardinality(Skipped)
    BY DEF ConsoleInv, ReceiverInv
  <2>5. CASE next \notin ToPrint
    <3>1. printed' = printed
      BY <1>1, <1>7, <2>1, <2>5 DEF Receive, ToPrint
    <3>2. Members(printed') = Members(printed)
      BY <3>1
    <3>3. Missed' = Missed
      BY <1>4, <2>2, <2>5, <3>2 DEF Missed
    <3>4. Skipped \subseteq Skipped' /\ Skipped' = Skipped \cup {next}
      BY <2>2, <2>3, <3>2 DEF Skipped
    <3>5. /\ IsFiniteSet(Skipped') /\ Cardinality(Skipped') \in Nat
          /\ Cardinality(Skipped) <= Cardinality(Skipped')
      BY <1>5, <3>4, FS_AddElement, FS_Subset, FS_CardinalityType
    <3>6. Cardinality(Missed') <= announced' /\ announced' <= Cardinality(Skipped')
      BY <1>1, <1>5, <2>1, <2>4, <3>3, <3>5
    <3>7. \A k \in 1 .. Len(printed') :
            printed'[k] \in 1 .. next' - 1 /\ printed'[k] \in ToPrint'
      BY <1>1, <1>4, <2>2, <3>1
    <3>8. \A j, k \in 1 .. Len(printed') : j < k => printed'[j] < printed'[k]
      BY <3>1 DEF ConsoleInv, ReceiverInv
    <3> QED
      BY <1>3, <2>2, <3>6, <3>7, <3>8 DEF ReceiverInv
  <2>6. CASE next \in ToPrint
    <3>1. printed' = Append(printed, next)
      BY <1>7, <2>6 DEF Receive, ToPrint
    <3>2. /\ Len(printed') = Len(printed) + 1
          /\ printed'[Len(printed) + 1] = next
          /\ \A k \in 1 .. Len(printed) : printed'[k] = printed[k]
      BY <1>1, <3>1, Grows DEF ConsoleInv
    <3>3. \A k \in 1 .. Len(printed') :
            k \in 1 .. Len(printed) \/ k = Len(printed) + 1
      BY <1>1, <3>2
    <3>4. /\ \A k \in 1 .. Len(printed) : k \in 1 .. Len(printed')
          /\ Len(printed) + 1 \in 1 .. Len(printed')
      BY <1>1, <3>2
    <3>5. Members(printed') = Members(printed) \cup {next}
      BY <3>2, <3>3, <3>4 DEF Members
    <3>6. Missed' = Missed /\ Skipped' = Skipped
      BY <1>4, <2>2, <3>5 DEF Missed, Skipped
    <3>7. \A k \in 1 .. Len(printed') :
            printed'[k] \in 1 .. next' - 1 /\ printed'[k] \in ToPrint'
      BY <1>1, <1>4, <2>2, <2>6, <3>2, <3>3
    <3>8. \A j, k \in 1 .. Len(printed') : j < k => printed'[j] < printed'[k]
      <4> SUFFICES ASSUME NEW j \in 1 .. Len(printed'),
                          NEW k \in 1 .. Len(printed'), j < k
                   PROVE  printed'[j] < printed'[k]
        OBVIOUS
      <4>1. j \in 1 .. Len(printed)
        BY <1>1, <3>2
      <4>2. CASE k \in 1 .. Len(printed)
        BY <3>2, <4>1, <4>2 DEF ConsoleInv, ReceiverInv
      <4>3. CASE k = Len(printed) + 1
        BY <1>1, <3>2, <4>1, <4>3
      <4> QED
        BY <3>3, <4>2, <4>3
    <3> QED
      BY <1>3, <2>1, <2>2, <2>4, <3>6, <3>7, <3>8 DEF ReceiverInv
  <2> QED
    BY <2>5, <2>6
<1> QED
  BY <1>6, <1>7

(* ... and every step keeps the invariant.                                 *)
LEMMA ConsoleStepInv == ASSUME ConsoleInv, [Next]_vars PROVE ConsoleInv'
<1>1. AccountInv' /\ ShownInv'
  BY AccountStep, ShownStep DEF ConsoleInv
<1>2. ASSUME UNCHANGED <<seen, events, consoleVars>>, unsent' \in Nat
      PROVE  ConsoleInv'
  <2>1. ReceiverInv'
    <3>1. Len(events') \in Nat /\ Len(events') >= Len(events)
      BY <1>2 DEF ConsoleInv
    <3> QED
      BY <1>2, <3>1, ReceiverStays
  <2>2. LastStatus'
    BY <1>2 DEF ConsoleInv, LastStatus, Status
  <2> QED
    BY <1>1, <1>2, <2>1, <2>2 DEF ConsoleInv, consoleVars
<1>3. CASE Observe
  <2>1. PICK i \in seen + 1 .. Len(statuses) : seen' = i /\ Send(Status(i))
    BY <1>3 DEF Observe
  <2>2. i \in Nat /\ UNCHANGED <<unsent, consoleVars>>
    BY <1>3 DEF ConsoleInv, Observe
  <2>3. Status(i) \in Event /\ Status(i).kind = "status"
    BY <2>2 DEF Status, Event
  <2>4. Status(i) = Status(seen') /\ seen' \in Nat /\ unsent' \in Nat
    BY <2>1, <2>2 DEF ConsoleInv
  <2> QED
    BY <1>1, <2>1, <2>2, <2>3, <2>4, SendConsole
<1>4. CASE SendEvent
  <2>1. Entry(unsent) \in Event /\ Entry(unsent).kind # "status"
    BY DEF ConsoleInv, Entry, Event
  <2>2. /\ Send(Entry(unsent)) /\ seen' = seen /\ seen' \in Nat
        /\ unsent' \in Nat /\ UNCHANGED consoleVars
    BY <1>4 DEF ConsoleInv, SendEvent
  <2> QED
    BY <1>1, <2>1, <2>2, SendConsole
<1>5. CASE TakeEntry
  <2>1. Head(list) \in Nat
    BY <1>5, PoppedHead DEF ConsoleInv, AccountInv, ForwardTypes, TakeEntry
  <2> QED
    BY <1>2, <1>5, <2>1 DEF TakeEntry
<1>6. CASE Lagged \/ Receive
  <2>1. /\ console = "loop" /\ UNCHANGED <<console, events, seen, unsent>>
        /\ printed' \in Seq(Nat) /\ announced' \in Nat
    <3>1. next \in Nat /\ Len(events) \in Nat
      BY DEF ConsoleInv, ReceiverInv
    <3>2. CASE Lagged
      BY <3>1, <3>2, ChanAssumption DEF ConsoleInv, Lagged, Behind, monitorVars
    <3>3. CASE Receive
      BY <3>1, <3>3 DEF ConsoleInv, Receive, monitorVars
    <3> QED
      BY <1>6, <3>2, <3>3
  <2> QED
    BY <1>1, <1>6, <2>1, ReceiveConsole DEF ConsoleInv
<1>7. CASE SubscribeEvents \/ EndConsole
  <2>1. /\ events' = <<>> /\ next' = 1 /\ UNCHANGED <<seen, unsent>>
        /\ announced' \in Nat /\ printed' \in Seq(Nat)
    <3>1. CASE SubscribeEvents
      <4>1. events = <<>> /\ next = 1
        BY <3>1 DEF ConsoleInv, SubscribeEvents
      <4> QED
        BY <3>1, <4>1 DEF ConsoleInv, SubscribeEvents, monitorVars
    <3>2. CASE EndConsole
      BY <3>2 DEF EndConsole
    <3> QED
      BY <1>7, <3>1, <3>2
  <2>2. CASE SubscribeEvents
    <3>1. UNCHANGED <<next, printed, announced, events, owner, seen>>
      BY <2>2 DEF SubscribeEvents, monitorVars, forwardVars
    <3>2. ToPrint' = ToPrint
      BY <3>1 DEF ToPrint, Printable
    <3>3. Missed' = Missed /\ Skipped' = Skipped
      BY <3>1, <3>2 DEF Missed, Skipped, Members
    <3>4. ReceiverInv'
      BY <3>1, <3>2, <3>3 DEF ConsoleInv, ReceiverInv
    <3>5. LastStatus'
      BY <3>1 DEF ConsoleInv, LastStatus, Status
    <3> QED
      BY <1>1, <2>1, <3>4, <3>5 DEF ConsoleInv
  <2>3. CASE EndConsole
    <3>1. /\ Len(events') = 0 /\ Len(printed') = 0 /\ announced' = 0
          /\ 1 .. next' - 1 = {}
      BY <2>1, <2>3 DEF EndConsole
    <3>2. Missed' = {} /\ Skipped' = {}
      BY <3>1 DEF Missed, Skipped
    <3>3. ReceiverInv'
      BY <2>1, <3>1, <3>2, FS_EmptySet DEF ReceiverInv
    <3>4. LastStatus'
      BY <3>1 DEF LastStatus
    <3> QED
      BY <1>1, <2>1, <3>3, <3>4 DEF ConsoleInv
  <2> QED
    BY <1>7, <2>2, <2>3
<1>8. CASE \/ Forward /\ UNCHANGED <<monitorVars, consoleVars>>
           \/ LoseEntry \/ Cancel \/ UNCHANGED vars
  BY <1>2, <1>8 DEF ConsoleInv, LoseEntry, Cancel, vars, monitorVars
<1> QED
  BY <1>3, <1>4, <1>5, <1>6, <1>7, <1>8 DEF Next, MonitorStep, ConsoleStep

(* Of the events sent since it subscribed, the console prints statuses,    *)
(* warnings and errors in their order and nothing else, and its lag        *)
(* warnings count all it misses of them; when it has caught up and missed  *)
(* none, the last status it printed is the one PeerState shows.            *)
THEOREM ConsoleShowsAll == Spec => []ConsoleComplete
<1>1. ASSUME ConsoleInv PROVE ConsoleComplete
  <2> DEFINE Statuses == {k \in DOMAIN events : events[k].kind = "status"}
  <2>1. /\ \A j, k \in 1 .. Len(printed) : j < k => printed[j] < printed[k]
        /\ \A k \in Members(printed) : k \in 1 .. next - 1 /\ Printable(k)
        /\ ToPrint \cap (1 .. next - 1) = {k \in 1 .. next - 1 : Printable(k)}
        /\ Cardinality(Missed) <= announced
        /\ announced <= Cardinality(Skipped)
    <3>1. next \in 1 .. Len(events) + 1 /\ Len(events) \in Nat
      BY <1>1 DEF ConsoleInv, ReceiverInv
    <3>2. 1 .. next - 1 \subseteq 1 .. Len(events)
      BY <3>1
    <3>3. ToPrint \cap (1 .. next - 1) = {k \in 1 .. next - 1 : Printable(k)}
      BY <3>2 DEF ToPrint
    <3>4. ReceiverInv
      BY <1>1 DEF ConsoleInv
    <3>5. \A k \in Members(printed) : k \in 1 .. next - 1 /\ k \in ToPrint
      BY <3>4 DEF ReceiverInv, Members
    <3> QED
      BY <3>3, <3>4, <3>5 DEF ReceiverInv
  <2>2. ASSUME next > Len(events), announced = 0, Statuses # {}
        PROVE  \E k \in DOMAIN printed :
                 /\ events[printed[k]] = Status(seen)
                 /\ \A j \in k + 1 .. Len(printed) : printed[j] \notin Statuses
    <3>1. /\ DOMAIN events = 1 .. Len(events) /\ Len(events) \in Nat
          /\ DOMAIN printed = 1 .. Len(printed) /\ Len(printed) \in Nat
      BY <1>1 DEF ConsoleInv
    <3>2. 1 .. Len(events) = 1 .. next - 1 /\ next \in Nat
      BY <1>1, <2>2, <3>1 DEF ConsoleInv, ReceiverInv
    <3>3. Missed = {}
      <4>1. IsFiniteSet(Missed)
        <5>1. 1 \in Int /\ next - 1 \in Int
          BY <3>2
        <5>2. IsFiniteSet(1 .. next - 1)
          BY <5>1, FS_Interval
        <5>3. Missed \in SUBSET (1 .. next - 1)
          BY DEF Missed
        <5> QED
          BY <5>2, <5>3, FS_Subset
      <4>2. Cardinality(Missed) = 0
        BY <2>1, <2>2, <4>1, FS_CardinalityType
      <4> QED
        BY <4>1, <4>2, FS_EmptySet
    <3>4. PICK l \in 1 .. Len(events) :
            /\ events[l] = Status(seen)
            /\ \A j \in l + 1 .. Len(events) : events[j].kind # "status"
      BY <1>1, <2>2, <3>1 DEF ConsoleInv, LastStatus
    <3>5. l \in Members(printed)
      BY <3>2, <3>3, <3>4 DEF Missed, ToPrint, Printable, Status
    <3>6. PICK k \in 1 .. Len(printed) : printed[k] = l
      BY <3>5 DEF Members
    <3>7. ASSUME NEW j \in k + 1 .. Len(printed) PROVE printed[j] \notin Statuses
      <4>1. j \in 1 .. Len(printed) /\ k < j
        BY <3>1
      <4>2. printed[j] \in 1 .. Len(events) /\ printed[k] < printed[j]
        BY <1>1, <3>2, <4>1 DEF ConsoleInv, ReceiverInv
      <4>3. printed[j] \in l + 1 .. Len(events)
        BY <3>1, <3>6, <4>2
      <4> QED
        BY <3>4, <4>3
    <3> QED
      BY <3>1, <3>4, <3>6, <3>7
  <2> QED
    BY <2>1, <2>2 DEF ConsoleComplete, Missed, Skipped
<1> QED
  BY <1>1, ConsoleInit, ConsoleStepInv, PTL DEF Spec

-----------------------------------------------------------------------------
(* The order of arrival.                                                   *)

Rising(s) == \A j, k \in 1 .. Len(s) : j < k => s[j] < s[k]

(* Of a rising queue the head is the least, and what is left of it rises;  *)
LEMMA RisingTail ==
  ASSUME NEW s \in Seq(Nat), s # <<>>, Rising(s)
  PROVE  /\ Rising(Tail(s)) /\ Members(Tail(s)) \subseteq Members(s)
         /\ Head(s) \in Members(s) /\ \A e \in Members(Tail(s)) : Head(s) < e
<1>1. /\ Len(Tail(s)) = Len(s) - 1 /\ Head(s) = s[1]
      /\ \A k \in 1 .. Len(s) - 1 : Tail(s)[k] = s[k + 1]
  BY PoppedHead
<1>2. Len(s) \in Nat /\ Len(s) > 0
  BY EmptySeq
<1>3. \A k \in 1 .. Len(Tail(s)) :
        k + 1 \in 1 .. Len(s) /\ Tail(s)[k] = s[k + 1] /\ s[1] < s[k + 1]
  BY <1>1, <1>2 DEF Rising
<1>4. Rising(Tail(s))
  BY <1>1, <1>2, <1>3 DEF Rising
<1>5. Head(s) \in Members(s)
  BY <1>1, <1>2 DEF Members
<1> QED
  BY <1>1, <1>3, <1>4, <1>5 DEF Members

(* and it goes on rising with an entry greater than all of it.             *)
LEMMA RisingEnd ==
  ASSUME NEW s \in Seq(Nat), NEW x \in Nat, Rising(s),
         \A e \in Members(s) : e < x
  PROVE  Rising(Append(s, x)) /\ Members(Append(s, x)) = Members(s) \cup {x}
<1> DEFINE t == Append(s, x)
<1>1. /\ Len(t) = Len(s) + 1 /\ Len(s) \in Nat /\ t[Len(s) + 1] = x
      /\ \A k \in 1 .. Len(s) : t[k] = s[k] /\ s[k] < x
  BY Grows DEF Members
<1>2. \A k \in 1 .. Len(t) : k \in 1 .. Len(s) \/ k = Len(s) + 1
  BY <1>1
<1> HIDE DEF t
<1>3. Rising(t)
  <2> SUFFICES ASSUME NEW j \in 1 .. Len(t), NEW k \in 1 .. Len(t), j < k
               PROVE  t[j] < t[k]
    BY DEF Rising
  <2>1. j \in 1 .. Len(s)
    BY <1>1
  <2>2. CASE k \in 1 .. Len(s)
    BY <1>1, <2>1, <2>2 DEF Rising
  <2>3. CASE k = Len(s) + 1
    BY <1>1, <2>1, <2>3
  <2> QED
    BY <1>2, <2>2, <2>3
<1>4. Members(t) = Members(s) \cup {x}
  <2>1. Members(t) \subseteq Members(s) \cup {x}
    BY <1>1, <1>2 DEF Members
  <2>2. Members(s) \cup {x} \subseteq Members(t)
    BY <1>1 DEF Members
  <2> QED
    BY <2>1, <2>2
<1> QED
  BY <1>3, <1>4 DEF t

(* What the process has logged and Redis has not: it is of this process,   *)
(* and later than all that arrived.                                        *)
Pending == Members(queue) \cup Held

PendingInv ==
  /\ arrived \cup cut \cup Pending \subseteq 1 .. Len(owner)
  /\ Rising(queue) /\ Len(queue) <= QueueCap
  /\ \A e \in Members(queue) : inFlight < e
  /\ \A e \in Pending : owner[e] = process /\ \A a \in arrived : a < e
  /\ proc \in {"asleep", "exited"} => queue = <<>> /\ inFlight = 0

(* What died with a process: none of it of the one that runs, ...          *)
CutOf(n) == {e \in cut : owner[e] = n}

CutInv ==
  /\ \A e \in cut :
       /\ owner[e] \in 1 .. process
       /\ owner[e] = process => proc \in {"asleep", "exited"}
       /\ \A a \in arrived : owner[a] = owner[e] => a < e
  /\ \A n \in Nat :
       IsFiniteSet(CutOf(n)) /\ Cardinality(CutOf(n)) <= QueueCap + 1

(* ... and of a Go peer only what a crash cuts off.                        *)
GoInv ==
  client = "go" =>
    /\ queue = <<>> /\ full = {}
    /\ proc = "leaving" => inFlight = 0
    /\ \A e \in cut : owner[e] \in crashed

OrderInv == ForwardTypes /\ PendingInv /\ CutInv /\ GoInv

(* At first nothing is logged.                                             *)
LEMMA OrderInit == ASSUME Init PROVE OrderInv
<1>1. /\ Members(queue) = {} /\ Held = {} /\ Len(queue) = 0 /\ Rising(queue)
  BY DEF Init, ForwardInit, Members, Held, Rising
<1>2. PendingInv
  BY <1>1, LogAssumption DEF Init, ForwardInit, PendingInv, Pending
<1>3. CutInv
  <2>1. \A n : CutOf(n) = {}
    BY DEF Init, ForwardInit, CutOf
  <2> QED
    BY <2>1, FS_EmptySet, LogAssumption DEF Init, ForwardInit, CutInv
<1>4. GoInv
  BY DEF Init, ForwardInit, GoInv
<1> QED
  BY <1>2, <1>3, <1>4, ForwardTypesInit DEF OrderInv

(* Of the entries a process leaves behind, there are at most a queue and   *)
(* the one in flight.                                                      *)
LEMMA PendingCount ==
  ASSUME OrderInv
  PROVE  IsFiniteSet(Pending) /\ Cardinality(Pending) <= QueueCap + 1
<1>1. /\ IsFiniteSet(Members(queue)) /\ Cardinality(Members(queue)) \in Nat
      /\ Cardinality(Members(queue)) <= QueueCap
  <2>1. queue \in Seq(Nat) /\ Len(queue) \in Nat /\ Len(queue) <= QueueCap
    BY DEF OrderInv, ForwardTypes, PendingInv
  <2>2. IsFiniteSet(Members(queue)) /\ Cardinality(Members(queue)) <= Len(queue)
    BY <2>1, DistinctCount, MembersAre
  <2> QED
    BY <2>1, <2>2, FS_CardinalityType, LogAssumption
<1>2. CASE Held = {}
  BY <1>1, <1>2, LogAssumption DEF Pending
<1>3. CASE Held # {}
  <2>1. Pending = Members(queue) \cup {inFlight}
    BY <1>3 DEF Pending, Held
  <2>2. /\ IsFiniteSet(Members(queue) \cup {inFlight})
        /\ Cardinality(Members(queue) \cup {inFlight})
             <= Cardinality(Members(queue)) + 1
    BY <1>1, FS_AddElement
  <2>3. Cardinality(Members(queue) \cup {inFlight}) \in Nat
    BY <2>2, FS_CardinalityType
  <2> QED
    BY <1>1, <2>1, <2>2, <2>3, LogAssumption
<1> QED
  BY <1>2, <1>3

(* What a step shows of the order of arrival.                              *)
StepOrder ==
  /\ \A e \in arrived' \ arrived, a \in arrived : a < e
  /\ cut' \subseteq 1 .. Len(owner)
  /\ \A e \in 1 .. Len(owner) : owner'[e] = owner[e]

(* A new entry is later than all there are, ...                            *)
LEMMA LogOrder ==
  ASSUME OrderInv, ForwardTypes', Log PROVE OrderInv' /\ StepOrder
<1> DEFINE n == Len(owner)
<1>1. /\ n \in Nat /\ Len(owner)' = n + 1 /\ owner'[n + 1] = process
      /\ \A e \in 1 .. n : owner'[e] = owner[e]
  BY Grows DEF OrderInv, ForwardTypes, Log
<1>2. /\ UNCHANGED <<client, proc, process, arrived, cut, crashed>>
      /\ proc = "running"
  BY DEF Log, ProgramRuns
<1>3. /\ arrived \subseteq 1 .. n /\ cut \subseteq 1 .. n
      /\ Held \subseteq 1 .. n
      /\ Members(queue) \subseteq 1 .. n /\ inFlight \in 0 .. n
  <2>1. arrived \cup cut \cup Pending \subseteq 1 .. n /\ inFlight \in Nat
    BY DEF OrderInv, ForwardTypes, PendingInv
  <2>2. inFlight = 0 \/ inFlight \in Pending
    BY DEF Pending, Held
  <2>3. inFlight \in 0 .. n
    BY <1>1, <2>1, <2>2
  <2> QED
    BY <2>1, <2>3 DEF Pending
<1>4. StepOrder
  BY <1>1, <1>2, <1>3 DEF StepOrder
<1>5. CutInv'
  <2>1. \A m : CutOf(m)' = CutOf(m)
    BY <1>1, <1>2, <1>3 DEF CutOf
  <2>2. \A e \in cut \cup arrived : owner'[e] = owner[e]
    BY <1>1, <1>3
  <2>3. \A e \in cut :
          /\ owner'[e] \in 1 .. process /\ owner'[e] # process
          /\ \A a \in arrived : owner'[a] = owner'[e] => a < e
    BY <1>2, <2>2 DEF OrderInv, CutInv
  <2> QED
    BY <1>2, <2>1, <2>3 DEF OrderInv, CutInv
<1>6. GoInv'
  <2>1. client = "go" => queue' = queue /\ full' = full
    BY DEF Log, Emit
  <2>2. \A e \in cut : owner'[e] = owner[e]
    BY <1>1, <1>3
  <2> QED
    BY <1>2, <2>1, <2>2 DEF OrderInv, GoInv
<1>7. ASSUME Rising(queue'), Len(queue)' <= QueueCap,
             Members(queue') \subseteq Members(queue) \cup {n + 1},
             Held' \subseteq Held \cup {n + 1},
             \A e \in Members(queue') : inFlight' < e
      PROVE  PendingInv'
  <2>1. \A e \in Pending' : e = n + 1 \/ e \in Pending
    BY <1>7 DEF Pending
  <2>2. /\ 1 .. n \subseteq 1 .. Len(owner)' /\ n + 1 \in 1 .. Len(owner)'
    BY <1>1
  <2>3. (arrived \cup cut \cup Pending)' \subseteq 1 .. Len(owner)'
    BY <1>2, <1>3, <2>1, <2>2 DEF Pending
  <2>4. ASSUME NEW e \in Pending'
        PROVE  owner'[e] = process /\ \A a \in arrived : a < e
    <3>1. CASE e = n + 1
      BY <1>1, <1>3, <3>1
    <3>2. CASE e \in Pending
      BY <1>1, <1>3, <3>2 DEF OrderInv, PendingInv, Pending
    <3> QED
      BY <2>1, <3>1, <3>2
  <2>5. Members(queue') = Members(queue)'
    BY DEF Members
  <2> QED
    BY <1>2, <1>7, <2>3, <2>4, <2>5 DEF PendingInv
<1>8. PendingInv'
  <2>1. CASE client = "go"
    <3>1. queue = <<>> /\ queue' = queue /\ inFlight = 0 /\ inFlight' = n + 1
      BY <2>1 DEF OrderInv, GoInv, Log, Emit, ProgramRuns
    <3>2. Members(queue') = {} /\ Held' \subseteq Held \cup {n + 1}
      BY <3>1 DEF Members, Held
    <3> QED
      BY <1>7, <3>1, <3>2 DEF OrderInv, PendingInv
  <2>2. CASE client # "go" /\ Len(queue) < QueueCap
    <3>1. queue' = Append(queue, n + 1) /\ inFlight' = inFlight
      BY <2>2 DEF Log, Emit
    <3>2. /\ Rising(queue') /\ Members(queue') = Members(queue) \cup {n + 1}
      <4>1. n + 1 \in Nat /\ \A e \in Members(queue) : e < n + 1
        BY <1>1, <1>3
      <4> QED
        BY <3>1, <4>1, RisingEnd DEF OrderInv, ForwardTypes, PendingInv
    <3>3. Len(queue)' <= QueueCap
      BY <2>2, <3>1, LogAssumption, Grows, <1>1 DEF OrderInv, ForwardTypes
    <3>4. \A e \in Members(queue') : inFlight' < e
      BY <1>1, <1>3, <3>1, <3>2 DEF OrderInv, PendingInv
    <3>5. Held' = Held
      BY <3>1 DEF Held
    <3> QED
      BY <1>7, <3>2, <3>3, <3>4, <3>5
  <2>3. CASE client # "go" /\ ~ (Len(queue) < QueueCap)
    <3>1. queue' = queue /\ inFlight' = inFlight
      BY <2>3 DEF Log, Emit
    <3>2. Held' = Held
      BY <3>1 DEF Held
    <3> QED
      BY <1>7, <3>1, <3>2 DEF OrderInv, PendingInv
  <2> QED
    BY <2>1, <2>2, <2>3
<1> QED
  BY <1>4, <1>5, <1>6, <1>8 DEF OrderInv

(* ... the least of the queue is taken, ...                                *)
LEMMA TakeOrder ==
  ASSUME OrderInv, ForwardTypes', Take PROVE OrderInv' /\ StepOrder
<1>1. /\ queue # <<>> /\ inFlight = 0 /\ inFlight' = Head(queue)
      /\ queue' = Tail(queue)
      /\ UNCHANGED <<client, proc, process, owner, arrived, full, cut, crashed>>
      /\ proc \in {"running", "leaving"}
  BY DEF Take
<1>2. /\ Rising(queue') /\ Members(queue') \subseteq Members(queue)
      /\ Head(queue) \in Members(queue)
      /\ \A e \in Members(queue') : Head(queue) < e
      /\ Len(queue)' = Len(queue) - 1
  BY <1>1, RisingTail, PoppedHead DEF OrderInv, ForwardTypes, PendingInv
<1>3. Pending' \subseteq Pending
  BY <1>1, <1>2 DEF Pending, Held
<1>4. PendingInv'
  <2>1. Len(queue)' <= QueueCap
    BY <1>2, LogAssumption DEF OrderInv, PendingInv, ForwardTypes
  <2> QED
    BY <1>1, <1>2, <1>3, <2>1 DEF OrderInv, PendingInv, Members
<1>5. CutInv' /\ StepOrder
  BY <1>1 DEF OrderInv, PendingInv, CutInv, CutOf, StepOrder
<1>6. GoInv'
  BY <1>1 DEF OrderInv, GoInv
<1> QED
  BY <1>4, <1>5, <1>6 DEF OrderInv

(* ... and arrives before what is left of it, or is refused, ...           *)
LEMMA LpushOrder ==
  ASSUME OrderInv, ForwardTypes', Lpush \/ LpushFails
  PROVE  OrderInv' /\ StepOrder
<1>1. /\ inFlight # 0 /\ inFlight' = 0
      /\ UNCHANGED <<client, proc, process, owner, queue, full, cut, crashed>>
      /\ arrived' \subseteq arrived \cup {inFlight}
  BY DEF Lpush, LpushFails, Arrives
<1>2. /\ inFlight \in Pending /\ Pending' \subseteq Pending
      /\ Pending' = Members(queue)
  BY <1>1 DEF Pending, Held, Members
<1>3. proc \notin {"asleep", "exited"}
  BY <1>1 DEF OrderInv, PendingInv
<1>4. PendingInv'
  <2>1. (arrived \cup cut \cup Pending)' \subseteq 1 .. Len(owner)'
    BY <1>1, <1>2 DEF OrderInv, PendingInv
  <2>2. \A e \in Members(queue) : 0 < e
    <3>1. Members(queue) \subseteq 1 .. Len(owner) /\ Len(owner) \in Nat
      BY DEF OrderInv, ForwardTypes, PendingInv, Pending
    <3> QED
      BY <3>1
  <2>3. \A e \in Pending', a \in arrived' : a < e
    BY <1>1, <1>2 DEF OrderInv, PendingInv
  <2> QED
    BY <1>1, <1>2, <1>3, <2>1, <2>2, <2>3 DEF OrderInv, PendingInv, Members
<1>5. CutInv'
  <2>1. \A e \in cut, a \in arrived' : owner[a] = owner[e] => a < e
    BY <1>1, <1>2, <1>3 DEF OrderInv, PendingInv, CutInv
  <2> QED
    BY <1>1, <2>1 DEF OrderInv, CutInv, CutOf
<1>6. GoInv'
  BY <1>1 DEF OrderInv, GoInv
<1>7. StepOrder
  BY <1>1, <1>2 DEF OrderInv, PendingInv, StepOrder
<1> QED
  BY <1>4, <1>5, <1>6, <1>7 DEF OrderInv

(* ... or is cut off with the process, and all that is left with it, ...   *)
LEMMA PerishOrder ==
  ASSUME OrderInv, ForwardTypes', Perish, proc \in {"running", "leaving"},
         proc' \in {"asleep", "exited"},
         UNCHANGED <<client, process, owner, full>>, crashed \subseteq crashed',
         client = "go" => inFlight = 0 \/ process \in crashed'
  PROVE  OrderInv' /\ StepOrder
<1>1. /\ queue' = <<>> /\ inFlight' = 0 /\ cut \subseteq cut'
      /\ cut' \subseteq cut \cup Pending /\ arrived' \subseteq arrived \cup Held
      /\ \/ arrived' = arrived
         \/ cut' = cut \cup Members(queue)
  BY DEF Perish, Arrives, Pending, Held
<1>2. Held \subseteq {inFlight} /\ Held \subseteq Pending /\ Pending' = {}
      /\ Members(queue') = {} /\ Rising(queue')
  BY <1>1 DEF Pending, Held, Members, Rising
<1>3. /\ Pending \subseteq 1 .. Len(owner) /\ arrived \subseteq 1 .. Len(owner)
      /\ cut \subseteq 1 .. Len(owner)
      /\ \A e \in Pending : owner[e] = process /\ \A a \in arrived : a < e
      /\ \A e \in cut : owner[e] # process
  BY DEF OrderInv, PendingInv, CutInv
<1>4. PendingInv'
  <2>1. Len(queue)' <= QueueCap /\ Len(queue)' = 0
    BY <1>1, LogAssumption
  <2>2. \A e \in Members(queue)' : FALSE
    BY <1>1 DEF Members
  <2> QED
    BY <1>1, <1>2, <1>3, <2>1, <2>2 DEF PendingInv
<1>5. ASSUME NEW e \in cut', NEW a \in arrived', owner[a] = owner[e]
      PROVE  a < e
  <2>1. CASE e \in cut
    <3>1. a \in arrived
      BY <1>1, <1>2, <1>3, <1>5, <2>1
    <3> QED
      BY <1>5, <2>1, <3>1 DEF OrderInv, CutInv
  <2>2. CASE e \in Pending
    <3>1. CASE a \in arrived
      BY <1>3, <2>2, <3>1
    <3>2. CASE a \notin arrived /\ e \notin cut
      BY <1>1, <1>2, <3>2 DEF OrderInv, PendingInv
    <3> QED
      BY <2>1, <3>1, <3>2
  <2> QED
    BY <1>1, <2>1, <2>2
<1>6. CutInv'
  <2>1. \A e \in cut' : owner[e] \in 1 .. process
    BY <1>1, <1>3 DEF OrderInv, ForwardTypes, CutInv
  <2>2. ASSUME NEW n \in Nat
        PROVE  IsFiniteSet(CutOf(n)') /\ Cardinality(CutOf(n)') <= QueueCap + 1
    <3>1. CASE n # process
      <4>1. CutOf(n)' = CutOf(n)
        BY <1>1, <1>3, <3>1 DEF CutOf
      <4> QED
        BY <4>1 DEF OrderInv, CutInv
    <3>2. CASE n = process
      <4>1. CutOf(n)' \subseteq Pending
        BY <1>1, <1>3, <3>2 DEF CutOf
      <4>2. /\ IsFiniteSet(CutOf(n)')
            /\ Cardinality(CutOf(n)') <= Cardinality(Pending)
        BY <4>1, PendingCount, FS_Subset
      <4>3. Cardinality(CutOf(n)') \in Nat /\ Cardinality(Pending) \in Nat
        BY <4>2, PendingCount, FS_CardinalityType
      <4> QED
        BY <4>2, <4>3, PendingCount, LogAssumption
    <3> QED
      BY <3>1, <3>2
  <2> QED
    BY <1>5, <2>1, <2>2 DEF CutInv
<1>7. GoInv'
  <2>1. ASSUME client = "go", NEW e \in cut' PROVE owner[e] \in crashed'
    <3>1. CASE e \in cut
      BY <2>1, <3>1 DEF OrderInv, GoInv
    <3>2. CASE e \notin cut
      <4>1. e \in Pending /\ Members(queue) = {}
        BY <1>1, <2>1, <3>2 DEF OrderInv, GoInv, Members
      <4>2. inFlight # 0
        BY <4>1 DEF Pending, Held
      <4> QED
        BY <1>3, <2>1, <4>1, <4>2
    <3> QED
      BY <3>1, <3>2
  <2> QED
    BY <1>1, <2>1 DEF OrderInv, GoInv
<1>8. StepOrder
  BY <1>1, <1>2, <1>3 DEF StepOrder
<1> QED
  BY <1>4, <1>6, <1>7, <1>8 DEF OrderInv

(* ... and the next process begins with nothing pending.                   *)
LEMMA RestartOrder ==
  ASSUME OrderInv, ForwardTypes', Restart PROVE OrderInv' /\ StepOrder
<1> DEFINE n == Len(owner)
<1>1. /\ n \in Nat /\ Len(owner)' = n + 1 /\ owner'[n + 1] = 0
      /\ \A e \in 1 .. n : owner'[e] = owner[e]
  BY Grows DEF OrderInv, ForwardTypes, Restart
<1>2. /\ proc = "asleep" /\ proc' = "running" /\ process' = process + 1
      /\ UNCHANGED <<client, queue, inFlight, full, cut, crashed>>
      /\ arrived' \subseteq arrived \cup {n + 1}
  BY DEF Restart, Arrives
<1>3. /\ queue = <<>> /\ inFlight = 0 /\ Pending = {} /\ Pending' = {}
      /\ Members(queue) = {}
  BY <1>2 DEF OrderInv, PendingInv, Pending, Members, Held
<1>4. arrived \subseteq 1 .. n /\ cut \subseteq 1 .. n
  BY DEF OrderInv, PendingInv
<1>5. PendingInv'
  <2>1. arrived' \cup cut' \cup Pending' \subseteq 1 .. Len(owner)'
    BY <1>1, <1>2, <1>3, <1>4
  <2> QED
    BY <1>2, <1>3, <2>1 DEF OrderInv, PendingInv, Members, Rising
<1>6. CutInv'
  <2>1. process \in Nat \ {0}
    BY DEF OrderInv, ForwardTypes
  <2>2. \A e \in cut : owner'[e] = owner[e] /\ owner[e] \in 1 .. process
    BY <1>1, <1>4 DEF OrderInv, CutInv
  <2>3. ASSUME NEW e \in cut, NEW a \in arrived', owner'[a] = owner'[e]
        PROVE  a < e
    <3>1. a \in arrived
      BY <1>1, <1>2, <2>1, <2>2, <2>3
    <3>2. owner[a] = owner[e]
      BY <1>1, <1>4, <2>2, <2>3, <3>1
    <3> QED
      BY <3>1, <3>2 DEF OrderInv, CutInv
  <2>4. \A m : CutOf(m)' = CutOf(m)
    BY <1>2, <2>2 DEF CutOf
  <2> QED
    BY <1>2, <2>1, <2>2, <2>3, <2>4 DEF OrderInv, CutInv
<1>7. GoInv'
  BY <1>1, <1>2, <1>3, <1>4 DEF OrderInv, GoInv
<1>8. StepOrder
  BY <1>1, <1>2, <1>4 DEF StepOrder
<1> QED
  BY <1>5, <1>6, <1>7, <1>8 DEF OrderInv

(* Every step keeps the order.                                             *)
LEMMA OrderStep ==
  ASSUME OrderInv, [Next]_vars
  PROVE  OrderInv' /\ StepOrder /\ client' = client
<1>1. ForwardTypes'
  BY ForwardTypesStep DEF OrderInv
<1>2. ASSUME UNCHANGED <<client, process, owner, queue, inFlight, arrived, full,
                         cut, crashed>>,
             \/ proc' = proc
             \/ /\ proc = "running" /\ proc' = "leaving"
                /\ client = "go" => inFlight = 0
      PROVE  OrderInv' /\ StepOrder
  <2>1. PendingInv'
    BY <1>2 DEF OrderInv, PendingInv, Pending, Members, Held, Rising
  <2>2. CutInv' /\ StepOrder
    <3>1. \A e \in cut : owner[e] = process => proc' = proc
      BY <1>2 DEF OrderInv, CutInv
    <3> QED
      BY <1>2, <3>1 DEF OrderInv, PendingInv, CutInv, CutOf, StepOrder
  <2>3. GoInv'
    BY <1>2 DEF OrderInv, GoInv
  <2> QED
    BY <1>1, <2>1, <2>2, <2>3 DEF OrderInv
<1>3. CASE Leave
  BY <1>2, <1>3 DEF Leave, ProgramRuns
<1>4. CASE Exit
  <2>1. client = "go" => inFlight = 0
    BY <1>4 DEF OrderInv, GoInv, Exit
  <2>2. proc' \in {"asleep", "exited"}
    BY <1>4 DEF Exit, Ends
  <2> QED
    BY <1>1, <1>4, <2>1, <2>2, PerishOrder DEF Exit
<1>5. CASE Crash
  BY <1>1, <1>5, PerishOrder DEF Crash
<1>6. CASE Log \/ Take \/ Lpush \/ LpushFails \/ Restart
  BY <1>1, <1>6, LogOrder, TakeOrder, LpushOrder, RestartOrder
     DEF Log, Take, Lpush, LpushFails, Restart
<1>7. CASE TakeEntry \/ LoseEntry
  BY <1>2, <1>7 DEF TakeEntry, LoseEntry, Pop
<1>8. CASE UNCHANGED forwardVars
  BY <1>2, <1>8 DEF forwardVars
<1> QED
  BY <1>3, <1>4, <1>5, <1>6, <1>7, <1>8
     DEF Next, Forward, Flusher, MonitorStep, ConsoleStep, Observe, SendEvent,
         Cancel, SubscribeEvents, Lagged, Receive, EndConsole, vars

(* What a process logs arrives in the order it was logged, after what the  *)
(* processes before it logged; when a process ends at most the end of what *)
(* it logged is cut off, a queue and the entry in flight; and a Go peer    *)
(* loses nothing but what Redis refuses, unless it is killed.              *)
THEOREM OrderOfArrival == Spec => ArrivesInOrder
<1>1. ASSUME OrderInv, [Next]_vars PROVE InOrder
  <2>1. OrderInv' /\ StepOrder /\ client' = client
    BY <1>1, OrderStep
  <2>2. \A e \in cut' : owner'[e] = owner[e]
    BY <2>1 DEF StepOrder
  <2>3. \A n \in 1 .. process :
          Cardinality({e \in cut' : owner[e] = n}) <= QueueCap + 1
    <3>1. ASSUME NEW n \in 1 .. process
          PROVE  /\ n \in Nat
                 /\ {e \in cut' : owner[e] = n} = CutOf(n)'
      BY <2>2 DEF CutOf
    <3> QED
      BY <2>1, <3>1 DEF OrderInv, CutInv
  <2>4. client = "go" => full' = {} /\ \A e \in cut' : owner[e] \in crashed'
    BY <2>1, <2>2 DEF OrderInv, GoInv
  <2>5. \A e \in cut, a \in arrived : owner[a] = owner[e] => a < e
    BY <1>1 DEF OrderInv, CutInv
  <2>6. \A e \in arrived' \ arrived, a \in arrived : a < e
    BY <2>1 DEF StepOrder
  <2> QED
    BY <2>3, <2>4, <2>5, <2>6 DEF InOrder
<1>2. OrderInv /\ [Next]_vars => OrderInv'
  BY OrderStep
<1> QED
  BY <1>1, <1>2, OrderInit, PTL DEF Spec, ArrivesInOrder

=============================================================================
