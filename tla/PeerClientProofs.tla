-------------------------- MODULE PeerClientProofs --------------------------
(***************************************************************************)
(* Proofs about PeerClient, for any peers, clients, channel capacities and *)
(* bounds.                                                                 *)
(***************************************************************************)
EXTENDS PeerClient, ListLemmas

-----------------------------------------------------------------------------
(* Types.                                                                  *)

(* The types hold at first.                                                *)
LEMMA TypeInit == ASSUME Init PROVE TypeOK
BY DEF Init, NoContainers, TypeOK

(* The death of a process keeps the types.                                 *)
LEMMA PerishTypes ==
  ASSUME TypeOK, NEW p \in Peer, Perish(p)
  PROVE  /\ dropped' \in [Peer -> SUBSET Nat] /\ chan' \in [Peer -> Seq(Nat)]
         /\ held' \in [Peer -> Nat] /\ deaths' \in [Peer -> Nat]
         /\ poller' \in [Peer -> {"off", "idle", "waiting", "holding",
                                  "broken"}]
         /\ ghosts' \in [Peer -> Nat]
<1>1. {chan[p][k] : k \in 1 .. Len(chan[p])} \subseteq Nat
  BY DEF TypeOK
<1>2. (IF poller[p] = "holding" THEN {held[p]} ELSE {}) \subseteq Nat
  BY DEF TypeOK
<1>3. ghosts' \in [Peer -> Nat]
  <2>1. (IF poller[p] = "waiting" THEN ghosts[p] + 1 ELSE ghosts[p]) \in Nat
    BY DEF TypeOK
  <2> QED
    BY <2>1 DEF TypeOK, Perish
<1>4. dropped' \in [Peer -> SUBSET Nat]
  <2>1. dropped[p] \cup {chan[p][k] : k \in 1 .. Len(chan[p])}
          \cup (IF poller[p] = "holding" THEN {held[p]} ELSE {}) \subseteq Nat
    BY <1>1, <1>2 DEF TypeOK
  <2> QED
    BY <2>1 DEF TypeOK, Perish
<1> QED
  BY <1>3, <1>4 DEF TypeOK, Perish

(* So does the execution of a command, ...                                 *)
LEMMA ExecuteTypes ==
  ASSUME TypeOK, NEW p \in Peer, NEW id \in Nat, Execute(p, id)
  PROVE  /\ executed' \in [Peer -> Seq(Nat)]
         /\ proc' \in [Peer -> {"absent", "boot", "ready", "running",
                                "halting", "rebooting", "dying", "dying42",
                                "asleep", "exited"}]
<1>1. After(sent[p][id]) \in {"halting", "rebooting", "running"}
  BY DEF After
<1>2. Append(executed[p], id) \in Seq(Nat)
  BY DEF TypeOK
<1> QED
  BY <1>1, <1>2 DEF TypeOK, Execute, GoTo

(* ... an LPUSH of the orchestrator ...                                    *)
LEMMA PushTypes ==
  ASSUME TypeOK, NEW p \in Peer, NEW c \in Command, Push(p, c)
  PROVE  TypeOK'
<1> DEFINE id == Len(sent[p]) + 1
<1>1. id \in Nat /\ Append(sent[p], c) \in Seq(Command)
  BY DEF TypeOK
<1>2. sent' \in [Peer -> Seq(Command)]
  BY <1>1 DEF TypeOK, Push
<1>3. <<id>> \o cmdQ[p] \in Seq(Nat)
  BY <1>1 DEF TypeOK
<1> DEFINE Polls == {"off", "idle", "waiting", "holding", "broken"}
<1>4. /\ poller' \in [Peer -> Polls] /\ held' \in [Peer -> Nat]
      /\ dropped' \in [Peer -> SUBSET Nat] /\ cmdQ' \in [Peer -> Seq(Nat)]
      /\ ghosts' \in [Peer -> Nat]
  <2>1. /\ poller \in [Peer -> Polls] /\ held \in [Peer -> Nat]
        /\ dropped \in [Peer -> SUBSET Nat] /\ cmdQ \in [Peer -> Seq(Nat)]
        /\ ghosts \in [Peer -> Nat]
    BY DEF TypeOK
  <2>2. CASE /\ poller' = [poller EXCEPT ![p] = "holding"]
             /\ held' = [held EXCEPT ![p] = id]
             /\ UNCHANGED <<cmdQ, ghosts, dropped>>
    BY <2>1, <2>2, <1>1
  <2>3. CASE /\ ghosts[p] > 0
             /\ ghosts' = [ghosts EXCEPT ![p] = @ - 1]
             /\ dropped' = [dropped EXCEPT ![p] = @ \cup {id}]
             /\ UNCHANGED <<cmdQ, poller, held>>
    <3>1. dropped[p] \cup {id} \in SUBSET Nat
      BY <2>1, <1>1
    <3>2. ghosts[p] - 1 \in Nat
      BY <2>1, <2>3
    <3> HIDE DEF id
    <3> QED
      BY <2>1, <2>3, <3>1, <3>2
  <2>4. CASE /\ cmdQ' = [cmdQ EXCEPT ![p] = <<id>> \o @]
             /\ UNCHANGED <<poller, ghosts, held, dropped>>
    BY <2>1, <2>4, <1>3
  <2> QED
    BY <2>2, <2>3, <2>4 DEF Push
<1> QED
  BY <1>2, <1>4 DEF TypeOK, Push

(* ... and the SET of a status.                                            *)
LEMMA SetTypes ==
  ASSUME TypeOK, NEW p \in Peer, NEW raw \in Status, Set(p, raw)
  PROVE  writes' \in [Peer -> Seq(Status)]
<1>1. Append(writes[p], raw) \in Seq(Status)
  BY DEF TypeOK
<1> QED
  BY <1>1 DEF TypeOK, Set

(* Every step keeps the types.                                             *)
LEMMA TypeStep == ASSUME TypeOK, [Next]_clientVars PROVE TypeOK'
<1>1. ASSUME NEW p \in Peer, Launch(p) PROVE TypeOK'
  BY <1>1 DEF TypeOK, Launch, GoTo, queueVars
<1>2. ASSUME NEW p \in Peer, Send(p) PROVE TypeOK'
  BY <1>2, PushTypes DEF Send
<1>3. ASSUME NEW p \in Peer, Build(p) PROVE TypeOK'
  BY <1>3 DEF TypeOK, Build, GoTo, queueVars
<1>4. ASSUME NEW p \in Peer, ReportStarted(p) PROVE TypeOK'
  <2>1. Started(p) \in Status /\ Bare \in Status
    BY DEF Status
  <2>2. writes' \in [Peer -> Seq(Status)]
    BY <1>4, <2>1, SetTypes DEF ReportStarted
  <2> QED
    BY <1>4, <2>2 DEF TypeOK, ReportStarted, GoTo, queueVars
<1>5. ASSUME NEW p \in Peer, AskNext(p) PROVE TypeOK'
  <2>1. CASE cmdQ[p] = <<>>
    BY <1>5, <2>1 DEF TypeOK, AskNext
  <2>2. CASE cmdQ[p] # <<>>
    <3>1. Head(cmdQ[p]) \in Nat /\ Tail(cmdQ[p]) \in Seq(Nat)
      BY <2>2, PoppedHead DEF TypeOK
    <3> QED
      BY <1>5, <2>2, <3>1 DEF TypeOK, AskNext
  <2> QED
    BY <2>1, <2>2
<1>6. ASSUME NEW p \in Peer, Forward(p) PROVE TypeOK'
  <2>1. Append(chan[p], held[p]) \in Seq(Nat)
    BY DEF TypeOK
  <2> QED
    BY <1>6, <2>1 DEF TypeOK, Forward, queueVars
<1>7. ASSUME NEW p \in Peer, TakeFromChan(p) PROVE TypeOK'
  <2>1. Head(chan[p]) \in Nat /\ Tail(chan[p]) \in Seq(Nat)
    BY <1>7, PoppedHead DEF TypeOK, TakeFromChan
  <2>2. Execute(p, Head(chan[p]))
    BY <1>7 DEF TakeFromChan
  <2> QED
    BY <1>7, <2>1, <2>2, ExecuteTypes DEF TypeOK, TakeFromChan, queueVars
<1>8. ASSUME NEW p \in Peer, TakeFromRedis(p) PROVE TypeOK'
  <2>1. held[p] \in Nat /\ Execute(p, held[p])
    BY <1>8 DEF TypeOK, TakeFromRedis
  <2> QED
    BY <1>8, <2>1, ExecuteTypes DEF TypeOK, TakeFromRedis, queueVars
<1>9. ASSUME NEW p \in Peer, ReportStopped(p) PROVE TypeOK'
  <2>1. writes' \in [Peer -> Seq(Status)]
    BY <1>9, SetTypes DEF ReportStopped, Status
  <2> QED
    BY <1>9, <2>1 DEF TypeOK, ReportStopped, GoTo, queueVars
<1>10. ASSUME NEW p \in Peer, ReportRestarting(p) PROVE TypeOK'
  <2>1. writes' \in [Peer -> Seq(Status)]
    BY <1>10, SetTypes DEF ReportRestarting, Status
  <2> QED
    BY <1>10, <2>1 DEF TypeOK, ReportRestarting, GoTo, queueVars
<1>11. ASSUME NEW p \in Peer, Exit(p) PROVE TypeOK'
  <2>1. proc' \in [Peer -> {"absent", "boot", "ready", "running", "halting",
                            "rebooting", "dying", "dying42", "asleep",
                            "exited"}]
    BY <1>11 DEF TypeOK, Exit, GoTo
  <2>2. /\ Perish(p)
        /\ UNCHANGED <<writes, executed, faults, sent, cmdQ, breaks>>
    BY <1>11 DEF Exit
  <2> QED
    BY <2>1, <2>2, PerishTypes DEF TypeOK
<1>12. ASSUME NEW p \in Peer, Wake(p) PROVE TypeOK'
  BY <1>12 DEF TypeOK, Wake, GoTo, queueVars
<1>13. ASSUME NEW p \in Peer, Forget(p) PROVE TypeOK'
  <2>1. ghosts[p] - 1 \in Nat
    BY <1>13 DEF TypeOK, Forget
  <2> QED
    BY <1>13, <2>1 DEF TypeOK, Forget
<1>14. ASSUME NEW p \in Peer, Crash(p) PROVE TypeOK'
  <2>1. faults' \in Nat /\ proc' = [proc EXCEPT ![p] = "exited"]
    BY <1>14 DEF TypeOK, Crash, GoTo
  <2> QED
    BY <1>14, <2>1, PerishTypes DEF TypeOK, Crash, queueVars
<1>15. ASSUME NEW p \in Peer, SetFails(p) PROVE TypeOK'
  <2>1. /\ faults' \in Nat
        /\ \/ proc' = [proc EXCEPT ![p] = "dying"]
           \/ proc' = [proc EXCEPT ![p] = "dying42"]
    BY <1>15 DEF TypeOK, SetFails, GoTo
  <2> QED
    BY <1>15, <2>1 DEF TypeOK, SetFails, queueVars
<1>16. ASSUME NEW p \in Peer, ReportAddr(p) PROVE TypeOK'
  <2>1. Started(p) \in Status
    BY DEF Status
  <2>2. writes' \in [Peer -> Seq(Status)]
    BY <1>16, <2>1, SetTypes DEF ReportAddr
  <2> QED
    BY <1>16, <2>2 DEF TypeOK, ReportAddr, queueVars
<1>17. ASSUME NEW p \in Peer, Reconnect(p) PROVE TypeOK'
  BY <1>17 DEF TypeOK, Reconnect, queueVars
<1>18. ASSUME NEW p \in Peer, BlpopFails(p) PROVE TypeOK'
  <2>1. cmdQ' \in [Peer -> Seq(Nat)] /\ dropped' \in [Peer -> SUBSET Nat]
    <3>1. CASE UNCHANGED <<cmdQ, dropped>>
      BY <3>1 DEF TypeOK
    <3>2. CASE /\ cmdQ[p] # <<>>
               /\ cmdQ' = [cmdQ EXCEPT ![p] = Tail(@)]
               /\ dropped' = [dropped EXCEPT ![p] = @ \cup {Head(cmdQ[p])}]
      <4>1. Head(cmdQ[p]) \in Nat /\ Tail(cmdQ[p]) \in Seq(Nat)
        BY <3>2, PoppedHead DEF TypeOK
      <4>2. dropped[p] \cup {Head(cmdQ[p])} \in SUBSET Nat
        BY <4>1 DEF TypeOK
      <4> QED
        BY <3>2, <4>1, <4>2 DEF TypeOK
    <3> QED
      BY <1>18, <3>1, <3>2 DEF BlpopFails
  <2>2. ghosts' \in [Peer -> Nat]
    <3>1. ghosts[p] + 1 \in Nat
      BY DEF TypeOK
    <3> QED
      BY <1>18, <3>1 DEF TypeOK, BlpopFails
  <2>3. /\ poller' \in [Peer -> {"off", "idle", "waiting", "holding", "broken"}]
        /\ breaks' \in [Peer -> Nat] /\ faults' \in Nat
        /\ UNCHANGED <<sent, writes, proc, held, chan, executed, deaths>>
    BY <1>18 DEF TypeOK, BlpopFails
  <2> QED
    BY <2>1, <2>2, <2>3 DEF TypeOK
<1>19. CASE UNCHANGED clientVars
  BY <1>19 DEF TypeOK, clientVars
<1> QED
  BY <1>1, <1>2, <1>3, <1>4, <1>5, <1>6, <1>7, <1>8, <1>9, <1>10, <1>11,
     <1>12, <1>13, <1>14, <1>15, <1>16, <1>17, <1>18, <1>19
     DEF Next, Step, Fault

(* Every variable of a peer keeps its type, in particular the lists and    *)
(* the channel hold commands that were sent.                               *)
THEOREM TypeCorrect == Spec => []TypeOK
<1>1. Init => TypeOK
  BY TypeInit
<1>2. TypeOK /\ [Next]_clientVars => TypeOK'
  BY TypeStep
<1> QED
  BY <1>1, <1>2, PTL DEF Spec

-----------------------------------------------------------------------------
(* What a peer reports.                                                    *)

(* The newest status alone does not say where the process is going: that   *)
(* a container that was never launched has reported nothing completes it.  *)
Reports(p) ==
  /\ Newest(p) = Stopped => proc[p] \in {"dying", "exited"}
  /\ proc[p] \in {"running", "halting", "rebooting"} =>
       Newest(p).base = "started"
  /\ proc[p] = "running" =>
       Newest(p) = Started(p) \/ (p \in Plain /\ Newest(p) = Bare)
  /\ Newest(p).base = "started" =>
       \/ proc[p] \in {"running", "halting", "rebooting", "exited"}
       \/ faults > 0

(* A SET changes the newest status of one peer.                            *)
LEMMA SetNewest ==
  ASSUME TypeOK, NEW p \in Peer, NEW raw \in Status, Set(p, raw)
  PROVE  Newest(p)' = raw /\ \A q \in Peer \ {p} : Newest(q)' = Newest(q)
<1>1. writes'[p] = Append(writes[p], raw)
      /\ \A q \in Peer \ {p} : writes'[q] = writes[q]
  BY DEF TypeOK, Set
<1>2. /\ Append(writes[p], raw) # <<>>
      /\ Append(writes[p], raw)[Len(Append(writes[p], raw))] = raw
  <2>1. writes[p] \in Seq(Status)
    BY DEF TypeOK
  <2>2. /\ Append(writes[p], raw) # <<>>
        /\ Len(Append(writes[p], raw)) = Len(writes[p]) + 1
        /\ Append(writes[p], raw)[Len(writes[p]) + 1] = raw
    BY <2>1, AppendProperties
  <2> QED
    BY <2>2
<1> QED
  BY <1>1, <1>2 DEF Newest

(* A step of p leaves the reports of every other peer as true as they were.*)
LEMMA Others ==
  ASSUME \A q \in Peer : Reports(q), NEW p \in Peer, Reports(p)',
         faults' = faults \/ faults' > 0,
         \A q \in Peer \ {p} : proc'[q] = proc[q] /\ Newest(q)' = Newest(q)
  PROVE  \A q \in Peer : Reports(q)'
<1> SUFFICES ASSUME NEW q \in Peer, q # p PROVE Reports(q)'
  OBVIOUS
<1>1. Reports(q) /\ proc'[q] = proc[q] /\ Newest(q)' = Newest(q)
  OBVIOUS
<1> QED
  BY <1>1 DEF Reports, Started

(* A peer that was not launched reports nothing.                           *)
LEMMA ReportsInit == ASSUME Init PROVE \A p \in Peer : Reports(p)
BY DEF Init, NoContainers, Reports, Newest, Restarting, Started, Stopped

(* No step makes a report untrue.                                          *)
LEMMA ReportsStep ==
  ASSUME TypeOK, \A p \in Peer : Reports(p), [Next]_clientVars
  PROVE  \A p \in Peer : Reports(p)'
<1> USE DEF Started, Bare, Stopped, Restarting
<1>1. ASSUME UNCHANGED writes, \A p \in Peer : proc'[p] = proc[p],
             UNCHANGED faults
      PROVE  \A p \in Peer : Reports(p)'
  BY <1>1 DEF Reports, Newest
<1>2. ASSUME NEW p \in Peer, UNCHANGED <<writes, faults>>,
             \E s \in {"boot", "ready", "running", "halting", "rebooting",
                       "asleep", "exited"} :
               /\ proc' = [proc EXCEPT ![p] = s]
               /\ s \in {"boot", "ready"} => proc[p] \in {"absent", "asleep", "boot"}
               /\ s = "asleep" => proc[p] = "dying42"
               /\ s \in {"running", "halting", "rebooting"} => proc[p] = "running"
      PROVE  \A q \in Peer : Reports(q)'
  <2>1. \A q \in Peer : Newest(q)' = Newest(q)
    BY <1>2 DEF Newest
  <2>2. \A q \in Peer \ {p} : proc'[q] = proc[q]
    BY <1>2 DEF TypeOK
  <2>3. Reports(p)'
    BY <1>2, <2>1 DEF TypeOK, Reports
  <2> QED
    BY <1>2, <2>1, <2>2, <2>3, Others
<1>3. ASSUME NEW p \in Peer, Launch(p) PROVE \A q \in Peer : Reports(q)'
  BY <1>2, <1>3 DEF Launch, GoTo
<1>4. ASSUME NEW p \in Peer, Send(p) PROVE \A q \in Peer : Reports(q)'
  BY <1>1, <1>4 DEF Send, Push
<1>5. ASSUME NEW p \in Peer, Build(p) PROVE \A q \in Peer : Reports(q)'
  BY <1>2, <1>5 DEF Build, GoTo
<1>6. ASSUME NEW p \in Peer, ReportStarted(p) PROVE \A q \in Peer : Reports(q)'
  <2>1. PICK raw \in {Started(p), Bare} :
          Set(p, raw) /\ (raw = Started(p) \/ (p \in Plain /\ raw = Bare))
    <3>1. CASE p \in Plain
      BY <1>6, <3>1 DEF ReportStarted, Set
    <3>2. CASE p \notin Plain
      BY <1>6, <3>2 DEF ReportStarted, Set
    <3> QED
      BY <3>1, <3>2
  <2>2. raw \in Status
    BY <2>1 DEF Status
  <2>3. Newest(p)' = raw /\ \A q \in Peer \ {p} : Newest(q)' = Newest(q)
    BY <2>1, <2>2, SetNewest
  <2>4. proc'[p] = "running" /\ \A q \in Peer \ {p} : proc'[q] = proc[q]
    BY <1>6 DEF ReportStarted, GoTo, TypeOK
  <2>5. Reports(p)'
    BY <2>1, <2>3, <2>4 DEF Reports
  <2>6. faults' = faults
    BY <1>6 DEF ReportStarted
  <2> QED
    BY <2>3, <2>4, <2>5, <2>6, Others
<1>7. ASSUME NEW p \in Peer,
             AskNext(p) \/ Forward(p) \/ Forget(p) \/ Reconnect(p)
      PROVE  \A q \in Peer : Reports(q)'
  BY <1>1, <1>7 DEF AskNext, Forward, Forget, Reconnect
<1>8. ASSUME NEW p \in Peer, TakeFromChan(p) \/ TakeFromRedis(p)
      PROVE  \A q \in Peer : Reports(q)'
  <2>1. PICK id : Execute(p, id) /\ UNCHANGED <<writes, faults>>
    BY <1>8 DEF TakeFromChan, TakeFromRedis
  <2>2. After(sent[p][id]) \in {"running", "halting", "rebooting"}
    BY DEF After
  <2> QED
    BY <1>2, <2>1, <2>2 DEF Execute, GoTo
<1>9. ASSUME NEW p \in Peer, ReportStopped(p) PROVE \A q \in Peer : Reports(q)'
  <2>1. Newest(p)' = Stopped /\ \A q \in Peer \ {p} : Newest(q)' = Newest(q)
    BY <1>9, SetNewest DEF ReportStopped, Status
  <2>2. /\ proc'[p] = "dying" /\ \A q \in Peer \ {p} : proc'[q] = proc[q]
        /\ faults' = faults
    BY <1>9 DEF ReportStopped, GoTo, TypeOK
  <2>3. Reports(p)'
    BY <2>1, <2>2 DEF Reports
  <2> QED
    BY <2>1, <2>2, <2>3, Others
<1>10. ASSUME NEW p \in Peer, ReportRestarting(p)
       PROVE  \A q \in Peer : Reports(q)'
  <2>1. Newest(p)' = Restarting /\ \A q \in Peer \ {p} : Newest(q)' = Newest(q)
    BY <1>10, SetNewest DEF ReportRestarting, Status
  <2>2. /\ proc'[p] = "dying42" /\ \A q \in Peer \ {p} : proc'[q] = proc[q]
        /\ faults' = faults
    BY <1>10 DEF ReportRestarting, GoTo, TypeOK
  <2>3. Reports(p)'
    BY <2>1, <2>2 DEF Reports
  <2> QED
    BY <2>1, <2>2, <2>3, Others
<1>11. ASSUME NEW p \in Peer, Exit(p) PROVE \A q \in Peer : Reports(q)'
  BY <1>2, <1>11 DEF Exit, GoTo
<1>12. ASSUME NEW p \in Peer, Wake(p) PROVE \A q \in Peer : Reports(q)'
  BY <1>2, <1>12 DEF Wake, GoTo
<1>13. ASSUME NEW p \in Peer, Crash(p) PROVE \A q \in Peer : Reports(q)'
  <2>1. proc' = [proc EXCEPT ![p] = "exited"] /\ faults' > 0
        /\ UNCHANGED writes
    BY <1>13 DEF Crash, GoTo, TypeOK
  <2>2. \A q \in Peer : Newest(q)' = Newest(q)
    BY <2>1 DEF Newest
  <2>3. proc'[p] = "exited" /\ \A q \in Peer \ {p} : proc'[q] = proc[q]
    BY <2>1 DEF TypeOK
  <2>4. Reports(p)'
    BY <2>1, <2>2, <2>3 DEF Reports
  <2> QED
    BY <2>1, <2>2, <2>3, <2>4, Others
<1>14. ASSUME NEW p \in Peer, SetFails(p) PROVE \A q \in Peer : Reports(q)'
  <2>1. /\ proc[p] \in {"halting", "rebooting"} /\ UNCHANGED writes
        /\ \E s \in {"dying", "dying42"} : proc' = [proc EXCEPT ![p] = s]
        /\ faults' > 0
    BY <1>14 DEF SetFails, GoTo, TypeOK
  <2>2. \A q \in Peer : Newest(q)' = Newest(q)
    BY <2>1 DEF Newest
  <2>3. /\ proc'[p] \in {"dying", "dying42"}
        /\ \A q \in Peer \ {p} : proc'[q] = proc[q]
    BY <2>1 DEF TypeOK
  <2>4. Reports(p)'
    BY <2>1, <2>2, <2>3 DEF Reports
  <2> QED
    BY <2>1, <2>2, <2>3, <2>4, Others
<1>15. ASSUME NEW p \in Peer, ReportAddr(p) PROVE \A q \in Peer : Reports(q)'
  <2>1. Newest(p)' = Started(p) /\ \A q \in Peer \ {p} : Newest(q)' = Newest(q)
    BY <1>15, SetNewest DEF ReportAddr, Status
  <2>2. proc' = proc /\ proc[p] = "running" /\ faults' = faults
    BY <1>15 DEF ReportAddr
  <2>3. Reports(p)'
    BY <2>1, <2>2 DEF Reports
  <2> QED
    BY <2>1, <2>2, <2>3, Others
<1>16. ASSUME NEW p \in Peer, BlpopFails(p) PROVE \A q \in Peer : Reports(q)'
  <2>1. UNCHANGED <<writes, proc>> /\ faults' > 0
    BY <1>16 DEF BlpopFails, TypeOK
  <2>2. \A q \in Peer : Newest(q)' = Newest(q)
    BY <2>1 DEF Newest
  <2>3. Reports(p)'
    BY <2>1, <2>2 DEF Reports
  <2> QED
    BY <2>1, <2>2, <2>3, Others
<1>17. CASE UNCHANGED clientVars
  BY <1>1, <1>17 DEF clientVars
<1> QED
  BY <1>3, <1>4, <1>5, <1>6, <1>7, <1>8, <1>9, <1>10, <1>11, <1>12, <1>13,
     <1>14, <1>15, <1>16, <1>17 DEF Next, Step, Fault

(* The status a peer shows is true of its process, however it crashes,     *)
(* restarts or fails to report.                                            *)
THEOREM StatusTrue == Spec => []StatusIsTrue
<1> DEFINE Inv == TypeOK /\ \A p \in Peer : Reports(p)
<1>1. Init => Inv
  BY TypeInit, ReportsInit
<1>2. Inv /\ [Next]_clientVars => Inv'
  BY TypeStep, ReportsStep
<1>3. Inv => StatusIsTrue
  BY DEF StatusIsTrue, Reports, Newest
<1> QED
  BY <1>1, <1>2, <1>3, PTL DEF Spec

-----------------------------------------------------------------------------
(* Where every command is.                                                 *)

Disjoint(Q, H, C, E, D) ==
  /\ Q \cap H = {} /\ Q \cap C = {} /\ Q \cap E = {} /\ Q \cap D = {}
  /\ H \cap C = {} /\ H \cap E = {} /\ H \cap D = {}
  /\ C \cap E = {} /\ C \cap D = {}
  /\ E \cap D = {}

(* The places of the commands of p, as sets and as lists.                  *)
Accounted(p) ==
  /\ Entries(cmdQ[p]) \cup InHand(p) \cup Entries(chan[p])
       \cup Entries(executed[p]) \cup dropped[p] = 1 .. Len(sent[p])
  /\ Disjoint(Entries(cmdQ[p]), InHand(p), Entries(chan[p]),
              Entries(executed[p]), dropped[p])
  /\ Distinct(cmdQ[p]) /\ Distinct(chan[p]) /\ Distinct(executed[p])

(* Without a process there is no poller, so Build abandons nothing.        *)
Offline(p) ==
  proc[p] \in {"absent", "boot", "asleep", "exited"} => poller[p] = "off"

(* Pollers come with processes.                                            *)
LEMMA OfflineStep ==
  ASSUME TypeOK, \A p \in Peer : Offline(p), [Next]_clientVars
  PROVE  \A p \in Peer : Offline(p)'
<1>1. ASSUME NEW p \in Peer,
             \A q \in Peer \ {p} : proc'[q] = proc[q] /\ poller'[q] = poller[q],
             Offline(p)'
      PROVE  \A q \in Peer : Offline(q)'
  BY <1>1 DEF Offline
<1>2. ASSUME NEW p \in Peer, NEW c \in Command, Push(p, c)
      PROVE  \A q \in Peer : Offline(q)'
  BY <1>1, <1>2 DEF Push, Offline, TypeOK
<1>3. ASSUME NEW p \in Peer,
             Launch(p) \/ Build(p) \/ Wake(p) \/ ReportStarted(p)
             \/ ReportStopped(p) \/ ReportRestarting(p) \/ SetFails(p)
      PROVE  \A q \in Peer : Offline(q)'
  BY <1>1, <1>3 DEF Launch, Build, Wake, ReportStarted, ReportStopped,
                    ReportRestarting, SetFails, GoTo, Offline, TypeOK
<1>4. ASSUME NEW p \in Peer, AskNext(p) \/ BlpopFails(p)
      PROVE  \A q \in Peer : Offline(q)'
  BY <1>1, <1>4 DEF AskNext, BlpopFails, Offline, TypeOK
<1>5. ASSUME NEW p \in Peer, Forward(p) \/ Reconnect(p)
      PROVE  \A q \in Peer : Offline(q)'
  BY <1>1, <1>5 DEF Forward, Reconnect, Offline, TypeOK
<1>6. ASSUME NEW p \in Peer, TakeFromChan(p) \/ TakeFromRedis(p)
      PROVE  \A q \in Peer : Offline(q)'
  <2>1. /\ proc'[p] \in {"running", "halting", "rebooting"}
        /\ \A q \in Peer \ {p} : proc'[q] = proc[q] /\ poller'[q] = poller[q]
    BY <1>6 DEF TakeFromChan, TakeFromRedis, Execute, After, GoTo, TypeOK
  <2> QED
    BY <1>1, <2>1 DEF Offline
<1>7. ASSUME NEW p \in Peer, Exit(p) \/ Crash(p)
      PROVE  \A q \in Peer : Offline(q)'
  BY <1>1, <1>7 DEF Exit, Crash, Perish, GoTo, Offline, TypeOK
<1>8. ASSUME UNCHANGED <<proc, poller>> PROVE \A p \in Peer : Offline(p)'
  BY <1>8 DEF Offline
<1> QED
  BY <1>2, <1>3, <1>4, <1>5, <1>6, <1>7, <1>8
     DEF Next, Step, Fault, Send, ReportAddr, Forget, clientVars

Same(p) ==
  /\ sent'[p] = sent[p] /\ cmdQ'[p] = cmdQ[p] /\ InHand(p)' = InHand(p)
  /\ chan'[p] = chan[p] /\ executed'[p] = executed[p]
  /\ dropped'[p] = dropped[p]

(* A step that leaves the places of p alone keeps them accounted for.      *)
LEMMA AccountedSame ==
  ASSUME NEW p \in Peer, Accounted(p), Same(p)
  PROVE  Accounted(p)'
BY DEF Accounted, Same

(* At first no command was sent.                                           *)
LEMMA AccountedInit == ASSUME Init PROVE \A p \in Peer : Accounted(p)
<1>1. Entries(<<>>) = {} /\ Distinct(<<>>)
  BY DEF Entries, Distinct
<1> QED
  BY <1>1 DEF Init, NoContainers, Accounted, InHand, Disjoint

(* A new command is handed to the poller that waits, is lost to a ghost,   *)
(* or joins the list.                                                      *)
LEMMA PushAccounted ==
  ASSUME TypeOK, NEW p \in Peer, Accounted(p), NEW c \in Command, Push(p, c)
  PROVE  Accounted(p)'
<1> DEFINE id == Len(sent[p]) + 1
<1>1. /\ sent[p] \in Seq(Command) /\ cmdQ[p] \in Seq(Nat)
      /\ Len(sent[p]) \in Nat /\ id \in Nat
  BY DEF TypeOK
<1>2. Len(sent'[p]) = id
  BY <1>1 DEF Push, TypeOK
<1>3. 1 .. id = (1 .. Len(sent[p])) \cup {id} /\ id \notin 1 .. Len(sent[p])
  BY <1>1
<1>4. /\ id \notin Entries(cmdQ[p]) /\ id \notin InHand(p)
      /\ id \notin Entries(chan[p]) /\ id \notin Entries(executed[p])
      /\ id \notin dropped[p]
  BY <1>3 DEF Accounted
<1>5. chan'[p] = chan[p] /\ executed'[p] = executed[p]
  BY DEF Push
<1>6. CASE ghosts[p] = 0 /\ poller[p] = "waiting"
  <2>1. InHand(p) = {} /\ InHand(p)' = {id} /\ UNCHANGED <<cmdQ, dropped>>
    BY <1>6 DEF Push, InHand, TypeOK
  <2> QED
    BY <1>2, <1>3, <1>4, <1>5, <2>1 DEF Accounted, Disjoint
<1>7. CASE ghosts[p] > 0
  <2>1. /\ dropped' = [dropped EXCEPT ![p] = @ \cup {id}]
        /\ UNCHANGED <<cmdQ, poller, held>>
    BY <1>7 DEF Push
  <2>2. /\ InHand(p)' = InHand(p) /\ dropped'[p] = dropped[p] \cup {id}
        /\ UNCHANGED cmdQ
    BY <2>1 DEF InHand, TypeOK
  <2> QED
    BY <1>2, <1>3, <1>4, <1>5, <2>2 DEF Accounted, Disjoint
<1>8. CASE ghosts[p] = 0 /\ poller[p] # "waiting"
  <2>1. /\ InHand(p)' = InHand(p) /\ dropped'[p] = dropped[p]
        /\ cmdQ'[p] = <<id>> \o cmdQ[p]
    <3>1. /\ cmdQ' = [cmdQ EXCEPT ![p] = <<id>> \o @]
          /\ UNCHANGED <<poller, held, dropped>>
      BY <1>8 DEF Push
    <3> QED
      BY <3>1 DEF InHand, TypeOK
  <2>2. /\ Entries(cmdQ'[p]) = Entries(cmdQ[p]) \cup {id}
        /\ Distinct(cmdQ'[p])
    BY <1>1, <1>4, <2>1, HeadJoins DEF Accounted
  <2> QED
    BY <1>2, <1>3, <1>4, <1>5, <2>1, <2>2 DEF Accounted, Disjoint
<1>9. ghosts[p] \in Nat
  BY DEF TypeOK
<1> QED
  BY <1>6, <1>7, <1>8, <1>9

(* A BLPOP takes the head of the list, or waits.                           *)
LEMMA AskAccounted ==
  ASSUME TypeOK, NEW p \in Peer, Accounted(p), AskNext(p)
  PROVE  Accounted(p)'
<1>1. /\ chan'[p] = chan[p] /\ executed'[p] = executed[p]
      /\ sent'[p] = sent[p] /\ dropped'[p] = dropped[p] /\ InHand(p) = {}
  BY DEF AskNext, InHand
<1>2. CASE cmdQ[p] = <<>>
  <2>1. InHand(p)' = {} /\ cmdQ'[p] = cmdQ[p]
    BY <1>2 DEF AskNext, InHand, TypeOK
  <2> QED
    BY <1>1, <2>1 DEF Accounted
<1>3. CASE cmdQ[p] # <<>>
  <2>1. InHand(p)' = {Head(cmdQ[p])} /\ cmdQ'[p] = Tail(cmdQ[p])
    BY <1>3 DEF AskNext, InHand, TypeOK
  <2>2. /\ Entries(Tail(cmdQ[p])) = Entries(cmdQ[p]) \ {Head(cmdQ[p])}
        /\ Distinct(Tail(cmdQ[p])) /\ Head(cmdQ[p]) \in Entries(cmdQ[p])
    BY <1>3, HeadLeaves DEF TypeOK, Accounted
  <2> QED
    BY <1>1, <2>1, <2>2 DEF Accounted, Disjoint
<1> QED
  BY <1>2, <1>3

(* One that fails loses nothing, or the head of the list with the reply.   *)
LEMMA BlpopAccounted ==
  ASSUME TypeOK, NEW p \in Peer, Accounted(p), BlpopFails(p)
  PROVE  Accounted(p)'
<1>1. /\ chan'[p] = chan[p] /\ executed'[p] = executed[p]
      /\ sent'[p] = sent[p] /\ InHand(p) = {} /\ InHand(p)' = {}
  BY DEF BlpopFails, InHand, TypeOK
<1>2. CASE UNCHANGED <<cmdQ, dropped>>
  BY <1>1, <1>2 DEF Accounted
<1>3. CASE /\ cmdQ[p] # <<>>
           /\ cmdQ' = [cmdQ EXCEPT ![p] = Tail(@)]
           /\ dropped' = [dropped EXCEPT ![p] = @ \cup {Head(cmdQ[p])}]
  <2>1. /\ cmdQ'[p] = Tail(cmdQ[p])
        /\ dropped'[p] = dropped[p] \cup {Head(cmdQ[p])}
    BY <1>3 DEF TypeOK
  <2>2. /\ Entries(Tail(cmdQ[p])) = Entries(cmdQ[p]) \ {Head(cmdQ[p])}
        /\ Distinct(Tail(cmdQ[p])) /\ Head(cmdQ[p]) \in Entries(cmdQ[p])
    BY <1>3, HeadLeaves DEF TypeOK, Accounted
  <2> QED
    BY <1>1, <2>1, <2>2 DEF Accounted, Disjoint
<1> QED
  BY <1>2, <1>3 DEF BlpopFails

(* The poller moves the command it holds to the channel.                   *)
LEMMA ForwardAccounted ==
  ASSUME TypeOK, NEW p \in Peer, Accounted(p), Forward(p)
  PROVE  Accounted(p)'
<1>1. /\ cmdQ'[p] = cmdQ[p] /\ executed'[p] = executed[p]
      /\ sent'[p] = sent[p] /\ dropped'[p] = dropped[p]
  BY DEF Forward, queueVars
<1>2. InHand(p) = {held[p]} /\ InHand(p)' = {}
  BY DEF Forward, InHand, TypeOK
<1>3. chan'[p] = Append(chan[p], held[p])
  BY DEF Forward, TypeOK
<1>4. held[p] \notin Entries(chan[p])
  BY <1>2 DEF Accounted, Disjoint
<1>5. /\ Entries(chan'[p]) = Entries(chan[p]) \cup {held[p]}
      /\ Distinct(chan'[p])
  BY <1>3, <1>4, EndJoins DEF Accounted, TypeOK
<1> QED
  BY <1>1, <1>2, <1>5 DEF Accounted, Disjoint

(* What the program takes, from the channel or from its own BLPOP.         *)
LEMMA ExecuteAccounted ==
  ASSUME TypeOK, NEW p \in Peer, Accounted(p), NEW id \in Nat, Execute(p, id),
         id \in 1 .. Len(sent[p]), id \notin Entries(executed[p])
  PROVE  /\ Entries(executed'[p]) = Entries(executed[p]) \cup {id}
         /\ Distinct(executed'[p])
<1>1. executed'[p] = Append(executed[p], id)
  BY DEF Execute, TypeOK
<1> QED
  BY <1>1, EndJoins DEF Accounted, TypeOK

(* A program executes what its client gives it.                            *)
LEMMA TakeAccounted ==
  ASSUME TypeOK, NEW p \in Peer, Accounted(p),
         TakeFromChan(p) \/ TakeFromRedis(p)
  PROVE  Accounted(p)'
<1>1. /\ cmdQ'[p] = cmdQ[p] /\ sent'[p] = sent[p]
      /\ dropped'[p] = dropped[p]
  BY DEF TakeFromChan, TakeFromRedis, queueVars
<1>2. CASE TakeFromChan(p)
  <2> DEFINE id == Head(chan[p])
  <2>1. /\ chan[p] # <<>> /\ Execute(p, id) /\ chan'[p] = Tail(chan[p])
        /\ InHand(p)' = InHand(p)
    BY <1>2 DEF TakeFromChan, InHand, TypeOK
  <2>2. /\ Entries(Tail(chan[p])) = Entries(chan[p]) \ {id}
        /\ Distinct(Tail(chan[p])) /\ id \in Entries(chan[p]) /\ id \in Nat
    BY <2>1, HeadLeaves, PoppedHead DEF TypeOK, Accounted
  <2>3. id \in 1 .. Len(sent[p]) /\ id \notin Entries(executed[p])
    BY <2>2 DEF Accounted, Disjoint
  <2>4. /\ Entries(executed'[p]) = Entries(executed[p]) \cup {id}
        /\ Distinct(executed'[p])
    BY <2>1, <2>2, <2>3, ExecuteAccounted
  <2> QED
    BY <1>1, <2>1, <2>2, <2>4 DEF Accounted, Disjoint
<1>3. CASE TakeFromRedis(p)
  <2>1. /\ Execute(p, held[p]) /\ chan'[p] = chan[p]
        /\ InHand(p) = {held[p]} /\ InHand(p)' = {} /\ held[p] \in Nat
    BY <1>3 DEF TakeFromRedis, InHand, TypeOK
  <2>2. held[p] \in 1 .. Len(sent[p]) /\ held[p] \notin Entries(executed[p])
    BY <2>1 DEF Accounted, Disjoint
  <2>3. /\ Entries(executed'[p]) = Entries(executed[p]) \cup {held[p]}
        /\ Distinct(executed'[p])
    BY <2>1, <2>2, ExecuteAccounted
  <2> QED
    BY <1>1, <2>1, <2>3 DEF Accounted, Disjoint
<1> QED
  BY <1>2, <1>3

(* A death moves what the client holds to the dropped commands.            *)
LEMMA PerishAccounted ==
  ASSUME TypeOK, NEW p \in Peer, Accounted(p), Perish(p),
         UNCHANGED <<sent, cmdQ, executed>>
  PROVE  Accounted(p)'
<1>1. dropped'[p] = dropped[p] \cup Entries(chan[p]) \cup InHand(p)
  BY DEF Perish, TypeOK, Entries, InHand
<1>2. chan'[p] = <<>> /\ InHand(p)' = {}
  BY DEF Perish, TypeOK, InHand
<1>3. Entries(<<>>) = {} /\ Distinct(<<>>)
  BY DEF Entries, Distinct
<1> QED
  BY <1>1, <1>2, <1>3 DEF Accounted, Disjoint

(* No step duplicates a command or makes one vanish.                       *)
LEMMA AccountedStep ==
  ASSUME TypeOK, \A p \in Peer : Accounted(p), \A p \in Peer : Offline(p),
         [Next]_clientVars
  PROVE  \A p \in Peer : Accounted(p)'
<1>1. ASSUME NEW p \in Peer, \E c \in Command : Push(p, c)
      PROVE  \A q \in Peer : Accounted(q)'
  <2>1. PICK c \in Command : Push(p, c)
    BY <1>1
  <2>2. Accounted(p)'
    BY <2>1, PushAccounted
  <2>3. \A q \in Peer \ {p} : Same(q)
    BY <2>1 DEF Push, Same, InHand, TypeOK
  <2> QED
    BY <2>2, <2>3, AccountedSame
<1>2. ASSUME NEW p \in Peer,
             \/ AskNext(p) \/ BlpopFails(p) \/ Forward(p)
             \/ TakeFromChan(p) \/ TakeFromRedis(p)
      PROVE  \A q \in Peer : Accounted(q)'
  <2>1. Accounted(p)'
    BY <1>2, AskAccounted, BlpopAccounted, ForwardAccounted, TakeAccounted
  <2>2. \A q \in Peer \ {p} : Same(q)
    <3>1. CASE AskNext(p)
      BY <3>1 DEF AskNext, Same, InHand, TypeOK
    <3>2. CASE Forward(p)
      BY <3>2 DEF Forward, queueVars, Same, InHand, TypeOK
    <3>3. CASE TakeFromChan(p)
      BY <3>3 DEF TakeFromChan, Execute, queueVars, Same, InHand, TypeOK
    <3>4. CASE TakeFromRedis(p)
      BY <3>4 DEF TakeFromRedis, Execute, queueVars, Same, InHand, TypeOK
    <3>5. CASE BlpopFails(p)
      BY <3>5 DEF BlpopFails, Same, InHand, TypeOK
    <3> QED
      BY <1>2, <3>1, <3>2, <3>3, <3>4, <3>5
  <2> QED
    BY <2>1, <2>2, AccountedSame
<1>3. ASSUME NEW p \in Peer, Exit(p) \/ Crash(p)
      PROVE  \A q \in Peer : Accounted(q)'
  <2>1. Perish(p) /\ UNCHANGED <<sent, cmdQ, executed>>
    BY <1>3 DEF Exit, Crash
  <2>2. Accounted(p)'
    BY <2>1, PerishAccounted
  <2>3. \A q \in Peer \ {p} : Same(q)
    BY <2>1 DEF Perish, Same, InHand, TypeOK
  <2> QED
    BY <2>2, <2>3, AccountedSame
<1>4. ASSUME NEW p \in Peer, Build(p) \/ Reconnect(p)
      PROVE  \A q \in Peer : Accounted(q)'
  <2>1. \A q \in Peer : Same(q)
    <3>1. CASE Build(p)
      <4>1. InHand(p) = {}
        BY <3>1 DEF Build, Offline, InHand
      <4> QED
        BY <3>1, <4>1 DEF Build, queueVars, Same, InHand, TypeOK
    <3>2. CASE Reconnect(p)
      BY <3>2 DEF Reconnect, queueVars, Same, InHand, TypeOK
    <3> QED
      BY <1>4, <3>1, <3>2
  <2> QED
    BY <2>1, AccountedSame
<1>5. ASSUME UNCHANGED <<sent, cmdQ, poller, held, chan, executed, dropped>>
      PROVE  \A q \in Peer : Accounted(q)'
  BY <1>5, AccountedSame DEF Same, InHand
<1>6. ASSUME NEW p \in Peer,
             \/ Launch(p) \/ ReportStarted(p) \/ ReportAddr(p)
             \/ ReportStopped(p) \/ ReportRestarting(p) \/ Wake(p)
             \/ Forget(p) \/ SetFails(p)
      PROVE  \A q \in Peer : Accounted(q)'
  BY <1>5, <1>6 DEF Launch, ReportStarted, ReportAddr, ReportStopped,
                    ReportRestarting, Wake, Forget, SetFails, queueVars
<1>7. CASE UNCHANGED clientVars
  BY <1>5, <1>7 DEF clientVars
<1> QED
  BY <1>1, <1>2, <1>3, <1>4, <1>6, <1>7 DEF Next, Step, Fault, Send

(* The places as sets and lists give those of CommandsAccounted.           *)
LEMMA AccountedEnough ==
  ASSUME TypeOK, \A p \in Peer : Accounted(p)
  PROVE  CommandsAccounted
<1> SUFFICES ASSUME NEW p \in Peer
             PROVE  /\ UNION {Places(p)[k] : k \in 1 .. 5} = 1 .. Len(sent[p])
                    /\ \A j, k \in 1 .. 5 :
                         j # k => Places(p)[j] \cap Places(p)[k] = {}
                    /\ \A s \in {cmdQ[p], chan[p], executed[p]} :
                         Cardinality(Members(s)) = Len(s)
  BY DEF CommandsAccounted
<1> DEFINE Q == Entries(cmdQ[p])
           H == InHand(p)
           C == Entries(chan[p])
           E == Entries(executed[p])
           D == dropped[p]
<1>1. /\ Places(p)[1] = Q /\ Places(p)[2] = H /\ Places(p)[3] = C
      /\ Places(p)[4] = E /\ Places(p)[5] = D
  BY DEF Places, Members, Entries
<1>2. Q \cup H \cup C \cup E \cup D = 1 .. Len(sent[p]) /\ Disjoint(Q, H, C, E, D)
  BY DEF Accounted
<1>3. \A s \in {cmdQ[p], chan[p], executed[p]} : Cardinality(Members(s)) = Len(s)
  <2>1. \A s \in {cmdQ[p], chan[p], executed[p]} : s \in Seq(Nat) /\ Distinct(s)
    BY DEF TypeOK, Accounted
  <2>2. \A s \in Seq(Nat) : Distinct(s) => Cardinality(Entries(s)) = Len(s)
    BY DistinctCount
  <2> QED
    BY <2>1, <2>2 DEF Members, Entries
<1> HIDE DEF Q, H, C, E, D
<1>4. 1 .. 5 = {1, 2, 3, 4, 5}
  OBVIOUS
<1>5. UNION {Places(p)[k] : k \in {1, 2, 3, 4, 5}} = Q \cup H \cup C \cup E \cup D
  BY <1>1
<1>6. \A j, k \in {1, 2, 3, 4, 5} : j # k => Places(p)[j] \cap Places(p)[k] = {}
  BY <1>1, <1>2 DEF Disjoint
<1> QED
  BY <1>2, <1>3, <1>4, <1>5, <1>6

(* A command of the orchestrator is in Redis, in a client, executed once,  *)
(* or lost with a process or a reply, whatever crashes, restarts or loses  *)
(* its connection and however many commands and peers there are.           *)
THEOREM AllAccounted == Spec => []CommandsAccounted
<1> DEFINE Inv == /\ TypeOK
                  /\ \A p \in Peer : Accounted(p)
                  /\ \A p \in Peer : Offline(p)
<1>1. Init => Inv
  BY TypeInit, AccountedInit DEF Init, NoContainers, Offline
<1>2. Inv /\ [Next]_clientVars => Inv'
  BY TypeStep, AccountedStep, OfflineStep
<1>3. Inv => CommandsAccounted
  BY AccountedEnough
<1> QED
  BY <1>1, <1>2, <1>3, PTL DEF Spec

-----------------------------------------------------------------------------
(* What a death costs.                                                     *)

(* A ghost is counted as the command it will take.  A client without a     *)
(* poller holds or waits for a command only while its program runs.        *)
Cost(p) ==
  /\ Len(chan[p]) <= Cap /\ IsFiniteSet(dropped[p])
  /\ Cardinality(dropped[p]) + ghosts[p] <= deaths[p] * (Cap + 1) + breaks[p]
  /\ p \notin Prefetch =>
       /\ chan[p] = <<>>
       /\ Cardinality(dropped[p]) + ghosts[p] <= faults
       /\ proc[p] # "running" => poller[p] \notin {"waiting", "holding"}

(* A union has at most as many elements as its parts.                      *)
LEMMA SmallUnion ==
  ASSUME NEW S, NEW T, IsFiniteSet(S), IsFiniteSet(T)
  PROVE  /\ IsFiniteSet(S \cup T)
         /\ Cardinality(S \cup T) <= Cardinality(S) + Cardinality(T)
         /\ Cardinality(S) \in Nat /\ Cardinality(T) \in Nat
         /\ Cardinality(S \cup T) \in Nat
<1>1. IsFiniteSet(S \cup T) /\ IsFiniteSet(S \cap T)
  BY FS_Union, FS_Subset
<1>2. /\ Cardinality(S) \in Nat /\ Cardinality(T) \in Nat
      /\ Cardinality(S \cup T) \in Nat /\ Cardinality(S \cap T) \in Nat
  BY <1>1, FS_CardinalityType
<1>3. Cardinality(S \cup T)
        = Cardinality(S) + Cardinality(T) - Cardinality(S \cap T)
  BY FS_Union
<1> QED
  BY <1>1, <1>2, <1>3

(* At first nothing has died.                                              *)
LEMMA CostInit == ASSUME Init PROVE \A p \in Peer : Cost(p)
BY FS_EmptySet, ClientAssumption DEF Init, NoContainers, Cost

(* For the peers a step is not about.                                      *)
LEMMA CostSame ==
  ASSUME TypeOK, NEW q \in Peer, Cost(q), faults' \in Nat, faults <= faults',
         chan'[q] = chan[q], dropped'[q] = dropped[q], deaths'[q] = deaths[q],
         poller'[q] = poller[q], proc'[q] = proc[q], ghosts'[q] = ghosts[q],
         breaks'[q] = breaks[q]
  PROVE  Cost(q)'
<1>1. Cardinality(dropped[q]) \in Nat /\ faults \in Nat /\ ghosts[q] \in Nat
  BY FS_CardinalityType DEF Cost, TypeOK
<1> QED
  BY <1>1 DEF Cost

(* A death costs the channel, the held command and a ghost at most.        *)
LEMMA CostPerish ==
  ASSUME TypeOK, NEW p \in Peer, Cost(p), Perish(p)
  PROVE  /\ Len(chan'[p]) <= Cap /\ chan'[p] = <<>> /\ IsFiniteSet(dropped'[p])
         /\ Cardinality(dropped'[p]) + ghosts'[p]
              <= deaths'[p] * (Cap + 1) + breaks[p]
         /\ p \notin Prefetch => Cardinality(dropped'[p]) + ghosts'[p] <= faults + 1
         /\ p \notin Prefetch /\ proc[p] # "running" =>
              Cardinality(dropped'[p]) + ghosts'[p] <= faults
         /\ poller'[p] \notin {"waiting", "holding"}
<1> DEFINE C == Entries(chan[p])
<1>1. /\ dropped'[p] = (dropped[p] \cup C) \cup InHand(p)
      /\ chan'[p] = <<>> /\ deaths'[p] = deaths[p] + 1
      /\ ghosts'[p] = IF poller[p] = "waiting" THEN ghosts[p] + 1 ELSE ghosts[p]
      /\ poller'[p] = "off"
  BY DEF Perish, TypeOK, Entries, InHand
<1>2. /\ IsFiniteSet(dropped[p]) /\ IsFiniteSet(C) /\ IsFiniteSet(InHand(p))
      /\ Cardinality(C) <= Len(chan[p]) /\ Len(chan[p]) \in Nat
  <2>1. chan[p] \in Seq(Nat) /\ Len(chan[p]) \in Nat
    BY DEF TypeOK
  <2>2. IsFiniteSet(C) /\ Cardinality(C) <= Len(chan[p])
    BY <2>1, DistinctCount
  <2>3. IsFiniteSet(InHand(p))
    BY FS_EmptySet, FS_Singleton DEF InHand
  <2> QED
    BY <2>1, <2>2, <2>3 DEF Cost
<1>3. /\ IsFiniteSet(dropped'[p]) /\ Cardinality(dropped'[p]) \in Nat
      /\ Cardinality(dropped'[p])
           <= Cardinality(dropped[p]) + Cardinality(C) + Cardinality(InHand(p))
      /\ Cardinality(dropped[p]) \in Nat /\ Cardinality(C) \in Nat
      /\ Cardinality(InHand(p)) \in Nat
  <2>1. /\ IsFiniteSet(dropped[p] \cup C)
        /\ Cardinality(dropped[p] \cup C) <= Cardinality(dropped[p]) + Cardinality(C)
        /\ Cardinality(dropped[p]) \in Nat /\ Cardinality(C) \in Nat
        /\ Cardinality(dropped[p] \cup C) \in Nat
    BY <1>2, SmallUnion
  <2>2. /\ IsFiniteSet((dropped[p] \cup C) \cup InHand(p))
        /\ Cardinality((dropped[p] \cup C) \cup InHand(p))
             <= Cardinality(dropped[p] \cup C) + Cardinality(InHand(p))
        /\ Cardinality(InHand(p)) \in Nat
        /\ Cardinality((dropped[p] \cup C) \cup InHand(p)) \in Nat
    BY <1>2, <2>1, SmallUnion
  <2> HIDE DEF C
  <2> QED
    BY <1>1, <2>1, <2>2
<1>4. /\ ghosts[p] \in Nat /\ ghosts'[p] \in Nat
      /\ Cardinality(InHand(p)) + ghosts'[p] <= ghosts[p] + 1
      /\ poller[p] \notin {"waiting", "holding"} =>
           Cardinality(InHand(p)) + ghosts'[p] = ghosts[p]
  <2>1. ghosts[p] \in Nat
    BY DEF TypeOK
  <2>2. CASE poller[p] = "holding"
    <3>1. InHand(p) = {held[p]} /\ ghosts'[p] = ghosts[p]
      BY <1>1, <2>2 DEF InHand
    <3>2. Cardinality(InHand(p)) = 1
      BY <3>1, FS_Singleton
    <3> QED
      BY <2>1, <2>2, <3>1, <3>2
  <2>3. CASE poller[p] # "holding"
    <3>1. Cardinality(InHand(p)) = 0
      BY <2>3, FS_EmptySet DEF InHand
    <3> QED
      BY <1>1, <2>1, <2>3, <3>1
  <2> QED
    BY <2>2, <2>3
<1>5. /\ Cap \in Nat /\ deaths[p] \in Nat /\ faults \in Nat
      /\ breaks[p] \in Nat
  BY ClientAssumption DEF TypeOK
<1>6. /\ Len(chan[p]) <= Cap
      /\ Cardinality(dropped[p]) + ghosts[p]
           <= deaths[p] * (Cap + 1) + breaks[p]
      /\ p \notin Prefetch =>
           /\ Len(chan[p]) = 0 /\ Cardinality(dropped[p]) + ghosts[p] <= faults
           /\ proc[p] # "running" => poller[p] \notin {"waiting", "holding"}
  BY DEF Cost
<1>7. Len(chan'[p]) = 0
  BY <1>1
<1>8. Cardinality(dropped'[p]) + ghosts'[p]
        <= Cardinality(dropped[p]) + ghosts[p] + (Cap + 1)
  <2> DEFINE i == Cardinality(InHand(p))
  <2>1. Cardinality(C) <= Cap
    <3>1. Len(chan[p]) <= Cap
      BY <1>6
    <3> HIDE DEF C
    <3> QED
      BY <1>2, <1>3, <1>5, <3>1
  <2>2. /\ Cardinality(dropped'[p]) <= Cardinality(dropped[p]) + Cap + i
        /\ i + ghosts'[p] <= ghosts[p] + 1 /\ i \in Nat
    <3> HIDE DEF C
    <3> QED
      BY <1>3, <1>4, <1>5, <2>1
  <2> HIDE DEF i, C
  <2> QED
    BY <1>3, <1>4, <1>5, <2>2
<1>9. /\ deaths'[p] * (Cap + 1) = deaths[p] * (Cap + 1) + (Cap + 1)
      /\ deaths[p] * (Cap + 1) \in Nat
  BY <1>1, <1>5
<1>10. Cardinality(dropped'[p]) + ghosts'[p]
         <= deaths'[p] * (Cap + 1) + breaks[p]
  <2> DEFINE bound  == deaths[p] * (Cap + 1)
             bound1 == deaths'[p] * (Cap + 1)
  <2>1. /\ bound1 = bound + (Cap + 1) /\ bound \in Nat
        /\ Cardinality(dropped[p]) + ghosts[p] <= bound + breaks[p]
    BY <1>6, <1>9
  <2> HIDE DEF bound, bound1
  <2>2. Cardinality(dropped'[p]) + ghosts'[p] <= bound1 + breaks[p]
    BY <1>3, <1>4, <1>5, <1>8, <2>1
  <2> QED
    BY <2>2 DEF bound1
<1>11. p \notin Prefetch =>
         /\ Cardinality(dropped'[p]) + ghosts'[p] <= faults + 1
         /\ proc[p] # "running" => Cardinality(dropped'[p]) + ghosts'[p] <= faults
  <2> SUFFICES ASSUME p \notin Prefetch
               PROVE  /\ Cardinality(dropped'[p]) + ghosts'[p] <= faults + 1
                      /\ proc[p] # "running" =>
                           Cardinality(dropped'[p]) + ghosts'[p] <= faults
    OBVIOUS
  <2>1. /\ Cardinality(C) = 0
        /\ Cardinality(dropped[p]) + ghosts[p] <= faults
        /\ Cardinality(dropped'[p])
             <= Cardinality(dropped[p]) + Cardinality(InHand(p))
    BY <1>2, <1>3, <1>6
  <2>2. Cardinality(dropped'[p]) + ghosts'[p] <= faults + 1
    BY <1>3, <1>4, <1>5, <2>1
  <2>3. proc[p] # "running" => Cardinality(dropped'[p]) + ghosts'[p] <= faults
    BY <1>3, <1>4, <1>5, <1>6, <2>1
  <2> QED
    BY <2>2, <2>3
<1> QED
  BY <1>1, <1>3, <1>5, <1>7, <1>10, <1>11

(* An LPUSH that a ghost takes was counted already.                        *)
LEMMA CostPush ==
  ASSUME TypeOK, NEW p \in Peer, Cost(p), NEW c \in Command, Push(p, c)
  PROVE  Cost(p)'
<1>1. /\ chan'[p] = chan[p] /\ deaths'[p] = deaths[p] /\ proc'[p] = proc[p]
      /\ faults' = faults /\ breaks'[p] = breaks[p]
  BY DEF Push
<1>2. CASE ghosts[p] > 0
  <2> DEFINE id == Len(sent[p]) + 1
  <2>1. /\ ghosts' = [ghosts EXCEPT ![p] = @ - 1] /\ UNCHANGED poller
        /\ dropped' = [dropped EXCEPT ![p] = @ \cup {id}]
    BY <1>2 DEF Push
  <2>2. ghosts'[p] = ghosts[p] - 1 /\ dropped'[p] = dropped[p] \cup {id}
    BY <2>1 DEF TypeOK
  <2>3. /\ IsFiniteSet(dropped'[p]) /\ Cardinality(dropped'[p]) \in Nat
        /\ Cardinality(dropped[p]) \in Nat
        /\ Cardinality(dropped'[p]) <= Cardinality(dropped[p]) + 1
    <3>1. IsFiniteSet({id}) /\ Cardinality({id}) = 1
      BY FS_Singleton
    <3> QED
      BY <2>2, <3>1, SmallUnion DEF Cost
  <2>4. /\ deaths[p] * (Cap + 1) \in Nat /\ faults \in Nat
        /\ breaks[p] \in Nat /\ ghosts[p] \in Nat
    BY ClientAssumption DEF TypeOK
  <2>5. Cardinality(dropped'[p]) + ghosts'[p]
          <= Cardinality(dropped[p]) + ghosts[p]
    BY <2>2, <2>3, <2>4
  <2>6. ghosts'[p] \in Nat
    BY <1>2, <2>2, <2>4
  <2>7. /\ Cardinality(dropped'[p]) + ghosts'[p]
             <= deaths[p] * (Cap + 1) + breaks[p]
        /\ p \notin Prefetch => Cardinality(dropped'[p]) + ghosts'[p] <= faults
    BY <2>3, <2>4, <2>5, <2>6 DEF Cost
  <2> QED
    BY <1>1, <2>1, <2>3, <2>7 DEF Cost
<1>3. CASE ~(ghosts[p] > 0)
  <2>1. dropped'[p] = dropped[p] /\ ghosts'[p] = ghosts[p]
    BY <1>3 DEF Push
  <2>2. /\ poller[p] \notin {"waiting", "holding"} =>
             poller'[p] \notin {"waiting", "holding"}
    BY <1>3 DEF Push
  <2> QED
    BY <1>1, <2>1, <2>2 DEF Cost
<1> QED
  BY <1>2, <1>3

(* A failed BLPOP leaves a ghost, or loses a command, or neither.          *)
LEMMA CostBlpop ==
  ASSUME TypeOK, NEW p \in Peer, Cost(p), BlpopFails(p)
  PROVE  Cost(p)'
<1>1. /\ chan'[p] = chan[p] /\ deaths'[p] = deaths[p] /\ p \in Prefetch
      /\ breaks'[p] = breaks[p] + 1
  BY DEF BlpopFails, TypeOK
<1>2. /\ deaths[p] * (Cap + 1) \in Nat /\ breaks[p] \in Nat
      /\ ghosts[p] \in Nat /\ Cardinality(dropped[p]) \in Nat
      /\ IsFiniteSet(dropped[p])
  BY ClientAssumption, FS_CardinalityType DEF TypeOK, Cost
<1>3. /\ IsFiniteSet(dropped'[p])
      /\ Cardinality(dropped'[p]) + ghosts'[p]
           <= Cardinality(dropped[p]) + ghosts[p] + 1
      /\ Cardinality(dropped'[p]) \in Nat /\ ghosts'[p] \in Nat
  <2>1. CASE UNCHANGED dropped
    <3>1. ghosts'[p] \in {ghosts[p], ghosts[p] + 1}
      BY DEF BlpopFails, TypeOK
    <3> QED
      BY <1>2, <2>1, <3>1 DEF Cost
  <2>2. CASE /\ dropped' = [dropped EXCEPT ![p] = @ \cup {Head(cmdQ[p])}]
             /\ UNCHANGED ghosts
    <3> DEFINE id == Head(cmdQ[p])
    <3>1. dropped'[p] = dropped[p] \cup {id}
      BY <2>2 DEF TypeOK
    <3> HIDE DEF id
    <3>2. IsFiniteSet({id}) /\ Cardinality({id}) = 1
      BY FS_Singleton
    <3>3. /\ IsFiniteSet(dropped'[p]) /\ Cardinality(dropped'[p]) \in Nat
          /\ Cardinality(dropped'[p]) <= Cardinality(dropped[p]) + 1
      BY <1>2, <3>1, <3>2, SmallUnion
    <3> QED
      BY <1>2, <2>2, <3>3
  <2> QED
    BY <2>1, <2>2 DEF BlpopFails
<1>4. Cardinality(dropped'[p]) + ghosts'[p]
        <= deaths'[p] * (Cap + 1) + breaks'[p]
  BY <1>1, <1>2, <1>3 DEF Cost
<1> QED
  BY <1>1, <1>3, <1>4 DEF Cost

(* The steps of a process that lives on.                                   *)
LEMMA CostLive ==
  ASSUME TypeOK, NEW p \in Peer, Cost(p),
         \/ Launch(p) \/ Build(p) \/ ReportStarted(p) \/ ReportAddr(p)
         \/ AskNext(p) \/ Reconnect(p) \/ Forward(p) \/ TakeFromChan(p) \/ TakeFromRedis(p)
         \/ ReportStopped(p) \/ ReportRestarting(p) \/ Wake(p) \/ Forget(p)
         \/ SetFails(p)
  PROVE  Cost(p)'
<1>1. /\ dropped'[p] = dropped[p] /\ deaths'[p] = deaths[p]
      /\ breaks'[p] = breaks[p]
      /\ faults' \in {faults, faults + 1} /\ faults \in Nat
  BY DEF Launch, Build, ReportStarted, ReportAddr, Reconnect, AskNext, Forward, TakeFromChan,
         TakeFromRedis, ReportStopped, ReportRestarting, Wake, Forget,
         SetFails, queueVars, TypeOK
<1>2. ghosts'[p] <= ghosts[p] /\ ghosts'[p] \in Nat /\ ghosts[p] \in Nat
  BY DEF Launch, Build, ReportStarted, ReportAddr, Reconnect, AskNext, Forward, TakeFromChan,
         TakeFromRedis, ReportStopped, ReportRestarting, Wake, Forget,
         SetFails, queueVars, TypeOK
<1>3. Len(chan'[p]) <= Cap /\ (p \notin Prefetch => chan'[p] = chan[p])
  <2>1. CASE UNCHANGED chan
    BY <2>1 DEF Cost
  <2>2. CASE Forward(p)
    <3>1. /\ chan'[p] = Append(chan[p], held[p]) /\ Len(chan[p]) < Cap
          /\ p \in Prefetch /\ chan[p] \in Seq(Nat) /\ held[p] \in Nat
      BY <2>2 DEF Forward, TypeOK
    <3>2. Len(chan'[p]) = Len(chan[p]) + 1 /\ Len(chan[p]) \in Nat
      BY <3>1
    <3> QED
      BY <3>1, <3>2, ClientAssumption
  <2>3. CASE TakeFromChan(p)
    <3>1. /\ chan'[p] = Tail(chan[p]) /\ chan[p] # <<>> /\ p \in Prefetch
          /\ chan[p] \in Seq(Nat)
      BY <2>3 DEF TakeFromChan, TypeOK
    <3>2. Len(chan'[p]) = Len(chan[p]) - 1 /\ Len(chan[p]) \in Nat
      BY <3>1, PoppedHead
    <3> QED
      BY <3>1, <3>2, ClientAssumption DEF Cost
  <2> QED
    BY <2>1, <2>2, <2>3
       DEF Launch, Build, ReportStarted, ReportAddr, Reconnect, AskNext, TakeFromRedis,
           ReportStopped, ReportRestarting, Wake, Forget, SetFails
<1>4. p \notin Prefetch /\ proc'[p] # "running" =>
        poller'[p] \notin {"waiting", "holding"}
  <2> SUFFICES ASSUME p \notin Prefetch, proc'[p] # "running"
               PROVE  poller'[p] \notin {"waiting", "holding"}
    OBVIOUS
  <2>1. CASE Build(p)
    BY <2>1 DEF Build, TypeOK
  <2>2. CASE TakeFromRedis(p)
    BY <2>2 DEF TakeFromRedis, TypeOK
  <2>3. CASE AskNext(p)
    BY <2>3 DEF AskNext
  <2>4. CASE /\ UNCHANGED poller
             /\ proc[p] # "running"
    BY <2>4 DEF Cost
  <2>5. CASE Forward(p) \/ TakeFromChan(p) \/ SetFails(p) \/ Reconnect(p)
    BY <2>5, ClientAssumption DEF Forward, TakeFromChan, SetFails, Reconnect
  <2>6. CASE UNCHANGED <<poller, proc>>
    BY <2>6 DEF Cost
  <2> QED
    BY <2>1, <2>2, <2>3, <2>4, <2>5, <2>6
       DEF Launch, ReportStarted, ReportAddr, ReportStopped,
           ReportRestarting, Wake, Forget
<1>5. Cardinality(dropped[p]) \in Nat
  BY FS_CardinalityType DEF Cost
<1>6. /\ Cardinality(dropped[p]) + ghosts'[p]
           <= deaths[p] * (Cap + 1) + breaks[p]
      /\ p \notin Prefetch => Cardinality(dropped[p]) + ghosts'[p] <= faults'
  <2>1. deaths[p] * (Cap + 1) \in Nat /\ breaks[p] \in Nat
    BY ClientAssumption DEF TypeOK
  <2> QED
    BY <1>1, <1>2, <1>5, <2>1 DEF Cost
<1>7. Cardinality(dropped'[p]) + ghosts'[p]
        <= deaths'[p] * (Cap + 1) + breaks'[p]
  BY <1>1, <1>6
<1>8. IsFiniteSet(dropped'[p]) /\ (p \notin Prefetch => chan'[p] = <<>>)
  BY <1>1, <1>3 DEF Cost
<1> QED
  BY <1>1, <1>3, <1>4, <1>6, <1>7, <1>8 DEF Cost

(* No step costs more than it is allowed.                                  *)
LEMMA CostStep ==
  ASSUME TypeOK, \A p \in Peer : Cost(p), [Next]_clientVars
  PROVE  \A p \in Peer : Cost(p)'
<1>1. ASSUME UNCHANGED clientVars PROVE \A p \in Peer : Cost(p)'
  BY <1>1 DEF clientVars, Cost
<1>2. ASSUME NEW p \in Peer, Send(p) PROVE \A q \in Peer : Cost(q)'
  <2>1. PICK c \in Command : Push(p, c)
    BY <1>2 DEF Send
  <2>2. Cost(p)'
    BY <2>1, CostPush
  <2>3. ASSUME NEW q \in Peer \ {p} PROVE Cost(q)'
    <3>1. /\ chan'[q] = chan[q] /\ dropped'[q] = dropped[q]
          /\ deaths'[q] = deaths[q] /\ poller'[q] = poller[q]
          /\ ghosts'[q] = ghosts[q]
          /\ proc'[q] = proc[q] /\ faults' = faults /\ faults \in Nat
          /\ breaks'[q] = breaks[q]
      BY <2>1 DEF Push, TypeOK
    <3> QED
      BY <3>1, CostSame
  <2> QED
    BY <2>2, <2>3
<1>3. ASSUME NEW p \in Peer, Exit(p) PROVE \A q \in Peer : Cost(q)'
  <2>1. /\ Perish(p) /\ UNCHANGED breaks
        /\ proc[p] # "running" /\ faults' = faults
    BY <1>3 DEF Exit
  <2>2. Cost(p)'
    BY <2>1, CostPerish DEF Cost
  <2>3. ASSUME NEW q \in Peer \ {p} PROVE Cost(q)'
    <3>1. /\ chan'[q] = chan[q] /\ dropped'[q] = dropped[q]
          /\ deaths'[q] = deaths[q] /\ poller'[q] = poller[q]
          /\ ghosts'[q] = ghosts[q]
      BY <2>1 DEF Perish, TypeOK
    <3>2. /\ proc'[q] = proc[q] /\ breaks'[q] = breaks[q]
          /\ faults \in Nat /\ faults' \in {faults, faults + 1}
      BY <1>3, <2>1 DEF Exit, GoTo, TypeOK
    <3> QED
      BY <3>1, <3>2, CostSame
  <2> QED
    BY <2>2, <2>3
<1>4. ASSUME NEW p \in Peer, Crash(p) PROVE \A q \in Peer : Cost(q)'
  <2>1. /\ Perish(p) /\ UNCHANGED breaks
        /\ faults' = faults + 1
    BY <1>4 DEF Crash
  <2>2. Cost(p)'
    BY <2>1, CostPerish DEF Cost
  <2>3. ASSUME NEW q \in Peer \ {p} PROVE Cost(q)'
    <3>1. /\ chan'[q] = chan[q] /\ dropped'[q] = dropped[q]
          /\ deaths'[q] = deaths[q] /\ poller'[q] = poller[q]
          /\ ghosts'[q] = ghosts[q]
      BY <2>1 DEF Perish, TypeOK
    <3>2. /\ proc'[q] = proc[q] /\ breaks'[q] = breaks[q]
          /\ faults \in Nat /\ faults' \in {faults, faults + 1}
      BY <1>4, <2>1 DEF Crash, GoTo, TypeOK
    <3> QED
      BY <3>1, <3>2, CostSame
  <2> QED
    BY <2>2, <2>3
<1>5. ASSUME NEW p \in Peer,
             \/ Launch(p) \/ Build(p) \/ ReportStarted(p) \/ ReportAddr(p)
             \/ AskNext(p) \/ Reconnect(p) \/ Forward(p) \/ TakeFromChan(p) \/ TakeFromRedis(p)
             \/ ReportStopped(p) \/ ReportRestarting(p) \/ Wake(p)
             \/ Forget(p) \/ SetFails(p)
      PROVE  \A q \in Peer : Cost(q)'
  <2>1. Cost(p)'
    BY <1>5, CostLive
  <2>2. /\ faults' \in {faults, faults + 1} /\ faults \in Nat
        /\ \A q \in Peer \ {p} :
             /\ chan'[q] = chan[q] /\ dropped'[q] = dropped[q]
             /\ deaths'[q] = deaths[q] /\ poller'[q] = poller[q]
          /\ ghosts'[q] = ghosts[q]
             /\ proc'[q] = proc[q] /\ ghosts'[q] = ghosts[q]
             /\ breaks'[q] = breaks[q]
    <3>1. CASE Launch(p) \/ Build(p) \/ ReportStarted(p) \/ ReportAddr(p)
               \/ ReportStopped(p) \/ ReportRestarting(p) \/ Wake(p)
               \/ Forget(p)
      BY <3>1 DEF Launch, Build, ReportStarted, ReportAddr, ReportStopped,
                  ReportRestarting, Wake, Forget, GoTo, queueVars, TypeOK
    <3>2. CASE AskNext(p) \/ Reconnect(p) \/ Forward(p)
      BY <3>2 DEF AskNext, Reconnect, Forward, queueVars, TypeOK
    <3>3. CASE TakeFromChan(p) \/ TakeFromRedis(p)
      BY <3>3 DEF TakeFromChan, TakeFromRedis, Execute, GoTo, queueVars, TypeOK
    <3>4. CASE SetFails(p)
      BY <3>4 DEF SetFails, GoTo, queueVars, TypeOK
    <3> QED
      BY <1>5, <3>1, <3>2, <3>3, <3>4
  <2>3. ASSUME NEW q \in Peer \ {p} PROVE Cost(q)'
    <3>1. faults' \in Nat /\ faults <= faults'
      BY <2>2
    <3> QED
      BY <2>2, <3>1, CostSame
  <2> QED
    BY <2>1, <2>3
<1>6. ASSUME NEW p \in Peer, BlpopFails(p) PROVE \A q \in Peer : Cost(q)'
  <2>1. Cost(p)'
    BY <1>6, CostBlpop
  <2>2. ASSUME NEW q \in Peer \ {p} PROVE Cost(q)'
    <3>1. /\ chan'[q] = chan[q] /\ deaths'[q] = deaths[q]
          /\ proc'[q] = proc[q] /\ poller'[q] = poller[q]
          /\ breaks'[q] = breaks[q]
          /\ faults \in Nat /\ faults' = faults + 1
      BY <1>6 DEF BlpopFails, TypeOK
    <3>2. dropped'[q] = dropped[q] /\ ghosts'[q] = ghosts[q]
      BY <1>6 DEF BlpopFails, TypeOK
    <3> QED
      BY <3>1, <3>2, CostSame
  <2> QED
    BY <2>1, <2>2
<1> QED
  BY <1>1, <1>2, <1>3, <1>4, <1>5, <1>6 DEF Next, Step, Fault

(* One death costs at most a channel and a command, a failed BLPOP one     *)
(* command, and a Python peer, in which nothing is fetched ahead, loses    *)
(* one by a crash only.                                                    *)
THEOREM LossBounded == Spec => []LossPerDeath
<1> DEFINE Inv == TypeOK /\ \A p \in Peer : Cost(p)
<1>1. Init => Inv
  BY TypeInit, CostInit
<1>2. Inv /\ [Next]_clientVars => Inv'
  BY TypeStep, CostStep
<1>3. Inv => LossPerDeath
  <2> SUFFICES ASSUME Inv, NEW p \in Peer
               PROVE  /\ Cardinality(dropped[p]) + ghosts[p]
                           <= deaths[p] * (Cap + 1) + breaks[p]
                      /\ p \notin Prefetch => Cardinality(dropped[p]) <= faults
    BY DEF LossPerDeath
  <2>1. Cardinality(dropped[p]) \in Nat /\ ghosts[p] \in Nat /\ faults \in Nat
    BY FS_CardinalityType DEF Cost, TypeOK
  <2> QED
    BY <2>1 DEF Cost
<1> QED
  BY <1>1, <1>2, <1>3, PTL DEF Spec

=============================================================================
