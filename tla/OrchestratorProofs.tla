------------------------- MODULE OrchestratorProofs -------------------------
(***************************************************************************)
(* Proofs about a run of tm, for any peers, bootstrap pairs, timeline,     *)
(* remains of earlier runs, and bounds.                                    *)
(***************************************************************************)
EXTENDS Orchestrator, ListLemmas

Cmd    == {"shutdown", "restart", "other"}
Report == [base : {"started", "restarting", "stopped"},
           addr : Peer \cup {OldAddr, NoAddr}]
Places == {"absent", "boot", "ready", "running", "halting", "rebooting",
           "dying", "dying42", "asleep", "exited"}
Polls  == {"off", "idle", "waiting", "holding", "broken"}

-----------------------------------------------------------------------------
(* Types.                                                                  *)

PeersOK ==
  /\ sent \in [Peer -> Seq(Cmd)] /\ cmdQ \in [Peer -> Seq(Nat)]
  /\ writes \in [Peer -> Seq(Report)] /\ proc \in [Peer -> Places]
  /\ poller \in [Peer -> Polls] /\ held \in [Peer -> Nat]
  /\ chan \in [Peer -> Seq(Nat)] /\ executed \in [Peer -> Seq(Nat)]

(* What the loop of each phase still has to handle.                        *)
ListsOK ==
  /\ main \in {"clear", "launch", "shutdown", "remove"} => todo \in Seq(Peer)
  /\ main = "bootSend" => todo \in Seq(Peer \X Peer)
  /\ main = "send" => todo \in Seq(Peer \X Cmd)
  /\ main = "shutdown" => then # "none"

Types == PeersOK /\ TypeOK /\ ListsOK

(* A loop over a list takes its elements from the front.                   *)
LEMMA Popped ==
  ASSUME NEW S, NEW s \in Seq(S), s # <<>>
  PROVE  /\ Head(s) \in S /\ Tail(s) \in Seq(S)
         /\ \A k \in 1 .. Len(s) :
              s[k] = Head(s) \/ \E j \in 1 .. Len(Tail(s)) : s[k] = Tail(s)[j]
<1>1. /\ Tail(s) \in Seq(S) /\ Len(Tail(s)) = Len(s) - 1
      /\ Head(s) = s[1] /\ Head(s) \in S /\ Len(s) \in Nat
      /\ \A j \in 1 .. Len(s) - 1 : Tail(s)[j] = s[j + 1]
  BY HeadTailProperties
<1>2. ASSUME NEW k \in 1 .. Len(s), k # 1
      PROVE  \E j \in 1 .. Len(Tail(s)) : s[k] = Tail(s)[j]
  <2>1. k - 1 \in 1 .. Len(Tail(s)) /\ s[k] = Tail(s)[k - 1]
    BY <1>1, <1>2
  <2> QED
    BY <2>1
<1> QED
  BY <1>1, <1>2

(* What is in a list is its head or in the rest.                           *)
LEMMA Rest ==
  ASSUME NEW S, NEW s \in Seq(S), s # <<>>
  PROVE  \A x \in Entries(s) : x = Head(s) \/ x \in Entries(Tail(s))
BY Popped DEF Entries

(* A list that grows at its end keeps what it had.                         *)
LEMMA Grown ==
  ASSUME NEW S, NEW s \in Seq(S), NEW x \in S
  PROVE  /\ Append(s, x) \in Seq(S) /\ Len(Append(s, x)) = Len(s) + 1
         /\ Len(s) \in Nat
         /\ \A k \in 1 .. Len(s) : Append(s, x)[k] = s[k]
         /\ Append(s, x)[Len(s) + 1] = x
BY AppendProperties

(* LPUSH touches one command list and no process.                          *)
LEMMA PushEffect ==
  ASSUME PeersOK, NEW p \in Peer, NEW c \in Cmd, Client!Push(p, c)
  PROVE  /\ PeersOK'
         /\ sent' = [sent EXCEPT ![p] = Append(@, c)]
         /\ UNCHANGED <<writes, proc, chan, executed>>
<1> DEFINE id == Len(sent[p]) + 1
<1>1. id \in Nat /\ Append(sent[p], c) \in Seq(Cmd)
  BY DEF PeersOK
<1>2. sent' \in [Peer -> Seq(Cmd)]
  BY <1>1 DEF PeersOK, Client!Push
<1>3. <<id>> \o cmdQ[p] \in Seq(Nat)
  BY <1>1 DEF PeersOK
<1>4. CASE /\ poller' = [poller EXCEPT ![p] = "holding"]
           /\ held' = [held EXCEPT ![p] = id]
           /\ UNCHANGED cmdQ
  BY <1>1, <1>2, <1>4 DEF PeersOK, Polls, Client!Push
<1>5. CASE UNCHANGED <<cmdQ, poller, held>>
  BY <1>2, <1>5 DEF PeersOK, Polls, Client!Push
<1>6. CASE /\ cmdQ' = [cmdQ EXCEPT ![p] = <<id>> \o @]
           /\ UNCHANGED <<poller, held>>
  BY <1>2, <1>3, <1>6 DEF PeersOK, Client!Push
<1> QED
  BY <1>4, <1>5, <1>6 DEF Client!Push

(* docker run boots one peer and touches none of its lists.                *)
LEMMA LaunchEffect ==
  ASSUME PeersOK, NEW p \in Peer, Client!Launch(p)
  PROVE  /\ PeersOK' /\ proc' = [proc EXCEPT ![p] = "boot"]
         /\ UNCHANGED <<sent, cmdQ, writes, poller, held, chan, executed>>
BY DEF PeersOK, Places, Client!Launch, Client!GoTo, Client!queueVars

(* The death of a process empties what its client held.                    *)
LEMMA PerishEffect ==
  ASSUME PeersOK, NEW p \in Peer, Client!Perish(p)
  PROVE  /\ chan' \in [Peer -> Seq(Nat)] /\ held' \in [Peer -> Nat]
         /\ poller' \in [Peer -> Polls]
         /\ chan' = [chan EXCEPT ![p] = <<>>]
         /\ held' = [held EXCEPT ![p] = 0]
         /\ poller'[p] = "off"
BY DEF PeersOK, Polls, Client!Perish

(* docker rm -f takes one peer away, and what its client held.             *)
LEMMA RemoveEffect ==
  ASSUME PeersOK, NEW p \in Peer, Client!Remove(p)
  PROVE  /\ PeersOK' /\ proc' = [proc EXCEPT ![p] = "absent"]
         /\ UNCHANGED <<sent, cmdQ, writes, executed>>
<1>1. /\ proc' = [proc EXCEPT ![p] = "absent"]
      /\ UNCHANGED <<sent, cmdQ, writes, executed>>
  BY DEF Client!Remove, Client!GoTo, Client!queueVars
<1>2. /\ chan' \in [Peer -> Seq(Nat)] /\ held' \in [Peer -> Nat]
      /\ poller' \in [Peer -> Polls]
  <2>1. CASE Client!Perish(p)
    BY <2>1, PerishEffect
  <2>2. CASE UNCHANGED <<poller, held, chan>>
    BY <2>2 DEF PeersOK
  <2> QED
    BY <2>1, <2>2 DEF Client!Remove
<1> QED
  BY <1>1, <1>2 DEF PeersOK, Places

(* DEL empties the command list of one peer.                               *)
LEMMA ClearEffect ==
  ASSUME PeersOK, Clear, Head(todo) \in Peer
  PROVE  PeersOK'
BY DEF PeersOK, Clear

(* What a peer SETs.                                                       *)
Words(p) == {Client!Started(p), Client!Bare, Client!Stopped, Client!Restarting}

(* These are statuses, and "started" comes with its multiaddr or with none.*)
LEMMA WordsAre ==
  ASSUME NEW p \in Peer
  PROVE  /\ Words(p) \subseteq Report
         /\ Client!Started(p).base = "started" /\ Client!Started(p).addr = p
         /\ Client!Bare.base = "started"
         /\ Client!Stopped.base = "stopped"
         /\ Client!Restarting.base = "restarting"
BY DEF Words, Report, Client!Started, Client!Bare, Client!Stopped,
       Client!Restarting

(* A peer's own steps send nothing, SET only true statuses, each in its    *)
(* place, start no container, and execute one command at a time.           *)
LEMMA PeerEffect ==
  ASSUME PeersOK, NEW p \in Peer, Client!Step(p) \/ Client!Fault(p)
  PROVE  /\ PeersOK' /\ sent' = sent
         /\ \A q \in Peer : q # p => proc'[q] = proc[q] /\ writes'[q] = writes[q]
         /\ \/ /\ writes'[p] = writes[p]
               /\ proc[p] \in {"dying", "exited", "absent"} =>
                    proc'[p] \in {"dying", "exited", "absent"}
               /\ proc[p] \in {"exited", "absent"} => proc'[p] = proc[p]
               /\ proc'[p] = "absent" => proc[p] = "absent"
            \/ /\ \/ writes'[p] = Append(writes[p], Client!Started(p))
                  \/ writes'[p] = Append(writes[p], Client!Bare)
               /\ proc[p] \in {"ready", "running"} /\ proc'[p] = "running"
            \/ /\ writes'[p] = Append(writes[p], Client!Stopped)
               /\ proc[p] = "halting" /\ proc'[p] = "dying"
            \/ /\ writes'[p] = Append(writes[p], Client!Restarting)
               /\ proc[p] = "rebooting" /\ proc'[p] = "dying42"
<1>0. Words(p) \subseteq Report /\ writes[p] \in Seq(Report)
  BY WordsAre DEF PeersOK
<1>1a. CASE Client!Build(p) \/ Client!Wake(p) \/ Client!SetFails(p)
  BY <1>1a DEF PeersOK, Places, Polls, Client!Build, Client!Wake,
               Client!SetFails, Client!GoTo, Client!queueVars
<1>1b. CASE Client!Forget(p) \/ Client!Reconnect(p)
  BY <1>1b DEF PeersOK, Polls, Client!Forget, Client!Reconnect,
               Client!queueVars
<1>1c. CASE Client!BlpopFails(p)
  <2>1. /\ poller' = [poller EXCEPT ![p] = "broken"]
        /\ UNCHANGED <<sent, writes, proc, held, chan, executed>>
    BY <1>1c DEF Client!BlpopFails
  <2>2. cmdQ' \in [Peer -> Seq(Nat)]
    <3>1. CASE UNCHANGED cmdQ
      BY <3>1 DEF PeersOK
    <3>2. CASE cmdQ[p] # <<>> /\ cmdQ' = [cmdQ EXCEPT ![p] = Tail(@)]
      <4>1. Tail(cmdQ[p]) \in Seq(Nat)
        BY <3>2, Popped DEF PeersOK
      <4> QED
        BY <3>2, <4>1 DEF PeersOK
    <3> QED
      BY <1>1c, <3>1, <3>2 DEF Client!BlpopFails
  <2> QED
    BY <2>1, <2>2 DEF PeersOK, Polls
<1>2a. ASSUME NEW r \in {Client!Started(p), Client!Bare}, Client!Set(p, r)
       PROVE  /\ writes' \in [Peer -> Seq(Report)]
              /\ writes'[p] = Append(writes[p], r)
              /\ \A q \in Peer : q # p => writes'[q] = writes[q]
  <2>1. Append(writes[p], r) \in Seq(Report)
    BY <1>0, Grown DEF Words
  <2> QED
    BY <1>2a, <2>1 DEF PeersOK, Client!Set
<1>2b. CASE Client!ReportStarted(p)
  <2>1. PICK r \in {Client!Started(p), Client!Bare} : Client!Set(p, r)
    BY <1>2b DEF Client!ReportStarted
  <2> QED
    BY <1>2a, <1>2b, <2>1 DEF PeersOK, Places, Client!ReportStarted,
                              Client!GoTo, Client!queueVars
<1>2c. CASE Client!ReportAddr(p)
  <2>1. Client!Set(p, Client!Started(p)) /\ proc[p] = "running" /\ proc' = proc
    BY <1>2c DEF Client!ReportAddr
  <2> QED
    BY <1>2a, <1>2c, <2>1 DEF PeersOK, Client!ReportAddr, Client!queueVars
<1>3. CASE Client!ReportStopped(p)
  <2>1. Append(writes[p], Client!Stopped) \in Seq(Report)
    BY <1>0, Grown DEF Words
  <2> QED
    BY <1>3, <2>1 DEF PeersOK, Places, Client!ReportStopped, Client!Set,
                      Client!GoTo, Client!queueVars
<1>4. CASE Client!ReportRestarting(p)
  <2>1. Append(writes[p], Client!Restarting) \in Seq(Report)
    BY <1>0, Grown DEF Words
  <2> QED
    BY <1>4, <2>1 DEF PeersOK, Places, Client!ReportRestarting, Client!Set,
                      Client!GoTo, Client!queueVars
<1>5. CASE Client!AskNext(p)
  <2>1. CASE cmdQ[p] = <<>>
    BY <1>5, <2>1 DEF PeersOK, Polls, Client!AskNext
  <2>2. CASE cmdQ[p] # <<>>
    <3>1. Head(cmdQ[p]) \in Nat /\ Tail(cmdQ[p]) \in Seq(Nat)
      BY <2>2, Popped DEF PeersOK
    <3> QED
      BY <1>5, <2>2, <3>1 DEF PeersOK, Polls, Client!AskNext
  <2> QED
    BY <2>1, <2>2
<1>6. CASE Client!Forward(p)
  <2>1. Append(chan[p], held[p]) \in Seq(Nat)
    BY DEF PeersOK
  <2> QED
    BY <1>6, <2>1 DEF PeersOK, Polls, Client!Forward, Client!queueVars
<1>7. ASSUME NEW id \in Nat, Client!Execute(p, id)
      PROVE  /\ executed' \in [Peer -> Seq(Nat)] /\ proc' \in [Peer -> Places]
             /\ proc[p] = "running" /\ proc'[p] # "absent"
             /\ \A q \in Peer : q # p => proc'[q] = proc[q]
  <2>1. Client!After(sent[p][id]) \in Places \ {"absent"}
    BY DEF Client!After, Places
  <2>2. Append(executed[p], id) \in Seq(Nat)
    BY DEF PeersOK
  <2> QED
    BY <1>7, <2>1, <2>2 DEF PeersOK, Client!Execute, Client!GoTo
<1>8. CASE Client!TakeFromChan(p)
  <2>1. Head(chan[p]) \in Nat /\ Tail(chan[p]) \in Seq(Nat)
    BY <1>8, Popped DEF PeersOK, Client!TakeFromChan
  <2>2. Client!Execute(p, Head(chan[p]))
    BY <1>8 DEF Client!TakeFromChan
  <2> QED
    BY <1>7, <1>8, <2>1, <2>2
       DEF PeersOK, Client!TakeFromChan, Client!queueVars
<1>9. CASE Client!TakeFromRedis(p)
  <2>1. held[p] \in Nat /\ Client!Execute(p, held[p])
    BY <1>9 DEF PeersOK, Client!TakeFromRedis
  <2> QED
    BY <1>7, <1>9, <2>1
       DEF PeersOK, Polls, Client!TakeFromRedis, Client!queueVars
<1>10. CASE Client!Exit(p)
  BY <1>10, PerishEffect
     DEF PeersOK, Places, Client!Exit, Client!GoTo, Client!queueVars
<1>11. CASE Client!Crash(p)
  BY <1>11, PerishEffect
     DEF PeersOK, Places, Client!Crash, Client!Alive, Client!GoTo,
         Client!queueVars
<1> QED
  BY <1>1a, <1>1b, <1>1c, <1>2b, <1>2c, <1>3, <1>4, <1>5, <1>6, <1>8, <1>9,
     <1>10, <1>11 DEF Client!Step, Client!Fault

(* The lists of the config are lists of peers, pairs and commands.         *)
LEMMA ListsTyped ==
  /\ PeerSeq \in Seq(Peer) /\ BootSeq \in Seq(Peer \X Peer)
  /\ Batches \in Seq(Seq(Peer \X Cmd))
  /\ Len(Batches) \in Nat
BY RunAssumption DEF Cmd

(* Every peer is in the list the loops of main go through.                 *)
LEMMA AllListed == \A p \in Peer : p \in Entries(PeerSeq)
<1> TAKE p \in Peer
<1>1. PICK k \in 1 .. Len(PeerSeq) : PeerSeq[k] = p
  BY RunAssumption
<1> QED
  BY <1>1 DEF Entries

(* The types hold at first.                                                *)
LEMMA TypesInit == ASSUME Init PROVE Types
<1>1. PICK old \in [Peer -> Stale] :
        /\ writes = [p \in Peer |-> IF old[p] = NoRaw THEN <<>> ELSE <<old[p]>>]
        /\ sent = [p \in Peer |->
                     IF old[p] = NoRaw THEN <<>> ELSE <<"shutdown">>]
        /\ cmdQ = [p \in Peer |-> IF old[p] = NoRaw THEN <<>> ELSE <<1>>]
  BY DEF Init
<1>2. writes \in [Peer -> Seq(Report)]
  <2>1. ASSUME NEW p \in Peer
        PROVE  (IF old[p] = NoRaw THEN <<>> ELSE <<old[p]>>) \in Seq(Report)
    <3>1. old[p] = NoRaw \/ old[p] \in Report
      BY StaleAssumption DEF Report
    <3> QED
      BY <3>1
  <2> QED
    BY <1>1, <2>1
<1>3. sent \in [Peer -> Seq(Cmd)] /\ cmdQ \in [Peer -> Seq(Nat)]
  <2>1. /\ <<>> \in Seq(Cmd) /\ <<"shutdown">> \in Seq(Cmd)
        /\ <<>> \in Seq(Nat) /\ <<1>> \in Seq(Nat)
    BY DEF Cmd
  <2> QED
    BY <1>1, <2>1
<1>4. PeersOK
  BY <1>2, <1>3 DEF Init, PeersOK, Client!NoContainers, Places, Polls
<1>5. \A p \in Peer : Len(writes[p]) \in Nat
  BY <1>2
<1> QED
  BY <1>4, <1>5, ListsTyped DEF Init, Types, TypeOK, ListsOK

peerVars == <<sent, cmdQ, writes, proc, poller, held, chan, executed>>

(* A step that leaves the peers alone keeps their types.                   *)
LEMMA PeersSame == ASSUME PeersOK, UNCHANGED peerVars PROVE PeersOK'
BY DEF PeersOK, peerVars

(* The steps of the main task that leave the peers alone.                  *)
Quiet ==
  \/ StartRedis \/ SetUp \/ SetUpDone \/ ClearDone \/ Spawn
  \/ StartExpired \/ StartTop \/ StartCheck \/ BootWait \/ BootDone
  \/ Tick \/ NextBatch \/ AllSent \/ NoKey \/ AutoShutdown \/ AutoCheck
  \/ ShutdownDone \/ StopExpired \/ StopTop \/ StopCheck \/ Joined
  \/ StopRedis \/ Drop
  \/ Signal \/ SignalBranch \/ Quit \/ Clock \/ BatchDue
  \/ Failure
  \/ \E p \in Peer : Observe(p) \/ MonitorStops(p)

(* The steps called quiet leave the peers alone.                           *)
LEMMA QuietEffect == ASSUME Quiet PROVE UNCHANGED peerVars
<1> USE DEF peerVars, clientVars
<1>1. CASE StartRedis \/ SetUp \/ SetUpDone \/ ClearDone \/ Spawn
           \/ StartExpired \/ StartTop \/ StartCheck \/ BootWait \/ BootDone
  BY <1>1 DEF StartRedis, SetUp, SetUpDone, ClearDone, Spawn, StartExpired,
              StartTop, StartCheck, BootWait, BootDone
<1>2. CASE Tick \/ NextBatch \/ AllSent \/ NoKey \/ AutoShutdown \/ AutoCheck
           \/ ShutdownDone \/ StopExpired \/ StopTop \/ StopCheck
  BY <1>2 DEF Tick, NextBatch, AllSent, NoKey, AutoShutdown, AutoCheck,
              ShutdownDone, StopExpired, StopTop, StopCheck
<1>3. CASE Joined \/ StopRedis \/ Drop \/ Signal \/ SignalBranch \/ Quit
           \/ Clock \/ BatchDue
  BY <1>3 DEF Joined, StopRedis, Drop, Signal, SignalBranch, Quit, Clock,
              BatchDue
<1>4. CASE Failure
  BY <1>4 DEF Failure, Fails, RedisFails, SetUpFails, ClearFails, LaunchFails,
              BootFails, PushFails, TuiFails, RenderPanics, RemoveFails,
              MonitorDies
<1>5. ASSUME NEW p \in Peer, Observe(p) \/ MonitorStops(p)
      PROVE  UNCHANGED peerVars
  BY <1>5 DEF Observe, MonitorStops
<1> QED
  BY <1>1, <1>2, <1>3, <1>4, <1>5 DEF Quiet

(* The steps that do not: what each means for the peers.                   *)
LEMMA NextSplit ==
  ASSUME Next
  PROVE  \/ Quiet \/ Clear \/ Launch \/ BootSend \/ SendOne \/ ShutdownOne
         \/ Remove \/ \E p \in Peer : PeerStep(p)
BY DEF Next, Main, User, Quiet

ViewOK ==
  /\ monitor \in [Peer -> {"none", "up", "gone"}]
  /\ seen \in [Peer -> Nat] /\ \A p \in Peer : seen[p] <= Len(writes[p])
  /\ status \in [Peer -> {"unknown", "started", "restarting", "stopped"}]
  /\ info \in [Peer -> Peer \cup {OldAddr, NoAddr}]

RunOK ==
  /\ redis \in {"none", "created", "up"}
  /\ main \in {"redis", "setUp", "clear", "launch", "startTop", "startCheck",
               "bootWait", "bootSend", "run", "send", "input", "auto",
               "shutdown", "stopTop", "stopCheck", "join", "remove", "drop",
               "exited"}
  /\ then \in {"none", "cleanup", "drain", "auto"}
  /\ deadline \in {"off", "armed", "passed"}
  /\ batch \in 1 .. Len(Batches) + 1 /\ due \in 0 .. Len(Batches)
  /\ outcome \in {"none", "ok", "failed"}
  /\ told \subseteq Peer \X Peer \X (Peer \cup {OldAddr})
  /\ gaveUp \subseteq {"startup", "bootstrap", "shutdown"}

(* The types of the peers, the view, the run and its loops are all of them.*)
LEMMA TypesParts == Types <=> PeersOK /\ ViewOK /\ RunOK /\ ListsOK
BY DEF Types, TypeOK, ViewOK, RunOK

(* The view.                                                               *)
LEMMA ObserveEffect ==
  ASSUME Types, NEW p \in Peer, Observe(p)
  PROVE  /\ ViewOK' /\ UNCHANGED <<monitor, main, todo, runVars, histVars>>
         /\ \A q \in Peer :
              q # p => /\ seen'[q] = seen[q] /\ status'[q] = status[q]
                       /\ info'[q] = info[q]
         /\ seen'[p] > seen[p] /\ seen'[p] \in 1 .. Len(writes[p])
         /\ status'[p] = writes[p][seen'[p]].base
         /\ info'[p] = IF /\ writes[p][seen'[p]].base = "started"
                          /\ writes[p][seen'[p]].addr # NoAddr
                       THEN writes[p][seen'[p]].addr ELSE info[p]
<1>1. PICK i \in (seen[p] + 1) .. Len(writes[p]) :
        /\ seen' = [seen EXCEPT ![p] = i]
        /\ status' = [status EXCEPT ![p] = writes[p][i].base]
        /\ info' = [info EXCEPT ![p] = View(p)!InfoAfter(writes[p][i], @)]
        /\ UNCHANGED <<writes, monitor, main, todo, runVars, histVars>>
  BY DEF Observe, clientVars
<1>2. /\ seen[p] \in Nat /\ Len(writes[p]) \in Nat /\ writes[p] \in Seq(Report)
  BY DEF Types, TypeOK, PeersOK
<1>3. i \in 1 .. Len(writes[p]) /\ i > seen[p] /\ i \in Nat
  BY <1>2
<1>4. writes[p][i] \in Report
  BY <1>2, <1>3
<1>5. View(p)!InfoAfter(writes[p][i], info[p])
        = IF writes[p][i].base = "started" /\ writes[p][i].addr # NoAddr
          THEN writes[p][i].addr ELSE info[p]
  BY DEF View!InfoAfter
<1>6. /\ writes[p][i].base \in {"started", "restarting", "stopped"}
      /\ writes[p][i].addr \in Peer \cup {OldAddr, NoAddr}
  BY <1>4 DEF Report
<1>7. /\ seen' \in [Peer -> Nat] /\ \A q \in Peer : seen'[q] <= Len(writes'[q])
      /\ seen'[p] = i /\ \A q \in Peer : q # p => seen'[q] = seen[q]
  BY <1>1, <1>2, <1>3 DEF Types, TypeOK
<1>8. /\ status' \in [Peer -> {"unknown", "started", "restarting", "stopped"}]
      /\ status'[p] = writes[p][i].base
      /\ \A q \in Peer : q # p => status'[q] = status[q]
  BY <1>1, <1>6 DEF Types, TypeOK
<1>9. /\ info' \in [Peer -> Peer \cup {OldAddr, NoAddr}]
      /\ info'[p] = View(p)!InfoAfter(writes[p][i], info[p])
      /\ \A q \in Peer : q # p => info'[q] = info[q]
  BY <1>1, <1>5, <1>6 DEF Types, TypeOK
<1> QED
  BY <1>1, <1>3, <1>5, <1>7, <1>8, <1>9 DEF ViewOK, Types, TypeOK

(* Every step keeps the types of the view.                                 *)
LEMMA ViewStep ==
  ASSUME Types, Quiet
  PROVE  ViewOK'
<1> USE DEF ViewOK, Types, TypeOK
<1>1. UNCHANGED writes
  BY QuietEffect DEF peerVars
<1>2. CASE viewVars' = viewVars
  BY <1>1, <1>2 DEF viewVars
<1>3. CASE Spawn \/ Drop
  BY <1>1, <1>3 DEF Spawn, Drop
<1>4. ASSUME NEW p \in Peer, MonitorStops(p) \/ MonitorDies(p) PROVE ViewOK'
  BY <1>1, <1>4 DEF MonitorStops, MonitorDies
<1>5. ASSUME NEW p \in Peer, Observe(p) PROVE ViewOK'
  BY <1>5, ObserveEffect
<1> HIDE DEF ViewOK, Types, TypeOK
<1>6. CASE StartRedis \/ SetUp \/ SetUpDone \/ ClearDone
           \/ StartExpired \/ StartTop \/ StartCheck \/ BootWait \/ BootDone
           \/ Tick \/ NextBatch \/ AllSent \/ NoKey \/ AutoShutdown
           \/ AutoCheck \/ ShutdownDone \/ StopExpired \/ StopTop \/ StopCheck
  BY <1>2, <1>6
     DEF StartRedis, SetUp, SetUpDone, ClearDone, StartExpired, StartTop,
         StartCheck, BootWait, BootDone, Tick, NextBatch, AllSent, NoKey,
         AutoShutdown, AutoCheck, ShutdownDone, StopExpired, StopTop, StopCheck
<1>7. CASE Joined \/ StopRedis \/ Signal \/ SignalBranch \/ Quit \/ Clock
           \/ BatchDue
  BY <1>2, <1>7 DEF Joined, StopRedis, Signal, SignalBranch, Quit, Clock,
                    BatchDue
<1>8. CASE Failure
  BY <1>2, <1>4, <1>8
     DEF Failure, Bail, RedisFails, SetUpFails, ClearFails, LaunchFails, BootFails,
         PushFails, TuiFails, RenderPanics, RemoveFails
<1> QED
  BY <1>3, <1>4, <1>5, <1>6, <1>7, <1>8 DEF Quiet

(* The main task.                                                          *)
LEMMA NextItemLists ==
  ASSUME ListsOK, todo # <<>>, NextItem, then' = then
  PROVE  ListsOK'
BY Popped DEF ListsOK, NextItem

(* What the main task leaves alone keeps its type.                         *)
LEMMA RunStands ==
  ASSUME RunOK, UNCHANGED <<main, runVars, told, gaveUp>>
  PROVE  RunOK'
<1>1. UNCHANGED <<main, redis, then, deadline, batch, due, outcome, told, gaveUp>>
  BY DEF runVars
<1> QED
  BY <1>1 DEF RunOK

LEMMA ListsStand ==
  ASSUME ListsOK, UNCHANGED <<main, todo, then>>
  PROVE  ListsOK'
BY DEF ListsOK

(* The quiet steps keep the types of the main task.                        *)
LEMMA RunStep ==
  ASSUME Types, Quiet
  PROVE  RunOK' /\ ListsOK'
<1>0. RunOK /\ ListsOK
  BY TypesParts
<1> USE <1>0 DEF RunOK
<1>1. CASE SetUp \/ PushFails \/ RemoveFails
  <2>1. RunOK'
    <3>1. UNCHANGED <<main, runVars, told, gaveUp>>
      BY <1>1 DEF SetUp, PushFails, RemoveFails, Fails, NextItem, histVars
    <3> QED
      BY <3>1, RunStands
  <2>2. todo # <<>> /\ NextItem
    BY <1>1 DEF SetUp, PushFails, RemoveFails, At
  <2> QED
    BY <1>1, <2>1, <2>2, NextItemLists
       DEF SetUp, PushFails, RemoveFails, runVars
<1>2. CASE StartRedis \/ RedisFails \/ SetUpDone \/ ClearDone \/ Spawn
  <2>1. CASE StartRedis \/ RedisFails
    BY <2>1 DEF StartRedis, RedisFails, GoTo, Fails, ListsOK, histVars
  <2>2. CASE SetUpDone \/ ClearDone \/ Spawn
    BY <2>2, ListsTyped
       DEF SetUpDone, ClearDone, Spawn, GoTo, ListsOK, runVars, histVars
  <2> QED
    BY <1>2, <2>1, <2>2
<1>3a. CASE StartExpired
  BY <1>3a, ListsTyped DEF StartExpired, GoTo, ListsOK, runVars, histVars
<1>3b. CASE StartTop \/ BootDone
  BY <1>3b DEF StartTop, BootDone, GoTo, ListsOK, runVars, histVars
<1>3c. CASE StartCheck
  BY <1>3c DEF StartCheck, GoTo, ListsOK, runVars, histVars
<1>3d. CASE BootWait
  BY <1>3d, ListsTyped DEF BootWait, GoTo, ListsOK, runVars, histVars
<1>4a. CASE Tick \/ AllSent
  <2>1. CASE Tick
    BY <2>1 DEF Tick, GoTo, ListsOK, runVars, histVars
  <2>2. CASE AllSent
    BY <2>2 DEF AllSent, GoTo, ListsOK, runVars, histVars
  <2> QED
    BY <1>4a, <2>1, <2>2
<1>4b. CASE NoKey \/ Quit \/ SignalBranch
  BY <1>4b, ListsTyped
     DEF NoKey, Quit, SignalBranch, GoTo, ListsOK, histVars
<1>5. CASE NextBatch
  <2>1. batch \in 1 .. Len(Batches) /\ Len(Batches) \in Nat
    BY <1>5, ListsTyped DEF NextBatch
  <2>2. Batches[batch] \in Seq(Peer \X Cmd)
    BY <2>1, ListsTyped
  <2> QED
    BY <1>5, <2>1, <2>2 DEF NextBatch, GoTo, ListsOK, histVars
<1>6. CASE AutoShutdown \/ AutoCheck
  BY <1>6, ListsTyped
     DEF AutoShutdown, AutoCheck, GoTo, ListsOK, runVars, histVars
<1>7a. CASE ShutdownDone
  <2>1. main' \in {"join", "stopTop", "auto"}
    BY <1>7a DEF ShutdownDone, GoTo, Done, ListsOK
  <2> QED
    BY <1>7a, <2>1 DEF ShutdownDone, GoTo, ListsOK, histVars
<1>7b. CASE StopExpired \/ StopTop \/ StopCheck
  BY <1>7b DEF StopExpired, StopTop, StopCheck, GoTo, ListsOK, runVars, histVars
<1>8a. CASE Joined
  <2>1. RunOK'
    BY <1>8a DEF Joined, GoTo, runVars, histVars
  <2>2. ListsOK'
    BY <1>8a, ListsTyped DEF Joined, GoTo, ListsOK
  <2> QED
    BY <2>1, <2>2
<1>8c. CASE Signal \/ Clock \/ BatchDue
  <2>1. RunOK'
    <3>1. CASE Signal
      BY <3>1 DEF Signal, histVars
    <3>2. CASE Clock
      BY <3>2 DEF Clock, histVars
    <3>3. CASE BatchDue
      <4>1. due' \in 0 .. Len(Batches)
        BY <3>3, ListsTyped DEF BatchDue
      <4>2. UNCHANGED <<main, redis, then, deadline, batch, outcome, told, gaveUp>>
        BY <3>3 DEF BatchDue, histVars
      <4> QED
        BY <4>1, <4>2
    <3> QED
      BY <1>8c, <3>1, <3>2, <3>3
  <2>2. UNCHANGED <<main, todo, then>>
    BY <1>8c DEF Signal, Clock, BatchDue
  <2> QED
    BY <2>1, <2>2, ListsStand
<1>8b. CASE StopRedis \/ Drop
  BY <1>8b DEF StopRedis, Drop, RemoveRedis, GoTo, ListsOK
<1>9. ASSUME Bail, UNCHANGED <<told, gaveUp>> PROVE RunOK' /\ ListsOK'
  BY <1>9 DEF Bail, GoTo, ListsOK
<1>10. CASE SetUpFails \/ ClearFails \/ LaunchFails \/ BootFails
            \/ RenderPanics
  <2>1. Bail /\ UNCHANGED <<told, gaveUp>>
    BY <1>10 DEF SetUpFails, ClearFails, LaunchFails, BootFails, RenderPanics,
                 Fails
  <2> QED
    BY <2>1, <1>9
<1>11. CASE TuiFails
  BY <1>11 DEF TuiFails, Fails, GoTo, ListsOK
<1>12. ASSUME NEW p \in Peer, Observe(p) \/ MonitorStops(p) \/ MonitorDies(p)
       PROVE  RunOK' /\ ListsOK'
  <2>1. UNCHANGED <<main, todo, runVars, told, gaveUp>>
    BY <1>12 DEF Observe, MonitorStops, MonitorDies, Fails, histVars
  <2>2. UNCHANGED <<main, todo, then>>
    BY <2>1 DEF runVars
  <2> QED
    BY <2>1, <2>2, RunStands, ListsStand
<1> QED
  BY <1>1, <1>2, <1>3a, <1>3b, <1>3c, <1>3d, <1>4a, <1>4b, <1>5, <1>6,
     <1>7a, <1>7b, <1>8a, <1>8b, <1>8c, <1>10, <1>11, <1>12
     DEF Quiet, Failure

(* The steps of the main task that act on one peer.                        *)
LEMMA ActOnPeer ==
  ASSUME Types, NEW p \in Peer, Client!Launch(p) \/ Client!Remove(p),
         todo # <<>>, NextItem, UNCHANGED <<viewVars, runVars, histVars>>
  PROVE  Types'
<1>1. PeersOK' /\ writes' = writes
  BY LaunchEffect, RemoveEffect DEF Types
<1>2. ListsOK'
  BY NextItemLists DEF Types, runVars
<1> QED
  BY <1>1, <1>2 DEF NextItem, viewVars, runVars, histVars, Types, TypeOK

(* So does one LPUSH of a loop.                                            *)
LEMMA PushOne ==
  ASSUME Types, NEW p \in Peer, NEW c \in Cmd, Client!Push(p, c),
         todo # <<>>, NextItem, UNCHANGED <<viewVars, runVars, histVars>>
  PROVE  Types'
<1>1. PeersOK' /\ writes' = writes
  BY PushEffect DEF Types
<1>2. ListsOK'
  BY NextItemLists DEF Types, runVars
<1> QED
  BY <1>1, <1>2 DEF NextItem, viewVars, runVars, histVars, Types, TypeOK

(* The head of a loop is of the kind its phase goes through.               *)
LEMMA HeadOfLoop ==
  ASSUME Types, todo # <<>>
  PROVE  /\ main \in {"clear", "launch", "shutdown", "remove"} =>
              Head(todo) \in Peer
         /\ main = "bootSend" => Head(todo)[1] \in Peer /\ Head(todo)[2] \in Peer
         /\ main = "send" => Head(todo)[1] \in Peer /\ Head(todo)[2] \in Cmd
BY Popped DEF Types, ListsOK

(* The address told is the one known of the bootstrap peer.                *)
LEMMA BootSendEffect ==
  ASSUME Types, BootSend
  PROVE  /\ main = "bootSend" /\ todo # <<>> /\ NextItem
         /\ Head(todo)[1] \in Peer /\ Head(todo)[2] \in Peer
         /\ UNCHANGED <<viewVars, runVars, oldSent, oldWrites, tui, gaveUp,
                        failed>>
         /\ PeersOK' /\ UNCHANGED <<writes, proc>>
         /\ \/ info[Head(todo)[2]] = NoAddr /\ UNCHANGED <<clientVars, told>>
            \/ /\ info[Head(todo)[2]] # NoAddr
               /\ Client!Push(Head(todo)[1], "other")
               /\ told' = told \cup {<<Head(todo)[1], Head(todo)[2],
                                       info[Head(todo)[2]]>>}
<1>1. /\ main = "bootSend" /\ todo # <<>> /\ NextItem
      /\ UNCHANGED <<viewVars, runVars, oldSent, oldWrites, tui, gaveUp, failed>>
  BY DEF BootSend, At
<1>2. Head(todo)[1] \in Peer /\ Head(todo)[2] \in Peer
  BY <1>1, HeadOfLoop
<1>3. CASE info[Head(todo)[2]] = NoAddr
  <2>1. UNCHANGED <<clientVars, told>>
    BY <1>3 DEF BootSend
  <2>2. PeersOK'
    BY <2>1, PeersSame DEF clientVars, peerVars, Types
  <2> QED
    BY <1>1, <1>2, <1>3, <2>1, <2>2 DEF clientVars
<1>4. CASE info[Head(todo)[2]] # NoAddr
  <2>1. /\ Client!Push(Head(todo)[1], "other")
        /\ told' = told \cup {<<Head(todo)[1], Head(todo)[2],
                                info[Head(todo)[2]]>>}
    BY <1>4 DEF BootSend
  <2>2. PeersOK' /\ UNCHANGED <<writes, proc>>
    BY <1>2, <2>1, PushEffect DEF Cmd, Types
  <2> QED
    BY <1>1, <1>2, <1>4, <2>1, <2>2
<1> QED
  BY <1>3, <1>4

(* Every step of a run keeps the types.                                    *)
LEMMA TypesStep == ASSUME Types, [Next]_vars PROVE Types'
<1>0. CASE UNCHANGED vars
  <2>1. PeersOK'
    BY <1>0, PeersSame DEF Types, vars, clientVars, peerVars
  <2>2. TypeOK' /\ ListsOK'
    BY <1>0 DEF Types, TypeOK, ListsOK, vars, clientVars, viewVars, runVars,
                histVars
  <2> QED
    BY <2>1, <2>2 DEF Types
<1>1. CASE Quiet
  <2>1. PeersOK'
    BY <1>1, QuietEffect, PeersSame DEF Types
  <2> QED
    BY <1>1, <2>1, ViewStep, RunStep, TypesParts
       DEF Types, TypeOK, ViewOK, RunOK
<1>2. CASE Clear
  <2>1. todo # <<>> /\ Head(todo) \in Peer /\ NextItem
    BY <1>2, HeadOfLoop DEF Clear, At
  <2>2. PeersOK' /\ ListsOK'
    BY <1>2, <2>1, ClearEffect, NextItemLists DEF Types, Clear, runVars
  <2> QED
    BY <1>2, <2>1, <2>2
       DEF Clear, NextItem, viewVars, runVars, histVars, Types, TypeOK
<1>3. CASE Launch
  BY <1>3, HeadOfLoop, ActOnPeer DEF Launch, At
<1>4. CASE BootSend
  <2>1. /\ todo # <<>> /\ NextItem /\ PeersOK' /\ writes' = writes
        /\ UNCHANGED <<viewVars, runVars, oldSent, oldWrites, tui, gaveUp>>
        /\ told' \subseteq told \cup {<<Head(todo)[1], Head(todo)[2],
                                        info[Head(todo)[2]]>>}
        /\ info[Head(todo)[2]] = NoAddr => told' = told
        /\ Head(todo)[1] \in Peer /\ Head(todo)[2] \in Peer
    BY <1>4, BootSendEffect
  <2>2. told' \subseteq Peer \X Peer \X (Peer \cup {OldAddr})
    <3>1. info[Head(todo)[2]] \in Peer \cup {OldAddr, NoAddr}
      BY <2>1 DEF Types, TypeOK
    <3> QED
      BY <2>1, <3>1 DEF Types, TypeOK
  <2>3. ListsOK'
    BY <2>1, NextItemLists DEF Types, runVars
  <2> QED
    BY <2>1, <2>2, <2>3 DEF NextItem, viewVars, runVars, Types, TypeOK
<1>5. CASE SendOne
  BY <1>5, HeadOfLoop, PushOne DEF SendOne, At
<1>6. CASE ShutdownOne
  BY <1>6, HeadOfLoop, PushOne DEF ShutdownOne, At, Cmd
<1>7. CASE Remove
  BY <1>7, HeadOfLoop, ActOnPeer DEF Remove, At
<1>8. ASSUME NEW p \in Peer, PeerStep(p) PROVE Types'
  <2>1. /\ PeersOK' /\ UNCHANGED <<viewVars, main, todo, runVars, histVars>>
        /\ \A q \in Peer : Len(writes[q]) <= Len(writes'[q])
                           /\ Len(writes[q]) \in Nat /\ Len(writes'[q]) \in Nat
    <3>1. /\ PeersOK'
          /\ \A q \in Peer : \/ writes'[q] = writes[q]
                             \/ \E r \in Report : writes'[q] = Append(writes[q], r)
      BY <1>8, WordsAre, PeerEffect DEF PeerStep, Types, Words
    <3>2. \A q \in Peer : writes[q] \in Seq(Report) /\ writes'[q] \in Seq(Report)
      BY <3>1 DEF Types, PeersOK
    <3>3. ASSUME NEW q \in Peer
          PROVE  /\ Len(writes[q]) <= Len(writes'[q])
                 /\ Len(writes[q]) \in Nat /\ Len(writes'[q]) \in Nat
      BY <3>1, <3>2, Grown
    <3> QED
      BY <1>8, <3>1, <3>3 DEF PeerStep
  <2>2. ViewOK'
    BY <2>1, TypesParts DEF ViewOK, viewVars
  <2>3. RunOK'
    BY <2>1, TypesParts, RunStands DEF histVars
  <2>4. ListsOK'
    BY <2>1, TypesParts, ListsStand DEF runVars
  <2>5. PeersOK' /\ ViewOK' /\ RunOK' /\ ListsOK' => Types'
    BY DEF Types, TypeOK, ViewOK, RunOK
  <2> QED
    BY <2>1, <2>2, <2>3, <2>4, <2>5
<1> QED
  BY <1>0, <1>1, <1>2, <1>3, <1>4, <1>5, <1>6, <1>7, <1>8, NextSplit

(* The state of a run is always well formed.                               *)
THEOREM RunTypes == Spec => []TypeOK
<1>1. Types => TypeOK
  BY DEF Types
<1> QED
  BY TypesInit, TypesStep, <1>1, PTL DEF Spec

-----------------------------------------------------------------------------
(* What one step of a run may change of one peer.                          *)

Over(p) == proc[p] \in {"dying", "exited", "absent"}

(* It starts the container, which only the phase launch does, or a step of *)
(* the peer is taken, or the container is removed.                         *)
LEMMA OnePeer ==
  ASSUME Types, [Next]_vars, NEW q \in Peer
  PROVE  /\ sent'[q] = sent[q] \/ \E c \in Cmd : sent'[q] = Append(sent[q], c)
         /\ \/ /\ writes'[q] = writes[q]
               /\ Over(q) /\ main # "launch" => Over(q)'
               /\ proc[q] \in {"exited", "absent"} /\ main # "launch" =>
                    proc'[q] \in {"exited", "absent"}
               /\ proc'[q] = "absent" =>
                    proc[q] = "absent" \/ main = "remove"
               /\ proc[q] = "absent" =>
                    proc'[q] = "absent" \/ main = "launch"
            \/ /\ \/ writes'[q] = Append(writes[q], Client!Started(q))
                  \/ writes'[q] = Append(writes[q], Client!Bare)
               /\ proc[q] \in {"ready", "running"} /\ proc'[q] = "running"
            \/ /\ writes'[q] = Append(writes[q], Client!Stopped)
               /\ proc[q] = "halting" /\ proc'[q] = "dying"
            \/ /\ writes'[q] = Append(writes[q], Client!Restarting)
               /\ proc[q] = "rebooting" /\ proc'[q] = "dying42"
<1>1. CASE UNCHANGED <<sent, writes, proc>>
  BY <1>1 DEF Over
<1>2. CASE UNCHANGED vars \/ Quiet \/ Clear
  <2>1. UNCHANGED <<sent, writes, proc>>
    BY <1>2, QuietEffect DEF vars, clientVars, peerVars, Clear
  <2> QED
    BY <1>1, <2>1
<1>3. ASSUME NEW p \in Peer, NEW c \in Cmd, Client!Push(p, c)
      PROVE  /\ UNCHANGED <<writes, proc>>
             /\ sent'[q] = sent[q] \/ \E d \in Cmd : sent'[q] = Append(sent[q], d)
  BY <1>3, PushEffect DEF Types, PeersOK
<1>4. CASE BootSend
  <2>1. CASE UNCHANGED clientVars
    BY <1>1, <2>1 DEF clientVars
  <2>2. CASE Client!Push(Head(todo)[1], "other")
    BY <1>3, <1>4, <2>2, BootSendEffect DEF Cmd, Over
  <2> QED
    BY <1>4, <2>1, <2>2, BootSendEffect
<1>5. CASE SendOne \/ ShutdownOne
  <2>1. PICK p \in Peer, c \in Cmd : Client!Push(p, c)
    BY <1>5, HeadOfLoop DEF SendOne, ShutdownOne, At, Cmd
  <2> QED
    BY <1>3, <2>1 DEF Over
<1>6. CASE Launch
  <2>1. main = "launch" /\ Head(todo) \in Peer /\ Client!Launch(Head(todo))
    BY <1>6, HeadOfLoop DEF Launch, At
  <2> QED
    BY <2>1, LaunchEffect DEF Types, PeersOK
<1>7. CASE Remove
  <2>1. main = "remove" /\ Head(todo) \in Peer /\ Client!Remove(Head(todo))
    BY <1>7, HeadOfLoop DEF Remove, At
  <2> QED
    BY <2>1, RemoveEffect DEF Types, PeersOK, Over
<1>8. ASSUME NEW p \in Peer, PeerStep(p), p # q
      PROVE  UNCHANGED sent /\ writes'[q] = writes[q] /\ proc'[q] = proc[q]
  BY <1>8, PeerEffect DEF PeerStep, Types
<1>9. CASE PeerStep(q)
  BY <1>9, PeerEffect DEF PeerStep, Types, Over
<1> QED
  BY <1>2, <1>4, <1>5, <1>6, <1>7, <1>8, <1>9, NextSplit DEF Over

(* A container is launched where there is none.                            *)
LEMMA LaunchedOnly ==
  ASSUME Types, [Next]_vars, main = "launch", NEW q \in Peer,
         proc[q] \in {"dying", "exited"}
  PROVE  proc'[q] \in {"dying", "exited", "absent"}
<1>1. CASE UNCHANGED vars \/ Quiet \/ Clear
  BY <1>1, QuietEffect DEF vars, clientVars, peerVars, Clear
<1>2. CASE Launch
  <2>1. PICK h \in Peer : h = Head(todo) /\ Client!Launch(h)
    BY <1>2, HeadOfLoop DEF Launch, At
  <2>2. proc' = [proc EXCEPT ![h] = "boot"] /\ proc[h] = "absent"
    BY <2>1, LaunchEffect DEF Types, Client!Launch
  <2> QED
    BY <2>2 DEF Types, PeersOK
<1>3. CASE BootSend \/ SendOne \/ ShutdownOne \/ Remove
  BY <1>3 DEF BootSend, SendOne, ShutdownOne, Remove, At
<1>4. ASSUME NEW p \in Peer, PeerStep(p)
      PROVE  proc'[q] \in {"dying", "exited", "absent"}
  BY <1>4, PeerEffect DEF PeerStep, Types
<1> QED
  BY <1>1, <1>2, <1>3, <1>4, NextSplit

(* What a peer has SET, and was sent, stays.                               *)
LEMMA OldStays ==
  ASSUME Types, [Next]_vars, NEW q \in Peer
  PROVE  /\ Len(sent[q]) \in Nat /\ Len(sent'[q]) \in Nat
         /\ Len(sent[q]) <= Len(sent'[q])
         /\ \A k \in 1 .. Len(sent[q]) : sent'[q][k] = sent[q][k]
         /\ Len(writes[q]) \in Nat /\ Len(writes'[q]) \in Nat
         /\ Len(writes[q]) <= Len(writes'[q])
         /\ \A k \in 1 .. Len(writes[q]) : writes'[q][k] = writes[q][k]
<1>1. /\ sent[q] \in Seq(Cmd) /\ writes[q] \in Seq(Report)
      /\ Words(q) \subseteq Report
  BY WordsAre DEF Types, PeersOK
<1>2. /\ Len(sent[q]) \in Nat /\ Len(sent'[q]) \in Nat
      /\ Len(sent[q]) <= Len(sent'[q])
      /\ \A k \in 1 .. Len(sent[q]) : sent'[q][k] = sent[q][k]
  <2>1. CASE sent'[q] = sent[q]
    BY <1>1, <2>1
  <2>2. ASSUME NEW c \in Cmd, sent'[q] = Append(sent[q], c)
        PROVE  /\ Len(sent'[q]) = Len(sent[q]) + 1 /\ Len(sent[q]) \in Nat
               /\ \A k \in 1 .. Len(sent[q]) : sent'[q][k] = sent[q][k]
    BY <1>1, <2>2, Grown
  <2> QED
    BY <2>1, <2>2, OnePeer
<1>3. /\ Len(writes[q]) \in Nat /\ Len(writes'[q]) \in Nat
      /\ Len(writes[q]) <= Len(writes'[q])
      /\ \A k \in 1 .. Len(writes[q]) : writes'[q][k] = writes[q][k]
  <2>1. CASE writes'[q] = writes[q]
    BY <1>1, <2>1
  <2>2. ASSUME NEW r \in Report, writes'[q] = Append(writes[q], r)
        PROVE  /\ Len(writes'[q]) = Len(writes[q]) + 1 /\ Len(writes[q]) \in Nat
               /\ \A k \in 1 .. Len(writes[q]) : writes'[q][k] = writes[q][k]
    BY <1>1, <2>2, Grown
  <2>3. writes'[q] = writes[q] \/ \E r \in Report : writes'[q] = Append(writes[q], r)
    BY <1>1, OnePeer DEF Words
  <2> QED
    BY <2>1, <2>2, <2>3
<1> QED
  BY <1>2, <1>3

(* What was in Redis at the start is a constant of the run, a call that    *)
(* failed has failed, and a wait that timed out has done so.               *)
LEMMA HistoryStays ==
  ASSUME Types, [Next]_vars
  PROVE  /\ UNCHANGED <<oldSent, oldWrites, tui>>
         /\ failed \subseteq failed'
         /\ gaveUp \subseteq gaveUp'
<1> USE DEF histVars
<1>1. CASE UNCHANGED vars \/ Clear \/ Launch \/ BootSend \/ SendOne
           \/ ShutdownOne \/ Remove
  BY <1>1 DEF vars, Clear, Launch, BootSend, SendOne, ShutdownOne, Remove
<1>2. ASSUME NEW p \in Peer, PeerStep(p) \/ Observe(p) \/ MonitorStops(p)
      PROVE  UNCHANGED histVars
  BY <1>2 DEF PeerStep, Observe, MonitorStops
<1>3. CASE StartRedis \/ SetUp \/ SetUpDone \/ ClearDone \/ Spawn
           \/ StartExpired \/ StartTop \/ StartCheck \/ BootWait \/ BootDone
  BY <1>3 DEF StartRedis, SetUp, SetUpDone, ClearDone, Spawn, StartExpired,
              StartTop, StartCheck, BootWait, BootDone
<1>4. CASE Tick \/ NextBatch \/ AllSent \/ NoKey \/ AutoShutdown \/ AutoCheck
           \/ ShutdownDone \/ StopExpired \/ StopTop \/ StopCheck
  BY <1>4 DEF Tick, NextBatch, AllSent, NoKey, AutoShutdown, AutoCheck,
              ShutdownDone, StopExpired, StopTop, StopCheck
<1>5. CASE Joined \/ StopRedis \/ Drop \/ Signal \/ SignalBranch \/ Quit
           \/ Clock \/ BatchDue
  BY <1>5 DEF Joined, StopRedis, Drop, RemoveRedis, Signal, SignalBranch, Quit,
              Clock, BatchDue
<1>6. CASE Failure
  BY <1>6 DEF Failure, Fails, RedisFails, SetUpFails, ClearFails, LaunchFails,
              BootFails, PushFails, TuiFails, RenderPanics, RemoveFails,
              MonitorDies
<1> QED
  BY <1>1, <1>2, <1>3, <1>4, <1>5, <1>6, NextSplit DEF Quiet

-----------------------------------------------------------------------------
(* What is left behind.                                                    *)

Early == main \in {"redis", "setUp", "clear"}

(* A container of a peer that is left behind at the end of main.           *)
LeftBehind ==
  \/ \A p \in Peer : ~Client!Up(p)
  \/ "remove" \in failed
  \/ outcome = "failed" /\ failed \cap {"launch", "bootstrap", "render"} # {}

(* Before the first launch there is no container; from then on the loop    *)
(* that removes them has the rest before it.  Where main ends, tm-redis is *)
(* up only if cleanup failed to remove it or was not reached, and once the *)
(* program is over, only if Drop failed to remove it as well.              *)
LeakInv ==
  /\ redis = "created" => "redis" \in failed
  /\ main = "drop" => redis # "up" \/ "stopRedis" \in failed \/ EndedEarly
  /\ main = "exited" =>
       \/ redis # "up"
       \/ "dropRedis" \in failed /\ ("stopRedis" \in failed \/ EndedEarly)
  /\ Early => \A p \in Peer : proc[p] = "absent"
  /\ main = "remove" =>
       "remove" \in failed \/ \A p \in Peer : Client!Up(p) => p \in Entries(todo)
  /\ main \in {"drop", "exited"} => LeftBehind

(* Only the phase launch creates a container.                              *)
LEMMA NoneComesUp ==
  ASSUME Types, [Next]_vars, main # "launch", NEW p \in Peer, Client!Up(p)'
  PROVE  Client!Up(p)
BY OnePeer DEF Client!Up

(* Before the phase launch no peer appears.                                *)
LEMMA StaysAbsent ==
  ASSUME Types, [Next]_vars, main # "launch",
         \A p \in Peer : proc[p] = "absent"
  PROVE  \A p \in Peer : proc'[p] = "absent"
BY OnePeer

(* Who ends the run, and how.                                              *)
LEMMA HowItEnds ==
  ASSUME Types, LeakInv, [Next]_vars
  PROVE  /\ main' \in {"drop", "exited"} =>
              \/ main \in {"drop", "exited"} /\ UNCHANGED outcome
              \/ Early
              \/ main = "remove" /\ todo = <<>>
              \/ /\ outcome' = "failed"
                 /\ failed' \cap {"launch", "bootstrap", "render"} # {}
         /\ Early' => Early
         /\ main' = "remove" =>
              \/ main = "join" /\ todo' = PeerSeq
              \/ main = "remove" /\ "remove" \in failed'
              \/ main = "remove" /\ UNCHANGED <<todo, proc>>
              \/ main = "remove" /\ \E p \in Peer : PeerStep(p) /\ UNCHANGED todo
              \/ main = "remove" /\ Remove
         /\ redis' = "created" => redis = "created" \/ "redis" \in failed'
         /\ main' = "drop" =>
              \/ main = "drop" /\ UNCHANGED redis
              \/ redis' # "up" \/ "stopRedis" \in failed' \/ EndedEarly'
         /\ main' = "exited" =>
              \/ main = "exited" /\ UNCHANGED redis
              \/ redis' # "up"
              \/ main = "drop" /\ UNCHANGED redis /\ "dropRedis" \in failed'
<1> USE DEF LeakInv, Early
<1>1. CASE UNCHANGED vars
  BY <1>1 DEF vars, clientVars, runVars
<1>2. CASE StartRedis \/ SetUp \/ SetUpDone \/ ClearDone \/ Spawn
  BY <1>2 DEF StartRedis, SetUp, SetUpDone, ClearDone, Spawn, GoTo, At, Done,
              NextItem, runVars
<1>3. CASE StartExpired \/ StartTop \/ StartCheck \/ BootWait \/ BootDone
  BY <1>3 DEF StartExpired, StartTop, StartCheck, BootWait, BootDone, GoTo,
              Done, runVars
<1>4. CASE Tick \/ NextBatch \/ AllSent \/ NoKey \/ AutoShutdown \/ AutoCheck
  BY <1>4 DEF Tick, NextBatch, AllSent, NoKey, AutoShutdown, AutoCheck, GoTo,
              Done, runVars
<1>5. CASE ShutdownDone \/ StopExpired \/ StopTop \/ StopCheck
  <2>1. CASE ShutdownDone
    BY <2>1 DEF ShutdownDone, GoTo, Done, Types, TypeOK, ListsOK
  <2>2. CASE StopExpired \/ StopTop \/ StopCheck
    BY <2>2 DEF StopExpired, StopTop, StopCheck, GoTo, runVars
  <2> QED
    BY <1>5, <2>1, <2>2
<1>6a. CASE Joined \/ SignalBranch \/ Quit
  BY <1>6a DEF Joined, SignalBranch, Quit, GoTo, Done, runVars
<1>6b. CASE StopRedis
  BY <1>6b DEF StopRedis, RemoveRedis, GoTo, Done
<1>6c. CASE Drop
  BY <1>6c DEF Drop, RemoveRedis, GoTo
<1>7. CASE Signal \/ Clock \/ BatchDue
  BY <1>7 DEF Signal, Clock, BatchDue, clientVars
<1>8. CASE RedisFails \/ SetUpFails \/ ClearFails
  BY <1>8 DEF RedisFails, SetUpFails, ClearFails, Fails, Bail, GoTo, At,
              EndedEarly
<1>9. CASE LaunchFails \/ BootFails \/ RenderPanics
  BY <1>9 DEF LaunchFails, BootFails, RenderPanics, Fails, Bail, GoTo,
              EndedEarly
<1>10. CASE PushFails \/ TuiFails \/ RemoveFails
  BY <1>10 DEF PushFails, TuiFails, RemoveFails, Fails, NextItem, GoTo, At,
               runVars
<1>11. ASSUME NEW p \in Peer, MonitorDies(p) \/ Observe(p) \/ MonitorStops(p)
       PROVE  UNCHANGED <<main, redis, outcome, todo, proc>>
  BY <1>11 DEF MonitorDies, Observe, MonitorStops, Fails, clientVars, runVars
<1>12. ASSUME NEW p \in Peer, PeerStep(p)
       PROVE  UNCHANGED <<main, redis, outcome, todo>>
  BY <1>12 DEF PeerStep, runVars
<1>13. CASE Clear \/ Launch \/ SendOne \/ ShutdownOne \/ Remove
  BY <1>13 DEF Clear, Launch, SendOne, ShutdownOne, Remove, At,
               NextItem, runVars
<1>14. CASE BootSend
  BY <1>14 DEF BootSend, At, NextItem, runVars
<1> QED
  BY <1>1, <1>2, <1>3, <1>4, <1>5, <1>6a, <1>6b, <1>6c, <1>7, <1>8, <1>9,
     <1>10, <1>11, <1>12, <1>13, <1>14, NextSplit DEF Quiet, Failure

(* No step leaves a container behind unaccounted for.                      *)
LEMMA LeakStep == ASSUME Types, LeakInv, [Next]_vars PROVE LeakInv'
<1> USE HowItEnds, HistoryStays
<1>1. (redis = "created" => "redis" \in failed)'
  BY DEF LeakInv
<1>2. /\ main' = "drop" =>
           redis' # "up" \/ "stopRedis" \in failed' \/ EndedEarly'
      /\ main' = "exited" =>
           \/ redis' # "up"
           \/ /\ "dropRedis" \in failed'
              /\ "stopRedis" \in failed' \/ EndedEarly'
  <2>1. failed \subseteq failed' /\ (EndedEarly => EndedEarly')
    BY DEF EndedEarly
  <2> QED
    BY <2>1 DEF LeakInv
<1>3. (Early => \A p \in Peer : proc[p] = "absent")'
  BY StaysAbsent DEF LeakInv, Early
<1>4. ASSUME main' = "remove"
      PROVE  \/ "remove" \in failed'
             \/ \A p \in Peer : Client!Up(p)' => p \in Entries(todo')
  <2>1. CASE main = "join" /\ todo' = PeerSeq
    BY <2>1, AllListed
  <2>2. CASE main = "remove" /\ "remove" \in failed'
    BY <2>2
  <2>3. CASE main = "remove" /\ UNCHANGED todo
    <3>1. \A p \in Peer : Client!Up(p)' => Client!Up(p)
      BY <2>3, NoneComesUp
    <3> QED
      BY <2>3, <3>1 DEF LeakInv
  <2>4. CASE main = "remove" /\ Remove
    <3>1. /\ todo # <<>> /\ todo' = Tail(todo) /\ Head(todo) \in Peer
          /\ Client!Remove(Head(todo)) /\ todo \in Seq(Peer)
      BY <2>4, HeadOfLoop DEF Remove, At, NextItem, Types, ListsOK
    <3>2. PICK h \in Peer : h = Head(todo)
      BY <3>1
    <3>3. proc'[h] = "absent"
      BY <3>1, <3>2, RemoveEffect DEF Types, PeersOK
    <3>4. ~Client!Up(h)'
      BY <3>3 DEF Client!Up
    <3>5. \A p \in Entries(todo) : p = h \/ p \in Entries(todo')
      BY <3>1, <3>2, Rest
    <3>6. \/ "remove" \in failed
          \/ \A p \in Peer : Client!Up(p) => p \in Entries(todo)
      BY <2>4 DEF LeakInv
    <3>7. \A p \in Peer : Client!Up(p)' => Client!Up(p)
      BY <2>4, NoneComesUp
    <3> QED
      BY <3>4, <3>5, <3>6, <3>7
  <2> QED
    BY <1>4, <2>1, <2>2, <2>3, <2>4
<1>5. ASSUME main' \in {"drop", "exited"} PROVE LeftBehind'
  <2>1. CASE main \in {"drop", "exited"} /\ UNCHANGED outcome
    <3>1. \A p \in Peer : Client!Up(p)' => Client!Up(p)
      BY <2>1, NoneComesUp
    <3>2. LeftBehind
      BY <2>1 DEF LeakInv
    <3> QED
      BY <2>1, <3>1, <3>2 DEF LeftBehind
  <2>2. CASE Early
    <3>1. \A p \in Peer : proc'[p] = "absent"
      BY <2>2, StaysAbsent DEF LeakInv, Early
    <3> QED
      BY <3>1 DEF Client!Up, LeftBehind
  <2>3. CASE main = "remove" /\ todo = <<>>
    <3>1. Entries(todo) = {}
      BY <2>3 DEF Entries
    <3>2. \A p \in Peer : Client!Up(p)' => Client!Up(p)
      BY <2>3, NoneComesUp
    <3> QED
      BY <2>3, <3>1, <3>2 DEF LeakInv, LeftBehind
  <2>4. CASE /\ outcome' = "failed"
             /\ failed' \cap {"launch", "bootstrap", "render"} # {}
    BY <2>4 DEF LeftBehind
  <2> QED
    BY <1>5, <2>1, <2>2, <2>3, <2>4
<1> QED
  BY <1>1, <1>2, <1>3, <1>4, <1>5 DEF LeakInv

(* tm leaves a container behind, running or exited, only if removing it    *)
(* failed or it ended before its cleanup; and tm-redis only if it could    *)
(* not be started, or if Drop failed to remove it and so did cleanup       *)
(* before, unless it was not reached: whatever path tm takes to its exit,  *)
(* and whatever the peers do meanwhile.                                    *)
THEOREM NothingLeft == Spec => []NoLeak
<1>1. Init => LeakInv
  BY DEF Init, Client!NoContainers, LeakInv, Early
<1>2. Types /\ LeakInv => NoLeak
  BY DEF Types, TypeOK, LeakInv, LeftBehind, NoLeak
<1> QED
  BY TypesInit, TypesStep, LeakStep, <1>1, <1>2, PTL DEF Spec

-----------------------------------------------------------------------------
(* Every peer is told to stop.                                             *)

Ending  == {"stopTop", "stopCheck", "join", "remove", "drop", "exited"}
Told(p) == \E k \in oldSent[p] + 1 .. Len(sent[p]) : sent[p][k] = "shutdown"

(* While no call has failed, the loop of shutdown_all_peers has the rest   *)
(* before it, and whatever comes after it comes after all of it.           *)
StopInv ==
  /\ \A p \in Peer : oldSent[p] \in Nat /\ oldSent[p] <= Len(sent[p])
  /\ failed = {} =>
       /\ main = "shutdown" => \A p \in Peer : Told(p) \/ p \in Entries(todo)
       /\ main \in Ending => \A p \in Peer : Told(p)
       /\ shutdownSent /\ main # "shutdown" => \A p \in Peer : Told(p)

(* At first no shutdown is under way.                                      *)
LEMMA StopInit == ASSUME Init PROVE StopInv
<1>1. PICK old \in [Peer -> Stale] :
        /\ sent = [p \in Peer |->
                     IF old[p] = NoRaw THEN <<>> ELSE <<"shutdown">>]
        /\ oldSent = [p \in Peer |-> Len(sent[p])]
  BY DEF Init
<1>2. \A p \in Peer : Len(sent[p]) \in Nat
  BY <1>1
<1> QED
  BY <1>1, <1>2 DEF Init, StopInv, Ending

(* A peer that was told to stop stays told.                                *)
LEMMA ToldStays ==
  ASSUME Types, StopInv, [Next]_vars, NEW p \in Peer
  PROVE  /\ oldSent'[p] \in Nat /\ oldSent'[p] <= Len(sent'[p])
         /\ Told(p) => Told(p)'
<1>1. /\ oldSent'[p] = oldSent[p] /\ oldSent[p] \in Nat
      /\ oldSent[p] <= Len(sent[p])
  BY HistoryStays DEF StopInv
<1>2. /\ Len(sent[p]) \in Nat /\ Len(sent'[p]) \in Nat
      /\ Len(sent[p]) <= Len(sent'[p])
      /\ \A k \in 1 .. Len(sent[p]) : sent'[p][k] = sent[p][k]
  BY OldStays
<1>3. ASSUME NEW k \in oldSent[p] + 1 .. Len(sent[p]), sent[p][k] = "shutdown"
      PROVE  Told(p)'
  <2>1. k \in 1 .. Len(sent[p]) /\ k \in oldSent[p] + 1 .. Len(sent'[p])
    BY <1>1, <1>2
  <2>2. sent'[p][k] = "shutdown"
    BY <1>2, <1>3, <2>1
  <2> QED
    BY <1>1, <2>1, <2>2 DEF Told
<1> QED
  BY <1>1, <1>2, <1>3 DEF Told

(* The ways into, through and out of shutdown_all_peers.                   *)
LEMMA StopFlow ==
  ASSUME Types, [Next]_vars, failed' = {}
  PROVE  /\ main' = "shutdown" =>
              \/ todo' = PeerSeq
              \/ main = "shutdown" /\ todo' = todo
              \/ main = "shutdown" /\ ShutdownOne
         /\ main' \in Ending =>
              \/ main \in Ending
              \/ main = "shutdown" /\ todo = <<>>
              \/ shutdownSent /\ main # "shutdown"
         /\ shutdownSent' /\ main' # "shutdown" =>
              \/ shutdownSent /\ main # "shutdown"
              \/ main = "shutdown" /\ todo = <<>>
<1>0. failed = {} /\ ~Fails("redis") /\ ~Fails("setUp") /\ ~Fails("clear")
      /\ ~Fails("launch") /\ ~Fails("bootstrap") /\ ~Fails("push")
      /\ ~Fails("tui") /\ ~Fails("render") /\ ~Fails("remove")
      /\ ~Fails("monitor")
  BY HistoryStays DEF Fails
<1> USE DEF Ending
<1>1. CASE UNCHANGED vars
  BY <1>1 DEF vars, runVars
<1>2. CASE StartRedis \/ SetUp \/ SetUpDone \/ ClearDone \/ Spawn
  BY <1>2 DEF StartRedis, SetUp, SetUpDone, ClearDone, Spawn, GoTo, At, Done,
              NextItem, runVars
<1>3. CASE StartExpired \/ StartTop \/ StartCheck \/ BootWait \/ BootDone
  BY <1>3 DEF StartExpired, StartTop, StartCheck, BootWait, BootDone, GoTo,
              Done, runVars
<1>4. CASE Tick \/ NextBatch \/ AllSent \/ NoKey \/ AutoShutdown
  BY <1>4 DEF Tick, NextBatch, AllSent, NoKey, AutoShutdown, GoTo, Done,
              runVars
<1>5. CASE AutoCheck
  BY <1>5 DEF AutoCheck, GoTo, runVars
<1>6. CASE ShutdownDone \/ StopExpired \/ StopTop \/ StopCheck
  <2>1. CASE ShutdownDone
    BY <2>1 DEF ShutdownDone, GoTo, Done, Types, TypeOK, ListsOK
  <2>2. CASE StopExpired \/ StopTop \/ StopCheck
    BY <2>2 DEF StopExpired, StopTop, StopCheck, GoTo, runVars
  <2> QED
    BY <1>6, <2>1, <2>2
<1>7. CASE Joined \/ StopRedis \/ Drop \/ SignalBranch \/ Quit
  BY <1>7 DEF Joined, StopRedis, Drop, SignalBranch, Quit, GoTo, Done, runVars
<1>8. CASE Signal \/ Clock \/ BatchDue
  BY <1>8 DEF Signal, Clock, BatchDue
<1>9. CASE Failure
  BY <1>0, <1>9 DEF Failure, RedisFails, SetUpFails, ClearFails, LaunchFails,
                    BootFails, PushFails, TuiFails, RenderPanics, RemoveFails,
                    MonitorDies
<1>10. ASSUME NEW p \in Peer, Observe(p) \/ MonitorStops(p) \/ PeerStep(p)
       PROVE  UNCHANGED <<main, todo, shutdownSent>>
  BY <1>10 DEF Observe, MonitorStops, PeerStep, runVars
<1>11. CASE Clear \/ Launch \/ SendOne \/ ShutdownOne \/ Remove
  BY <1>11 DEF Clear, Launch, SendOne, ShutdownOne, Remove, At,
               NextItem, runVars
<1>12. CASE BootSend
  BY <1>12 DEF BootSend, At, NextItem, runVars
<1> QED
  BY <1>1, <1>2, <1>3, <1>4, <1>5, <1>6, <1>7, <1>8, <1>9, <1>10, <1>11,
     <1>12, NextSplit DEF Quiet

(* Every step keeps what shutdown_all_peers has done.                      *)
LEMMA StopStep == ASSUME Types, StopInv, [Next]_vars PROVE StopInv'
<1>1. /\ (\A p \in Peer : oldSent[p] \in Nat /\ oldSent[p] <= Len(sent[p]))'
      /\ \A p \in Peer : Told(p) => Told(p)'
  BY ToldStays
<1>2. failed' = {} => failed = {}
  BY HistoryStays
<1>3. ASSUME failed' = {}, main = "shutdown", todo = <<>>
      PROVE  \A p \in Peer : Told(p)
  <2>1. Entries(todo) = {}
    BY <1>3 DEF Entries
  <2> QED
    BY <1>2, <1>3, <2>1 DEF StopInv
<1>4. ASSUME failed' = {}, main' = "shutdown"
      PROVE  \A p \in Peer : Told(p)' \/ p \in Entries(todo')
  <2>1. CASE todo' = PeerSeq
    BY <2>1, AllListed
  <2>2. CASE main = "shutdown" /\ todo' = todo
    BY <1>1, <1>2, <1>4, <2>2 DEF StopInv
  <2>3. CASE main = "shutdown" /\ ShutdownOne
    <3>1. /\ todo # <<>> /\ todo' = Tail(todo) /\ Head(todo) \in Peer
          /\ Client!Push(Head(todo), "shutdown") /\ todo \in Seq(Peer)
      BY <2>3, HeadOfLoop DEF ShutdownOne, At, NextItem, Types, ListsOK
    <3>2. PICK h \in Peer : h = Head(todo)
      BY <3>1
    <3>3. sent'[h] = Append(sent[h], "shutdown") /\ sent[h] \in Seq(Cmd)
      BY <3>1, <3>2, PushEffect DEF Cmd, Types, PeersOK
    <3>4. /\ Len(sent'[h]) = Len(sent[h]) + 1 /\ Len(sent[h]) \in Nat
          /\ sent'[h][Len(sent[h]) + 1] = "shutdown"
      <4>1. "shutdown" \in Cmd
        BY DEF Cmd
      <4> QED
        BY <3>3, <4>1, Grown
    <3>5. Told(h)'
      <4>1. /\ oldSent'[h] = oldSent[h] /\ oldSent[h] \in Nat
            /\ oldSent[h] <= Len(sent[h])
        BY HistoryStays DEF StopInv
      <4>2. Len(sent[h]) + 1 \in oldSent'[h] + 1 .. Len(sent'[h])
        BY <3>4, <4>1
      <4> QED
        BY <3>4, <4>2 DEF Told
    <3>6. \A p \in Entries(todo) : p = h \/ p \in Entries(todo')
      BY <3>1, <3>2, Rest
    <3>7. \A p \in Peer : Told(p) \/ p \in Entries(todo)
      BY <1>2, <1>4, <2>3 DEF StopInv
    <3> QED
      BY <1>1, <3>5, <3>6, <3>7
  <2> QED
    BY <1>4, <2>1, <2>2, <2>3, StopFlow
<1>5. ASSUME failed' = {},
             \/ main' \in Ending
             \/ shutdownSent' /\ main' # "shutdown"
      PROVE  \A p \in Peer : Told(p)'
  <2>1. \/ main \in Ending
        \/ main = "shutdown" /\ todo = <<>>
        \/ shutdownSent /\ main # "shutdown"
    BY <1>5, StopFlow
  <2>2. \A p \in Peer : Told(p)
    BY <1>2, <1>3, <1>5, <2>1 DEF StopInv
  <2> QED
    BY <1>1, <2>2
<1> QED
  BY <1>1, <1>4, <1>5 DEF StopInv

(* Every peer is sent a shutdown on every way to cleanup, if no call fails.*)
THEOREM AllToldToStop == Spec => []ToldToStop
<1>1. StopInv => ToldToStop
  BY DEF StopInv, ToldToStop, Told, Ending
<1> QED
  BY TypesInit, TypesStep, StopInit, StopStep, <1>1, PTL DEF Spec

-----------------------------------------------------------------------------
(* What the main task knows of the peers.                                  *)

(* The view of a peer is untouched, or it moves on to a later status.      *)
LEMMA ViewMoves ==
  ASSUME Types, [Next]_vars, NEW p \in Peer
  PROVE  \/ seen'[p] = seen[p] /\ status'[p] = status[p] /\ info'[p] = info[p]
         \/ /\ seen'[p] > seen[p] /\ seen'[p] \in 1 .. Len(writes[p])
            /\ status'[p] = writes[p][seen'[p]].base
            /\ info'[p] = IF /\ writes[p][seen'[p]].base = "started"
                             /\ writes[p][seen'[p]].addr # NoAddr
                          THEN writes[p][seen'[p]].addr ELSE info[p]
<1>1. CASE UNCHANGED <<seen, status, info>>
  BY <1>1
<1>2. CASE UNCHANGED vars \/ Clear \/ Launch \/ BootSend \/ SendOne
           \/ ShutdownOne \/ Remove
  BY <1>1, <1>2 DEF vars, viewVars, Clear, Launch, BootSend, SendOne,
                    ShutdownOne, Remove
<1>3. ASSUME NEW q \in Peer, PeerStep(q) \/ MonitorStops(q) \/ MonitorDies(q)
      PROVE  UNCHANGED <<seen, status, info>>
  BY <1>3 DEF PeerStep, MonitorStops, MonitorDies, viewVars
<1>4. CASE StartRedis \/ SetUp \/ SetUpDone \/ ClearDone \/ Spawn
           \/ StartExpired \/ StartTop \/ StartCheck \/ BootWait \/ BootDone
  BY <1>1, <1>4
     DEF viewVars, StartRedis, SetUp, SetUpDone, ClearDone, Spawn,
         StartExpired, StartTop, StartCheck, BootWait, BootDone
<1>5. CASE Tick \/ NextBatch \/ AllSent \/ NoKey \/ AutoShutdown \/ AutoCheck
           \/ ShutdownDone \/ StopExpired \/ StopTop \/ StopCheck
  BY <1>1, <1>5
     DEF viewVars, Tick, NextBatch, AllSent, NoKey, AutoShutdown, AutoCheck,
         ShutdownDone, StopExpired, StopTop, StopCheck
<1>6. CASE Joined \/ StopRedis \/ Drop \/ Signal \/ SignalBranch \/ Quit
           \/ Clock \/ BatchDue
  BY <1>1, <1>6 DEF viewVars, Joined, StopRedis, Drop, Signal, SignalBranch,
                    Quit, Clock, BatchDue
<1>7. CASE Failure
  BY <1>1, <1>3, <1>7
     DEF viewVars, Failure, Bail, RedisFails, SetUpFails, ClearFails,
         LaunchFails, BootFails, PushFails, TuiFails, RenderPanics, RemoveFails
<1>8. ASSUME NEW q \in Peer, Observe(q), q # p
      PROVE  seen'[p] = seen[p] /\ status'[p] = status[p] /\ info'[p] = info[p]
  BY <1>8, ObserveEffect
<1>9. CASE Observe(p)
  BY <1>9, ObserveEffect
<1> QED
  BY <1>1, <1>2, <1>3, <1>4, <1>5, <1>6, <1>7, <1>8, <1>9, NextSplit DEF Quiet

(* From the moment every peer was seen to have started.                    *)
AtBoot == main \in {"bootWait", "bootSend"}
Runs   == TestRuns \/ (main = "shutdown" /\ then = "auto")
Begun  == AtBoot \/ Runs
Later  == \/ Begun \/ main \in {"stopTop", "stopCheck"}
          \/ main = "shutdown" /\ then = "drain"
Before == main \in {"redis", "setUp", "clear", "launch"}

(* The wait for the start, or the one for the stop, has timed out.         *)
GaveUp == gaveUp \cap {"startup", "shutdown"} # {}

(* The moves of the main task.                                             *)
MainMoves ==
  \/ main' = main /\ then' = then
  \/ Before /\ (Before' \/ main' \in {"startTop", "drop", "exited"})
  \/ /\ main = "startTop" /\ main' = "shutdown" /\ then' = "cleanup"
     /\ GaveUp'
  \/ main = "startTop" /\ main' = "startCheck"
  \/ main = "startCheck" /\ main' = "startTop"
  \/ main = "startCheck" /\ All("started") /\ main' = "bootWait"
  \/ main = "bootWait" /\ main' = "bootSend" /\ todo' = BootSeq
  \/ main = "bootSend" /\ todo = <<>> /\ main' = "run"
  \/ TestRuns /\ (TestRuns' \/ main' = "drop")
  \/ TestRuns /\ main' = "shutdown" /\ then' \in {"drain", "auto"}
  \/ /\ main = "auto" /\ main' = "join"
     /\ All("stopped") \/ GaveUp'
  \/ main' = "join" /\ "tui" \in failed'
  \/ main = "shutdown" /\ then = "cleanup" /\ main' = "join"
  \/ main = "shutdown" /\ then = "drain" /\ main' = "stopTop"
  \/ main = "shutdown" /\ then = "auto" /\ main' = "auto"
  \/ main = "stopTop" /\ main' = "join" /\ GaveUp'
  \/ main = "stopTop" /\ main' = "stopCheck"
  \/ main = "stopCheck" /\ main' = "stopTop"
  \/ main = "stopCheck" /\ All("stopped") /\ main' = "join"
  \/ main = "join" /\ main' = "remove"
  \/ main \in {"remove", "bootSend"} /\ main' = "drop"
  \/ main = "drop" /\ main' = "exited"

(* Every step stays in its phase or is one of those moves.                 *)
LEMMA Moves == ASSUME Types, [Next]_vars PROVE MainMoves
<1> USE DEF MainMoves
<1>0. CASE main' = main /\ then' = then
  BY <1>0
<1>1. CASE UNCHANGED vars
  BY <1>1 DEF vars, runVars
<1>2a. CASE StartRedis
  BY <1>2a DEF StartRedis, GoTo, Before
<1>2b. CASE SetUp \/ SetUpDone \/ ClearDone
  BY <1>2b DEF SetUp, SetUpDone, ClearDone, GoTo, Done, NextItem, runVars,
               Before
<1>2c. CASE Spawn
  BY <1>2c DEF Spawn, GoTo, Done, Before
<1>3a. CASE StartExpired
  BY <1>3a DEF StartExpired, GoTo, GaveUp
<1>3b. CASE StartTop
  BY <1>3b DEF StartTop, GoTo
<1>3c. CASE StartCheck
  BY <1>3c DEF StartCheck, GoTo
<1>3d. CASE BootWait \/ BootDone
  BY <1>3d DEF BootWait, BootDone, GoTo, Done
<1>4a. CASE Tick \/ NextBatch \/ AllSent
  BY <1>4a DEF Tick, NextBatch, AllSent, GoTo, Done, TestRuns
<1>4b. CASE NoKey \/ AutoShutdown
  BY <1>4b DEF NoKey, AutoShutdown, GoTo, TestRuns
<1>5. CASE AutoCheck
  <2>1. CASE main' = "join" /\ ~All("stopped")
    BY <1>5, <2>1 DEF AutoCheck, GoTo, GaveUp
  <2>2. CASE main' = "join" /\ All("stopped")
    BY <1>5, <2>2 DEF AutoCheck
  <2>3. CASE main' = "run"
    BY <1>5, <2>3 DEF AutoCheck, TestRuns
  <2>4. main' \in {"join", "run"}
    BY <1>5 DEF AutoCheck, GoTo
  <2> QED
    BY <2>1, <2>2, <2>3, <2>4
<1>6a. CASE ShutdownDone
  <2>1. main = "shutdown" /\ then \in {"cleanup", "drain", "auto"}
    BY <1>6a DEF ShutdownDone, Done, Types, TypeOK, ListsOK
  <2>2. CASE then = "cleanup"
    BY <1>6a, <2>1, <2>2 DEF ShutdownDone, GoTo
  <2>3. CASE then = "drain"
    BY <1>6a, <2>1, <2>3 DEF ShutdownDone, GoTo
  <2>4. CASE then = "auto"
    BY <1>6a, <2>1, <2>4 DEF ShutdownDone, GoTo
  <2> QED
    BY <2>1, <2>2, <2>3, <2>4
<1>6b. CASE StopExpired
  BY <1>6b DEF StopExpired, GoTo, GaveUp
<1>6c. CASE StopTop
  BY <1>6c DEF StopTop, GoTo
<1>6d. CASE StopCheck
  BY <1>6d DEF StopCheck, GoTo
<1>7a. CASE Joined
  BY <1>7a DEF Joined, GoTo
<1>7b. CASE StopRedis \/ Drop
  BY <1>7b DEF StopRedis, Drop, GoTo, Done
<1>7c. CASE SignalBranch \/ Quit
  BY <1>7c DEF SignalBranch, Quit, GoTo, TestRuns
<1>8. CASE Signal \/ Clock \/ BatchDue
  BY <1>0, <1>8 DEF Signal, Clock, BatchDue
<1>9. CASE RedisFails \/ SetUpFails \/ ClearFails \/ LaunchFails
  BY <1>9 DEF RedisFails, SetUpFails, ClearFails, LaunchFails, Bail, GoTo, At,
              Before
<1>10. CASE BootFails \/ RenderPanics
  BY <1>10 DEF BootFails, RenderPanics, Bail, GoTo, At, TestRuns
<1>11. CASE PushFails \/ RemoveFails
  BY <1>0, <1>11 DEF PushFails, RemoveFails, NextItem, runVars
<1>12. CASE TuiFails
  BY <1>12 DEF TuiFails, Fails, GoTo
<1>13. ASSUME NEW p \in Peer, \/ Observe(p) \/ MonitorStops(p)
                              \/ MonitorDies(p) \/ PeerStep(p)
       PROVE  MainMoves
  BY <1>13 DEF Observe, MonitorStops, MonitorDies, PeerStep, runVars
<1>14. CASE Clear \/ Launch \/ BootSend \/ SendOne \/ ShutdownOne \/ Remove
  BY <1>0, <1>14 DEF Clear, Launch, BootSend, SendOne, ShutdownOne, Remove,
                     NextItem, runVars
<1> HIDE DEF MainMoves
<1>15. CASE Failure
  BY <1>9, <1>10, <1>11, <1>12, <1>13, <1>15 DEF Failure
<1>16. CASE Quiet
  BY <1>2a, <1>2b, <1>2c, <1>3a, <1>3b, <1>3c, <1>3d, <1>4a, <1>4b, <1>5,
     <1>6a, <1>6b, <1>6c, <1>6d, <1>7a, <1>7b, <1>7c, <1>8, <1>13, <1>15,
     <1>16 DEF Quiet
<1> QED
  BY <1>0, <1>1, <1>13, <1>14, <1>16, NextSplit

(* What the moves mean for how far a run has come.                         *)
LEMMA Flow ==
  ASSUME Types, [Next]_vars
  PROVE  /\ AtBoot' => AtBoot \/ (main = "startCheck" /\ All("started"))
         /\ Runs' => Runs \/ (main = "bootSend" /\ todo = <<>>)
         /\ Later' => Later \/ (main = "startCheck" /\ All("started"))
         /\ Before' => Before
         /\ main' = "shutdown" /\ then' = "cleanup" =>
              \/ main = "shutdown" /\ then = "cleanup"
              \/ GaveUp'
         /\ main' \in {"join", "remove"} =>
              \/ main \in {"join", "remove"}
              \/ Later /\ All("stopped")
              \/ GaveUp' \/ "tui" \in failed'
              \/ main = "shutdown" /\ then = "cleanup"
<1>1. AtBoot' => AtBoot \/ (main = "startCheck" /\ All("started"))
  BY Moves DEF MainMoves, AtBoot, Before, TestRuns
<1>2. Runs' => Runs \/ (main = "bootSend" /\ todo = <<>>)
  BY Moves DEF MainMoves, Runs, Before, TestRuns
<1>3. Later' => Later \/ (main = "startCheck" /\ All("started"))
  BY Moves DEF MainMoves, Later, Begun, AtBoot, Runs, Before, TestRuns
<1>4. Before' => Before
  BY Moves DEF MainMoves, Before, TestRuns
<1>5. main' = "shutdown" /\ then' = "cleanup" =>
        \/ main = "shutdown" /\ then = "cleanup"
        \/ GaveUp'
  BY Moves DEF MainMoves, Before, TestRuns
<1>6. main' \in {"join", "remove"} =>
        \/ main \in {"join", "remove"}
        \/ Later /\ All("stopped")
        \/ GaveUp' \/ "tui" \in failed'
        \/ main = "shutdown" /\ then = "cleanup"
  BY Moves DEF MainMoves, Later, Begun, AtBoot, Runs, Before, TestRuns
<1> QED
  BY <1>1, <1>2, <1>3, <1>4, <1>5, <1>6

(* An earlier run leaves one status at most, and a status shown is one     *)
(* that was SET.                                                           *)
SeenInv ==
  \A p \in Peer :
    /\ oldWrites[p] \in {0, 1} /\ oldWrites[p] <= Len(writes[p])
    /\ IF seen[p] = 0 THEN status[p] = "unknown" /\ info[p] = NoAddr
       ELSE status[p] = writes[p][seen[p]].base

(* At first nothing was seen.                                              *)
LEMMA SeenInit == ASSUME Init PROVE SeenInv
<1>1. PICK old \in [Peer -> Stale] :
        /\ writes = [p \in Peer |-> IF old[p] = NoRaw THEN <<>> ELSE <<old[p]>>]
        /\ oldWrites = [p \in Peer |-> Len(writes[p])]
  BY DEF Init
<1>2. \A p \in Peer : Len(writes[p]) \in {0, 1}
  BY <1>1
<1> QED
  BY <1>1, <1>2 DEF Init, SeenInv

(* A monitor shows a status only after it was SET.                         *)
LEMMA SeenStep == ASSUME Types, SeenInv, [Next]_vars PROVE SeenInv'
<1> SUFFICES ASSUME NEW p \in Peer
             PROVE  /\ oldWrites'[p] \in {0, 1}
                    /\ oldWrites'[p] <= Len(writes'[p])
                    /\ IF seen'[p] = 0
                       THEN status'[p] = "unknown" /\ info'[p] = NoAddr
                       ELSE status'[p] = writes'[p][seen'[p]].base
  BY DEF SeenInv
<1>1. /\ oldWrites[p] \in {0, 1} /\ oldWrites[p] <= Len(writes[p])
      /\ IF seen[p] = 0 THEN status[p] = "unknown" /\ info[p] = NoAddr
         ELSE status[p] = writes[p][seen[p]].base
  BY DEF SeenInv
<1>2. oldWrites'[p] = oldWrites[p]
  BY HistoryStays
<1>3. /\ Len(writes[p]) \in Nat /\ Len(writes'[p]) \in Nat
      /\ Len(writes[p]) <= Len(writes'[p])
      /\ \A k \in 1 .. Len(writes[p]) : writes'[p][k] = writes[p][k]
  BY OldStays
<1>4. seen[p] \in Nat /\ seen[p] <= Len(writes[p])
  BY DEF Types, TypeOK
<1>5. CASE seen'[p] = seen[p] /\ status'[p] = status[p] /\ info'[p] = info[p]
  BY <1>1, <1>2, <1>3, <1>4, <1>5
<1>6. CASE /\ seen'[p] > seen[p] /\ seen'[p] \in 1 .. Len(writes[p])
           /\ status'[p] = writes[p][seen'[p]].base
  BY <1>1, <1>2, <1>3, <1>4, <1>6
<1> QED
  BY <1>5, <1>6, ViewMoves

-----------------------------------------------------------------------------
(* The test begins with peers of this run.                                 *)

(* --redis-url names a Redis in which no peer is still said to be started. *)
NoOldStart == \A r \in Stale : r.base # "started"

(* A Redis container of this run holds nothing at first.                   *)
LEMMA OwnRedis == ASSUME ~External PROVE NoOldStart
BY StaleAssumption DEF NoOldStart, NoRaw

Fresh(p) == \E i \in oldWrites[p] + 1 .. Len(writes[p]) :
              writes[p][i].base = "started"

OldWords ==
  \A p \in Peer : \A i \in 1 .. oldWrites[p] : writes[p][i].base # "started"

StartInv == SeenInv /\ OldWords /\ (Begun => \A p \in Peer : Fresh(p))

(* No status of an earlier run is "started" at first ...                   *)
LEMMA OldWordsInit == ASSUME Init, NoOldStart PROVE OldWords
<1>1. PICK old \in [Peer -> Stale] :
        /\ writes = [p \in Peer |-> IF old[p] = NoRaw THEN <<>> ELSE <<old[p]>>]
        /\ oldWrites = [p \in Peer |-> Len(writes[p])]
  BY DEF Init
<1>2. ASSUME NEW p \in Peer, NEW i \in 1 .. oldWrites[p]
      PROVE  writes[p][i].base # "started"
  <2>1. old[p] # NoRaw
    BY <1>1, <1>2
  <2>2. writes[p] = <<old[p]>> /\ i = 1
    BY <1>1, <1>2, <2>1
  <2> QED
    BY <2>2 DEF NoOldStart
<1> QED
  BY <1>2 DEF OldWords

(* ... and none becomes it: what was SET stays.                            *)
LEMMA OldWordsStep ==
  ASSUME Types, SeenInv, OldWords, [Next]_vars
  PROVE  OldWords'
<1> SUFFICES ASSUME NEW p \in Peer, NEW i \in 1 .. oldWrites'[p]
             PROVE  writes'[p][i].base # "started"
  BY DEF OldWords
<1>1. /\ oldWrites'[p] = oldWrites[p] /\ oldWrites[p] \in {0, 1}
      /\ oldWrites[p] <= Len(writes[p])
  BY HistoryStays DEF SeenInv
<1>2. i \in 1 .. oldWrites[p] /\ i \in 1 .. Len(writes[p])
  BY <1>1, OldStays
<1>3. writes'[p][i] = writes[p][i]
  BY <1>2, OldStays
<1> QED
  BY <1>2, <1>3 DEF OldWords

(* A peer that has started in this run has always done so.                 *)
LEMMA FreshStays ==
  ASSUME Types, SeenInv, [Next]_vars, NEW p \in Peer, Fresh(p)
  PROVE  Fresh(p)'
<1>1. PICK i \in oldWrites[p] + 1 .. Len(writes[p]) : writes[p][i].base = "started"
  BY DEF Fresh
<1>2. /\ oldWrites'[p] = oldWrites[p] /\ oldWrites[p] \in {0, 1}
  BY HistoryStays DEF SeenInv
<1>3. i \in 1 .. Len(writes[p]) /\ i \in oldWrites'[p] + 1 .. Len(writes'[p])
  BY <1>1, <1>2, OldStays
<1>4. writes'[p][i] = writes[p][i]
  BY <1>3, OldStays
<1> QED
  BY <1>1, <1>3, <1>4 DEF Fresh

(* A peer shown as started has reported so in this run.                    *)
LEMMA ShownIsFresh ==
  ASSUME Types, SeenInv, OldWords, NEW p \in Peer, status[p] = "started"
  PROVE  Fresh(p)
<1>1. seen[p] # 0 /\ seen[p] \in Nat /\ seen[p] <= Len(writes[p])
  BY DEF SeenInv, Types, TypeOK
<1>2. writes[p][seen[p]].base = "started"
  BY <1>1 DEF SeenInv
<1>3. oldWrites[p] \in {0, 1} /\ writes[p] \in Seq(Report)
  BY DEF SeenInv, Types, PeersOK
<1>4. seen[p] \notin 1 .. oldWrites[p]
  BY <1>2 DEF OldWords
<1>5. seen[p] \in oldWrites[p] + 1 .. Len(writes[p])
  BY <1>1, <1>3, <1>4
<1> QED
  BY <1>2, <1>5 DEF Fresh

(* No step begins the test before all peers have started.                  *)
LEMMA StartStep == ASSUME Types, StartInv, [Next]_vars PROVE StartInv'
<1>1. SeenInv' /\ OldWords'
  BY SeenStep, OldWordsStep DEF StartInv
<1>2. ASSUME Begun' PROVE \A p \in Peer : Fresh(p)'
  <2>1. Begun \/ All("started")
    BY <1>2, Flow DEF Begun, AtBoot
  <2>2. \A p \in Peer : Fresh(p)
    BY <2>1, ShownIsFresh DEF StartInv, All
  <2> QED
    BY <2>2, FreshStays DEF StartInv
<1> QED
  BY <1>1, <1>2 DEF StartInv

(* If no status of an earlier run says "started", then the test begins     *)
(* only when every peer has started in this run.                           *)
THEOREM StartsFresh == NoOldStart /\ Spec => []StartedThisRun
<1>1. NoOldStart /\ Init => StartInv
  BY SeenInit, OldWordsInit
     DEF StartInv, Begun, AtBoot, Runs, TestRuns, Init
<1>2. StartInv => StartedThisRun
  BY DEF StartInv, StartedThisRun, Begun, AtBoot, Runs, Fresh
<1> QED
  BY TypesInit, TypesStep, StartStep, <1>1, <1>2, PTL DEF Spec

-----------------------------------------------------------------------------
(* The test ends when the work is done.                                    *)

(* A peer that has reported "stopped" in this run has nothing left to do;  *)
(* a status is SET only by a container that was launched.  Once a peer was *)
(* seen to have started, a "stopped" shown after it cannot be the one an   *)
(* earlier run left.                                                       *)
CutInv ==
  /\ SeenInv
  /\ \A p \in Peer : Before /\ proc[p] = "absent" => Len(writes[p]) = oldWrites[p]
  /\ \A p \in Peer : \A i \in oldWrites[p] + 1 .. Len(writes[p]) :
       writes[p][i].base = "stopped" => Over(p)
  /\ Later => \A p \in Peer : /\ seen[p] >= 1
                              /\ status[p] = "stopped" => seen[p] >= 2
  /\ main = "shutdown" /\ then = "cleanup" => GaveUp
  /\ main \in {"join", "remove"} /\ ~GaveUp /\ "tui" \notin failed =>
       \A p \in Peer : Over(p)

(* At first nothing was cut short.                                         *)
LEMMA CutInit == ASSUME Init PROVE CutInv
<1>1. /\ SeenInv /\ main = "redis"
      /\ \A p \in Peer : oldWrites[p] = Len(writes[p]) /\ Len(writes[p]) \in Nat
  <2>1. /\ \A p \in Peer : oldWrites[p] = Len(writes[p])
        /\ main = "redis"
    BY DEF Init
  <2> QED
    BY <2>1, SeenInit DEF SeenInv
<1> QED
  BY <1>1 DEF CutInv, Later, Begun, AtBoot, Runs, TestRuns

(* What was over stays so once the containers are launched.                *)
LEMMA StoppedIsOver ==
  ASSUME Types, CutInv, [Next]_vars, NEW p \in Peer,
         NEW i \in oldWrites'[p] + 1 .. Len(writes'[p]),
         writes'[p][i].base = "stopped"
  PROVE  Over(p)'
<1>1. /\ oldWrites'[p] = oldWrites[p] /\ oldWrites[p] \in {0, 1}
      /\ oldWrites[p] <= Len(writes[p])
  BY HistoryStays DEF CutInv, SeenInv
<1>2. /\ Len(writes[p]) \in Nat /\ Len(writes'[p]) \in Nat /\ i \in Nat
      /\ \A k \in 1 .. Len(writes[p]) : writes'[p][k] = writes[p][k]
  BY <1>1, OldStays
<1>3. writes[p] \in Seq(Report)
  BY DEF Types, PeersOK
<1>4. CASE i \in oldWrites[p] + 1 .. Len(writes[p])
  <2>1. writes[p][i].base = "stopped"
    BY <1>1, <1>2, <1>4
  <2>2. Over(p)
    BY <1>4, <2>1 DEF CutInv
  <2>3. ~(Before /\ proc[p] = "absent")
    BY <1>1, <1>2, <1>4 DEF CutInv
  <2>4. Over(p)'
    <3>1. proc[p] \notin {"ready", "running", "halting", "rebooting"}
      BY <2>2 DEF Over
    <3>2. CASE main # "launch"
      BY <2>2, <3>1, <3>2, OnePeer
    <3>3. CASE main = "launch"
      <4>1. proc[p] \in {"dying", "exited"}
        BY <2>2, <2>3, <3>3 DEF Over, Before
      <4> QED
        BY <3>3, <4>1, LaunchedOnly DEF Over
    <3> QED
      BY <3>2, <3>3
  <2> QED
    BY <2>4
<1>5. CASE i \notin oldWrites[p] + 1 .. Len(writes[p])
  <2>1. writes'[p] # writes[p]
    BY <1>1, <1>2, <1>5
  <2>2. \/ writes'[p] = Append(writes[p], Client!Started(p))
        \/ writes'[p] = Append(writes[p], Client!Bare)
        \/ writes'[p] = Append(writes[p], Client!Stopped) /\ proc'[p] = "dying"
        \/ writes'[p] = Append(writes[p], Client!Restarting)
    BY <2>1, OnePeer
  <2>3. /\ Words(p) \subseteq Report /\ Client!Started(p).base = "started"
        /\ Client!Bare.base = "started"
        /\ Client!Restarting.base = "restarting"
    BY WordsAre
  <2>4. ASSUME NEW r \in Report, writes'[p] = Append(writes[p], r)
        PROVE  writes'[p][i] = r
    <3>1. /\ Len(writes'[p]) = Len(writes[p]) + 1
          /\ writes'[p][Len(writes[p]) + 1] = r
      BY <1>3, <2>4, Grown
    <3>2. i = Len(writes[p]) + 1
      BY <1>1, <1>2, <1>5, <3>1
    <3> QED
      BY <3>1, <3>2
  <2>5. proc'[p] = "dying"
    BY <2>2, <2>3, <2>4 DEF Words
  <2> QED
    BY <2>5 DEF Over
<1> QED
  BY <1>4, <1>5

(* No step ends the test while a peer has work left.                       *)
LEMMA CutStep == ASSUME Types, CutInv, [Next]_vars PROVE CutInv'
<1>1. SeenInv'
  BY SeenStep DEF CutInv
<1>2. ASSUME NEW p \in Peer, Before', proc'[p] = "absent"
      PROVE  Len(writes'[p]) = oldWrites'[p]
  <2>1. Before /\ main # "remove"
    BY <1>2, Flow DEF Before
  <2>2. writes'[p] = writes[p] /\ proc[p] = "absent"
    BY <1>2, <2>1, OnePeer
  <2> QED
    BY <2>1, <2>2, HistoryStays DEF CutInv
<1>3. ASSUME Later', NEW p \in Peer
      PROVE  seen'[p] >= 1 /\ (status'[p] = "stopped" => seen'[p] >= 2)
  <2>1. seen[p] \in Nat /\ seen'[p] \in Nat
    BY TypesStep DEF Types, TypeOK
  <2>2. seen[p] >= 1 /\ (status[p] = "stopped" => seen[p] >= 2)
    <3>1. CASE Later
      BY <3>1 DEF CutInv
    <3>2. CASE All("started")
      <4>1. status[p] = "started"
        BY <3>2 DEF All
      <4>2. seen[p] # 0
        BY <4>1 DEF CutInv, SeenInv
      <4> QED
        BY <2>1, <4>1, <4>2
    <3> QED
      BY <1>3, <3>1, <3>2, Flow
  <2> QED
    BY <2>1, <2>2, ViewMoves
<1>4. main' = "shutdown" /\ then' = "cleanup" => GaveUp'
  BY Flow, HistoryStays DEF CutInv, GaveUp
<1>5. ASSUME main' \in {"join", "remove"}, ~GaveUp', "tui" \notin failed',
             NEW p \in Peer
      PROVE  Over(p)'
  <2>1. ~GaveUp /\ "tui" \notin failed
    BY <1>5, HistoryStays DEF GaveUp
  <2>2. main \in {"join", "remove"} \/ (Later /\ All("stopped"))
    BY <1>5, <2>1, Flow DEF CutInv
  <2>3. Over(p)
    <3>1. CASE main \in {"join", "remove"}
      BY <2>1, <3>1 DEF CutInv
    <3>2. CASE Later /\ All("stopped")
      <4>1. status[p] = "stopped" /\ seen[p] >= 2
        BY <3>2 DEF All, CutInv
      <4>2. /\ seen[p] \in Nat /\ seen[p] <= Len(writes[p])
            /\ writes[p] \in Seq(Report) /\ oldWrites[p] \in {0, 1}
        BY DEF Types, TypeOK, PeersOK, CutInv, SeenInv
      <4>3. writes[p][seen[p]].base = "stopped"
        BY <4>1, <4>2 DEF CutInv, SeenInv
      <4>4. seen[p] \in oldWrites[p] + 1 .. Len(writes[p])
        BY <4>1, <4>2
      <4> QED
        BY <4>3, <4>4 DEF CutInv
    <3> QED
      BY <2>2, <3>1, <3>2
  <2>4. /\ main # "launch"
        /\ proc[p] \notin {"ready", "running", "halting", "rebooting"}
    BY <2>2, <2>3 DEF Over, Later, Begun, AtBoot, Runs, TestRuns
  <2> QED
    BY <2>3, <2>4, OnePeer
<1> QED
  BY <1>1, <1>2, <1>3, <1>4, <1>5, StoppedIsOver DEF CutInv

(* Cleanup begins only when no peer has work left, or a wait was given up, *)
(* or the terminal failed, whatever an earlier run left in Redis.          *)
THEOREM CutsNothingShort == Spec => []NotCutShort
<1>1. CutInv => NotCutShort
  BY DEF CutInv, NotCutShort, Over, GaveUp
<1> QED
  BY TypesInit, TypesStep, CutInit, CutStep, <1>1, PTL DEF Spec

-----------------------------------------------------------------------------
(* Commands of an earlier run.                                             *)

Above(l, n) == \A k \in 1 .. Len(l) : l[k] > n

(* A list stays above a bound when it shrinks or gains a new command.      *)
LEMMA AboveLists ==
  ASSUME NEW l \in Seq(Nat), NEW n \in Nat, Above(l, n)
  PROVE  /\ \A x \in Nat : x > n => Above(<<x>> \o l, n) /\ Above(Append(l, x), n)
         /\ l # <<>> => Above(Tail(l), n) /\ Head(l) > n
         /\ Above(<<>>, n)
<1>1. ASSUME NEW x \in Nat, x > n PROVE Above(<<x>> \o l, n)
  <2>1. /\ Len(<<x>> \o l) = Len(l) + 1 /\ (<<x>> \o l)[1] = x
        /\ \A k \in 2 .. Len(l) + 1 : (<<x>> \o l)[k] = l[k - 1]
    BY PushedHead
  <2>2. ASSUME NEW k \in 1 .. Len(<<x>> \o l) PROVE (<<x>> \o l)[k] > n
    <3>1. CASE k = 1
      BY <1>1, <2>1, <3>1
    <3>2. CASE k # 1
      <4>1. k \in 2 .. Len(l) + 1 /\ k - 1 \in 1 .. Len(l)
        BY <2>1, <3>2
      <4> QED
        BY <2>1, <4>1 DEF Above
    <3> QED
      BY <3>1, <3>2
  <2> QED
    BY <2>2 DEF Above
<1>2. ASSUME NEW x \in Nat, x > n PROVE Above(Append(l, x), n)
  <2>1. /\ Len(Append(l, x)) = Len(l) + 1 /\ Append(l, x)[Len(l) + 1] = x
        /\ \A k \in 1 .. Len(l) : Append(l, x)[k] = l[k]
    BY Grown
  <2> QED
    BY <1>2, <2>1 DEF Above
<1>3. ASSUME l # <<>> PROVE Above(Tail(l), n) /\ Head(l) > n
  <2>1. /\ Len(Tail(l)) = Len(l) - 1 /\ Head(l) = l[1]
        /\ \A k \in 1 .. Len(l) - 1 : Tail(l)[k] = l[k + 1]
    BY <1>3, PoppedHead
  <2>2. Len(l) \in Nat /\ Len(l) > 0
    BY <1>3, EmptySeq
  <2> QED
    BY <2>1, <2>2 DEF Above
<1> QED
  BY <1>1, <1>2, <1>3 DEF Above

NewQ(p) == Above(cmdQ[p], oldSent[p])

(* An old command can only be in a list that no one reads yet.             *)
PeerNew(p) ==
  /\ oldSent[p] \in Nat /\ oldSent[p] <= Len(sent[p])
  /\ NewQ(p) \/ (poller[p] = "off" /\ proc[p] = "absent")
  /\ Above(chan[p], oldSent[p]) /\ Above(executed[p], oldSent[p])
  /\ poller[p] = "holding" => held[p] > oldSent[p]

OldInv ==
  /\ \A p \in Peer : PeerNew(p)
  /\ main = "clear" => \A p \in Peer : NewQ(p) \/ p \in Entries(todo)
  /\ main = "launch" => \A p \in Peer : NewQ(p)

(* At first old commands are in lists nobody reads.                        *)
LEMMA OldInit == ASSUME Init PROVE OldInv
<1>1. PICK old \in [Peer -> Stale] :
        /\ sent = [p \in Peer |->
                     IF old[p] = NoRaw THEN <<>> ELSE <<"shutdown">>]
        /\ oldSent = [p \in Peer |-> Len(sent[p])]
  BY DEF Init
<1>2. \A p \in Peer : oldSent[p] \in Nat /\ oldSent[p] <= Len(sent[p])
  BY <1>1
<1> QED
  BY <1>2 DEF Init, Client!NoContainers, OldInv, PeerNew, Above

(* A peer left alone holds no old command if it held none.                 *)
LEMMA PeerUnchanged ==
  ASSUME NEW p \in Peer, PeerNew(p), oldSent' = oldSent,
         sent'[p] = sent[p], cmdQ'[p] = cmdQ[p], poller'[p] = poller[p],
         held'[p] = held[p], chan'[p] = chan[p], executed'[p] = executed[p],
         proc'[p] = proc[p]
  PROVE  PeerNew(p)' /\ (NewQ(p) => NewQ(p)')
BY DEF PeerNew, NewQ, Above

(* A command sent in this run is new.                                      *)
LEMMA PushIsNew ==
  ASSUME Types, oldSent' = oldSent, NEW h \in Peer, NEW c \in Cmd,
         Client!Push(h, c), NEW p \in Peer, PeerNew(p)
  PROVE  PeerNew(p)' /\ (NewQ(p) => NewQ(p)')
<1>1. CASE p # h
  <2>1. /\ sent'[p] = sent[p] /\ cmdQ'[p] = cmdQ[p] /\ poller'[p] = poller[p]
        /\ held'[p] = held[p] /\ chan'[p] = chan[p]
        /\ executed'[p] = executed[p] /\ proc'[p] = proc[p]
    BY <1>1 DEF Client!Push, Types, PeersOK
  <2> QED
    BY <2>1, PeerUnchanged
<1>2. CASE p = h
  <2> DEFINE id == Len(sent[p]) + 1
  <2>1. /\ sent[p] \in Seq(Cmd) /\ cmdQ[p] \in Seq(Nat) /\ id \in Nat
        /\ oldSent[p] \in Nat /\ id > oldSent[p]
        /\ UNCHANGED <<chan, executed, proc>>
    BY <1>2 DEF PeerNew, Client!Push, Types, PeersOK
  <2>2. oldSent'[p] \in Nat /\ oldSent'[p] <= Len(sent'[p])
    <3>1. sent'[p] = Append(sent[p], c)
      BY <1>2 DEF Client!Push, Types, PeersOK
    <3>2. Len(sent'[p]) = Len(sent[p]) + 1 /\ Len(sent[p]) \in Nat
      BY <2>1, <3>1, Grown
    <3> QED
      BY <3>2 DEF PeerNew
  <2>3. CASE UNCHANGED <<cmdQ, poller, held>>
    BY <2>1, <2>2, <2>3 DEF PeerNew, NewQ
  <2>4. CASE /\ poller[p] = "waiting" /\ poller'[p] = "holding"
             /\ held'[p] = id /\ cmdQ' = cmdQ
    BY <2>1, <2>2, <2>4 DEF PeerNew, NewQ
  <2>5. CASE cmdQ'[p] = <<id>> \o cmdQ[p] /\ UNCHANGED <<poller, held>>
    <3>1. NewQ(p) => NewQ(p)'
      BY <2>1, <2>5, AboveLists DEF NewQ
    <3> QED
      BY <2>1, <2>2, <2>5, <3>1 DEF PeerNew
  <2>6. \/ UNCHANGED <<cmdQ, poller, held>>
        \/ /\ poller[p] = "waiting" /\ poller'[p] = "holding"
           /\ held'[p] = id /\ cmdQ' = cmdQ
        \/ cmdQ'[p] = <<id>> \o cmdQ[p] /\ UNCHANGED <<poller, held>>
    BY <1>2 DEF Client!Push, Types, PeersOK
  <2> QED
    BY <2>3, <2>4, <2>5, <2>6
<1> QED
  BY <1>1, <1>2

(* A peer passes on only what it took from its list.                       *)
LEMMA PeerStepIsNew ==
  ASSUME Types, oldSent' = oldSent, NEW p \in Peer, PeerNew(p),
         Client!Step(p) \/ Client!Fault(p)
  PROVE  PeerNew(p)' /\ (NewQ(p) => NewQ(p)')
<1>0. /\ oldSent[p] \in Nat /\ oldSent[p] <= Len(sent[p])
      /\ cmdQ[p] \in Seq(Nat) /\ chan[p] \in Seq(Nat)
      /\ executed[p] \in Seq(Nat) /\ held[p] \in Nat
      /\ Above(chan[p], oldSent[p]) /\ Above(executed[p], oldSent[p])
  BY DEF PeerNew, Types, PeersOK
<1>1. ASSUME UNCHANGED <<sent, cmdQ, held, chan, executed>>,
             proc[p] # "absent", poller'[p] = "holding" => poller[p] = "holding"
      PROVE  PeerNew(p)' /\ (NewQ(p) => NewQ(p)')
  BY <1>0, <1>1 DEF PeerNew, NewQ
<1>2. CASE Client!Build(p) \/ Client!Wake(p) \/ Client!SetFails(p)
           \/ Client!ReportStarted(p) \/ Client!ReportAddr(p)
           \/ Client!ReportStopped(p) \/ Client!ReportRestarting(p)
  <2>1. /\ UNCHANGED <<sent, cmdQ, held, chan, executed>>
        /\ proc[p] # "absent" /\ poller'[p] \in {"idle", poller[p]}
    BY <1>2 DEF Client!Build, Client!Wake, Client!SetFails,
         Client!ReportStarted, Client!ReportAddr, Client!ReportStopped,
         Client!ReportRestarting, Client!queueVars, Types, PeersOK
  <2> QED
    BY <1>1, <2>1
<1>3a. CASE Client!Forget(p)
  <2>1. UNCHANGED <<sent, cmdQ, held, chan, executed, proc, poller>>
    BY <1>3a DEF Client!Forget
  <2> QED
    BY <1>0, <2>1 DEF PeerNew, NewQ
<1>3b. CASE Client!Reconnect(p)
  <2>1. /\ UNCHANGED <<sent, cmdQ, held, chan, executed, proc>>
        /\ poller[p] = "broken" /\ poller'[p] = "idle"
    BY <1>3b DEF Client!Reconnect, Client!queueVars, Types, PeersOK
  <2> QED
    BY <1>0, <2>1 DEF PeerNew, NewQ
<1>3c. CASE Client!BlpopFails(p)
  <2>1. /\ UNCHANGED <<sent, proc, held, chan, executed>>
        /\ poller[p] \in {"waiting", "idle"} /\ poller'[p] = "broken"
        /\ \/ cmdQ'[p] = cmdQ[p]
           \/ cmdQ[p] # <<>> /\ cmdQ'[p] = Tail(cmdQ[p])
    BY <1>3c DEF Client!BlpopFails, Types, PeersOK
  <2>2. NewQ(p)
    BY <2>1 DEF PeerNew
  <2>3. NewQ(p)'
    <3>1. CASE cmdQ[p] # <<>> /\ cmdQ'[p] = Tail(cmdQ[p])
      BY <1>0, <2>2, <3>1, AboveLists DEF NewQ
    <3> QED
      BY <2>1, <2>2, <3>1 DEF NewQ
  <2> QED
    BY <1>0, <2>1, <2>3 DEF PeerNew
<1>4. CASE Client!AskNext(p)
  <2>1. /\ UNCHANGED <<sent, proc, chan, executed>> /\ poller[p] = "idle"
        /\ NewQ(p)
    BY <1>4 DEF Client!AskNext, PeerNew
  <2>2. CASE cmdQ[p] = <<>>
    <3>1. poller'[p] = "waiting" /\ UNCHANGED <<held, cmdQ>>
      BY <1>4, <2>2 DEF Client!AskNext, Types, PeersOK
    <3> QED
      BY <1>0, <2>1, <3>1 DEF PeerNew, NewQ
  <2>3. CASE cmdQ[p] # <<>>
    <3>1. /\ poller'[p] = "holding" /\ held'[p] = Head(cmdQ[p])
          /\ cmdQ'[p] = Tail(cmdQ[p])
      BY <1>4, <2>3 DEF Client!AskNext, Types, PeersOK
    <3>2. Above(Tail(cmdQ[p]), oldSent[p]) /\ Head(cmdQ[p]) > oldSent[p]
      BY <1>0, <2>1, <2>3, AboveLists DEF NewQ
    <3> QED
      BY <1>0, <2>1, <3>1, <3>2 DEF PeerNew, NewQ
  <2> QED
    BY <2>2, <2>3
<1>5. CASE Client!Forward(p)
  <2>1. /\ UNCHANGED <<sent, cmdQ, proc, executed>> /\ poller[p] = "holding"
        /\ poller'[p] = "idle" /\ chan'[p] = Append(chan[p], held[p])
    BY <1>5 DEF Client!Forward, Client!queueVars, Types, PeersOK
  <2>2. held[p] > oldSent[p] /\ NewQ(p)
    BY <2>1 DEF PeerNew
  <2>3. Above(Append(chan[p], held[p]), oldSent[p])
    BY <1>0, <2>2, AboveLists
  <2> QED
    BY <1>0, <2>1, <2>2, <2>3 DEF PeerNew, NewQ
<1>6. CASE Client!TakeFromChan(p)
  <2>1. /\ UNCHANGED <<sent, cmdQ, poller, held>> /\ proc[p] = "running"
        /\ chan[p] # <<>> /\ chan'[p] = Tail(chan[p])
        /\ executed'[p] = Append(executed[p], Head(chan[p]))
    BY <1>6 DEF Client!TakeFromChan, Client!Execute, Client!queueVars, Types,
                PeersOK
  <2>2. /\ Above(Tail(chan[p]), oldSent[p]) /\ Head(chan[p]) > oldSent[p]
        /\ Head(chan[p]) \in Nat
    BY <1>0, <2>1, AboveLists, PoppedHead
  <2>3. Above(executed'[p], oldSent[p])
    BY <1>0, <2>1, <2>2, AboveLists
  <2>4. NewQ(p)
    BY <2>1 DEF PeerNew
  <2> QED
    BY <1>0, <2>1, <2>2, <2>3, <2>4 DEF PeerNew, NewQ
<1>7. CASE Client!TakeFromRedis(p)
  <2>1. /\ UNCHANGED <<sent, cmdQ, chan>> /\ proc[p] = "running"
        /\ poller[p] = "holding" /\ poller'[p] = "idle"
        /\ executed'[p] = Append(executed[p], held[p])
    BY <1>7 DEF Client!TakeFromRedis, Client!Execute, Client!queueVars, Types,
                PeersOK
  <2>2. held[p] > oldSent[p] /\ NewQ(p)
    BY <2>1 DEF PeerNew
  <2>3. Above(executed'[p], oldSent[p])
    BY <1>0, <2>1, <2>2, AboveLists
  <2> QED
    BY <1>0, <2>1, <2>2, <2>3 DEF PeerNew, NewQ
<1>8. CASE Client!Exit(p) \/ Client!Crash(p)
  <2>1. /\ UNCHANGED <<sent, cmdQ, executed>> /\ proc[p] # "absent"
        /\ Client!Perish(p)
    BY <1>8 DEF Client!Exit, Client!Crash, Client!Alive, Client!queueVars
  <2>2. chan'[p] = <<>> /\ poller'[p] = "off"
    BY <2>1, PerishEffect DEF Types, PeersOK
  <2>3. Above(chan'[p], oldSent[p])
    BY <2>2 DEF Above
  <2> QED
    BY <1>0, <2>1, <2>2, <2>3 DEF PeerNew, NewQ
<1> QED
  BY <1>2, <1>3a, <1>3b, <1>3c, <1>4, <1>5, <1>6, <1>7, <1>8
     DEF Client!Step, Client!Fault

(* Nor does a peer when another one takes a step.                          *)
LEMMA OtherPeer ==
  ASSUME Types, NEW q \in Peer, NEW p \in Peer, p # q,
         \/ Client!Step(q) \/ Client!Fault(q) \/ Client!Launch(q)
         \/ Client!Remove(q)
  PROVE  /\ sent'[p] = sent[p] /\ cmdQ'[p] = cmdQ[p]
         /\ poller'[p] = poller[p] /\ held'[p] = held[p]
         /\ chan'[p] = chan[p] /\ executed'[p] = executed[p]
         /\ proc'[p] = proc[p]
<1> USE DEF Types, PeersOK, Client!GoTo, Client!Set, Client!queueVars
<1>1a. CASE Client!Build(q) \/ Client!Wake(q) \/ Client!SetFails(q)
            \/ Client!Launch(q)
  BY <1>1a DEF Client!Build, Client!Wake, Client!SetFails, Client!Launch
<1>1b. CASE Client!Forget(q) \/ Client!Reconnect(q) \/ Client!BlpopFails(q)
  BY <1>1b DEF Client!Forget, Client!Reconnect, Client!BlpopFails
<1>2. CASE Client!ReportStarted(q) \/ Client!ReportAddr(q)
           \/ Client!ReportStopped(q) \/ Client!ReportRestarting(q)
  BY <1>2 DEF Client!ReportStarted, Client!ReportAddr, Client!ReportStopped,
              Client!ReportRestarting
<1>3. CASE Client!AskNext(q) \/ Client!Forward(q)
  BY <1>3 DEF Client!AskNext, Client!Forward
<1>4. CASE Client!TakeFromChan(q) \/ Client!TakeFromRedis(q)
  BY <1>4 DEF Client!TakeFromChan, Client!TakeFromRedis, Client!Execute
<1>5. CASE Client!Exit(q) \/ Client!Crash(q)
  BY <1>5 DEF Client!Exit, Client!Crash, Client!Perish
<1>6. CASE Client!Remove(q)
  BY <1>6 DEF Client!Remove, Client!Perish
<1> QED
  BY <1>1a, <1>1b, <1>2, <1>3, <1>4, <1>5, <1>6 DEF Client!Step, Client!Fault

(* Every step keeps old commands away from the peers, given that a peer is *)
(* launched only when its list was cleared.                                *)
LEMMA AllNew ==
  ASSUME Types, OldInv, [Next]_vars, NEW p \in Peer
  PROVE  PeerNew(p)' /\ (NewQ(p) => NewQ(p)')
<1>0. PeerNew(p) /\ oldSent' = oldSent
  BY HistoryStays DEF OldInv
<1>1. CASE UNCHANGED peerVars
  BY <1>0, <1>1, PeerUnchanged DEF peerVars
<1>2. CASE UNCHANGED vars \/ Quiet
  BY <1>1, <1>2, QuietEffect DEF vars, clientVars, peerVars
<1>3. ASSUME NEW q \in Peer, PeerStep(q) PROVE PeerNew(p)' /\ (NewQ(p) => NewQ(p)')
  <2>1. CASE p = q
    BY <1>0, <1>3, <2>1, PeerStepIsNew DEF PeerStep
  <2>2. CASE p # q
    BY <1>0, <1>3, <2>2, OtherPeer, PeerUnchanged DEF PeerStep
  <2> QED
    BY <2>1, <2>2
<1>4. CASE BootSend
  <2>1. CASE UNCHANGED clientVars
    BY <1>1, <2>1 DEF clientVars, peerVars
  <2>2. CASE Client!Push(Head(todo)[1], "other")
    BY <1>0, <1>4, <2>2, BootSendEffect, PushIsNew DEF Cmd
  <2> QED
    BY <1>4, <2>1, <2>2, BootSendEffect
<1>5. CASE SendOne \/ ShutdownOne
  <2>1. PICK h \in Peer, c \in Cmd : Client!Push(h, c)
    BY <1>5, HeadOfLoop DEF SendOne, ShutdownOne, At, Cmd
  <2> QED
    BY <1>0, <2>1, PushIsNew
<1>6. CASE Clear
  <2>1. PICK h \in Peer : /\ cmdQ' = [cmdQ EXCEPT ![h] = <<>>]
                          /\ UNCHANGED <<sent, proc, poller, held, chan, executed>>
    BY <1>6, HeadOfLoop DEF Clear, At
  <2>2. CASE p = h
    <3>1. NewQ(p)'
      BY <2>1, <2>2 DEF NewQ, Above, Types, PeersOK
    <3> QED
      BY <1>0, <2>1, <3>1 DEF PeerNew
  <2>3. CASE p # h
    <3>1. cmdQ'[p] = cmdQ[p]
      BY <2>1, <2>3 DEF Types, PeersOK
    <3> QED
      BY <1>0, <2>1, <3>1, PeerUnchanged
  <2> QED
    BY <2>2, <2>3
<1>7. CASE Launch
  <2>1. PICK h \in Peer : Client!Launch(h)
    BY <1>7, HeadOfLoop DEF Launch, At
  <2>2. CASE p = h
    <3>1. NewQ(p) /\ UNCHANGED <<sent, cmdQ, poller, held, chan, executed>>
      BY <1>7, <2>1, LaunchEffect DEF OldInv, Launch, At, Types
    <3> QED
      BY <1>0, <3>1 DEF PeerNew, NewQ
  <2>3. CASE p # h
    BY <1>0, <2>1, <2>3, OtherPeer, PeerUnchanged
  <2> QED
    BY <2>2, <2>3
<1>8. CASE Remove
  <2>1. PICK h \in Peer : Client!Remove(h)
    BY <1>8, HeadOfLoop DEF Remove, At
  <2>2. CASE p = h
    <3>1. UNCHANGED <<sent, cmdQ, executed>> /\ proc'[p] = "absent"
      BY <2>1, <2>2, RemoveEffect DEF Types, PeersOK
    <3>2. CASE Client!Alive(p)
      <4>1. proc[p] # "absent" /\ chan'[p] = <<>> /\ poller'[p] # "holding"
        BY <2>1, <2>2, <3>2, PerishEffect
           DEF Client!Remove, Client!Alive, Types, PeersOK
      <4>2. Above(chan'[p], oldSent[p])
        BY <4>1 DEF Above
      <4> QED
        BY <1>0, <3>1, <4>1, <4>2 DEF PeerNew, NewQ
    <3>3. CASE ~Client!Alive(p)
      <4>1. UNCHANGED <<poller, held, chan>>
        BY <2>1, <2>2, <3>3 DEF Client!Remove
      <4> QED
        BY <1>0, <3>1, <4>1 DEF PeerNew, NewQ
    <3> QED
      BY <3>2, <3>3
  <2>3. CASE p # h
    BY <1>0, <2>1, <2>3, OtherPeer, PeerUnchanged
  <2> QED
    BY <2>2, <2>3
<1> QED
  BY <1>2, <1>3, <1>4, <1>5, <1>6, <1>7, <1>8, NextSplit

(* The phase clear goes through every peer before the phase launch.        *)
LEMMA ClearFlow ==
  ASSUME Types, [Next]_vars
  PROVE  /\ main' = "clear" =>
              \/ todo' = PeerSeq
              \/ main = "clear" /\ todo' = todo
              \/ main = "clear" /\ Clear
         /\ main' = "launch" =>
              main = "launch" \/ (main = "clear" /\ todo = <<>>)
<1>1. CASE UNCHANGED <<main, todo>>
  BY <1>1
<1>2. CASE StartRedis \/ SetUp \/ SetUpDone \/ ClearDone \/ Spawn
  BY <1>2 DEF StartRedis, SetUp, SetUpDone, ClearDone, Spawn, GoTo, At, Done,
              NextItem
<1>3. CASE StartExpired \/ StartTop \/ StartCheck \/ BootWait \/ BootDone
  BY <1>3 DEF StartExpired, StartTop, StartCheck, BootWait, BootDone, GoTo
<1>4. CASE Tick \/ NextBatch \/ AllSent \/ NoKey \/ AutoShutdown \/ AutoCheck
  BY <1>4 DEF Tick, NextBatch, AllSent, NoKey, AutoShutdown, AutoCheck, GoTo
<1>5. CASE ShutdownDone
  BY <1>5 DEF ShutdownDone, GoTo, Done, Types, TypeOK, ListsOK
<1>6. CASE StopExpired \/ StopTop \/ StopCheck \/ Joined \/ StopRedis
           \/ Drop \/ SignalBranch \/ Quit
  BY <1>6 DEF StopExpired, StopTop, StopCheck, Joined, StopRedis, Drop,
              SignalBranch, Quit, GoTo
<1>7. CASE UNCHANGED vars \/ Signal \/ Clock \/ BatchDue
  BY <1>1, <1>7 DEF vars, Signal, Clock, BatchDue
<1>8. CASE RedisFails \/ SetUpFails \/ ClearFails \/ LaunchFails
           \/ BootFails \/ RenderPanics \/ TuiFails
  BY <1>8 DEF RedisFails, SetUpFails, ClearFails, LaunchFails, BootFails,
              RenderPanics, TuiFails, Bail, GoTo
<1>9. CASE PushFails \/ RemoveFails
  BY <1>9 DEF PushFails, RemoveFails, At, NextItem
<1>10. ASSUME NEW p \in Peer, \/ Observe(p) \/ MonitorStops(p)
                              \/ MonitorDies(p) \/ PeerStep(p)
       PROVE  UNCHANGED <<main, todo>>
  BY <1>10 DEF Observe, MonitorStops, MonitorDies, PeerStep
<1>11. CASE Clear \/ Launch \/ BootSend \/ SendOne \/ ShutdownOne \/ Remove
  BY <1>11 DEF Clear, Launch, BootSend, SendOne, ShutdownOne, Remove, At,
               NextItem
<1>12. CASE Quiet
  BY <1>2, <1>3, <1>4, <1>5, <1>6, <1>7, <1>8, <1>9, <1>10, <1>12
     DEF Quiet, Failure
<1> QED
  BY <1>7, <1>10, <1>11, <1>12, NextSplit

(* No step hands an old command to a peer.                                 *)
LEMMA OldStep == ASSUME Types, OldInv, [Next]_vars PROVE OldInv'
<1>1. ASSUME main' = "clear", NEW p \in Peer
      PROVE  NewQ(p)' \/ p \in Entries(todo')
  <2>1. CASE todo' = PeerSeq
    BY <2>1, AllListed
  <2>2. CASE main = "clear" /\ todo' = todo
    BY <2>2, AllNew DEF OldInv
  <2>3. CASE main = "clear" /\ Clear
    <3>1. /\ todo # <<>> /\ todo' = Tail(todo) /\ todo \in Seq(Peer)
          /\ Head(todo) \in Peer
      BY <2>3, HeadOfLoop DEF Clear, At, NextItem, Types, ListsOK
    <3>2. p \in Entries(todo) => p = Head(todo) \/ p \in Entries(todo')
      BY <3>1, Rest
    <3>3. p = Head(todo) => NewQ(p)'
      BY <2>3, <3>1 DEF Clear, NewQ, Above, Types, PeersOK
    <3> QED
      BY <2>3, <3>2, <3>3, AllNew DEF OldInv
  <2> QED
    BY <1>1, <2>1, <2>2, <2>3, ClearFlow
<1>2. ASSUME main' = "launch", NEW p \in Peer PROVE NewQ(p)'
  <2>1. CASE main = "launch"
    BY <2>1, AllNew DEF OldInv
  <2>2. CASE main = "clear" /\ todo = <<>>
    <3>1. Entries(todo) = {}
      BY <2>2 DEF Entries
    <3> QED
      BY <2>2, <3>1, AllNew DEF OldInv
  <2> QED
    BY <1>2, <2>1, <2>2, ClearFlow
<1> QED
  BY <1>1, <1>2, AllNew DEF OldInv

(* What an earlier run left in Redis is executed by no peer.               *)
THEOREM NothingOldExecuted == Spec => []NoOldCommand
<1>1. OldInv => NoOldCommand
  BY DEF OldInv, PeerNew, Above, NoOldCommand
<1>2. Types /\ OldInv /\ [Next]_vars => OldInv'
  BY OldStep
<1>3. Init => OldInv
  BY OldInit
<1> QED
  BY TypesInit, TypesStep, <1>1, <1>2, <1>3, PTL DEF Spec

-----------------------------------------------------------------------------
(* Bootstrap addresses.                                                    *)

ToldOf(b) == \E t \in told : <<t[1], t[2]>> = b

(* The command for b was not sent: the wait had timed out, and the         *)
(* bootstrap peer had said "started" alone.                                *)
Waited(b) == "bootstrap" \in gaveUp /\ SaidPlainly(b[2])

(* With no old "started" in Redis, an address known of a peer is its own,  *)
(* and a peer seen to have started has one or has said so without.         *)
BootInv ==
  /\ SeenInv /\ OldWords
  /\ \A p \in Peer : \A i \in 1 .. Len(writes[p]) :
       writes[p][i].base = "started" =>
         writes[p][i].addr = p \/ writes[p][i] = Client!Bare
  /\ \A p \in Peer :
       /\ info[p] \in {NoAddr, p}
       /\ status[p] = "started" => info[p] = p \/ SaidPlainly(p)
  /\ AtBoot => \A p \in Peer : info[p] = p \/ SaidPlainly(p)
  /\ \A t \in told : t[3] = t[2]
  /\ main = "bootSend" =>
       \A k \in 1 .. Len(BootSeq) :
         /\ "bootstrap" \in gaveUp \/ info[BootSeq[k][2]] # NoAddr
         /\ \/ ToldOf(BootSeq[k]) \/ BootSeq[k] \in Entries(todo)
            \/ Waited(BootSeq[k])
  /\ Runs => \A k \in 1 .. Len(BootSeq) : ToldOf(BootSeq[k]) \/ Waited(BootSeq[k])

(* At first no address is known.                                           *)
LEMMA BootInit == ASSUME Init, NoOldStart PROVE BootInv
<1>1. \A p \in Peer : oldWrites[p] = Len(writes[p])
  BY DEF Init
<1>2. SeenInv /\ OldWords
  BY SeenInit, OldWordsInit
<1> QED
  BY <1>1, <1>2
     DEF Init, OldWords, BootInv, AtBoot, Runs, TestRuns

(* Whoever SETs "started" gives its own address or none.                   *)
LEMMA OwnAddress ==
  ASSUME Types, BootInv, [Next]_vars, NEW p \in Peer,
         NEW i \in 1 .. Len(writes'[p]), writes'[p][i].base = "started"
  PROVE  writes'[p][i].addr = p \/ writes'[p][i] = Client!Bare
<1>1. writes[p] \in Seq(Report) /\ Len(writes[p]) \in Nat
  BY DEF Types, PeersOK
<1>2. CASE i \in 1 .. Len(writes[p])
  BY <1>2, OldStays DEF BootInv
<1>3. CASE i \notin 1 .. Len(writes[p])
  <2>1. writes'[p] # writes[p]
    BY <1>3
  <2>2. \E r \in Words(p) : writes'[p] = Append(writes[p], r)
    BY <2>1, OnePeer DEF Words
  <2>3. PICK r \in Words(p) : writes'[p] = Append(writes[p], r)
    BY <2>2
  <2>4. r \in Report
    BY WordsAre
  <2>5. /\ Len(writes'[p]) = Len(writes[p]) + 1
        /\ writes'[p][Len(writes[p]) + 1] = r
    BY <1>1, <2>3, <2>4, Grown
  <2>6. i = Len(writes[p]) + 1
    BY <1>1, <1>3, <2>5
  <2>7. r.base = "started" => r.addr = p \/ r = Client!Bare
    BY WordsAre DEF Words
  <2> QED
    BY <2>5, <2>6, <2>7
<1> QED
  BY <1>2, <1>3

(* A peer that has said "started" alone has always done so.                *)
LEMMA PlainlyStays ==
  ASSUME Types, SeenInv, [Next]_vars, NEW p \in Peer, SaidPlainly(p)
  PROVE  SaidPlainly(p)'
<1>1. PICK i \in oldWrites[p] + 1 .. Len(writes[p]) : writes[p][i] = Client!Bare
  BY DEF SaidPlainly
<1>2. /\ oldWrites'[p] = oldWrites[p] /\ oldWrites[p] \in {0, 1}
  BY HistoryStays DEF SeenInv
<1>3. i \in 1 .. Len(writes[p]) /\ i \in oldWrites'[p] + 1 .. Len(writes'[p])
  BY <1>1, <1>2, OldStays
<1>4. writes'[p][i] = writes[p][i]
  BY <1>3, OldStays
<1>5. writes'[p][i] = Client!Bare
  BY <1>1, <1>4
<1> QED
  BY <1>3, <1>5 DEF SaidPlainly, Client!Bare

(* A monitor learns of its peer the address it gave in this run.           *)
LEMMA OwnInfo ==
  ASSUME Types, BootInv, [Next]_vars, NEW p \in Peer
  PROVE  /\ info'[p] \in {NoAddr, p}
         /\ status'[p] = "started" => info'[p] = p \/ SaidPlainly(p)'
         /\ info[p] = p => info'[p] = p
         /\ SaidPlainly(p) => SaidPlainly(p)'
<1>0. SaidPlainly(p) => SaidPlainly(p)'
  BY PlainlyStays DEF BootInv
<1>1. CASE seen'[p] = seen[p] /\ status'[p] = status[p] /\ info'[p] = info[p]
  BY <1>0, <1>1 DEF BootInv
<1>2. CASE /\ seen'[p] \in 1 .. Len(writes[p])
           /\ status'[p] = writes[p][seen'[p]].base
           /\ info'[p] = IF /\ writes[p][seen'[p]].base = "started"
                            /\ writes[p][seen'[p]].addr # NoAddr
                         THEN writes[p][seen'[p]].addr ELSE info[p]
  <2>1. PICK i \in 1 .. Len(writes[p]) : i = seen'[p]
    BY <1>2
  <2>2. p # NoAddr /\ info[p] \in {NoAddr, p} /\ Client!Bare.addr = NoAddr
    BY RunAssumption DEF BootInv, Client!Bare
  <2>3. CASE writes[p][i].base # "started"
    BY <1>0, <1>2, <2>1, <2>2, <2>3
  <2>4. CASE writes[p][i].base = "started" /\ writes[p][i].addr = p
    BY <1>0, <1>2, <2>1, <2>2, <2>4
  <2>5. CASE writes[p][i].base = "started" /\ writes[p][i] = Client!Bare
    <3>1. i \notin 1 .. oldWrites[p]
      BY <2>5 DEF BootInv, OldWords
    <3>2. oldWrites[p] \in {0, 1} /\ Len(writes[p]) \in Nat
      BY OldStays DEF BootInv, SeenInv
    <3>3. i \in oldWrites[p] + 1 .. Len(writes[p])
      BY <3>1, <3>2
    <3>4. SaidPlainly(p)
      BY <2>5, <3>3 DEF SaidPlainly
    <3>5. info'[p] = info[p]
      BY <1>2, <2>1, <2>2, <2>5
    <3> QED
      BY <1>0, <2>2, <3>4, <3>5
  <2> QED
    BY <2>3, <2>4, <2>5 DEF BootInv
<1> QED
  BY <1>1, <1>2, ViewMoves

(* What is told, and when.                                                 *)
LEMMA BootFlow ==
  ASSUME Types, [Next]_vars
  PROVE  /\ told' = told \/ BootSend
         /\ main' = "bootSend" =>
              \/ BootWait /\ todo' = BootSeq
              \/ main = "bootSend" /\ todo' = todo
              \/ main = "bootSend" /\ BootSend
<1>0. CASE UNCHANGED <<main, todo, told>>
  BY <1>0
<1>1. CASE UNCHANGED vars \/ Signal \/ Clock \/ BatchDue
  BY <1>0, <1>1 DEF vars, histVars, Signal, Clock, BatchDue
<1>2. CASE StartRedis \/ SetUp \/ SetUpDone \/ ClearDone \/ Spawn
  BY <1>2 DEF StartRedis, SetUp, SetUpDone, ClearDone, Spawn, GoTo, At,
              NextItem, histVars
<1>3a. CASE StartExpired \/ StartTop \/ StartCheck \/ BootDone
  BY <1>3a DEF StartExpired, StartTop, StartCheck, BootDone, GoTo, histVars
<1>3b. CASE BootWait
  <2>1. told' = told /\ todo' = BootSeq
    BY <1>3b DEF BootWait, GoTo
  <2> QED
    BY <1>3b, <2>1
<1>4. CASE Tick \/ NextBatch \/ AllSent \/ NoKey \/ AutoShutdown \/ AutoCheck
  BY <1>4 DEF Tick, NextBatch, AllSent, NoKey, AutoShutdown, AutoCheck, GoTo,
              histVars
<1>5. CASE ShutdownDone
  BY <1>5 DEF ShutdownDone, GoTo, Done, Types, TypeOK, ListsOK, histVars
<1>6. CASE StopExpired \/ StopTop \/ StopCheck \/ Joined \/ StopRedis
           \/ Drop \/ SignalBranch \/ Quit
  BY <1>6 DEF StopExpired, StopTop, StopCheck, Joined, StopRedis, Drop,
              SignalBranch, Quit, GoTo, histVars
<1>7. CASE RedisFails \/ SetUpFails \/ ClearFails \/ LaunchFails
           \/ BootFails \/ RenderPanics \/ TuiFails
  BY <1>7 DEF RedisFails, SetUpFails, ClearFails, LaunchFails, BootFails,
              RenderPanics, TuiFails, Bail, GoTo, Fails
<1>8. CASE PushFails \/ RemoveFails
  BY <1>8 DEF PushFails, RemoveFails, At, NextItem, Fails
<1>9. ASSUME NEW p \in Peer, \/ Observe(p) \/ MonitorStops(p)
                             \/ MonitorDies(p) \/ PeerStep(p)
      PROVE  UNCHANGED <<main, todo, told>>
  BY <1>9 DEF Observe, MonitorStops, MonitorDies, PeerStep, Fails, histVars
<1>10. CASE Clear \/ Launch \/ SendOne \/ ShutdownOne \/ Remove
  BY <1>10 DEF Clear, Launch, SendOne, ShutdownOne, Remove, At, NextItem,
               histVars
<1>11. CASE BootSend
  BY <1>11, BootSendEffect
<1>12. CASE Quiet
  BY <1>1, <1>2, <1>3a, <1>3b, <1>4, <1>5, <1>6, <1>7, <1>8, <1>9, <1>12
     DEF Quiet, Failure
<1> QED
  BY <1>1, <1>9, <1>10, <1>11, <1>12, NextSplit

(* No step tells a peer a wrong address, or skips one that is known.       *)
LEMMA BootStep == ASSUME Types, BootInv, [Next]_vars PROVE BootInv'
<1>1. SeenInv' /\ OldWords'
  BY SeenStep, OldWordsStep DEF BootInv
<1>2. ASSUME AtBoot', NEW p \in Peer PROVE info'[p] = p \/ SaidPlainly(p)'
  <2>1. AtBoot \/ All("started")
    BY <1>2, Flow
  <2>2. info[p] = p \/ SaidPlainly(p)
    BY <2>1 DEF All, BootInv
  <2> QED
    BY <2>2, OwnInfo
<1>3. \A k \in 1 .. Len(BootSeq) : BootSeq[k] \in Peer \X Peer
  BY ListsTyped, ElementOfSeq
<1>4. ASSUME BootSend
      PROVE  /\ todo # <<>> /\ todo' = Tail(todo) /\ main = "bootSend"
             /\ todo \in Seq(Peer \X Peer) /\ Head(todo) \in Peer \X Peer
             /\ \/ info[Head(todo)[2]] = NoAddr /\ told' = told
                \/ told' = told \cup {<<Head(todo)[1], Head(todo)[2],
                                        Head(todo)[2]>>}
  <2>1. /\ main = "bootSend" /\ todo # <<>> /\ todo' = Tail(todo)
        /\ Head(todo)[1] \in Peer /\ Head(todo)[2] \in Peer
        /\ \/ info[Head(todo)[2]] = NoAddr /\ told' = told
           \/ /\ info[Head(todo)[2]] # NoAddr
              /\ told' = told \cup {<<Head(todo)[1], Head(todo)[2],
                                      info[Head(todo)[2]]>>}
    BY <1>4, BootSendEffect DEF NextItem
  <2>2. info[Head(todo)[2]] \in {NoAddr, Head(todo)[2]}
    BY <2>1 DEF BootInv
  <2>3. todo \in Seq(Peer \X Peer) /\ Head(todo) \in Peer \X Peer
    BY <2>1, Popped DEF Types, ListsOK
  <2> QED
    BY <2>1, <2>2, <2>3
<1>5. told \subseteq told' /\ \A t \in told' : t[3] = t[2]
  <2>1. CASE told' = told
    BY <2>1 DEF BootInv
  <2>2. CASE BootSend
    BY <1>4, <2>2 DEF BootInv
  <2> QED
    BY <2>1, <2>2, BootFlow
<1>6. \A k \in 1 .. Len(BootSeq) :
        /\ ToldOf(BootSeq[k]) => ToldOf(BootSeq[k])'
        /\ Waited(BootSeq[k]) => Waited(BootSeq[k])'
  BY <1>3, <1>5, OwnInfo, HistoryStays DEF ToldOf, Waited
<1>7. ASSUME main' = "bootSend", NEW k \in 1 .. Len(BootSeq)
      PROVE  "bootstrap" \in gaveUp' \/ info'[BootSeq[k][2]] # NoAddr
  <2>1. PICK q \in Peer : q = BootSeq[k][2]
    BY <1>3
  <2>2. CASE BootWait
    <3>1. "bootstrap" \in gaveUp' \/ info[q] # NoAddr
      BY <2>1, <2>2 DEF BootWait
    <3>2. info' = info
      BY <2>2 DEF BootWait, viewVars
    <3> QED
      BY <2>1, <3>1, <3>2
  <2>3. CASE main = "bootSend"
    <3>1. "bootstrap" \in gaveUp \/ info[q] # NoAddr
      BY <2>1, <2>3 DEF BootInv
    <3>2. info[q] # NoAddr => info'[q] # NoAddr
      BY OwnInfo, RunAssumption DEF BootInv
    <3> QED
      BY <2>1, <3>1, <3>2, HistoryStays
  <2> QED
    BY <1>7, <2>2, <2>3, BootFlow
<1>8. ASSUME main' = "bootSend", NEW k \in 1 .. Len(BootSeq)
      PROVE  \/ ToldOf(BootSeq[k])' \/ BootSeq[k] \in Entries(todo')
             \/ Waited(BootSeq[k])'
  <2>1. CASE todo' = BootSeq
    BY <2>1 DEF Entries
  <2>2. CASE main = "bootSend" /\ todo' = todo
    BY <1>6, <2>2 DEF BootInv
  <2>3. CASE main = "bootSend" /\ BootSend
    <3>1. \/ ToldOf(BootSeq[k]) \/ BootSeq[k] \in Entries(todo)
          \/ Waited(BootSeq[k])
      BY <2>3 DEF BootInv
    <3>2. BootSeq[k] \in Entries(todo) =>
            BootSeq[k] = Head(todo) \/ BootSeq[k] \in Entries(todo')
      BY <1>4, <2>3, Rest
    <3>3. ASSUME BootSeq[k] = Head(todo),
                 told' = told \cup {<<Head(todo)[1], Head(todo)[2],
                                      Head(todo)[2]>>}
          PROVE  ToldOf(BootSeq[k])'
      <4>1. /\ <<Head(todo)[1], Head(todo)[2], Head(todo)[2]>> \in told'
            /\ <<Head(todo)[1], Head(todo)[2]>> = Head(todo)
        BY <1>4, <2>3, <3>3
      <4> QED
        BY <3>3, <4>1 DEF ToldOf
    <3>4. ASSUME BootSeq[k] = Head(todo), info[Head(todo)[2]] = NoAddr
          PROVE  Waited(BootSeq[k])
      <4>1. PICK q \in Peer : q = BootSeq[k][2]
        BY <1>3
      <4>2. "bootstrap" \in gaveUp
        BY <2>3, <3>4 DEF BootInv
      <4>3. SaidPlainly(q)
        BY <2>3, <3>4, <4>1, RunAssumption DEF BootInv, AtBoot
      <4> QED
        BY <4>1, <4>2, <4>3 DEF Waited
    <3> QED
      BY <1>4, <1>6, <2>3, <3>1, <3>2, <3>3, <3>4
  <2> QED
    BY <1>8, <2>1, <2>2, <2>3, BootFlow
<1>9. ASSUME Runs', NEW k \in 1 .. Len(BootSeq)
      PROVE  ToldOf(BootSeq[k])' \/ Waited(BootSeq[k])'
  <2>1. CASE Runs
    BY <1>6, <2>1 DEF BootInv
  <2>2. CASE main = "bootSend" /\ todo = <<>>
    <3>1. Entries(todo) = {}
      BY <2>2 DEF Entries
    <3> QED
      BY <1>6, <2>2, <3>1 DEF BootInv
  <2> QED
    BY <1>9, <2>1, <2>2, Flow
<1> QED
  BY <1>1, <1>2, <1>5, <1>7, <1>8, <1>9, OwnAddress, OwnInfo DEF BootInv

(* If no status of an earlier run says "started", every peer is told the   *)
(* true address of each of its bootstrap peers before the timeline begins, *)
(* unless the wait for it timed out and the bootstrap peer had said        *)
(* "started" without one.                                                  *)
THEOREM ToldTheTruth == NoOldStart /\ Spec => []BootstrapTrue
<1>1. NoOldStart /\ Init => BootInv
  BY BootInit
<1>2. Types /\ BootInv /\ [Next]_vars => BootInv'
  BY BootStep
<1>3. BootInv => BootstrapTrue
  BY DEF BootInv, BootstrapTrue, Runs, ToldOf, Waited
<1> QED
  BY TypesInit, TypesStep, <1>1, <1>2, <1>3, PTL DEF Spec

=============================================================================
