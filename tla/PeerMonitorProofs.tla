------------------------- MODULE PeerMonitorProofs -------------------------
(***************************************************************************)
(* Proofs about PeerMonitor, for any statuses, levels and bounds.          *)
(***************************************************************************)
EXTENDS PeerMonitor, ListLemmas

(* PeerState.logs grows at its end.                                        *)
LEMMA LogJoins ==
  ASSUME NEW S, NEW s \in Seq(S), NEW e \in S,
         \A k \in 1 .. Len(s) : s[k].of # e.of,
         \A i, j \in 1 .. Len(s) : s[i].of = s[j].of => i = j
  PROVE  LET t == Append(s, e) IN
         /\ {t[k].of : k \in 1 .. Len(t)} = {s[k].of : k \in 1 .. Len(s)} \cup {e.of}
         /\ \A i, j \in 1 .. Len(t) : t[i].of = t[j].of => i = j
<1> DEFINE t == Append(s, e)
<1>1. /\ Len(t) = Len(s) + 1 /\ t[Len(s) + 1] = e
      /\ \A k \in 1 .. Len(s) : t[k] = s[k]
  BY AppendProperties
<1>2. Len(s) \in Nat
  OBVIOUS
<1> HIDE DEF t
<1>3. \A k \in 1 .. Len(t) : k = Len(s) + 1 \/ k \in 1 .. Len(s)
  BY <1>1, <1>2
<1>4. \A k \in 1 .. Len(s) : k \in 1 .. Len(t)
  BY <1>1, <1>2
<1>5. Len(s) + 1 \in 1 .. Len(t)
  BY <1>1, <1>2
<1>6. {t[k].of : k \in 1 .. Len(t)} = {s[k].of : k \in 1 .. Len(s)} \cup {e.of}
  <2>1. ASSUME NEW k \in 1 .. Len(t)
        PROVE  t[k].of \in {s[i].of : i \in 1 .. Len(s)} \cup {e.of}
    BY <1>1, <1>3
  <2>2. ASSUME NEW k \in 1 .. Len(s)
        PROVE  s[k].of \in {t[i].of : i \in 1 .. Len(t)}
    BY <1>1, <1>4
  <2>3. e.of \in {t[i].of : i \in 1 .. Len(t)}
    BY <1>1, <1>5
  <2> QED
    BY <2>1, <2>2, <2>3
<1>7. \A i, j \in 1 .. Len(t) : t[i].of = t[j].of => i = j
  BY <1>1, <1>3
<1> QED
  BY <1>6, <1>7 DEF t

-----------------------------------------------------------------------------
(* Types.                                                                  *)

(* The types hold at first.                                                *)
LEMMA TypeInit == ASSUME Init PROVE TypeOK
<1>1. CASE writes = <<>>
  BY <1>1 DEF Init, EnableNotifications, TypeOK
<1>2. ASSUME NEW r \in Raw, writes = <<r>> PROVE TypeOK
  <2>1. writes \in Seq(Raw) /\ Len(writes) = 1
    BY <1>2
  <2> QED
    BY <2>1 DEF Init, EnableNotifications, TypeOK
<1> QED
  BY <1>1, <1>2 DEF Init, EnableNotifications

(* The parts of a raw status, and what PeerState keeps of one.             *)
LEMMA RawParts ==
  ASSUME NEW r \in Raw, NEW old \in Addr \cup {NoAddr}
  PROVE  r.base \in Base /\ InfoAfter(r, old) \in Addr \cup {NoAddr}
<1> QED
  BY DEF Raw, InfoAfter

(* Every step of the system keeps the types.                               *)
LEMMA TypeStep == ASSUME TypeOK, AllThere, [Next]_vars PROVE TypeOK'
<1> USE DEF redisVars, logVars, viewVars
<1>1. ASSUME NEW r \in Raw, SetStatus(r) PROVE TypeOK'
  <2>1. writes' \in Seq(Raw) /\ Len(writes') = Len(writes) + 1
    BY <1>1 DEF SetStatus, TypeOK
  <2>2. notices' \in Nat
    BY <1>1 DEF SetStatus, TypeOK
  <2>3. UNCHANGED <<notify, pc, token, events, faults, logVars, viewVars>>
    BY <1>1 DEF SetStatus
  <2> QED
    BY <2>1, <2>2, <2>3 DEF TypeOK
<1>2. ASSUME NEW l \in Level \cup {NoBar}, PushLog(l) PROVE TypeOK'
  <2>1. pushed' \in Seq(Level \cup {NoBar}) /\ Len(pushed') = Len(pushed) + 1
    BY <1>2 DEF PushLog, TypeOK
  <2>2. \/ /\ orphans > 0 /\ orphans' = orphans - 1
           /\ lost' = lost \cup {Len(pushed) + 1}
           /\ UNCHANGED <<logQ, blpop, reply>>
        \/ /\ blpop' = "replied" /\ reply' = Len(pushed) + 1
           /\ UNCHANGED <<logQ, orphans, lost>>
        \/ /\ logQ' = <<Len(pushed) + 1>> \o logQ
           /\ UNCHANGED <<orphans, blpop, reply, lost>>
    BY <1>2 DEF PushLog
  <2>3. UNCHANGED <<pc, token, logs, events, skipped, faults, redisVars,
                    viewVars>>
    BY <1>2 DEF PushLog
  <2>4. /\ logQ \in Seq(Nat) /\ orphans \in Nat
        /\ Len(pushed) \in Nat /\ Len(pushed) + 1 \in 1 .. Len(pushed')
        /\ 1 .. Len(pushed) \subseteq 1 .. Len(pushed')
        /\ reply \in IF blpop = "replied" THEN 1 .. Len(pushed) ELSE {0}
        /\ blpop \in {"none", "waiting", "replied"}
        /\ lost \subseteq 1 .. Len(pushed) /\ skipped \subseteq 1 .. Len(pushed)
    BY <2>1 DEF TypeOK
  <2>5. logQ' \in Seq(Nat)
    <3>1. logQ' = logQ \/ logQ' = <<Len(pushed) + 1>> \o logQ
      BY <2>2
    <3>2. logQ \in Seq(Nat) /\ Len(pushed) + 1 \in Nat
      BY <2>4
    <3> QED
      BY <3>1, <3>2, PushedHead
  <2>6. orphans' \in Nat /\ blpop' \in {"none", "waiting", "replied"}
    BY <2>2, <2>4
  <2>7. reply' \in IF blpop' = "replied" THEN 1 .. Len(pushed') ELSE {0}
    <3>1. CASE UNCHANGED <<blpop, reply>>
      BY <2>4, <3>1
    <3> QED
      BY <2>2, <2>4, <3>1
  <2>8. lost' \subseteq 1 .. Len(pushed') /\ skipped' \subseteq 1 .. Len(pushed')
    BY <2>2, <2>3, <2>4
  <2> QED
    BY <2>1, <2>3, <2>5, <2>6, <2>7, <2>8 DEF TypeOK
<1>3. CASE Subscribe
  BY <1>3 DEF Subscribe, TypeOK
<1>4. CASE ServeGet
  BY <1>4 DEF ServeGet, TypeOK
<1>5. CASE ProcessStatus
  <2>1. /\ pc' = "select"
        /\ UNCHANGED <<fetched, lastGet, token, faults, redisVars, logVars>>
    BY <1>5 DEF ProcessStatus
  <2>2. CASE Unchanged(fetched)
    <3>1. UNCHANGED <<last, status, info, events>>
      BY <1>5, <2>2 DEF ProcessStatus
    <3> QED
      BY <2>1, <3>1 DEF TypeOK
  <2>3. CASE ~Unchanged(fetched)
    <3>1. /\ last' = fetched
          /\ status' = writes[fetched].base
          /\ info' = InfoAfter(writes[fetched], info)
          /\ events' = Append(events, [kind |-> "status", of |-> fetched])
      BY <1>5, <2>3 DEF ProcessStatus
    <3>2. fetched \in 1 .. Len(writes) /\ writes[fetched] \in Raw
      BY <2>3 DEF Unchanged, TypeOK
    <3>3. status' \in Base /\ info' \in Addr \cup {NoAddr}
      BY <3>1, <3>2, RawParts DEF TypeOK
    <3>4. fetched \in Nat /\ events \in Seq([kind : {"log", "status"}, of : Nat])
      BY DEF TypeOK
    <3>5. events' \in Seq([kind : {"log", "status"}, of : Nat])
      BY <3>1, <3>4
    <3> QED
      BY <2>1, <3>1, <3>3, <3>5 DEF TypeOK
  <2> QED
    BY <2>2, <2>3
<1>6. ASSUME AbandonBlpop
      PROVE  /\ orphans' \in Nat /\ blpop' = "none" /\ reply' = 0
             /\ lost' \subseteq 1 .. Len(pushed)
             /\ UNCHANGED <<pushed, logQ, logs, skipped>>
  BY <1>6 DEF AbandonBlpop, TypeOK
<1>7. CASE Notify
  <2>1. /\ pc' = "fetch" /\ notices' \in Nat
        /\ UNCHANGED <<writes, notify, token, events, faults, viewVars>>
    BY <1>7 DEF Notify, TypeOK
  <2>2. AbandonBlpop
    BY <1>7 DEF Notify
  <2> QED
    BY <1>6, <2>1, <2>2 DEF TypeOK
<1>8. CASE IssueBlpop
  <2>1. /\ blpop' \in {"waiting", "replied"}
        /\ UNCHANGED <<pc, token, events, faults, pushed, orphans, logs,
                       skipped, lost, redisVars, viewVars>>
    BY <1>8 DEF IssueBlpop
  <2>2. \/ /\ logQ # <<>> /\ blpop' = "replied"
           /\ logQ' = Tail(logQ) /\ reply' = Head(logQ)
        \/ blpop' = "waiting" /\ UNCHANGED <<logQ, reply>>
    BY <1>8 DEF IssueBlpop
  <2>3. logQ \in Seq(Nat)
    BY DEF TypeOK
  <2>4. logQ' \in Seq(Nat)
    BY <2>2, <2>3, PoppedHead
  <2>5. reply' \in IF blpop' = "replied" THEN 1 .. Len(pushed') ELSE {0}
    <3>1. CASE logQ # <<>> /\ blpop' = "replied" /\ reply' = Head(logQ)
      <4>1. Head(logQ) = logQ[1] /\ 1 \in 1 .. Len(logQ)
        BY <2>3, <3>1, PoppedHead, EmptySeq
      <4>2. Head(logQ) \in 1 .. Len(pushed)
        BY <4>1 DEF AllThere, Queued
      <4> QED
        BY <2>1, <3>1, <4>2
    <3>2. CASE blpop' = "waiting" /\ reply' = reply
      BY <1>8, <3>2 DEF TypeOK, IssueBlpop
    <3> QED
      BY <2>2, <3>1, <3>2
  <2> QED
    BY <2>1, <2>4, <2>5 DEF TypeOK
<1>9. CASE TakeLog
  <2>1. /\ blpop' = "none" /\ reply' = 0
        /\ UNCHANGED <<pc, token, faults, pushed, logQ, orphans, lost,
                       redisVars, viewVars>>
    BY <1>9 DEF TakeLog
  <2>2. reply \in 1 .. Len(pushed) /\ pushed[reply] \in Level \cup {NoBar}
    BY <1>9 DEF TakeLog, TypeOK
  <2>3. CASE pushed[reply] = NoBar
    <3>1. skipped' = skipped \cup {reply} /\ UNCHANGED <<logs, events>>
      BY <1>9, <2>3 DEF TakeLog
    <3> QED
      BY <2>1, <2>2, <3>1 DEF TypeOK
  <2>4. CASE pushed[reply] # NoBar
    <3>1. /\ logs' = Append(logs, [of |-> reply,
                                   level |-> Canonical(pushed[reply])])
          /\ events' = Append(events, [kind |-> "log", of |-> reply])
          /\ UNCHANGED skipped
      BY <1>9, <2>4 DEF TakeLog
    <3>2. Canonical(pushed[reply]) \in KnownLevel
      BY DEF Canonical, KnownLevel
    <3>3. /\ reply \in Nat
          /\ logs \in Seq([of : Nat, level : KnownLevel])
          /\ events \in Seq([kind : {"log", "status"}, of : Nat])
      BY <2>2 DEF TypeOK
    <3>4. logs' \in Seq([of : Nat, level : KnownLevel])
      BY <3>1, <3>2, <3>3
    <3>5. events' \in Seq([kind : {"log", "status"}, of : Nat])
      BY <3>1, <3>3
    <3> QED
      BY <2>1, <3>1, <3>4, <3>5 DEF TypeOK
  <2> QED
    BY <2>3, <2>4
<1>10. CASE Stop
  <2>1. /\ pc' = "stopped" /\ AbandonBlpop
        /\ UNCHANGED <<token, events, faults, redisVars, viewVars>>
    BY <1>10 DEF Stop
  <2> QED
    BY <1>6, <2>1 DEF TypeOK
<1>11. CASE ConnectFails
  BY <1>11 DEF ConnectFails, TypeOK
<1>12. CASE GetFails
  BY <1>12 DEF GetFails, TypeOK
<1>13. CASE BlpopFails
  BY <1>13 DEF BlpopFails, TypeOK
<1>14. CASE StreamEnds
  <2>1. /\ pc' = "stopped" /\ AbandonBlpop /\ faults' \in Nat
        /\ UNCHANGED <<token, events, redisVars, viewVars>>
    BY <1>14 DEF StreamEnds, TypeOK
  <2> QED
    BY <1>6, <2>1 DEF TypeOK
<1>15. CASE Disconnect
  BY <1>15 DEF Disconnect, TypeOK
<1>16. CASE Cancel
  BY <1>16 DEF Cancel, TypeOK
<1>17. CASE UNCHANGED vars
  BY <1>17 DEF vars, TypeOK
<1> QED
  BY <1>1, <1>2, <1>3, <1>4, <1>5, <1>7, <1>8, <1>9, <1>10, <1>11, <1>12,
     <1>13, <1>14, <1>15, <1>16, <1>17 DEF Next, Peer, Monitor, Fault

-----------------------------------------------------------------------------
(* Every entry is in one place.                                            *)

(* At first no entry exists.                                               *)
LEMMA AccountedInit == ASSUME Init PROVE LogsAccounted
<1>0. /\ pushed = <<>> /\ logQ = <<>> /\ logs = <<>> /\ blpop = "none"
      /\ skipped = {} /\ lost = {}
  BY DEF Init
<1>1. /\ Queued = {} /\ InReply = {} /\ Logged = {}
      /\ skipped = {} /\ lost = {} /\ 1 .. Len(pushed) = {}
  BY <1>0 DEF Queued, InReply, Logged
<1>2. NoneTwice
  BY <1>0 DEF NoneTwice
<1> QED
  BY <1>1, <1>2 DEF LogsAccounted, AllThere, Apart

(* The lists that LogsAccounted speaks of, as facts about sets.            *)
LEMMA Places ==
  ASSUME TypeOK, LogsAccounted
  PROVE  /\ logQ \in Seq(Nat) /\ Len(pushed) \in Nat
         /\ Queued = Entries(logQ) /\ Distinct(logQ)
         /\ Len(pushed) + 1 \notin Queued \cup InReply \cup Logged
                                   \cup skipped \cup lost
<1>1. logQ \in Seq(Nat) /\ Len(pushed) \in Nat
  BY DEF TypeOK
<1>2. Queued = Entries(logQ) /\ Distinct(logQ)
  BY DEF LogsAccounted, NoneTwice, Queued, Entries, Distinct
<1>3. Len(pushed) + 1 \notin 1 .. Len(pushed)
  BY <1>1
<1> QED
  BY <1>1, <1>2, <1>3 DEF LogsAccounted, AllThere

(* AbandonBlpop moves at most the reply, to lost.                          *)
LEMMA AbandonAccounted ==
  ASSUME TypeOK, LogsAccounted, AbandonBlpop PROVE LogsAccounted'
<1>1. /\ UNCHANGED <<pushed, logQ, logs, skipped>> /\ blpop' = "none"
      /\ lost' = lost \cup InReply
  BY DEF AbandonBlpop, InReply
<1>2. /\ Queued' = Queued /\ Logged' = Logged /\ InReply' = {}
      /\ 1 .. Len(pushed') = 1 .. Len(pushed)
  BY <1>1 DEF Queued, Logged, InReply
<1>3. NoneTwice'
  BY <1>1 DEF LogsAccounted, NoneTwice
<1>4. AllThere' /\ Apart'
  BY <1>1, <1>2 DEF LogsAccounted, AllThere, Apart
<1> QED
  BY <1>3, <1>4 DEF LogsAccounted

(* A pushed entry goes to an orphan, to the reply, or into the list.       *)
LEMMA PushAccounted ==
  ASSUME TypeOK, LogsAccounted, NEW l \in Level \cup {NoBar}, PushLog(l)
  PROVE  LogsAccounted'
<1> DEFINE id == Len(pushed) + 1
<1>1. \/ /\ lost' = lost \cup {id}
         /\ UNCHANGED <<logQ, blpop, reply>>
      \/ /\ blpop = "waiting" /\ blpop' = "replied" /\ reply' = id
         /\ UNCHANGED <<logQ, lost>>
      \/ /\ logQ' = <<id>> \o logQ
         /\ UNCHANGED <<blpop, reply, lost>>
  BY DEF PushLog
<1>2. UNCHANGED <<logs, skipped>>
  BY DEF PushLog
<1>3. Len(pushed') = id
  BY DEF PushLog, TypeOK
<1>4. /\ logQ \in Seq(Nat) /\ Len(pushed) \in Nat
      /\ Queued = Entries(logQ) /\ Distinct(logQ)
      /\ id \notin Queued \cup InReply \cup Logged \cup skipped \cup lost
  BY Places
<1>5. 1 .. Len(pushed') = 1 .. Len(pushed) \cup {id} /\ id \in Nat
  BY <1>3, <1>4
<1>6. Logged' = Logged /\ skipped' = skipped
  BY <1>2 DEF Logged
<1> HIDE DEF id
<1>7. CASE lost' = lost \cup {id} /\ UNCHANGED <<logQ, blpop, reply>>
  <2>1. Queued' = Queued /\ InReply' = InReply
    BY <1>7 DEF Queued, InReply
  <2>2. NoneTwice'
    BY <1>2, <1>7 DEF LogsAccounted, NoneTwice
  <2>3. AllThere' /\ Apart'
    BY <1>4, <1>5, <1>6, <1>7, <2>1 DEF LogsAccounted, AllThere, Apart
  <2> QED
    BY <2>2, <2>3 DEF LogsAccounted
<1>8. CASE /\ blpop = "waiting" /\ blpop' = "replied" /\ reply' = id
           /\ UNCHANGED <<logQ, lost>>
  <2>1. Queued' = Queued /\ InReply = {} /\ InReply' = {id}
    BY <1>8 DEF Queued, InReply
  <2>2. NoneTwice'
    BY <1>2, <1>8 DEF LogsAccounted, NoneTwice
  <2>3. AllThere' /\ Apart'
    BY <1>4, <1>5, <1>6, <1>8, <2>1 DEF LogsAccounted, AllThere, Apart
  <2> QED
    BY <2>2, <2>3 DEF LogsAccounted
<1>9. CASE logQ' = <<id>> \o logQ /\ UNCHANGED <<blpop, reply, lost>>
  <2>1. Entries(logQ') = Entries(logQ) \cup {id} /\ Distinct(logQ')
    BY <1>4, <1>5, <1>9, HeadJoins
  <2>2. Queued' = Queued \cup {id} /\ InReply' = InReply
    BY <1>4, <1>9, <2>1 DEF Queued, Entries, InReply
  <2>3. NoneTwice'
    BY <1>2, <2>1 DEF LogsAccounted, NoneTwice, Distinct
  <2>4. AllThere' /\ Apart'
    BY <1>4, <1>5, <1>6, <1>9, <2>2 DEF LogsAccounted, AllThere, Apart
  <2> QED
    BY <2>3, <2>4 DEF LogsAccounted
<1> QED
  BY <1>1, <1>7, <1>8, <1>9

(* An issued BLPOP moves at most the head of the list, to the reply.       *)
LEMMA IssueAccounted ==
  ASSUME TypeOK, LogsAccounted, IssueBlpop PROVE LogsAccounted'
<1>1. blpop = "none" /\ UNCHANGED <<pushed, logs, skipped, lost>>
  BY DEF IssueBlpop
<1>2. /\ Logged' = Logged /\ 1 .. Len(pushed') = 1 .. Len(pushed)
      /\ InReply = {}
  BY <1>1 DEF Logged, InReply
<1>3. CASE blpop' = "waiting" /\ UNCHANGED <<reply, logQ>>
  <2>1. Queued' = Queued /\ InReply' = {}
    BY <1>3 DEF Queued, InReply
  <2>2. NoneTwice'
    BY <1>1, <1>3 DEF LogsAccounted, NoneTwice
  <2>3. AllThere' /\ Apart'
    BY <1>1, <1>2, <2>1 DEF LogsAccounted, AllThere, Apart
  <2> QED
    BY <2>2, <2>3 DEF LogsAccounted
<1>4. CASE /\ logQ # <<>> /\ blpop' = "replied"
           /\ reply' = Head(logQ) /\ logQ' = Tail(logQ)
  <2>1. logQ \in Seq(Nat) /\ Queued = Entries(logQ) /\ Distinct(logQ)
    BY Places
  <2>2. /\ Entries(logQ') = Entries(logQ) \ {reply'} /\ Distinct(logQ')
        /\ reply' \in Queued
    BY <1>4, <2>1, HeadLeaves
  <2>3. Queued' = Queued \ {reply'} /\ InReply' = {reply'}
    BY <1>4, <2>1, <2>2 DEF Queued, Entries, InReply
  <2>4. NoneTwice'
    BY <1>1, <2>2 DEF LogsAccounted, NoneTwice, Distinct
  <2>5. AllThere' /\ Apart'
    BY <1>1, <1>2, <2>2, <2>3 DEF LogsAccounted, AllThere, Apart
  <2> QED
    BY <2>4, <2>5 DEF LogsAccounted
<1> QED
  BY <1>3, <1>4 DEF IssueBlpop

(* A reply taken goes to PeerState.logs, or is dropped for want of a bar.  *)
LEMMA TakeAccounted ==
  ASSUME TypeOK, LogsAccounted, TakeLog PROVE LogsAccounted'
<1>1. /\ blpop = "replied" /\ blpop' = "none"
      /\ UNCHANGED <<pushed, logQ, lost>>
  BY DEF TakeLog
<1>2. /\ Queued' = Queued /\ 1 .. Len(pushed') = 1 .. Len(pushed)
      /\ InReply = {reply} /\ InReply' = {}
  BY <1>1 DEF Queued, InReply
<1>3. CASE skipped' = skipped \cup {reply} /\ UNCHANGED logs
  <2>1. Logged' = Logged
    BY <1>3 DEF Logged
  <2>2. NoneTwice'
    BY <1>1, <1>3 DEF LogsAccounted, NoneTwice
  <2>3. AllThere' /\ Apart'
    BY <1>1, <1>2, <1>3, <2>1 DEF LogsAccounted, AllThere, Apart
  <2> QED
    BY <2>2, <2>3 DEF LogsAccounted
<1>4. CASE /\ logs' = Append(logs, [of |-> reply,
                                    level |-> Canonical(pushed[reply])])
           /\ UNCHANGED skipped
  <2>1. /\ reply \in Nat /\ logs \in Seq([of : Nat, level : KnownLevel])
        /\ Canonical(pushed[reply]) \in KnownLevel
    BY <1>1 DEF TypeOK, Canonical, KnownLevel
  <2>2. reply \notin Logged
    BY <1>2 DEF LogsAccounted, Apart
  <2>3. \A k \in 1 .. Len(logs) : logs[k].of # reply
    BY <2>2 DEF Logged
  <2>4. \A i, j \in 1 .. Len(logs) : logs[i].of = logs[j].of => i = j
    BY DEF LogsAccounted, NoneTwice
  <2>5. [of |-> reply, level |-> Canonical(pushed[reply])]
            \in [of : Nat, level : KnownLevel]
    BY <2>1
  <2>6. /\ Logged' = Logged \cup {reply}
        /\ \A i, j \in 1 .. Len(logs') : logs'[i].of = logs'[j].of => i = j
    BY <1>4, <2>1, <2>3, <2>4, <2>5, LogJoins DEF Logged
  <2>7. NoneTwice'
    BY <1>1, <2>6 DEF LogsAccounted, NoneTwice
  <2>8. AllThere' /\ Apart'
    BY <1>1, <1>2, <1>4, <2>6 DEF LogsAccounted, AllThere, Apart
  <2> QED
    BY <2>7, <2>8 DEF LogsAccounted
<1> QED
  BY <1>3, <1>4 DEF TakeLog

(* No step of the system duplicates an entry or makes one vanish.          *)
LEMMA AccountedStep ==
  ASSUME TypeOK, LogsAccounted, [Next]_vars PROVE LogsAccounted'
<1>1. ASSUME UNCHANGED <<pushed, logQ, logs, skipped, lost>>,
             InReply' = InReply
      PROVE  LogsAccounted'
  BY <1>1 DEF LogsAccounted, AllThere, Apart, NoneTwice, Queued, Logged
<1>2. ASSUME UNCHANGED logVars PROVE LogsAccounted'
  BY <1>1, <1>2 DEF logVars, InReply
<1>3. CASE Peer
  BY <1>2, <1>3, PushAccounted DEF Peer, SetStatus
<1>4. CASE Monitor
  BY <1>2, <1>4, AbandonAccounted, IssueAccounted, TakeAccounted
     DEF Monitor, Subscribe, ServeGet, ProcessStatus, Notify, Stop
<1>5. CASE Fault
  <2>1. CASE BlpopFails
    BY <1>1, <2>1 DEF BlpopFails, InReply
  <2> QED
    BY <1>2, <1>5, <2>1, AbandonAccounted
       DEF Fault, ConnectFails, GetFails, StreamEnds
<1>6. CASE Disconnect
  BY <1>1, <1>6 DEF Disconnect, InReply
<1>7. CASE Cancel
  BY <1>2, <1>7 DEF Cancel
<1>8. CASE UNCHANGED vars
  BY <1>2, <1>8 DEF vars, logVars
<1> QED
  BY <1>3, <1>4, <1>5, <1>6, <1>7, <1>8 DEF Next

(* The state of a monitor is always well formed: no branch of its loop     *)
(* takes a variable out of its type.                                       *)
THEOREM TypeCorrect == Spec => []TypeOK
<1>1. Init => TypeOK /\ LogsAccounted
  BY TypeInit, AccountedInit
<1>2. TypeOK /\ LogsAccounted /\ [Next]_vars => TypeOK' /\ LogsAccounted'
  BY TypeStep, AccountedStep DEF LogsAccounted
<1> QED
  BY <1>1, <1>2, PTL DEF Spec

(* Every log entry a peer pushes is in exactly one place, for ever: the    *)
(* races of select! may lose one, they never show one twice or leave one   *)
(* unaccounted for.                                                        *)
THEOREM EntriesAccounted == Spec => []LogsAccounted
<1>1. Init => TypeOK /\ LogsAccounted
  BY TypeInit, AccountedInit
<1>2. TypeOK /\ LogsAccounted /\ [Next]_vars => TypeOK' /\ LogsAccounted'
  BY TypeStep, AccountedStep DEF LogsAccounted
<1> QED
  BY <1>1, <1>2, PTL DEF Spec

-----------------------------------------------------------------------------
(* The monitor never waits on a status older than the newest.              *)

(* A SET queues a notification, a notification leads to a GET, and a GET   *)
(* shows the newest status: no step leaves an older one unannounced.       *)
LEMMA FreshStep ==
  ASSUME TypeOK, NoMissedUpdate, [Next]_vars PROVE NoMissedUpdate'
<1>1. ASSUME UNCHANGED <<writes, notify, notices, lastGet, pc, last, fetched>>
      PROVE  NoMissedUpdate'
  BY <1>1 DEF NoMissedUpdate, Newest
<1>2. ASSUME pc' \notin {"select", "apply"} PROVE NoMissedUpdate'
  BY <1>2 DEF NoMissedUpdate
<1>3. ASSUME NEW r \in Raw, SetStatus(r) PROVE NoMissedUpdate'
  <2>1. pc' = pc /\ UNCHANGED notify
    BY <1>3 DEF SetStatus
  <2>2. CASE notify = "on" /\ Subscribed
    <3>1. notices' = notices + 1 /\ notices \in Nat
      BY <1>3, <2>2 DEF SetStatus, TypeOK
    <3>2. notices' # 0
      BY <3>1
    <3> QED
      BY <3>2 DEF NoMissedUpdate
  <2>3. CASE ~(notify = "on" /\ Subscribed)
    BY <2>1, <2>3 DEF NoMissedUpdate, Subscribed
  <2> QED
    BY <2>2, <2>3
<1>4. CASE ServeGet
  <2>1. /\ pc' = "apply" /\ fetched' = Len(writes) /\ UNCHANGED writes
    BY <1>4 DEF ServeGet, redisVars
  <2>2. Newest(fetched)'
    BY <2>1, EmptySeq DEF Newest, TypeOK
  <2> QED
    BY <2>1, <2>2 DEF NoMissedUpdate
<1>5. CASE ProcessStatus
  <2>1. /\ pc = "apply" /\ pc' = "select"
        /\ UNCHANGED <<writes, notify, notices, lastGet>>
    BY <1>5 DEF ProcessStatus, redisVars
  <2>2. \/ Unchanged(fetched) /\ UNCHANGED last
        \/ ~Unchanged(fetched) /\ last' = fetched
    BY <1>5 DEF ProcessStatus
  <2>3. Newest(fetched) => Newest(last)'
    BY <2>1, <2>2 DEF Newest, Unchanged
  <2> QED
    BY <2>1, <2>3 DEF NoMissedUpdate
<1>6. CASE GetFails
  BY <1>6 DEF GetFails, NoMissedUpdate
<1>7. CASE Subscribe \/ ConnectFails \/ Notify \/ StreamEnds \/ Stop
  BY <1>2, <1>7 DEF Subscribe, ConnectFails, Notify, StreamEnds, Stop
<1>8. CASE \/ IssueBlpop \/ TakeLog \/ BlpopFails \/ Disconnect \/ Cancel
           \/ UNCHANGED vars
  BY <1>1, <1>8
     DEF IssueBlpop, TakeLog, BlpopFails, Disconnect, Cancel, vars, redisVars,
         viewVars
<1>9. ASSUME NEW l \in Level \cup {NoBar}, PushLog(l) PROVE NoMissedUpdate'
  BY <1>1, <1>9 DEF PushLog, redisVars, viewVars
<1> QED
  BY <1>3, <1>4, <1>5, <1>6, <1>7, <1>8, <1>9 DEF Next, Peer, Monitor, Fault

(* Subscribing before the first GET loses no status: with notifications on *)
(* and the last GET answered, an idle monitor shows the newest status.     *)
THEOREM Fresh == Spec => []NoMissedUpdate
<1>1. Init => NoMissedUpdate
  BY DEF Init, NoMissedUpdate
<1>2. TypeOK /\ NoMissedUpdate /\ [Next]_vars => NoMissedUpdate'
  BY FreshStep
<1> QED
  BY <1>1, <1>2, TypeCorrect, PTL DEF Spec

-----------------------------------------------------------------------------
(* How many entries the races may cost.                                    *)

(* lost is finite, and one more entry adds at most one to its size.        *)
LEMMA LostCount ==
  ASSUME TypeOK
  PROVE  /\ Cardinality(lost) \in Nat
         /\ \A id : /\ Cardinality(lost \cup {id}) \in Nat
                    /\ Cardinality(lost \cup {id}) <= Cardinality(lost) + 1
<1>1. IsFiniteSet(1 .. Len(pushed))
  BY FS_Interval DEF TypeOK
<1>2. IsFiniteSet(lost)
  BY <1>1, FS_Subset DEF TypeOK
<1>3. Cardinality(lost) \in Nat
  BY <1>2, FS_CardinalityType
<1>4. ASSUME NEW id
      PROVE  /\ Cardinality(lost \cup {id}) \in Nat
             /\ Cardinality(lost \cup {id}) <= Cardinality(lost) + 1
  <2>1. CASE id \in lost
    <3>1. lost \cup {id} = lost
      BY <2>1
    <3>2. Cardinality(lost \cup {id}) = Cardinality(lost)
      BY <3>1
    <3> QED
      BY <1>3, <3>2
  <2>2. CASE id \notin lost
    <3>1. Cardinality(lost \cup {id}) = Cardinality(lost) + 1
      BY <1>2, <2>2, FS_AddElement
    <3> QED
      BY <1>3, <3>1
  <2> QED
    BY <2>1, <2>2
<1> QED
  BY <1>3, <1>4

(* Abandoning the BLPOP costs one entry, now or when the orphan is         *)
(* answered.                                                               *)
LEMMA AbandonCost ==
  ASSUME TypeOK, AbandonBlpop
  PROVE  /\ Cardinality(lost') \in Nat /\ orphans' \in Nat
         /\ Cardinality(lost') + orphans' <= Cardinality(lost) + orphans + 1
<1>1. orphans \in Nat
  BY DEF TypeOK
<1>2. CASE blpop = "replied"
  <2>1. orphans' = orphans /\ lost' = lost \cup {reply}
    BY <1>2 DEF AbandonBlpop
  <2>2. /\ Cardinality(lost) \in Nat /\ Cardinality(lost') \in Nat
        /\ Cardinality(lost') <= Cardinality(lost) + 1
    BY <2>1, LostCount
  <2> QED
    BY <1>1, <2>1, <2>2
<1>3. CASE blpop # "replied"
  <2>1. orphans' \in {orphans, orphans + 1} /\ Cardinality(lost') = Cardinality(lost)
    BY <1>3 DEF AbandonBlpop
  <2> QED
    BY <1>1, <2>1, LostCount
<1> QED
  BY <1>2, <1>3

(* A step that abandons a BLPOP consumes a notification, is a failure, or  *)
(* ends the task.                                                          *)
LEMMA LossStep ==
  ASSUME TypeOK, TypeOK', LossBound, [Next]_vars PROVE LossBound'
<1> DEFINE ended == IF pc = "stopped" THEN 1 ELSE 0
<1>1. /\ Cardinality(lost) \in Nat /\ orphans \in Nat /\ notices \in Nat
      /\ Len(writes) \in Nat /\ faults \in Nat
      /\ orphans' \in Nat /\ notices' \in Nat
      /\ Len(writes') \in Nat /\ faults' \in Nat
  <2>1. Cardinality(lost) \in Nat
    BY LostCount
  <2>2. /\ orphans \in Nat /\ notices \in Nat
        /\ Len(writes) \in Nat /\ faults \in Nat
    BY DEF TypeOK
  <2>3. /\ orphans' \in Nat /\ notices' \in Nat
        /\ Len(writes') \in Nat /\ faults' \in Nat
    BY DEF TypeOK
  <2> QED
    BY <2>1, <2>2, <2>3
<1>2. Cardinality(lost) + orphans + notices <= Len(writes) + faults + ended
  BY DEF LossBound
<1>3. ASSUME UNCHANGED <<lost, orphans, notices, writes, faults, pc>>
      PROVE  LossBound'
  BY <1>3 DEF LossBound
<1>4. ASSUME NEW r \in Raw, SetStatus(r) PROVE LossBound'
  <2>1. UNCHANGED <<lost, orphans, faults, pc>>
    BY <1>4 DEF SetStatus, logVars
  <2>2. Len(writes') = Len(writes) + 1 /\ notices' <= notices + 1
    BY <1>1, <1>4 DEF SetStatus, TypeOK
  <2> QED
    BY <1>1, <1>2, <2>1, <2>2 DEF LossBound
<1>5. ASSUME NEW l \in Level \cup {NoBar}, PushLog(l) PROVE LossBound'
  <2>1. UNCHANGED <<notices, writes, faults, pc>>
    BY <1>5 DEF PushLog, redisVars
  <2>2. \/ /\ orphans' = orphans - 1
           /\ lost' = lost \cup {Len(pushed) + 1}
        \/ UNCHANGED <<orphans, lost>>
    BY <1>5 DEF PushLog
  <2>3. \/ /\ orphans' = orphans - 1 /\ Cardinality(lost') \in Nat
           /\ Cardinality(lost') <= Cardinality(lost) + 1
        \/ orphans' = orphans /\ Cardinality(lost') = Cardinality(lost)
    BY <2>2, LostCount
  <2> QED
    BY <1>1, <1>2, <2>1, <2>3 DEF LossBound
<1>6. CASE Notify
  <2>1. /\ AbandonBlpop /\ notices' = notices - 1 /\ pc = "select"
        /\ UNCHANGED <<writes, faults>>
    BY <1>6 DEF Notify
  <2>2. Cardinality(lost') \in Nat
        /\ Cardinality(lost') + orphans' <= Cardinality(lost) + orphans + 1
    BY <2>1, AbandonCost
  <2> QED
    BY <1>1, <1>2, <2>1, <2>2 DEF LossBound
<1>7. ASSUME AbandonBlpop, UNCHANGED <<writes, notices>>,
             pc = "select", pc' = "stopped",
             faults' = faults \/ faults' = faults + 1
      PROVE  LossBound'
  <2>1. /\ Cardinality(lost') \in Nat
        /\ Cardinality(lost') + orphans' <= Cardinality(lost) + orphans + 1
    BY <1>7, AbandonCost
  <2>2. Cardinality(lost) + orphans + notices <= Len(writes) + faults
    BY <1>1, <1>2, <1>7
  <2>3. Cardinality(lost') + orphans' + notices <= Len(writes) + faults + 1
    BY <1>1, <2>1, <2>2
  <2>4. CASE faults' = faults
    BY <1>1, <1>7, <2>1, <2>3, <2>4 DEF LossBound
  <2>5. CASE faults' = faults + 1
    BY <1>1, <1>7, <2>1, <2>3, <2>5 DEF LossBound
  <2> QED
    BY <1>7, <2>4, <2>5
<1>8. CASE BlpopFails
  <2>1. /\ orphans' <= orphans + 1 /\ faults' = faults + 1
        /\ UNCHANGED <<lost, notices, writes, pc>>
    BY <1>1, <1>8 DEF BlpopFails, redisVars
  <2> QED
    BY <1>1, <1>2, <2>1 DEF LossBound
<1>9. CASE Disconnect
  <2>1. orphans' <= orphans /\ UNCHANGED <<lost, notices, writes, faults, pc>>
    BY <1>1, <1>9 DEF Disconnect, redisVars
  <2> QED
    BY <1>1, <1>2, <2>1 DEF LossBound
<1>10. CASE Subscribe \/ ServeGet \/ ProcessStatus \/ ConnectFails \/ GetFails
  <2>1. /\ pc # "stopped" /\ pc' # "stopped"
        /\ faults' \in {faults, faults + 1}
        /\ UNCHANGED <<lost, orphans, notices, writes>>
    BY <1>10 DEF Subscribe, ServeGet, ProcessStatus, ConnectFails, GetFails,
                 redisVars, logVars
  <2> QED
    BY <1>1, <1>2, <2>1 DEF LossBound
<1>11. CASE IssueBlpop \/ TakeLog \/ Cancel \/ UNCHANGED vars
  BY <1>3, <1>11 DEF IssueBlpop, TakeLog, Cancel, vars, redisVars, logVars
<1>12. CASE StreamEnds \/ Stop
  BY <1>7, <1>12 DEF StreamEnds, Stop, redisVars
<1> QED
  BY <1>4, <1>5, <1>6, <1>8, <1>9, <1>10, <1>11, <1>12
     DEF Next, Peer, Monitor, Fault

(* The entries lost to abandoned BLPOPs, and those still to be lost to an  *)
(* orphan, never outnumber the SETs, the faults and the end of the task.   *)
THEOREM LossBounded == Spec => []LossBound
<1>1. Init => LossBound
  <2> SUFFICES ASSUME Init PROVE LossBound
    OBVIOUS
  <2>1. /\ lost = {} /\ orphans = 0 /\ notices = 0 /\ faults = 0
        /\ pc = "connect" /\ Len(writes) \in Nat
    BY TypeInit DEF Init, TypeOK
  <2>2. Cardinality(lost) = 0
    BY <2>1, FS_EmptySet
  <2> QED
    BY <2>1, <2>2 DEF LossBound
<1>2. TypeOK /\ TypeOK' /\ LossBound /\ [Next]_vars => LossBound'
  BY LossStep
<1> QED
  BY <1>1, <1>2, TypeCorrect, PTL DEF Spec

-----------------------------------------------------------------------------
(* PeerState is a StatusView.                                              *)

(* A GET never returns an older status than the one shown.                 *)
Ahead == last <= fetched

(* The status shown is never newer than the one fetched last.              *)
LEMMA AheadStep == ASSUME TypeOK, Ahead, [Next]_vars PROVE Ahead'
<1>1. ASSUME UNCHANGED <<last, fetched>> PROVE Ahead'
  BY <1>1 DEF Ahead
<1>2. CASE ServeGet
  BY <1>2 DEF ServeGet, Ahead, TypeOK
<1>3. CASE ProcessStatus
  <2>1. fetched' = fetched /\ (last' = last \/ last' = fetched)
    BY <1>3 DEF ProcessStatus
  <2> QED
    BY <2>1 DEF Ahead, TypeOK
<1>4. ASSUME UNCHANGED viewVars PROVE Ahead'
  BY <1>1, <1>4 DEF viewVars
<1>5. CASE Peer
  BY <1>4, <1>5 DEF Peer, SetStatus, PushLog
<1>6. CASE Monitor
  BY <1>2, <1>3, <1>4, <1>6
     DEF Monitor, Subscribe, Notify, IssueBlpop, TakeLog, Stop
<1>7. CASE Fault
  BY <1>1, <1>4, <1>7 DEF Fault, ConnectFails, GetFails, BlpopFails, StreamEnds
<1>8. CASE Disconnect \/ Cancel \/ UNCHANGED vars
  BY <1>1, <1>4, <1>8 DEF Disconnect, Cancel, vars
<1> QED
  BY <1>5, <1>6, <1>7, <1>8 DEF Next

(* Every step of a monitor is a step of StatusView or leaves the view be.  *)
LEMMA ViewStep ==
  ASSUME TypeOK, Ahead, [Next]_vars PROVE [View!Next]_(View!vars)
<1>1. ASSUME UNCHANGED <<writes, last, status, info>> PROVE UNCHANGED View!vars
  BY <1>1 DEF View!vars
<1>2. ASSUME NEW r \in Raw, SetStatus(r) PROVE View!Next
  <2>1. View!SetStatus(r) /\ r \in View!Raw
    BY <1>2 DEF SetStatus, viewVars, View!SetStatus, Raw, View!Raw
  <2> QED
    BY <2>1 DEF View!Next
<1>3. CASE ProcessStatus
  <2>1. UNCHANGED writes
    BY <1>3 DEF ProcessStatus, redisVars
  <2>2. CASE Unchanged(fetched)
    BY <1>1, <1>3, <2>1, <2>2 DEF ProcessStatus
  <2>3. CASE ~Unchanged(fetched)
    <3>1. /\ last' = fetched /\ status' = writes[fetched].base
          /\ info' = InfoAfter(writes[fetched], info)
      BY <1>3, <2>3 DEF ProcessStatus
    <3>2. last = 0 \/ writes[fetched] # writes[last]
      BY <2>3 DEF Unchanged
    <3>3. fetched \in (last + 1) .. Len(writes)
      BY <2>3 DEF Unchanged, Ahead, TypeOK
    <3>4. View!Observe(fetched)
      BY <2>1, <3>1, <3>2 DEF View!Observe, InfoAfter, View!InfoAfter
    <3> QED
      BY <3>3, <3>4 DEF View!Next, View!ObserveLater
  <2> QED
    BY <2>2, <2>3
<1>4. ASSUME UNCHANGED <<redisVars, viewVars>> PROVE UNCHANGED View!vars
  BY <1>1, <1>4 DEF redisVars, viewVars
<1>5. ASSUME NEW l \in Level \cup {NoBar}, PushLog(l) PROVE UNCHANGED View!vars
  BY <1>4, <1>5 DEF PushLog
<1>6. CASE \/ Subscribe \/ IssueBlpop \/ TakeLog \/ Stop \/ ConnectFails
           \/ BlpopFails \/ StreamEnds \/ Disconnect \/ Cancel
  BY <1>4, <1>6 DEF Subscribe, IssueBlpop, TakeLog, Stop, ConnectFails,
                    BlpopFails, StreamEnds, Disconnect, Cancel
<1>7. CASE ServeGet \/ GetFails \/ Notify \/ UNCHANGED vars
  BY <1>1, <1>7 DEF ServeGet, GetFails, Notify, vars, redisVars, viewVars
<1> QED
  BY <1>2, <1>3, <1>5, <1>6, <1>7 DEF Next, Peer, Monitor, Fault

(* Whatever fails and however the select! loop races, PeerState moves      *)
(* through the peer's own statuses, forwards only.                         *)
THEOREM RefinesView == Spec => ViewSafe
<1>1. Init => View!Init /\ Ahead
  BY DEF Init, View!Init, Raw, View!Raw, Ahead
<1>2. TypeOK /\ Ahead /\ [Next]_vars => Ahead' /\ [View!Next]_(View!vars)
  BY AheadStep, ViewStep
<1> QED
  BY <1>1, <1>2, TypeCorrect, PTL DEF Spec, ViewSafe, View!SafeSpec


-----------------------------------------------------------------------------
(* A listener can rebuild PeerState from the events.                       *)

(* A log event that goes with its entry keeps both halves of the replay.   *)
LEMMA LogReplayed ==
  ASSUME TypeOK, EventsReplay, NEW n \in Nat, NEW l \in KnownLevel,
         logs' = Append(logs, [of |-> n, level |-> l]),
         events' = Append(events, [kind |-> "log", of |-> n]), last' = last
  PROVE  EventsReplay'
<1> DEFINE E == Len(events)
           L == Len(logs)
<1>1. E \in Nat /\ L \in Nat  BY DEF TypeOK
<1>2. /\ Len(events') = E + 1 /\ Len(logs') = L + 1
      /\ events'[E + 1] = [kind |-> "log", of |-> n]
      /\ \A k \in 1 .. E : events'[k] = events[k]
      /\ logs'[L + 1].of = n
      /\ \A k \in 1 .. L : logs'[k] = logs[k]
  BY DEF TypeOK
<1> HIDE DEF E, L
<1>3. StatusReplay'
  <2>1. last = 0 => \A k \in 1 .. E : events[k].kind = "log"
    BY DEF EventsReplay, StatusReplay, E
  <2>2. events'[E + 1].kind = "log"  BY <1>2
  <2>3. ASSUME last' = 0, NEW k \in 1 .. E + 1
        PROVE  events'[k].kind = "log"
    BY <1>1, <1>2, <2>1, <2>2, <2>3
  <2>4. ASSUME last # 0
        PROVE  \E k \in 1 .. E + 1 :
                 /\ events'[k] = [kind |-> "status", of |-> last]
                 /\ \A j \in k + 1 .. E + 1 : events'[j].kind = "log"
    <3>1. PICK k \in 1 .. E :
            /\ events[k] = [kind |-> "status", of |-> last]
            /\ \A j \in k + 1 .. E : events[j].kind = "log"
      BY <2>4 DEF EventsReplay, StatusReplay, E
    <3>2. \A j \in k + 1 .. E + 1 : j = E + 1 \/ (j \in 1 .. E /\ j \in k + 1 .. E)
      BY <1>1
    <3>3. k \in 1 .. E + 1 /\ events'[k] = [kind |-> "status", of |-> last]
      BY <1>1, <1>2, <3>1
    <3>4. \A j \in k + 1 .. E + 1 : events'[j].kind = "log"
      BY <1>2, <2>2, <3>1, <3>2
    <3> QED  BY <3>3, <3>4
  <2> QED  BY <1>2, <2>3, <2>4 DEF StatusReplay
<1>4. \E at \in [1 .. Len(logs') -> 1 .. Len(events')] : Announced(at)'
  <2>1. PICK at \in [1 .. L -> 1 .. E] : Announced(at)
    BY DEF EventsReplay, E, L
  <2>2. /\ \A i \in 1 .. L + 1 : i = L + 1 \/ i \in 1 .. L
        /\ \A i \in 1 .. L : i \in 1 .. L + 1 /\ i # L + 1
        /\ \A k \in 1 .. E + 1 : k = E + 1 \/ k \in 1 .. E
        /\ \A k \in 1 .. E : k \in 1 .. E + 1 /\ k < E + 1
        /\ L + 1 \in 1 .. L + 1 /\ E + 1 \in 1 .. E + 1
    BY <1>1
  <2>3. PICK new \in [1 .. L + 1 -> 1 .. E + 1] :
          /\ new[L + 1] = E + 1
          /\ \A i \in 1 .. L : new[i] = at[i] /\ at[i] \in 1 .. E
    <3> DEFINE f == [i \in 1 .. L + 1 |-> IF i = L + 1 THEN E + 1 ELSE at[i]]
    <3>1. /\ f \in [1 .. L + 1 -> 1 .. E + 1] /\ f[L + 1] = E + 1
          /\ \A i \in 1 .. L : f[i] = at[i] /\ at[i] \in 1 .. E
      BY <2>2
    <3> QED  BY <3>1
  <2>4. ASSUME NEW i \in 1 .. L + 1, NEW j \in 1 .. L + 1, i < j
        PROVE  new[i] < new[j]
    <3>1. i \in 1 .. L  BY <1>1, <2>4
    <3>2. CASE j = L + 1  BY <2>2, <2>3, <3>1, <3>2
    <3>3. CASE j \in 1 .. L
      BY <2>1, <2>3, <2>4, <3>1, <3>3 DEF Announced, L
    <3> QED  BY <2>2, <3>2, <3>3
  <2>5. ASSUME NEW i \in 1 .. L + 1
        PROVE  events'[new[i]] = [kind |-> "log", of |-> logs'[i].of]
    <3>1. CASE i = L + 1  BY <1>2, <2>3, <3>1
    <3>2. CASE i \in 1 .. L
      <4>1. events[at[i]] = [kind |-> "log", of |-> logs[i].of]
        BY <2>1, <3>2 DEF Announced, L
      <4>2. events'[new[i]] = events[at[i]] /\ logs'[i] = logs[i]
        BY <1>2, <2>3, <3>2
      <4> QED  BY <4>1, <4>2
    <3> QED  BY <2>2, <3>1, <3>2
  <2>6. ASSUME NEW k \in 1 .. E + 1, events'[k].kind = "log"
        PROVE  \E i \in 1 .. L + 1 : new[i] = k
    <3>1. CASE k = E + 1  BY <2>2, <2>3, <3>1
    <3>2. CASE k \in 1 .. E
      <4>1. PICK i \in 1 .. L : at[i] = k
        BY <1>2, <2>1, <2>6, <3>2 DEF Announced, E, L
      <4> QED  BY <2>2, <2>3, <4>1
    <3> QED  BY <2>2, <3>1, <3>2
  <2>7. Announced(new)'
    BY <1>2, <2>4, <2>5, <2>6 DEF Announced
  <2> QED  BY <1>2, <2>3, <2>7
<1> QED  BY <1>3, <1>4 DEF EventsReplay

(* A status event that goes with last_status does too.                     *)
LEMMA StatusReplayed ==
  ASSUME TypeOK, EventsReplay, NEW n \in Nat, n # 0, last' = n,
         events' = Append(events, [kind |-> "status", of |-> n]), logs' = logs
  PROVE  EventsReplay'
<1> DEFINE E == Len(events)
           L == Len(logs)
<1>1. E \in Nat /\ L \in Nat  BY DEF TypeOK
<1>2. /\ Len(events') = E + 1
      /\ events'[E + 1] = [kind |-> "status", of |-> n]
      /\ \A k \in 1 .. E : events'[k] = events[k]
  BY DEF TypeOK
<1> HIDE DEF E, L
<1>3. /\ \A k \in 1 .. E + 1 : k = E + 1 \/ k \in 1 .. E
      /\ \A k \in 1 .. E : k \in 1 .. E + 1
      /\ E + 1 \in 1 .. E + 1
      /\ \A j \in E + 1 + 1 .. E + 1 : FALSE
  BY <1>1
<1>4. StatusReplay'
  BY <1>2, <1>3 DEF StatusReplay
<1>5. PICK at \in [1 .. L -> 1 .. E] : Announced(at)
  BY DEF EventsReplay, E, L
<1>6. at \in [1 .. L -> 1 .. E + 1]  BY <1>3
<1>7. \A i \in 1 .. L : events'[at[i]] = events[at[i]]  BY <1>2
<1>8. ASSUME NEW k \in 1 .. E + 1, events'[k].kind = "log"
      PROVE  \E i \in 1 .. L : at[i] = k
  <2>1. k \in 1 .. E  BY <1>2, <1>3, <1>8
  <2> QED  BY <1>2, <1>5, <1>8, <2>1 DEF Announced, E, L
<1>9. Announced(at)'
  BY <1>2, <1>5, <1>7, <1>8 DEF Announced, L
<1> QED  BY <1>2, <1>4, <1>6, <1>9 DEF EventsReplay, L

(* Every step that sends an event changes PeerState with it.               *)
LEMMA ReplayStep ==
  ASSUME TypeOK, EventsReplay, [Next]_vars PROVE EventsReplay'
<1>1. ASSUME UNCHANGED <<events, logs, last>> PROVE EventsReplay'
  BY <1>1 DEF EventsReplay, StatusReplay, Announced
<1>2. CASE ProcessStatus
  <2>1. logs' = logs  BY <1>2 DEF ProcessStatus, logVars
  <2>2. CASE Unchanged(fetched)
    BY <1>1, <1>2, <2>1, <2>2 DEF ProcessStatus
  <2>3. CASE ~ Unchanged(fetched)
    <3>1. /\ fetched \in Nat /\ fetched # 0 /\ last' = fetched
          /\ events' = Append(events, [kind |-> "status", of |-> fetched])
      BY <1>2, <2>3 DEF ProcessStatus, Unchanged, TypeOK
    <3> QED  BY <2>1, <3>1, StatusReplayed
  <2> QED  BY <2>2, <2>3
<1>3. CASE TakeLog
  <2>1. last' = last  BY <1>3 DEF TakeLog, viewVars
  <2>2. CASE pushed[reply] = NoBar
    BY <1>1, <1>3, <2>1, <2>2 DEF TakeLog
  <2>3. CASE pushed[reply] # NoBar
    <3>1. /\ logs' = Append(logs, [of |-> reply,
                                   level |-> Canonical(pushed[reply])])
          /\ events' = Append(events, [kind |-> "log", of |-> reply])
      BY <1>3, <2>3 DEF TakeLog
    <3>2. reply \in Nat /\ Canonical(pushed[reply]) \in KnownLevel
      BY <1>3 DEF TakeLog, TypeOK, Canonical, KnownLevel
    <3> QED  BY <2>1, <3>1, <3>2, LogReplayed
  <2> QED  BY <2>2, <2>3
<1>4. CASE Peer
  BY <1>1, <1>4 DEF Peer, SetStatus, PushLog, logVars, viewVars
<1>5. CASE Subscribe \/ ServeGet \/ IssueBlpop \/ Notify \/ Stop
  BY <1>1, <1>5 DEF Subscribe, ServeGet, IssueBlpop, Notify, Stop,
                    AbandonBlpop, logVars, viewVars
<1>6. CASE Fault
  BY <1>1, <1>6 DEF Fault, ConnectFails, GetFails, BlpopFails, StreamEnds,
                    AbandonBlpop, logVars, viewVars
<1>7. CASE Disconnect \/ Cancel \/ UNCHANGED vars
  BY <1>1, <1>7 DEF Disconnect, Cancel, logVars, viewVars, vars
<1> QED
  BY <1>2, <1>3, <1>4, <1>5, <1>6, <1>7 DEF Next, Monitor

(* Whatever the order in which select! takes its branches, the events the  *)
(* task broadcasts say exactly what PeerState became: the newest status    *)
(* event is last_status, and the log events are the logs in their order.   *)
THEOREM ReplayOfEvents == Spec => []EventsReplay
<1>1. ASSUME Init PROVE EventsReplay
  <2>1. events = <<>> /\ logs = <<>> /\ last = 0  BY <1>1 DEF Init
  <2>2. StatusReplay  BY <2>1 DEF StatusReplay
  <2>3. PICK at \in [1 .. Len(logs) -> 1 .. Len(events)] : TRUE
    <3>1. [i \in 1 .. Len(logs) |-> 1] \in [1 .. Len(logs) -> 1 .. Len(events)]
      BY <2>1
    <3> QED  BY <3>1
  <2>4. Announced(at)  BY <2>1 DEF Announced
  <2> QED  BY <2>2, <2>3, <2>4 DEF EventsReplay
<1>2. TypeOK /\ EventsReplay /\ [Next]_vars => EventsReplay'
  BY ReplayStep
<1> QED  BY <1>1, <1>2, TypeCorrect, PTL DEF Spec

=============================================================================
