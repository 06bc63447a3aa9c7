----------------------------- MODULE PeerMonitor ----------------------------
(***************************************************************************)
(* monitor_peer (src/src/peer_monitor.rs): the task that watches one peer. *)
(* It subscribes to the keyspace notifications of {peer}_status, GETs the  *)
(* key at first and on every notification, and drains {peer}_log with a    *)
(* blocking BLPOP, the two multiplexed by one select! loop.                *)
(*                                                                         *)
(* The loop makes a new BLPOP future on every turn.  When another branch   *)
(* wins, the future is dropped but the request stays with Redis: whatever  *)
(* answers it is discarded.  Such a request is an orphan here.             *)
(*                                                                         *)
(* Statuses are indices into writes and log entries indices into pushed,   *)
(* so that two equal texts stay apart.                                     *)
(*                                                                         *)
(* A definition Name_Change is a mutant of Name: a change that a bug could *)
(* make and that some property must notice.  No specification uses it.     *)
(***************************************************************************)
EXTENDS Integers, Sequences, FiniteSets, PeerStatus

CONSTANTS
  Level,       \* level texts a log entry may start with
  NoBar,       \* an entry without the "|" that ends the level
  MaxSets,     \* bound: SETs of the status key
  MaxLogs,     \* bound: LPUSHes of log entries
  MaxFaults    \* bound: failed Redis requests and ended streams

KnownLevel == {"error", "warn", "info", "debug", "trace"}

Canonical_AsSent(l) == l                              \* mutant

(* The level text is lowercased by the code; one that names no level of    *)
(* the tracing crate becomes "trace".                                      *)
Canonical(l) == IF l \in KnownLevel THEN l ELSE "trace"

ASSUME MonitorAssumption ==
  /\ MaxSets \in Nat /\ MaxLogs \in Nat /\ MaxFaults \in Nat
  /\ NoBar \notin Level \cup KnownLevel

VARIABLES
  (* Redis *)
  writes,      \* the values SET on {peer}_status, oldest first
  notify,      \* CONFIG SET notify-keyspace-events took effect
  notices,     \* "set" notifications queued on the pubsub stream
  pushed,      \* the level of every entry LPUSHed on {peer}_log (NoBar: none)
  logQ,        \* the {peer}_log list, head first
  orphans,     \* BLPOP requests at Redis that nobody waits for any more
  (* the task *)
  pc,          \* where monitor_peer stands
  fetched,     \* the index the GET in progress returned, 0 for nil
  last,        \* last_status, 0 for None
  lastGet,     \* how the last GET ended: the Err of one is ignored
  blpop,       \* the BLPOP future of this turn of select!
  reply,       \* the entry that answers it
  token,       \* the CancellationToken
  (* PeerState and the broadcast channel *)
  status, info, logs, events,
  (* history *)
  skipped,     \* entries dropped because they have no bar
  lost,        \* entries popped by a request nobody waits for
  faults

redisVars == <<writes, notify, notices>>
logVars   == <<pushed, logQ, orphans, blpop, reply, logs, skipped, lost>>
viewVars  == <<fetched, last, lastGet, status, info>>
vars == <<writes, notify, notices, pushed, logQ, orphans, pc, fetched, last,
          lastGet, blpop, reply, token, status, info, logs, events,
          skipped, lost, faults>>

Subscribed == pc \in {"fetch", "apply", "select"}

(* CONFIG SET notify-keyspace-events K$; tm only warns when it fails.       *)
EnableNotifications == notify \in {"on", "off"}

Init ==
  /\ writes \in {<<>>} \cup {<<r>> : r \in Raw}   \* an external Redis keeps it
  /\ EnableNotifications
  /\ notices = 0
  /\ pushed = <<>> /\ logQ = <<>> /\ orphans = 0   \* main DELs {peer}_log
  /\ pc = "connect"
  /\ fetched = 0 /\ last = 0 /\ lastGet = "none"
  /\ blpop = "none" /\ reply = 0
  /\ token = "live"
  /\ status = "unknown" /\ info = NoAddr /\ logs = <<>> /\ events = <<>>
  /\ skipped = {} /\ lost = {} /\ faults = 0

-----------------------------------------------------------------------------
(* The peer.                                                               *)

SetStatus(r) ==
  /\ Len(writes) < MaxSets
  /\ writes' = Append(writes, r)
  /\ notices' = IF notify = "on" /\ Subscribed THEN notices + 1 ELSE notices
  /\ UNCHANGED <<notify, pc, token, events, faults, logVars, viewVars>>

(* Redis hands a pushed entry to the oldest blocked request, which is an   *)
(* orphan when there is one, and keeps it in the list otherwise.           *)
PushLog(l) ==
  LET id == Len(pushed) + 1 IN
  /\ Len(pushed) < MaxLogs
  /\ pushed' = Append(pushed, l)
  /\ \/ /\ orphans > 0
        /\ orphans' = orphans - 1
        /\ lost' = lost \cup {id}
        /\ UNCHANGED <<logQ, blpop, reply>>
     \/ /\ orphans = 0 /\ blpop = "waiting"
        /\ blpop' = "replied"
        /\ reply' = id
        /\ UNCHANGED <<logQ, orphans, lost>>
     \/ /\ orphans = 0 /\ blpop # "waiting"
        /\ logQ' = <<id>> \o logQ
        /\ UNCHANGED <<orphans, blpop, reply, lost>>
  /\ UNCHANGED <<pc, token, logs, events, skipped, faults,
                 redisVars, viewVars>>

-----------------------------------------------------------------------------
(* Start: three connections, then SUBSCRIBE, then the initial GET.         *)

Subscribe_NoGet ==                                    \* mutant
  /\ pc = "connect"
  /\ pc' = "select"
  /\ UNCHANGED <<token, events, faults, redisVars, logVars, viewVars>>

Subscribe ==
  /\ pc = "connect"
  /\ pc' = "fetch"
  /\ UNCHANGED <<token, events, faults, redisVars, logVars, viewVars>>

ConnectFails ==
  /\ pc = "connect" /\ faults < MaxFaults
  /\ pc' = "panicked"
  /\ faults' = faults + 1
  /\ UNCHANGED <<token, events, redisVars, logVars, viewVars>>

ServeGet ==
  /\ pc = "fetch"
  /\ pc' = "apply"
  /\ fetched' = Len(writes)
  /\ lastGet' = "ok"
  /\ UNCHANGED <<last, status, info, token, events, faults,
                 redisVars, logVars>>

GetFails ==
  /\ pc = "fetch" /\ faults < MaxFaults
  /\ pc' = "select"
  /\ lastGet' = "failed"
  /\ faults' = faults + 1
  /\ UNCHANGED <<fetched, last, status, info, token, events,
                 redisVars, logVars>>

Unchanged_Never(i) == i = 0                           \* mutant

Unchanged(i) == i = 0 \/ (last # 0 /\ writes[i] = writes[last])

ProcessStatus_AlwaysSends ==                          \* mutant
  /\ pc = "apply" /\ fetched # 0
  /\ pc' = "select"
  /\ IF Unchanged(fetched)
     THEN UNCHANGED <<last, status, info>>
     ELSE /\ last' = fetched
          /\ status' = writes[fetched].base
          /\ info' = InfoAfter(writes[fetched], info)
  /\ events' = Append(events, [kind |-> "status", of |-> fetched])
  /\ UNCHANGED <<fetched, lastGet, token, faults, redisVars, logVars>>

ProcessStatus ==
  /\ pc = "apply"
  /\ pc' = "select"
  /\ IF Unchanged(fetched)
     THEN UNCHANGED <<last, status, info, events>>
     ELSE /\ last' = fetched
          /\ status' = writes[fetched].base
          /\ info' = InfoAfter(writes[fetched], info)
          /\ events' = Append(events, [kind |-> "status", of |-> fetched])
  /\ UNCHANGED <<fetched, lastGet, token, faults, redisVars, logVars>>

-----------------------------------------------------------------------------
(* The select! loop.  Its branches are polled in random order, so another  *)
(* branch may win before the BLPOP is issued, while it waits, or after its *)
(* reply has arrived.                                                      *)

AbandonBlpop ==
  /\ orphans' = IF blpop = "waiting" THEN orphans + 1 ELSE orphans
  /\ lost' = IF blpop = "replied" THEN lost \cup {reply} ELSE lost
  /\ blpop' = "none" /\ reply' = 0
  /\ UNCHANGED <<pushed, logQ, logs, skipped>>

Notify_NoGet ==                                       \* mutant
  /\ pc = "select" /\ notices > 0
  /\ notices' = notices - 1
  /\ AbandonBlpop
  /\ UNCHANGED <<pc, writes, notify, token, events, faults, viewVars>>

Notify ==
  /\ pc = "select" /\ notices > 0
  /\ notices' = notices - 1
  /\ pc' = "fetch"
  /\ AbandonBlpop
  /\ UNCHANGED <<writes, notify, token, events, faults, viewVars>>

IssueBlpop_Again ==                                   \* mutant
  /\ pc = "select" /\ blpop # "replied"
  /\ blpop' = "waiting"
  /\ orphans' = IF blpop = "waiting" THEN orphans + 1 ELSE orphans
  /\ UNCHANGED <<pc, token, events, faults, pushed, logQ, reply, logs,
                 skipped, lost, redisVars, viewVars>>

IssueBlpop_AfterStatus ==                             \* mutant
  /\ pc = "select" /\ blpop = "none" /\ last # 0
  /\ IF logQ # <<>> /\ orphans = 0
     THEN blpop' = "replied" /\ reply' = Head(logQ) /\ logQ' = Tail(logQ)
     ELSE blpop' = "waiting" /\ UNCHANGED <<reply, logQ>>
  /\ UNCHANGED <<pc, token, events, faults, pushed, orphans, logs,
                 skipped, lost, redisVars, viewVars>>

(* The request waits behind the orphans of the same connection.            *)
IssueBlpop ==
  /\ pc = "select" /\ blpop = "none"
  /\ IF logQ # <<>> /\ orphans = 0
     THEN blpop' = "replied" /\ reply' = Head(logQ) /\ logQ' = Tail(logQ)
     ELSE blpop' = "waiting" /\ UNCHANGED <<reply, logQ>>
  /\ UNCHANGED <<pc, token, events, faults, pushed, orphans, logs,
                 skipped, lost, redisVars, viewVars>>

TakeLog_KeepsReply ==                                 \* mutant
  /\ pc = "select" /\ blpop = "replied"
  /\ logs' = Append(logs, [of |-> reply, level |-> Canonical(pushed[reply])])
  /\ events' = Append(events, [kind |-> "log", of |-> reply])
  /\ UNCHANGED <<pc, token, faults, pushed, logQ, orphans, blpop, reply,
                 skipped, lost, redisVars, viewVars>>

TakeLog ==
  /\ pc = "select" /\ blpop = "replied"
  /\ blpop' = "none" /\ reply' = 0
  /\ IF pushed[reply] = NoBar
     THEN skipped' = skipped \cup {reply} /\ UNCHANGED <<logs, events>>
     ELSE /\ logs' = Append(logs, [of |-> reply,
                                   level |-> Canonical(pushed[reply])])
          /\ events' = Append(events, [kind |-> "log", of |-> reply])
          /\ UNCHANGED skipped
  /\ UNCHANGED <<pc, token, faults, pushed, logQ, orphans, lost,
                 redisVars, viewVars>>

(* The Err is ignored and the loop turns.  On a time-out of the client the *)
(* request is still at Redis; on an error reply it is not.                 *)
BlpopFails ==
  /\ pc = "select" /\ blpop = "waiting" /\ faults < MaxFaults
  /\ blpop' = "none"
  /\ orphans' \in {orphans, orphans + 1}
  /\ faults' = faults + 1
  /\ UNCHANGED <<pc, token, events, pushed, logQ, reply, logs, skipped,
                 lost, redisVars, viewVars>>

StreamEnds ==
  /\ pc = "select" /\ faults < MaxFaults
  /\ pc' = "stopped"
  /\ faults' = faults + 1
  /\ AbandonBlpop
  /\ UNCHANGED <<token, events, redisVars, viewVars>>

Stop ==
  /\ pc = "select" /\ token = "cancelled"
  /\ pc' = "stopped"
  /\ AbandonBlpop
  /\ UNCHANGED <<token, events, faults, redisVars, viewVars>>

(* The task's connections are dropped and Redis forgets their requests.    *)
Disconnect ==
  /\ pc = "stopped" /\ orphans > 0
  /\ orphans' = 0
  /\ UNCHANGED <<pc, token, events, faults, pushed, logQ, blpop, reply,
                 logs, skipped, lost, redisVars, viewVars>>

(* cleanup cancels the token.                                              *)
Cancel ==
  /\ token = "live"
  /\ token' = "cancelled"
  /\ UNCHANGED <<pc, events, faults, redisVars, logVars, viewVars>>

Peer == \/ \E r \in Raw : SetStatus(r)
        \/ \E l \in Level \cup {NoBar} : PushLog(l)

Monitor == \/ Subscribe \/ ServeGet \/ ProcessStatus
           \/ Notify \/ IssueBlpop \/ TakeLog \/ Stop

Fault == ConnectFails \/ GetFails \/ BlpopFails \/ StreamEnds

Next == Peer \/ Monitor \/ Fault \/ Disconnect \/ Cancel

Spec == Init /\ [][Next]_vars

(* The runtime keeps polling the task, select! polls its branches in       *)
(* random order, and Redis answers.                                        *)
Fairness ==
  /\ WF_vars(Subscribe) /\ WF_vars(ServeGet) /\ WF_vars(ProcessStatus)
  /\ WF_vars(Notify) /\ WF_vars(IssueBlpop) /\ WF_vars(TakeLog)
  /\ WF_vars(Stop)

(* The life of a monitor before cleanup, with notifications enabled.       *)
LiveInit == Init /\ notify = "on"

LiveSpec ==
  LiveInit /\ [][Peer \/ Monitor \/ Fault \/ Disconnect]_vars /\ Fairness

-----------------------------------------------------------------------------
(* Properties.                                                             *)

TypeOK ==
  /\ writes \in Seq(Raw)
  /\ notify \in {"on", "off"} /\ notices \in Nat
  /\ pushed \in Seq(Level \cup {NoBar})
  /\ logQ \in Seq(Nat) /\ orphans \in Nat
  /\ pc \in {"connect", "fetch", "apply", "select", "stopped", "panicked"}
  /\ fetched \in 0 .. Len(writes) /\ last \in 0 .. Len(writes)
  /\ lastGet \in {"none", "ok", "failed"} /\ token \in {"live", "cancelled"}
  /\ blpop \in {"none", "waiting", "replied"}
  /\ reply \in IF blpop = "replied" THEN 1 .. Len(pushed) ELSE {0}
  /\ status \in Base \cup {"unknown"} /\ info \in Addr \cup {NoAddr}
  /\ logs \in Seq([of : Nat, level : KnownLevel])
  /\ events \in Seq([kind : {"log", "status"}, of : Nat])
  /\ skipped \subseteq 1 .. Len(pushed) /\ lost \subseteq 1 .. Len(pushed)
  /\ faults \in Nat

(* Subscribing before the initial GET is enough: once the task waits in    *)
(* select! with no notification queued, and its last GET did not fail, the *)
(* status it shows is the newest the peer SET.                             *)
Newest(i) == writes = <<>> \/ (i # 0 /\ writes[i] = writes[Len(writes)])

NoMissedUpdate ==
  notify = "on" /\ notices = 0 /\ lastGet # "failed" =>
    /\ pc = "select" => Newest(last)
    /\ pc = "apply"  => Newest(fetched)

(* An abandoned BLPOP costs at most one log entry, and only a notification,*)
(* a failed request or the end of the task abandons one: what is lost, or  *)
(* bound to be lost, never exceeds the SETs plus the faults plus one.      *)
LossBound ==
  Cardinality(lost) + orphans + notices
    <= Len(writes) + faults + (IF pc = "stopped" THEN 1 ELSE 0)

Logged == {logs[k].of : k \in 1 .. Len(logs)}
Queued == {logQ[k] : k \in 1 .. Len(logQ)}
InReply == IF blpop = "replied" THEN {reply} ELSE {}

(* Whatever the order of the branches of select!, every entry a peer ever  *)
(* pushed is in exactly one place: still listed, in a reply, shown, dropped*)
(* for want of a bar, or lost; none is shown twice.                        *)
AllThere ==
  Queued \cup InReply \cup Logged \cup skipped \cup lost = 1 .. Len(pushed)

Apart ==
  /\ Queued \cap (InReply \cup Logged \cup skipped \cup lost) = {}
  /\ InReply \cap (Logged \cup skipped \cup lost) = {}
  /\ Logged \cap (skipped \cup lost) = {}
  /\ skipped \cap lost = {}

NoneTwice ==
  /\ \A i, j \in 1 .. Len(logQ) : logQ[i] = logQ[j] => i = j
  /\ \A i, j \in 1 .. Len(logs) : logs[i].of = logs[j].of => i = j

LogsAccounted == AllThere /\ Apart /\ NoneTwice

(* The newest status event announces the status PeerState shows.           *)
StatusReplay ==
  /\ last = 0 => \A k \in 1 .. Len(events) : events[k].kind = "log"
  /\ last # 0 =>
       \E k \in 1 .. Len(events) :
         /\ events[k] = [kind |-> "status", of |-> last]
         /\ \A j \in k + 1 .. Len(events) : events[j].kind = "log"

(* at is where the entries of logs were announced: at all the log events,  *)
(* in their order.                                                         *)
Announced(at) ==
  /\ \A i, j \in 1 .. Len(logs) : i < j => at[i] < at[j]
  /\ \A i \in 1 .. Len(logs) : events[at[i]] = [kind |-> "log", of |-> logs[i].of]
  /\ \A k \in 1 .. Len(events) :
       events[k].kind = "log" => \E i \in 1 .. Len(logs) : at[i] = k

(* A console that hears every event of the task can rebuild PeerState: the *)
(* newest status event is the status shown, and the log events are logs.   *)
EventsReplay ==
  /\ StatusReplay
  /\ \E at \in [1 .. Len(logs) -> 1 .. Len(events)] : Announced(at)

(* PeerState is a StatusView of the peer.                                  *)
View == INSTANCE StatusView WITH seen <- last

ViewSafe == View!SafeSpec
ViewLive == View!Spec

(* An entry that reaches Redis does not stay there: it is shown, dropped   *)
(* for want of a bar, or lost to an abandoned BLPOP.                       *)
LogsDrain ==
  \A id \in 1 .. MaxLogs :
    id \in Queued \cup InReply ~> id \in Logged \cup skipped \cup lost

(* docs: the peer's logs appear in the orchestrator's output               *)
NoLogLost == lost = {}

=============================================================================
