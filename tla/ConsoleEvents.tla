---------------------------- MODULE ConsoleEvents ---------------------------
(***************************************************************************)
(* The log path from a peer to the console: LogForward, then the monitor   *)
(* of the peer, which shows what it takes from {peer}_log and sees on      *)
(* {peer}_status in PeerState and sends it as events to a broadcast        *)
(* channel, then run_console, which subscribes to that channel when the    *)
(* timeline begins and prints the statuses, warnings and errors among      *)
(* what it receives.                                                       *)
(*                                                                         *)
(* The monitor is reduced to what PeerMonitor shows of it: a status it     *)
(* shows is a later one that differs, and each status that was SET costs   *)
(* at most one entry of the list.                                          *)
(***************************************************************************)
EXTENDS LogForward

CONSTANTS
  ChanCap,     \* the capacity of the broadcast channel (256)
  Loud         \* the entries that are warnings or errors

ASSUME ChanAssumption == ChanCap \in Nat \ {0} /\ Loud \subseteq Nat

VARIABLES
  task,        \* the monitor task: "live" or "gone"
  seen,        \* the status it shows, as an index of statuses, or 0
  logs,        \* the entries of PeerState.logs (their order: PeerMonitor)
  lost,        \* entries that answered a BLPOP it had dropped
  unsent,      \* the entry it shows and has not sent yet, or 0
  events,      \* the events sent while run_console listens, oldest first
  console,     \* run_console: "before", "loop" or "over"
  next,        \* the event its receiver gets next
  printed,     \* history: the events printed, as indices of events
  announced    \* history: how many events the lag warnings counted

monitorVars == <<task, seen, logs, lost, unsent, events>>
consoleVars == <<console, next, printed, announced>>
vars == <<forwardVars, monitorVars, consoleVars>>

Init ==
  /\ ForwardInit
  /\ task = "live" /\ seen = 0
  /\ logs = {} /\ lost = {} /\ unsent = 0 /\ events = <<>>
  /\ console = "before" /\ next = 1 /\ printed = <<>> /\ announced = 0

-----------------------------------------------------------------------------
(* The monitor.                                                            *)

Status(i) == [kind |-> "status", of |-> i]
Entry(e)  == [kind |-> "log", of |-> e]

(* A send reaches the receivers there are: before run_console subscribes,  *)
(* and after it has returned, none.                                        *)
Send(event) ==
  events' = IF console = "loop" THEN Append(events, event) ELSE events

(* process_status: the status and its event under one lock.                *)
Observe ==
  /\ task = "live" /\ unsent = 0
  /\ \E i \in seen + 1 .. Len(statuses) :
       /\ seen > 0 => statuses[i] # statuses[seen]
       /\ seen' = i
       /\ Send(Status(i))
  /\ UNCHANGED <<task, logs, lost, unsent, forwardVars, consoleVars>>

Pop == list' = Tail(list) /\ UNCHANGED
  <<client, proc, process, owner, queue, inFlight, statuses, arrived, full,
    refused, cut, crashed, logFaults>>

(* The entry is shown under the lock, its event is sent after it.          *)
TakeEntry ==
  /\ task = "live" /\ unsent = 0 /\ list # <<>>
  /\ Pop
  /\ logs' = logs \cup {Head(list)} /\ unsent' = Head(list)
  /\ UNCHANGED <<task, seen, lost, events, consoleVars>>

SendEvent ==
  /\ unsent # 0
  /\ Send(Entry(unsent)) /\ unsent' = 0
  /\ UNCHANGED <<task, seen, logs, lost, forwardVars, consoleVars>>

LoseEntry ==
  /\ task = "live" /\ list # <<>> /\ Cardinality(lost) < Len(statuses)
  /\ Pop
  /\ lost' = lost \cup {Head(list)}
  /\ UNCHANGED <<task, seen, logs, unsent, events, consoleVars>>

(* cleanup, after run_console or in its place: what is still in the list   *)
(* stays there.  The task stops in select! only, where nothing is unsent.  *)
Cancel ==
  /\ task = "live" /\ console # "loop" /\ unsent = 0
  /\ task' = "gone"
  /\ UNCHANGED <<seen, logs, lost, unsent, events, forwardVars, consoleVars>>

-----------------------------------------------------------------------------
(* run_console.                                                            *)

SubscribeEvents ==
  /\ console = "before" /\ task = "live"
  /\ console' = "loop"
  /\ UNCHANGED <<next, printed, announced, forwardVars, monitorVars>>

(* The channel keeps the ChanCap newest events: a receiver that is further *)
(* behind is told how many it missed and goes on with the oldest of them.  *)
Behind == Len(events) - next + 1 - ChanCap

Lagged_Resubscribes ==                                  \* mutant
  /\ console = "loop" /\ Behind > 0
  /\ announced' = announced + Behind /\ next' = Len(events) + 1
  /\ UNCHANGED <<console, printed, forwardVars, monitorVars>>

Lagged ==
  /\ console = "loop" /\ Behind > 0
  /\ announced' = announced + Behind /\ next' = next + Behind
  /\ UNCHANGED <<console, printed, forwardVars, monitorVars>>

(* A log entry is printed if it is a warning or an error; what             *)
(* entrypoint.sh logs is neither.                                          *)
Printable(k) ==
  \/ events[k].kind = "status"
  \/ events[k].of \in Loud /\ owner[events[k].of] # 0

Receive ==
  /\ console = "loop" /\ next <= Len(events) /\ Behind <= 0
  /\ printed' = IF Printable(next) THEN Append(printed, next) ELSE printed
  /\ next' = next + 1
  /\ UNCHANGED <<console, announced, forwardVars, monitorVars>>

(* The test is over: events that are still in the channel are not printed. *)
EndConsole ==
  /\ console = "loop"
  /\ console' = "over"
  /\ events' = <<>> /\ next' = 1 /\ printed' = <<>> /\ announced' = 0
  /\ UNCHANGED <<task, seen, logs, lost, unsent, forwardVars>>

MonitorStep == Observe \/ TakeEntry \/ SendEvent \/ LoseEntry \/ Cancel
ConsoleStep == SubscribeEvents \/ Lagged \/ Receive \/ EndConsole

Next == \/ Forward /\ UNCHANGED <<monitorVars, consoleVars>>
        \/ MonitorStep
        \/ ConsoleStep

Spec == Init /\ [][Next]_vars

(* The flusher runs as long as its process, the monitor and the console as *)
(* long as tm; whether the peer logs, ends or is restarted is its affair.  *)
Fairness ==
  /\ WF_vars(Flusher /\ UNCHANGED <<monitorVars, consoleVars>>)
  /\ WF_vars(Observe /\ seen' = Len(statuses))
  /\ WF_vars(TakeEntry) /\ WF_vars(SendEvent)
  /\ WF_vars(Lagged \/ Receive)

-----------------------------------------------------------------------------
(* Properties.                                                             *)

Places == << Members(queue), Held, Members(list), logs, full,
             refused, cut, lost >>

(* From the program to PeerState no entry is duplicated, and none vanishes *)
(* but in one of four ways: the queue was full, Redis refused it, its      *)
(* process ended, or it answered a request the monitor had dropped.        *)
EntriesAccounted ==
  /\ UNION {Places[k] : k \in DOMAIN Places} = Logged
  /\ \A j, k \in DOMAIN Places : j # k => Places[j] \cap Places[k] = {}
  /\ \A s \in {queue, list} : Cardinality(Members(s)) = Len(s)

(* Of the events sent since it subscribed, the console prints statuses,    *)
(* warnings and errors in their order and nothing else.  Those it missed,  *)
(* being too slow, the lag warnings have counted, and they count no event  *)
(* that was printed.  When it has caught up and missed none, the last      *)
(* status it printed is the one PeerState shows (main.rs:570).             *)
ConsoleComplete ==
  LET Shown    == Members(printed)
      Missed   == {k \in 1 .. next - 1 : Printable(k)} \ Shown
      Statuses == {k \in DOMAIN events : events[k].kind = "status"}
  IN  /\ \A j, k \in 1 .. Len(printed) : j < k => printed[j] < printed[k]
      /\ \A k \in Shown : k \in 1 .. next - 1 /\ Printable(k)
      /\ Cardinality(Missed) <= announced
      /\ announced <= Cardinality((1 .. next - 1) \ Shown)
      /\ next > Len(events) /\ announced = 0 /\ Statuses # {} =>
           \E k \in DOMAIN printed :
             /\ events[printed[k]] = Status(seen)
             /\ \A j \in k + 1 .. Len(printed) : printed[j] \notin Statuses

(* As long as tm watches the peer, an entry does not linger: it is shown,  *)
(* or lost in one of the four ways; the newest status is shown; and the     *)
(* console gets past every event.                                          *)
(* (A peer logs a bounded number of entries here, hence <>[].)             *)
Settled ==
  /\ queue = <<>> /\ inFlight = 0
  /\ task = "live" =>
       /\ list = <<>> /\ unsent = 0
       /\ seen > 0 /\ statuses[seen] = statuses[Len(statuses)]
  /\ console = "loop" => next > Len(events)

Delivered == <>[]Settled

=============================================================================
