----------------------------- MODULE LogForward -----------------------------
(***************************************************************************)
(* How the log entries of a peer reach the list {peer}_log.                *)
(*                                                                         *)
(*   rust    on_event tries to put the entry in a bounded channel; a task  *)
(*           LPUSHes what it takes from there.                             *)
(*   python  emit puts it in a bounded queue, a daemon thread LPUSHes;     *)
(*           at the exit, close waits for room in the queue, no more.      *)
(*   go      Handle LPUSHes the entry before it returns.                   *)
(*                                                                         *)
(* No client tells anyone when an entry is dropped or an LPUSH fails.      *)
(* Between two processes, entrypoint.sh LPUSHes an entry of its own.  An   *)
(* entry is its number.                                                    *)
(*                                                                         *)
(* A definition Name_Change is a mutant of Name: a change that a bug could *)
(* make and that some property must notice.  No specification uses it.     *)
(***************************************************************************)
EXTENDS Naturals, Sequences, FiniteSets

CONSTANTS
  QueueCap,      \* the capacity of the queue (1024 in rust, 4096 in python)
  MaxEntries,    \* bound: entries
  MaxProcesses,  \* bound: processes of the peer
  MaxLogFaults   \* bound: crashes and failed LPUSHes

ASSUME LogAssumption ==
  /\ QueueCap \in Nat \ {0} /\ MaxEntries \in Nat
  /\ MaxProcesses \in Nat \ {0} /\ MaxLogFaults \in Nat

VARIABLES
  client,      \* the client library: "rust", "python" or "go"
  proc,        \* "running", "leaving", "asleep" or "exited"
  process,     \* which process of the peer this is, from 1
  owner,       \* owner[e]: the process that logged e, or 0: entrypoint.sh
  queue,       \* the channel or queue of the process
  inFlight,    \* the entry whose LPUSH is awaited, or 0
  list,        \* {peer}_log, head first
  statuses,    \* what the peer SET on {peer}_status
  arrived,     \* history: the entries that were LPUSHed
  full,        \* history: entries dropped as the queue was full
  refused,     \* history: entries whose LPUSH failed
  cut,         \* history: entries that died with their process
  crashed,     \* history: the processes that were killed or crashed
  logFaults

forwardVars == <<client, proc, process, owner, queue, inFlight, list, statuses,
                 arrived, full, refused, cut, crashed, logFaults>>

Logged == 1 .. Len(owner)
Members(s) == {s[k] : k \in 1 .. Len(s)}
Held == IF inFlight = 0 THEN {} ELSE {inFlight}

ForwardInit ==
  /\ client \in {"rust", "python", "go"}
  /\ proc = "running" /\ process = 1
  /\ owner = <<>> /\ queue = <<>> /\ inFlight = 0
  /\ list = <<>>                                    \* main DELs {peer}_log
  /\ statuses = <<"started">>
  /\ arrived = {} /\ full = {} /\ refused = {} /\ cut = {} /\ crashed = {}
  /\ logFaults = 0

-----------------------------------------------------------------------------
(* The program.  That of a Go peer waits for the LPUSH of what it logs.    *)

ProgramRuns == proc = "running" /\ (client = "go" => inFlight = 0)

Emit_DropsOldest(e) ==                                  \* mutant
  IF client = "go"
  THEN inFlight' = e /\ UNCHANGED <<queue, full>>
  ELSE /\ queue' = IF Len(queue) < QueueCap THEN Append(queue, e)
                   ELSE Append(Tail(queue), e)
       /\ UNCHANGED <<inFlight, full>>

Emit(e) ==
  IF client = "go"
  THEN inFlight' = e /\ UNCHANGED <<queue, full>>
  ELSE /\ IF Len(queue) < QueueCap
          THEN queue' = Append(queue, e) /\ UNCHANGED full
          ELSE full' = full \cup {e} /\ UNCHANGED queue
       /\ UNCHANGED inFlight

Log ==
  /\ ProgramRuns /\ Len(owner) < MaxEntries
  /\ owner' = Append(owner, process)
  /\ Emit(Len(owner) + 1)
  /\ UNCHANGED <<client, proc, process, list, statuses, arrived, refused, cut,
                 crashed, logFaults>>

(* Shutdown or restart: the last status is SET, then the program ends.     *)
Leave ==
  /\ ProgramRuns
  /\ proc' = "leaving"
  /\ \E s \in {"stopped", "restarting"} : statuses' = Append(statuses, s)
  /\ UNCHANGED <<client, process, owner, queue, inFlight, list, arrived, full,
                 refused, cut, crashed, logFaults>>

-----------------------------------------------------------------------------
(* The flusher.                                                            *)

Take_Newest ==                                          \* mutant
  /\ proc \in {"running", "leaving"} /\ inFlight = 0 /\ queue # <<>>
  /\ inFlight' = queue[Len(queue)]
  /\ queue' = SubSeq(queue, 1, Len(queue) - 1)
  /\ UNCHANGED <<client, proc, process, owner, list, statuses, arrived, full,
                 refused, cut, crashed, logFaults>>

Take_InBatches ==                                       \* mutant
  /\ proc \in {"running", "leaving"} /\ inFlight = 0
  /\ Len(queue) = QueueCap
  /\ inFlight' = Head(queue) /\ queue' = Tail(queue)
  /\ UNCHANGED <<client, proc, process, owner, list, statuses, arrived, full,
                 refused, cut, crashed, logFaults>>

Take ==
  /\ proc \in {"running", "leaving"} /\ inFlight = 0 /\ queue # <<>>
  /\ inFlight' = Head(queue) /\ queue' = Tail(queue)
  /\ UNCHANGED <<client, proc, process, owner, list, statuses, arrived, full,
                 refused, cut, crashed, logFaults>>

Arrives(e) == list' = <<e>> \o list /\ arrived' = arrived \cup {e}

Lpush ==
  /\ inFlight # 0
  /\ Arrives(inFlight)
  /\ inFlight' = 0
  /\ UNCHANGED <<client, proc, process, owner, queue, statuses, full, refused,
                 cut, crashed, logFaults>>

(* The error is ignored in all three.                                      *)
LpushFails ==
  /\ inFlight # 0 /\ logFaults < MaxLogFaults
  /\ refused' = refused \cup {inFlight}
  /\ inFlight' = 0 /\ logFaults' = logFaults + 1
  /\ UNCHANGED <<client, proc, process, owner, queue, list, statuses, arrived,
                 full, cut, crashed>>

-----------------------------------------------------------------------------
(* The end of a process.  An LPUSH in flight may have reached Redis.       *)

Perish ==
  /\ queue' = <<>> /\ inFlight' = 0
  /\ \/ /\ inFlight # 0 /\ Arrives(inFlight)
        /\ cut' = cut \cup Members(queue)
     \/ /\ cut' = cut \cup Members(queue) \cup Held
        /\ UNCHANGED <<list, arrived>>

Ends == IF statuses[Len(statuses)] = "restarting" THEN "asleep" ELSE "exited"

Exit ==
  /\ proc = "leaving"
  /\ client = "python" => Len(queue) < QueueCap       \* room for the last None
  /\ proc' = Ends
  /\ Perish
  /\ UNCHANGED <<client, process, owner, statuses, full, refused, crashed,
                 logFaults>>

Crash ==
  /\ proc \in {"running", "leaving"} /\ logFaults < MaxLogFaults
  /\ proc' = "exited"
  /\ crashed' = crashed \cup {process} /\ logFaults' = logFaults + 1
  /\ Perish
  /\ UNCHANGED <<client, process, owner, statuses, full, refused>>

(* entrypoint.sh: its own entry (or none, if redis-cli fails), a sleep,    *)
(* and the next process, which reports that it has started.                *)
Restart ==
  /\ proc = "asleep" /\ process < MaxProcesses /\ Len(owner) < MaxEntries
  /\ proc' = "running" /\ process' = process + 1
  /\ owner' = Append(owner, 0)
  /\ \/ /\ Arrives(Len(owner) + 1)
        /\ UNCHANGED <<refused, logFaults>>
     \/ /\ logFaults < MaxLogFaults /\ logFaults' = logFaults + 1
        /\ refused' = refused \cup {Len(owner) + 1}
        /\ UNCHANGED <<list, arrived>>
  /\ statuses' = Append(statuses, "started")
  /\ UNCHANGED <<client, queue, inFlight, full, cut, crashed>>

Flusher == Take \/ Lpush

Forward == Log \/ Leave \/ Flusher \/ LpushFails \/ Exit \/ Crash \/ Restart

-----------------------------------------------------------------------------
(* Properties.                                                             *)

(* What arrives is newer than all that arrived; what died with its process *)
(* is newer than what the process got through, and is not much.            *)
InOrder ==
  /\ \A e \in arrived' \ arrived, a \in arrived : a < e
  /\ \A e \in cut, a \in arrived : owner[a] = owner[e] => a < e
  /\ \A n \in 1 .. process :
       Cardinality({e \in cut' : owner[e] = n}) <= QueueCap + 1
  /\ client = "go" =>
       full' = {} /\ \A e \in cut' : owner[e] \in crashed'

(* What a process logs arrives in the order it was logged, after what the  *)
(* processes before it logged; so of what dies with its process nothing    *)
(* logged later ever arrives: the tail is cut, at most a queue and the     *)
(* entry in flight (lib.rs:140).  A Go peer loses nothing but what Redis   *)
(* refuses, unless it is killed.                                           *)
ArrivesInOrder == [][InOrder]_forwardVars

=============================================================================
