---------------------------- MODULE Orchestrator ----------------------------
(***************************************************************************)
(* One run of tm from the start of Redis to its exit (src/src/main.rs,     *)
(* src/src/orchestrator.rs, src/src/redis_mgr.rs), composed with the peers *)
(* (PeerClient) and with the status every monitor task shows (StatusView,  *)
(* which PeerMonitor implements).  Assigning the peers and distributing    *)
(* the images succeed or fail here; AssignPeers and ImageDistribution say  *)
(* how.                                                                    *)
(*                                                                         *)
(* A loop over a list handles one element a step, so that peers, monitors, *)
(* the clock and the user may act between two of its Redis or Docker       *)
(* calls; todo holds what the loop still has to handle.                    *)
(*                                                                         *)
(* A definition Name_Change is a mutant of Name: a change that a bug could *)
(* make and that some property must notice.  No specification uses it.     *)
(***************************************************************************)
EXTENDS Naturals, Sequences, FiniteSets

CONSTANTS
  Peer, NoAddr, Plain, Prefetch, Reconnects, Cap, MaxSends, MaxFaults,
              \* as in PeerClient
  OldAddr,    \* a multiaddr that a peer of an earlier run reported
  PeerSeq,    \* the peers of the config, in order
  BootSeq,    \* <<peer, its bootstrap peer>>, in the order of the config
  Batches,    \* the timeline: a sequence of sequences of <<peer, command>>
  External,   \* --redis-url: Redis is not a container of this run
  Stale       \* what an external Redis may hold of {peer}_status, with NoRaw

ASSUME RunAssumption ==
  /\ NoAddr \notin Peer /\ OldAddr \notin Peer \cup {NoAddr}
  /\ PeerSeq \in Seq(Peer) /\ BootSeq \in Seq(Peer \X Peer)
  /\ Batches \in Seq(Seq(Peer \X {"shutdown", "restart", "other"}))
  /\ \A p \in Peer : \E k \in 1 .. Len(PeerSeq) : PeerSeq[k] = p
  /\ \A j, k \in 1 .. Len(PeerSeq) : PeerSeq[j] = PeerSeq[k] => j = k
  /\ External \in BOOLEAN

NoRaw == [base |-> "none", addr |-> NoAddr]
ASSUME StaleAssumption ==
  /\ External \/ Stale = {NoRaw}
  /\ Stale \subseteq
       {NoRaw} \cup [base : {"started", "restarting", "stopped"},
                    addr : {OldAddr, NoAddr}]

VARIABLES
  (* the peers and Redis *)
  sent, cmdQ, writes, proc, poller, ghosts, held, chan, executed, dropped,
  deaths, breaks, faults,
  (* the monitor tasks and PeerState, by peer *)
  monitor,     \* "none", "up" or "gone"
  seen, status, info,
  (* the main task *)
  redis,       \* the container tm-redis: "none", "created" or "up"
  main,        \* where main stands
  todo,        \* the rest of the list its loop goes through
  then,        \* where it goes after shutdown_all_peers
  deadline,    \* of the current wait: "off", "armed" or "passed"
  batch,       \* current_batch_idx + 1
  due,         \* how many batches are due by now
  shutdownSent,
  signalled,   \* shutdown_token is cancelled
  outcome,     \* "none", then "ok" or "failed"
  (* history *)
  tui,         \* --tui
  oldSent, oldWrites,  \* what Redis already held of each peer
  told,        \* the bootstrap addresses sent
  gaveUp,      \* the waits whose deadline passed in vain
  failed       \* the calls that failed

clientVars == <<sent, cmdQ, writes, proc, poller, ghosts, held, chan,
                executed, dropped, deaths, breaks, faults>>
viewVars == <<monitor, seen, status, info>>
runVars  == <<redis, then, deadline, batch, due, shutdownSent, signalled,
              outcome>>
histVars == <<oldSent, oldWrites, tui, told, gaveUp, failed>>
vars == <<clientVars, viewVars, main, todo, runVars, histVars>>

Client == INSTANCE PeerClient

View(p) == INSTANCE StatusView WITH
  Base <- {"started", "restarting", "stopped"}, Addr <- Peer \cup {OldAddr},
  writes <- writes[p], seen <- seen[p], status <- status[p], info <- info[p]

(* An external Redis may still hold a status, and a command, of an earlier *)
(* run; no container of one is left.                                       *)
Init ==
  /\ \E old \in [Peer -> Stale] :
       /\ writes = [p \in Peer |-> IF old[p] = NoRaw THEN <<>> ELSE <<old[p]>>]
       /\ sent = [p \in Peer |->
                    IF old[p] = NoRaw THEN <<>> ELSE <<"shutdown">>]
       /\ cmdQ = [p \in Peer |-> IF old[p] = NoRaw THEN <<>> ELSE <<1>>]
       /\ oldWrites = [p \in Peer |-> Len(writes[p])]
       /\ oldSent = [p \in Peer |-> Len(sent[p])]
  /\ Client!NoContainers
  /\ monitor = [p \in Peer |-> "none"]
  /\ seen = [p \in Peer |-> 0]
  /\ status = [p \in Peer |-> "unknown"]
  /\ info = [p \in Peer |-> NoAddr]
  /\ redis = "none" /\ main = "redis" /\ todo = <<>>
  /\ then = "none" /\ deadline = "off"
  /\ batch = 1 /\ due = 0
  /\ shutdownSent = FALSE /\ signalled = FALSE /\ outcome = "none"
  /\ tui \in BOOLEAN
  /\ told = {} /\ gaveUp = {} /\ failed = {}

-----------------------------------------------------------------------------
(* The main task.                                                          *)

At(phase)         == main = phase /\ todo # <<>>
Done(phase)       == main = phase /\ todo = <<>>
GoTo(phase, list) == main' = phase /\ todo' = list
NextItem          == UNCHANGED main /\ todo' = Tail(todo)

(* A call fails, at most MaxFaults times in all.                           *)
Fails(call) ==
  /\ faults < MaxFaults
  /\ faults' = faults + 1
  /\ failed' = failed \cup {call}
  /\ UNCHANGED <<sent, cmdQ, writes, proc, poller, ghosts, held, chan,
                 executed, dropped, deaths, breaks, oldSent, oldWrites, tui,
                 told, gaveUp>>

(* main returns early with an Err, or panics: only Drop is left to do.     *)
Bail ==
  /\ GoTo("drop", <<>>)
  /\ outcome' = "failed"
  /\ UNCHANGED <<viewVars, redis, then, deadline, batch, due, shutdownSent,
                 signalled>>

(* docker rm -f tm-redis, docker run; nothing to do with --redis-url.      *)
StartRedis ==
  /\ main = "redis"
  /\ redis' = IF External THEN redis ELSE "up"
  /\ GoTo("setUp", <<"connect", "assign", "ssh", "images">>)
  /\ UNCHANGED <<clientVars, viewVars, then, deadline, batch, due,
                 shutdownSent, signalled, outcome, histVars>>

(* docker run may leave the container it created; there is no RedisManager *)
(* yet whose Drop would remove it.                                         *)
RedisFails ==
  /\ main = "redis" /\ Fails("redis")
  /\ GoTo("exited", <<>>) /\ outcome' = "failed"
  /\ redis' \in {"none"} \cup (IF External THEN {} ELSE {"created"})
  /\ UNCHANGED <<viewVars, then, deadline, batch, due, shutdownSent,
                 signalled>>

(* A connection, the assignment, the sessions (whose failure is a panic),  *)
(* the images.                                                             *)
SetUp ==
  /\ At("setUp")
  /\ NextItem
  /\ UNCHANGED <<clientVars, viewVars, runVars, histVars>>

SetUpFails == At("setUp") /\ Fails("setUp") /\ Bail

SetUpDone ==
  /\ Done("setUp")
  /\ GoTo("clear", PeerSeq)
  /\ UNCHANGED <<clientVars, viewVars, runVars, histVars>>

Clear_Nothing ==                                      \* mutant
  /\ At("clear")
  /\ NextItem
  /\ UNCHANGED <<clientVars, viewVars, runVars, histVars>>

(* DEL {p}_command and {p}_log, not {p}_status.                            *)
Clear ==
  /\ At("clear")
  /\ LET p == Head(todo) IN
     /\ cmdQ' = [cmdQ EXCEPT ![p] = <<>>]
     /\ dropped' = [dropped EXCEPT ![p] = @ \cup Client!Members(cmdQ[p])]
  /\ NextItem
  /\ UNCHANGED <<sent, writes, proc, poller, ghosts, held, chan, executed,
                 deaths, breaks, faults, viewVars, runVars, histVars>>

(* Either DEL fails.  No peer runs, and none will: what is left of the     *)
(* lists makes no difference.                                              *)
ClearFails == At("clear") /\ Fails("clear") /\ Bail

Launch ==
  /\ At("launch")
  /\ Client!Launch(Head(todo))
  /\ NextItem
  /\ UNCHANGED <<viewVars, runVars, histVars>>

(* The containers launched so far are left running.                        *)
LaunchFails == At("launch") /\ Fails("launch") /\ Bail

(* The first wait begins with the monitors.                                *)
Spawn ==
  /\ Done("launch")
  /\ monitor' = [p \in Peer |-> "up"]
  /\ GoTo("startTop", <<>>) /\ deadline' = "armed"
  /\ UNCHANGED <<clientVars, seen, status, info, then, batch, due, redis,
                 shutdownSent, signalled, outcome, histVars>>

All(word) == \A p \in Peer : status[p] = word

StartExpired_GoesOn ==                                \* mutant
  /\ main = "startTop" /\ deadline = "passed"
  /\ GoTo("bootWait", <<>>) /\ deadline' = "armed"
  /\ gaveUp' = gaveUp \cup {"startup"}
  /\ UNCHANGED <<clientVars, viewVars, then, batch, due, redis, shutdownSent,
                 signalled, outcome, oldSent, oldWrites, tui, told, failed>>

StartExpired_NoShutdown ==                            \* mutant
  /\ main = "startTop" /\ deadline = "passed"
  /\ GoTo("join", <<>>) /\ outcome' = "failed"
  /\ gaveUp' = gaveUp \cup {"startup"}
  /\ UNCHANGED <<clientVars, viewVars, then, deadline, batch, due, redis,
                 shutdownSent, signalled, oldSent, oldWrites, tui, told,
                 failed>>

(* wait_for_peers_started: the deadline, then the statuses, then a second  *)
(* of sleep.  At the deadline the statuses are read for the message only.  *)
StartExpired ==
  /\ main = "startTop" /\ deadline = "passed"
  /\ GoTo("shutdown", PeerSeq) /\ then' = "cleanup"
  /\ outcome' = "failed" /\ gaveUp' = gaveUp \cup {"startup"}
  /\ UNCHANGED <<clientVars, viewVars, deadline, batch, due, redis,
                 shutdownSent, signalled, oldSent, oldWrites, tui, told,
                 failed>>

StartTop ==
  /\ main = "startTop" /\ deadline # "passed"
  /\ GoTo("startCheck", <<>>)
  /\ UNCHANGED <<clientVars, viewVars, runVars, histVars>>

StartCheck ==
  /\ main = "startCheck"
  /\ IF All("started")
     THEN GoTo("bootWait", <<>>) /\ deadline' = "armed"
     ELSE GoTo("startTop", <<>>) /\ UNCHANGED deadline
  /\ UNCHANGED <<clientVars, viewVars, then, batch, due, redis, shutdownSent,
                 signalled, outcome, histVars>>

BootWait_AtOnce ==                                    \* mutant
  /\ main = "bootWait"
  /\ gaveUp' = IF deadline = "passed" THEN gaveUp \cup {"bootstrap"} ELSE gaveUp
  /\ GoTo("bootSend", BootSeq) /\ deadline' = "off"
  /\ UNCHANGED <<clientVars, viewVars, then, batch, due, redis, shutdownSent,
                 signalled, outcome, oldSent, oldWrites, tui, told, failed>>

(* send_bootstrap_commands: at most ten seconds for the multiaddrs, then   *)
(* the LPUSHes under the lock of PeerState.                                *)
BootWait ==
  /\ main = "bootWait"
  /\ LET missing == \E k \in 1 .. Len(BootSeq) : info[BootSeq[k][2]] = NoAddr IN
     /\ missing => deadline = "passed"
     /\ gaveUp' = IF missing THEN gaveUp \cup {"bootstrap"} ELSE gaveUp
  /\ GoTo("bootSend", BootSeq) /\ deadline' = "off"
  /\ UNCHANGED <<clientVars, viewVars, then, batch, due, redis, shutdownSent,
                 signalled, outcome, oldSent, oldWrites, tui, told, failed>>

BootSend ==
  /\ At("bootSend")
  /\ LET to == Head(todo)[1]
         of == Head(todo)[2]
     IN  IF info[of] = NoAddr
         THEN UNCHANGED <<clientVars, told>>
         ELSE /\ Client!Push(to, "other")
              /\ told' = told \cup {<<to, of, info[of]>>}
  /\ NextItem
  /\ UNCHANGED <<viewVars, runVars, oldSent, oldWrites, tui, gaveUp, failed>>

(* An LPUSH of a bootstrap command fails.                                  *)
BootFails ==
  /\ At("bootSend") /\ info[Head(todo)[2]] # NoAddr
  /\ Fails("bootstrap") /\ Bail

BootDone ==
  /\ Done("bootSend")
  /\ GoTo("run", <<>>)
  /\ UNCHANGED <<clientVars, viewVars, runVars, histVars>>

-----------------------------------------------------------------------------
(* run_tui and run_console.                                                *)

(* select! of run_console: the tick, or the signal.  (Its event branch     *)
(* only logs.)  run_tui has no choice here.                                *)
Tick ==
  /\ main = "run"
  /\ GoTo("send", <<>>)
  /\ UNCHANGED <<clientVars, viewVars, runVars, histVars>>

SignalBranch ==
  /\ ~tui /\ main = "run" /\ signalled
  /\ GoTo("shutdown", PeerSeq) /\ then' = "drain"
  /\ UNCHANGED <<clientVars, viewVars, deadline, batch, due, redis,
                 shutdownSent, signalled, outcome, histVars>>

(* send_due_batches: a command that could not be sent counts as sent.      *)
NextBatch ==
  /\ Done("send") /\ batch <= due
  /\ GoTo("send", Batches[batch]) /\ batch' = batch + 1
  /\ UNCHANGED <<clientVars, viewVars, then, deadline, due, redis,
                 shutdownSent, signalled, outcome, histVars>>

SendOne ==
  /\ At("send")
  /\ Client!Push(Head(todo)[1], Head(todo)[2])
  /\ NextItem
  /\ UNCHANGED <<viewVars, runVars, histVars>>

PushFails ==
  /\ At("send") \/ At("shutdown")
  /\ Fails("push")
  /\ NextItem
  /\ UNCHANGED <<viewVars, runVars>>

AllSent ==
  /\ Done("send") /\ batch > due
  /\ GoTo(IF tui THEN "input" ELSE "auto", <<>>)
  /\ UNCHANGED <<clientVars, viewVars, runVars, histVars>>

(* run_tui: the key q, else the signal, else the auto-shutdown.            *)
Quit ==
  /\ main = "input"
  /\ GoTo("shutdown", PeerSeq) /\ then' = "drain"
  /\ UNCHANGED <<clientVars, viewVars, deadline, batch, due, redis,
                 shutdownSent, signalled, outcome, histVars>>

NoKey ==
  /\ main = "input"
  /\ IF signalled
     THEN GoTo("shutdown", PeerSeq) /\ then' = "drain"
     ELSE GoTo("auto", <<>>) /\ UNCHANGED then
  /\ UNCHANGED <<clientVars, viewVars, deadline, batch, due, redis,
                 shutdownSent, signalled, outcome, histVars>>

(* Setting the terminal up, draw, poll or restoring it fails: run_tui       *)
(* returns Err, and cleanup follows.                                        *)
TuiFails ==
  /\ tui /\ Fails("tui")
  /\ \/ main = "run" /\ batch = 1 /\ ~shutdownSent
     \/ main = "input"
     \/ main = "join" /\ outcome = "none"
  /\ GoTo("join", <<>>) /\ outcome' = "failed"
  /\ UNCHANGED <<viewVars, then, deadline, batch, due, redis, shutdownSent,
                 signalled>>

(* A panic while the screen is drawn: a name too long for the terminal, a  *)
(* command cut inside a character.  Nothing catches it.                    *)
RenderPanics == tui /\ main = "input" /\ Fails("render") /\ Bail

TimelineOver == batch > Len(Batches)

AutoShutdown ==
  /\ main = "auto" /\ TimelineOver /\ ~shutdownSent
  /\ GoTo("shutdown", PeerSeq) /\ then' = "auto"
  /\ shutdownSent' = TRUE
  /\ UNCHANGED <<clientVars, viewVars, deadline, batch, due, redis, signalled,
                 outcome, histVars>>

AutoCheck_Any ==                                      \* mutant
  /\ main = "auto" /\ (shutdownSent \/ ~TimelineOver)
  /\ LET stopped == \E p \in Peer : status[p] = "stopped"
         over == TimelineOver /\ (stopped \/ deadline = "passed") IN
     /\ GoTo(IF over THEN "join" ELSE "run", <<>>)
     /\ gaveUp' = IF over /\ ~stopped THEN gaveUp \cup {"shutdown"} ELSE gaveUp
  /\ UNCHANGED <<clientVars, viewVars, runVars, oldSent, oldWrites, tui, told,
                 failed>>

AutoCheck ==
  /\ main = "auto" /\ (shutdownSent \/ ~TimelineOver)
  /\ LET over == TimelineOver /\ (All("stopped") \/ deadline = "passed") IN
     /\ GoTo(IF over THEN "join" ELSE "run", <<>>)
     /\ gaveUp' = IF over /\ ~All("stopped") THEN gaveUp \cup {"shutdown"}
                  ELSE gaveUp
  /\ UNCHANGED <<clientVars, viewVars, runVars, oldSent, oldWrites, tui, told,
                 failed>>

-----------------------------------------------------------------------------
(* shutdown_all_peers, wait_for_peers_stopped and cleanup.                 *)

ShutdownOne ==
  /\ At("shutdown")
  /\ Client!Push(Head(todo), "shutdown")
  /\ NextItem
  /\ UNCHANGED <<viewVars, runVars, histVars>>

ShutdownDone_NoDeadline ==                            \* mutant
  /\ Done("shutdown")
  /\ GoTo(CASE then = "cleanup" -> "join"
           [] then = "drain"   -> "stopTop"
           [] then = "auto"    -> "auto", <<>>)
  /\ deadline' = "off"
  /\ UNCHANGED <<clientVars, viewVars, then, batch, due, redis, shutdownSent,
                 signalled, outcome, histVars>>

ShutdownDone ==
  /\ Done("shutdown")
  /\ GoTo(CASE then = "cleanup" -> "join"
           [] then = "drain"   -> "stopTop"
           [] then = "auto"    -> "auto", <<>>)
  /\ deadline' = IF then = "cleanup" THEN deadline ELSE "armed"
  /\ UNCHANGED <<clientVars, viewVars, then, batch, due, redis, shutdownSent,
                 signalled, outcome, histVars>>

StopExpired ==
  /\ main = "stopTop" /\ deadline = "passed"
  /\ GoTo("join", <<>>) /\ gaveUp' = gaveUp \cup {"shutdown"}
  /\ UNCHANGED <<clientVars, viewVars, runVars, oldSent, oldWrites, tui, told,
                 failed>>

StopTop ==
  /\ main = "stopTop" /\ deadline # "passed"
  /\ GoTo("stopCheck", <<>>)
  /\ UNCHANGED <<clientVars, viewVars, runVars, histVars>>

StopCheck ==
  /\ main = "stopCheck"
  /\ GoTo(IF All("stopped") THEN "join" ELSE "stopTop", <<>>)
  /\ UNCHANGED <<clientVars, viewVars, runVars, histVars>>

(* The token is cancelled; every monitor task is awaited.                  *)
Joined ==
  /\ main = "join" /\ \A p \in Peer : monitor[p] # "up"
  /\ GoTo("remove", PeerSeq)
  /\ UNCHANGED <<clientVars, viewVars, runVars, histVars>>

Remove_IfNotStopped ==                                \* mutant
  /\ At("remove")
  /\ IF status[Head(todo)] # "stopped"
     THEN Client!Remove(Head(todo))
     ELSE UNCHANGED clientVars
  /\ NextItem
  /\ UNCHANGED <<viewVars, runVars, histVars>>

Remove ==
  /\ At("remove")
  /\ Client!Remove(Head(todo))
  /\ NextItem
  /\ UNCHANGED <<viewVars, runVars, histVars>>

RemoveFails ==
  /\ At("remove") /\ Fails("remove")
  /\ NextItem
  /\ UNCHANGED <<viewVars, runVars>>

(* docker rm -f tm-redis, by cleanup and again by the Drop of RedisManager *)
(* (there is none with --redis-url).  stop only warns of a failure, Drop   *)
(* ignores it, and the container stays.                                    *)
RemoveRedis(call) ==
  \/ /\ redis' = IF redis = "up" THEN "none" ELSE redis
     /\ UNCHANGED failed
  \/ /\ redis = "up" /\ UNCHANGED redis
     /\ failed' = failed \cup {call}

StopRedis ==
  /\ Done("remove")
  /\ GoTo("drop", <<>>)
  /\ RemoveRedis("stopRedis")
  /\ outcome' = IF outcome = "none" THEN "ok" ELSE outcome
  /\ UNCHANGED <<clientVars, viewVars, then, deadline, batch, due,
                 shutdownSent, signalled, oldSent, oldWrites, tui, told,
                 gaveUp>>

(* main is over: the process ends, and its tasks with it.                  *)
Drop ==
  /\ main = "drop"
  /\ GoTo("exited", <<>>)
  /\ RemoveRedis("dropRedis")
  /\ monitor' = [p \in Peer |-> "gone"]
  /\ UNCHANGED <<clientVars, seen, status, info, then, deadline, batch, due,
                 shutdownSent, signalled, outcome, oldSent, oldWrites, tui,
                 told, gaveUp>>

-----------------------------------------------------------------------------
(* Everything else.                                                        *)

(* The lock of PeerState is held across bootSend.                          *)
Observe(p) ==
  /\ monitor[p] = "up" /\ main # "bootSend"
  /\ \E i \in (seen[p] + 1) .. Len(writes[p]) :
       /\ seen[p] > 0 => writes[p][i] # writes[p][seen[p]]
       /\ seen' = [seen EXCEPT ![p] = i]
       /\ status' = [status EXCEPT ![p] = writes[p][i].base]
       /\ info' = [info EXCEPT ![p] = View(p)!InfoAfter(writes[p][i], @)]
  /\ UNCHANGED <<clientVars, monitor, main, todo, runVars, histVars>>

MonitorStops(p) ==
  /\ monitor[p] = "up" /\ main = "join"
  /\ monitor' = [monitor EXCEPT ![p] = "gone"]
  /\ UNCHANGED <<clientVars, seen, status, info, main, todo, runVars,
                 histVars>>

(* The task panics at its start, or its subscription ends.                 *)
MonitorDies(p) ==
  /\ monitor[p] = "up" /\ Fails("monitor")
  /\ monitor' = [monitor EXCEPT ![p] = "gone"]
  /\ UNCHANGED <<seen, status, info, main, todo, runVars>>

Clock ==
  /\ deadline = "armed"
  /\ deadline' = "passed"
  /\ UNCHANGED <<clientVars, viewVars, main, todo, then, batch, due, redis,
                 shutdownSent, signalled, outcome, histVars>>

BatchDue_OneMore ==                                   \* mutant
  /\ main \in {"run", "send", "input", "auto"} /\ due <= Len(Batches)
  /\ due' = due + 1
  /\ UNCHANGED <<clientVars, viewVars, main, todo, then, deadline, batch,
                 redis, shutdownSent, signalled, outcome, histVars>>

(* The time of the next batch comes.                                       *)
BatchDue ==
  /\ main \in {"run", "send", "input", "auto"} /\ due < Len(Batches)
  /\ due' = due + 1
  /\ UNCHANGED <<clientVars, viewVars, main, todo, then, deadline, batch,
                 redis, shutdownSent, signalled, outcome, histVars>>

Signal ==
  /\ ~signalled /\ main # "exited"
  /\ signalled' = TRUE
  /\ UNCHANGED <<clientVars, viewVars, main, todo, then, deadline, batch, due,
                 redis, shutdownSent, outcome, histVars>>

PeerStep(p) ==
  /\ Client!Step(p) \/ Client!Fault(p)
  /\ UNCHANGED <<viewVars, main, todo, runVars, histVars>>

ClearDone ==
  /\ Done("clear")
  /\ GoTo("launch", PeerSeq)
  /\ UNCHANGED <<clientVars, viewVars, runVars, histVars>>

Main ==
  \/ StartRedis \/ SetUp \/ SetUpDone \/ Clear \/ ClearDone \/ Launch \/ Spawn
  \/ StartExpired \/ StartTop \/ StartCheck
  \/ BootWait \/ BootSend \/ BootDone
  \/ Tick \/ NextBatch \/ SendOne \/ AllSent \/ NoKey
  \/ AutoShutdown \/ AutoCheck
  \/ ShutdownOne \/ ShutdownDone \/ StopExpired \/ StopTop \/ StopCheck
  \/ Joined \/ Remove \/ StopRedis \/ Drop

User == Signal \/ SignalBranch \/ Quit

Failure ==
  \/ RedisFails \/ SetUpFails \/ ClearFails \/ LaunchFails \/ BootFails
  \/ PushFails \/ TuiFails \/ RenderPanics \/ RemoveFails
  \/ \E p \in Peer : MonitorDies(p)

Next ==
  \/ Main \/ User \/ Failure \/ Clock \/ BatchDue
  \/ \E p \in Peer : PeerStep(p) \/ Observe(p) \/ MonitorStops(p)

Spec == Init /\ [][Next]_vars

(* The main task and the monitors are scheduled, time passes, and nothing  *)
(* is asked of the peers.                                                  *)
LiveFairness ==
  /\ WF_vars(Main) /\ WF_vars(Clock) /\ WF_vars(BatchDue)
  /\ \A p \in Peer : WF_vars(MonitorStops(p))

LiveSpec == Spec /\ LiveFairness

-----------------------------------------------------------------------------
(* Properties.                                                             *)

TypeOK ==
  /\ monitor \in [Peer -> {"none", "up", "gone"}]
  /\ seen \in [Peer -> Nat] /\ \A p \in Peer : seen[p] <= Len(writes[p])
  /\ status \in [Peer -> {"unknown", "started", "restarting", "stopped"}]
  /\ info \in [Peer -> Peer \cup {OldAddr, NoAddr}]
  /\ redis \in {"none", "created", "up"}
  /\ main \in {"redis", "setUp", "clear", "launch", "startTop", "startCheck",
               "bootWait", "bootSend", "run", "send", "input", "auto",
               "shutdown", "stopTop", "stopCheck", "join", "remove", "drop",
               "exited"}
  /\ then \in {"none", "cleanup", "drain", "auto"}
  /\ deadline \in {"off", "armed", "passed"}
  /\ batch \in 1 .. Len(Batches) + 1 /\ due \in 0 .. Len(Batches)
  /\ outcome \in {"none", "ok", "failed"}
  /\ told \subseteq Peer \X Peer \X (Peer \cup {OldAddr})
  /\ gaveUp \subseteq {"startup", "bootstrap", "shutdown"}

TestRuns == main \in {"run", "send", "input", "auto"}

(* wait_for_peers_started returns Ok only when every peer has reported     *)
(* "started" since this run began, whatever Redis still held.              *)
StartedThisRun ==
  main \in {"bootWait", "bootSend"} \/ TestRuns =>
    \A p \in Peer : \E i \in oldWrites[p] + 1 .. Len(writes[p]) :
      writes[p][i].base = "started"

(* p has reported "started" alone in this run.                             *)
SaidPlainly(p) ==
  \E i \in oldWrites[p] + 1 .. Len(writes[p]) : writes[p][i] = Client!Bare

(* A peer is told the multiaddr its bootstrap peer has in this run.  When  *)
(* the timeline begins every peer has been told of each of its bootstrap   *)
(* peers, unless the ten seconds of send_bootstrap_commands passed and the *)
(* bootstrap peer had said "started" without a multiaddr.                  *)
BootstrapTrue ==
  /\ \A t \in told : t[3] = t[2]
  /\ TestRuns =>
       \A k \in 1 .. Len(BootSeq) :
         \/ \E t \in told : <<t[1], t[2]>> = BootSeq[k]
         \/ "bootstrap" \in gaveUp /\ SaidPlainly(BootSeq[k][2])

(* No peer executes a command an earlier run left in Redis.                *)
NoOldCommand ==
  \A p \in Peer : \A k \in 1 .. Len(executed[p]) :
    executed[p][k] > oldSent[p]

(* Unless the wait for the start or the one for the stop timed out, or the *)
(* terminal failed, cleanup begins only when no peer program has work      *)
(* left: the view that says "stopped" is of this run and of the last       *)
(* process of the peer, restarts or not.                                   *)
NotCutShort ==
  main \in {"join", "remove"} =>
    \/ gaveUp \cap {"startup", "shutdown"} # {} \/ "tui" \in failed
    \/ \A p \in Peer : proc[p] \in {"dying", "exited", "absent"}

(* Unless a call failed, every peer was sent a "shutdown" in this run      *)
(* before its container is removed, on every path to cleanup.              *)
ToldToStop ==
  main \in {"join", "remove", "drop", "exited"} /\ failed = {} =>
    \A p \in Peer : \E k \in oldSent[p] + 1 .. Len(sent[p]) :
      sent[p][k] = "shutdown"

(* main returned or panicked before its cleanup.                           *)
EndedEarly ==
  failed \cap {"setUp", "clear", "launch", "bootstrap", "render"} # {}

(* tm leaves the container of a peer behind, running or exited, only if    *)
(* removing it failed, or if it ended early because a peer could not be    *)
(* launched, a bootstrap command not be sent or the screen not be drawn;   *)
(* and tm-redis only if starting it failed, or if Drop failed to remove it *)
(* and cleanup did too or was never reached.                               *)
NoLeak ==
  main = "exited" =>
    /\ \/ \A p \in Peer : ~Client!Up(p)
       \/ "remove" \in failed
       \/ outcome = "failed"
          /\ failed \cap {"launch", "bootstrap", "render"} # {}
    /\ \/ redis = "none"
       \/ "redis" \in failed
       \/ "dropRedis" \in failed /\ ("stopRedis" \in failed \/ EndedEarly)

(* Whatever the peers do or fail to do, tm ends.                           *)
Terminates == <>(main = "exited")

=============================================================================
