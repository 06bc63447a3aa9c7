----------------------------- MODULE PeerClient -----------------------------
(***************************************************************************)
(* The peers: a container that runs entrypoint.sh, which runs the peer     *)
(* program, which is built on one of the client libraries (Rust, Go,       *)
(* Python).  Commands reach a peer by LPUSH on {peer}_command and leave    *)
(* the list by BLPOP, at the same end.                                     *)
(*                                                                         *)
(* The Rust and Go clients (Prefetch) run a poller of their own that pops  *)
(* commands into a channel from which the program takes them; the Python   *)
(* client pops one when the program asks for it.                           *)
(*                                                                         *)
(* A command is the index of its LPUSH in sent[p].                         *)
(*                                                                         *)
(* A definition Name_Change is a mutant of Name: a change that a bug could *)
(* make and that some property must notice.  No specification uses it.     *)
(***************************************************************************)
EXTENDS Naturals, Sequences, FiniteSets

CONSTANTS
  Peer,        \* the peers
  NoAddr,      \* a status without a multiaddr
  Plain,       \* the peers whose program starts without a multiaddr
  Prefetch,    \* the peers whose client has a poller and a channel
  Reconnects,  \* those of them whose client replaces a lost connection (Go)
  Cap,         \* the capacity of that channel (256 in the code)
  MaxSends,    \* bound: commands sent to one peer
  MaxFaults    \* bound: crashes, failed SETs and failed BLPOPs

ASSUME ClientAssumption ==
  /\ Plain \subseteq Peer /\ Prefetch \subseteq Peer
  /\ Reconnects \subseteq Prefetch
  /\ NoAddr \notin Peer
  /\ Cap \in Nat \ {0}
  /\ MaxSends \in Nat
  /\ MaxFaults \in Nat

(* What a peer tells apart: every command but two is only logged.          *)
Command == {"shutdown", "restart", "other"}

(* The multiaddr of a peer is written as the peer.  "started" alone is a   *)
(* status as well.                                                         *)
Started(p) == [base |-> "started", addr |-> p]
Bare       == [base |-> "started", addr |-> NoAddr]
Restarting == [base |-> "restarting", addr |-> NoAddr]
Stopped    == [base |-> "stopped", addr |-> NoAddr]

VARIABLES
  sent,        \* sent[p]: every command LPUSHed for p, oldest first
  cmdQ,        \* cmdQ[p]: the {p}_command list, head first
  writes,      \* writes[p]: every value SET on {p}_status, oldest first
  proc,        \* proc[p]: where the container of p stands
  poller,      \* poller[p]: the BLPOP of the peer's client
  ghosts,      \* ghosts[p]: requests at Redis of connections that are gone
  held,        \* held[p]: the command it popped and has not passed on
  chan,        \* chan[p]: the channel of a Prefetch client
  executed,    \* executed[p]: the commands the program took, in order
  dropped,     \* dropped[p]: the commands lost with a process or a reply
  deaths,      \* deaths[p]: how many processes of p have ended
  breaks,      \* breaks[p]: how many BLPOPs of its poller have failed
  faults

queueVars == <<sent, cmdQ, ghosts, breaks>>
clientVars == <<sent, cmdQ, writes, proc, poller, ghosts, held, chan,
                executed, dropped, deaths, breaks, faults>>

(* A process of the peer program runs.                                     *)
Alive(p) == proc[p] \in {"boot", "ready", "running", "halting", "rebooting",
                         "dying", "dying42"}

(* The container exists; docker run has no --rm, so one whose program has  *)
(* ended does.                                                             *)
Up(p) == proc[p] # "absent"

NoContainers ==
  /\ proc = [p \in Peer |-> "absent"]
  /\ poller = [p \in Peer |-> "off"]
  /\ ghosts = [p \in Peer |-> 0]
  /\ held = [p \in Peer |-> 0]
  /\ chan = [p \in Peer |-> <<>>]
  /\ executed = [p \in Peer |-> <<>>]
  /\ dropped = [p \in Peer |-> {}]
  /\ deaths = [p \in Peer |-> 0]
  /\ breaks = [p \in Peer |-> 0]
  /\ faults = 0

-----------------------------------------------------------------------------
(* LPUSH {p}_command c.  Redis answers the BLPOP that has waited longest.  *)
(* The request of a dead process, or of a lost connection, whose socket    *)
(* Redis has not yet seen closed (a ghost), takes the command with it.     *)

Push(p, c) ==
  LET id == Len(sent[p]) + 1 IN
  /\ sent' = [sent EXCEPT ![p] = Append(@, c)]
  /\ \/ /\ ghosts[p] > 0
        /\ ghosts' = [ghosts EXCEPT ![p] = @ - 1]
        /\ dropped' = [dropped EXCEPT ![p] = @ \cup {id}]
        /\ UNCHANGED <<cmdQ, poller, held>>
     \/ /\ ghosts[p] = 0 /\ poller[p] = "waiting"
        /\ poller' = [poller EXCEPT ![p] = "holding"]
        /\ held' = [held EXCEPT ![p] = id]
        /\ UNCHANGED <<cmdQ, ghosts, dropped>>
     \/ /\ ghosts[p] = 0 /\ poller[p] # "waiting"
        /\ cmdQ' = [cmdQ EXCEPT ![p] = <<id>> \o @]
        /\ UNCHANGED <<poller, ghosts, held, dropped>>
  /\ UNCHANGED <<writes, proc, chan, executed, deaths, breaks, faults>>

-----------------------------------------------------------------------------
(* The process.                                                            *)

Set(p, raw) == writes' = [writes EXCEPT ![p] = Append(@, raw)]
GoTo(p, s)  == proc' = [proc EXCEPT ![p] = s]

(* The end of a process: what its client holds is gone.                    *)
Perish(p) ==
  /\ dropped' = [dropped EXCEPT ![p] =
       @ \cup {chan[p][k] : k \in 1 .. Len(chan[p])}
         \cup (IF poller[p] = "holding" THEN {held[p]} ELSE {})]
  /\ chan' = [chan EXCEPT ![p] = <<>>]
  /\ held' = [held EXCEPT ![p] = 0]
  /\ poller' = [poller EXCEPT ![p] = "off"]
  /\ ghosts' = [ghosts EXCEPT ![p] = IF poller[p] = "waiting" THEN @ + 1 ELSE @]
  /\ deaths' = [deaths EXCEPT ![p] = @ + 1]

Build_NoPoller(p) ==                                  \* mutant
  /\ proc[p] = "boot"
  /\ GoTo(p, "ready")
  /\ UNCHANGED <<writes, poller, held, chan, executed, dropped, deaths,
                 faults, queueVars>>

(* Build connects, and spawns the poller of a Prefetch client.             *)
Build(p) ==
  /\ proc[p] = "boot"
  /\ GoTo(p, "ready")
  /\ poller' = [poller EXCEPT ![p] = "idle"]
  /\ UNCHANGED <<writes, held, chan, executed, dropped, deaths, faults,
                 queueVars>>

ReportStarted(p) ==
  /\ proc[p] = "ready"
  /\ Set(p, IF p \in Plain THEN Bare ELSE Started(p))
  /\ GoTo(p, "running")
  /\ UNCHANGED <<poller, held, chan, executed, dropped, deaths, faults,
                 queueVars>>

Newest(p) == IF writes[p] = <<>> THEN Restarting ELSE writes[p][Len(writes[p])]

(* A program that has started plainly may learn its multiaddr and report   *)
(* it, which send_bootstrap_commands waits for.                            *)
ReportAddr(p) ==
  /\ p \in Plain /\ proc[p] = "running" /\ Newest(p) = Bare
  /\ Set(p, Started(p))
  /\ UNCHANGED <<proc, poller, held, chan, executed, dropped, deaths, faults,
                 queueVars>>

(* BLPOP {p}_command 0, by the poller at any time or by __anext__.         *)
AskNext(p) ==
  /\ poller[p] = "idle"
  /\ p \in Prefetch \/ proc[p] = "running"
  /\ IF cmdQ[p] = <<>>
     THEN poller' = [poller EXCEPT ![p] = "waiting"] /\ UNCHANGED <<held, cmdQ>>
     ELSE /\ poller' = [poller EXCEPT ![p] = "holding"]
          /\ held' = [held EXCEPT ![p] = Head(cmdQ[p])]
          /\ cmdQ' = [cmdQ EXCEPT ![p] = Tail(@)]
  /\ UNCHANGED <<sent, writes, proc, ghosts, chan, executed, dropped, deaths,
                 breaks, faults>>

Forward_Unbounded(p) ==                               \* mutant
  /\ p \in Prefetch /\ poller[p] = "holding"
  /\ chan' = [chan EXCEPT ![p] = Append(@, held[p])]
  /\ held' = [held EXCEPT ![p] = 0]
  /\ poller' = [poller EXCEPT ![p] = "idle"]
  /\ UNCHANGED <<writes, proc, executed, dropped, deaths, faults, queueVars>>

Forward_Twice(p) ==                                   \* mutant
  /\ p \in Prefetch /\ poller[p] = "holding" /\ Len(chan[p]) < Cap
  /\ chan' = [chan EXCEPT ![p] = Append(@, held[p])]
  /\ UNCHANGED <<writes, proc, poller, held, executed, dropped, deaths,
                 faults, queueVars>>

(* cmd_tx.send / commands <-: blocks while the channel is full.            *)
Forward(p) ==
  /\ p \in Prefetch /\ poller[p] = "holding" /\ Len(chan[p]) < Cap
  /\ chan' = [chan EXCEPT ![p] = Append(@, held[p])]
  /\ held' = [held EXCEPT ![p] = 0]
  /\ poller' = [poller EXCEPT ![p] = "idle"]
  /\ UNCHANGED <<writes, proc, executed, dropped, deaths, faults, queueVars>>

After_NoShutdown(c) == IF c = "restart" THEN "rebooting" \* mutant
                       ELSE "running"

After(c) == CASE c = "shutdown" -> "halting"
              [] c = "restart"  -> "rebooting"
              [] OTHER          -> "running"

Execute(p, id) ==
  /\ proc[p] = "running"
  /\ executed' = [executed EXCEPT ![p] = Append(@, id)]
  /\ GoTo(p, After(sent[p][id]))

TakeFromChan(p) ==
  /\ p \in Prefetch /\ chan[p] # <<>>
  /\ Execute(p, Head(chan[p]))
  /\ chan' = [chan EXCEPT ![p] = Tail(@)]
  /\ UNCHANGED <<writes, poller, held, dropped, deaths, faults, queueVars>>

TakeFromRedis(p) ==
  /\ p \notin Prefetch /\ poller[p] = "holding"
  /\ Execute(p, held[p])
  /\ held' = [held EXCEPT ![p] = 0]
  /\ poller' = [poller EXCEPT ![p] = "idle"]
  /\ UNCHANGED <<writes, chan, dropped, deaths, faults, queueVars>>

ReportStopped(p) ==
  /\ proc[p] = "halting"
  /\ Set(p, Stopped)
  /\ GoTo(p, "dying")
  /\ UNCHANGED <<poller, held, chan, executed, dropped, deaths, faults,
                 queueVars>>

ReportRestarting_WithAddr(p) ==                       \* mutant
  /\ proc[p] = "rebooting"
  /\ Set(p, [base |-> "restarting", addr |-> p])
  /\ GoTo(p, "dying42")
  /\ UNCHANGED <<poller, held, chan, executed, dropped, deaths, faults,
                 queueVars>>

ReportRestarting(p) ==
  /\ proc[p] = "rebooting"
  /\ Set(p, Restarting)
  /\ GoTo(p, "dying42")
  /\ UNCHANGED <<poller, held, chan, executed, dropped, deaths, faults,
                 queueVars>>

Exit_AlwaysSleeps(p) ==                               \* mutant
  /\ proc[p] \in {"dying", "dying42"}
  /\ GoTo(p, "asleep")
  /\ Perish(p)
  /\ UNCHANGED <<writes, executed, faults, sent, cmdQ, breaks>>

Exit_NeverSleeps(p) ==                                \* mutant
  /\ proc[p] \in {"dying", "dying42"}
  /\ GoTo(p, "exited")
  /\ Perish(p)
  /\ UNCHANGED <<writes, executed, faults, sent, cmdQ, breaks>>

(* Exit code 42 sends entrypoint.sh to sleep, any other ends the container.*)
Exit(p) ==
  /\ \/ proc[p] = "dying" /\ GoTo(p, "exited")
     \/ proc[p] = "dying42" /\ GoTo(p, "asleep")
  /\ Perish(p)
  /\ UNCHANGED <<writes, executed, faults, sent, cmdQ, breaks>>

Wake(p) ==
  /\ proc[p] = "asleep"
  /\ GoTo(p, "boot")
  /\ UNCHANGED <<writes, poller, held, chan, executed, dropped, deaths, faults,
                 queueVars>>

(* Redis sees the socket of a dead process or a lost connection closed.    *)
Forget(p) ==
  /\ ghosts[p] > 0
  /\ ghosts' = [ghosts EXCEPT ![p] = @ - 1]
  /\ UNCHANGED <<sent, cmdQ, writes, proc, poller, held, chan, executed,
                 dropped, deaths, breaks, faults>>

(* BLPop takes a new connection of the pool.  The MultiplexedConnection of *)
(* the Rust poller stays as it is: the poller sleeps a second and fails    *)
(* again.                                                                  *)
Reconnect(p) ==
  /\ p \in Reconnects /\ poller[p] = "broken"
  /\ poller' = [poller EXCEPT ![p] = "idle"]
  /\ UNCHANGED <<writes, proc, held, chan, executed, dropped, deaths, faults,
                 queueVars>>

-----------------------------------------------------------------------------
(* Failures.                                                               *)

(* The process ends with a code that is not 42.                            *)
Crash(p) ==
  /\ Alive(p) /\ faults < MaxFaults
  /\ GoTo(p, "exited")
  /\ Perish(p)
  /\ faults' = faults + 1
  /\ UNCHANGED <<writes, executed, sent, cmdQ, breaks>>

(* Rust and Go ignore a failed SET of "stopped" or "restarting"; for the   *)
(* first status, and in Python, a failed SET ends the process (Crash).     *)
SetFails(p) ==
  /\ p \in Prefetch /\ faults < MaxFaults
  /\ \/ proc[p] = "halting" /\ GoTo(p, "dying")
     \/ proc[p] = "rebooting" /\ GoTo(p, "dying42")
  /\ faults' = faults + 1
  /\ UNCHANGED <<writes, poller, held, chan, executed, dropped, deaths,
                 queueVars>>

(* A BLPOP of the poller fails and its connection is gone: the request     *)
(* stays at Redis as a ghost, or it was never made, or the reply is lost   *)
(* with the command in it.  (After an error that leaves the connection the *)
(* request is made again.  In Python a failed BLPOP ends the process.)     *)
BlpopFails(p) ==
  /\ p \in Prefetch /\ faults < MaxFaults
  /\ \/ /\ poller[p] = "waiting"
        /\ ghosts' = [ghosts EXCEPT ![p] = @ + 1]
        /\ UNCHANGED <<cmdQ, dropped>>
     \/ poller[p] = "idle" /\ UNCHANGED <<ghosts, cmdQ, dropped>>
     \/ /\ poller[p] = "idle" /\ cmdQ[p] # <<>>
        /\ cmdQ' = [cmdQ EXCEPT ![p] = Tail(@)]
        /\ dropped' = [dropped EXCEPT ![p] = @ \cup {Head(cmdQ[p])}]
        /\ UNCHANGED ghosts
  /\ poller' = [poller EXCEPT ![p] = "broken"]
  /\ breaks' = [breaks EXCEPT ![p] = @ + 1]
  /\ faults' = faults + 1
  /\ UNCHANGED <<sent, writes, proc, held, chan, executed, deaths>>

Fault(p) == Crash(p) \/ SetFails(p) \/ BlpopFails(p)

-----------------------------------------------------------------------------
(* The container, as the orchestrator starts and removes it.               *)

(* docker rm -f, then docker run.                                          *)
Launch(p) ==
  /\ proc[p] = "absent"
  /\ GoTo(p, "boot")
  /\ UNCHANGED <<writes, poller, held, chan, executed, dropped, deaths, faults,
                 queueVars>>

(* docker rm -f kills what runs.                                           *)
Remove(p) ==
  /\ GoTo(p, "absent")
  /\ IF Alive(p) THEN Perish(p)
     ELSE UNCHANGED <<poller, ghosts, held, chan, dropped, deaths>>
  /\ UNCHANGED <<writes, executed, faults, sent, cmdQ, breaks>>

Step(p) ==
  \/ Build(p) \/ ReportStarted(p) \/ ReportAddr(p) \/ AskNext(p) \/ Forward(p)
  \/ TakeFromChan(p) \/ TakeFromRedis(p)
  \/ ReportStopped(p) \/ ReportRestarting(p)
  \/ Exit(p) \/ Wake(p) \/ Forget(p) \/ Reconnect(p)

(* The runtime, Redis and entrypoint.sh keep a peer going; Redis accepts a *)
(* new connection in the end.  A multiaddr need never come.                *)
PeerFairness(p) ==
  /\ WF_clientVars(Build(p)) /\ WF_clientVars(ReportStarted(p))
  /\ WF_clientVars(AskNext(p)) /\ WF_clientVars(Forward(p))
  /\ WF_clientVars(TakeFromChan(p) \/ TakeFromRedis(p))
  /\ WF_clientVars(ReportStopped(p) \/ ReportRestarting(p))
  /\ WF_clientVars(Exit(p)) /\ WF_clientVars(Wake(p))
  /\ WF_clientVars(Forget(p)) /\ WF_clientVars(Reconnect(p))

-----------------------------------------------------------------------------
(* Peers alone: an orchestrator launches them once and pushes commands.    *)

Init ==
  /\ sent = [p \in Peer |-> <<>>]
  /\ cmdQ = [p \in Peer |-> <<>>]
  /\ writes = [p \in Peer |-> <<>>]
  /\ NoContainers

Send(p) == Len(sent[p]) < MaxSends /\ \E c \in Command : Push(p, c)

Next == \E p \in Peer : Launch(p) \/ Send(p) \/ Step(p) \/ Fault(p)

Spec == Init /\ [][Next]_clientVars

(* The orchestrator does launch the peers; faults are never due.           *)
LiveSpec == Spec /\ \A p \in Peer : PeerFairness(p) /\ WF_clientVars(Launch(p))

-----------------------------------------------------------------------------
(* Properties.                                                             *)

Status == {Started(p) : p \in Peer} \cup {Bare, Restarting, Stopped}

TypeOK ==
  /\ sent \in [Peer -> Seq(Command)]
  /\ cmdQ \in [Peer -> Seq(Nat)]
  /\ writes \in [Peer -> Seq(Status)]
  /\ proc \in [Peer -> {"absent", "boot", "ready", "running", "halting",
                        "rebooting", "dying", "dying42", "asleep", "exited"}]
  /\ poller \in [Peer -> {"off", "idle", "waiting", "holding", "broken"}]
  /\ ghosts \in [Peer -> Nat]
  /\ held \in [Peer -> Nat]
  /\ chan \in [Peer -> Seq(Nat)]
  /\ executed \in [Peer -> Seq(Nat)]
  /\ dropped \in [Peer -> SUBSET Nat]
  /\ deaths \in [Peer -> Nat] /\ breaks \in [Peer -> Nat]
  /\ faults \in Nat

Members(s) == {s[k] : k \in 1 .. Len(s)}
InHand(p) == IF poller[p] = "holding" THEN {held[p]} ELSE {}
Places(p) == << Members(cmdQ[p]), InHand(p), Members(chan[p]),
                Members(executed[p]), dropped[p] >>

(* Redis, the poller, the channel, lost connections and the deaths of      *)
(* processes never duplicate a command or make one vanish unseen: it is in *)
(* one place, and no program executes it twice, whatever crashes and       *)
(* restarts.                                                               *)
CommandsAccounted ==
  \A p \in Peer :
    /\ UNION {Places(p)[k] : k \in 1 .. 5} = 1 .. Len(sent[p])
    /\ \A j, k \in 1 .. 5 : j # k => Places(p)[j] \cap Places(p)[k] = {}
    /\ \A s \in {cmdQ[p], chan[p], executed[p]} :
         Cardinality(Members(s)) = Len(s)

(* One death of a process costs at most the channel and the one command    *)
(* its client held or was waiting for, a failed BLPOP one command, and a   *)
(* client without a poller loses none unless it crashes.                   *)
LossPerDeath ==
  \A p \in Peer :
    /\ Cardinality(dropped[p]) + ghosts[p]
         <= deaths[p] * (Cap + 1) + breaks[p]
    /\ p \notin Prefetch => Cardinality(dropped[p]) <= faults

(* What the orchestrator reads of a peer is true: while the newest status  *)
(* is "stopped" no process of the peer will execute anything more, and a   *)
(* running program has said so, with its multiaddr unless it is one that   *)
(* starts plainly.                                                         *)
StatusIsTrue ==
  \A p \in Peer :
    /\ Newest(p) = Stopped => proc[p] \in {"dying", "exited", "absent"}
    /\ proc[p] = "running" =>
         Newest(p) = Started(p) \/ (p \in Plain /\ Newest(p) = Bare)
    /\ Newest(p).base = "started" =>
         \/ proc[p] \in {"running", "halting", "rebooting", "exited"}
         \/ faults > 0

(* A peer that goes down for a restart comes back, unless it crashes.      *)
RestartReturns ==
  \A p \in Peer :
    proc[p] = "rebooting" ~>
      proc[p] = "running" \/ (proc[p] = "exited" /\ faults > 0)

(* The process runs, but its client will never read a command again.       *)
Deaf(p) == poller[p] = "broken" /\ p \notin Reconnects

(* A command sent to a peer does not linger: it is executed, or it is lost *)
(* with a process or a reply, or the peer has ended, or its poller, which  *)
(* does not reconnect (lib.rs:169), has lost its connection for good.       *)
CommandsMove ==
  \A p \in Peer : \A id \in 1 .. MaxSends :
    id <= Len(sent[p]) ~>
      \/ id \in Members(executed[p]) \cup dropped[p]
      \/ proc[p] = "exited"
      \/ []Deaf(p)

(* A peer that was sent a "shutdown" stops, and that is the last command   *)
(* it executes: whatever waits in the list with it, and whatever restarts. *)
ObeysShutdown(p) ==
  (\E k \in 1 .. Len(sent[p]) : sent[p][k] = "shutdown")
    ~> /\ proc[p] = "exited"
       /\ \A k \in 1 .. Len(executed[p]) - 1 :
            sent[p][executed[p][k]] # "shutdown"

(* True of the client without a poller.                                    *)
ShutdownObeyed == \A p \in Peer \ Prefetch : ObeysShutdown(p)

(* Not true of one that pops commands ahead (lib.rs:164).                  *)
ShutdownObeyedByAll == \A p \in Peer : ObeysShutdown(p)

=============================================================================
