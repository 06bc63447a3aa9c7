# The Mule in TLA+

The Mule (`tm`) runs a distributed test: it starts peers in Docker containers on
remote hosts, follows what they report through Redis, sends them commands at
given times, and cleans up. This directory holds TLA+ models of it, the TLC
configurations that check them, and proofs that TLAPS checks. Paths below are
relative to the repository; `main.rs:238` is `src/src/main.rs`, line 238, as the
repository is mounted under `src/` here.

Run a check with `tlc -config RunFaults.cfg MCOrchestrator`, and the proofs with
`tlapm PeerMonitorProofs.tla` (or another `*Proofs` module). `PROJECT.json` lists every run, what it
checks, and the source lines each definition stands for.

## The system

| Component | Source | State | Operations |
|---|---|---|---|
| Orchestrator run | `main.rs`, `orchestrator.rs` | position of the main task, batch index, deadlines, `shutdown_token` | clear queues, start peers, wait for started, bootstrap, timeline (console or TUI), shutdown, wait for stopped, cleanup |
| Peer monitor, one task per peer | `peer_monitor.rs` | three Redis connections, `last_status`; shared `PeerState` (statuses, peer_info, logs) | subscribe, GET, `process_status`, BLPOP of the log |
| Peer client | `lib/rust`, `lib/go`, `lib/python`, `entrypoint.sh` | command poller and channel (Rust, Go), log queue, the process | build, send_status, next command, log, exit and restart |
| Image distribution | `docker_mgr.rs`, `ssh_mgr.rs` | local and remote images, archives, one task per check, export, transfer | pull, check, export, transfer, import |
| Log path | `lib/*`, `peer_monitor.rs`, `main.rs:570` | the queue of a client, `{peer}_log`, the event channel, the receiver of the console | log, flush, exit, take, send, receive |
| Redis container | `redis_mgr.rs` | the container, `notify-keyspace-events` | start, stop, drop |
| SSH | `ssh_mgr.rs` | a session per host | exec, scp |
| Configuration | `config.rs` | none | parse, `assign_peers` |
| Timeline | `ui.rs:28`, `main.rs:413` | the batches, the batch index | `build_batches`, `send_due_batches` |
| Terminal and console | `ui.rs`, `console.rs` | none | rendering, formatting |

All talk between `tm` and a peer goes through three Redis keys. `{peer}_command`
is a list that `tm` LPUSHes to and the peer BLPOPs; `{peer}_log` is a list the
other way; `{peer}_status` is a string that the peer SETs, whose SETs Redis
announces to the monitor, which then GETs the value. The monitors share
`PeerState` with the main task under a mutex, and in console mode send it events
over a broadcast channel.

What is hard here is that nothing is synchronous. A status may change between a
notification and the GET that follows it; a `select!` drops a request that
Redis goes on to answer; a poller takes commands before its program wants
them; a process restarts with requests in flight; a signal, a key, the timeline
and several time-outs can each begin the shutdown; forty SSH tasks may fail one
by one. `PROJECT.json` lists these hazards at their lines.

What makes each component correct:

- monitor: it never stays on an old status, never goes back to one, and
  accounts for every log entry;
- client: no command is executed twice, what a death or a lost connection costs is
  bounded, the statuses tell the truth about the process;
- run: the test begins when all peers of this run have started, ends only when
  their work is done or a deadline passed, always ends, and leaves a container
  behind only for known reasons;
- distribution: success means that every host has every image it needs, a
  failure that is not ignored is reported, and none harms anybody else;
- assignment: ports are unique, tags are respected, groups are spread evenly;
- timeline: every command is sent once, in the order of the configuration, not
  before its time, and late only where that order forces it;
- log path: what arrives is in order, what does not has a known cause, and the
  console misses no status, warning or error without saying so.

## Modules

| Module | Models | Checked by |
|---|---|---|
| `PeerStatus` | a raw status, and what `PeerState` keeps of one | |
| `StatusView` | abstract: what `tm` may see of the statuses of a peer | as a property of `PeerMonitor` |
| `PeerMonitor` | `monitor_peer` with Redis and one peer | `MCPeerMonitor`, `PeerMonitorProofs` |
| `PeerClient` | the peers: container, program, client library | `MCPeerClient`, `PeerClientProofs` |
| `Orchestrator` | a run of `tm`, composed with `PeerClient` and `StatusView` | `MCOrchestrator`, `OrchestratorProofs` |
| `ImageDistribution` | `pull_images` and `distribute_all_images` | `MCImageDistribution`, `ImageDistributionProofs` |
| `AssignPeers` | `assign_peers` | `MCPlan`, `AssignPeersProofs` |
| `Timeline` | `build_batches` and `send_due_batches` | `MCPlan`, `PlanProofs` |
| `Plan` | the assignment, then the timeline, as `main` makes them | `MCPlan`, `PlanProofs` |
| `LogForward` | the log paths of the three clients and `entrypoint.sh` | `MCConsoleEvents`, `ConsoleEventsProofs` |
| `ConsoleEvents` | the monitor and `run_console` behind `LogForward` | `MCConsoleEvents`, `ConsoleEventsProofs` |
| `ListLemmas` | facts about Redis lists, cited by the proofs | TLAPS |

In every module a definition `Name_Change` marked `\* mutant` is a wrong variant of
`Name`. No specification uses it; `PROJECT.json` names the property
that finds each one out.

### PeerMonitor

`pc` is where the task stands: connecting, in a GET (`fetch`), about to call
`process_status` (`apply`), in `select!` (`select`), and its two ends. `ServeGet`
and `ProcessStatus` are separate steps because the peer may SET in between;
`process_status` itself changes `PeerState` under one lock and is one step.
`IssueBlpop` is the first poll of the BLPOP future: the request goes to Redis.
When `Notify`, `Stop` or `StreamEnds` wins the turn of `select!`, the future is
dropped (`AbandonBlpop`): a request at Redis becomes an orphan, which Redis answers
before any later request of the same connection, and an answer that has arrived is
discarded. Statuses and log entries are named by the index of their SET or LPUSH,
so that equal texts stay apart; `Unchanged` compares texts, as `last_status` does.

A keyspace notification is only a reason to GET, so the model counts them. Only
SETs raise one (`K$` also announces other string commands, none of which is used
on the key). Notifications may be off (`EnableNotifications`):
`enable_keyspace_notifications` only warns when its CONFIG SET fails.

### StatusView and its use

`StatusView` says what the rest of `tm` may rely on: the status shown is that
of one SET, moves only forward, never repeats itself and, in `Spec`, catches up.
`PeerMonitor` implements it with `seen <- last`; `ViewSafe` is proved and
checked, `ViewLive` is checked. `Orchestrator` uses only this view (`Observe`) and not
the steps of the monitor, which keeps the composed state space small.

### PeerClient

`proc` is where the container of a peer stands: `boot`, `ready` (the client is
built), `running`, `halting` and `rebooting` (a shutdown or restart was taken, its
status is not SET yet), `dying` and `dying42` (the process ends), `asleep`
(`entrypoint.sh` sleeps), `exited`, `absent`. `poller` is the BLPOP of the client and
`held` what it popped. A Rust or Go client (`Prefetch`) moves that into a channel from
which the program takes commands; a Python client pops one when asked. When a process
dies while its BLPOP waits, Redis may still answer that request until it sees
the socket closed (`ghosts` counts such requests). A command is the index of its LPUSH, and the list is a
stack: LPUSH and BLPOP work on the same end.

The programs are the three reference peers and any that follows
`docs/write-a-rust-test-app.md`, whose peer SETs a plain `started` (`Bare`): the peers in `Plain` do so and may report
`started|<multiaddr>` later (`ReportAddr`), or never. Otherwise the clients decide what differs.

- A failed SET of a last status is ignored by the Rust and Go programs (`SetFails`) and ends the
  Python one, as does a failed BLPOP: that is a `Crash`.
- A BLPOP of a poller that fails with its connection (`BlpopFails`, counted in `breaks`) leaves a ghost request, or takes a
  command with its reply, or was never made, and the poller is `broken`. The Go client
  (`Reconnects`) takes a new connection from its pool when it goes on (`client.go:83`); the Rust one sleeps a second and tries the
  same `MultiplexedConnection`, for good (`lib.rs:169`). An error that leaves the connection alone changes nothing:
  the request is made again.

A container exists (`Up`) until `docker rm -f`, also when its program has exited: `docker run` has no `--rm`.

### Orchestrator

`main` is where the main task stands, `todo` what is left of the list that the
current loop goes through; each Redis or Docker call is a step, so peers, monitors, the
clock and the user act between two calls. A run begins with the Redis container
(`redis`: `created` is a container whose `docker run` failed after creating it) and the
set-up phases, each of which may fail: the connection, the assignment, the SSH
sessions, the images. `Bail` is an early return or a panic of `main`: there is no
cleanup, and only the `Drop` of `RedisManager` still acts.

Every way out ends in the phase `drop`. `StopRedis` is the last call of cleanup and
`Drop` the destructor, each a `docker rm -f tm-redis` that may fail (`RemoveRedis`): the first failure is a
warning (`redis_mgr.rs:78`), the second is not looked at (`redis_mgr.rs:89`), and each is recorded in
`failed`. When both fail, or the second on a path without the first, the container stays. These failures are not counted
in `faults`, so they come together with any other.

`deadline` abstracts the time-outs: an armed
one may pass at any moment. A wait looks at the deadline (`StartTop`, `StopTop`) and
at the statuses (`StartCheck`, `StopCheck`) in two steps, in the order of the
code. `due` counts the batches whose time has come. `then` says what follows
`shutdown_all_peers`, which is called from five places. Bootstrap commands are sent under the
lock of `PeerState`, hence the guard of `Observe`. `tui` is the flag `--tui`, chosen at the
start. `Stale` is what an external
Redis may still hold: a status is kept, the command list is cleared. `gaveUp` is the set of waits
whose deadline passed in vain: for the start, for the multiaddrs of the bootstrap peers, for the stop.

`BootWait` is the wait of `send_bootstrap_commands`. A peer that said `started` alone passes the wait for
the start and has no address yet; after ten seconds its address is skipped with a warning (`orchestrator.rs:150`),
which `BootSend` does when `info` has none.

A call of the main task to Redis, SSH or Docker fails at most `MaxFaults` times in a run,
together with crashes of peers and deaths of monitors. `TuiFails` is
a failure to set up, draw, poll or restore the terminal, `RenderPanics` a panic while the
screen is drawn.

### ImageDistribution

An image has a version here and on each host; `Archive` maps it to its archive path,
which `sanitize_image_name` may make the same for two images. What an archive
holds is an `<<image, version>>`, or `Garbage` while or after it is written by
two, or not written to its end. Every task is a process of its own: local checks
(the first failure ends the phase), remote checks and directories (all are joined),
exports and transfers. The watch channel between an export and its transfers is
`exported`: `done` is the value sent, `failed` the sender dropped. That `docker load`
refuses an incomplete archive is an assumption about Docker.

Every step that fails is recorded in `blamed`, with its place, also those the program takes for
something else: an inspect on a host that ends with an error of any cause counts as an image that is missing
(`docker_mgr.rs:100`, `"inspect"`), and a local archive that cannot be removed stays without a word
(`docker_mgr.rs:438`, `"unlink"`; any subset of the archives may stay).

### AssignPeers and Timeline

Both are functions of the configuration, which is therefore part of the state: one
run covers every configuration within the bounds. A peer is its rank among the names,
a host its position; a group is the peers with one list of tags, and the order of
`GroupTags` is that of the `BTreeMap` of groups. `Assign` takes the peer whose turn it is;
`Overflow` is the panic of a build that checks its arithmetic, and `Wrap` what any
other build does. `Ports` is 65536 in the program; nothing else depends on it.

In `Timeline`, `Build` puts one command in a batch; `Open`, `Send` and `CloseBatch` are
the loops of `send_due_batches`, between whose LPUSHes time passes, and `Wait` and `AllSent` its
two ways back to the caller. `lastCheck` remembers when it last returned. A failed LPUSH counts as
sent. `Plan` puts the two together: the timeline of a configuration whose assignment
failed is never reached. `Orchestrator` takes the batches as a constant, and composes
their sending with the peers and the shutdown.

### LogForward and ConsoleEvents

An entry goes from the program to `queue` (the channel of Rust, the queue of Python;
a Go program waits for its LPUSH instead), to `inFlight`, to the list. A full queue drops
it (`full`), Redis may refuse it (`refused`), and the death of a process cuts off what
the process still held (`cut`), the LPUSH in flight with or without its effect. A Python client
that exits waits for room in its queue, the Rust client for nothing. `entrypoint.sh`
pushes an entry of its own between two processes.

`ConsoleEvents` adds the monitor, reduced to what `PeerMonitor` promises (a status shown
is a later one that differs; each SET costs at most one log entry, as `LossBound` says),
and `run_console` with its receiver on the broadcast channel: it gets what is sent after it
subscribed, and when it is more than the capacity behind it is told how many
events it missed. Of what it receives it prints the statuses and the entries at level warn or error
(`main.rs:584`): `Loud` are those entries, and what `entrypoint.sh` logs is at info. `printed` are the events that were
printed, not those that were received.

## Runs

Each passing run explores its bounded instance completely.

| Run | Question | Bounds, and why they are enough |
|---|---|---|
| `Monitor` | does any interleaving or failure make a monitor miss a status, repeat one, or mistreat a log entry? | 3 SETs, 2 entries, 1 failure: one status before the GET, one during it, one after; an entry for an orphan and one for the next request |
| `MonitorLive` | does the view catch up, and the log drain? | 2 SETs, 2 entries with known and unknown levels, notifications on |
| `Client` | what may a client lose, do its statuses tell the truth, do restarts return, commands move, shutdowns work? | a Rust, a Go and a Python peer, each on its own, one starting plainly; 3 commands of every kind (one executed, one in the channel, one in hand), a channel of 1 so that it fills, one fault |
| `RunFaults` | the invariants of a run, in both interfaces, with a failure | a pulling peer bootstrapped from a prefetching one, which starts plainly, and a batch that restarts the latter; a signal, a quit and every deadline at any time; one failed call or terminal, panic, dead monitor, crash or lost connection, and either removal of `tm-redis` failing besides |
| `RunStale` | does a peer execute what an earlier run left, and does `tm` end? | of the bootstrap peer an old "started", with an old address or without one so that the wait for it may time out, and an old shutdown; a batch of one command; no failure: a failure takes `main` to its end sooner, and a peer may stop answering without one as nothing is assumed of it |
| `Images` | is success true, failure contained, everything cleaned up, and does the distribution end? | 2 images, 2 hosts, versions 0 to 2 anywhere, 2 failures, among them those that are ignored, so that one may hide another |
| `Plan` | are ports unique and groups balanced, are commands sent in order and on time, and does every plan end? | every assignment of 4 peers to 3 groups (no tags, one, two) and of tags to 3 hosts, with 4 ports from 2 on so that they run out; every timeline of up to 4 commands at times 0 to 3 in any order, one half at a time |
| `LogPath` | where can an entry get lost or overtaken, and does the console say what it skips? | each of the three clients, 4 entries over 2 processes, a queue of 2 that fills, a channel of 1 that lags, two of the four entries warnings, one failed LPUSH or crash |

In `RunFaults`, the Rust peer reports its multiaddr before the timeline begins or not at all, and a run in which it has is followed
until the timeline begins (the action constraint `EarlyOrNever`): whether a bootstrap command was sent is settled there, and what comes after does not depend on it.
In `RunStale`, only the Rust peer took part in an earlier run (`MCOldInit`). The theorems about `Orchestrator` are for `Spec`, without these restrictions.

In `LogPath`, how an entry came to the list makes no difference to the monitor, and how the monitor
lost one none to the console. `MCNext` uses this to keep the run small: the monitor loses entries, and is cancelled, in
runs of a Go peer only, and `run_console` is looked at in those of one process without
faults whose entries all reach the monitor. The theorems about these modules are for `Spec`,
without this restriction; likewise `MCInit` of `Plan` varies one half of a plan at a time, and `Init` both.

The runs that end in a violation show disagreements between the code and its documents;
`PROJECT.json` quotes the line each refutes.

| Run | Shows |
|---|---|
| `MonitorLogLost` | a log entry is lost when a notification drops the BLPOP future |
| `RunStaleStart` | with `--redis-url`, the status of an earlier run starts the test too early |
| `ClientShutdownLost` | a prefetched shutdown is lost over a restart |
| `ImagesCollide` | two images with one archive path: success with the wrong image |

More disagreements are in the model and show in what the properties must leave out:

- Commands are LPUSHed and BLPOPed at the same end (`main.rs:426`), a stack: two that wait together
  are executed newest first, while `docs/test-schema.md:17` calls them a "Timed command
  sequence". `AsScheduled` is about the order in which they are sent, `ShutdownObeyed` holds in either order.
- A configuration may list one address twice: each entry counts its ports from its own `base_port`
  (`config.rs:302`), and peers on the two entries can get one port. `PortsUnique` is per entry of `hosts`.
- `base_port` plus an offset past 65535 wraps in a release build (`config.rs:303`), so that peers
  get ports below `base_port`; they stay unique (`PortsAreUnique`). A debug build panics.
- A `docker run` of Redis that fails after creating the container (its port is taken) leaves
  `tm-redis` behind (`redis_mgr.rs:49`): `NoLeak` excepts it, and a `docker rm` of it that fails unnoticed.
- One lost connection leaves a Rust peer without commands while its program runs: the poller retries on a connection that does
  not reconnect (`lib.rs:169`), although `lib/README.md:51` says that a peer gets its commands by `BLPOP`. `CommandsMove` excepts such a peer (`Deaf`).
- A peer whose bootstrap peer reports a plain `started` is not told of it (`orchestrator.rs:150`), although the
  documents allow that status: `BootstrapTrue` excepts it, and only after the ten seconds.
- A failed `docker image inspect` on a host and a failed removal of a local archive are no failures
  of the distribution (`docker_mgr.rs:100`, `docker_mgr.rs:438`): `NothingSwallowed` and `LocalClean` except them.
- A panic while the screen is drawn (`ui.rs:119`: a long test name in a narrow terminal; `ui.rs:250`: a command cut
  inside a character) leaves every peer container running: `NoLeak` excepts it.
- Log entries may never be shown although nothing failed: those still queued when a program exits, and
  those still in `{peer}_log` when the cleanup stops the monitors (`main.rs:657`). `EntriesAccounted` counts the former
  as `cut` and the latter as in the list; `Delivered` is about the time in between.
- `NoLeak` also excepts a failed `docker rm` of a peer, a failed launch and a failed bootstrap command: `main.rs:264` and
  `main.rs:343` return without cleanup, and the containers launched so far keep running
  (`README.md:54`: "Shuts down all peers and cleans up containers").
- `NotCutShort` excepts every wait whose deadline passed. `wait_for_peers_started`
  looks at the clock before the statuses (`orchestrator.rs:19`), so that it can also
  give up when the last peer reported in time, with an empty list of missing peers.
- A signal during the start is not noticed before the timeline (`main.rs:312`); when the
  start then times out, the peers are sent a shutdown and removed without the wait for "stopped" that
  `README.md:72` describes. `ToldToStop` holds, a wait is not promised.
- The status of `docker save | gzip` is that of gzip (`docker_mgr.rs:130`): a failed
  `docker save` counts as a finished export, and the archive is transferred. `ReadsComplete` excepts it, and
  `Distributed` and `NothingSwallowed` rest on `docker load` refusing the archive.

Deadlock is not checked where the system stops by itself: every module here ends
(a monitor stops, a container exits, `tm` exits), or runs out of its bounded inputs.

### Fairness

- `PeerMonitor`: each step of the task is weakly fair. The runtime polls a task that
  can proceed, `select!` starts with a random branch so that no ready branch
  starves, and Redis answers. The peer and failures are not fair. `LiveSpec` is the
  life of a monitor before the cleanup and with notifications enabled.
- `PeerClient`: each step of a process, of `entrypoint.sh` and of Redis is weakly fair
  (Redis accepts a new connection in the end, as `Reconnect` needs) and the orchestrator launches each peer. A peer
  need never report its multiaddr (`ReportAddr` is not fair). Commands and faults are not fair: a peer may
  be sent nothing, and the crash may or may not come.
- `Orchestrator`: the main task is weakly fair, time passes (`Clock`, `BatchDue`), and a
  cancelled monitor stops. Nothing is assumed of the peers or the user.
- `ImageDistribution`: every task runs (the blocking pool of tokio has 512 threads) and
  every Docker or SSH call returns. `ssh_mgr` sets no time-out on a call, so
  this is an assumption about the hosts.
- `Plan`: `tm` computes, its loop is polled, and time passes.
- `ConsoleEvents`: the flusher of a client runs while its process does, the monitor takes, sends and
  observes the newest status, and the receiver of the console is polled. Whether a peer logs, ends, fails or is
  restarted is left open, as is when the console and the monitor end.

## Proofs

All theorems hold for every value of the constants that satisfies the named `ASSUME`s, and none uses a
bound (`Max...`). Each proof has one step per action; facts about lists come from `ListLemmas`
(an LPUSH, a BLPOP and an append keep the other entries, and keep entries distinct).

`PeerMonitorProofs`, from `StatusAssumption` and `MonitorAssumption`:

- `TypeCorrect`: `Spec => []TypeOK`, with `EntriesAccounted`:
  `Spec => []LogsAccounted`. The two go together: that `reply` and `lost` stay within
  `1 .. Len(pushed)` follows only from `AllThere`. `LogsAccounted` is inductive with
  `TypeOK`: one lemma per kind of step (a push, an issue, a take, an abandon)
  moves one entry from one place to another.
- `Fresh`: `Spec => []NoMissedUpdate`. `NoMissedUpdate` is written so that it is inductive: with
  no notification queued it speaks of the GET just served as well as of the status
  shown.
- `LossBounded`: `Spec => []LossBound`. The bound counts queued notifications and orphans as
  losses to come: a SET queues one notification, a notification makes at most one
  orphan, an orphan costs at most one entry.
- `ReplayOfEvents`: `Spec => []EventsReplay`. The property says where each entry of `PeerState` was announced: the positions of
  the log events are in the order of the logs and leave none out. It is inductive; a log step extends the positions by the new event.
- `RefinesView`: `Spec => ViewSafe`, by `Ahead` (`last <= fetched`): a GET never returns an
  older status than the one shown.

`PeerClientProofs`, from the assumptions of `PeerClient`:

- `TypeCorrect`: `Spec => []TypeOK`, which is inductive.
- `StatusTrue`: `Spec => []StatusIsTrue`, by `Reports`: beside the newest status, it says of the steps
  between a command and its status (`halting`, `rebooting`) what was reported last.
- `AllAccounted`: `Spec => []CommandsAccounted`, by `Accounted`, which says the same with the places of a
  command as sets of entries and lists of distinct ones; a lemma per kind of step moves a command from
  one place to the next, a lost reply from the list to the lost ones.
- `LossBounded`: `Spec => []LossPerDeath`, by `Cost`: a ghost request counts as the command it will
  take, a failed BLPOP costs one command or one ghost and only a poller has one (`Offline`: without
  a process no request waits), a channel holds at most `Cap`, and without a poller the channel is empty.

`OrchestratorProofs`, from `RunAssumption` and `StaleAssumption`. Its invariants use `Types` (`TypeOK`, the types
of the peers, and what the loop of each phase goes through) and the table `MainMoves`
of the moves of the main task from phase to phase, proved once (`Moves`):

- `RunTypes`: `Spec => []TypeOK`.
- `NothingLeft`: `Spec => []NoLeak`, by `LeakInv`: before the phase of the launches no container
  exists, in the phase of the removals each one is removed already, still to be removed, or the removal failed, and
  in the phase `drop` `tm-redis` is gone, or cleanup failed to remove it or was not reached.
- `AllToldToStop`: `Spec => []ToldToStop`, by `StopInv`: `shutdown_all_peers` has told a peer or has it
  still in its list, and every phase after it comes after all of it.
- `StartsFresh`: `NoOldStart /\ Spec => []StartedThisRun`. `NoOldStart` (no status left in
  Redis is "started") is what the run `RunStaleStart` shows to be needed; it holds of the Redis container of a run (`OwnRedis`). By
  `SeenInv` (what a monitor shows was SET) and `OldWords`.
- `ToldTheTruth`: `NoOldStart /\ Spec => []BootstrapTrue`, by `BootInv`: an address known of a peer is its own, a
  peer seen to have started has one or has said `started` plainly, and of a pair for which nothing was sent the
  wait timed out and the bootstrap peer is one of those (`Waited`).
- `CutsNothingShort`: `Spec => []NotCutShort`, whatever Redis held, by `CutInv`: a "stopped" of this run
  means that the program is over, and after the start a "stopped" shown is one of this run, as
  it cannot be the first status seen.
- `NothingOldExecuted`: `Spec => []NoOldCommand`, by `OldInv`: an old command can only be in a list that no one
  reads yet, and the phase of the DELs goes through all of them.

`AssignPeersProofs`, from `AssignAssumption` (at least as many ports as peers):

- `AssignTypes`: `AssignSpec => []AssignTypeOK`.
- `PortsAreUnique`: `AssignSpec => []PortsUnique`, by `Numbered` (the ports of a host are those up to its counter)
  and `Counted` (a counter never goes around, as there are no more peers than ports).
- `EvenlySpread`: `AssignSpec => []Balanced`, by `SpreadInv`. `Balanced` alone is not inductive: that two loads are
  close says nothing of which host is next. `Rounds` does: when `k * m + r` peers of a group with `m` hosts
  have been served, the first `r` hosts have `k + 1` of them and the others `k`. The code takes the next host by the index
  of the peer in its group; that this index is the number of peers served needs the order of service
  (`InTurn`), and that it selects the host of rank `r` needs that ranks are different (`RankUnique`) and
  what `%` does (`Remainder`).

`PlanProofs`, from `AssignAssumption` and `TimelineAssumption`:

- `TimelineTypes`, `SentAsScheduled` (`AsScheduled`) and `LateOnlyBehind` (`OnTime`), by one invariant: the batches
  tile the commands in batches so far, each of one time (`Tiled`), and what was sent is the batches before
  the current one and the part of it before the cursor (`Progress`).
- `PlanIsBoth`: `Spec => AssignSpec /\ TimelineSpec`, as a step of `Plan` is one of its halves and leaves the
  other alone. `PlanTypes` (`TypeOK`) and `PlanHolds` (every invariant of the halves, and that no command is sent before every
  peer has its host) follow from the theorems about the halves.

`ImageDistributionProofs`, from `DistributionAssumption`:

- `Types`: `Spec => []TypeOK`, and `NothingLeftHere`: `Spec => []LocalClean`, by `LocalInv`: archives lie on this
  machine only in the phase of the pipeline and only under the path of an image that some host lacks, or after it
  where their removal is blamed (`FilesInv`), no task exists before that phase and none runs after it (`NotYet`, `ExportsInv`).
- `HostsUpToDate` (`Distributed`), `NoFailureSwallowed` (`NothingSwallowed`), `ArchivesWhole` (`ReadsComplete`) and
  `FailuresStayApart` (`Independent`), each under the hypothesis `Apart`: different images have different
  archives. The code does not see to it, and the run `ImagesCollide` shows what happens without it. One invariant, `DistInv`, gives all
  four. `PhaseInv` is what the checks of one phase leave to the next. `ImageInv` and `PairInv` follow an archive through
  its export, transfer, load and removal: an export writes the version that is here or, when `docker save` failed,
  rubbish; a transfer starts only when its export is done, and what the host has once it is loaded is that version.
  `BlameInv` is where a failure shows: in a result that is joined or, when only `docker save` failed,
  in an archive that no host can load, which is why the phase of the pipeline cannot end well. It speaks of
  the failures that are not ignored (`Struck`); after an ignored inspect the pair goes through the pipeline like any other.

`ConsoleEventsProofs`, from the assumptions of `LogForward` and `ConsoleEvents`:

- `NoEntryVanishes`: `Spec => []EntriesAccounted`, by `AccountInv`: the eight places of an entry partition the
  entries (`Parts`). A lemma (`Moved`) says that moving entries from one place to another keeps a partition; each step
  is shown to be such a move.
- `ConsoleShowsAll`: `Spec => []ConsoleComplete`, by `ConsoleInv`: what was printed is printable, before the position of the receiver
  and in order; of what is before it and was not printed, the printable part (`Missed`) is at most what was announced, and all of it
  (`Skipped`) at least (`ReceiverInv`); and the last status event is of the status `PeerState` shows (`LastStatus`).
- `OrderOfArrival`: `Spec => ArrivesInOrder`, an action property, by `OrderInv`: what a process still holds is rising, of this process and
  later than all that arrived (`PendingInv`), what died with a process is later than what it got through and fits in a queue
  and one LPUSH (`CutInv`), and a Go peer has no queue (`GoInv`).

Every safety property of the passing runs is thus a theorem. Only model-checked are the liveness properties (`ViewLive`, `LogsDrain`,
`RestartReturns`, `CommandsMove`, `ShutdownObeyed`, `Terminates`, `PlanEnds`, `DistributionEnds`, `Delivered`): liveness under
fairness is outside of what the prover does here. That `PeerMonitor` implements `StatusView` is proved for its safety
part (`ViewSafe`) and checked for its liveness (`ViewLive`).

## Not modelled

- Rendering, log formatting, progress bars, argument parsing, the log file, `--reset-hosts`: no state that `tm`
  acts on. That a render may panic is modelled, which name or width makes it panic is not.
- The parsing of the configuration (serde derivations and defaults) and the merging of environments.
- The text of a command: `Command::parse` and its counterparts in Go and Python decide only whether it is
  shutdown, restart or another.
- The streams of an SSH channel: what libssh2 buffers is not in the repository; a call succeeds or fails.
- Contents of messages, beyond what decides: the word and address of a
  status, the level of a log entry and whether it has a bar, and which of shutdown, restart or
  another a command is.
- Peer containers that an earlier run left running: `start_peer` removes them, but until
  then they could still use an external Redis. Removal of images (`remove_images`).
- A Redis that loses data or restarts. A lost connection of a poller is modelled (`BlpopFails`), of a monitor too (`BlpopFails`,
  `GetFails` and `StreamEnds` of `PeerMonitor`); the keys are taken to survive.
- A `docker run` of a peer that fails after creating its container: `LaunchFails` starts none. `tm` has
  ended early then, for which `NoLeak` already excepts the containers of peers.
- Delays: a time-out may pass at any time, so no property depends on a duration.

## Plan

Done: every module above, and a proof of every safety property the passing runs check. Next: that the monitor of
`ConsoleEvents` is what `PeerMonitor` promises is an argument of this document so far; a refinement mapping between the two
(its `lost` and `unsent` from the orphans and notices of `PeerMonitor`) would make it a theorem.
