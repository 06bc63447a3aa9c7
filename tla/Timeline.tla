------------------------------ MODULE Timeline ------------------------------
(***************************************************************************)
(* The command timeline of a test: build_batches turns the commands of the *)
(* configuration into batches, and the loops of run_tui and run_console    *)
(* call send_due_batches again and again.  A command is its position in    *)
(* the configuration, which need not be sorted by time; a batch is a range *)
(* of positions.                                                           *)
(*                                                                         *)
(* What a batch shows in the TUI (its delta, the hosts, "sent") is layout. *)
(*                                                                         *)
(* A definition Name_Change is a mutant of Name: a change that a bug could *)
(* make and that some property must notice.  No specification uses it.     *)
(***************************************************************************)
EXTENDS Naturals, Sequences

CONSTANTS
  MaxCommands,   \* bound: commands of a configuration
  MaxTime        \* bound: the seconds the clock counts

ASSUME TimelineAssumption == MaxCommands \in Nat /\ MaxTime \in Nat

VARIABLES
  time,        \* configuration: the time of each command
  built,       \* how many commands build_batches has put in a batch
  batches,     \* a sequence of [time, from, to]
  loop,        \* "build", "asleep", "check" or "send"
  current,     \* current_batch_idx, from 1
  cursor,      \* the command of that batch to be sent next
  clock,       \* test_start.elapsed()
  lastCheck,   \* history: when the loop found the current batch not due
  tried,       \* history: the commands sent, with the clock of each
  unsent       \* history: how many of those LPUSHes failed

timelineVars == <<time, built, batches, loop, current, cursor, clock,
                  lastCheck, tried, unsent>>
sendVars == <<loop, current, cursor, lastCheck, tried, unsent>>

Position == 1 .. Len(time)

TimelineInit ==
  /\ time \in UNION {[1 .. n -> 0 .. MaxTime] : n \in 0 .. MaxCommands}
  /\ built = 0 /\ batches = <<>>
  /\ loop = "build" /\ current = 1 /\ cursor = 0
  /\ clock = 0 /\ lastCheck = 0
  /\ tried = <<>> /\ unsent = 0

-----------------------------------------------------------------------------
(* build_batches: a command joins the last batch if it has its time, and   *)
(* opens a new one otherwise.                                              *)

Joins(i) == batches # <<>> /\ batches[Len(batches)].time = time[i]

Build ==
  /\ loop = "build" /\ built < Len(time)
  /\ built' = built + 1
  /\ batches' = IF Joins(built + 1)
                THEN [batches EXCEPT ![Len(batches)].to = built + 1]
                ELSE Append(batches, [time |-> time[built + 1],
                                      from |-> built + 1, to |-> built + 1])
  /\ UNCHANGED <<time, clock, sendVars>>

Built ==
  /\ loop = "build" /\ built = Len(time)
  /\ loop' = "asleep"
  /\ UNCHANGED <<time, built, batches, current, cursor, clock, lastCheck,
                 tried, unsent>>

-----------------------------------------------------------------------------
(* send_due_batches, from the tick of run_console or the loop of run_tui.  *)

(* Once everything is sent, a tick changes nothing here.                   *)
Tick ==
  /\ loop = "asleep" /\ current <= Len(batches)
  /\ loop' = "check"
  /\ UNCHANGED <<time, built, batches, current, cursor, clock, lastCheck,
                 tried, unsent>>

Due == clock >= batches[current].time

Open ==
  /\ loop = "check" /\ current <= Len(batches) /\ Due
  /\ loop' = "send" /\ cursor' = batches[current].from
  /\ UNCHANGED <<time, built, batches, current, clock, lastCheck, tried,
                 unsent>>

Wait ==
  /\ loop = "check" /\ current <= Len(batches) /\ ~Due
  /\ loop' = "asleep" /\ lastCheck' = clock
  /\ UNCHANGED <<time, built, batches, current, cursor, clock, tried, unsent>>

AllSent ==
  /\ loop = "check" /\ current > Len(batches)
  /\ loop' = "asleep" /\ lastCheck' = clock
  /\ UNCHANGED <<time, built, batches, current, cursor, clock, tried, unsent>>

(* The LPUSH of one command; one that fails counts as sent.                *)
Send_StopsAtFailure ==                                  \* mutant
  /\ loop = "send" /\ cursor <= batches[current].to
  /\ \/ /\ cursor' = cursor + 1
        /\ UNCHANGED unsent
     \/ /\ cursor' = batches[current].to + 1
        /\ unsent' = unsent + 1
  /\ tried' = Append(tried, [of |-> cursor, at |-> clock])
  /\ UNCHANGED <<time, built, batches, loop, current, clock, lastCheck>>

Send ==
  /\ loop = "send" /\ cursor <= batches[current].to
  /\ cursor' = cursor + 1
  /\ tried' = Append(tried, [of |-> cursor, at |-> clock])
  /\ unsent' \in {unsent, unsent + 1}
  /\ UNCHANGED <<time, built, batches, loop, current, clock, lastCheck>>

CloseBatch_OncePerTick ==                               \* mutant
  /\ loop = "send" /\ cursor > batches[current].to
  /\ loop' = "asleep" /\ current' = current + 1 /\ lastCheck' = clock
  /\ UNCHANGED <<time, built, batches, cursor, clock, tried, unsent>>

CloseBatch ==
  /\ loop = "send" /\ cursor > batches[current].to
  /\ loop' = "check" /\ current' = current + 1
  /\ UNCHANGED <<time, built, batches, cursor, clock, lastCheck, tried,
                 unsent>>

(* Time passes at any moment of the loop.                                  *)
Clock ==
  /\ loop # "build" /\ clock < MaxTime
  /\ clock' = clock + 1
  /\ UNCHANGED <<time, built, batches, sendVars>>

Loop == Build \/ Built \/ Tick \/ Open \/ Wait \/ AllSent \/ Send \/ CloseBatch

TimelineNext == Loop \/ Clock

TimelineSpec == TimelineInit /\ [][TimelineNext]_timelineVars

-----------------------------------------------------------------------------
(* Properties.                                                             *)

TimelineTypeOK ==
  /\ Len(time) \in Nat /\ time \in [Position -> 0 .. MaxTime]
  /\ built \in 0 .. Len(time)
  /\ batches \in Seq([time : 0 .. MaxTime, from : Position, to : Position])
  /\ loop \in {"build", "asleep", "check", "send"}
  /\ current \in 1 .. Len(batches) + 1
  /\ cursor \in 0 .. Len(time) + 1
  /\ clock \in 0 .. MaxTime /\ lastCheck \in 0 .. MaxTime
  /\ tried \in Seq([of : Position, at : 0 .. MaxTime])
  /\ unsent \in Nat

(* Every command is sent once and in the order of the configuration, and   *)
(* none before its time, whatever the times are and whichever of the       *)
(* LPUSHes fail: batches neither merge nor reorder commands (ui.rs:46).    *)
AsScheduled ==
  \A k \in 1 .. Len(tried) :
    tried[k].of = k /\ tried[k].at >= time[k]

(* When the loop has gone back to sleep, a command that is late waits      *)
(* behind an earlier line of the configuration whose time had not come:    *)
(* in a sorted configuration nothing is ever late by more than a tick.     *)
OnTime ==
  loop = "asleep" =>
    \A i \in Position :
      i > Len(tried) /\ time[i] < lastCheck =>
        \E j \in Len(tried) + 1 .. i : time[j] > lastCheck

=============================================================================
