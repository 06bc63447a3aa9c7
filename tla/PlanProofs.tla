----------------------------- MODULE PlanProofs -----------------------------
(***************************************************************************)
(* Proofs about Timeline, for any number of commands and any times: each   *)
(* command is sent once, in the order of the configuration, never before   *)
(* its time, and late only behind an earlier one whose time had not come.  *)
(* At the end, Plan, whose steps are those of its two halves, so that all  *)
(* that is proved about either is true of a whole plan.                    *)
(*                                                                         *)
(* The argument: the batches tile the commands put in batches so far, each *)
(* of one time (Tiled), and what was sent is the batches before the        *)
(* current one and the part of it before the cursor (Progress).            *)
(***************************************************************************)
EXTENDS Plan, AssignPeersProofs, SequenceTheorems

Tiled ==
  /\ batches = <<>> => built = 0
  /\ batches # <<>> => batches[1].from = 1 /\ batches[Len(batches)].to = built
  /\ \A b \in 1 .. Len(batches) - 1 : batches[b + 1].from = batches[b].to + 1
  /\ \A b \in 1 .. Len(batches) :
       /\ batches[b].from <= batches[b].to
       /\ \A k \in batches[b].from .. batches[b].to : time[k] = batches[b].time

SentBefore(b) == IF b <= Len(batches) THEN batches[b].from - 1 ELSE built

Progress ==
  /\ loop = "build" => current = 1 /\ tried = <<>> /\ lastCheck = 0
  /\ loop # "build" => built = Len(time)
  /\ loop \in {"asleep", "check"} => Len(tried) = SentBefore(current)
  /\ loop = "send" =>
       /\ current <= Len(batches)
       /\ batches[current].from <= cursor
       /\ cursor <= batches[current].to + 1
       /\ Len(tried) = cursor - 1
       /\ clock >= batches[current].time
  /\ loop = "asleep" /\ current <= Len(batches) =>
       lastCheck = 0 \/ batches[current].time > lastCheck

TimelineInv == TimelineTypeOK /\ Tiled /\ Progress /\ AsScheduled

Batch == [time : 0 .. MaxTime, from : Position, to : Position]

-----------------------------------------------------------------------------

(* What the type invariant says of each variable.                          *)
LEMMA Types ==
  ASSUME TimelineInv
  PROVE  /\ Len(time) \in Nat /\ time \in [Position -> 0 .. MaxTime]
         /\ built \in Nat /\ built <= Len(time)
         /\ batches \in Seq(Batch) /\ Len(batches) \in Nat
         /\ current \in Nat \ {0} /\ current <= Len(batches) + 1
         /\ cursor \in Nat
         /\ clock \in 0 .. MaxTime /\ clock \in Nat /\ lastCheck \in Nat
         /\ tried \in Seq([of : Position, at : 0 .. MaxTime])
         /\ Len(tried) \in Nat /\ unsent \in Nat /\ MaxTime \in Nat
<1>1. TimelineTypeOK /\ MaxTime \in Nat
  BY TimelineAssumption DEF TimelineInv
<1>2. batches \in Seq(Batch) /\ Len(batches) \in Nat
  BY <1>1 DEF TimelineTypeOK, Batch
<1> QED  BY <1>1, <1>2 DEF TimelineTypeOK

(* At first there is no batch, and nothing was sent.                       *)
LEMMA TimelineInitInv == TimelineInit => TimelineInv
<1> SUFFICES ASSUME TimelineInit PROVE TimelineInv  OBVIOUS
<1>1. PICK n \in 0 .. MaxCommands : time \in [1 .. n -> 0 .. MaxTime]
  BY DEF TimelineInit
<1>2. n \in Nat /\ MaxTime \in Nat  BY <1>1, TimelineAssumption
<1>3. time \in Seq(0 .. MaxTime) /\ Len(time) = n  BY <1>1, <1>2
<1>4. TimelineTypeOK
  <2>1. batches \in Seq([time : 0 .. MaxTime, from : Position, to : Position])
    BY DEF TimelineInit
  <2>2. tried \in Seq([of : Position, at : 0 .. MaxTime])
    BY DEF TimelineInit
  <2>3. Len(batches) = 0  BY DEF TimelineInit
  <2> QED
    BY <1>1, <1>2, <1>3, <2>1, <2>2, <2>3
       DEF TimelineInit, TimelineTypeOK, Position
<1>5. Tiled  BY DEF TimelineInit, Tiled
<1>6. Progress  BY DEF TimelineInit, Progress
<1>7. AsScheduled  BY DEF TimelineInit, AsScheduled
<1> QED  BY <1>4, <1>5, <1>6, <1>7 DEF TimelineInv

-----------------------------------------------------------------------------
(* build_batches.                                                          *)

(* A command of the same time lengthens the last batch.                    *)
LEMMA JoinsStep ==
  ASSUME TimelineInv, Build, Joins(built + 1)
  PROVE  TimelineInv'
<1> DEFINE n == Len(batches)  i == built + 1
<1>1. /\ batches \in Seq(Batch) /\ n \in Nat /\ n > 0
      /\ built \in Nat /\ i \in Position /\ Len(time) \in Nat
      /\ batches[n].time = time[i] /\ loop = "build"
  <2>1. batches # <<>> /\ batches[n].time = time[i]  BY DEF Joins
  <2>2. n # 0  BY <2>1, Types, EmptySeq
  <2>3. loop = "build" /\ built < Len(time)  BY DEF Build
  <2>4. n > 0  BY <2>2, Types
  <2>5. i \in Position  BY <2>3, Types DEF Position
  <2> QED  BY <2>1, <2>3, <2>4, <2>5, Types
<1>2. /\ batches' = [batches EXCEPT ![n] = [batches[n] EXCEPT !.to = i]]
      /\ built' = i /\ UNCHANGED <<time, clock, sendVars>>
  BY DEF Build
<1>3. batches[n] \in Batch  BY <1>1
<1>4. [batches[n] EXCEPT !.to = i] \in Batch  BY <1>1, <1>3 DEF Batch
<1>5. batches' \in Seq(Batch) /\ Len(batches') = n
  BY <1>1, <1>2, <1>4, ExceptSeq
<1>6. /\ \A b \in 1 .. n - 1 : batches'[b] = batches[b]
      /\ batches'[n].time = batches[n].time
      /\ batches'[n].from = batches[n].from
      /\ batches'[n].to = i
  BY <1>1, <1>2, <1>3 DEF Batch
<1>7. TimelineTypeOK'
  <2>1. built' \in 0 .. Len(time)  BY <1>1, <1>2 DEF Position
  <2>2. Batch' = Batch  BY <1>2 DEF Batch, Position
  <2>3. batches' \in Seq(Batch')  BY <1>5, <2>2
  <2> QED
    BY <1>2, <1>5, <2>1, <2>3 DEF TimelineInv, TimelineTypeOK, Batch,
                                  Position, sendVars
<1>8. Tiled'
  <2>1. batches[n].to = built /\ batches[n].from <= built /\ batches[1].from = 1
    BY <1>1 DEF TimelineInv, Tiled
  <2>2. batches'[1].from = 1
    <3>1. CASE n = 1  BY <3>1, <2>1, <1>6
    <3>2. CASE n # 1  BY <3>2, <2>1, <1>1, <1>6
    <3> QED  BY <3>1, <3>2
  <2>3. \A b \in 1 .. n - 1 : batches'[b + 1].from = batches'[b].to + 1
    <3> SUFFICES ASSUME NEW b \in 1 .. n - 1
                 PROVE  batches'[b + 1].from = batches'[b].to + 1
      OBVIOUS
    <3>1. batches[b + 1].from = batches[b].to + 1
      BY DEF TimelineInv, Tiled
    <3>2. CASE b + 1 = n  BY <3>1, <3>2, <1>1, <1>6
    <3>3. CASE b + 1 # n
      <4>1. b + 1 \in 1 .. n - 1  BY <3>3, <1>1
      <4> QED  BY <3>1, <4>1, <1>6
    <3> QED  BY <3>2, <3>3
  <2>4. ASSUME NEW b \in 1 .. n
        PROVE  /\ batches'[b].from <= batches'[b].to
               /\ \A k \in batches'[b].from .. batches'[b].to :
                    time[k] = batches'[b].time
    <3>1. /\ batches[b].from <= batches[b].to
          /\ \A k \in batches[b].from .. batches[b].to :
               time[k] = batches[b].time
      BY DEF TimelineInv, Tiled
    <3>2. CASE b # n  BY <3>1, <3>2, <1>1, <1>6
    <3>3. CASE b = n
      <4>1. batches[n].from \in Nat  BY <1>3 DEF Batch, Position
      <4>2. \A k \in batches[n].from .. i : k = i \/ k \in batches[n].from .. built
        BY <1>1, <4>1
      <4> QED  BY <3>1, <3>3, <4>1, <4>2, <1>1, <1>6, <2>1
    <3> QED  BY <3>2, <3>3
  <2> QED
    BY <1>1, <1>2, <1>5, <1>6, <2>2, <2>3, <2>4 DEF Tiled
<1>9. Progress'
  BY <1>1, <1>2 DEF TimelineInv, Progress, sendVars
<1>10. AsScheduled'
  BY <1>2 DEF TimelineInv, AsScheduled, sendVars
<1> QED  BY <1>7, <1>8, <1>9, <1>10 DEF TimelineInv

(* Any other command opens the next batch.                                 *)
LEMMA OpensStep ==
  ASSUME TimelineInv, Build, ~Joins(built + 1)
  PROVE  TimelineInv'
<1> DEFINE n == Len(batches)
           i == built + 1
           new == [time |-> time[i], from |-> i, to |-> i]
<1>1. /\ batches \in Seq(Batch) /\ n \in Nat
      /\ built \in Nat /\ i \in Position /\ Len(time) \in Nat
      /\ loop = "build"
  BY DEF TimelineInv, TimelineTypeOK, Build, Batch, Position
<1>2. /\ batches' = Append(batches, new)
      /\ built' = i /\ UNCHANGED <<time, clock, sendVars>>
  BY DEF Build
<1>3. new \in Batch  BY <1>1 DEF TimelineInv, TimelineTypeOK, Batch
<1>4. batches' \in Seq(Batch) /\ Len(batches') = n + 1
  BY <1>1, <1>2, <1>3, AppendProperties
<1>5. /\ \A b \in 1 .. n : batches'[b] = batches[b]
      /\ batches'[n + 1] = new
  BY <1>1, <1>2, <1>3, AppendProperties
<1>6. TimelineTypeOK'
  BY <1>1, <1>2, <1>4 DEF TimelineInv, TimelineTypeOK, Batch, Position,
                          sendVars
<1>7. Tiled'
  <2>1. batches'[1].from = 1 /\ batches'[n + 1].to = i
    <3>1. CASE n = 0
      <4>1. batches = <<>>  BY <3>1, <1>1
      <4> QED  BY <3>1, <4>1, <1>5 DEF TimelineInv, Tiled
    <3>2. CASE n # 0
      <4>1. batches # <<>> /\ 1 \in 1 .. n  BY <3>2, <1>1
      <4> QED  BY <4>1, <1>5 DEF TimelineInv, Tiled
    <3> QED  BY <3>1, <3>2
  <2>2. ASSUME NEW b \in 1 .. n
        PROVE  batches'[b + 1].from = batches'[b].to + 1
    <3>1. CASE b = n
      <4>1. batches # <<>>  BY <1>1
      <4> QED  BY <3>1, <4>1, <1>1, <1>5 DEF TimelineInv, Tiled
    <3>2. CASE b # n
      <4>1. b \in 1 .. n - 1 /\ b + 1 \in 1 .. n  BY <3>2, <1>1
      <4> QED  BY <4>1, <1>5 DEF TimelineInv, Tiled
    <3> QED  BY <3>1, <3>2
  <2>3. ASSUME NEW b \in 1 .. n + 1
        PROVE  /\ batches'[b].from <= batches'[b].to
               /\ \A k \in batches'[b].from .. batches'[b].to :
                    time[k] = batches'[b].time
    <3>1. CASE b = n + 1  BY <3>1, <1>1, <1>5
    <3>2. CASE b # n + 1
      <4>1. b \in 1 .. n  BY <3>2, <1>1
      <4> QED  BY <4>1, <1>5 DEF TimelineInv, Tiled
    <3> QED  BY <3>1, <3>2
  <2>4. batches' # <<>> /\ Len(batches') - 1 = n  BY <1>1, <1>4
  <2>5. batches'[1].from = 1 /\ batches'[Len(batches')].to = built'
    BY <1>2, <1>4, <2>1
  <2>6. \A b \in 1 .. Len(batches') - 1 :
          batches'[b + 1].from = batches'[b].to + 1
    BY <2>2, <2>4
  <2>7. time' = time /\ Len(batches') = n + 1  BY <1>2, <1>4
  <2> QED  BY <2>3, <2>4, <2>5, <2>6, <2>7 DEF Tiled
<1>8. Progress'
  BY <1>1, <1>2 DEF TimelineInv, Progress, sendVars
<1>9. AsScheduled'
  BY <1>2 DEF TimelineInv, AsScheduled, sendVars
<1> QED  BY <1>6, <1>7, <1>8, <1>9 DEF TimelineInv

-----------------------------------------------------------------------------
(* send_due_batches.                                                       *)

(* A step that leaves the batches and what was sent alone keeps both parts *)
(* of the invariant that are about them.                                   *)
LEMMA LoopStep ==
  ASSUME TimelineInv, UNCHANGED <<time, built, batches, tried>>
  PROVE  Tiled' /\ AsScheduled' /\ (\A b : SentBefore(b)' = SentBefore(b))
BY DEF TimelineInv, Tiled, AsScheduled, SentBefore

(* When all commands are in batches, the loop may begin.                   *)
LEMMA BuiltStep == TimelineInv /\ Built => TimelineInv'
<1> SUFFICES ASSUME TimelineInv, Built PROVE TimelineInv'  OBVIOUS
<1>1. UNCHANGED <<time, built, batches, current, cursor, clock, lastCheck,
                  tried, unsent>> /\ loop' = "asleep" /\ loop = "build"
      /\ built = Len(time)
  BY DEF Built
<1>2. Tiled' /\ AsScheduled'  BY <1>1, LoopStep
<1>3. TimelineTypeOK'
  BY <1>1 DEF TimelineInv, TimelineTypeOK, Position
<1>4. current = 1 /\ Len(tried) = 0 /\ lastCheck = 0
  BY <1>1 DEF TimelineInv, Progress
<1>5. SentBefore(1) = 0
  <2>1. CASE batches = <<>>
    BY <2>1 DEF SentBefore, TimelineInv, Tiled
  <2>2. CASE batches # <<>>
    <3>1. Len(batches) \in Nat /\ Len(batches) # 0
      BY <2>2, EmptySeq DEF TimelineInv, TimelineTypeOK
    <3> QED  BY <2>2, <3>1 DEF SentBefore, TimelineInv, Tiled
  <2> QED  BY <2>1, <2>2
<1>6. Progress'
  BY <1>1, <1>4, <1>5 DEF Progress, SentBefore
<1> QED  BY <1>2, <1>3, <1>6 DEF TimelineInv

(* A tick of the loop changes no batch.                                    *)
LEMMA TickStep == TimelineInv /\ Tick => TimelineInv'
<1> SUFFICES ASSUME TimelineInv, Tick PROVE TimelineInv'  OBVIOUS
<1>1. Tiled' /\ AsScheduled'  BY LoopStep DEF Tick
<1>2. TimelineTypeOK'  BY DEF Tick, TimelineInv, TimelineTypeOK, Position
<1>3. Progress'  BY DEF Tick, TimelineInv, Progress, SentBefore
<1> QED  BY <1>1, <1>2, <1>3 DEF TimelineInv

(* A batch is a range of positions that have one time.                     *)
LEMMA BatchType ==
  ASSUME TimelineInv, NEW b \in 1 .. Len(batches)
  PROVE  /\ batches[b].time \in Nat
         /\ batches[b].from \in Position /\ batches[b].to \in Position
         /\ batches[b].from \in Nat /\ batches[b].to \in Nat
         /\ batches[b].from <= batches[b].to
         /\ batches[b].to <= Len(time)
         /\ \A k \in batches[b].from .. batches[b].to : time[k] = batches[b].time
<1>1. batches[b] \in Batch  BY Types
<1>2. Len(time) \in Nat /\ MaxTime \in Nat  BY Types
<1>3. /\ batches[b].from <= batches[b].to
      /\ \A k \in batches[b].from .. batches[b].to : time[k] = batches[b].time
  BY DEF TimelineInv, Tiled
<1> QED  BY <1>1, <1>2, <1>3 DEF Batch, Position

(* A due batch is opened at its first command.                             *)
LEMMA OpenStep == TimelineInv /\ Open => TimelineInv'
<1> SUFFICES ASSUME TimelineInv, Open PROVE TimelineInv'  OBVIOUS
<1>1. Tiled' /\ AsScheduled'  BY LoopStep DEF Open
<1>2. current \in 1 .. Len(batches)
  BY DEF Open, TimelineInv, TimelineTypeOK
<1>3. TimelineTypeOK'
  <2>1. batches[current].from \in 0 .. Len(time) + 1
    BY <1>2, BatchType, Types DEF Position
  <2> QED  BY <2>1 DEF Open, TimelineInv, TimelineTypeOK, Position
<1>4. Progress'
  BY <1>2, BatchType DEF Open, Due, TimelineInv, Progress, SentBefore
<1> QED  BY <1>1, <1>3, <1>4 DEF TimelineInv

(* A batch that is not due was looked at just now.                         *)
LEMMA WaitStep == TimelineInv /\ Wait => TimelineInv'
<1> SUFFICES ASSUME TimelineInv, Wait PROVE TimelineInv'  OBVIOUS
<1>1. Tiled' /\ AsScheduled'  BY LoopStep DEF Wait
<1>2. TimelineTypeOK'  BY DEF Wait, TimelineInv, TimelineTypeOK, Position
<1>3. current \in 1 .. Len(batches) /\ clock \in Nat
  BY TimelineAssumption DEF Wait, TimelineInv, TimelineTypeOK
<1>4. batches[current].time > clock
  BY <1>3, BatchType DEF Wait, Due
<1>5. Progress'
  BY <1>4 DEF Wait, TimelineInv, Progress, SentBefore
<1> QED  BY <1>1, <1>2, <1>5 DEF TimelineInv

(* After the last batch there is nothing to be late.                       *)
LEMMA AllSentStep == TimelineInv /\ AllSent => TimelineInv'
<1> SUFFICES ASSUME TimelineInv, AllSent PROVE TimelineInv'  OBVIOUS
<1>1. Tiled' /\ AsScheduled'  BY LoopStep DEF AllSent
<1>2. TimelineTypeOK'  BY DEF AllSent, TimelineInv, TimelineTypeOK, Position
<1>3. ~(current <= Len(batches))
  BY DEF AllSent, TimelineInv, TimelineTypeOK
<1>4. Progress'
  BY <1>3 DEF AllSent, TimelineInv, Progress, SentBefore
<1> QED  BY <1>1, <1>2, <1>4 DEF TimelineInv

(* The command at the cursor is the next of the configuration, and its     *)
(* batch is due.                                                           *)
LEMMA SendStep == TimelineInv /\ Send => TimelineInv'
<1> SUFFICES ASSUME TimelineInv, Send PROVE TimelineInv'  OBVIOUS
<1> DEFINE m == Len(tried)
           sent == [of |-> cursor, at |-> clock]
           Sent == [of : Position, at : 0 .. MaxTime]
<1>1. current \in 1 .. Len(batches)
  BY DEF Send, TimelineInv, TimelineTypeOK, Progress
<1>2. /\ cursor \in batches[current].from .. batches[current].to
      /\ cursor \in Position /\ m = cursor - 1 /\ cursor <= Len(time)
      /\ clock \in 0 .. MaxTime /\ clock >= batches[current].time
  <2>1. /\ batches[current].from <= cursor /\ cursor <= batches[current].to
        /\ m = cursor - 1 /\ clock >= batches[current].time
    BY DEF Send, TimelineInv, Progress
  <2>2. /\ batches[current].from \in Nat /\ batches[current].to \in Nat
        /\ batches[current].from \in Position
        /\ batches[current].to <= Len(time)
    BY <1>1, BatchType
  <2>3. cursor <= Len(time) /\ cursor \in Position
    BY <2>1, <2>2, Types DEF Position
  <2> QED  BY <2>1, <2>2, <2>3, Types
<1>3. time[cursor] = batches[current].time  BY <1>1, <1>2, BatchType
<1>4. tried \in Seq(Sent) /\ m \in Nat  BY DEF TimelineInv, TimelineTypeOK
<1>5. /\ tried' = Append(tried, sent) /\ cursor' = cursor + 1
      /\ unsent' \in {unsent, unsent + 1}
      /\ UNCHANGED <<time, built, batches, loop, current, clock, lastCheck>>
      /\ loop = "send"
  BY DEF Send
<1>6. sent \in Sent  BY <1>2
<1>7. /\ tried' \in Seq(Sent) /\ Len(tried') = m + 1
      /\ \A k \in 1 .. m : tried'[k] = tried[k]
      /\ tried'[m + 1] = sent
  BY <1>4, <1>5, <1>6, AppendProperties
<1>8. Tiled'  BY <1>5 DEF TimelineInv, Tiled
<1>9. TimelineTypeOK'
  <2>1. cursor' \in 0 .. Len(time) + 1 /\ unsent' \in Nat
    <3>1. unsent' \in Nat  BY <1>5, Types
    <3>2. cursor \in Nat /\ Len(time) \in Nat  BY Types
    <3> QED  BY <1>2, <1>5, <3>1, <3>2
  <2>2. Position' = Position  BY <1>5 DEF Position
  <2>3. tried' \in Seq([of : Position, at : 0 .. MaxTime])'
    BY <1>7, <2>2
  <2> QED
    BY <1>5, <2>1, <2>2, <2>3 DEF TimelineInv, TimelineTypeOK
<1>10. Progress'
  BY <1>1, <1>2, <1>5, <1>7, BatchType DEF TimelineInv, Progress, SentBefore
<1>11. AsScheduled'
  <2> SUFFICES ASSUME NEW k \in 1 .. m + 1
               PROVE  tried'[k].of = k /\ tried'[k].at >= time[k]
    BY <1>5, <1>7 DEF AsScheduled
  <2>1. CASE k = m + 1
    <3>1. k = cursor  BY <2>1, <1>2, <1>4 DEF Position
    <3> QED  BY <2>1, <3>1, <1>2, <1>3, <1>7
  <2>2. CASE k # m + 1
    <3>1. k \in 1 .. m  BY <2>2, <1>4
    <3> QED  BY <3>1, <1>7 DEF TimelineInv, AsScheduled
  <2> QED  BY <2>1, <2>2
<1> QED  BY <1>8, <1>9, <1>10, <1>11 DEF TimelineInv

(* A batch is closed when all of it was sent.                              *)
LEMMA CloseBatchStep == TimelineInv /\ CloseBatch => TimelineInv'
<1> SUFFICES ASSUME TimelineInv, CloseBatch PROVE TimelineInv'  OBVIOUS
<1> DEFINE n == Len(batches)
<1>1. Tiled' /\ AsScheduled'  BY LoopStep DEF CloseBatch
<1>2. current \in 1 .. n /\ n \in Nat
  BY DEF CloseBatch, TimelineInv, TimelineTypeOK, Progress
<1>3. TimelineTypeOK'
  <2>1. current + 1 \in 1 .. n + 1  BY <1>2
  <2> QED  BY <2>1 DEF CloseBatch, TimelineInv, TimelineTypeOK, Position
<1>4. Len(tried) = batches[current].to
  <2>1. /\ cursor <= batches[current].to + 1 /\ cursor > batches[current].to
        /\ Len(tried) = cursor - 1
    BY DEF CloseBatch, TimelineInv, Progress
  <2> QED  BY <1>2, <2>1, BatchType, Types
<1>5. SentBefore(current + 1) = batches[current].to
  <2>1. CASE current = n
    <3>1. batches # <<>>  BY <1>2, <2>1, EmptySeq
    <3> QED  BY <1>2, <2>1, <3>1 DEF SentBefore, TimelineInv, Tiled
  <2>2. CASE current # n
    <3>1. current \in 1 .. n - 1 /\ current + 1 <= n  BY <1>2, <2>2
    <3>2. batches[current + 1].from = batches[current].to + 1
      BY <3>1 DEF TimelineInv, Tiled
    <3> QED  BY <1>2, <3>1, <3>2, BatchType DEF SentBefore
  <2> QED  BY <2>1, <2>2
<1>6. Progress'
  BY <1>4, <1>5 DEF CloseBatch, TimelineInv, Progress, SentBefore
<1> QED  BY <1>1, <1>3, <1>6 DEF TimelineInv

(* Time passing makes nothing early.                                       *)
LEMMA ClockStep == TimelineInv /\ Clock => TimelineInv'
<1> SUFFICES ASSUME TimelineInv, Clock PROVE TimelineInv'  OBVIOUS
<1>1. Tiled' /\ AsScheduled'  BY LoopStep DEF Clock, sendVars
<1>2. clock \in Nat /\ clock' \in 0 .. MaxTime /\ clock' >= clock
  BY TimelineAssumption DEF Clock, TimelineInv, TimelineTypeOK
<1>3. TimelineTypeOK'
  BY <1>2 DEF Clock, TimelineInv, TimelineTypeOK, Position, sendVars
<1>4. loop = "send" => current \in 1 .. Len(batches)
  BY DEF TimelineInv, TimelineTypeOK, Progress
<1>5. loop = "send" => clock' >= batches[current].time
  BY <1>2, <1>4, BatchType DEF TimelineInv, Progress
<1>6. Progress'
  BY <1>5 DEF Clock, TimelineInv, Progress, SentBefore, sendVars
<1> QED  BY <1>1, <1>3, <1>6 DEF TimelineInv

(* Every step keeps the invariant.                                         *)
LEMMA TimelineStepInv == TimelineInv /\ [TimelineNext]_timelineVars => TimelineInv'
<1> SUFFICES ASSUME TimelineInv, [TimelineNext]_timelineVars
             PROVE  TimelineInv'
  OBVIOUS
<1>1. CASE Build  BY <1>1, JoinsStep, OpensStep
<1>2. CASE UNCHANGED timelineVars
  BY <1>2 DEF timelineVars, TimelineInv, TimelineTypeOK, Tiled, Progress,
              SentBefore, AsScheduled, Position
<1> QED
  BY <1>1, <1>2, BuiltStep, TickStep, OpenStep, WaitStep, AllSentStep,
     SendStep, CloseBatchStep, ClockStep DEF TimelineNext, Loop

(* The invariant holds in every state.                                     *)
LEMMA TimelineInvariant == TimelineSpec => []TimelineInv
BY TimelineInitInv, TimelineStepInv, PTL DEF TimelineSpec

-----------------------------------------------------------------------------

(* The timeline keeps its types: the batch index and the cursor never      *)
(* leave the batches.                                                      *)
THEOREM TimelineTypes == TimelineSpec => []TimelineTypeOK
<1>1. TimelineInv => TimelineTypeOK  BY DEF TimelineInv
<1> QED  BY <1>1, TimelineInvariant, PTL

(* Every command is sent once, in the order of the configuration, and not  *)
(* before its time, for every timeline (ui.rs:46).                         *)
THEOREM SentAsScheduled == TimelineSpec => []AsScheduled
<1>1. TimelineInv => AsScheduled  BY DEF TimelineInv
<1> QED  BY <1>1, TimelineInvariant, PTL

(* A command that is late when the loop sleeps waits behind an earlier one *)
(* whose time had not come, for every timeline (main.rs:413).              *)
THEOREM LateOnlyBehind == TimelineSpec => []OnTime
<1>1. TimelineInv => OnTime
  <2> SUFFICES ASSUME TimelineInv, loop = "asleep", NEW i \in Position,
                      i > Len(tried), time[i] < lastCheck
               PROVE  \E j \in Len(tried) + 1 .. i : time[j] > lastCheck
    BY DEF OnTime
  <2>1. /\ Len(tried) = SentBefore(current) /\ built = Len(time)
        /\ Len(time) \in Nat /\ i \in Nat /\ i <= Len(time)
        /\ time[i] \in Nat /\ lastCheck \in Nat
    <3>1. Len(time) \in Nat /\ lastCheck \in Nat  BY Types
    <3>2. i \in Nat /\ i <= Len(time)  BY <3>1 DEF Position
    <3>3. time[i] \in Nat  BY Types
    <3>4. Len(tried) = SentBefore(current) /\ built = Len(time)
      BY DEF TimelineInv, Progress
    <3> QED  BY <3>1, <3>2, <3>3, <3>4
  <2>2. current \in 1 .. Len(batches)
    BY <2>1, Types DEF SentBefore
  <2>3. batches[current].time > lastCheck
    BY <2>1, <2>2, BatchType DEF TimelineInv, Progress
  <2>4. Len(tried) + 1 = batches[current].from
    <3>1. current <= Len(batches)  BY <2>2
    <3>2. Len(tried) = batches[current].from - 1
      BY <2>1, <3>1 DEF SentBefore
    <3> QED  BY <2>2, <3>2, BatchType
  <2>5. time[batches[current].from] > lastCheck
    <3>1. batches[current].from \in batches[current].from .. batches[current].to
      BY <2>2, BatchType
    <3>2. time[batches[current].from] = batches[current].time
      BY <2>2, <3>1, BatchType
    <3> QED  BY <2>3, <3>2
  <2>6. batches[current].from \in Len(tried) + 1 .. i
    BY <2>1, <2>2, <2>4, BatchType
  <2> QED  BY <2>5, <2>6
<1> QED  BY <1>1, TimelineInvariant, PTL

-----------------------------------------------------------------------------
(* Plan.                                                                   *)

(* A plan behaves like assign_peers to whoever watches the assignment, and *)
(* like the timeline to whoever watches that.                              *)
THEOREM PlanIsBoth == Spec => AssignSpec /\ TimelineSpec
<1>1. Init => AssignInit /\ TimelineInit  BY DEF Init
<1>2. [Next]_vars => [AssignNext]_assignVars /\ [TimelineNext]_timelineVars
  BY DEF Next, AssignFirst, ThenTimeline, vars
<1> QED
  BY <1>1, <1>2, PTL DEF Spec, AssignSpec, TimelineSpec

(* A plan keeps its types, for any configuration: no counter passes the    *)
(* number of peers, every port is a port number, and the batch index never *)
(* leaves the batches.                                                     *)
THEOREM PlanTypes == Spec => []TypeOK
<1>1. AssignTypeOK /\ TimelineTypeOK => TypeOK  BY DEF TypeOK
<1> QED  BY <1>1, PlanIsBoth, AssignTypes, TimelineTypes, PTL

(* No command is sent before every peer has its host.                      *)
AssignedFirst == tried # <<>> => outcome = "ok" /\ Assigned = APeer

(* Whatever main does with a configuration: the ports are unique, the      *)
(* groups spread evenly, the commands sent as scheduled, and none of them  *)
(* before every peer has its host (main.rs:194).                           *)
THEOREM PlanHolds ==
  Spec => [](PortsUnique /\ Balanced /\ AsScheduled /\ OnTime /\ AssignedFirst)
<1>1. Spec => []((outcome = "ok" => Assigned = APeer) /\ AssignedFirst)
  <2> DEFINE I == (outcome = "ok" => Assigned = APeer) /\ AssignedFirst
  <2>1. Init => I
    BY DEF Init, AssignInit, TimelineInit, AssignedFirst
  <2>2. I /\ [Next]_vars => I'
    <3> SUFFICES ASSUME I, [Next]_vars PROVE I'  OBVIOUS
    <3>1. CASE AssignFirst
      <4>1. outcome = "running" /\ tried' = tried
        BY <3>1 DEF AssignFirst, AssignNext, Assign, Overflow, NoHost, Done,
                    timelineVars
      <4>2. outcome' = "ok" => Assigned' = APeer
        BY <3>1, <4>1 DEF AssignFirst, AssignNext, Assign, Overflow, NoHost,
                          Done, Assigned
      <4> QED  BY <4>1, <4>2 DEF AssignedFirst
    <3>2. CASE ThenTimeline
      BY <3>2 DEF ThenTimeline, assignVars, Assigned, AssignedFirst
    <3>3. CASE UNCHANGED vars
      BY <3>3 DEF vars, assignVars, timelineVars, Assigned, AssignedFirst
    <3> QED  BY <3>1, <3>2, <3>3 DEF Next
  <2> QED  BY <2>1, <2>2, PTL DEF Spec
<1> QED
  BY <1>1, PlanIsBoth, PortsAreUnique, EvenlySpread, SentAsScheduled,
     LateOnlyBehind, PTL

=============================================================================
