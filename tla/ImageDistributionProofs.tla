---------------------- MODULE ImageDistributionProofs ----------------------
(***************************************************************************)
(* Proofs about ImageDistribution, for any images, hosts, assignments,     *)
(* pulls, versions and number of failing steps.                            *)
(***************************************************************************)
EXTENDS ImageDistribution, TLAPS

(* The archives of different images are different files.  The code does    *)
(* not see to that (run ImagesCollide), so it is a hypothesis of the       *)
(* theorems that need it.                                                  *)
Apart == \A i, j \in Image : Archive[i] = Archive[j] => i = j

(* What a pair is made of.                                                 *)
LEMMA PairShape ==
  ASSUME NEW u \in Uses
  PROVE  /\ u[1] \in Image /\ u[2] \in Host /\ u = <<u[1], u[2]>>
         /\ u[1] \in Images /\ Archive[u[1]] \in Path
BY DistributionAssumption DEF Images, Path

-----------------------------------------------------------------------------
(* Types.                                                                  *)

(* The types hold at first.                                                *)
LEMMA TypeInit == ASSUME Init PROVE TypeOK
<1>1. \A x \in Version : x \in Nat
  BY DistributionAssumption
<1>2. local \in [Image -> Nat] /\ has \in [Uses -> Nat]
  BY <1>1 DEF Init
<1>3. pulled \in 0 .. Len(Pulls)
  BY DistributionAssumption DEF Init
<1> QED
  BY <1>2, <1>3 DEF Init, TypeOK, Content

(* A step of the main task keeps the types, ...                            *)
LEMMA MainTypes == ASSUME TypeOK, Main \/ PullFails PROVE TypeOK'
<1>1. CASE Pull
  <2>1. pulled + 1 \in 1 .. Len(Pulls) /\ Pulls[pulled + 1] \in Image
    BY <1>1, DistributionAssumption DEF TypeOK, Pull
  <2>2. Newest \in Nat
    BY DistributionAssumption
  <2> QED
    BY <1>1, <2>1, <2>2 DEF TypeOK, Pull
<1>2. CASE PullFails
  BY <1>2 DEF TypeOK, PullFails
<1>3. CASE Pulled
  BY <1>3 DEF TypeOK, Pulled
<1>4. CASE LocalsJoined
  BY <1>4 DEF TypeOK, LocalsJoined
<1>5. CASE RemotesJoined
  BY <1>5 DEF TypeOK, RemotesJoined
<1>6. CASE DirsJoined
  <2>1. main' \in {"failed", "ok", "drain"}
    BY <1>6 DEF DirsJoined
  <2>2. /\ exported' \in [Image -> {"none", "spawned", "writing", "done",
                                    "failed"}]
        /\ xfer' \in [Uses -> {"none", "waiting", "sending", "loading",
                               "removing", "done", "failed"}]
    BY <1>6 DEF TypeOK, DirsJoined
  <2> QED
    BY <1>6, <2>1, <2>2 DEF TypeOK, DirsJoined
<1>7. CASE Drained
  BY <1>7 DEF TypeOK, Drained, Content
<1> QED
  BY <1>1, <1>2, <1>3, <1>4, <1>5, <1>6, <1>7 DEF Main

(* ... so does a step of an export task, ...                               *)
LEMMA ExportTypes ==
  ASSUME TypeOK, NEW i \in Image,
         ImageTask(i) \/ SaveFails(i) \/ ExportFails(i)
  PROVE  TypeOK'
<1>1. <<i, 0>> \in Content /\ <<i, local[i]>> \in Content /\ Garbage \in Content
  BY DEF TypeOK, Content
<1>2. CASE BeginExport(i)
  BY <1>1, <1>2 DEF TypeOK, BeginExport
<1>3. CASE EndExport(i)
  BY <1>1, <1>3 DEF TypeOK, EndExport
<1>4. CASE SaveFails(i)
  BY <1>1, <1>4 DEF TypeOK, SaveFails
<1>5. CASE ExportFails(i)
  BY <1>1, <1>5 DEF TypeOK, ExportFails
<1> QED
  BY <1>2, <1>3, <1>4, <1>5 DEF ImageTask

(* ... and of the tasks of a pair.                                         *)
LEMMA PairTypes ==
  ASSUME TypeOK, NEW u \in Uses, PairTask(u) \/ XferFails(u)
  PROVE  TypeOK'
<1>1. u[1] \in Image /\ u[2] \in Host /\ Archive[u[1]] \in Path
  BY PairShape
<1>2. /\ file[Archive[u[1]]] \in Content /\ opened[u] \in Content
      /\ Garbage \in Content /\ NoFile \in Content
  BY <1>1 DEF TypeOK, Content
<1>3. ASSUME NEW c \in Content,
             remote' = [remote EXCEPT ![u[2]][Archive[u[1]]] = c]
      PROVE  remote' \in [Host -> [Path -> Content]]
  BY <1>1, <1>3 DEF TypeOK
<1>4. CASE CheckRemote(u)
  BY <1>4 DEF TypeOK, CheckRemote
<1>5. CASE BeginSend(u)
  BY <1>2, <1>3, <1>5 DEF TypeOK, BeginSend, Move
<1>6. CASE ExportCancelled(u)
  BY <1>6 DEF TypeOK, ExportCancelled, Move
<1>7. CASE EndSend(u)
  <2>1. remote' \in [Host -> [Path -> Content]]
    BY <1>2, <1>3, <1>7 DEF EndSend
  <2> QED
    BY <1>7, <2>1 DEF TypeOK, EndSend, Move
<1>8. CASE Load(u)
  BY <1>8 DEF TypeOK, Load, Move
<1>9. CASE RemoveArchive(u)
  BY <1>2, <1>3, <1>9 DEF TypeOK, RemoveArchive, Move
<1>10. CASE XferFails(u)
  BY <1>10 DEF TypeOK, XferFails, Move
<1> QED
  BY <1>4, <1>5, <1>6, <1>7, <1>8, <1>9, <1>10 DEF PairTask

(* Every step keeps the types.                                             *)
LEMMA TypeStep == ASSUME TypeOK, [Next]_vars PROVE TypeOK'
<1>1. CASE \E i \in Images : CheckLocal(i)
  BY <1>1 DEF TypeOK, CheckLocal
<1>2. CASE \E h \in Host : MakeDir(h)
  BY <1>2 DEF TypeOK, MakeDir
<1>3. CASE UNCHANGED vars
  BY <1>3 DEF TypeOK, vars
<1> QED
  BY <1>1, <1>2, <1>3, MainTypes, ExportTypes, PairTypes DEF Next, Failure

(* Every variable keeps its type; in particular what an archive, a send or *)
(* a load is given is always an image with a version, or rubbish.          *)
THEOREM Types == Spec => []TypeOK
<1> QED
  BY TypeInit, TypeStep, PTL DEF Spec

-----------------------------------------------------------------------------
(* The local archives.                                                     *)

(* No task of the pipeline exists before its phase; an archive lies here   *)
(* only during that phase, under the path of an image that some host       *)
(* lacks, or because its removal failed; after it every task has ended.    *)
NotYet ==
  main \notin {"drain", "ok", "failed"} =>
    /\ \A i \in Image : exported[i] = "none"
    /\ \A u \in Uses : xfer[u] = "none"

FilesInv ==
  \A a \in Path : file[a] # NoFile =>
    \/ main = "drain" /\ \E i \in Planned : Archive[i] = a
    \/ main \in {"ok", "failed"} /\ <<"unlink", a>> \in blamed

ExportsInv ==
  /\ \A i \in Image : exported[i] # "none" => i \in Planned
  /\ main \in {"ok", "failed"} => TasksEnded

LocalInv == TypeOK /\ NotYet /\ FilesInv /\ ExportsInv

(* At first there are no tasks and no archives.                            *)
LEMMA LocalInit == ASSUME Init PROVE LocalInv
BY TypeInit DEF Init, LocalInv, NotYet, FilesInv, ExportsInv

(* The pipeline starts from there, and its end removes every archive.      *)
LEMMA MainLocal ==
  ASSUME LocalInv, Main \/ PullFails PROVE LocalInv'
<1>1. TypeOK'
  BY MainTypes DEF LocalInv
<1>2. CASE Pull
  BY <1>1, <1>2 DEF Pull, LocalInv, NotYet, FilesInv, ExportsInv, TasksEnded,
                    Planned, Missing
<1>3. CASE PullFails
  BY <1>1, <1>3 DEF PullFails, LocalInv, NotYet, FilesInv, ExportsInv,
                    TasksEnded, Planned, Missing
<1>4. CASE Pulled
  BY <1>1, <1>4 DEF Pulled, LocalInv, NotYet, FilesInv, ExportsInv, TasksEnded,
                    Planned, Missing
<1>5. CASE LocalsJoined
  BY <1>1, <1>5 DEF LocalsJoined, LocalInv, NotYet, FilesInv, ExportsInv,
                    TasksEnded, Planned, Missing
<1>6. CASE RemotesJoined
  BY <1>1, <1>6 DEF RemotesJoined, LocalInv, NotYet, FilesInv, ExportsInv,
                    TasksEnded, Planned, Missing
<1>7. CASE DirsJoined
  BY <1>1, <1>7 DEF DirsJoined, LocalInv, TypeOK, NotYet, FilesInv, ExportsInv,
                    TasksEnded, Planned, Missing
<1>8. CASE Drained
  <2>1. main = "drain" /\ TasksEnded /\ main' \in {"ok", "failed"}
    BY <1>8 DEF Drained
  <2>2. PICK kept \in SUBSET {Archive[i] : i \in Planned} :
          /\ blamed' = blamed \cup {<<"unlink", a>> : a \in kept}
          /\ file' = [a \in Path |->
                        IF a \in {Archive[i] : i \in Planned} \ kept THEN NoFile
                        ELSE file[a]]
    BY <1>8 DEF Drained
  <2>3. FilesInv'
    <3> SUFFICES ASSUME NEW a \in Path, file'[a] # NoFile
                 PROVE  <<"unlink", a>> \in blamed'
      BY <2>1 DEF FilesInv
    <3>1. file[a] # NoFile /\ a \notin {Archive[i] : i \in Planned} \ kept
      BY <2>2
    <3>2. a \in {Archive[i] : i \in Planned}
      BY <2>1, <3>1 DEF LocalInv, FilesInv
    <3>3. a \in kept
      BY <3>1, <3>2
    <3> QED
      BY <2>2, <3>3
  <2>4. NotYet' /\ ExportsInv'
    BY <1>8, <2>1 DEF Drained, LocalInv, NotYet, ExportsInv, TasksEnded,
                      Planned, Missing
  <2> QED
    BY <1>1, <2>3, <2>4 DEF LocalInv
<1> QED
  BY <1>2, <1>3, <1>4, <1>5, <1>6, <1>7, <1>8 DEF Main

(* Only the export of an image that some host lacks writes an archive.     *)
LEMMA ExportLocal ==
  ASSUME LocalInv, NEW i \in Image,
         ImageTask(i) \/ SaveFails(i) \/ ExportFails(i)
  PROVE  LocalInv'
<1>1. TypeOK'
  BY ExportTypes DEF LocalInv
<1>2. main = "drain" /\ i \in Planned
  BY DEF LocalInv, TypeOK, NotYet, ExportsInv, TasksEnded, ImageTask,
         BeginExport, EndExport, SaveFails, ExportFails
<1>3. /\ UNCHANGED <<main, found, xfer>>
      /\ \A j \in Image \ {i} : exported'[j] = exported[j]
      /\ \A a \in Path : a # Archive[i] => file'[a] = file[a]
      /\ blamed \subseteq blamed'
  BY DEF LocalInv, Fault, TypeOK, ImageTask, BeginExport, EndExport, SaveFails,
         ExportFails
<1> QED
  BY <1>1, <1>2, <1>3 DEF LocalInv, NotYet, FilesInv, ExportsInv, Planned,
                          Missing

(* The tasks of a pair leave the local archives alone.                     *)
LEMMA PairLocal ==
  ASSUME LocalInv, NEW u \in Uses, PairTask(u) \/ XferFails(u)
  PROVE  LocalInv'
<1>1. TypeOK'
  BY PairTypes DEF LocalInv
<1>2. CASE CheckRemote(u)
  <2>1. main = "remote" /\ UNCHANGED <<main, exported, xfer, file>>
    BY <1>2 DEF CheckRemote
  <2> QED
    BY <1>1, <2>1 DEF LocalInv, TypeOK, NotYet, FilesInv, ExportsInv
<1>3. CASE ~CheckRemote(u)
  <2>1. UNCHANGED <<main, exported, file, found>> /\ blamed \subseteq blamed'
    BY <1>3 DEF PairTask, BeginSend, ExportCancelled, EndSend, Load,
                RemoveArchive, XferFails, Fault
  <2>2. xfer[u] \in {"waiting", "sending", "loading", "removing"}
    BY <1>3 DEF PairTask, BeginSend, ExportCancelled, EndSend, Load,
                RemoveArchive, XferFails, Move
  <2>3. main = "drain"
    BY <2>2 DEF LocalInv, TypeOK, NotYet, ExportsInv, TasksEnded
  <2> QED
    BY <1>1, <2>1, <2>3 DEF LocalInv, NotYet, FilesInv, ExportsInv, Planned,
                            Missing
<1> QED
  BY <1>2, <1>3

(* Every step keeps it.                                                    *)
LEMMA LocalStep == ASSUME LocalInv, [Next]_vars PROVE LocalInv'
<1>1. TypeOK'
  BY TypeStep DEF LocalInv
<1>2. ASSUME UNCHANGED <<main, exported, xfer, file, found>>,
             blamed \subseteq blamed'
      PROVE  LocalInv'
  BY <1>1, <1>2 DEF LocalInv, NotYet, FilesInv, ExportsInv, TasksEnded, Planned,
                    Missing
<1>3. CASE \E i \in Images : CheckLocal(i)
  BY <1>2, <1>3 DEF CheckLocal, Fault
<1>4. CASE \E h \in Host : MakeDir(h)
  BY <1>2, <1>4 DEF MakeDir, Fault
<1>5. CASE UNCHANGED vars
  BY <1>2, <1>5 DEF vars
<1> QED
  BY <1>3, <1>4, <1>5, MainLocal, ExportLocal, PairLocal DEF Next, Failure

(* When the distribution is over, however it ended, no task runs and no    *)
(* archive is left on this machine but one whose removal failed, even      *)
(* where two images share a path.                                          *)
THEOREM NothingLeftHere == Spec => []LocalClean
<1>1. LocalInv => LocalClean
  BY DEF LocalInv, FilesInv, ExportsInv, LocalClean
<1> QED
  BY <1>1, LocalInit, LocalStep, PTL DEF Spec

-----------------------------------------------------------------------------
(* The distribution.                                                       *)

(* What each check leaves for the phases after it.                         *)
PhaseInv ==
  /\ main = "pull" => \A i \in Images : checked[i] = "pending"
  /\ main = "local" => \A i \in Images : checked[i] = "ok" => local[i] # 0
  /\ main \in {"remote", "dirs", "drain"} => \A i \in Images : local[i] # 0
  /\ main \in {"pull", "local"} => \A u \in Uses : found[u] = "pending"
  /\ main \in {"dirs", "drain"} =>
       \A u \in Uses : found[u] \in {"present", "missing"}

(* A step failed whose failure the program does not ignore.                *)
Struck == \E b \in blamed : b[1] \notin {"inspect", "unlink"}

(* Where it shows, so that the phase it happens in cannot end well: in the *)
(* results that are joined, or, when only docker save failed, in an        *)
(* archive that no host will load.                                         *)
BlameInv ==
  Struck =>
    /\ main \notin {"pull", "ok"}
    /\ main = "local" => \E i \in Images : checked[i] = "failed"
    /\ main = "remote" => \E u \in Uses : found[u] = "failed"
    /\ main = "dirs" => \E h \in Host : dir[h] = "failed"
    /\ main = "drain" =>
         \/ Failed
         \/ \E i \in Planned :
              exported[i] = "done" /\ file[Archive[i]] = Garbage

(* The archive of image i while and after it is written.                   *)
Whole(i) == <<i, local[i]>>

ImageInv(i) ==
  /\ exported[i] = "writing" => file[Archive[i]] = <<i, 0>>
  /\ exported[i] = "done" /\ main = "drain" =>
       \/ file[Archive[i]] = Whole(i)
       \/ <<"save", i>> \in blamed /\ file[Archive[i]] = Garbage
  /\ exported[i] = "failed" => <<"export", i>> \in blamed

(* A pair: its tasks run when its host lacks the image, what they read is  *)
(* what the export left, and what the host has is what they say.           *)
Copy(u) == remote[u[2]][Archive[u[1]]]

Ran == \E u \in Uses : xfer[u] # "none"

PairInv(u) ==
  /\ found[u] = "present" => has[u] = local[u[1]]
  /\ main = "drain" \/ Ran =>
       /\ found[u] \in {"present", "missing"}
       /\ xfer[u] # "none" <=> found[u] = "missing"
  /\ xfer[u] \notin {"none", "waiting", "failed"} => exported[u[1]] = "done"
  /\ xfer[u] \in {"none", "waiting", "done"} => Copy(u) = NoFile
  /\ xfer[u] = "sending" => opened[u] = file[Archive[u[1]]]
  /\ xfer[u] = "loading" => Copy(u) = file[Archive[u[1]]]
  /\ xfer[u] \in {"removing", "done"} =>
       /\ has[u] = local[u[1]]
       /\ main = "drain" => file[Archive[u[1]]] = Whole(u[1])
  /\ xfer[u] = "failed" =>
       blamed \cap {<<"xfer", u>>, <<"save", u[1]>>, <<"export", u[1]>>} # {}

OkInv == main = "ok" => \A u \in Uses : has[u] = local[u[1]]

PairsInv == (\A i \in Image : ImageInv(i)) /\ (\A u \in Uses : PairInv(u))

DistInv == LocalInv /\ PhaseInv /\ BlameInv /\ OkInv /\ PairsInv

(* At first nothing has been checked.                                      *)
LEMMA DistInit == ASSUME Init PROVE DistInv
<1>1. LocalInv
  BY LocalInit
<1>2. \A u \in Uses : Copy(u) = NoFile
  BY PairShape DEF Init, Copy
<1> QED
  BY <1>1, <1>2 DEF Init, DistInv, PhaseInv, BlameInv, Struck, OkInv, PairsInv,
                    ImageInv, PairInv, Ran

(* While there is no pipeline, images and pairs depend on the checks and   *)
(* the versions only.                                                      *)
LEMMA IdlePairs ==
  ASSUME DistInv, LocalInv', UNCHANGED <<file, remote, exported, xfer, opened>>,
         main \notin {"drain", "ok", "failed"}, main' # "drain",
         \A u \in Uses : found[u]' = "present" => has[u]' = local[u[1]]'
  PROVE  PairsInv'
<1>1. /\ \A i \in Image : exported[i] = "none"
      /\ \A u \in Uses : xfer[u] = "none"
  BY DEF DistInv, LocalInv, NotYet
<1>2. \A u \in Uses : Copy(u)' = Copy(u) /\ Copy(u) = NoFile
  BY <1>1 DEF Copy, DistInv, PairsInv, PairInv
<1> QED
  BY <1>1, <1>2 DEF PairsInv, ImageInv, PairInv, Ran

(* A step of the main task before the pipeline keeps the invariant, ...    *)
LEMMA PullDist == ASSUME DistInv, Pull \/ PullFails \/ Pulled PROVE DistInv'
<1>1. LocalInv'
  BY MainLocal DEF DistInv, Main
<1>2. main = "pull" /\ \A u \in Uses : found[u] = "pending"
  BY DEF DistInv, PhaseInv, Pull, PullFails, Pulled
<1>3. UNCHANGED <<file, remote, exported, xfer, opened, found, checked>>
  BY DEF Pull, PullFails, Pulled
<1>4. PairsInv'
  BY <1>1, <1>2, <1>3, IdlePairs DEF Pull, PullFails, Pulled
<1>5. main' \in {"pull", "local", "failed"} \/ Uses = {}
  BY <1>2 DEF Pull, PullFails, Pulled
<1>6. PhaseInv' /\ OkInv'
  BY <1>2, <1>3, <1>5 DEF DistInv, PhaseInv, OkInv, Images, Pull, PullFails,
                          Pulled
<1>7. BlameInv'
  BY <1>2 DEF DistInv, BlameInv, Struck, Pull, PullFails, Pulled
<1> QED
  BY <1>1, <1>4, <1>6, <1>7 DEF DistInv

(* ... so does a local check and the joining of these, ...                 *)
LEMMA LocalCheckDist ==
  ASSUME DistInv, LocalsJoined \/ \E i \in Images : CheckLocal(i)
  PROVE  DistInv'
<1>1. LocalInv'
  BY LocalStep DEF DistInv, Next, Main
<1>2. main = "local" /\ \A u \in Uses : found[u] = "pending"
  BY DEF DistInv, PhaseInv, LocalsJoined, CheckLocal
<1>3. UNCHANGED <<file, remote, exported, xfer, opened, found, has, local>>
  BY DEF LocalsJoined, CheckLocal
<1>4. PairsInv'
  BY <1>1, <1>2, <1>3, IdlePairs DEF LocalsJoined, CheckLocal
<1>5. PhaseInv' /\ OkInv' /\ BlameInv'
  <2>1. CASE LocalsJoined
    BY <1>2, <2>1 DEF DistInv, PhaseInv, OkInv, BlameInv, Struck, LocalsJoined
  <2>2. ASSUME NEW i \in Images, CheckLocal(i)
        PROVE  PhaseInv' /\ OkInv' /\ BlameInv'
    <3>1. checked \in [Images -> {"pending", "ok", "failed"}]
      BY DEF DistInv, LocalInv, TypeOK
    <3>2. UNCHANGED <<main, local, found>>
      BY <2>2 DEF CheckLocal
    <3>3. PhaseInv' /\ OkInv'
      BY <1>2, <2>2, <3>1, <3>2 DEF DistInv, PhaseInv, OkInv, CheckLocal
    <3>4. BlameInv'
      <4>1. checked'[i] = "failed" \/ (Struck' <=> Struck)
        BY <2>2, <3>1 DEF CheckLocal, Struck
      <4>2. checked[i] = "pending"
        BY <2>2 DEF CheckLocal
      <4>3. \A j \in Images \ {i} : checked'[j] = checked[j]
        BY <2>2, <3>1 DEF CheckLocal
      <4> QED
        BY <1>2, <3>2, <4>1, <4>2, <4>3 DEF DistInv, BlameInv
    <3> QED
      BY <3>3, <3>4
  <2> QED
    BY <2>1, <2>2
<1> QED
  BY <1>1, <1>4, <1>5 DEF DistInv

(* ... a remote check and the joining of these, ...                        *)
LEMMA RemoteCheckDist ==
  ASSUME DistInv, RemotesJoined \/ \E u \in Uses : CheckRemote(u)
  PROVE  DistInv'
<1>1. LocalInv'
  BY LocalStep DEF DistInv, Next, Main, PairTask
<1>2. main = "remote" /\ \A i \in Images : local[i] # 0
  BY DEF DistInv, PhaseInv, RemotesJoined, CheckRemote
<1>3. UNCHANGED <<file, remote, exported, xfer, opened, has, local>>
  BY DEF RemotesJoined, CheckRemote
<1>4. found \in [Uses -> {"pending", "present", "missing", "failed"}]
  BY DEF DistInv, LocalInv, TypeOK
<1>5. \A u \in Uses : found[u]' = "present" => has[u]' = local[u[1]]'
  BY <1>4 DEF DistInv, PairsInv, PairInv, RemotesJoined, CheckRemote
<1>6. PairsInv'
  BY <1>1, <1>2, <1>3, <1>5, IdlePairs DEF RemotesJoined, CheckRemote
<1>7. CASE RemotesJoined
  <2>1. PhaseInv' /\ OkInv'
    BY <1>2, <1>4, <1>7 DEF DistInv, PhaseInv, OkInv, RemotesJoined
  <2>2. BlameInv'
    BY <1>2, <1>7 DEF DistInv, BlameInv, Struck, RemotesJoined
  <2> QED
    BY <1>1, <1>6, <2>1, <2>2 DEF DistInv
<1>8. ASSUME NEW u \in Uses, CheckRemote(u) PROVE DistInv'
  <2>1. PhaseInv' /\ OkInv'
    BY <1>2, <1>8 DEF PhaseInv, OkInv, CheckRemote
  <2>2. BlameInv'
    <3>1. found'[u] = "failed" \/ (Struck' <=> Struck)
      <4>1. CASE blamed' = blamed
        BY <4>1 DEF Struck
      <4>2. CASE Fault("inspect", u)
        BY <4>2 DEF Fault, Struck
      <4>3. CASE found' = [found EXCEPT ![u] = "failed"]
        BY <1>4, <4>3
      <4> QED
        BY <1>8, <4>1, <4>2, <4>3 DEF CheckRemote
    <3>2. found[u] = "pending" /\ main' = main
      BY <1>8 DEF CheckRemote
    <3>3. \A w \in Uses \ {u} : found'[w] = found[w]
      BY <1>4, <1>8 DEF CheckRemote
    <3> QED
      BY <1>2, <3>1, <3>2, <3>3 DEF DistInv, BlameInv
  <2> QED
    BY <1>1, <1>6, <2>1, <2>2 DEF DistInv
<1> QED
  BY <1>7, <1>8

(* ... the making of a directory, ...                                      *)
LEMMA MakeDirDist ==
  ASSUME DistInv, NEW h \in Host, MakeDir(h) PROVE DistInv'
<1>1. LocalInv'
  BY LocalStep DEF DistInv, Next
<1>2. main = "dirs" /\ dir \in [Host -> {"pending", "ok", "failed"}]
  BY DEF DistInv, LocalInv, TypeOK, MakeDir
<1>3. UNCHANGED <<main, file, remote, exported, xfer, opened, has, local,
                  found>>
  BY DEF MakeDir
<1>4. PairsInv'
  BY <1>1, <1>2, <1>3, IdlePairs DEF DistInv, PairsInv, PairInv
<1>5. PhaseInv' /\ OkInv'
  BY <1>2, <1>3 DEF DistInv, PhaseInv, OkInv
<1>6. BlameInv'
  <2>1. dir'[h] = "failed" \/ (Struck' <=> Struck)
    BY <1>2 DEF MakeDir, Struck
  <2>2. dir[h] = "pending" /\ \A g \in Host \ {h} : dir'[g] = dir[g]
    BY <1>2 DEF MakeDir
  <2> QED
    BY <1>2, <1>3, <2>1, <2>2 DEF DistInv, BlameInv
<1> QED
  BY <1>1, <1>4, <1>5, <1>6 DEF DistInv

(* ... the spawning of the pipeline, ...                                   *)
LEMMA DirsJoinedDist == ASSUME DistInv, DirsJoined PROVE DistInv'
<1>1. LocalInv'
  BY MainLocal DEF DistInv, Main
<1>2. /\ main = "dirs" /\ main' \in {"failed", "ok", "drain"}
      /\ \A u \in Uses : found[u] \in {"present", "missing"}
  BY DEF DistInv, PhaseInv, DirsJoined
<1>3. UNCHANGED <<file, remote, opened, has, local, found, blamed, dir>>
  BY DEF DirsJoined
<1>4. main' \in {"ok", "drain"} => ~ Struck
  BY <1>2 DEF DistInv, BlameInv, DirsJoined
<1>5. \A u \in Uses : found[u] = "present" => has[u] = local[u[1]]
  BY DEF DistInv, PairsInv, PairInv
<1>6. main' = "ok" => \A u \in Uses : found[u] = "present"
  BY <1>2 DEF DirsJoined, Missing
<1>7. PhaseInv' /\ OkInv'
  BY <1>2, <1>3, <1>5, <1>6 DEF DistInv, PhaseInv, OkInv
<1>8. BlameInv'
  BY <1>2, <1>3, <1>4 DEF BlameInv, Struck
<1>9. PairsInv'
  <2>1. CASE main' # "drain"
    BY <1>1, <1>2, <1>3, <1>5, <2>1, IdlePairs DEF DirsJoined
  <2>2. CASE main' = "drain"
    <3>1. \A i \in Image : exported'[i] \in {"none", "spawned"}
      BY <2>2 DEF DirsJoined
    <3>2. \A u \in Uses :
            xfer'[u] = IF found[u] = "missing" THEN "waiting" ELSE "none"
      BY <2>2 DEF DirsJoined, Missing
    <3>3. \A u \in Uses : Copy(u)' = Copy(u) /\ Copy(u) = NoFile
      BY <1>2, <1>3 DEF Copy, DistInv, LocalInv, NotYet, PairsInv, PairInv
    <3> QED
      BY <1>2, <1>3, <1>5, <3>1, <3>2, <3>3 DEF PairsInv, ImageInv, PairInv, Ran
  <2> QED
    BY <2>1, <2>2
<1> QED
  BY <1>1, <1>7, <1>8, <1>9 DEF DistInv

(* ... and its end.                                                        *)
LEMMA DrainedDist == ASSUME DistInv, Drained PROVE DistInv'
<1>1. LocalInv'
  BY MainLocal DEF DistInv, Main
<1>2. main = "drain" /\ TasksEnded /\ main' \in {"ok", "failed"}
  BY DEF Drained
<1>3. /\ UNCHANGED <<local, has, remote, found, dir, exported, xfer, opened>>
      /\ blamed \subseteq blamed' /\ (Struck' <=> Struck)
  <2>1. PICK kept : blamed' = blamed \cup {<<"unlink", a>> : a \in kept}
    BY DEF Drained
  <2>2. UNCHANGED <<local, has, remote, found, dir, exported, xfer, opened>>
    BY DEF Drained
  <2> QED
    BY <2>1, <2>2 DEF Struck
<1>4. PhaseInv'
  BY <1>2 DEF PhaseInv
<1>5. \A u \in Uses : Copy(u)' = Copy(u) /\ Whole(u[1])' = Whole(u[1])
  BY <1>3 DEF Copy, Whole
<1>6. PairsInv'
  BY <1>2, <1>3, <1>5 DEF DistInv, PairsInv, ImageInv, PairInv, Ran, TasksEnded
<1>7. CASE main' = "failed"
  BY <1>1, <1>4, <1>6, <1>7 DEF DistInv, BlameInv, OkInv
<1>8. CASE main' = "ok"
  <2>1. ~ Failed
    BY <1>8 DEF Drained
  <2>2. \A u \in Uses : found[u] = "missing" => xfer[u] = "done"
    BY <1>2, <2>1 DEF DistInv, PairsInv, PairInv, TasksEnded, Failed
  <2>3. \A u \in Uses : has[u] = local[u[1]]
    BY <1>2, <2>2 DEF DistInv, PairsInv, PairInv
  <2>4. \A i \in Planned : exported[i] = "done" => file[Archive[i]] # Garbage
    <3> SUFFICES ASSUME NEW u \in Uses, found[u] = "missing",
                        exported[u[1]] = "done"
                 PROVE  file[Archive[u[1]]] # Garbage
      BY DEF Planned, Missing
    <3>1. file[Archive[u[1]]] = Whole(u[1])
      BY <1>2, <2>2 DEF DistInv, PairsInv, PairInv
    <3>2. Whole(u[1]) \in Image \X Nat
      BY PairShape DEF Whole, DistInv, LocalInv, TypeOK
    <3> QED
      BY <3>1, <3>2, DistributionAssumption
  <2>5. ~ Struck
    BY <1>2, <2>1, <2>4 DEF DistInv, BlameInv
  <2> QED
    BY <1>1, <1>3, <1>4, <1>6, <1>8, <2>3, <2>5 DEF DistInv, BlameInv, OkInv
<1> QED
  BY <1>2, <1>7, <1>8

(* With archives of their own, an export task moves the archive of its     *)
(* image only, and no pair of the image has opened it yet, ...             *)
LEMMA ExportDist ==
  ASSUME Apart, DistInv, NEW i \in Image,
         ImageTask(i) \/ SaveFails(i) \/ ExportFails(i)
  PROVE  DistInv'
<1>1. LocalInv'
  BY ExportLocal DEF DistInv
<1>2. /\ exported[i] \in {"spawned", "writing"} /\ main = "drain"
      /\ i \in Planned
  BY DEF DistInv, LocalInv, NotYet, ExportsInv, TasksEnded, ImageTask,
         BeginExport, EndExport, SaveFails, ExportFails
<1>3. /\ UNCHANGED <<main, local, has, remote, checked, found, dir, xfer,
                     opened>>
      /\ blamed \subseteq blamed'
  BY DEF ImageTask, BeginExport, EndExport, SaveFails, ExportFails, Fault
<1>4. /\ exported \in [Image -> {"none", "spawned", "writing", "done",
                                  "failed"}]
      /\ file \in [Path -> Content] /\ Archive[i] \in Path
  BY DEF DistInv, LocalInv, TypeOK, Path
<1>5. \A j \in Image \ {i} :
        exported'[j] = exported[j] /\ file'[Archive[j]] = file[Archive[j]]
  <2>1. \A j \in Image \ {i} : Archive[j] \in Path /\ Archive[j] # Archive[i]
    BY DEF Apart, Path
  <2> QED
    BY <1>4, <2>1 DEF ImageTask, BeginExport, EndExport, SaveFails, ExportFails
<1>6. PhaseInv' /\ OkInv'
  BY <1>2, <1>3 DEF DistInv, PhaseInv, OkInv
<1>7. ImageInv(i)'
  <2>1. CASE BeginExport(i)
    <3>1. ~ Writing(Archive[i])
      BY <2>1 DEF Writing, Apart, BeginExport
    <3> QED
      BY <1>4, <2>1, <3>1 DEF BeginExport, ImageInv
  <2>2. CASE EndExport(i)
    <3>1. file[Archive[i]] = <<i, 0>>
      BY <2>2 DEF DistInv, PairsInv, ImageInv, EndExport
    <3>2. file'[Archive[i]] = <<i, local[i]>> /\ exported'[i] = "done"
      BY <1>4, <2>2, <3>1 DEF EndExport
    <3>3. Whole(i)' = <<i, local[i]>>
      BY <1>3 DEF Whole
    <3> QED
      BY <3>2, <3>3 DEF ImageInv
  <2>3. CASE SaveFails(i)
    BY <1>4, <2>3 DEF SaveFails, Fault, ImageInv
  <2>4. CASE ExportFails(i)
    BY <1>4, <2>4 DEF ExportFails, Fault, ImageInv
  <2> QED
    BY <2>1, <2>2, <2>3, <2>4 DEF ImageTask
<1>8. \A j \in Image \ {i} : ImageInv(j)'
  BY <1>3, <1>5 DEF DistInv, PairsInv, ImageInv, Whole
<1>9. ASSUME NEW u \in Uses PROVE PairInv(u)'
  <2>1. Copy(u)' = Copy(u) /\ (Ran' <=> Ran) /\ Whole(u[1])' = Whole(u[1])
    BY <1>3 DEF Copy, Ran, Whole
  <2>2. PairInv(u) /\ u[1] \in Image
    BY PairShape DEF DistInv, PairsInv
  <2>3. CASE u[1] # i
    BY <1>3, <1>5, <2>1, <2>2, <2>3 DEF PairInv
  <2>4. CASE u[1] = i
    <3>1. xfer[u] \in {"none", "waiting", "failed"}
      BY <1>2, <2>2, <2>4 DEF PairInv
    <3> QED
      BY <1>3, <2>1, <2>2, <3>1 DEF PairInv
  <2> QED
    BY <2>3, <2>4
<1>10. BlameInv'
  <2> DEFINE Spoilt(j) == exported[j] = "done" /\ file[Archive[j]] = Garbage
  <2>1. \A j \in Image : Spoilt(j) => Spoilt(j)'
    BY <1>2, <1>5
  <2>2. Planned' = Planned /\ Planned \subseteq Image
    BY <1>3, PairShape DEF Planned, Missing
  <2>3. Failed => Failed'
    BY <1>2, <1>3, <1>5 DEF Failed
  <2>4. ~ Struck \/ Failed \/ \E j \in Planned : Spoilt(j)
    BY <1>2 DEF DistInv, BlameInv
  <2>5. CASE ~ Struck /\ ~ Struck'
    BY <2>5 DEF BlameInv
  <2>6. CASE Failed \/ \E j \in Planned : Spoilt(j)
    BY <1>2, <1>3, <2>1, <2>2, <2>3, <2>6 DEF BlameInv
  <2>7. CASE SaveFails(i)
    <3>1. Spoilt(i)'
      BY <1>4, <2>7 DEF SaveFails
    <3> QED
      BY <1>2, <1>3, <2>2, <3>1 DEF BlameInv
  <2>8. CASE ExportFails(i)
    <3>1. Failed'
      BY <1>4, <2>8 DEF ExportFails, Failed
    <3> QED
      BY <1>2, <1>3, <3>1 DEF BlameInv
  <2>9. ImageTask(i) => (Struck' <=> Struck)
    BY DEF ImageTask, BeginExport, EndExport, Struck
  <2> QED
    BY <2>4, <2>5, <2>6, <2>7, <2>8, <2>9
<1> QED
  BY <1>1, <1>6, <1>7, <1>8, <1>9, <1>10 DEF DistInv, PairsInv

(* ... and the tasks of a pair move the copy and the image of that pair.   *)
LEMMA PairDist ==
  ASSUME Apart, DistInv, NEW u \in Uses, ~ CheckRemote(u),
         PairTask(u) \/ XferFails(u)
  PROVE  DistInv'
<1> DEFINE a == Archive[u[1]]
<1>1. LocalInv'
  BY PairLocal DEF DistInv
<1>2. /\ xfer[u] \in {"waiting", "sending", "loading", "removing"}
      /\ UNCHANGED <<main, local, file, checked, found, dir, exported>>
      /\ blamed \subseteq blamed'
  BY DEF PairTask, BeginSend, ExportCancelled, EndSend, Load, RemoveArchive,
         XferFails, Move, Fault
<1>3. main = "drain"
  BY <1>2 DEF DistInv, LocalInv, NotYet, ExportsInv, TasksEnded
<1>4. u[1] \in Image /\ u[2] \in Host /\ a \in Path /\ u[1] \in Images
  BY PairShape
<1>5. /\ xfer \in [Uses -> {"none", "waiting", "sending", "loading", "removing",
                            "done", "failed"}]
      /\ remote \in [Host -> [Path -> Content]] /\ opened \in [Uses -> Content]
      /\ has \in [Uses -> Nat] /\ local \in [Image -> Nat]
  BY DEF DistInv, LocalInv, TypeOK
<1>6. PairInv(u) /\ ImageInv(u[1])
  BY <1>4 DEF DistInv, PairsInv
<1>7. exported[u[1]] = "done" =>
        \/ file[a] = Whole(u[1])
        \/ <<"save", u[1]>> \in blamed /\ file[a] = Garbage
  BY <1>3, <1>6 DEF ImageInv
<1>8. /\ Whole(u[1]) \in Image \X (Nat \ {0}) /\ Garbage \notin Image \X Nat
      /\ Whole(u[1])[1] = u[1] /\ Whole(u[1])[2] = local[u[1]]
  <2>1. local[u[1]] # 0
    BY <1>3, <1>4 DEF DistInv, PhaseInv
  <2> QED
    BY <1>4, <1>5, <2>1, DistributionAssumption DEF Whole
<1>9. ASSUME Load(u)
      PROVE  IF file[a] = Whole(u[1])
             THEN xfer' = [xfer EXCEPT ![u] = "removing"]
                  /\ has' = [has EXCEPT ![u] = local[u[1]]]
             ELSE /\ xfer' = [xfer EXCEPT ![u] = "failed"] /\ has' = has
                  /\ <<"save", u[1]>> \in blamed
  <2>1. Copy(u) = file[a] /\ exported[u[1]] = "done"
    BY <1>6, <1>9 DEF PairInv, Load
  <2>2. CASE file[a] = Whole(u[1])
    <3>1. <<u[1], u[2]>> = u
      BY PairShape
    <3>2. /\ xfer' = [xfer EXCEPT ![u] = "removing"]
          /\ has' = [w \in Uses |-> IF w = <<u[1], u[2]>> THEN local[u[1]]
                                    ELSE has[w]]
      BY <1>8, <1>9, <2>1, <2>2 DEF Load, Move, Copy
    <3> QED
      BY <1>5, <2>2, <3>1, <3>2
  <2>3. CASE file[a] # Whole(u[1])
    <3>1. file[a] = Garbage /\ <<"save", u[1]>> \in blamed
      BY <1>7, <2>1, <2>3
    <3>2. Copy(u) \notin Image \X (Nat \ {0})
      BY <1>8, <2>1, <3>1
    <3> QED
      BY <1>9, <2>3, <3>1, <3>2 DEF Load, Move, Copy
  <2> QED
    BY <2>2, <2>3
<1>10. ASSUME NEW w \in Uses \ {u}
       PROVE  /\ xfer'[w] = xfer[w] /\ opened'[w] = opened[w]
              /\ has'[w] = has[w] /\ Copy(w)' = Copy(w)
  <2>1. w[2] # u[2] \/ Archive[w[1]] # a
    BY <1>4, PairShape DEF Apart
  <2>2. w[2] \in Host /\ Archive[w[1]] \in Path
    BY PairShape
  <2>3. Copy(w)' = Copy(w)
    BY <1>4, <1>5, <2>1, <2>2 DEF Copy, PairTask, BeginSend, ExportCancelled,
                                  EndSend, Load, RemoveArchive, XferFails
  <2>4. has'[w] = has[w]
    <3>1. CASE Load(u)
      BY <1>5, <1>9, <3>1
    <3>2. CASE ~ Load(u)
      BY <3>2 DEF PairTask, BeginSend, ExportCancelled, EndSend,
                  RemoveArchive, XferFails
    <3> QED
      BY <3>1, <3>2
  <2>5. xfer'[w] = xfer[w] /\ opened'[w] = opened[w]
    BY <1>5 DEF PairTask, BeginSend, ExportCancelled, EndSend, Load,
                RemoveArchive, XferFails, Move
  <2> QED
    BY <2>3, <2>4, <2>5
<1>11. PhaseInv' /\ OkInv'
  BY <1>2, <1>3 DEF DistInv, PhaseInv, OkInv
<1>12. \A i \in Image : ImageInv(i)'
  BY <1>2 DEF DistInv, PairsInv, ImageInv, Whole
<1>13. Ran /\ xfer'[u] # "none" /\ Ran'
  <2>1. xfer'[u] # "none"
    BY <1>2, <1>5 DEF PairTask, BeginSend, ExportCancelled, EndSend, Load,
                      RemoveArchive, XferFails, Move
  <2> QED
    BY <1>2, <2>1 DEF Ran
<1>14. \A w \in Uses \ {u} : PairInv(w)'
  BY <1>2, <1>3, <1>10 DEF DistInv, PairsInv, PairInv, Whole
<1>15. PairInv(u)'
  <2>1. UNCHANGED <<main, file, found, exported, local>> /\ xfer[u] # "none"
    BY <1>2
  <2>2. CASE BeginSend(u)
    BY <1>3, <1>5, <1>6, <2>1, <2>2 DEF BeginSend, Move, PairInv, Whole
  <2>3. CASE ExportCancelled(u)
    BY <1>3, <1>5, <1>6, <2>1, <2>3
       DEF ExportCancelled, Move, PairInv, ImageInv, Whole
  <2>4. CASE EndSend(u)
    <3>1. Copy(u)' = file[a]
      BY <1>4, <1>5, <1>6, <2>4 DEF EndSend, Move, PairInv, Copy
    <3> QED
      BY <1>3, <1>5, <1>6, <2>1, <2>4, <3>1 DEF EndSend, Move, PairInv, Whole
  <2>5. CASE Load(u)
    BY <1>3, <1>5, <1>6, <1>9, <2>1, <2>5 DEF Load, PairInv, Whole
  <2>6. CASE RemoveArchive(u)
    <3>1. Copy(u)' = NoFile
      BY <1>4, <1>5, <2>6 DEF RemoveArchive, Copy
    <3> QED
      BY <1>3, <1>5, <1>6, <2>1, <2>6, <3>1
         DEF RemoveArchive, Move, PairInv, Whole
  <2>7. CASE XferFails(u)
    BY <1>3, <1>5, <1>6, <2>1, <2>7 DEF XferFails, Move, Fault, PairInv, Whole
  <2> QED
    BY <2>2, <2>3, <2>4, <2>5, <2>6, <2>7 DEF PairTask
<1>16. BlameInv'
  <2>1. Failed => Failed'
    BY <1>2, <1>5, <1>10 DEF Failed
  <2>2. XferFails(u) => Failed'
    BY <1>5 DEF XferFails, Move, Failed
  <2>3. ~ XferFails(u) => (Struck' <=> Struck)
    BY DEF PairTask, BeginSend, ExportCancelled, EndSend, Load, RemoveArchive,
           Struck
  <2> QED
    BY <1>2, <1>3, <2>1, <2>2, <2>3 DEF DistInv, BlameInv, Planned, Missing
<1> QED
  BY <1>1, <1>11, <1>12, <1>14, <1>15, <1>16 DEF DistInv, PairsInv

(* Every step keeps the invariant.                                         *)
LEMMA DistStep == ASSUME Apart, DistInv, [Next]_vars PROVE DistInv'
<1>1. CASE UNCHANGED vars
  <2>1. PhaseInv' /\ OkInv'
    BY <1>1 DEF DistInv, PhaseInv, OkInv, vars
  <2>2. BlameInv'
    BY <1>1 DEF DistInv, BlameInv, Struck, Failed, Planned, Missing, vars
  <2>3. \A i \in Image : ImageInv(i)'
    BY <1>1 DEF DistInv, PairsInv, ImageInv, Whole, vars
  <2>4. \A u \in Uses : PairInv(u)'
    BY <1>1 DEF DistInv, PairsInv, PairInv, Ran, Copy, Whole, vars
  <2> QED
    BY <2>1, <2>2, <2>3, <2>4, LocalStep DEF DistInv, PairsInv
<1>2. CASE Main \/ PullFails
  BY <1>2, PullDist, LocalCheckDist, RemoteCheckDist, DirsJoinedDist,
     DrainedDist DEF Main
<1>3. CASE \E i \in Images : CheckLocal(i)
  BY <1>3, LocalCheckDist
<1>4. CASE \E h \in Host : MakeDir(h)
  BY <1>4, MakeDirDist
<1>5. CASE \E i \in Image : ImageTask(i) \/ SaveFails(i) \/ ExportFails(i)
  BY <1>5, ExportDist
<1>6. CASE \E u \in Uses : PairTask(u) \/ XferFails(u)
  BY <1>6, RemoteCheckDist, PairDist
<1> QED
  BY <1>1, <1>2, <1>3, <1>4, <1>5, <1>6 DEF Next, Failure

(* The invariant holds in every state.                                     *)
LEMMA Dist == ASSUME Apart PROVE Spec => []DistInv
<1>1. DistInv /\ [Next]_vars => DistInv'
  BY DistStep
<1> QED
  BY <1>1, DistInit, PTL DEF Spec

-----------------------------------------------------------------------------
(* The theorems.                                                           *)

(* tm goes on to the containers only when every host has, for every peer   *)
(* it will run, the very version of the image that is here.                *)
THEOREM HostsUpToDate == ASSUME Apart PROVE Spec => []Distributed
<1>1. DistInv => Distributed
  BY DEF DistInv, OkInv, Distributed
<1> QED
  BY <1>1, Dist, PTL

(* It goes on only when no step failed but those whose failure it ignores, *)
(* an inspect on a host and the removal of an archive here; a docker save  *)
(* that failed behind its pipe shows in the load of its archive.           *)
THEOREM NoFailureSwallowed == ASSUME Apart PROVE Spec => []NothingSwallowed
<1>1. DistInv => NothingSwallowed
  BY DEF DistInv, BlameInv, Struck, NothingSwallowed
<1> QED
  BY <1>1, Dist, PTL

(* A transfer reads, and an import loads, the complete archive of its own  *)
(* image, unless the docker save of that image failed behind its pipe.     *)
THEOREM ArchivesWhole == ASSUME Apart PROVE Spec => []ReadsComplete
<1>1. ASSUME DistInv, NEW u \in Uses, <<"save", u[1]>> \notin blamed,
             xfer[u] \in {"sending", "loading"}
      PROVE  file[Archive[u[1]]] = Whole(u[1])
  <2>1. main = "drain"
    BY <1>1 DEF DistInv, LocalInv, NotYet, ExportsInv, TasksEnded
  <2>2. exported[u[1]] = "done"
    BY <1>1 DEF DistInv, PairsInv, PairInv
  <2> QED
    BY <1>1, <2>1, <2>2, PairShape DEF DistInv, PairsInv, ImageInv
<1>2. DistInv => ReadsComplete
  BY <1>1 DEF DistInv, PairsInv, PairInv, ReadsComplete, Whole, Copy
<1> QED
  BY <1>2, Dist, PTL

(* After the pipeline, whatever failed elsewhere, a pair whose transfer    *)
(* and whose image's export were not hit is up to date, and its host is    *)
(* left without the archive.                                               *)
THEOREM FailuresStayApart == ASSUME Apart PROVE Spec => []Independent
<1>1. ASSUME DistInv, main \in {"ok", "failed"}, Ran, NEW u \in Uses,
             blamed \cap {<<"xfer", u>>, <<"save", u[1]>>,
                          <<"export", u[1]>>} = {}
      PROVE  has[u] = local[u[1]] /\ Copy(u) = NoFile
  <2>1. xfer[u] \in {"none", "done", "failed"}
    BY <1>1 DEF DistInv, LocalInv, ExportsInv, TasksEnded
  <2>2. xfer[u] # "failed" /\ found[u] \in {"present", "missing"}
    BY <1>1 DEF DistInv, PairsInv, PairInv
  <2> QED
    BY <1>1, <2>1, <2>2 DEF DistInv, PairsInv, PairInv
<1>2. DistInv => Independent
  BY <1>1 DEF Independent, Ran, Copy
<1> QED
  BY <1>2, Dist, PTL

=============================================================================
