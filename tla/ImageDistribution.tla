------------------------- MODULE ImageDistribution -------------------------
(***************************************************************************)
(* How the peers' Docker images reach the hosts (src/src/docker_mgr.rs):   *)
(* pull_images one after the other, then distribute_all_images, which      *)
(* checks every image locally, then every (image, host) pair, then makes   *)
(* a directory on every host, and at last runs one export task per image   *)
(* that some host lacks and one transfer-and-import task per such host.    *)
(* The tasks of each of these phases run in parallel.                      *)
(*                                                                         *)
(* An image is a name; its content is a version, 0 when it is absent.      *)
(* What lies in an archive is a pair <<image, version>>, or Garbage when   *)
(* it is not complete.                                                     *)
(*                                                                         *)
(* A definition Name_Change is a mutant of Name: a change that a bug could *)
(* make and that some property must notice.  No specification uses it.     *)
(***************************************************************************)
EXTENDS Naturals, Sequences, FiniteSets

CONSTANTS
  Image,       \* the image names
  Host,        \* the hosts of the config
  Uses,        \* the <<image, host>> pairs of the assignments
  Pulls,       \* the sequence "images" of the config
  Archive,     \* Archive[i]: the archive path of image i
  Version,     \* the versions a host or this machine may have at first
  Newest,      \* the version in the registry
  NoFile, Garbage,
  MaxFaults    \* bound: steps that fail

ASSUME DistributionAssumption ==
  /\ Uses \subseteq Image \X Host
  /\ Pulls \in Seq(Image)
  /\ DOMAIN Archive = Image
  /\ Version \subseteq Nat /\ Newest \in Nat \ {0}
  /\ NoFile \notin Image \X Nat /\ Garbage \notin Image \X Nat
  /\ NoFile # Garbage
  /\ MaxFaults \in Nat

VARIABLES
  main,        \* the phase of the main task
  pulled,      \* how many of Pulls are done
  local,       \* local[i]: the version here
  has,         \* has[u]: the version on its host, for u in Uses
  file,        \* file[a]: what lies under path a here
  remote,      \* remote[h][a]: and on host h
  checked,     \* checked[i]: the local check
  found,       \* found[u]: the remote check
  dir,         \* dir[h]: the directory
  exported,    \* exported[i]: the export task of image i
  xfer,        \* xfer[u]: the transfer task of pair u
  opened,      \* opened[u]: what its local archive held when opened
  blamed       \* history: <<step, where>> of every step that failed

vars == <<main, pulled, local, has, file, remote, checked, found, dir,
          exported, xfer, opened, blamed>>

Images == {u[1] : u \in Uses}                       \* image_hosts
Missing == {u \in Uses : found[u] = "missing"}      \* the plans' targets
Planned == {u[1] : u \in Missing}
Path == {Archive[i] : i \in Image}

Init ==
  /\ main = "pull" /\ pulled = 0
  /\ local \in [Image -> Version]
  /\ has \in [Uses -> Version]
  /\ file = [a \in Path |-> NoFile]
  /\ remote = [h \in Host |-> [a \in Path |-> NoFile]]
  /\ checked = [i \in Images |-> "pending"]
  /\ found = [u \in Uses |-> "pending"]
  /\ dir = [h \in Host |-> "pending"]
  /\ exported = [i \in Image |-> "none"]
  /\ xfer = [u \in Uses |-> "none"]
  /\ opened = [u \in Uses |-> NoFile]
  /\ blamed = {}

(* A step at x fails.                                                      *)
Fault(step, x) ==
  /\ Cardinality(blamed) < MaxFaults
  /\ blamed' = blamed \cup {<<step, x>>}

-----------------------------------------------------------------------------
(* pull_images, and the three checks before the pipeline.                  *)

Pull ==
  /\ main = "pull" /\ pulled < Len(Pulls)
  /\ pulled' = pulled + 1
  /\ local' = [local EXCEPT ![Pulls[pulled + 1]] = Newest]
  /\ UNCHANGED <<main, has, file, remote, checked, found, dir, exported, xfer,
                 opened, blamed>>

PullFails ==
  /\ main = "pull" /\ pulled < Len(Pulls)
  /\ Fault("pull", Pulls[pulled + 1])
  /\ main' = "failed"
  /\ UNCHANGED <<pulled, local, has, file, remote, checked, found, dir,
                 exported, xfer, opened>>

Pulled ==
  /\ main = "pull" /\ pulled = Len(Pulls)
  /\ main' = IF Uses = {} THEN "ok" ELSE "local"
  /\ UNCHANGED <<pulled, local, has, file, remote, checked, found, dir,
                 exported, xfer, opened, blamed>>

CheckLocal(i) ==
  /\ main = "local" /\ checked[i] = "pending"
  /\ \/ /\ checked' = [checked EXCEPT ![i] =
                         IF local[i] = 0 THEN "failed" ELSE "ok"]
        /\ UNCHANGED blamed
     \/ checked' = [checked EXCEPT ![i] = "failed"] /\ Fault("local", i)
  /\ UNCHANGED <<main, pulled, local, has, file, remote, found, dir, exported,
                 xfer, opened>>

(* The first failure that is joined ends the phase.                        *)
LocalsJoined ==
  /\ main = "local"
  /\ \/ (\E i \in Images : checked[i] = "failed") /\ main' = "failed"
     \/ (\A i \in Images : checked[i] = "ok") /\ main' = "remote"
  /\ UNCHANGED <<pulled, local, has, file, remote, checked, found, dir,
                 exported, xfer, opened, blamed>>

CheckRemote_ByName(u) ==                              \* mutant
  /\ main = "remote" /\ found[u] = "pending"
  /\ found' = [found EXCEPT ![u] = IF has[u] # 0 THEN "present"
                                   ELSE "missing"]
  /\ UNCHANGED <<main, pulled, local, has, file, remote, checked, dir,
                 exported, xfer, opened, blamed>>

CheckRemote_Stale(u) ==                               \* mutant
  /\ main = "remote" /\ found[u] = "pending"
  /\ found' = [found EXCEPT ![u] = CASE has[u] = local[u[1]] -> "present"
                                     [] has[u] = 0 -> "missing"
                                     [] OTHER -> "stale"]
  /\ UNCHANGED <<main, pulled, local, has, file, remote, checked, dir,
                 exported, xfer, opened, blamed>>

(* An inspect that ends with an error, whatever its cause, counts as an    *)
(* image that is missing; a connection that fails does not.                *)
CheckRemote(u) ==
  /\ main = "remote" /\ found[u] = "pending"
  /\ \/ /\ found' = [found EXCEPT ![u] =
                       IF has[u] = local[u[1]] THEN "present" ELSE "missing"]
        /\ UNCHANGED blamed
     \/ found' = [found EXCEPT ![u] = "missing"] /\ Fault("inspect", u)
     \/ found' = [found EXCEPT ![u] = "failed"] /\ Fault("remote", u)
  /\ UNCHANGED <<main, pulled, local, has, file, remote, checked, dir,
                 exported, xfer, opened>>

RemotesJoined_OnlyLogs ==                             \* mutant
  /\ main = "remote" /\ \A u \in Uses : found[u] # "pending"
  /\ main' = "dirs"
  /\ UNCHANGED <<pulled, local, has, file, remote, checked, found, dir,
                 exported, xfer, opened, blamed>>

(* Every failure is collected before the phase ends.                       *)
RemotesJoined ==
  /\ main = "remote" /\ \A u \in Uses : found[u] # "pending"
  /\ main' = IF \E u \in Uses : found[u] = "failed" THEN "failed" ELSE "dirs"
  /\ UNCHANGED <<pulled, local, has, file, remote, checked, found, dir,
                 exported, xfer, opened, blamed>>

MakeDir(h) ==
  /\ main = "dirs" /\ dir[h] = "pending"
  /\ \/ dir' = [dir EXCEPT ![h] = "ok"] /\ UNCHANGED blamed
     \/ dir' = [dir EXCEPT ![h] = "failed"] /\ Fault("dir", h)
  /\ UNCHANGED <<main, pulled, local, has, file, remote, checked, found,
                 exported, xfer, opened>>

(* Then the pipeline is spawned, when a host lacks an image.               *)
DirsJoined ==
  /\ main = "dirs" /\ \A h \in Host : dir[h] # "pending"
  /\ main' = IF \E h \in Host : dir[h] = "failed" THEN "failed"
             ELSE IF Missing = {} THEN "ok" ELSE "drain"
  /\ IF main' = "drain"
     THEN /\ exported' = [i \in Image |->
                            IF i \in Planned THEN "spawned" ELSE "none"]
          /\ xfer' = [u \in Uses |->
                        IF u \in Missing THEN "waiting" ELSE "none"]
     ELSE UNCHANGED <<exported, xfer>>
  /\ UNCHANGED <<pulled, local, has, file, remote, checked, found, dir,
                 opened, blamed>>

-----------------------------------------------------------------------------
(* export_image_blocking: docker save | gzip > archive.                    *)

Writing(a) == \E i \in Image : Archive[i] = a /\ exported[i] = "writing"

(* The shell truncates the file, whoever else is writing to it.            *)
BeginExport(i) ==
  /\ exported[i] = "spawned"
  /\ exported' = [exported EXCEPT ![i] = "writing"]
  /\ file' = [file EXCEPT ![Archive[i]] =
                IF Writing(Archive[i]) THEN Garbage ELSE <<i, 0>>]
  /\ UNCHANGED <<main, pulled, local, has, remote, checked, found, dir, xfer,
                 opened, blamed>>

(* The archive is complete if nobody else wrote to it meanwhile.           *)
EndExport(i) ==
  /\ exported[i] = "writing"
  /\ exported' = [exported EXCEPT ![i] = "done"]
  /\ file' = [file EXCEPT ![Archive[i]] =
                IF @ = <<i, 0>> THEN <<i, local[i]>> ELSE Garbage]
  /\ UNCHANGED <<main, pulled, local, has, remote, checked, found, dir, xfer,
                 opened, blamed>>

(* docker save fails: the status of the pipeline is that of gzip, and the  *)
(* export counts as done.                                                  *)
SaveFails(i) ==
  /\ exported[i] = "writing" /\ Fault("save", i)
  /\ exported' = [exported EXCEPT ![i] = "done"]
  /\ file' = [file EXCEPT ![Archive[i]] = Garbage]
  /\ UNCHANGED <<main, pulled, local, has, remote, checked, found, dir, xfer,
                 opened>>

(* gzip or the shell fails.                                                *)
ExportFails(i) ==
  /\ exported[i] \in {"spawned", "writing"} /\ Fault("export", i)
  /\ exported' = [exported EXCEPT ![i] = "failed"]
  /\ file' = [file EXCEPT ![Archive[i]] =
                IF exported[i] = "writing" THEN Garbage ELSE @]
  /\ UNCHANGED <<main, pulled, local, has, remote, checked, found, dir, xfer,
                 opened>>

-----------------------------------------------------------------------------
(* transfer_blocking and import_and_cleanup_blocking, for pair u.          *)

Move(u, from, to) == xfer[u] = from /\ xfer' = [xfer EXCEPT ![u] = to]

BeginSend_Early(u) ==                                 \* mutant
  /\ exported[u[1]] \in {"writing", "done"} /\ Move(u, "waiting", "sending")
  /\ opened' = [opened EXCEPT ![u] = file[Archive[u[1]]]]
  /\ remote' = [remote EXCEPT ![u[2]][Archive[u[1]]] = Garbage]
  /\ UNCHANGED <<main, pulled, local, has, file, checked, found, dir, exported,
                 blamed>>

(* scp_send_file opens the archive.                                        *)
BeginSend(u) ==
  /\ exported[u[1]] = "done" /\ Move(u, "waiting", "sending")
  /\ opened' = [opened EXCEPT ![u] = file[Archive[u[1]]]]
  /\ remote' = [remote EXCEPT ![u[2]][Archive[u[1]]] = Garbage]
  /\ UNCHANGED <<main, pulled, local, has, file, checked, found, dir, exported,
                 blamed>>

ExportCancelled_NotSeen(u) == FALSE                   \* mutant

(* The sender of the watch channel was dropped without a value.            *)
ExportCancelled(u) ==
  /\ exported[u[1]] = "failed" /\ Move(u, "waiting", "failed")
  /\ UNCHANGED <<main, pulled, local, has, file, remote, checked, found, dir,
                 exported, opened, blamed>>

EndSend(u) ==
  /\ Move(u, "sending", "loading")
  /\ remote' = [remote EXCEPT ![u[2]][Archive[u[1]]] =
                  IF file[Archive[u[1]]] = opened[u] THEN opened[u]
                  ELSE Garbage]
  /\ UNCHANGED <<main, pulled, local, has, file, checked, found, dir, exported,
                 opened, blamed>>

(* docker load takes what the archive holds, and refuses an incomplete one.*)
Load(u) ==
  LET a == remote[u[2]][Archive[u[1]]] IN
  /\ xfer[u] = "loading"
  /\ IF a \in Image \X (Nat \ {0})
     THEN /\ Move(u, "loading", "removing")
          /\ has' = [w \in Uses |->
                       IF w = <<a[1], u[2]>> THEN a[2] ELSE has[w]]
     ELSE Move(u, "loading", "failed") /\ UNCHANGED has
  /\ UNCHANGED <<main, pulled, local, file, remote, checked, found, dir,
                 exported, opened, blamed>>

RemoveArchive(u) ==
  /\ Move(u, "removing", "done")
  /\ remote' = [remote EXCEPT ![u[2]][Archive[u[1]]] = NoFile]
  /\ UNCHANGED <<main, pulled, local, has, file, checked, found, dir, exported,
                 opened, blamed>>

(* A connection, the copy, the load or the rm fails.                       *)
XferFails(u) ==
  /\ \E from \in {"sending", "loading", "removing"} : Move(u, from, "failed")
  /\ Fault("xfer", u)
  /\ UNCHANGED <<main, pulled, local, has, file, remote, checked, found, dir,
                 exported, opened>>

(* Every task is joined, whatever became of the others; then the local     *)
(* archives are removed, and one that cannot be is left without a word.    *)
TasksEnded ==
  /\ \A i \in Image : exported[i] \in {"none", "done", "failed"}
  /\ \A u \in Uses : xfer[u] \in {"none", "done", "failed"}

Failed == \/ \E i \in Image : exported[i] = "failed"
          \/ \E u \in Uses : xfer[u] = "failed"

Drained_FirstError ==                                 \* mutant
  /\ main = "drain" /\ (TasksEnded \/ Failed)
  /\ main' = IF Failed THEN "failed" ELSE "ok"
  /\ file' = [a \in Path |-> NoFile]
  /\ UNCHANGED <<pulled, local, has, remote, checked, found, dir, exported,
                 xfer, opened, blamed>>

Drained_KeepsOnError ==                               \* mutant
  /\ main = "drain" /\ TasksEnded
  /\ main' = IF Failed THEN "failed" ELSE "ok"
  /\ file' = [a \in Path |-> IF Failed THEN file[a] ELSE NoFile]
  /\ UNCHANGED <<pulled, local, has, remote, checked, found, dir, exported,
                 xfer, opened, blamed>>

Drained ==
  /\ main = "drain" /\ TasksEnded
  /\ main' = IF Failed THEN "failed" ELSE "ok"
  /\ LET archives == {Archive[i] : i \in Planned} IN
     \E kept \in SUBSET {a \in archives : file[a] # NoFile} :
       /\ blamed' = blamed \cup {<<"unlink", a>> : a \in kept}
       /\ kept # {} => Cardinality(blamed') <= MaxFaults
       /\ file' = [a \in Path |-> IF a \in archives \ kept THEN NoFile
                                  ELSE file[a]]
  /\ UNCHANGED <<pulled, local, has, remote, checked, found, dir, exported,
                 xfer, opened>>

-----------------------------------------------------------------------------
Main == Pull \/ Pulled \/ LocalsJoined \/ RemotesJoined \/ DirsJoined \/ Drained

ImageTask(i) == BeginExport(i) \/ EndExport(i)

PairTask(u) ==
  \/ CheckRemote(u)
  \/ BeginSend(u) \/ ExportCancelled(u) \/ EndSend(u)
  \/ Load(u) \/ RemoveArchive(u)

Failure ==
  \/ PullFails
  \/ \E i \in Image : SaveFails(i) \/ ExportFails(i)
  \/ \E u \in Uses : XferFails(u)

Next ==
  \/ Main \/ Failure
  \/ \E i \in Images : CheckLocal(i)
  \/ \E h \in Host : MakeDir(h)
  \/ \E i \in Image : ImageTask(i)
  \/ \E u \in Uses : PairTask(u)

Spec == Init /\ [][Next]_vars

(* Every task runs, on a thread of the blocking pool (512 of them); Docker *)
(* and SSH answer, or fail.                                                *)
LiveSpec ==
  /\ Spec /\ WF_vars(Main)
  /\ \A i \in Image : WF_vars(ImageTask(i))
  /\ \A i \in Images : WF_vars(CheckLocal(i))
  /\ \A u \in Uses : WF_vars(PairTask(u))
  /\ \A h \in Host : WF_vars(MakeDir(h))

-----------------------------------------------------------------------------
(* Properties.                                                             *)

Content == (Image \X Nat) \cup {NoFile, Garbage}

TypeOK ==
  /\ main \in {"pull", "local", "remote", "dirs", "drain", "ok", "failed"}
  /\ pulled \in 0 .. Len(Pulls)
  /\ local \in [Image -> Nat] /\ has \in [Uses -> Nat]
  /\ file \in [Path -> Content] /\ remote \in [Host -> [Path -> Content]]
  /\ checked \in [Images -> {"pending", "ok", "failed"}]
  /\ found \in [Uses -> {"pending", "present", "missing", "failed"}]
  /\ dir \in [Host -> {"pending", "ok", "failed"}]
  /\ exported \in [Image -> {"none", "spawned", "writing", "done", "failed"}]
  /\ xfer \in [Uses -> {"none", "waiting", "sending", "loading", "removing",
                        "done", "failed"}]
  /\ opened \in [Uses -> Content]

(* tm goes on to the containers only when every host has, for every peer   *)
(* it will run, the very version of the image that is here.                *)
Distributed == main = "ok" => \A u \in Uses : has[u] = local[u[1]]

(* ... and only when no step failed, but for an inspect on a host and the  *)
(* removal of an archive here, whose failures the program ignores.         *)
NothingSwallowed ==
  main = "ok" => \A b \in blamed : b[1] \in {"inspect", "unlink"}

(* The export, the copies and the imports of one image meet in the right   *)
(* order: an archive that is being read or loaded is complete and of the   *)
(* right image, unless docker save failed.                                 *)
ReadsComplete ==
  \A u \in Uses :
    LET whole == <<u[1], local[u[1]]>> IN
    <<"save", u[1]>> \notin blamed =>
      /\ xfer[u] = "sending" => opened[u] = whole /\ file[Archive[u[1]]] = whole
      /\ xfer[u] = "loading" => remote[u[2]][Archive[u[1]]] = whole

(* One failed host, or image, takes nothing from the others: once the      *)
(* pipeline has run, every pair whose transfer, and whose image's export,  *)
(* was not hit itself is up to date, and its host is left without the      *)
(* archive.                                                                *)
Independent ==
  main \in {"ok", "failed"} /\ (\E u \in Uses : xfer[u] # "none") =>
    \A u \in Uses :
      blamed \cap {<<"xfer", u>>, <<"save", u[1]>>, <<"export", u[1]>>} = {} =>
        /\ has[u] = local[u[1]]
        /\ remote[u[2]][Archive[u[1]]] = NoFile

(* No archive is left on this machine but one that could not be removed,   *)
(* and none is removed under a task that still needs it.                   *)
LocalClean ==
  main \in {"ok", "failed"} =>
    /\ TasksEnded
    /\ \A a \in Path : file[a] = NoFile \/ <<"unlink", a>> \in blamed

(* The distribution ends, and no transfer waits for an export that died.   *)
DistributionEnds == <>(main \in {"ok", "failed"})

=============================================================================
