--------------------------- MODULE HostJobScript ---------------------------
(***************************************************************************)
(* The host jobs of discoblocks (src/pkg/utils/kube.go): the shell command *)
(* RenderMountJob and RenderResizeJob put into hostJobTemplate, run by     *)
(* `bash -exc` in a pod of a Job with restartPolicy Never and              *)
(* backoffLimit 3.  The driver's pre-command (src/drivers/...) is put in  *)
(* front of it.                                                           *)
(*                                                                         *)
(* A command of the script is abstracted to whether it works on the host  *)
(* (the choice "out" of each pod attempt) and to the shell variables it   *)
(* needs and sets: a command that expands an unset or empty variable      *)
(* fails.  The shell's control is kept: && and || short-circuit, the      *)
(* status of an assignment from a pipeline is the status of its last      *)
(* command (awk, which succeeds on empty input), a for loop has the       *)
(* status of its last iteration, and errexit (-e) is ignored inside an    *)
(* && list, which every command of these scripts is part of.              *)
(***************************************************************************)
EXTENDS Naturals, Sequences

CONSTANTS
  Kind,          \* "mount" (RenderMountJob) or "resize" (RenderResizeJob)
  HostPID,       \* the hostPID argument of RenderMountJob
  Containers,    \* containerIDs, in order
  PreCommand,    \* the driver's command: "none" (empty), "lookup" or "ebs"
  FS             \* the fs argument: the file system of the volume

ASSUME JobAssumption ==
  /\ Kind \in {"mount", "resize"}
  /\ HostPID \in BOOLEAN
  /\ FS \in STRING
  /\ PreCommand \in {"none", "lookup", "ebs"}

(* hostJobTemplate: the Job's backoffLimit.                               *)
BackoffLimit == 3

(* hostJobTemplate: the variables the pod's environment sets.             *)
EnvVars == {"MOUNT_POINT", "CONTAINER_IDS", "PVC_NAME", "PV_NAME", "FS", "VOLUME_ATTACHMENT_META"}

(* A command: its id, the variables it expands, the variables it sets    *)
(* when it works, and whether its status is that of a trailing awk.      *)
Cmd(id, uses, sets, pipe) == [id |-> id, uses |-> uses, sets |-> sets, pipe |-> pipe]

(* The driver's lookup of the device: DEV=$(... mount | grep ${PV_NAME} | awk ...) *)
FindDev == Cmd(<<"findDev", "host">>, {"PV_NAME"}, {"DEV"}, TRUE)

(* mountCommandTemplate.                                                  *)
MkdirGlobal == Cmd(<<"mkdirGlobal", "host">>, {"PV_NAME"}, {}, FALSE)
MountGlobal == Cmd(<<"mountGlobal", "host">>, {"DEV", "PV_NAME"}, {}, FALSE)

(* mknodMountTemplate: DEV_MAJOR=$(...) && DEV_MINOR=$(...), then per     *)
(* container PID=$(docker inspect || crictl inspect), mkdir, mknod, mount. *)
DevNumbers == Cmd(<<"devNumbers", "host">>, {"DEV"}, {"DEV_NUM"}, TRUE)

(* Mutant: the lookup runs in a subshell and PID is not set after it.   *)
PidNoSet(c) == Cmd(<<"pid", c>>, {"CONTAINER_IDS"}, {}, FALSE)

Pid(c) == Cmd(<<"pid", c>>, {"CONTAINER_IDS"}, {"PID"}, FALSE)

MkdirIn(c) == Cmd(<<"mkdir", c>>, {"PID", "MOUNT_POINT"}, {}, FALSE)
MknodIn(c) == Cmd(<<"mknod", c>>, {"PID", "DEV", "DEV_NUM"}, {}, FALSE)
MountIn(c) == Cmd(<<"mount", c>>, {"PID", "DEV", "MOUNT_POINT"}, {}, FALSE)

(* bindMountTemplate: nsenter --target ${PID} ... mount -o bind.          *)
Bind == Cmd(<<"bind", "host">>, {"PID", "PV_NAME", "MOUNT_POINT"}, {}, FALSE)

(* resizeCommandTemplate: the tool of each supported file system.         *)
ResizeTool == [ext3 |-> "resize2fs", ext4 |-> "resize2fs", xfs |-> "xfs_growfs", btrfs |-> "btrfs"]
Resize(fs) == Cmd(<<ResizeTool[fs], "host">>, {"DEV", "FS"}, {}, FALSE)

(* The commands a pod attempt of this job can run: RenderMountJob puts   *)
(* the bind template in the script when hostPID, the mknod template      *)
(* otherwise.                                                            *)
ScriptCmds ==
  LET pre == IF PreCommand = "none" THEN {} ELSE {FindDev.id}
      mknod == {DevNumbers.id} \cup
               {<<k, Containers[i]>> : i \in DOMAIN Containers, k \in {"pid", "mkdir", "mknod", "mount"}}
  IN  IF Kind = "mount"
        THEN pre \cup {MkdirGlobal.id, MountGlobal.id} \cup (IF HostPID THEN {Bind.id} ELSE mknod)
        ELSE pre \cup {Resize(fs).id : fs \in DOMAIN ResizeTool}

VARIABLES
  job,       \* "pending", "running" (a pod that never exits), "succeeded" or "failed"
  failures,  \* pods of the Job that exited non-zero
  allOk,     \* every command worked in the last pod (kept for checking only)
  last       \* the shell state at the end of the last pod

vars == <<job, failures, allOk, last>>

(* Which commands work on the host in one pod attempt.                   *)
Outcomes == [ScriptCmds -> BOOLEAN]

(* The shell's state while it runs: status of the last command, the      *)
(* commands that worked, the variables set, and whether it hangs.        *)
Start == [ok |-> TRUE, done |-> {}, vars |-> EnvVars, hang |-> FALSE]

-----------------------------------------------------------------------------
(* Run one command.                                                       *)
Exec(o, sh, c) ==
  LET works == o[c.id] /\ c.uses \subseteq sh.vars IN
  [sh EXCEPT !.ok = works \/ c.pipe,
             !.done = IF works THEN @ \cup {c.id} ELSE @,
             !.vars = IF works THEN @ \cup c.sets ELSE @]

(* Mutant: && runs its right side whatever the left side's status.       *)
AndThenAnyway(o, sh, c) == Exec(o, sh, c)

(* a && c                                                                 *)
AndThen(o, sh, c) == IF sh.ok THEN Exec(o, sh, c) ELSE sh

(* The driver's command followed by " && " (empty: nothing).  The EBS    *)
(* command is `sleep infinity ; DEV=$(...)`: the sleep never returns.    *)
Pre(o, sh) ==
  CASE PreCommand = "none"   -> sh
    [] PreCommand = "lookup" -> Exec(o, sh, FindDev)
    [] PreCommand = "ebs"    -> [sh EXCEPT !.hang = TRUE]

(* One iteration of the for loop over CONTAINER_IDS.                     *)
LoopBody(o, sh, c) ==
  AndThen(o, AndThen(o, AndThen(o, Exec(o, [sh EXCEPT !.ok = TRUE], Pid(c)), MkdirIn(c)), MknodIn(c)), MountIn(c))

(* The for loop: its status is the status of its last iteration, and 0  *)
(* when there are no containers.                                         *)
ForLoop(o, sh) ==
  LET L[i \in 0..Len(Containers)] ==
        IF i = 0 THEN sh ELSE LoopBody(o, L[i - 1], Containers[i])
  IN  L[Len(Containers)]

(* mknodMountTemplate: DEV_MAJOR=... && DEV_MINOR=... && for ... done &&  *)
Mknod(o, sh) ==
  LET s == AndThen(o, sh, DevNumbers) IN
  IF s.ok THEN ForLoop(o, s) ELSE s

(* RenderMountJob: the bind template when hostPID, mknod otherwise.      *)
BindMount(o, sh) == IF HostPID THEN AndThen(o, sh, Bind) ELSE Mknod(o, sh)

(* Mutant: the template without the global mount line.                 *)
MountScriptNoGlobal(o, sh) ==
  LET s1 == Pre(o, sh)
      s2 == IF s1.ok THEN AndThen(o, s1, MkdirGlobal) ELSE s1
  IN  IF s2.ok THEN BindMount(o, s2) ELSE s2

(* mountCommandTemplate: PRE mkdir && mount && BIND echo ok.  Under -e   *)
(* a failing pre-command, or the last command of an && list, ends the    *)
(* script.                                                               *)
MountScript(o, sh) ==
  LET s1 == Pre(o, sh)
      s2 == IF s1.ok THEN AndThen(o, AndThen(o, s1, MkdirGlobal), MountGlobal) ELSE s1
  IN  IF s2.ok THEN BindMount(o, s2) ELSE s2

(* One alternative of the resize subshell: [ "${FS}" = fs ] && tool.     *)
TryResize(o, sh, fs) ==
  IF FS = fs THEN Exec(o, [sh EXCEPT !.ok = TRUE], Resize(fs)) ELSE [sh EXCEPT !.ok = FALSE]

(* resizeCommandTemplate: PRE ( ... || ... || echo unsupported ) && echo *)
(* ok.  The stray first line of the subshell fails, which errexit         *)
(* ignores there; echo unsupported succeeds.                             *)
ResizeScript(o, sh) ==
  LET s1 == Pre(o, sh)
      r1 == TryResize(o, s1, "ext3")
      r2 == IF r1.ok THEN r1 ELSE TryResize(o, r1, "ext4")
      r3 == IF r2.ok THEN r2 ELSE TryResize(o, r2, "xfs")
      r4 == IF r3.ok THEN r3 ELSE TryResize(o, r3, "btrfs")
  IN  IF ~s1.ok \/ s1.hang THEN s1 ELSE [r4 EXCEPT !.ok = TRUE]

Script(o) == IF Kind = "mount" THEN MountScript(o, Start) ELSE ResizeScript(o, Start)

-----------------------------------------------------------------------------
(* The Job after a pod exits: complete on status 0; otherwise a new pod, *)
(* until more than backoffLimit pods have failed.                        *)
AfterExit(r) ==
  IF r.ok THEN "succeeded"
  ELSE IF failures + 1 > BackoffLimit THEN "failed" ELSE "pending"

Init ==
  /\ job = "pending"
  /\ failures = 0
  /\ allOk = FALSE
  /\ last = Start

(* The Job controller starts a pod and its script runs with outcomes o: *)
(* the Job completes on status 0; otherwise a new pod is started, until  *)
(* more than backoffLimit pods have failed (no pod is started after     *)
(* that).  A script that hangs keeps its pod running for ever.          *)
RunPod(o) ==
  LET r == Script(o) IN
  /\ job = "pending"
  /\ failures <= BackoffLimit
  /\ job' = IF r.hang THEN "running" ELSE AfterExit(r)
  /\ failures' = IF r.ok \/ r.hang THEN failures ELSE failures + 1
  /\ allOk' = \A i \in ScriptCmds : o[i]
  /\ last' = r

Next == \E o \in Outcomes : RunPod(o)

Spec == Init /\ [][Next]_vars

-----------------------------------------------------------------------------
TypeOK ==
  /\ job \in {"pending", "running", "succeeded", "failed"}
  /\ failures \in 0..BackoffLimit + 1
  /\ allOk \in BOOLEAN
  /\ last.done \subseteq ScriptCmds

(* A mount job reports success only after the device was mounted on the *)
(* node's global mount path: every step before echo ok is chained by &&. *)
GlobalMountedWhenOk ==
  job = "succeeded" => MountGlobal.id \in last.done

(* A pod on which every command works exits 0 and completes the job:    *)
(* the script never depends on a variable it does not set.               *)
WorkingCommandsSucceed ==
  [][allOk' => job' = "succeeded"]_vars

(* Spec 4.3: the mount commands are chained with && ending in "ok", so   *)
(* a mount job reports success only when the volume is mounted in every  *)
(* target container.                                                     *)
MountedInEveryContainer ==
  job = "succeeded" => \A i \in DOMAIN Containers : MountIn(Containers[i]).id \in last.done

(* Spec 4.3: only an unsupported file system is reported without failing *)
(* the job; on a supported one, a resize job reports success only when   *)
(* the growth command worked.                                            *)
ResizedWhenOk ==
  job = "succeeded" /\ FS \in DOMAIN ResizeTool => Resize(FS).id \in last.done
=============================================================================
