---------------------------- MODULE PodMutator ----------------------------
(***************************************************************************)
(* The pod admission webhook of discoblocks: PodMutator.Handle            *)
(* (src/controllers/pvc_controller.go).  Admissions of several pods run   *)
(* concurrently; each lists the DiskConfigs of the namespace once, then   *)
(* walks the list: a config not being deleted whose pod selector the pod  *)
(* matches gets its claim created (or found already there), and its      *)
(* mount point checked against those already assigned in this admission. *)
(* A failure on the way ends the admission: an API error always denies   *)
(* it, a missing StorageClass, a driver that refuses the claim stub or a *)
(* mount-point collision denies it in strict mode and admits the pod     *)
(* unmodified otherwise (errorMode).  A claim created before the failure *)
(* stays.                                                                 *)
(*                                                                         *)
(* Labels, selectors and mount-point patterns are abstracted to which     *)
(* pods each config selects and which mount point it renders; the claim  *)
(* name is abstracted to the config it is named after.                   *)
(***************************************************************************)
EXTENDS Naturals, Sequences, Functions

CONSTANTS
  Configs,      \* the DiskConfigs of the namespace
  ConfigList,   \* the order in which List returns them (all of them)
  Pods,         \* pods submitted for admission
  Selects,      \* [Configs -> SUBSET Pods]: IsContainsAll(pod.Labels, PodSelector)
  MountPoint,   \* [Configs -> mount paths]: RenderMountPoint(pattern, name, 0)
  SC,           \* [Configs -> {"ok", "missing", "invalid"}]: its StorageClass
  Strict        \* the strict flag of NewPodMutator

ASSUME MutatorAssumption ==
  /\ ConfigList \in Seq(Configs)
  /\ Selects \in [Configs -> SUBSET Pods]
  /\ DOMAIN MountPoint = Configs
  /\ SC \in [Configs -> {"ok", "missing", "invalid"}]
  /\ Strict \in BOOLEAN

(* Client.List returns every DiskConfig of the namespace.                *)
ASSUME ListAssumption == {ConfigList[k] : k \in 1..Len(ConfigList)} = Configs

(* The claim NewPVC renders for a config: RenderResourceName of the      *)
(* provisioner, the config's name and the namespace; the pod plays no    *)
(* part in it.                                                           *)
ClaimName(c) == c

VARIABLES
  deleting,   \* [Configs -> BOOLEAN]: the config carries a deletion stamp
  claims,     \* claims in the API server, by name
  req         \* [Pods -> admission in progress or answered]

vars == <<deleting, claims, req>>

(* An admission: "new" until Handle lists the configs, "loop" while it   *)
(* walks them (del: their deletion stamps as listed, i: the next index,  *)
(* vols: the volumes map as a set of <<claim, mount point>>), "done"     *)
(* with its response.                                                    *)
Results == {"none", "errored", "denied", "allowed", "patched"}

Request == [stage : {"new", "loop", "done"}, del : [Configs -> BOOLEAN],
            i : 1..Len(ConfigList) + 1, vols : SUBSET (Configs \X Range(MountPoint)),
            result : Results]

Current(p) == ConfigList[req[p].i]

(* The admission of p is at config Current(p), which it attaches.        *)
AtMatch(p) ==
  /\ req[p].stage = "loop"
  /\ req[p].i <= Len(ConfigList)
  /\ ~req[p].del[Current(p)]
  /\ p \in Selects[Current(p)]

(* The handler returns response r.                                       *)
Answer(p, r) ==
  req' = [req EXCEPT ![p].stage = "done", ![p].result = r]

(* Mutant: the two branches of errorMode swapped.                        *)
ErrorModeSwapped(p) == Answer(p, IF Strict THEN "allowed" ELSE "denied")

(* errorMode: Errored in strict mode, Allowed (the pod unmodified) else.  *)
ErrorMode(p) == Answer(p, IF Strict THEN "denied" ELSE "allowed")

-----------------------------------------------------------------------------
Init ==
  /\ deleting = [c \in Configs |-> FALSE]
  /\ claims = {}
  /\ req = [p \in Pods |-> [stage |-> "new", del |-> [c \in Configs |-> FALSE],
                            i |-> 1, vols |-> {}, result |-> "none"]]

(* An operator deletes a config; nothing in this code cleans its claims. *)
DeleteConfig(c) ==
  /\ ~deleting[c]
  /\ deleting' = [deleting EXCEPT ![c] = TRUE]
  /\ UNCHANGED <<claims, req>>

(* Client.List of the namespace's DiskConfigs.                           *)
ListConfigs(p) ==
  /\ req[p].stage = "new"
  /\ req' = [req EXCEPT ![p].stage = "loop", ![p].del = deleting]
  /\ UNCHANGED <<deleting, claims>>

ListFails(p) ==
  /\ req[p].stage = "new"
  /\ Answer(p, "errored")
  /\ UNCHANGED <<deleting, claims>>

(* Mutant: the loop stops looking once one volume is attached.          *)
ConfigSkippedAfterFirst(p) ==
  /\ req[p].stage = "loop"
  /\ req[p].i <= Len(ConfigList)
  /\ req[p].del[Current(p)] \/ p \notin Selects[Current(p)] \/ req[p].vols # {}
  /\ req' = [req EXCEPT ![p].i = @ + 1]
  /\ UNCHANGED <<deleting, claims>>

(* continue: the listed config is being deleted or does not select p.   *)
ConfigSkipped(p) ==
  /\ req[p].stage = "loop"
  /\ req[p].i <= Len(ConfigList)
  /\ req[p].del[Current(p)] \/ p \notin Selects[Current(p)]
  /\ req' = [req EXCEPT ![p].i = @ + 1]
  /\ UNCHANGED <<deleting, claims>>

(* Client.Get of the StorageClass: NotFound goes to errorMode, any other *)
(* error is returned as Errored.                                         *)
StorageClassNotFound(p) ==
  /\ AtMatch(p)
  /\ SC[Current(p)] = "missing"
  /\ ErrorMode(p)
  /\ UNCHANGED <<deleting, claims>>

StorageClassGetFails(p) ==
  /\ AtMatch(p)
  /\ Answer(p, "errored")
  /\ UNCHANGED <<deleting, claims>>

(* NewPVC fails: the provisioner's driver refuses the claim stub.        *)
NewPVCFails(p) ==
  /\ AtMatch(p)
  /\ SC[Current(p)] = "invalid"
  /\ ErrorMode(p)
  /\ UNCHANGED <<deleting, claims>>

(* Mutant: the uniqueness check finds nothing.                          *)
CollidesNever(p) == FALSE

(* The mount point is one already in the volumes map.                    *)
Collides(p) == \E v \in req[p].vols : v[2] = MountPoint[Current(p)]

(* The claim exists after Create, which made it or found AlreadyExists;  *)
(* a colliding mount point then goes to errorMode.                       *)
ClaimEnsured(p) ==
  LET c == Current(p) IN
  /\ AtMatch(p)
  /\ SC[c] = "ok"
  /\ claims' = claims \cup {ClaimName(c)}
  /\ IF Collides(p)
       THEN ErrorMode(p)
       ELSE req' = [req EXCEPT ![p].vols = @ \cup {<<ClaimName(c), MountPoint[c]>>},
                               ![p].i = @ + 1]
  /\ UNCHANGED deleting

(* Mutant: a Create error other than AlreadyExists is ignored too.       *)
CreateFailsIgnored(p) ==
  LET c == Current(p) IN
  /\ AtMatch(p)
  /\ SC[c] = "ok"
  /\ ~Collides(p)
  /\ req' = [req EXCEPT ![p].vols = @ \cup {<<ClaimName(c), MountPoint[c]>>},
                        ![p].i = @ + 1]
  /\ UNCHANGED <<deleting, claims>>

(* Create fails with an error other than AlreadyExists.                  *)
CreateFails(p) ==
  /\ AtMatch(p)
  /\ SC[Current(p)] = "ok"
  /\ Answer(p, "errored")
  /\ UNCHANGED <<deleting, claims>>

(* After the loop: no volume, the pod is admitted unmodified; otherwise  *)
(* the patch adds the volumes, the sidecar, the scheduler and the mounts. *)
Respond(p) ==
  /\ req[p].stage = "loop"
  /\ req[p].i > Len(ConfigList)
  /\ Answer(p, IF req[p].vols = {} THEN "allowed" ELSE "patched")
  /\ UNCHANGED <<deleting, claims>>

Next ==
  \/ \E c \in Configs : DeleteConfig(c)
  \/ \E p \in Pods :
       \/ ListConfigs(p) \/ ListFails(p) \/ ConfigSkipped(p)
       \/ StorageClassNotFound(p) \/ StorageClassGetFails(p) \/ NewPVCFails(p)
       \/ ClaimEnsured(p) \/ CreateFails(p) \/ Respond(p)

Spec == Init /\ [][Next]_vars

-----------------------------------------------------------------------------
(* Type invariant.                                                        *)
TypeOK ==
  /\ deleting \in [Configs -> BOOLEAN]
  /\ claims \subseteq Configs
  /\ req \in [Pods -> Request]

(* Spec 3 and 8: within one admission no two claims get the same mount   *)
(* path, whatever the order in which List returns the configs.           *)
MountPointsUnique ==
  \A p \in Pods : \A v, w \in req[p].vols : v # w => v[2] # w[2]

(* Spec 4.7: a patched pod carries a volume of every config that selects *)
(* it and was not being deleted when the admission listed the configs,   *)
(* and of no other.                                                       *)
PatchedCarriesEveryMatch ==
  \A p \in Pods :
    req[p].result = "patched" =>
      {v[1] : v \in req[p].vols} = {ClaimName(c) : c \in {d \in Configs : ~req[p].del[d] /\ p \in Selects[d]}}

(* Every volume of a patched pod names a claim in the API server: a      *)
(* failed Create never leaves a volume behind.                           *)
PatchedClaimsExist ==
  \A p \in Pods : req[p].result = "patched" => \A v \in req[p].vols : v[1] \in claims

(* Spec 3: one claim per matching pod; no two admitted pods share one.   *)
ClaimPerPod ==
  \A p, q \in Pods :
    p # q /\ req[p].result = "patched" /\ req[q].result = "patched" =>
      {v[1] : v \in req[p].vols} \cap {v[1] : v \in req[q].vols} = {}

-----------------------------------------------------------------------------
(* AbstractAdmission, with a pod's response as its answer and the volumes *)
(* map of a patched pod as its mounts; the listing loop is hidden.        *)
AnswerOf == [p \in Pods |-> req[p].result]

MountsOf == [p \in Pods |-> IF req[p].result = "patched" THEN req[p].vols ELSE {}]

Admission == INSTANCE AbstractAdmission WITH answer <- AnswerOf, mounts <- MountsOf

(* Every step of the webhook is a step of the abstract admission or      *)
(* leaves its state alone: each admission is answered once, a patch      *)
(* carries the claims of exactly the configs that selected the pod when  *)
(* listed, at distinct mount points and already created, errors answer   *)
(* with Errored or the error mode's response, and the loop only creates  *)
(* claims of configs that select the pod.                                *)
AdmissionSpec == Admission!Spec
=============================================================================
