-------------------------- MODULE ClaimReconciler --------------------------
(***************************************************************************)
(* The claim-status reconciler of discoblocks: PVCReconciler.Reconcile,   *)
(* the pvcEventFilter predicates that decide which claim changes reach   *)
(* it, and the single worker (MaxConcurrentReconciles: 1) that drains the *)
(* controller's work queue (src/controllers/pvc_controller.go).           *)
(*                                                                         *)
(* A reconcile takes the process-wide non-blocking semaphore, reads the  *)
(* claim, then reads its DiskConfig and writes the claim's phase into (or *)
(* removes the claim from) DiskConfig.Status.PersistentVolumeClaims.      *)
(* The claim read and the status write are separate steps: the claim's   *)
(* life cycle (created with the finalizer by the pod mutator, bound,      *)
(* marked for deletion, finalizer removed and gone) runs in between.     *)
(* Who removes the finalizer is outside this repository's source.        *)
(*                                                                         *)
(* The monitor cycle appears only as "running" or not: MonitorVolumes    *)
(* never calls controllerSemaphore.                                      *)
(***************************************************************************)
EXTENDS Naturals

CONSTANTS
  PVCs,      \* claims, each labelled with and finalized by its DiskConfig
  Absent     \* model value: no entry for a claim in the status map

ASSUME ReconcilerAssumption == PVCs # {} /\ Absent \notin {"Pending", "Bound"}

(* corev1.PersistentVolumeClaimPhase values a claim goes through.        *)
Phases == {"Pending", "Bound"}

VARIABLES
  pvc,       \* [PVCs -> claim record]: the claim in the API server
  status,    \* [PVCs -> Phases \cup {Absent}]: Status.PersistentVolumeClaims of its config
  queue,     \* set of claim keys waiting in the work queue
  worker,    \* the reconcile in progress: [stage, key, snap]
  gate,      \* holder of controllerSemaphore: "free", "reconcile" or "other"
  monitor    \* TRUE while a MonitorVolumes cycle runs

vars == <<pvc, status, queue, worker, gate, monitor>>

(* A claim as the event filter and Reconcile see it.  "none" stands for   *)
(* a claim that does not exist (yet, or any more).                       *)
Claim == [life : {"none", "live", "gone"}, fin : BOOLEAN, deleting : BOOLEAN, phase : Phases]

NoClaim == [life |-> "none", fin |-> FALSE, deleting |-> FALSE, phase |-> "Pending"]

Exists(c) == c.life = "live"

-----------------------------------------------------------------------------
(* pvcEventFilter.Create: only claims already carrying the finalizer.    *)
CreatePasses(new) == new.fin

(* Mutant: the phase comparison dropped from the update filter.          *)
UpdatePassesNoPhase(old, new) ==
  new.fin /\ (old.deleting \/ new.deleting)

(* pvcEventFilter.Update: the new object carries the finalizer, and the  *)
(* deletion timestamp is set on either side or the phase changed.        *)
(* Delete and generic events never pass.                                 *)
UpdatePasses(old, new) ==
  new.fin /\ (old.deleting \/ new.deleting \/ old.phase # new.phase)

(* A change of claim p to new, with the event the informer delivers.     *)
ChangeClaim(p, new, passes) ==
  /\ pvc' = [pvc EXCEPT ![p] = new]
  /\ queue' = IF passes THEN queue \cup {p} ELSE queue

-----------------------------------------------------------------------------
Init ==
  /\ pvc = [p \in PVCs |-> NoClaim]
  /\ status = [p \in PVCs |-> Absent]
  /\ queue = {}
  /\ worker = [stage |-> "idle", key |-> CHOOSE p \in PVCs : TRUE, snap |-> NoClaim]
  /\ gate = "free"
  /\ monitor = FALSE

(* The pod mutator creates the claim with the config's finalizer.         *)
CreateClaim(p) ==
  LET new == [NoClaim EXCEPT !.life = "live", !.fin = TRUE] IN
  /\ pvc[p].life = "none"
  /\ ChangeClaim(p, new, CreatePasses(new))
  /\ UNCHANGED <<status, worker, gate, monitor>>

(* The volume is provisioned and the claim bound.                        *)
BindClaim(p) ==
  LET new == [pvc[p] EXCEPT !.phase = "Bound"] IN
  /\ Exists(pvc[p]) /\ ~pvc[p].deleting /\ pvc[p].phase = "Pending"
  /\ ChangeClaim(p, new, UpdatePasses(pvc[p], new))
  /\ UNCHANGED <<status, worker, gate, monitor>>

(* The claim is deleted: the finalizer keeps it, with a deletion stamp.  *)
MarkDeleted(p) ==
  LET new == [pvc[p] EXCEPT !.deleting = TRUE] IN
  /\ Exists(pvc[p]) /\ ~pvc[p].deleting
  /\ ChangeClaim(p, new, UpdatePasses(pvc[p], new))
  /\ UNCHANGED <<status, worker, gate, monitor>>

(* The finalizer is removed and the API server drops the claim; neither  *)
(* the update (no finalizer) nor the delete event passes the filter.     *)
RemoveFinalizer(p) ==
  /\ Exists(pvc[p]) /\ pvc[p].deleting
  /\ pvc' = [pvc EXCEPT ![p] = [@ EXCEPT !.life = "gone", !.fin = FALSE]]
  /\ UNCHANGED <<status, queue, worker, gate, monitor>>

(* The worker takes a key and controllerSemaphore is free.  When another *)
(* operation holds it, Reconcile returns Result{Requeue: true}: the key   *)
(* stays queued and nothing else changes, a stutter of this model.       *)
StartReconcile(p) ==
  /\ worker.stage = "idle"
  /\ p \in queue
  /\ gate = "free"
  /\ gate' = "reconcile"
  /\ queue' = queue \ {p}
  /\ worker' = [worker EXCEPT !.stage = "getPVC", !.key = p]
  /\ UNCHANGED <<pvc, status, monitor>>

(* Mutant: a returned error does not put the key back.                  *)
FinishNoRequeue(requeue) ==
  /\ gate' = "free"
  /\ worker' = [worker EXCEPT !.stage = "idle"]
  /\ queue' = queue

(* Deferred unlock; a returned error puts the key back in the queue.    *)
Finish(requeue) ==
  /\ gate' = "free"
  /\ worker' = [worker EXCEPT !.stage = "idle"]
  /\ queue' = IF requeue THEN queue \cup {worker.key} ELSE queue

(* r.Get of the claim returns NotFound: nothing to do.                  *)
ClaimNotFound ==
  /\ worker.stage = "getPVC"
  /\ ~Exists(pvc[worker.key])
  /\ Finish(FALSE)
  /\ UNCHANGED <<pvc, status, monitor>>

(* r.Get of the claim succeeds: the claim as read is kept for the write. *)
ClaimRead ==
  /\ worker.stage = "getPVC"
  /\ Exists(pvc[worker.key])
  /\ worker' = [worker EXCEPT !.stage = "update", !.snap = pvc[worker.key]]
  /\ UNCHANGED <<pvc, status, queue, gate, monitor>>

(* r.Get fails otherwise: the error is returned and the key requeued.   *)
GetClaimFails ==
  /\ worker.stage = "getPVC"
  /\ Finish(TRUE)
  /\ UNCHANGED <<pvc, status, monitor>>

(* The claim's entry after the reconcile: removed when the claim read    *)
(* carries a deletion stamp, its phase otherwise.                        *)
NewEntry(snap) == IF snap.deleting THEN Absent ELSE snap.phase

(* r.Client.Get of the DiskConfig named by the claim's label, the entry  *)
(* removed or upserted, and Status().Update.  DiskConfigs are not        *)
(* deleted in this model, so the NotFound return does not arise.         *)
StatusUpdated ==
  /\ worker.stage = "update"
  /\ status' = [status EXCEPT ![worker.key] = NewEntry(worker.snap)]
  /\ Finish(FALSE)
  /\ UNCHANGED <<pvc, monitor>>

(* The DiskConfig read or the status update fails (an API error, or a   *)
(* conflict with a concurrent write of the DiskConfig): the error is     *)
(* returned and the key requeued.                                        *)
StatusUpdateFails ==
  /\ worker.stage = "update"
  /\ Finish(TRUE)
  /\ UNCHANGED <<pvc, status, monitor>>

(* Another operation of the process takes and releases the semaphore.   *)
OtherLock ==
  /\ gate = "free"
  /\ gate' = "other"
  /\ UNCHANGED <<pvc, status, queue, worker, monitor>>

OtherUnlock ==
  /\ gate = "other"
  /\ gate' = "free"
  /\ UNCHANGED <<pvc, status, queue, worker, monitor>>

(* The ticker starts and ends a MonitorVolumes cycle, which takes no lock. *)
MonitorStart ==
  /\ ~monitor
  /\ monitor' = TRUE
  /\ UNCHANGED <<pvc, status, queue, worker, gate>>

MonitorEnd ==
  /\ monitor
  /\ monitor' = FALSE
  /\ UNCHANGED <<pvc, status, queue, worker, gate>>

Next ==
  \/ \E p \in PVCs : CreateClaim(p) \/ BindClaim(p) \/ MarkDeleted(p) \/ RemoveFinalizer(p)
  \/ \E p \in PVCs : StartReconcile(p)
  \/ ClaimNotFound \/ ClaimRead \/ GetClaimFails
  \/ StatusUpdated \/ StatusUpdateFails
  \/ OtherLock \/ OtherUnlock
  \/ MonitorStart \/ MonitorEnd

(* Fairness.  The single worker keeps draining the queue; a key refused *)
(* the semaphore or whose reconcile failed is retried, and since errors   *)
(* and other holders of the semaphore are transient the successful        *)
(* outcome is eventually taken (strong fairness: it is enabled only      *)
(* intermittently).  Other holders release the semaphore, and a monitor  *)
(* cycle ends within its deadline.                                       *)
Fairness ==
  /\ \A p \in PVCs : SF_vars(StartReconcile(p))
  /\ SF_vars(ClaimNotFound) /\ SF_vars(ClaimRead) /\ SF_vars(StatusUpdated)
  /\ WF_vars(OtherUnlock)
  /\ WF_vars(MonitorEnd)

Spec == Init /\ [][Next]_vars

FairSpec == Spec /\ Fairness

-----------------------------------------------------------------------------
(* Type invariant.                                                        *)
TypeOK ==
  /\ pvc \in [PVCs -> Claim]
  /\ status \in [PVCs -> Phases \cup {Absent}]
  /\ queue \subseteq PVCs
  /\ worker \in [stage : {"idle", "getPVC", "update"}, key : PVCs, snap : Claim]
  /\ gate \in {"free", "reconcile", "other"}
  /\ monitor \in BOOLEAN

(* Every existing claim whose status entry differs from what a reconcile *)
(* would now write (its phase, or no entry once it is being deleted) is   *)
(* waiting in the queue or being reconciled: no change that the status   *)
(* map has missed is lost between the event filter, the semaphore        *)
(* refusals and the failed API calls.                                    *)
UnmirroredClaimQueued ==
  \A p \in PVCs :
    Exists(pvc[p]) /\ status[p] # NewEntry(pvc[p])
      => p \in queue \/ (worker.stage # "idle" /\ worker.key = p)

(* Once the claims stop changing, the status map mirrors every live claim *)
(* that is not being deleted: the filter lets every phase change through *)
(* and a refused or failed reconcile is retried.                         *)
LiveClaimsMirrored ==
  <>[](\A p \in PVCs : Exists(pvc[p]) /\ ~pvc[p].deleting => status[p] = pvc[p].phase)

(* Spec 2 and 4.5: the status map is kept consistent with the live      *)
(* claims, so once the claims stop changing no entry remains for a claim *)
(* that is gone.                                                         *)
NoEntryForGoneClaims ==
  <>[](\A p \in PVCs : pvc[p].life = "gone" => status[p] = Absent)

(* Spec 5 and 8: a reconcile and a monitor cycle never run at the same  *)
(* time; whichever takes the shared gate first proceeds.                 *)
MonitorExcludesReconcile ==
  ~(monitor /\ worker.stage # "idle")
=============================================================================
