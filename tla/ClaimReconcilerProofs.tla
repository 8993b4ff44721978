---------------------- MODULE ClaimReconcilerProofs ----------------------
(***************************************************************************)
(* Proofs about ClaimReconciler for every set of claims: the type         *)
(* invariant, and UnmirroredClaimQueued, the reason the status map        *)
(* converges: a claim whose entry is out of date is never forgotten.      *)
(*                                                                         *)
(* UnmirroredClaimQueued is not inductive alone.  A status write uses the *)
(* claim as read earlier, so the invariant needs that a claim changed     *)
(* since that read (in a way that changes the entry) has been queued      *)
(* again, which holds because live claims carry the finalizer and the    *)
(* filter then admits every change of phase or deletion stamp.            *)
(***************************************************************************)
EXTENDS ClaimReconciler, TLAPS

(* Every claim that exists carries its config's finalizer.               *)
LiveFinalized == \A p \in PVCs : Exists(pvc[p]) => pvc[p].fin

(* The claim a pending status write uses is current, or queued again.   *)
SnapCurrentOrQueued ==
  worker.stage = "update" /\ Exists(pvc[worker.key])
    /\ NewEntry(worker.snap) # NewEntry(pvc[worker.key])
    => worker.key \in queue

IInv == TypeOK /\ LiveFinalized /\ SnapCurrentOrQueued /\ UnmirroredClaimQueued

USE ReconcilerAssumption

-----------------------------------------------------------------------------
LEMMA InitIInv == Init => IInv
  <1> SUFFICES ASSUME Init PROVE IInv
    OBVIOUS
  <1>1. TypeOK
    BY DEF Init, TypeOK, Claim, NoClaim, Phases
  <1>2. LiveFinalized /\ SnapCurrentOrQueued /\ UnmirroredClaimQueued
    BY DEF Init, NoClaim, Exists, LiveFinalized, SnapCurrentOrQueued, UnmirroredClaimQueued
  <1> QED
    BY <1>1, <1>2 DEF IInv


(* A change of one claim that leaves it live and finalized and queues   *)
(* its key (every change the filter admits) preserves the invariant.    *)
LEMMA LiveChangeIInv ==
  ASSUME IInv, NEW p \in PVCs, NEW new \in Claim, Exists(new), new.fin,
         pvc' = [pvc EXCEPT ![p] = new], queue' = queue \cup {p},
         UNCHANGED <<status, worker, gate, monitor>>
  PROVE  IInv'
  <1>1. TypeOK'
    BY DEF IInv, TypeOK
  <1>2. LiveFinalized'
    BY DEF IInv, TypeOK, LiveFinalized
  <1>3. SnapCurrentOrQueued'
    <2>1. CASE worker.key = p
      BY <2>1 DEF SnapCurrentOrQueued
    <2>2. CASE worker.key # p
      BY <2>2 DEF IInv, TypeOK, SnapCurrentOrQueued
    <2> QED
      BY <2>1, <2>2 DEF SnapCurrentOrQueued
  <1>4. UnmirroredClaimQueued'
    <2> SUFFICES ASSUME NEW q \in PVCs, Exists(pvc'[q]), status'[q] # NewEntry(pvc'[q])
                 PROVE  q \in queue' \/ (worker'.stage # "idle" /\ worker'.key = q)
      BY DEF UnmirroredClaimQueued
    <2>1. CASE q = p
      BY <2>1
    <2>2. CASE q # p
      BY <2>2 DEF IInv, TypeOK, UnmirroredClaimQueued
    <2> QED
      BY <2>1, <2>2
  <1> QED
    BY <1>1, <1>2, <1>3, <1>4 DEF IInv

LEMMA NextIInv == IInv /\ [Next]_vars => IInv'
  <1> SUFFICES ASSUME IInv, [Next]_vars PROVE IInv'
    OBVIOUS
  <1> USE DEF IInv
  <1>1. ASSUME NEW p \in PVCs, CreateClaim(p) PROVE IInv'
    <2> DEFINE new == [NoClaim EXCEPT !.life = "live", !.fin = TRUE]
    <2>1. new \in Claim /\ Exists(new) /\ new.fin /\ CreatePasses(new)
      BY DEF NoClaim, Claim, Phases, Exists, CreatePasses
    <2> QED
      BY <1>1, <2>1, LiveChangeIInv DEF CreateClaim, ChangeClaim
  <1>2. ASSUME NEW p \in PVCs, BindClaim(p) PROVE IInv'
    <2> DEFINE new == [pvc[p] EXCEPT !.phase = "Bound"]
    <2>1. new \in Claim /\ Exists(new) /\ new.fin /\ UpdatePasses(pvc[p], new)
      BY <1>2 DEF BindClaim, TypeOK, LiveFinalized, Claim, Phases, Exists, UpdatePasses
    <2> QED
      BY <1>2, <2>1, LiveChangeIInv DEF BindClaim, ChangeClaim
  <1>3. ASSUME NEW p \in PVCs, MarkDeleted(p) PROVE IInv'
    <2> DEFINE new == [pvc[p] EXCEPT !.deleting = TRUE]
    <2>1. new \in Claim /\ Exists(new) /\ new.fin /\ UpdatePasses(pvc[p], new)
      BY <1>3 DEF MarkDeleted, TypeOK, LiveFinalized, Claim, Exists, UpdatePasses
    <2> QED
      BY <1>3, <2>1, LiveChangeIInv DEF MarkDeleted, ChangeClaim
  <1>4. ASSUME NEW p \in PVCs, RemoveFinalizer(p) PROVE IInv'
    <2> DEFINE gone == [pvc[p] EXCEPT !.life = "gone", !.fin = FALSE]
    <2>1. pvc' = [pvc EXCEPT ![p] = gone] /\ UNCHANGED <<status, queue, worker, gate, monitor>>
      BY <1>4 DEF RemoveFinalizer
    <2>2. gone \in Claim /\ ~Exists(gone)
      BY DEF TypeOK, Claim, Exists
    <2>3. TypeOK'
      BY <2>1, <2>2 DEF TypeOK
    <2>4. LiveFinalized'
      BY <2>1, <2>2 DEF TypeOK, LiveFinalized
    <2>5. SnapCurrentOrQueued'
      BY <2>1, <2>2 DEF TypeOK, SnapCurrentOrQueued
    <2>6. UnmirroredClaimQueued'
      BY <2>1, <2>2 DEF TypeOK, UnmirroredClaimQueued
    <2> QED
      BY <2>3, <2>4, <2>5, <2>6
  <1>5. ASSUME NEW p \in PVCs, StartReconcile(p) PROVE IInv'
    BY <1>5 DEF StartReconcile, TypeOK, LiveFinalized, SnapCurrentOrQueued, UnmirroredClaimQueued
  <1>6. CASE ClaimNotFound
    BY <1>6 DEF ClaimNotFound, Finish, TypeOK, LiveFinalized, SnapCurrentOrQueued, UnmirroredClaimQueued
  <1>7. CASE ClaimRead
    BY <1>7 DEF ClaimRead, TypeOK, LiveFinalized, SnapCurrentOrQueued, UnmirroredClaimQueued
  <1>8. CASE GetClaimFails
    BY <1>8 DEF GetClaimFails, Finish, TypeOK, LiveFinalized, SnapCurrentOrQueued, UnmirroredClaimQueued
  <1>9. CASE StatusUpdated
    BY <1>9 DEF StatusUpdated, Finish, NewEntry, TypeOK, Claim, Phases,
               LiveFinalized, SnapCurrentOrQueued, UnmirroredClaimQueued
  <1>10. CASE StatusUpdateFails
    BY <1>10 DEF StatusUpdateFails, Finish, TypeOK, LiveFinalized, SnapCurrentOrQueued, UnmirroredClaimQueued
  <1>11. CASE OtherLock \/ OtherUnlock \/ MonitorStart \/ MonitorEnd
    BY <1>11 DEF OtherLock, OtherUnlock, MonitorStart, MonitorEnd, TypeOK,
               LiveFinalized, SnapCurrentOrQueued, UnmirroredClaimQueued
  <1>12. CASE UNCHANGED vars
    BY <1>12 DEF vars, TypeOK, LiveFinalized, SnapCurrentOrQueued, UnmirroredClaimQueued
  <1> QED
    BY <1>1, <1>2, <1>3, <1>4, <1>5, <1>6, <1>7, <1>8, <1>9, <1>10, <1>11, <1>12 DEF Next

-----------------------------------------------------------------------------
(* Every state of the reconciler is well typed.                          *)
THEOREM ReconcilerTypeCorrect == Spec => []TypeOK
  <1>1. IInv => TypeOK
    BY DEF IInv
  <1> QED
    BY InitIInv, NextIInv, <1>1, PTL DEF Spec

(* However claim changes, semaphore refusals and failed API calls        *)
(* interleave with the single worker, a claim whose status entry is out  *)
(* of date is always queued or being reconciled (the check               *)
(* UnmirroredClaimQueued of the run reconcile_mirror).                   *)
THEOREM UnmirroredAlwaysQueued == Spec => []UnmirroredClaimQueued
  <1>1. IInv => UnmirroredClaimQueued
    BY DEF IInv
  <1> QED
    BY InitIInv, NextIInv, <1>1, PTL DEF Spec
=============================================================================
