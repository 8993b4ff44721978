----------------------- MODULE PodMutatorRefinement -----------------------
(***************************************************************************)
(* Proof that the webhook model PodMutator implements AbstractAdmission   *)
(* under the mapping AnswerOf, MountsOf: every step of an admission is    *)
(* either hidden (listing, skipping a config), the creation of a claim of *)
(* a config that selects the pod, or the one atomic answer of the        *)
(* abstract admission.                                                    *)
(*                                                                         *)
(* Besides the invariants of PodMutatorProofs the step needs three facts  *)
(* about every admission: each volume sits at its config's mount point,  *)
(* the deletion stamps it listed are among today's (stamps are never     *)
(* removed), and an answered admission has a response.                  *)
(***************************************************************************)
EXTENDS PodMutatorProofs

(* Each volume of an admission is <<claim, the config's mount point>>.   *)
Shaped == \A p \in Pods : \A v \in req[p].vols : v = <<v[1], MountPoint[v[1]]>>

(* The stamps an admission listed are still on their configs.            *)
Listed == \A p \in Pods : \A c \in Configs : req[p].del[c] => deleting[c]

(* An admission that is done has a response.                             *)
Answered == \A p \in Pods : req[p].stage = "done" => req[p].result # "none"

RInv == Shaped /\ Listed /\ Answered

USE MutatorAssumption
-----------------------------------------------------------------------------
LEMMA InitRInv == Init => RInv
  BY DEF Init, RInv, Shaped, Listed, Answered

(* A step that keeps every volumes map and the stamps listed, and does   *)
(* not answer without a response, keeps RInv.                           *)
LEMMA RInvKept ==
  ASSUME RInv, deleting \in [Configs -> BOOLEAN],
         \A c \in Configs : deleting[c] => deleting'[c],
         \A q \in Pods : req'[q].vols = req[q].vols /\ req'[q].del = req[q].del,
         \A q \in Pods : req'[q].stage = "done" => req'[q].result # "none"
  PROVE  RInv'
  BY DEF RInv, Shaped, Listed, Answered

(* The facts an answer establishes about the admission it answers.       *)
LEMMA AnswerFacts ==
  ASSUME TypeOK, NEW p \in Pods, NEW r \in Results, Answer(p, r)
  PROVE  /\ req'[p].stage = "done" /\ req'[p].result = r
         /\ req'[p].vols = req[p].vols /\ req'[p].del = req[p].del
         /\ \A q \in Pods \ {p} : req'[q] = req[q]
  <1> DEFINE x == [req[p] EXCEPT !.stage = "done", !.result = r]
  <1>1. req[p] \in Request /\ req \in [Pods -> Request]
    BY DEF TypeOK
  <1>2. req'[p] = x /\ \A q \in Pods \ {p} : req'[q] = req[q]
    BY <1>1 DEF Answer
  <1>3. x.stage = "done" /\ x.result = r /\ x.vols = req[p].vols /\ x.del = req[p].del
    BY <1>1 DEF Request
  <1> QED
    BY <1>2, <1>3

(* The response of every answer the webhook gives.                       *)
LEMMA AnswerOfStep ==
  ASSUME TypeOK, NEW p \in Pods,
         \/ ListFails(p) \/ StorageClassNotFound(p) \/ StorageClassGetFails(p)
         \/ NewPVCFails(p) \/ CreateFails(p) \/ Respond(p)
         \/ ClaimEnsured(p) /\ Collides(p)
  PROVE  \E r \in Results \ {"none"} : Answer(p, r)
  BY ErrorModeAnswers DEF ListFails, StorageClassNotFound, StorageClassGetFails,
     NewPVCFails, CreateFails, Respond, ClaimEnsured, ErrorMode, Results

LEMMA NextRInv == IInv /\ RInv /\ [Next]_vars => RInv'
  <1> SUFFICES ASSUME IInv, RInv, [Next]_vars PROVE RInv'
    OBVIOUS
  <1>0. TypeOK /\ req \in [Pods -> Request] /\ deleting \in [Configs -> BOOLEAN]
    BY DEF IInv, TypeOK
  (* A step of admission p that keeps its volumes and stamps.            *)
  <1>a. ASSUME NEW p \in Pods, UNCHANGED deleting,
               req'[p].vols = req[p].vols, req'[p].del = req[p].del,
               req'[p].stage = "done" => req'[p].result # "none",
               \A q \in Pods \ {p} : req'[q] = req[q]
        PROVE  RInv'
    <2>1. \A q \in Pods : req'[q].vols = req[q].vols /\ req'[q].del = req[q].del
      BY <1>a
    <2>2. \A q \in Pods : req'[q].stage = "done" => req'[q].result # "none"
      BY <1>a DEF RInv, Answered
    <2>3. \A c \in Configs : deleting[c] => deleting'[c]
      BY <1>a
    <2> QED
      BY <1>0, <2>1, <2>2, <2>3, RInvKept
  <1>1. ASSUME NEW c \in Configs, DeleteConfig(c) PROVE RInv'
    <2>1. \A d \in Configs : deleting[d] => deleting'[d]
      BY <1>0, <1>1 DEF DeleteConfig
    <2>2. req' = req
      BY <1>1 DEF DeleteConfig
    <2>3. \A q \in Pods : req'[q].stage = "done" => req'[q].result # "none"
      BY <2>2 DEF RInv, Answered
    <2> QED
      BY <1>0, <2>1, <2>2, <2>3, RInvKept
  <1>2. ASSUME NEW p \in Pods, ListConfigs(p) PROVE RInv'
    <2> DEFINE x == [req[p] EXCEPT !.stage = "loop", !.del = deleting]
    <2>1. req'[p] = x /\ \A q \in Pods \ {p} : req'[q] = req[q]
      BY <1>0, <1>2 DEF ListConfigs
    <2>2. x.stage = "loop" /\ x.vols = req[p].vols /\ x.del = deleting
      BY <1>0 DEF Request
    <2>3. Shaped' /\ Answered'
      BY <2>1, <2>2 DEF RInv, Shaped, Answered
    <2>4. Listed'
      <3> SUFFICES ASSUME NEW q \in Pods, NEW c \in Configs, req'[q].del[c] PROVE deleting'[c]
        BY DEF Listed
      <3>1. CASE q = p
        BY <1>2, <2>1, <2>2, <3>1 DEF ListConfigs
      <3>2. CASE q # p
        BY <1>2, <2>1, <3>2 DEF RInv, Listed, ListConfigs
      <3> QED
        BY <3>1, <3>2
    <2> QED
      BY <2>3, <2>4 DEF RInv
  <1>3. ASSUME NEW p \in Pods, ConfigSkipped(p) PROVE RInv'
    <2> DEFINE x == [req[p] EXCEPT !.i = req[p].i + 1]
    <2>1. req'[p] = x /\ \A q \in Pods \ {p} : req'[q] = req[q]
      BY <1>0, <1>3 DEF ConfigSkipped
    <2>2. x.stage = "loop" /\ x.vols = req[p].vols /\ x.del = req[p].del
      BY <1>0, <1>3 DEF Request, ConfigSkipped
    <2> QED
      BY <1>3, <2>1, <2>2, <1>a DEF ConfigSkipped
  <1>4. ASSUME NEW p \in Pods,
               \/ ListFails(p) \/ StorageClassNotFound(p) \/ StorageClassGetFails(p)
               \/ NewPVCFails(p) \/ CreateFails(p) \/ Respond(p)
               \/ ClaimEnsured(p) /\ Collides(p)
        PROVE  RInv'
    <2>1. PICK r \in Results \ {"none"} : Answer(p, r)
      BY <1>0, <1>4, AnswerOfStep
    <2>2. UNCHANGED deleting
      BY <1>4 DEF ListFails, StorageClassNotFound, StorageClassGetFails, NewPVCFails,
                  CreateFails, Respond, ClaimEnsured
    <2> QED
      BY <1>0, <2>1, <2>2, AnswerFacts, <1>a
  <1>5. ASSUME NEW p \in Pods, ClaimEnsured(p), ~Collides(p) PROVE RInv'
    <2> DEFINE c == Current(p)
               nv == <<c, MountPoint[c]>>
               x == [req[p] EXCEPT !.vols = req[p].vols \cup {nv}, !.i = req[p].i + 1]
    <2>0. req[p] \in Request /\ req[p].stage = "loop" /\ c \in Configs
      BY <1>0, <1>5, CurrentConfig DEF ClaimEnsured, AtMatch
    <2>1. req'[p] = x /\ \A q \in Pods \ {p} : req'[q] = req[q]
      BY <1>0, <1>5 DEF ClaimEnsured, ClaimName
    <2>2. x.stage = "loop" /\ x.vols = req[p].vols \cup {nv} /\ x.del = req[p].del
      BY <2>0 DEF Request
    <2>3. nv = <<nv[1], MountPoint[nv[1]]>>
      OBVIOUS
    <2>4. Shaped'
      <3> SUFFICES ASSUME NEW q \in Pods, NEW v \in req'[q].vols
                   PROVE  v = <<v[1], MountPoint[v[1]]>>
        BY DEF Shaped
      <3>1. CASE q = p /\ v = nv
        BY <2>3, <3>1
      <3>2. CASE q = p /\ v # nv
        BY <2>1, <2>2, <3>2 DEF RInv, Shaped
      <3>3. CASE q # p
        BY <2>1, <3>3 DEF RInv, Shaped
      <3> QED
        BY <3>1, <3>2, <3>3
    <2>5. UNCHANGED deleting
      BY <1>5 DEF ClaimEnsured
    <2>6. Listed' /\ Answered'
      <3>1. \A q \in Pods : req'[q].del = req[q].del
        BY <2>1, <2>2
      <3>2. \A q \in Pods : req'[q].stage = "done" => req'[q].result # "none"
        BY <2>1, <2>2 DEF RInv, Answered
      <3> QED
        BY <2>5, <3>1, <3>2 DEF RInv, Listed, Answered
    <2> QED
      BY <2>4, <2>6 DEF RInv
  <1>6. CASE UNCHANGED vars
    BY <1>6 DEF vars, RInv, Shaped, Listed, Answered
  <1> QED
    BY <1>1, <1>2, <1>3, <1>4, <1>5, <1>6 DEF Next
-----------------------------------------------------------------------------
(* A step that keeps every response, and the volumes of every patched   *)
(* pod, keeps the abstract answers and mounts.                          *)
LEMMA MappingKept ==
  ASSUME \A q \in Pods : req'[q].result = req[q].result,
         \A q \in Pods : req[q].result = "patched" => req'[q].vols = req[q].vols
  PROVE  AnswerOf' = AnswerOf /\ MountsOf' = MountsOf
  BY DEF AnswerOf, MountsOf

(* An answer with r is the abstract answer r, with the volumes map as    *)
(* the mounts when r is a patch.                                         *)
LEMMA MappingAnswered ==
  ASSUME TypeOK, NEW p \in Pods, NEW r \in Results, Answer(p, r)
  PROVE  /\ AnswerOf' = [AnswerOf EXCEPT ![p] = r]
         /\ MountsOf' = [MountsOf EXCEPT ![p] = IF r = "patched" THEN req[p].vols ELSE {}]
  <1>1. /\ req'[p].result = r /\ req'[p].vols = req[p].vols
        /\ \A q \in Pods \ {p} : req'[q] = req[q]
    BY AnswerFacts
  <1>2. AnswerOf' = [AnswerOf EXCEPT ![p] = r]
    BY <1>1 DEF AnswerOf
  <1>3. MountsOf' = [MountsOf EXCEPT ![p] = IF r = "patched" THEN req[p].vols ELSE {}]
    BY <1>1 DEF MountsOf
  <1> QED
    BY <1>2, <1>3

(* An admission not yet answered is undecided, and mounts nothing.       *)
LEMMA Undecided ==
  ASSUME AttachedSoFar, NEW p \in Pods, req[p].stage \in {"new", "loop"}
  PROVE  AnswerOf[p] = "none" /\ MountsOf[p] = {}
  BY DEF AttachedSoFar, MatchOf, AnswerOf, MountsOf

(* A failure of an admission not yet answered, with Errored or the error *)
(* mode's response, is an abstract failure.                              *)
LEMMA FailRefines ==
  ASSUME TypeOK, AttachedSoFar, NEW p \in Pods, req[p].stage \in {"new", "loop"},
         NEW r \in {"errored", IF Strict THEN "denied" ELSE "allowed"}, Answer(p, r),
         UNCHANGED deleting,
         \/ UNCHANGED claims
         \/ \E c \in Admission!Creatable(p) : claims' = claims \cup {c}
  PROVE  Admission!Next
  <1>1. r \in Results \ {"patched"}
    BY DEF Results
  <1>2. AnswerOf[p] = "none" /\ MountsOf[p] = {}
    BY Undecided
  <1>3. AnswerOf' = [AnswerOf EXCEPT ![p] = r] /\ MountsOf' = MountsOf
    <2>1. AnswerOf' = [AnswerOf EXCEPT ![p] = r] /\ MountsOf' = [MountsOf EXCEPT ![p] = {}]
      BY <1>1, MappingAnswered
    <2>2. MountsOf = [MountsOf EXCEPT ![p] = {}]
      BY <1>2 DEF MountsOf
    <2> QED
      BY <2>1, <2>2
  <1>4. Admission!Fail(p, r)
    BY <1>2, <1>3 DEF Admission!Fail, Admission!Undecided
  <1> QED
    BY <1>1, <1>4 DEF Admission!Next

(* Every step of the webhook is a step of the abstract admission, or    *)
(* leaves its state alone.                                               *)
LEMMA StepRefines ==
  IInv /\ AttachedSoFar /\ RInv /\ [Next]_vars => [Admission!Next]_Admission!avars
  <1> SUFFICES ASSUME IInv, AttachedSoFar, RInv, [Next]_vars
               PROVE  [Admission!Next]_Admission!avars
    OBVIOUS
  <1>0. TypeOK /\ req \in [Pods -> Request]
    BY DEF IInv, TypeOK
  <1>1. ASSUME NEW c \in Configs, DeleteConfig(c) PROVE Admission!Next
    <2>1. AnswerOf' = AnswerOf /\ MountsOf' = MountsOf
      BY <1>1, MappingKept DEF DeleteConfig
    <2> QED
      BY <1>1, <2>1 DEF DeleteConfig, Admission!DeleteConfig, Admission!Next
  <1>2. ASSUME NEW p \in Pods, ListConfigs(p) \/ ConfigSkipped(p)
        PROVE  UNCHANGED Admission!avars
    <2> DEFINE x == [req[p] EXCEPT !.stage = "loop", !.del = deleting]
               y == [req[p] EXCEPT !.i = req[p].i + 1]
    <2>1. req'[p] \in {x, y} /\ \A q \in Pods \ {p} : req'[q] = req[q]
      BY <1>0, <1>2 DEF ListConfigs, ConfigSkipped
    <2>2. x.result = req[p].result /\ x.vols = req[p].vols
          /\ y.result = req[p].result /\ y.vols = req[p].vols
      BY <1>0 DEF Request
    <2>3. AnswerOf' = AnswerOf /\ MountsOf' = MountsOf
      BY <2>1, <2>2, MappingKept
    <2> QED
      BY <1>2, <2>3 DEF ListConfigs, ConfigSkipped, Admission!avars
  <1>3. ASSUME NEW p \in Pods, ListFails(p) \/ StorageClassGetFails(p) \/ CreateFails(p)
        PROVE  Admission!Next
    <2>1. req[p].stage \in {"new", "loop"} /\ Answer(p, "errored")
      BY <1>3 DEF ListFails, StorageClassGetFails, CreateFails, AtMatch
    <2> QED
      BY <1>0, <1>3, <2>1, FailRefines
         DEF ListFails, StorageClassGetFails, CreateFails
  <1>4. ASSUME NEW p \in Pods, StorageClassNotFound(p) \/ NewPVCFails(p)
        PROVE  Admission!Next
    <2>1. req[p].stage \in {"new", "loop"} /\ Answer(p, IF Strict THEN "denied" ELSE "allowed")
      BY <1>4 DEF StorageClassNotFound, NewPVCFails, AtMatch, ErrorMode
    <2> QED
      BY <1>0, <1>4, <2>1, FailRefines DEF StorageClassNotFound, NewPVCFails
  <1>5. ASSUME NEW p \in Pods, ClaimEnsured(p) PROVE Admission!Next
    <2> DEFINE c == Current(p)
    <2>1. req[p].stage = "loop" /\ c \in Configs /\ c \in Admission!Creatable(p)
          /\ claims' = claims \cup {c} /\ UNCHANGED deleting
      BY <1>0, <1>5, CurrentConfig DEF ClaimEnsured, AtMatch, ClaimName, Admission!Creatable
    <2>2. CASE Collides(p)
      <3>1. Answer(p, IF Strict THEN "denied" ELSE "allowed")
        BY <1>5, <2>2 DEF ClaimEnsured, ErrorMode
      <3> QED
        BY <1>0, <2>1, <3>1, FailRefines
    <2>3. CASE ~Collides(p)
      <3> DEFINE nv == <<c, MountPoint[c]>>
                 x == [req[p] EXCEPT !.vols = req[p].vols \cup {nv}, !.i = req[p].i + 1]
      <3>1. req'[p] = x /\ \A q \in Pods \ {p} : req'[q] = req[q]
        BY <1>0, <1>5, <2>3 DEF ClaimEnsured, ClaimName
      <3>2. x.result = req[p].result /\ req[p].result = "none"
        BY <1>0, <2>1 DEF Request, AttachedSoFar, MatchOf
      <3>3. AnswerOf' = AnswerOf /\ MountsOf' = MountsOf
        BY <3>1, <3>2, MappingKept
      <3>4. AnswerOf[p] = "none"
        BY <2>1, Undecided
      <3>5. Admission!CreateClaim(p, c)
        BY <2>1, <3>3, <3>4 DEF Admission!CreateClaim, Admission!Undecided
      <3> QED
        BY <2>1, <3>5 DEF Admission!Next
    <2> QED
      BY <2>2, <2>3
  <1>6. ASSUME NEW p \in Pods, Respond(p) PROVE Admission!Next
    <2> DEFINE del == req[p].del
               M == Admission!Match(p, del)
    <2>1. req[p].stage = "loop" /\ req[p].i = Len(ConfigList) + 1 /\ MatchOf(p)
          /\ UNCHANGED <<deleting, claims>>
      BY <1>0, <1>6 DEF Respond, AttachedSoFar, Request
    <2>2. Claimed(p) = M
      <3>1. Seen(p) = Configs
        BY <2>1, ListAssumption DEF Seen
      <3> QED
        BY <2>1, <3>1 DEF MatchOf, Matches, Admission!Match
    <2>3. del \in Admission!Snapshots
      BY <1>0 DEF RInv, Listed, Request, Admission!Snapshots
    <2>4. AnswerOf[p] = "none"
      BY <2>1, Undecided
    <2>5. CASE req[p].vols = {}
      <3>1. Answer(p, "allowed") /\ M = {}
        BY <1>6, <2>2, <2>5 DEF Respond, Claimed
      <3>2. AnswerOf' = [AnswerOf EXCEPT ![p] = "allowed"] /\ MountsOf' = MountsOf
        <4>1. AnswerOf' = [AnswerOf EXCEPT ![p] = "allowed"]
              /\ MountsOf' = [MountsOf EXCEPT ![p] = {}]
          BY <1>0, <3>1, MappingAnswered DEF Results
        <4>2. MountsOf = [MountsOf EXCEPT ![p] = {}]
          BY <2>1, Undecided DEF MountsOf
        <4> QED
          BY <4>1, <4>2
      <3>3. Admission!Allow(p, del)
        BY <2>1, <2>4, <3>1, <3>2 DEF Admission!Allow, Admission!Undecided
      <3> QED
        BY <2>3, <3>3 DEF Admission!Next
    <2>6. CASE req[p].vols # {}
      <3>1. Answer(p, "patched") /\ M # {}
        <4>1. Answer(p, "patched")
          BY <1>6, <2>6 DEF Respond
        <4>2. Claimed(p) # {}
          BY <2>6 DEF Claimed
        <4> QED
          BY <2>2, <4>1, <4>2
      <3>2. req[p].vols = {<<d, MountPoint[d]>> : d \in M}
        <4>1. \A v \in req[p].vols : v = <<v[1], MountPoint[v[1]]>>
          BY DEF RInv, Shaped
        <4>2. \A v \in req[p].vols : v \in {<<d, MountPoint[d]>> : d \in M}
          BY <2>2, <4>1 DEF Claimed
        <4>3. \A d \in M : <<d, MountPoint[d]>> \in req[p].vols
          BY <2>2, <4>1 DEF Claimed
        <4> QED
          BY <4>2, <4>3
      <3>3. AnswerOf' = [AnswerOf EXCEPT ![p] = "patched"]
            /\ MountsOf' = [MountsOf EXCEPT ![p] = {<<d, MountPoint[d]>> : d \in M}]
        BY <1>0, <3>1, <3>2, MappingAnswered DEF Results
      <3>4. M \subseteq claims
        BY <2>2 DEF IInv, VolsCreated, Claimed
      <3>5. \A d, e \in M : d # e => MountPoint[d] # MountPoint[e]
        <4> SUFFICES ASSUME NEW d \in M, NEW e \in M, d # e
                     PROVE  MountPoint[d] # MountPoint[e]
          OBVIOUS
        <4>1. <<d, MountPoint[d]>> \in req[p].vols /\ <<e, MountPoint[e]>> \in req[p].vols
          BY <3>2
        <4> QED
          BY <4>1 DEF IInv, MountPointsUnique
      <3>6. Admission!Patch(p, del)
        BY <2>1, <2>4, <3>1, <3>3, <3>4, <3>5 DEF Admission!Patch, Admission!Undecided
      <3> QED
        BY <2>3, <3>6 DEF Admission!Next
    <2> QED
      BY <2>5, <2>6
  <1>7. CASE UNCHANGED vars
    BY <1>7 DEF vars, Admission!avars, AnswerOf, MountsOf
  <1> QED
    BY <1>1, <1>2, <1>3, <1>4, <1>5, <1>6, <1>7 DEF Next

(* The webhook implements the abstract admission (the check               *)
(* AdmissionSpec of the run mutator_safety): for every set of configs and *)
(* pods, every List order and either error mode, each admission is        *)
(* answered once; a patch mounts the existing claims of exactly the       *)
(* configs that selected the pod when listed, at distinct mount points;   *)
(* a failure answers Errored or the error mode's response; and the loop   *)
(* only creates claims of configs that select the pod.                    *)
THEOREM AdmissionRefinement == Spec => AdmissionSpec
  <1>1. Init => Admission!Init
    BY DEF Init, Admission!Init, AnswerOf, MountsOf
  <1>2. Init => IInv /\ AttachedSoFar /\ RInv
    BY InitIInv, InitAttached, InitRInv
  <1>3. IInv /\ AttachedSoFar /\ RInv /\ [Next]_vars => (IInv /\ AttachedSoFar /\ RInv)'
    BY NextIInv, NextAttached, NextRInv
  <1> QED
    BY <1>1, <1>2, <1>3, StepRefines, PTL DEF Spec, AdmissionSpec, Admission!Spec
=============================================================================
