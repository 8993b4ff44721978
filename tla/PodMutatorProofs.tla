------------------------- MODULE PodMutatorProofs -------------------------
(***************************************************************************)
(* Proofs about PodMutator for every set of configs and pods, every list  *)
(* order and either error mode: no admission assigns one mount path to    *)
(* two claims, and every claim a patched pod mounts exists.               *)
(*                                                                         *)
(* PatchedClaimsExist is not inductive: a volume enters the map during    *)
(* the loop, long before the pod is patched.  The inductive invariant     *)
(* says that every volume in any admission's map names a claim that       *)
(* exists (claims are only ever added).                                   *)
(***************************************************************************)
EXTENDS PodMutator, TLAPS

(* Every volume in an admission's map, finished or not, names a claim    *)
(* in the API server.                                                    *)
VolsCreated == \A p \in Pods : \A v \in req[p].vols : v[1] \in claims

(* The configs an admission's loop has walked past, the configs it must  *)
(* attach, and the claims in its volumes map.                           *)
Seen(p) == {ConfigList[k] : k \in 1..req[p].i - 1}

Matches(p) == {c \in Configs : ~req[p].del[c] /\ p \in Selects[c]}

Claimed(p) == {v[1] : v \in req[p].vols}

(* What the loop has done for admission p so far: a new admission has   *)
(* walked nothing; one in its loop has attached exactly the matching     *)
(* configs among those it has walked past and has no response yet; a     *)
(* patched one carries exactly its matching configs.                     *)
MatchOf(p) ==
  /\ req[p].stage = "new" => req[p].i = 1 /\ req[p].vols = {}
  /\ req[p].stage = "loop" => Claimed(p) = Matches(p) \cap Seen(p)
  /\ req[p].stage # "done" => req[p].result = "none"
  /\ req[p].result = "patched" => Claimed(p) = Matches(p)

AttachedSoFar == \A p \in Pods : MatchOf(p)

IInv == TypeOK /\ MountPointsUnique /\ VolsCreated

USE MutatorAssumption

-----------------------------------------------------------------------------
(* The config an admission in its loop is looking at is a config.        *)
LEMMA CurrentConfig ==
  ASSUME TypeOK, NEW p \in Pods, req[p].i <= Len(ConfigList)
  PROVE  Current(p) \in Configs
  <1>1. req[p].i \in 1..Len(ConfigList)
    BY DEF TypeOK, Request
  <1> QED
    BY <1>1 DEF Current

(* Replacing one admission by a record of the right type with the same  *)
(* volumes map keeps the types and every volumes map.                     *)
LEMMA UpdateKeeps ==
  ASSUME NEW p \in Pods, req \in [Pods -> Request], NEW x \in Request,
         x.vols = req[p].vols, req' = [req EXCEPT ![p] = x]
  PROVE  /\ req' \in [Pods -> Request]
         /\ \A q \in Pods : req'[q].vols = req[q].vols
  OBVIOUS

(* Answering an admission keeps the types and every volumes map.         *)
LEMMA AnswerKeeps ==
  ASSUME TypeOK, NEW p \in Pods, NEW r \in Results, Answer(p, r)
  PROVE  /\ req' \in [Pods -> Request]
         /\ \A q \in Pods : req'[q].vols = req[q].vols
  <1> DEFINE x == [req[p] EXCEPT !.stage = "done", !.result = r]
  <1>1. req[p] \in Request /\ req \in [Pods -> Request]
    BY DEF TypeOK
  <1>2. req' = [req EXCEPT ![p] = x]
    BY <1>1 DEF Answer
  <1>3. x \in Request /\ x.vols = req[p].vols
    BY <1>1, Zenon DEF Request
  <1> QED
    BY <1>1, <1>2, <1>3, UpdateKeeps

(* errorMode answers with one of two responses.                          *)
LEMMA ErrorModeAnswers ==
  ASSUME NEW p \in Pods, ErrorMode(p)
  PROVE  \E r \in Results : Answer(p, r)
  <1>1. CASE Strict
    BY <1>1 DEF ErrorMode, Results
  <1>2. CASE ~Strict
    BY <1>2 DEF ErrorMode, Results
  <1> QED
    BY <1>1, <1>2

(* A step that leaves claims and every volumes map alone, and keeps the *)
(* types, keeps the inductive invariant.                                 *)
LEMMA VolsKept ==
  ASSUME IInv, claims' = claims, deleting' \in [Configs -> BOOLEAN],
         req' \in [Pods -> Request], \A q \in Pods : req'[q].vols = req[q].vols
  PROVE  IInv'
  BY DEF IInv, TypeOK, MountPointsUnique, VolsCreated

-----------------------------------------------------------------------------
LEMMA InitIInv == Init => IInv
  <1> SUFFICES ASSUME Init PROVE IInv
    OBVIOUS
  <1>1. Len(ConfigList) \in Nat
    OBVIOUS
  <1>2. req \in [Pods -> Request]
    BY <1>1 DEF Init, Request, Results
  <1> QED
    BY <1>2 DEF Init, IInv, TypeOK, MountPointsUnique, VolsCreated

(* The claim-ensuring step, the only one that changes a volumes map.     *)
LEMMA ClaimEnsuredIInv ==
  ASSUME IInv, NEW p \in Pods, ClaimEnsured(p)
  PROVE  IInv'
  <1> DEFINE c == Current(p)
  <1>1. TypeOK /\ req[p].i \in 1..Len(ConfigList) /\ c \in Configs
    BY CurrentConfig DEF ClaimEnsured, AtMatch, IInv, TypeOK, Request
  <1>2. claims' = claims \cup {c} /\ claims' \subseteq Configs
    BY <1>1 DEF ClaimEnsured, ClaimName, TypeOK
  <1>3. CASE Collides(p)
    <2>1. \E r \in Results : Answer(p, r)
      BY <1>3, ErrorModeAnswers DEF ClaimEnsured
    <2>2. req' \in [Pods -> Request] /\ \A q \in Pods : req'[q].vols = req[q].vols
      BY <1>1, <2>1, AnswerKeeps
    <2> QED
      BY <1>2, <2>2 DEF ClaimEnsured, IInv, TypeOK, MountPointsUnique, VolsCreated
  <1>4. CASE ~Collides(p)
    <2> DEFINE nv == <<c, MountPoint[c]>>
    <2>1. req' = [req EXCEPT ![p].vols = @ \cup {nv}, ![p].i = @ + 1]
      BY <1>4 DEF ClaimEnsured, ClaimName
    <2>2. req[p].i + 1 \in 1..Len(ConfigList) + 1 /\ nv \in Configs \X Range(MountPoint)
      BY <1>1 DEF Range
    <2>3. req' \in [Pods -> Request]
      BY <1>1, <2>1, <2>2 DEF TypeOK, Request
    <2>4. \A v \in req[p].vols : v[2] # MountPoint[c]
      BY <1>4 DEF Collides
    <2>5. MountPointsUnique'
      <3> SUFFICES ASSUME NEW q \in Pods, NEW v \in req'[q].vols, NEW w \in req'[q].vols, v # w
                   PROVE  v[2] # w[2]
        BY DEF MountPointsUnique
      <3>1. CASE q = p
        <4>1. req'[p].vols = req[p].vols \cup {nv}
          BY <1>1, <2>1 DEF TypeOK
        <4> QED
          BY <2>4, <3>1, <4>1 DEF IInv, MountPointsUnique
      <3>2. CASE q # p
        BY <1>1, <2>1, <3>2 DEF IInv, MountPointsUnique, TypeOK
      <3> QED
        BY <3>1, <3>2
    <2>6. VolsCreated'
      <3> SUFFICES ASSUME NEW q \in Pods, NEW v \in req'[q].vols PROVE v[1] \in claims'
        BY DEF VolsCreated
      <3>1. CASE q = p
        BY <1>1, <1>2, <2>1, <3>1 DEF IInv, VolsCreated, TypeOK
      <3>2. CASE q # p
        BY <1>1, <1>2, <2>1, <3>2 DEF IInv, VolsCreated, TypeOK
      <3> QED
        BY <3>1, <3>2
    <2> QED
      BY <1>2, <2>3, <2>5, <2>6 DEF ClaimEnsured, IInv, TypeOK
  <1> QED
    BY <1>3, <1>4

LEMMA NextIInv == IInv /\ [Next]_vars => IInv'
  <1> SUFFICES ASSUME IInv, [Next]_vars PROVE IInv'
    OBVIOUS
  <1>0. TypeOK
    BY DEF IInv
  <1>1. ASSUME NEW c \in Configs, DeleteConfig(c) PROVE IInv'
    BY <1>0, <1>1, VolsKept DEF DeleteConfig, TypeOK
  <1>2. ASSUME NEW p \in Pods, ListConfigs(p) PROVE IInv'
    <2> DEFINE x == [req[p] EXCEPT !.stage = "loop", !.del = deleting]
    <2>0. req[p] \in Request /\ req \in [Pods -> Request]
      BY <1>0 DEF TypeOK
    <2>1. req' \in [Pods -> Request] /\ \A q \in Pods : req'[q].vols = req[q].vols
      <3>1. req' = [req EXCEPT ![p] = x]
        BY <2>0, <1>2 DEF ListConfigs
      <3>2. x \in Request /\ x.vols = req[p].vols
        BY <2>0, <1>0, Zenon DEF TypeOK, Request
      <3> QED
        BY <2>0, <3>1, <3>2, UpdateKeeps
    <2> QED
      BY <1>0, <1>2, <2>1, VolsKept DEF ListConfigs, TypeOK
  <1>3. ASSUME NEW p \in Pods, ConfigSkipped(p) PROVE IInv'
    <2> DEFINE x == [req[p] EXCEPT !.i = req[p].i + 1]
    <2>0. req[p] \in Request /\ req \in [Pods -> Request]
      BY <1>0 DEF TypeOK
    <2>1. req' \in [Pods -> Request] /\ \A q \in Pods : req'[q].vols = req[q].vols
      <3>1. req' = [req EXCEPT ![p] = x]
        BY <2>0, <1>3 DEF ConfigSkipped
      <3>2. req[p].i + 1 \in 1..Len(ConfigList) + 1
        BY <2>0, <1>3 DEF ConfigSkipped, Request
      <3>3. x \in Request /\ x.vols = req[p].vols
        BY <2>0, <3>2, Zenon DEF Request
      <3> QED
        BY <2>0, <3>1, <3>3, UpdateKeeps
    <2> QED
      BY <1>0, <1>3, <2>1, VolsKept DEF ConfigSkipped, TypeOK
  <1>4. ASSUME NEW p \in Pods,
               \/ ListFails(p) \/ StorageClassNotFound(p) \/ StorageClassGetFails(p)
               \/ NewPVCFails(p) \/ CreateFails(p) \/ Respond(p)
        PROVE  IInv'
    <2>1. \E r \in Results : Answer(p, r)
      BY <1>4, ErrorModeAnswers
         DEF ListFails, StorageClassNotFound, StorageClassGetFails, NewPVCFails, CreateFails,
             Respond, Results
    <2>2. req' \in [Pods -> Request] /\ \A q \in Pods : req'[q].vols = req[q].vols
      BY <1>0, <2>1, AnswerKeeps
    <2>3. UNCHANGED <<deleting, claims>>
      BY <1>4 DEF ListFails, StorageClassNotFound, StorageClassGetFails, NewPVCFails,
                  CreateFails, Respond
    <2> QED
      BY <1>0, <2>2, <2>3, VolsKept DEF TypeOK
  <1>5. ASSUME NEW p \in Pods, ClaimEnsured(p) PROVE IInv'
    BY <1>5, ClaimEnsuredIInv
  <1>6. CASE UNCHANGED vars
    BY <1>6 DEF vars, IInv, TypeOK, MountPointsUnique, VolsCreated
  <1> QED
    BY <1>1, <1>2, <1>3, <1>4, <1>5, <1>6 DEF Next

-----------------------------------------------------------------------------
(* Spec 3 and 8 (the check MountPointsUnique of the run mutator_safety): *)
(* for every set of configs and pods, every list order and either error  *)
(* mode, however admissions interleave, no admission's volumes map holds *)
(* two claims at one mount path.                                         *)
THEOREM UniqueMountPoints == Spec => []MountPointsUnique
  <1>1. IInv => MountPointsUnique
    BY DEF IInv
  <1> QED
    BY InitIInv, NextIInv, <1>1, PTL DEF Spec

(* Every claim a patched pod mounts exists in the API server (the check  *)
(* PatchedClaimsExist of the run mutator_safety), for all constants.      *)
THEOREM PatchedClaimsCreated == Spec => []PatchedClaimsExist
  <1>1. IInv => PatchedClaimsExist
    BY DEF IInv, VolsCreated, PatchedClaimsExist
  <1> QED
    BY InitIInv, NextIInv, <1>1, PTL DEF Spec
-----------------------------------------------------------------------------
(* PatchedCarriesEveryMatch.  The loop attaches the matching configs one  *)
(* index at a time, so the invariant relates the claims attached so far  *)
(* to the prefix of the list walked so far (AttachedSoFar); Respond       *)
(* patches only at the end of the list, which holds every config.        *)

(* Walking one more index adds the config at that index.                 *)
LEMMA SeenStep ==
  ASSUME NEW n \in Nat, n >= 1
  PROVE  {ConfigList[k] : k \in 1..n} = {ConfigList[k] : k \in 1..n-1} \cup {ConfigList[n]}
  <1>1. 1..n = (1..n-1) \cup {n}
    OBVIOUS
  <1> QED
    BY <1>1

(* A claim named after each config of S is S.                            *)
LEMMA ClaimNames ==
  ASSUME NEW S
  PROVE  {ClaimName(c) : c \in S} = S
  BY DEF ClaimName

(* The invariant at one pod reads only that pod's admission.             *)
LEMMA MatchKept ==
  ASSUME NEW q \in Pods, MatchOf(q), req'[q] = req[q]
  PROVE  MatchOf(q)'
  BY DEF MatchOf, Seen, Matches, Claimed

(* AttachedSoFar gives the checked property.                             *)
LEMMA AttachedPatched ==
  AttachedSoFar => PatchedCarriesEveryMatch
  BY ClaimNames DEF AttachedSoFar, MatchOf, Claimed, Matches, PatchedCarriesEveryMatch

LEMMA InitAttached == Init => AttachedSoFar
  BY DEF Init, AttachedSoFar, MatchOf

(* Answering an admission that was not yet answered keeps the invariant  *)
(* at that pod, provided a patch carries its matching configs.           *)
LEMMA AnswerMatch ==
  ASSUME TypeOK, NEW p \in Pods, NEW r \in Results, Answer(p, r),
         r = "patched" => Claimed(p) = Matches(p)
  PROVE  MatchOf(p)'
  <1> DEFINE x == [req[p] EXCEPT !.stage = "done", !.result = r]
  <1>1. req[p] \in Request /\ req \in [Pods -> Request]
    BY DEF TypeOK
  <1>2. req'[p] = x
    BY <1>1 DEF Answer
  <1>3. x.stage = "done" /\ x.result = r /\ x.vols = req[p].vols /\ x.del = req[p].del
    BY <1>1 DEF Request
  <1> QED
    BY <1>2, <1>3 DEF MatchOf, Claimed, Matches

(* Every step keeps the invariant at the pod it acts on, and so at all.  *)
LEMMA NextAttached == IInv /\ AttachedSoFar /\ [Next]_vars => AttachedSoFar'
  <1> SUFFICES ASSUME IInv, AttachedSoFar, [Next]_vars PROVE AttachedSoFar'
    OBVIOUS
  <1>0. TypeOK /\ req \in [Pods -> Request]
    BY DEF IInv, TypeOK
  (* A step of admission p keeps the invariant at every other pod.       *)
  <1>a. ASSUME NEW p \in Pods, MatchOf(p)', \A q \in Pods \ {p} : req'[q] = req[q]
        PROVE  AttachedSoFar'
    BY <1>a, MatchKept DEF AttachedSoFar
  (* An answer that is not a patch.                                      *)
  <1>b. ASSUME NEW p \in Pods, NEW r \in Results \ {"patched"}, Answer(p, r)
        PROVE  AttachedSoFar'
    <2>1. MatchOf(p)'
      BY <1>0, <1>b, AnswerMatch
    <2>2. \A q \in Pods \ {p} : req'[q] = req[q]
      BY <1>0, <1>b DEF Answer
    <2> QED
      BY <2>1, <2>2, <1>a
  <1>1. ASSUME NEW c \in Configs, DeleteConfig(c) PROVE AttachedSoFar'
    BY <1>1, MatchKept DEF DeleteConfig, AttachedSoFar
  <1>2. ASSUME NEW p \in Pods, ListConfigs(p) PROVE AttachedSoFar'
    <2> DEFINE x == [req[p] EXCEPT !.stage = "loop", !.del = deleting]
    <2>1. req'[p] = x /\ \A q \in Pods \ {p} : req'[q] = req[q]
      BY <1>0, <1>2 DEF ListConfigs
    <2>2. MatchOf(p) /\ req[p] \in Request
      BY <1>0 DEF AttachedSoFar
    <2>3. x.stage = "loop" /\ x.i = 1 /\ x.vols = {} /\ x.result = "none"
      BY <1>2, <2>2 DEF ListConfigs, MatchOf, Request
    <2>4. MatchOf(p)'
      BY <2>1, <2>3 DEF MatchOf, Claimed, Seen
    <2> QED
      BY <2>1, <2>4, <1>a
  <1>3. ASSUME NEW p \in Pods, ConfigSkipped(p) PROVE AttachedSoFar'
    <2> DEFINE x == [req[p] EXCEPT !.i = req[p].i + 1]
               c == ConfigList[req[p].i]
    <2>1. req'[p] = x /\ \A q \in Pods \ {p} : req'[q] = req[q]
      BY <1>0, <1>3 DEF ConfigSkipped
    <2>2. MatchOf(p) /\ req[p] \in Request /\ req[p].stage = "loop"
          /\ req[p].i \in 1..Len(ConfigList) /\ c \notin Matches(p)
      BY <1>0, <1>3 DEF AttachedSoFar, ConfigSkipped, Current, Request, Matches
    <2>3. x.stage = "loop" /\ x.i = req[p].i + 1 /\ x.vols = req[p].vols
          /\ x.del = req[p].del /\ x.result = req[p].result
      BY <2>2 DEF Request
    <2>4. Seen(p)' = Seen(p) \cup {c}
      BY <2>1, <2>2, <2>3, SeenStep DEF Seen
    <2>5. Claimed(p)' = Claimed(p) /\ Matches(p)' = Matches(p)
      BY <2>1, <2>3 DEF Claimed, Matches
    <2>6. MatchOf(p)'
      BY <2>1, <2>2, <2>3, <2>4, <2>5 DEF MatchOf
    <2> QED
      BY <2>1, <2>6, <1>a
  <1>4. ASSUME NEW p \in Pods,
               \/ ListFails(p) \/ StorageClassNotFound(p) \/ StorageClassGetFails(p)
               \/ NewPVCFails(p) \/ CreateFails(p)
        PROVE  AttachedSoFar'
    <2>1. \E r \in Results \ {"patched"} : Answer(p, r)
      BY <1>4 DEF ListFails, StorageClassNotFound, StorageClassGetFails, NewPVCFails,
                  CreateFails, ErrorMode, Results
    <2> QED
      BY <2>1, <1>b
  <1>5. ASSUME NEW p \in Pods, Respond(p) PROVE AttachedSoFar'
    <2>1. CASE req[p].vols = {}
      BY <1>5, <2>1, <1>b DEF Respond, Results
    <2>2. CASE req[p].vols # {}
      <3>1. req[p].stage = "loop" /\ req[p].i = Len(ConfigList) + 1 /\ MatchOf(p)
        BY <1>0, <1>5 DEF Respond, AttachedSoFar, Request
      <3>2. Seen(p) = Configs
        BY <3>1, ListAssumption DEF Seen
      <3>3. Claimed(p) = Matches(p)
        BY <3>1, <3>2 DEF MatchOf, Matches
      <3>4. Answer(p, "patched")
        BY <1>5, <2>2 DEF Respond
      <3>5. MatchOf(p)' /\ \A q \in Pods \ {p} : req'[q] = req[q]
        BY <1>0, <3>3, <3>4, AnswerMatch DEF Answer, Results
      <3> QED
        BY <3>5, <1>a
    <2> QED
      BY <2>1, <2>2
  <1>6. ASSUME NEW p \in Pods, ClaimEnsured(p) PROVE AttachedSoFar'
    <2> DEFINE c == Current(p)
               nv == <<c, MountPoint[c]>>
               x == [req[p] EXCEPT !.vols = req[p].vols \cup {nv}, !.i = req[p].i + 1]
    <2>0. MatchOf(p) /\ req[p] \in Request /\ req[p].stage = "loop"
          /\ req[p].i \in 1..Len(ConfigList) /\ c \in Matches(p)
      BY <1>0, <1>6, CurrentConfig DEF AttachedSoFar, ClaimEnsured, AtMatch, Request, Matches
    <2>1. CASE Collides(p)
      <3>1. \E r \in Results \ {"patched"} : Answer(p, r)
        BY <1>6, <2>1 DEF ClaimEnsured, ErrorMode, Results
      <3> QED
        BY <3>1, <1>b
    <2>2. CASE ~Collides(p)
      <3>1. req'[p] = x /\ \A q \in Pods \ {p} : req'[q] = req[q]
        BY <1>0, <1>6, <2>2 DEF ClaimEnsured, ClaimName
      <3>2. x.stage = "loop" /\ x.i = req[p].i + 1 /\ x.vols = req[p].vols \cup {nv}
            /\ x.del = req[p].del /\ x.result = req[p].result
        BY <2>0 DEF Request
      <3>3. Seen(p)' = Seen(p) \cup {c}
        BY <2>0, <3>1, <3>2, SeenStep DEF Seen, Current
      <3>4. Claimed(p)' = Claimed(p) \cup {c} /\ Matches(p)' = Matches(p)
        <4>1. req'[p].vols = req[p].vols \cup {nv} /\ req'[p].del = req[p].del
          BY <3>1, <3>2
        <4>2. {v[1] : v \in req[p].vols \cup {nv}} = Claimed(p) \cup {c}
          <5>1. nv[1] = c
            OBVIOUS
          <5> QED
            BY <5>1 DEF Claimed
        <4> QED
          BY <4>1, <4>2 DEF Claimed, Matches
      <3>5. MatchOf(p)'
        BY <2>0, <3>1, <3>2, <3>3, <3>4 DEF MatchOf
      <3> QED
        BY <3>1, <3>5, <1>a
    <2> QED
      BY <2>1, <2>2
  <1>7. CASE UNCHANGED vars
    BY <1>7, MatchKept DEF vars, AttachedSoFar
  <1> QED
    BY <1>1, <1>2, <1>3, <1>4, <1>5, <1>6, <1>7 DEF Next

(* Spec 4.7 (the check PatchedCarriesEveryMatch of the run                *)
(* mutator_safety): for every set of configs and pods, every List order, *)
(* either error mode and however admissions and config deletions          *)
(* interleave, a patched pod carries a volume of exactly the configs      *)
(* that select it and were not being deleted when its admission listed    *)
(* them.                                                                  *)
THEOREM EveryMatchAttached == Spec => []PatchedCarriesEveryMatch
  <1>1. Init => IInv /\ AttachedSoFar
    BY InitIInv, InitAttached
  <1>2. IInv /\ AttachedSoFar /\ [Next]_vars => (IInv /\ AttachedSoFar)'
    BY NextIInv, NextAttached
  <1>3. IInv /\ AttachedSoFar => PatchedCarriesEveryMatch
    BY AttachedPatched
  <1> QED
    BY <1>1, <1>2, <1>3, PTL DEF Spec
=============================================================================
