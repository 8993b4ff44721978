------------------------- MODULE AbstractAdmission -------------------------
(***************************************************************************)
(* What discoblocks' pod admission webhook promises, without the listing  *)
(* loop, its index or its partial volumes map.  Each pod's admission is   *)
(* answered once and at once.  A patched pod mounts, at its own mount     *)
(* point, the claim of exactly the configs that select it among those not *)
(* being deleted at some moment no later than the answer.  No two of     *)
(* these share a mount point, and each claim exists.  A pod nothing       *)
(* selects is admitted unmodified.  An admission may fail at any moment,  *)
(* with Errored or with the error mode's response, and may leave behind  *)
(* a claim of a config that selects the pod.  Meanwhile an undecided      *)
(* admission may create such a claim, and configs get deletion stamps.    *)
(***************************************************************************)
EXTENDS Naturals

CONSTANTS Configs, Pods, Selects, MountPoint, SC, Strict

VARIABLES
  deleting,   \* [Configs -> BOOLEAN]: the config carries a deletion stamp
  claims,     \* claims in the API server, by the config they are named after
  answer,     \* [Pods -> response], "none" while undecided
  mounts      \* [Pods -> set of <<claim, mount point>>] the patch adds

avars == <<deleting, claims, answer, mounts>>

Init ==
  /\ deleting = [c \in Configs |-> FALSE]
  /\ claims = {}
  /\ answer = [p \in Pods |-> "none"]
  /\ mounts = [p \in Pods |-> {}]

(* The deletion stamps an admission may have seen: a subset of today's.  *)
Snapshots == {del \in [Configs -> BOOLEAN] : \A c \in Configs : del[c] => deleting[c]}

(* The configs that select p and carry no stamp in snapshot del.         *)
Match(p, del) == {c \in Configs : ~del[c] /\ p \in Selects[c]}

(* A claim an undecided admission of p may create.                       *)
Creatable(p) == {c \in Configs : SC[c] = "ok" /\ p \in Selects[c]}

Undecided(p) == answer[p] = "none"

DeleteConfig(c) ==
  /\ ~deleting[c]
  /\ deleting' = [deleting EXCEPT ![c] = TRUE]
  /\ UNCHANGED <<claims, answer, mounts>>

CreateClaim(p, c) ==
  /\ Undecided(p)
  /\ c \in Creatable(p)
  /\ claims' = claims \cup {c}
  /\ UNCHANGED <<deleting, answer, mounts>>

(* The admission fails with r, possibly after creating one more claim.   *)
Fail(p, r) ==
  /\ Undecided(p)
  /\ r \in {"errored", IF Strict THEN "denied" ELSE "allowed"}
  /\ answer' = [answer EXCEPT ![p] = r]
  /\ \/ UNCHANGED claims
     \/ \E c \in Creatable(p) : claims' = claims \cup {c}
  /\ UNCHANGED <<deleting, mounts>>

(* Nothing selects p: it is admitted unmodified.                          *)
Allow(p, del) ==
  /\ Undecided(p)
  /\ Match(p, del) = {}
  /\ answer' = [answer EXCEPT ![p] = "allowed"]
  /\ UNCHANGED <<deleting, claims, mounts>>

(* p is patched with one volume per matching config, at distinct mount  *)
(* points, every claim of them existing.                                 *)
Patch(p, del) ==
  LET M == Match(p, del) IN
  /\ Undecided(p)
  /\ M # {}
  /\ M \subseteq claims
  /\ \A c, d \in M : c # d => MountPoint[c] # MountPoint[d]
  /\ answer' = [answer EXCEPT ![p] = "patched"]
  /\ mounts' = [mounts EXCEPT ![p] = {<<c, MountPoint[c]>> : c \in M}]
  /\ UNCHANGED <<deleting, claims>>

Next ==
  \/ \E c \in Configs : DeleteConfig(c)
  \/ \E p \in Pods :
       \/ \E c \in Configs : CreateClaim(p, c)
       \/ \E r \in {"errored", "denied", "allowed"} : Fail(p, r)
       \/ \E del \in Snapshots : Allow(p, del) \/ Patch(p, del)

Spec == Init /\ [][Next]_avars
=============================================================================
