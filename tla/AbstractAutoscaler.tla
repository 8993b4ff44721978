------------------------- MODULE AbstractAutoscaler -------------------------
(***************************************************************************)
(* What discoblocks' volume autoscaling promises, without monitor cycles,  *)
(* scrapes, caches or policies: only a claim that carries a discoblocks    *)
(* finalizer has its storage request raised, a raise never lowers it and  *)
(* never takes it more than one growth step beyond the capacity the       *)
(* volume has, and the resizer grows the capacity to the request.  The     *)
(* workload fills and empties the file system meanwhile.                  *)
(***************************************************************************)
EXTENDS Naturals

CONSTANTS
  PVCs,      \* the claims
  Managed,   \* the claims that carry a discoblocks finalizer
  InitCaps,  \* capacities a claim is provisioned with
  Step       \* the growth step

VARIABLES request, capacity, used

avars == <<request, capacity, used>>

Init ==
  /\ capacity \in [PVCs -> InitCaps]
  /\ request = capacity
  /\ used = [p \in PVCs |-> 0]

(* The autoscaler raises a managed claim's request to r, at most one     *)
(* step beyond its capacity.                                             *)
Raises(p) == request[p] + 1 .. capacity[p] + Step

RaiseRequest(p, r) ==
  /\ p \in Managed
  /\ r \in Raises(p)
  /\ request' = [request EXCEPT ![p] = r]
  /\ UNCHANGED <<capacity, used>>

(* The volume and its file system are grown to the request.              *)
Expand(p) ==
  /\ capacity[p] < request[p]
  /\ capacity' = [capacity EXCEPT ![p] = request[p]]
  /\ UNCHANGED <<request, used>>

(* The workload writes or deletes one unit on the file system.           *)
Fill(p) ==
  /\ used[p] < capacity[p]
  /\ used' = [used EXCEPT ![p] = @ + 1]
  /\ UNCHANGED <<request, capacity>>

Free(p) ==
  /\ used[p] > 0
  /\ used' = [used EXCEPT ![p] = @ - 1]
  /\ UNCHANGED <<request, capacity>>

Next ==
  \E p \in PVCs :
    \/ \E r \in Raises(p) : RaiseRequest(p, r)
    \/ Expand(p) \/ Fill(p) \/ Free(p)

Spec == Init /\ [][Next]_avars
=============================================================================
