--------------------------- MODULE MCPodMutator ---------------------------
EXTENDS PodMutator, TLC

CONSTANTS c1, c2, c3, c4, c5, p1, p2

(* Five configs in list order: c1 and c3 render the same mount point,    *)
(* c4's StorageClass is missing and c5's driver refuses the claim stub.  *)
MCConfigList == <<c1, c2, c3, c4, c5>>

MCSelects == (c1 :> {p1, p2}) @@ (c2 :> {p1}) @@ (c3 :> {p2}) @@ (c4 :> {p2}) @@ (c5 :> {p1})

MCMountPoint == (c1 :> "m1") @@ (c2 :> "m2") @@ (c3 :> "m1") @@ (c4 :> "m2") @@ (c5 :> "m2")

MCSC == (c1 :> "ok") @@ (c2 :> "ok") @@ (c3 :> "ok") @@ (c4 :> "missing") @@ (c5 :> "invalid")
=============================================================================
