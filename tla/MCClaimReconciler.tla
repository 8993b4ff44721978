------------------------- MODULE MCClaimReconciler -------------------------
(***************************************************************************)
(* Two claims of one DiskConfig, each going once through its life cycle   *)
(* (created, bound, deleted, finalizer removed), with the single worker,  *)
(* the semaphore shared with another holder, and the monitor ticker.      *)
(***************************************************************************)
EXTENDS ClaimReconciler, TLC

CONSTANTS v1, v2

=============================================================================
