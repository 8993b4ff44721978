------------------------- MODULE MCVolumeMonitor -------------------------
(* A small cluster for VolumeMonitor: one pod p1 behind the metrics      *)
(* endpoints of two DiskConfigs c1 and c2, whose rendered mount points   *)
(* are m1 and m2.  p1 mounts claim v1, which carries c1's finalizer, at  *)
(* m1, and claim v2, which carries no finalizer, at m2: every sample of  *)
(* p1 is scraped once per config, so c1 sees v2's line and c2 sees v1's *)
(* and v2's.  Claim sizes, maxima and the number of policy edits are    *)
(* given per run in the .cfg files.                                     *)
EXTENDS VolumeMonitor, TLC

CONSTANTS p1, c1, c2, v1, v2, m1, m2

MCPattern == c1 :> m1 @@ c2 :> m2
MCMounts == p1 :> (m1 :> v1 @@ m2 :> v2)
MCOwner == v1 :> c1 @@ v2 :> NoConfig
MCEndpoints == {<<p1, c1>>, <<p1, c2>>}
=============================================================================
