------------------------- MODULE MCHostJobScript -------------------------
(* Host jobs for a pod with two target containers k1 and k2.              *)
EXTENDS HostJobScript, TLC

CONSTANTS k1, k2

MCContainers == <<k1, k2>>
=============================================================================
