CONSTANTS
  c1 = c1
  c2 = c2
  c3 = c3
  c4 = c4
  c5 = c5
  p1 = p1
  p2 = p2
  Configs = {c1, c2, c3, c4, c5}
  Pods = {p1, p2}
  ConfigList <- MCConfigList
  Selects <- MCSelects
  MountPoint <- MCMountPoint
  SC <- MCSC
  Strict = FALSE
SPECIFICATION Spec
INVARIANTS
  ClaimPerPod
CHECK_DEADLOCK FALSE
