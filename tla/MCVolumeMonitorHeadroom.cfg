CONSTANTS
  p1 = p1  c1 = c1  c2 = c2
  v1 = v1  v2 = v2  m1 = m1  m2 = m2
  NoConfig = NoConfig
  NoPVC = NoPVC
  Pods = {p1}
  Configs = {c1, c2}
  PVCs = {v1, v2}
  MountPoints = {m1, m2}
  Pattern <- MCPattern
  Mounts <- MCMounts
  Owner <- MCOwner
  Endpoints <- MCEndpoints
  Percents = {50}
  MaxChoices = {3, 6}
  InitCaps = {2}
  QuantityBound = 6
  MaxEdits = 0
SPECIFICATION Spec
PROPERTIES NoResizeWithSpecHeadroom
