CONSTANTS
  v1 = v1
  v2 = v2
  Absent = Absent
  PVCs = {v1, v2}
SPECIFICATION FairSpec
PROPERTIES NoEntryForGoneClaims
