CONSTANTS
  k1 = k1
  k2 = k2
  Containers <- MCContainers
  Kind = "mount"
  HostPID = FALSE
  PreCommand = "lookup"
  FS = "ext4"
SPECIFICATION Spec
INVARIANTS MountedInEveryContainer
CHECK_DEADLOCK FALSE
