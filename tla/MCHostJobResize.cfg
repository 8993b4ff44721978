CONSTANTS
  k1 = k1
  k2 = k2
  Containers <- MCContainers
  Kind = "resize"
  HostPID = FALSE
  PreCommand = "lookup"
  FS = "ext4"
SPECIFICATION Spec
INVARIANTS ResizedWhenOk
CHECK_DEADLOCK FALSE
