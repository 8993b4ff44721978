CONSTANTS
  k1 = k1
  k2 = k2
  Containers <- MCContainers
  Kind = "mount"
  HostPID = TRUE
  PreCommand = "lookup"
  FS = "ext4"
SPECIFICATION Spec
PROPERTIES WorkingCommandsSucceed
CHECK_DEADLOCK FALSE
