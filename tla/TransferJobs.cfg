SPECIFICATION Spec
CONSTANTS
  Job = {j1, j2}
  BackoffLimit = 1
  MaxFaults = 2
  MaxLost = 1
  Needed = {"configmap", "dest"}
INVARIANTS TypeOK NoLeak
PROPERTIES UploadSpec
CHECK_DEADLOCK FALSE
