SPECIFICATION UploadFairSpec
CONSTANTS
  Job = {j1, j2}
  BackoffLimit = 1
  MaxFaults = 3
INVARIANTS OneArtifact UriIsUploaded
PROPERTIES JobsEnd PendingSettles
CHECK_DEADLOCK FALSE
