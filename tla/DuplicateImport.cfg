\* A crash between the creation of a job and the save of its ID.
SPECIFICATION Spec
CONSTANTS
  N = 1
  Slots = 2
  TenantLimit = 2
  MaxJobs = 2
  MaxInput = 1
  MaxFaults = 0
  MaxInterrupts = 1
INVARIANT OneJobPerChunk
CHECK_DEADLOCK FALSE
