\* Three chunks on two slots, crashed, cancelled or failed once and resumed, on an
\* input that may have changed.
SPECIFICATION FairSpec
CONSTANTS
  N = 3
  Slots = 2
  TenantLimit = 2
  MaxJobs = 3
  MaxInput = 2
  MaxFaults = 1
  MaxInterrupts = 1
INVARIANTS
  TypeOK
  SlotsAccounted
  CheckpointsTrue
  SuccessCovers
PROPERTIES
  NotResubmitted
  NoneStartedAfterFailure
  ImportReturns
\* An import that has succeeded is over.
CHECK_DEADLOCK FALSE
