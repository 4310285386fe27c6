\* Three users through each target, cancelled, killed or failed once and run again,
\* then compared with the file.
SPECIFICATION FairSpec
CONSTANTS
  N = 3
  BatchSize = 2
  HandlerBatch = 1
  VerifyBatch = 2
  WithPassword = {1, 3}
  WithFactors = {2}
  WithMetadata = {3}
  MaxFaults = 1
  Bare = {3}
  Blocked = {2}
  HashParams = {"bcrypt", "scrypt"}
  ParamsOf <- MCParamsOf
  FlushSize = 2
  MaxRuns = 2
  MaxInterrupts = 1
  Scenarios <- MCScenarios
INVARIANTS
  TypeOK
  EveryUserReported
  SucceededIsFinished
  FoundIsKept
  DroppedStaysOut
  SameIDSameUsers
  DiffCountsEach
  MissingIsExplained
PROPERTIES
  BrokenFileIsLast
  CommandsReturn
\* The commands are over.
CHECK_DEADLOCK FALSE
