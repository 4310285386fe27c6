\* Two commands, crashes, cancellations, faults, retries.
SPECIFICATION Spec
CONSTANTS
  d1 = d1
  d2 = d2
  Drivers = {d1, d2}
  Processes = {d1, d2}
  ProcessOf <- OwnProcess
  NoDriver = NoDriver
  HooksFiles = {"", "h1"}
  NoHooks = ""
  MaxFaults = 2
  MaxInterrupts = 1
  MaxRetries = 1
INVARIANTS
  TypeOK
  SingleDriver
  NoLaterResults
  SameUsersFile
  PassedStates
  FailedInRecorded
  NoLostUpdate
  IInv
PROPERTIES
  PersistedMoves
  FinishedStepsNotRedone
SYMMETRY Symmetry
