\* The record on disk behaves as JobLifecycle says, and a job that goes on being
\* run ends.
SPECIFICATION FairSpec
CONSTANTS
  d1 = d1
  d2 = d2
  Drivers = {d1, d2}
  Processes = {d1, d2}
  ProcessOf <- OwnProcess
  NoDriver = NoDriver
  HooksFiles = {"", "h1"}
  NoHooks = ""
  MaxFaults = 1
  MaxInterrupts = 1
  MaxRetries = 1
PROPERTIES
  ImplementsLifecycle
  JobEnds
