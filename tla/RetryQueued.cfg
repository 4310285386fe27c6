\* A retry of a job that failed before its first step.
SPECIFICATION Spec
CONSTANTS
  d1 = d1
  Drivers = {d1}
  Processes = {d1}
  ProcessOf <- OwnProcess
  NoDriver = NoDriver
  HooksFiles = {"", "h1"}
  NoHooks = ""
  MaxFaults = 1
  MaxInterrupts = 0
  MaxRetries = 1
INVARIANT FailedJobRetryable
