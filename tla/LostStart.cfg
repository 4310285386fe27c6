\* Two retries of a failed job, or a retry of one just posted.
SPECIFICATION ServerSpec
CONSTANTS
  s1 = s1
  server = server
  Drivers = {s1}
  Processes = {server}
  ProcessOf <- OneProcess
  NoDriver = NoDriver
  HooksFiles = {""}
  NoHooks = ""
  MaxFaults = 0
  MaxInterrupts = 0
  MaxRetries = 2
  Server = server
INVARIANT AcknowledgedRuns
CHECK_DEADLOCK FALSE
