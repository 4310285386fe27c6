\* A server crashed, stopped and restarted around a job that is posted, run and
\* retried.
SPECIFICATION ServerFairSpec
CONSTANTS
  s1 = s1
  server = server
  Drivers = {s1}
  Processes = {server}
  ProcessOf <- OneProcess
  NoDriver = NoDriver
  HooksFiles = {""}
  NoHooks = ""
  MaxFaults = 1
  MaxInterrupts = 2
  MaxRetries = 1
  Server = server
INVARIANTS
  ServerTypeOK
  StrandedExplained
PROPERTIES
  ServedJobEnds
  ShutdownEnds
\* A job that has ended, and a server nobody asks anything.
CHECK_DEADLOCK FALSE
