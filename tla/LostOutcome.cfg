\* A crash between the save of an outcome and its event.
SPECIFICATION FairSpec
CONSTANTS
  d1 = d1
  Drivers = {d1}
  Processes = {d1}
  ProcessOf <- OwnProcess
  NoDriver = NoDriver
  HooksFiles = {"", "h1"}
  NoHooks = ""
  MaxFaults = 0
  MaxInterrupts = 1
  MaxRetries = 0
PROPERTY OutcomeAnnounced
