\* Every record to every target, in each of the ways.
SPECIFICATION Spec
CONSTANTS
  Cases <- MCCases
  CaseOf <- MCCaseOf
  AllOptions <- MCAllOptions
  Assigned <- MCAssigned
  Shape <- MCShape
  Size <- MCSize
  Unprefixed <- MCUnprefixed
INVARIANTS
  NothingLostSilently
  ValidatedIsTaken
  VerifyFindsIt
\* A migration ends.
CHECK_DEADLOCK FALSE
