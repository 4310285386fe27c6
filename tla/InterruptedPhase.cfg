SPECIFICATION Spec
CONSTANTS
  Users = {"u1", "u2"}
  Sources = {"r1", "r2", "o1", "o2"}
  Names = {"a", "b"}
  Concurrency = 2
  PageSize = 2
  Margin = 1
  Timeout = 1
  Lifetime = 2
  MaxTime = 2
  MaxRuns = 2
  Plans <- Members
INVARIANT InterruptionsLoseNothing
