----------------------------- MODULE JobStates -----------------------------
(***************************************************************************)
(* The states of a migration job and the order it runs them in             *)
(* (internal/jobs/state.go), and what going back to a state discards       *)
(* (Runner.Retry in internal/jobs/runner.go).  Constant definitions only;  *)
(* "none" is the source's empty string.                                    *)
(***************************************************************************)
EXTENDS Integers

\* The working states run a step, queued runs none, and no step runs in a
\* terminal one.
WorkingStates == {"exporting", "validating", "importing", "verifying"}
TerminalStates == {"done", "failed"}
JobStateSet == {"queued"} \cup WorkingStates \cup TerminalStates

\* The position of a state in the pipeline, -1 for a state out of it.
Index(s) ==
  CASE s = "queued"     -> 0
    [] s = "exporting"  -> 1
    [] s = "validating" -> 2
    [] s = "importing"  -> 3
    [] s = "verifying"  -> 4
    [] s = "done"       -> 5
    [] OTHER            -> -1

Terminal(s) == s \in TerminalStates

Valid(s) == s = "failed" \/ Index(s) >= 0

\* The state that follows when a state's step succeeds.
HasNext(s) == Index(s) \in 0..4
NextState(s) ==
  CASE s = "queued"     -> "exporting"
    [] s = "exporting"  -> "validating"
    [] s = "validating" -> "importing"
    [] s = "importing"  -> "verifying"
    [] s = "verifying"  -> "done"
    [] OTHER            -> "none"

CanTransition(from, to) ==
  /\ ~Terminal(from)
  /\ \/ to = "failed" /\ Valid(from)
     \/ to # "failed" /\ HasNext(from) /\ NextState(from) = to

\* What Retry lets a job that failed in failedIn go back to.
RetryAllowed(from, failedIn) ==
  /\ from # "queued"
  /\ Index(from) >= 0
  /\ Index(from) <= Index(failedIn)

\* Whether the results of state s are kept by a job that goes back to from:
\* those of an earlier state always are, and all are when the job is put back
\* in the very state it failed in.
Kept(s, from, failedIn) == from = failedIn \/ Index(s) < Index(from)
============================================================================
