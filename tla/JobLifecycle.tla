---------------------------- MODULE JobLifecycle ----------------------------
(***************************************************************************)
(* What a job promises to whoever reads its record, without the drivers,   *)
(* the lock, the copies in memory or the crashes: it goes through its      *)
(* states in order, leaves one only with that state's clean result, and a  *)
(* retry takes it back with what the states before it found, and nothing   *)
(* of the states after.  JobRunner implements it.                          *)
(***************************************************************************)
EXTENDS JobStates

VARIABLES
  state,      \* the state on record, "absent" before the job is created
  source,     \* whether the job exports its users from a source
  failedIn,   \* the state a failed job failed in
  finished    \* the working states with a clean result on record

vars == <<state, source, failedIn, finished>>

Init == state = "absent" /\ source = FALSE /\ failedIn = "none" /\ finished = {}

Create ==
  /\ state = "absent"
  /\ state' = "queued"
  /\ source' \in BOOLEAN
  /\ UNCHANGED <<failedIn, finished>>

\* The step of the current state has found something: it says nothing of the
\* other states' results.
Found(new) ==
  IF state \in WorkingStates THEN new \in {finished \cup {state}, finished \ {state}}
                             ELSE new = finished

Work ==
  /\ state \in WorkingStates
  /\ Found(finished')
  /\ UNCHANGED <<state, source, failedIn>>

\* A job without a source has nothing to export.
CanLeave(s) ==
  \/ s = "queued"
  \/ s = "exporting" /\ ~source
  \/ s \in finished

Advance ==
  /\ HasNext(state) /\ CanLeave(state)
  /\ state' = NextState(state)
  /\ UNCHANGED <<source, failedIn, finished>>

Fail ==
  /\ HasNext(state)
  /\ state' = "failed" /\ failedIn' = state
  /\ Found(finished')
  /\ UNCHANGED source

Retry(from) ==
  /\ state = "failed" /\ RetryAllowed(from, failedIn)
  /\ state' = from /\ failedIn' = "none"
  /\ finished' = {s \in finished : Kept(s, from, failedIn)}
  /\ UNCHANGED source

Next ==
  \/ Create \/ Work \/ Advance \/ Fail
  \/ \E from \in WorkingStates : Retry(from)

Spec == Init /\ [][Next]_vars

-----------------------------------------------------------------------------
TypeOK ==
  /\ state \in JobStateSet \cup {"absent"}
  /\ source \in BOOLEAN
  /\ failedIn \in {"none", "queued"} \cup WorkingStates
  /\ finished \in SUBSET WorkingStates

At == IF state = "failed" THEN failedIn ELSE state

\* A job that has come past a state holds its clean result, whatever was
\* retried on the way: one that is done was validated, imported and verified.
PastIsFinished ==
  \A s \in WorkingStates :
    Index(s) < Index(At) => s \in finished \/ (s = "exporting" /\ ~source)

\* Nothing is on record of a state the job has yet to reach.
NothingAhead == \A s \in finished : Index(s) <= Index(At)

FailedInMatches == state = "failed" <=> failedIn # "none"
=============================================================================
