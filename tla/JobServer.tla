------------------------------ MODULE JobServer ------------------------------
(***************************************************************************)
(* The server of internal/api and cmd/serve.go over the job runner: it     *)
(* starts the runs of a job in the background, when it is posted, when it  *)
(* is retried and, after a restart, when it is found unfinished.           *)
(*                                                                         *)
(* A driver is a background run or the handler of a retry.  As the lock    *)
(* lets one at a time work on the job, one is enough.  `iamigrate job`     *)
(* commands that drive the same job meanwhile are JobRunner's.  Of the     *)
(* requests that change nothing only those of a client that waits for the  *)
(* job are here.                                                           *)
(***************************************************************************)
EXTENDS JobRunner

CONSTANT Server   \* the process that serves
ASSUME ServerAssumption == Processes = {Server}

VARIABLES
  up,         \* "down", "list" and "load" (resuming), "up", "stopping" once
              \* the runs' context is done, "closing" when Resume failed
  listed,     \* what Resume found of the job
  starts,     \* goroutines of start() that have yet to call Lock
  hooksFile,  \* the hooks file the server loaded
  excuses,    \* history: why no run is to be expected of the server
  waiting     \* whether a client is in Wait

serverVars == <<up, listed, starts, hooksFile, excuses>>

\* Requests are served before Resume is done, and until a shutdown.
Serving == up \in {"list", "load", "up"}

ServerInit ==
  /\ Init
  /\ up = "down" /\ listed = "nothing" /\ starts = 0
  /\ hooksFile = NoHooks /\ excuses = {}
  /\ waiting = FALSE

Unfinished == disk.state \in BeforeDone
Excuse(why) == excuses' = excuses \cup {why}

-----------------------------------------------------------------------------
\* Requests and background runs.

\* POST /jobs.
PostJob ==
  /\ Serving
  /\ Create
  /\ starts' = starts + 1
  /\ UNCHANGED <<up, listed, hooksFile, excuses>>

\* The states a retry is asked for here: which it is matters to the job's
\* record, and is JobRunner's business.
Asked == {"none", "importing"}

\* POST /jobs/{id}/retry, to the release of the lock.
PostRetry(d, from) ==
  /\ Serving
  /\ RetryLock(d, from)
  /\ UNCHANGED serverVars

\* Mutant of StartRun: the run is still waited for once it has returned.
StartRunNeverDone(d) ==
  /\ starts > 0
  /\ RunLock(d, hooksFile, up = "stopping")
  /\ excuses' = {}
  /\ UNCHANGED <<up, listed, starts, hooksFile>>

\* A background run that gets the lock.  Its context is the server's.
StartRun(d) ==
  /\ starts > 0
  /\ RunLock(d, hooksFile, up = "stopping")
  /\ starts' = starts - 1
  /\ excuses' = {}
  /\ UNCHANGED <<up, listed, hooksFile>>

\* One that doesn't logs ErrLocked, and that is all.  Another run does its work;
\* a retry does not.
HeldByRun == \E d \in Drivers : lock = d /\ pc[d] \in RunPcs

\* Mutant of StartRefused: done twice, by the error and by the deferred call.
StartRefusedTwice ==
  /\ starts > 0 /\ lock # NoDriver
  /\ starts' = starts - 2
  /\ IF HeldByRun THEN UNCHANGED excuses ELSE Excuse("refused")
  /\ UNCHANGED <<vars, up, listed, hooksFile>>

StartRefused ==
  /\ starts > 0 /\ lock # NoDriver
  /\ starts' = starts - 1
  /\ IF HeldByRun THEN UNCHANGED excuses ELSE Excuse("refused")
  /\ UNCHANGED <<vars, up, listed, hooksFile>>

Drive(d) ==
  /\ pc[d] # "release"
  /\ Continue(d)
  /\ UNCHANGED serverVars

\* Mutant of Returned: a retry puts the job back and starts no run.
ReturnedQuietly(d) ==
  /\ Unlock(d)
  /\ IF ret[d] = "storeFailed" THEN Excuse("storeFailed") ELSE UNCHANGED excuses
  /\ UNCHANGED <<up, listed, starts, hooksFile>>

\* A driver of the server returns.  The handler of a retry starts a run.
Returned(d) ==
  /\ Unlock(d)
  /\ starts' = IF ret[d] = "retried" THEN starts + 1 ELSE starts
  /\ IF ret[d] = "storeFailed" /\ Unfinished THEN Excuse("storeFailed") ELSE UNCHANGED excuses
  /\ UNCHANGED <<up, listed, hooksFile>>

-----------------------------------------------------------------------------
\* Start, Resume, shutdown, crash.

Serve ==
  /\ up = "down"
  /\ up' = "list"
  /\ hooksFile' \in HooksFiles
  /\ excuses' = {}
  /\ UNCHANGED <<vars, listed, starts>>

ResumeList ==
  /\ up = "list"
  /\ up' = "load"
  /\ listed' = IF disk = NoJob THEN "nothing" ELSE "found"
  /\ UNCHANGED <<vars, starts, hooksFile, excuses>>

\* Mutant of ResumeLoad: only a job whose run had begun is resumed.
ResumeBegun ==
  /\ up = "load"
  /\ up' = "up"
  /\ starts' = IF listed = "found" /\ disk.state \in WorkingStates THEN starts + 1
                                                                  ELSE starts
  /\ UNCHANGED <<vars, listed, hooksFile, excuses>>

\* Resume can't list the store: no more requests, and serve returns when the
\* runs it has started already have ended.
ResumeFails ==
  /\ up = "list"
  /\ Fault
  /\ up' = "closing"
  /\ UNCHANGED <<disk, lock, users, pc, mem, ctx, arg, ret, announced, interrupts,
                 retries, listed, starts, hooksFile, excuses>>

\* Resume starts a job it finds unfinished; one it can't load is only logged.
ResumeLoad ==
  /\ up = "load"
  /\ up' = "up"
  /\ \/ /\ listed = "found" /\ ~Terminal(disk.state)
        /\ starts' = starts + 1
        /\ UNCHANGED <<faults, excuses>>
     \/ /\ listed = "nothing" \/ Terminal(disk.state)
        /\ UNCHANGED <<starts, faults, excuses>>
     \/ /\ listed = "found"
        /\ Fault /\ Excuse("unreadable")
        /\ UNCHANGED starts
  /\ UNCHANGED <<disk, lock, users, pc, mem, ctx, arg, ret, announced, interrupts,
                 retries, listed, hooksFile>>

\* A signal: the runs' context is done, and no request is taken any more.
Shutdown ==
  /\ Serving \/ up = "closing"
  /\ interrupts < MaxInterrupts
  /\ interrupts' = interrupts + 1
  /\ up' = "stopping"
  /\ ctx' = [d \in Drivers |-> ctx[d] \/ pc[d] \in RunPcs]
  /\ UNCHANGED <<disk, lock, users, pc, mem, arg, ret, announced, faults, retries,
                 listed, starts, hooksFile, excuses>>

\* The server exits once the background runs have returned.
Exit ==
  /\ up \in {"stopping", "closing"} /\ starts = 0
  /\ \A d \in Drivers : ~Driving(d)
  /\ up' = "down"
  /\ UNCHANGED <<vars, listed, starts, hooksFile, excuses>>

ServerCrash ==
  /\ up # "down"
  /\ Dies(Server)
  /\ up' = "down" /\ starts' = 0
  /\ UNCHANGED <<listed, hooksFile, excuses>>

-----------------------------------------------------------------------------
ServerNext ==
  \/ PostJob \/ StartRefused
  \/ Serve \/ ResumeList \/ ResumeFails \/ ResumeLoad \/ Shutdown \/ Exit \/ ServerCrash
  \/ \E d \in Drivers :
       \/ \E from \in Asked : PostRetry(d, from)
       \/ StartRun(d) \/ Drive(d) \/ Returned(d)

allVars == <<vars, serverVars>>

\* `job run <id>` of a client of the server: Wait.
BeginWait == ~waiting /\ disk # NoJob /\ waiting' = TRUE

\* Mutant of Poll: only a job that is done ends the wait.
PollDone == waiting /\ (~Serving \/ disk.state = "done") /\ waiting' = FALSE

\* A GET finds the job at its end, or nobody answers it.  Any other job is asked
\* for again.
Poll == waiting /\ (~Serving \/ Terminal(disk.state)) /\ waiting' = FALSE

\* The client is interrupted, or its request fails by itself.
GiveUpWait == waiting /\ waiting' = FALSE

Client == BeginWait \/ Poll \/ GiveUpWait

ServerSpec ==
  /\ ServerInit
  /\ [][(ServerNext /\ UNCHANGED waiting) \/ (Client /\ UNCHANGED allVars)]_<<allVars, waiting>>

\* The server's goroutines go on, and it is restarted when it is down; requests
\* come or don't, but a client that waits polls.  Only the driver that holds the
\* lock can go on.
Startup == Serve \/ ResumeList \/ ResumeFails \/ ResumeLoad \/ Exit
Attempt == StartRefused \/ \E d \in Drivers : StartRun(d)
Proceed(d) == Drive(d) \/ Returned(d)

ServerFairness ==
  /\ WF_allVars(Startup)
  /\ WF_allVars(Attempt)
  /\ WF_allVars(\E d \in Drivers : Proceed(d))
  /\ WF_waiting(Poll)

ServerFairSpec == ServerSpec /\ ServerFairness

-----------------------------------------------------------------------------
\* Correctness.

\* The server's own variables keep their type.
ServerTypeOK ==
  /\ up \in {"down", "list", "load", "up", "stopping", "closing"}
  /\ listed \in {"nothing", "found"}
  /\ starts \in Nat
  /\ hooksFile \in HooksFiles
  /\ excuses \subseteq {"refused", "storeFailed", "unreadable"}
  /\ waiting \in BOOLEAN

\* The job waits to be run by somebody and nobody is going to.
Stranded == up = "up" /\ Unfinished /\ starts = 0 /\ lock = NoDriver

\* A server that is up leaves an unfinished job to nobody only when something
\* it logged came between: its run was refused the lock by a retry, or could not
\* save the job, or Resume could not load it.  No order of restarts and requests
\* loses a job otherwise (Server.Resume, "starts running every job found
\* unfinished in the store").
StrandedExplained == Stranded => excuses # {}

\* Whatever it was interrupted in, a job posted to the server, or found by it
\* unfinished, comes to an end, with the same exceptions ("which stay in the
\* state they were in; the next `serve` resumes them", cmd/serve.go), and so does
\* the wait of a client, though the job may fail, be retried and run again between
\* two of its polls.
ServedJobEnds ==
  /\ Unfinished ~> (~Unfinished \/ excuses # {})
  /\ waiting ~> (~waiting \/ excuses # {})

\* A shutdown ends: every run in progress, and every one started too late to see
\* the signal, returns, so that srv.Wait does.
ShutdownEnds == up \in {"stopping", "closing"} ~> up = "down"

-----------------------------------------------------------------------------
\* What the documentation says and the code does not keep.

\* A job the server has acknowledged is being run: POST /jobs "queue a job and
\* start running it in the background", POST /jobs/{id}/retry "put a failed job
\* back in a state and run it again" (internal/api/server.go).
AcknowledgedRuns == ~Stranded
=============================================================================
