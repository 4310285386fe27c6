------------------------------ MODULE OrgRoles -------------------------------
(***************************************************************************)
(* The second phase of an Auth0 import (orgs_roles.go): the roles and      *)
(* organizations beside the users file are found by name or created, then  *)
(* the users imported are made members and given roles, one call each,     *)
(* through a pool of workers (pool.go) that share a rate limiter and the   *)
(* client's cached token (token.go).  The phase belongs to the import step *)
(* of a job, which can be interrupted, crash and be run again.             *)
(*                                                                         *)
(* The tenant is the environment: names are unique in it, so a role or an  *)
(* organization is its name; it lists a page of them, and refuses roles in *)
(* an organization to a user who is not yet a member.  Time is a clock;    *)
(* the lifetime of a token is counted from the answer that brings it, and  *)
(* a request is answered, or given up, within the client's timeout.        *)
(***************************************************************************)
EXTENDS Integers, Sequences, FiniteSets

CONSTANTS
  Users, Sources, Names,
  Concurrency,      \* workers of the pool
  PageSize,         \* how many roles, or organizations, one listing returns
  Margin,           \* tokenRefreshMargin
  Timeout,          \* the HTTP client's
  Lifetime,         \* a token's
  MaxTime, MaxRuns, \* bounds
  Plans             \* what there is to do, with how many faults and interruptions at most

ASSUME OrgRolesAssumption ==
  /\ Concurrency \in Nat \ {0} /\ PageSize \in Nat
  /\ Margin \in Nat /\ Timeout \in Nat /\ Lifetime \in Nat
  /\ Timeout <= Margin /\ Margin < Lifetime
  /\ MaxTime \in Nat /\ MaxRuns \in Nat

\* What there is to do comes from the files: only a user of theirs has memberships or roles.
Memberships == Seq([org : Sources, roles : SUBSET Sources])
ASSUME PlansAssumption ==
  \A p \in Plans :
    /\ p.roles \in Seq(Sources) /\ p.orgs \in Seq(Sources) /\ p.users \in Seq(Users)
    /\ p.memberships \in [Users -> Memberships] /\ p.globals \in [Users -> SUBSET Sources]
    /\ p.imported \subseteq Users /\ p.chosen \subseteq Sources
    /\ p.name \in [Sources -> Names] /\ IsFiniteSet(p.there)
    /\ p.faults \in Nat /\ p.interrupts \in Nat
    /\ \A u \in Users : \/ \E n \in DOMAIN p.users : p.users[n] = u
                        \/ p.memberships[u] = <<>> /\ p.globals[u] = {}

Kinds == {"roles", "orgs"}

VARIABLES
  plan,      \* the roles, organizations, users and memberships, never changed
  tenant,    \* what Auth0 has
  pc, kind,  \* where the phase is, and with which of Kinds
  at,        \* the next role, organization or user of the plan
  nth,       \* the next membership of that user
  page,      \* the names listed
  ids,       \* the sources of each kind mapped to an ID (RoleIDMap, OrgIDMap)
  tasks,     \* the calls to make
  w,         \* the worker of each
  pauseUntil,\* the rate limiter's
  token,     \* when the cached token expires, 0 for none
  fetcher,   \* the worker that holds the token's mutex, 0 for none
  errs,      \* the tasks that failed
  ctx,       \* whether the context is done
  recorded,  \* whether the job has the import's report
  now,
  limits,    \* history: the reset times observed by the pool
  conflicts, \* history: the names whose creation was refused
  faults, interrupts, runs

phase == <<pc, kind, at, nth, page, ids, tasks>>
pool == <<w, pauseUntil, token, fetcher, errs>>
bounds == <<faults, interrupts, runs>>
history == <<limits, conflicts>>
vars == <<plan, tenant, phase, pool, ctx, recorded, now, history, bounds>>

\* A worker before its task, waiting out a pause, calling (its pause is over), fetching
\* a token, with its request sent, its answer there, and done.
Worker == [st : {"new", "started", "waiting", "calling", "fetching", "sent", "answered", "done"},
           until : Nat, since : Nat, exp : Nat, reset : Nat, ok : BOOLEAN,
           known : SUBSET Nat] \* history: the resets observed before it read the pause
NewWorker == [st |-> "new", until |-> 0, since |-> 0, exp |-> 0, reset |-> 0, ok |-> TRUE, known |-> {}]
DoneWorker == [NewWorker EXCEPT !.st = "done"]

NameOf(s) == plan.name[s]
Listed(k) == IF k = "roles" THEN plan.roles ELSE plan.orgs
Fault == faults < plan.faults /\ faults' = faults + 1
CallFails == IF ctx THEN UNCHANGED faults ELSE Fault

-----------------------------------------------------------------------------
(* The run of the step, and what ends it. *)

\* Nothing is kept in memory between two runs, nor, but for its report, of one.
Forget ==
  /\ kind' = "roles" /\ at' = 1 /\ nth' = 1 /\ page' = {} /\ tasks' = <<>> /\ w' = <<>>
  /\ pauseUntil' = 0 /\ token' = 0 /\ fetcher' = 0 /\ errs' = {} /\ limits' = {} /\ ctx' = FALSE

\* The step runs unless the job has its report.
Start ==
  /\ pc = "idle" /\ ~recorded /\ runs < MaxRuns /\ runs' = runs + 1
  /\ pc' = "list" /\ ids' = [k \in Kinds |-> {}] /\ Forget
  /\ UNCHANGED <<plan, tenant, recorded, now, conflicts, faults, interrupts>>

Interrupt ==
  /\ pc # "idle" /\ ~ctx
  /\ interrupts < plan.interrupts /\ interrupts' = interrupts + 1
  /\ ctx' = TRUE
  /\ UNCHANGED <<plan, tenant, phase, pool, recorded, now, history, faults, runs>>

\* The phase returns an error, with which the import step fails or is interrupted.
ReturnError ==
  /\ pc' = "idle" /\ Forget
  /\ UNCHANGED <<plan, ids, recorded, now, interrupts, runs>>

-----------------------------------------------------------------------------
(* Roles, then organizations. *)

\* One page of the tenant's, whichever they are.
ListExisting ==
  /\ pc = "list" /\ ~ctx
  /\ \E p \in SUBSET tenant[kind] :
       /\ Cardinality(p) <= PageSize
       /\ Cardinality(p) < PageSize => p = tenant[kind]
       /\ page' = p
  /\ pc' = "match" /\ at' = 1
  /\ UNCHANGED <<plan, tenant, kind, nth, ids, tasks, pool, ctx, recorded, now, history, bounds>>

Current == Listed(kind)[at]
Matching == pc = "match" /\ at <= Len(Listed(kind))

\* The hook has chosen its ID, or one of its name is there.
MFound == Current \in plan.chosen
Found == Current \in plan.chosen \/ NameOf(Current) \in page

Match ==
  /\ Matching /\ Found
  /\ ids' = [ids EXCEPT ![kind] = @ \cup {Current}] /\ at' = at + 1
  /\ UNCHANGED <<plan, tenant, pc, kind, nth, page, tasks, pool, ctx, recorded, now, history, bounds>>

Create ==
  /\ Matching /\ ~Found /\ ~ctx /\ NameOf(Current) \notin tenant[kind]
  /\ tenant' = [tenant EXCEPT ![kind] = @ \cup {NameOf(Current)}]
  /\ ids' = [ids EXCEPT ![kind] = @ \cup {Current}] /\ at' = at + 1
  /\ UNCHANGED <<plan, pc, kind, nth, page, tasks, pool, ctx, recorded, now, history, bounds>>

\* The tenant already has one of that name: the phase ends.
CreateRefused ==
  /\ Matching /\ ~Found /\ ~ctx /\ NameOf(Current) \in tenant[kind]
  /\ conflicts' = conflicts \cup {<<kind, NameOf(Current)>>}
  /\ ReturnError /\ UNCHANGED <<tenant, faults>>

\* A call fails, though it may have created what it was to.
CallFailed ==
  /\ pc = "list" \/ (Matching /\ ~Found)
  /\ CallFails
  /\ \/ UNCHANGED tenant
     \/ pc = "match" /\ tenant' = [tenant EXCEPT ![kind] = @ \cup {NameOf(Current)}]
  /\ ReturnError /\ UNCHANGED conflicts

Matched ==
  /\ pc = "match" /\ at > Len(Listed(kind))
  /\ IF kind = "roles" THEN kind' = "orgs" /\ pc' = "list" ELSE pc' = "plan" /\ UNCHANGED kind
  /\ at' = 1
  /\ UNCHANGED <<plan, tenant, nth, page, ids, tasks, pool, ctx, recorded, now, history, bounds>>

-----------------------------------------------------------------------------
(* Memberships and role assignments. *)

Planning == pc = "plan" /\ at <= Len(plan.users)
User == plan.users[at]

\* resolveRoleIDs: the roles without an ID are left out.
RoleIDs(rs) == {NameOf(r) : r \in rs \cap ids["roles"]}

Member(u, o) == [kind |-> "member", user |-> u, org |-> NameOf(o), roles |-> {}]
MemberRoles(u, o, rs) == [kind |-> "orgRoles", user |-> u, org |-> NameOf(o), roles |-> RoleIDs(rs)]
GlobalRoles(u, rs) == [kind |-> "userRoles", user |-> u, org |-> "none", roles |-> RoleIDs(rs)]

\* A membership of a user imported, in an organization with an ID.
AddMembership ==
  /\ Planning /\ nth <= Len(plan.memberships[User])
  /\ LET m == plan.memberships[User][nth] IN
     tasks' = IF User \notin plan.imported \/ m.org \notin ids["orgs"] THEN tasks
              ELSE IF m.roles = {} THEN Append(tasks, Member(User, m.org))
              ELSE tasks \o <<Member(User, m.org), MemberRoles(User, m.org, m.roles)>>
  /\ nth' = nth + 1
  /\ UNCHANGED <<plan, tenant, pc, kind, at, page, ids, pool, ctx, recorded, now, history, bounds>>

AddGlobalRoles ==
  /\ Planning /\ nth > Len(plan.memberships[User])
  /\ tasks' = IF User \notin plan.imported \/ plan.globals[User] = {} THEN tasks
              ELSE Append(tasks, GlobalRoles(User, plan.globals[User]))
  /\ at' = at + 1 /\ nth' = 1
  /\ UNCHANGED <<plan, tenant, pc, kind, page, ids, pool, ctx, recorded, now, history, bounds>>

StartPool ==
  /\ pc = "plan" /\ at > Len(plan.users)
  /\ pc' = "pool" /\ w' = [i \in 1..Len(tasks) |-> NewWorker]
  /\ UNCHANGED <<plan, tenant, kind, at, nth, page, ids, tasks, pauseUntil, token, fetcher, errs, ctx,
                 recorded, now, history, bounds>>

-----------------------------------------------------------------------------
(* The pool. *)

Is(i, st) == w[i].st = st
InPool(i, st) == pc = "pool" /\ i \in DOMAIN w /\ Is(i, st)
Running == {i \in DOMAIN w : w[i].st \notin {"new", "done"}}

\* What no action of a worker touches.
Apart == UNCHANGED <<plan, phase, ctx, recorded, now, conflicts, interrupts, runs>>

\* The next task gets a slot of the semaphore, and its goroutine.
Launch(i) ==
  /\ InPool(i, "new") /\ \A j \in 1..(i - 1) : ~Is(j, "new")
  /\ Cardinality(Running) < Concurrency
  /\ w' = [w EXCEPT ![i].st = "started"]
  /\ Apart /\ UNCHANGED <<tenant, pauseUntil, token, fetcher, errs, limits, faults>>

\* wait reads the pause under the mutex, then waits it out without it.
ReadPause(i) ==
  /\ InPool(i, "started")
  /\ w' = [w EXCEPT ![i] = [@ EXCEPT !.st = IF pauseUntil > now THEN "waiting" ELSE "calling",
                                     !.until = pauseUntil, !.known = limits]]
  /\ Apart /\ UNCHANGED <<tenant, pauseUntil, token, fetcher, errs, limits, faults>>

PauseOver(i) ==
  /\ InPool(i, "waiting") /\ now >= w[i].until
  /\ w' = [w EXCEPT ![i].st = "calling"]
  /\ Apart /\ UNCHANGED <<tenant, pauseUntil, token, fetcher, errs, limits, faults>>

\* The task is over with an error.
Fails(i) ==
  /\ w' = [w EXCEPT ![i] = DoneWorker] /\ errs' = errs \cup {i}
  /\ Apart /\ UNCHANGED <<tenant, pauseUntil, limits>>

\* The context is done while the worker waits, or before its request is made.
Cancelled(i) ==
  /\ ctx /\ (InPool(i, "waiting") \/ (InPool(i, "calling") /\ fetcher = 0))
  /\ Fails(i) /\ UNCHANGED <<token, fetcher, faults>>

\* No role of the task has an ID: there is nothing to call.
NothingToAssign(i) ==
  /\ InPool(i, "calling") /\ tasks[i].kind # "member" /\ tasks[i].roles = {}
  /\ w' = [w EXCEPT ![i] = DoneWorker]
  /\ Apart /\ UNCHANGED <<tenant, pauseUntil, token, fetcher, errs, limits, faults>>

Calls(i) == InPool(i, "calling") /\ (tasks[i].kind = "member" \/ tasks[i].roles # {}) /\ ~ctx

\* Token, under its mutex: the cached one if it lasts past the margin.
MFresh == token # 0 /\ now < token
Fresh == token # 0 /\ now + Margin < token

SendWithToken(i) ==
  /\ Calls(i) /\ fetcher = 0 /\ Fresh
  /\ w' = [w EXCEPT ![i] = [@ EXCEPT !.st = "sent", !.since = now, !.exp = token]]
  /\ Apart /\ UNCHANGED <<tenant, pauseUntil, token, fetcher, errs, limits, faults>>

FetchToken(i) ==
  /\ Calls(i) /\ fetcher = 0 /\ ~Fresh
  /\ w' = [w EXCEPT ![i] = [@ EXCEPT !.st = "fetching", !.since = now]] /\ fetcher' = i
  /\ Apart /\ UNCHANGED <<tenant, pauseUntil, token, errs, limits, faults>>

TokenFetched(i) ==
  /\ InPool(i, "fetching") /\ ~ctx
  /\ token' = now + Lifetime /\ fetcher' = 0
  /\ w' = [w EXCEPT ![i] = [@ EXCEPT !.st = "sent", !.since = now, !.exp = now + Lifetime]]
  /\ Apart /\ UNCHANGED <<tenant, pauseUntil, errs, limits, faults>>

FetchFails(i) ==
  /\ InPool(i, "fetching") /\ CallFails
  /\ fetcher' = 0 /\ Fails(i) /\ UNCHANGED token

\* What the tenant has once it has done the task t, which it does not refuse.
Accepts(t) == t.kind = "orgRoles" => <<t.org, t.user>> \in tenant.members
With(T) ==
  [tenant EXCEPT
     !.members = @ \cup {<<t.org, t.user>> : t \in {t \in T : t.kind = "member"}},
     !.orgRoles = @ \cup UNION {{<<t.org, t.user, r>> : r \in t.roles} : t \in {t \in T : t.kind = "orgRoles"}},
     !.userRoles = @ \cup UNION {{<<t.user, r>> : r \in t.roles} : t \in {t \in T : t.kind = "userRoles"}}]

\* The answer of the request of i, with the reset time of an exhausted limit, or 0.
Answer(i, ok, reset) ==
  /\ w' = [w EXCEPT ![i] = [@ EXCEPT !.st = "answered", !.ok = ok, !.reset = reset]]
  /\ Apart /\ UNCHANGED <<pauseUntil, token, fetcher, errs, limits>>

Answered(i) ==
  /\ InPool(i, "sent") /\ Accepts(tasks[i])
  /\ tenant' = With({tasks[i]})
  /\ \/ Answer(i, TRUE, 0) /\ UNCHANGED faults
     \/ \E r \in (now + 1)..MaxTime : Answer(i, TRUE, r) /\ Fault

Refused(i) ==
  /\ InPool(i, "sent") /\ ~Accepts(tasks[i])
  /\ Answer(i, FALSE, 0) /\ UNCHANGED <<tenant, faults>>

\* A 429, which is not tried again.
Limited(i) ==
  /\ InPool(i, "sent") /\ Fault
  /\ \E r \in (now + 1)..MaxTime : Answer(i, FALSE, r)
  /\ UNCHANGED tenant

\* The request fails, whether or not the tenant did what it asked.
RequestFails(i) ==
  /\ InPool(i, "sent") /\ CallFails
  /\ Answer(i, FALSE, 0)
  /\ UNCHANGED tenant \/ (Accepts(tasks[i]) /\ tenant' = With({tasks[i]}))

\* What observe makes of the pause, which it only lengthens.
MLengthened(reset) == IF reset > now THEN reset ELSE pauseUntil
Lengthened(reset) == IF reset > now /\ reset > pauseUntil THEN reset ELSE pauseUntil

Observe(i) ==
  /\ InPool(i, "answered")
  /\ pauseUntil' = Lengthened(w[i].reset)
  /\ limits' = limits \cup {w[i].reset}
  /\ errs' = IF w[i].ok THEN errs ELSE errs \cup {i}
  /\ w' = [w EXCEPT ![i] = DoneWorker]
  /\ Apart /\ UNCHANGED <<tenant, token, fetcher, faults>>

\* Every worker is done: what failed is in the report, which the phase returns.
MPoolDone ==
  /\ pc = "pool" /\ \A i \in DOMAIN w : ~Is(i, "new")
  /\ pc' = "over"
  /\ UNCHANGED <<plan, tenant, kind, at, nth, page, ids, tasks, pool, ctx, recorded, now, history, bounds>>
PoolDone ==
  /\ pc = "pool" /\ \A i \in DOMAIN w : Is(i, "done")
  /\ pc' = "over"
  /\ UNCHANGED <<plan, tenant, kind, at, nth, page, ids, tasks, pool, ctx, recorded, now, history, bounds>>

\* The step is through, though it was interrupted: the job is saved with the report.
Record ==
  /\ pc = "over" /\ recorded' = TRUE /\ pc' = "idle" /\ Forget
  /\ UNCHANGED <<plan, tenant, ids, now, conflicts, bounds>>

-----------------------------------------------------------------------------
\* The process dies, and with it what the phase knew; a request sent may yet be done.
Crash ==
  /\ pc # "idle"
  /\ interrupts < plan.interrupts /\ interrupts' = interrupts + 1
  /\ \E S \in SUBSET {i \in DOMAIN w : Is(i, "sent") /\ Accepts(tasks[i])} :
       tenant' = With({tasks[i] : i \in S})
  /\ pc' = "idle" /\ Forget
  /\ UNCHANGED <<plan, ids, recorded, now, conflicts, faults, runs>>

\* A request is answered or given up within the timeout.
Tick ==
  /\ pc = "pool" /\ now < MaxTime
  /\ \A i \in DOMAIN w : w[i].st \in {"fetching", "sent"} => now < w[i].since + Timeout
  /\ now' = now + 1
  /\ UNCHANGED <<plan, tenant, phase, pool, ctx, recorded, history, bounds>>

Over ==
  /\ pc = "idle" /\ (recorded \/ runs = MaxRuns)
  /\ UNCHANGED vars

Init ==
  /\ plan \in Plans
  /\ tenant = [roles |-> plan.there, orgs |-> plan.there, members |-> {}, orgRoles |-> {}, userRoles |-> {}]
  /\ pc = "idle" /\ kind = "roles" /\ at = 1 /\ nth = 1 /\ page = {} /\ ids = [k \in Kinds |-> {}]
  /\ tasks = <<>> /\ w = <<>> /\ pauseUntil = 0 /\ token = 0 /\ fetcher = 0 /\ errs = {}
  /\ ctx = FALSE /\ recorded = FALSE /\ now = 0 /\ limits = {} /\ conflicts = {}
  /\ faults = 0 /\ interrupts = 0 /\ runs = 0

Work(i) ==
  \/ Launch(i) \/ ReadPause(i) \/ PauseOver(i) \/ Cancelled(i) \/ NothingToAssign(i)
  \/ SendWithToken(i) \/ FetchToken(i) \/ TokenFetched(i) \/ FetchFails(i)
  \/ Answered(i) \/ Refused(i) \/ Limited(i) \/ RequestFails(i) \/ Observe(i)

Next ==
  \/ Start \/ Interrupt \/ Crash \/ Tick \/ Over
  \/ ListExisting \/ Match \/ Create \/ CreateRefused \/ CallFailed \/ Matched
  \/ AddMembership \/ AddGlobalRoles \/ StartPool
  \/ \E i \in DOMAIN w : Work(i)
  \/ PoolDone \/ Record

Spec == Init /\ [][Next]_vars

-----------------------------------------------------------------------------
(* Properties. *)

\* What the tenant has done, or the report says failed.
Given(t) == With({t}) = tenant \/ \E i \in errs : tasks[i] = t

\* orgs_roles.go:98-151: when the phase returns its report, every membership and role
\* of a user imported, in an organization and of roles with an ID, is the tenant's, or
\* an entry of the report; no worker's outcome is missing, in whatever order they end.
AssignedOrReported ==
  pc = "over" =>
    \A u \in plan.imported :
      /\ \A k \in DOMAIN plan.memberships[u] :
           LET m == plan.memberships[u][k] IN
           m.org \in ids["orgs"] =>
             Given(Member(u, m.org)) /\ (m.roles # {} => Given(MemberRoles(u, m.org, m.roles)))
      /\ (plan.globals[u] # {}) => Given(GlobalRoles(u, plan.globals[u]))

\* orgs_roles.go:53-95: a role or an organization created by a run that then failed, or
\* died, is matched by its name in the next run, which creates it again only when the
\* listing was too short to show it, or when two of the files have the same name.
RerunFindsItsRoles ==
  \A c \in conflicts :
    \/ Cardinality(tenant[c[1]]) > PageSize
    \/ \E i, j \in DOMAIN Listed(c[1]) :
         i # j /\ NameOf(Listed(c[1])[i]) = c[2] /\ NameOf(Listed(c[1])[j]) = c[2]

\* pool.go:16-52: the pool backs off as a group: no worker calls before the reset time
\* of a limit that any of them had observed when it read the pause.
PauseHolds ==
  \A i \in DOMAIN w :
    w[i].st \in {"calling", "fetching", "sent"} => \A r \in w[i].known : r <= now

\* token.go:15-18: no request is on its way with a token that has expired, though the
\* token was read from the cache by one worker and fetched by another.
TokenLive == \A i \in DOMAIN w : Is(i, "sent") => now < w[i].exp

\* docs/reference/cli/job.mdx:20: an interrupted job runs its step again and the ones
\* after it, so that with no call failing a step that is through has given every user
\* imported the memberships and roles of the files.
InterruptionsLoseNothing ==
  recorded /\ faults = 0 =>
    \A u \in plan.imported :
      /\ \A k \in DOMAIN plan.memberships[u] :
           plan.memberships[u][k].org \in ids["orgs"] =>
             <<NameOf(plan.memberships[u][k].org), u>> \in tenant.members
      /\ \A r \in plan.globals[u] \cap ids["roles"] : <<u, NameOf(r)>> \in tenant.userRoles
=============================================================================
