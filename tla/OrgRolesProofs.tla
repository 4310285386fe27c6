--------------------------- MODULE OrgRolesProofs ---------------------------
(***************************************************************************)
(* Proofs about OrgRoles: the pauses and the tokens of its pool, then what *)
(* the phase leaves in the tenant and in its report, for every plan, page  *)
(* size, number of workers, timeout, margin, lifetime and bound.           *)
(***************************************************************************)
EXTENDS OrgRoles, FiniteSetTheorems, TLAPS

-----------------------------------------------------------------------------
\* The inductive invariant.  A limit observed is passed or within the pause; a worker
\* keeps the pause it read at least as long as the limits known to it then; a request
\* carries a token that outlasts its timeout.

Clocks == now \in Nat /\ pauseUntil \in Nat /\ token \in Nat /\ limits \in SUBSET Nat

Workers == w = [i \in DOMAIN w |-> w[i]] /\ \A i \in DOMAIN w : w[i] \in Worker

Spent(r) == r <= now

LimitsKept == \A r \in limits : r <= pauseUntil \/ Spent(r)

PausesRead ==
  \A i \in DOMAIN w :
    Is(i, "waiting") => \A r \in w[i].known : r <= w[i].until \/ Spent(r)

TokensCover ==
  \A i \in DOMAIN w :
    Is(i, "sent") => w[i].since + Margin < w[i].exp /\ now <= w[i].since + Timeout

PoolInv == Clocks /\ Workers /\ LimitsKept /\ PausesRead /\ PauseHolds /\ TokensCover

\* What the invariant says of one worker.
Sound(v) ==
  /\ v.st = "waiting" => \A r \in v.known : r <= v.until \/ Spent(r)
  /\ v.st \in {"calling", "fetching", "sent"} => \A r \in v.known : Spent(r)
  /\ v.st = "sent" => v.since + Margin < v.exp /\ now <= v.since + Timeout

LEMMA EachSound ==
  PausesRead /\ PauseHolds /\ TokensCover <=> \A i \in DOMAIN w : Sound(w[i])
  BY DEF PausesRead, PauseHolds, TokensCover, Sound, Is, Spent

-----------------------------------------------------------------------------
\* A worker's step changes its record only: when the new one is sound, the invariant holds.
LEMMA OneWorker ==
  ASSUME PoolInv, NEW i \in DOMAIN w, NEW v \in Worker, w' = [w EXCEPT ![i] = v],
         now' = now, Sound(v), Clocks', LimitsKept'
  PROVE  PoolInv'
  <1>1. DOMAIN w' = DOMAIN w /\ \A j \in DOMAIN w : w'[j] = IF j = i THEN v ELSE w[j]
    BY DEF PoolInv, Workers
  <1>2. Workers'
    <2>1. w' = [j \in DOMAIN w' |-> w'[j]]
      OBVIOUS
    <2>2. ASSUME NEW j \in DOMAIN w' PROVE w'[j] \in Worker
      BY <1>1 DEF PoolInv, Workers
    <2> QED
      BY <2>1, <2>2 DEF Workers
  <1>3. \A j \in DOMAIN w : Sound(w[j])
    BY EachSound DEF PoolInv
  <1>4. \A j \in DOMAIN w' : Sound(w'[j])
    BY <1>1, <1>3
  <1>5. (\A j \in DOMAIN w : Sound(w[j]))'
    BY <1>4 DEF Sound, Spent
  <1>6. (PausesRead /\ PauseHolds /\ TokensCover)'
    BY <1>5 DEF PausesRead, PauseHolds, TokensCover, Sound, Is, Spent
  <1> QED
    BY <1>2, <1>6 DEF PoolInv

LEMMA NewWorkerType == NewWorker \in Worker /\ DoneWorker \in Worker /\ DoneWorker.st = "done"
  BY DEF NewWorker, DoneWorker, Worker

\* A worker whose task is over says nothing any more.
LEMMA WorkerDone ==
  ASSUME PoolInv, NEW i \in DOMAIN w, w' = [w EXCEPT ![i] = DoneWorker],
         now' = now, Clocks', LimitsKept'
  PROVE  PoolInv'
  <1>1. Sound(DoneWorker)
    BY NewWorkerType DEF Sound
  <1> QED
    BY <1>1, NewWorkerType, OneWorker

\* The clocks and the limits left alone.
LEMMA ClocksKept ==
  ASSUME PoolInv, UNCHANGED <<now, pauseUntil, limits>>, token' \in Nat
  PROVE  Clocks' /\ LimitsKept'
  BY DEF PoolInv, Clocks, LimitsKept, Spent

LEMMA PoolEmpty ==
  ASSUME now \in Nat, now' = now, w' = <<>>, pauseUntil' = 0, token' = 0, limits' = {}
  PROVE  PoolInv'
  <1>1. DOMAIN w' = {}
    BY DOMAIN w' = 1..0
  <1>2. Workers' /\ PausesRead' /\ PauseHolds' /\ TokensCover'
    BY <1>1 DEF Workers, PausesRead, PauseHolds, TokensCover
  <1> QED
    BY <1>2 DEF PoolInv, Clocks, LimitsKept

-----------------------------------------------------------------------------
LEMMA InitPoolInv == Init => PoolInv
  <1> SUFFICES ASSUME Init PROVE PoolInv
    OBVIOUS
  <1>1. DOMAIN w = {}
    BY DOMAIN w = 1..0 DEF Init
  <1> QED
    BY <1>1 DEF Init, PoolInv, Clocks, Workers, LimitsKept, PausesRead, PauseHolds, TokensCover

\* One step per action of a worker.
LEMMA WorkPoolInv ==
  ASSUME PoolInv, NEW i \in DOMAIN w, Work(i)
  PROVE  PoolInv'
  <1> DEFINE v == w[i]
  <1>0. v \in Worker /\ now \in Nat /\ token \in Nat /\ pauseUntil \in Nat /\ limits \in SUBSET Nat
        /\ Sound(v) /\ now' = now
    BY EachSound DEF PoolInv, Workers, Clocks, Work, Launch, ReadPause, PauseOver, Cancelled,
       NothingToAssign, SendWithToken, FetchToken, TokenFetched, FetchFails, Answered, Refused,
       Limited, RequestFails, Answer, Observe, Fails, Apart
  <1>1. CASE Launch(i)
    <2> DEFINE n == [v EXCEPT !.st = "started"]
    <2>1. n \in Worker /\ Sound(n) /\ w' = [w EXCEPT ![i] = n]
      BY <1>0, <1>1 DEF Launch, Worker, Sound
    <2>2. Clocks' /\ LimitsKept'
      BY <1>1, <1>0, ClocksKept DEF Launch
    <2> QED
      BY <1>0, <2>1, <2>2, OneWorker
  <1>2. CASE ReadPause(i)
    <2> DEFINE n == [v EXCEPT !.st = IF pauseUntil > now THEN "waiting" ELSE "calling",
                              !.until = pauseUntil, !.known = limits]
    <2>1. n \in Worker /\ w' = [w EXCEPT ![i] = n]
      BY <1>0, <1>2 DEF ReadPause, Worker
    <2>2. \A r \in limits : r <= pauseUntil \/ Spent(r)
      BY DEF PoolInv, LimitsKept
    <2>3. Sound(n)
      BY <1>0, <2>2 DEF Sound, Spent, Worker
    <2>4. Clocks' /\ LimitsKept'
      BY <1>2, <1>0, ClocksKept DEF ReadPause
    <2> QED
      BY <1>0, <2>1, <2>3, <2>4, OneWorker
  <1>3. CASE PauseOver(i)
    <2> DEFINE n == [v EXCEPT !.st = "calling"]
    <2>1. n \in Worker /\ w' = [w EXCEPT ![i] = n]
      BY <1>0, <1>3 DEF PauseOver, Worker
    <2>2. v.st = "waiting" /\ v.until <= now /\ v.until \in Nat /\ v.known \in SUBSET Nat
      BY <1>0, <1>3 DEF PauseOver, InPool, Is, Worker
    <2>3. \A r \in v.known : Spent(r)
      BY <1>0, <2>2 DEF Sound, Spent
    <2>4. Sound(n)
      BY <1>0, <2>3 DEF Sound, Worker
    <2>5. Clocks' /\ LimitsKept'
      BY <1>3, <1>0, ClocksKept DEF PauseOver
    <2> QED
      BY <1>0, <2>1, <2>4, <2>5, OneWorker
  <1>4. CASE Cancelled(i) \/ NothingToAssign(i) \/ FetchFails(i)
    <2>1. w' = [w EXCEPT ![i] = DoneWorker] /\ UNCHANGED <<now, pauseUntil, limits, token>>
      BY <1>4 DEF Cancelled, NothingToAssign, FetchFails, Fails, Apart
    <2>2. Clocks' /\ LimitsKept'
      BY <1>0, <2>1, ClocksKept
    <2> QED
      BY <1>0, <2>1, <2>2, WorkerDone
  <1>5. CASE SendWithToken(i)
    <2> DEFINE n == [v EXCEPT !.st = "sent", !.since = now, !.exp = token]
    <2>1. n \in Worker /\ w' = [w EXCEPT ![i] = n]
      BY <1>0, <1>5 DEF SendWithToken, Worker
    <2>2. now + Margin < token /\ v.st = "calling"
      BY <1>5 DEF SendWithToken, Fresh, Calls, InPool, Is
    <2>3. Sound(n)
      BY <1>0, <2>2, OrgRolesAssumption DEF Sound, Worker
    <2>4. Clocks' /\ LimitsKept'
      BY <1>5, <1>0, ClocksKept DEF SendWithToken
    <2> QED
      BY <1>0, <2>1, <2>3, <2>4, OneWorker
  <1>6. CASE FetchToken(i)
    <2> DEFINE n == [v EXCEPT !.st = "fetching", !.since = now]
    <2>1. n \in Worker /\ w' = [w EXCEPT ![i] = n] /\ v.st = "calling"
      BY <1>0, <1>6 DEF FetchToken, Worker, Calls, InPool, Is
    <2>2. Sound(n)
      BY <1>0, <2>1 DEF Sound, Worker
    <2>3. Clocks' /\ LimitsKept'
      BY <1>6, <1>0, ClocksKept DEF FetchToken
    <2> QED
      BY <1>0, <2>1, <2>2, <2>3, OneWorker
  <1>7. CASE TokenFetched(i)
    <2> DEFINE n == [v EXCEPT !.st = "sent", !.since = now, !.exp = now + Lifetime]
    <2>1. now + Lifetime \in Nat /\ now + Margin < now + Lifetime
      BY <1>0, OrgRolesAssumption
    <2>2. n \in Worker /\ w' = [w EXCEPT ![i] = n] /\ v.st = "fetching"
      BY <1>0, <1>7, <2>1 DEF TokenFetched, Worker, InPool, Is
    <2>3. Sound(n)
      BY <1>0, <2>1, <2>2, OrgRolesAssumption DEF Sound, Worker
    <2>4. Clocks' /\ LimitsKept'
      BY <1>7, <1>0, <2>1, ClocksKept DEF TokenFetched
    <2> QED
      BY <1>0, <2>2, <2>3, <2>4, OneWorker
  <1>8. CASE Answered(i) \/ Refused(i) \/ Limited(i) \/ RequestFails(i)
    <2>1. PICK ok \in BOOLEAN, reset \in Nat : Answer(i, ok, reset)
      <3>1. (now + 1)..MaxTime \subseteq Nat
        BY <1>0, OrgRolesAssumption
      <3> QED
        BY <1>8, <3>1 DEF Answered, Refused, Limited, RequestFails
    <2> DEFINE n == [v EXCEPT !.st = "answered", !.ok = ok, !.reset = reset]
    <2>2. n \in Worker /\ Sound(n) /\ w' = [w EXCEPT ![i] = n]
      BY <1>0, <2>1 DEF Answer, Worker, Sound
    <2>3. Clocks' /\ LimitsKept'
      BY <2>1, <1>0, ClocksKept DEF Answer
    <2> QED
      BY <1>0, <2>2, <2>3, OneWorker
  <1>9. CASE Observe(i)
    <2> DEFINE reset == v.reset
    <2>1. reset \in Nat
      BY <1>0 DEF Worker
    <2>2. pauseUntil' = Lengthened(reset) /\ limits' = limits \cup {reset} /\ token' = token
          /\ w' = [w EXCEPT ![i] = DoneWorker]
      BY <1>9 DEF Observe
    <2>3. pauseUntil' \in Nat /\ pauseUntil <= pauseUntil' /\ (reset <= pauseUntil' \/ reset <= now)
      BY <1>0, <2>1, <2>2 DEF Lengthened
    <2>4. Clocks'
      BY <1>0, <2>1, <2>2, <2>3 DEF Clocks
    <2>5. LimitsKept'
      <3> SUFFICES ASSUME NEW r \in limits' PROVE r <= pauseUntil' \/ r <= now'
        BY DEF LimitsKept, Spent
      <3>1. CASE r = reset
        BY <1>0, <2>3, <3>1
      <3>2. CASE r \in limits
        <4>1. r \in Nat /\ (r <= pauseUntil \/ r <= now)
          BY <1>0, <3>2 DEF PoolInv, LimitsKept, Spent
        <4> QED
          BY <1>0, <2>3, <4>1
      <3> QED
        BY <2>2, <3>1, <3>2
    <2> QED
      BY <1>0, <2>2, <2>4, <2>5, WorkerDone
  <1> QED
    BY <1>1, <1>2, <1>3, <1>4, <1>5, <1>6, <1>7, <1>8, <1>9 DEF Work

\* A tick passes only when no request is at its timeout; what was spent stays so.
LEMMA TickPoolInv ==
  ASSUME PoolInv, Tick
  PROVE  PoolInv'
  <1>1. now \in Nat /\ now' = now + 1 /\ UNCHANGED <<w, pauseUntil, token, limits>>
    BY DEF PoolInv, Clocks, Tick, pool, history
  <1>2. Clocks' /\ Workers'
    BY <1>1 DEF PoolInv, Clocks, Workers
  <1>3. LimitsKept'
    BY <1>1 DEF PoolInv, Clocks, LimitsKept, Spent
  <1>4. ASSUME NEW i \in DOMAIN w, NEW r \in w[i].known PROVE r \in Nat
    BY DEF PoolInv, Workers, Worker
  <1>5. PausesRead'
    BY <1>1, <1>4 DEF PoolInv, PausesRead, Spent, Is
  <1>6. PauseHolds'
    BY <1>1, <1>4 DEF PoolInv, PauseHolds
  <1>7. TokensCover'
    <2> SUFFICES ASSUME NEW i \in DOMAIN w, w[i].st = "sent"
                 PROVE  w[i].since + Margin < w[i].exp /\ now + 1 <= w[i].since + Timeout
      BY <1>1 DEF TokensCover, Is
    <2>1. w[i].since + Margin < w[i].exp
      BY DEF PoolInv, TokensCover, Is
    <2>2. now < w[i].since + Timeout
      BY DEF Tick
    <2>3. w[i].since \in Nat
      BY DEF PoolInv, Workers, Worker
    <2> QED
      BY <1>1, <2>1, <2>2, <2>3, OrgRolesAssumption
  <1> QED
    BY <1>2, <1>3, <1>5, <1>6, <1>7 DEF PoolInv

LEMMA StartPoolInv ==
  ASSUME PoolInv, StartPool
  PROVE  PoolInv'
  <1>1. w' = [i \in 1..Len(tasks) |-> NewWorker] /\ UNCHANGED <<now, pauseUntil, token, limits>>
    BY DEF StartPool, history
  <1>2. \A i \in DOMAIN w' : w'[i] \in Worker /\ w'[i].st = "new"
    BY <1>1, NewWorkerType DEF NewWorker
  <1>3. Workers'
    BY <1>1, <1>2 DEF Workers
  <1>4. PausesRead' /\ PauseHolds' /\ TokensCover'
    BY <1>2 DEF PausesRead, PauseHolds, TokensCover, Is
  <1>5. Clocks' /\ LimitsKept'
    BY <1>1, ClocksKept DEF PoolInv, Clocks
  <1> QED
    BY <1>3, <1>4, <1>5 DEF PoolInv

LEMMA StepPoolInv == PoolInv /\ [Next]_vars => PoolInv'
  <1> SUFFICES ASSUME PoolInv, [Next]_vars PROVE PoolInv'
    OBVIOUS
  <1>1. CASE Start \/ CreateRefused \/ CallFailed \/ Record \/ Crash
    <2>1. now \in Nat /\ now' = now /\ w' = <<>> /\ pauseUntil' = 0 /\ token' = 0 /\ limits' = {}
      BY <1>1 DEF PoolInv, Clocks, Start, CreateRefused, CallFailed, Record, Crash, ReturnError, Forget
    <2> QED
      BY <2>1, PoolEmpty
  <1>2. CASE Tick
    BY <1>2, TickPoolInv
  <1>3. CASE StartPool
    BY <1>3, StartPoolInv
  <1>4. CASE \E i \in DOMAIN w : Work(i)
    BY <1>4, WorkPoolInv
  <1>5. CASE \/ Interrupt \/ Over \/ ListExisting \/ Match \/ Create \/ Matched
             \/ AddMembership \/ AddGlobalRoles \/ PoolDone \/ UNCHANGED vars
    <2>1. UNCHANGED <<now, w, pauseUntil, token, limits>>
      BY <1>5 DEF Interrupt, Over, ListExisting, Match, Create, Matched, AddMembership,
         AddGlobalRoles, PoolDone, vars, pool, history
    <2> QED
      BY <2>1 DEF PoolInv, Clocks, Workers, LimitsKept, PausesRead, PauseHolds, TokensCover, Spent, Is
  <1> QED
    BY <1>1, <1>2, <1>3, <1>4, <1>5 DEF Next

\* The pool's pauses and tokens are kept track of in every reachable state.
THEOREM PoolIsSound == Spec => []PoolInv
  BY InitPoolInv, StepPoolInv, PTL DEF Spec

\* pool.go: a worker calls only after the reset of every limit that was known when it
\* read the pause, whatever limits come in whatever order from the others.
THEOREM PausesHold == Spec => []PauseHolds
  <1>1. PoolInv => PauseHolds
    BY DEF PoolInv
  <1> QED
    BY <1>1, PoolIsSound, PTL

\* token.go: as long as a request is given up before the margin has passed, none is
\* sent with a token that expires before its answer.
THEOREM TokensLive == Spec => []TokenLive
  <1>1. PoolInv => TokenLive
    <2> SUFFICES ASSUME PoolInv, NEW i \in DOMAIN w, Is(i, "sent") PROVE now < w[i].exp
      BY DEF TokenLive
    <2>1. w[i].since + Margin < w[i].exp /\ now <= w[i].since + Timeout
      BY DEF PoolInv, TokensCover
    <2>2. w[i].since \in Nat /\ w[i].exp \in Nat /\ now \in Nat
      BY DEF PoolInv, Clocks, Workers, Worker
    <2> QED
      BY <2>1, <2>2, OrgRolesAssumption
  <1> QED
    BY <1>1, PoolIsSound, PTL

-----------------------------------------------------------------------------
\* The inductive invariant, in three parts.

\* The tenant is never less than it was: of its five sets none shrinks.
Shape(x) ==
  x = [roles |-> x.roles, orgs |-> x.orgs, members |-> x.members,
       orgRoles |-> x.orgRoles, userRoles |-> x.userRoles]

TenantIs == Shape(tenant) /\ IsFiniteSet(tenant.roles) /\ IsFiniteSet(tenant.orgs)

Grows ==
  /\ tenant.roles \subseteq tenant'.roles /\ tenant.orgs \subseteq tenant'.orgs
  /\ tenant.members \subseteq tenant'.members
  /\ tenant.orgRoles \subseteq tenant'.orgRoles /\ tenant.userRoles \subseteq tenant'.userRoles

\* What is listed is less than the tenant has only by the names since created, unless a
\* page was too short for them.
Overfull(k) == Cardinality(tenant[k]) > PageSize
CreatedHere == {NameOf(Listed(kind)[j]) : j \in 1..(at - 1)}
PageCovers == pc = "match" => Overfull(kind) \/ tenant[kind] \subseteq page \cup CreatedHere

Listing ==
  /\ plan \in Plans /\ kind \in Kinds /\ at \in Nat \ {0} /\ nth \in Nat \ {0}
  /\ \A c \in conflicts : c[1] \in Kinds
  /\ TenantIs /\ PageCovers /\ RerunFindsItsRoles

\* The memberships and roles of the users gone over are among the tasks.
AmongTasks(t) == \E i \in DOMAIN tasks : tasks[i] = t
MembershipDue(u, m) ==
  m.org \in ids["orgs"] =>
    AmongTasks(Member(u, m.org)) /\ (m.roles # {} => AmongTasks(MemberRoles(u, m.org, m.roles)))
GlobalsDue(u) == plan.globals[u] # {} => AmongTasks(GlobalRoles(u, plan.globals[u]))
AllDue(u) == GlobalsDue(u) /\ \A k \in DOMAIN plan.memberships[u] : MembershipDue(u, plan.memberships[u][k])

AfterListing == {"plan", "pool", "over"}
Planned ==
  /\ pc \notin AfterListing => nth = 1
  /\ pc \in AfterListing =>
       /\ \A n \in DOMAIN plan.users : n < at /\ plan.users[n] \in plan.imported => AllDue(plan.users[n])
       /\ pc = "plan" /\ at \in DOMAIN plan.users /\ User \in plan.imported =>
            \A k \in DOMAIN plan.memberships[User] :
              k < nth => MembershipDue(User, plan.memberships[User][k])
       /\ pc # "plan" => at > Len(plan.users)

Task == [kind : {"member", "orgRoles", "userRoles"}, user : Users, org : Names \cup {"none"},
         roles : SUBSET Names]

\* A task done was done by the tenant, or is in the report.
Holds(t) ==
  /\ t.kind = "member" => <<t.org, t.user>> \in tenant.members
  /\ t.kind = "orgRoles" => \A r \in t.roles : <<t.org, t.user, r>> \in tenant.orgRoles
  /\ t.kind = "userRoles" => \A r \in t.roles : <<t.user, r>> \in tenant.userRoles

Settled(i) ==
  /\ w[i].st = "done" => i \in errs \/ Holds(tasks[i])
  /\ w[i].st = "answered" /\ w[i].ok => Holds(tasks[i])

Outcomes ==
  /\ ids \in [Kinds -> SUBSET Sources] /\ tasks \in Seq(Task)
  /\ pc \in {"pool", "over"} =>
       /\ DOMAIN w = DOMAIN tasks
       /\ \A i \in DOMAIN w : Settled(i) /\ (pc = "over" => w[i].st = "done")

PhaseInv == PoolInv /\ Listing /\ Planned /\ Outcomes

-----------------------------------------------------------------------------
\* What the tenant keeps.

LEMMA PlanIs ==
  ASSUME plan \in Plans
  PROVE  /\ plan.roles \in Seq(Sources) /\ plan.orgs \in Seq(Sources) /\ plan.users \in Seq(Users)
         /\ plan.memberships \in [Users -> Memberships] /\ plan.globals \in [Users -> SUBSET Sources]
         /\ plan.imported \subseteq Users /\ plan.name \in [Sources -> Names]
         /\ IsFiniteSet(plan.there)
         /\ \A u \in Users : \/ \E n \in DOMAIN plan.users : plan.users[n] = u
                             \/ plan.memberships[u] = <<>> /\ plan.globals[u] = {}
  BY PlansAssumption

\* Doing tasks adds to what the tenant has, and to neither roles nor organizations.
LEMMA WithAdds ==
  ASSUME Shape(tenant), NEW T, tenant' = With(T)
  PROVE  /\ Shape(tenant') /\ Grows /\ tenant'.roles = tenant.roles /\ tenant'.orgs = tenant.orgs
         /\ \A t \in T : Holds(t)'
  <1> DEFINE Ms == {<<t.org, t.user>> : t \in {t \in T : t.kind = "member"}}
             Os == UNION {{<<t.org, t.user, r>> : r \in t.roles} : t \in {t \in T : t.kind = "orgRoles"}}
             Us == UNION {{<<t.user, r>> : r \in t.roles} : t \in {t \in T : t.kind = "userRoles"}}
  <1>1. ASSUME NEW t \in T
        PROVE  /\ t.kind = "member" => <<t.org, t.user>> \in Ms
               /\ t.kind = "orgRoles" => \A r \in t.roles : <<t.org, t.user, r>> \in Os
               /\ t.kind = "userRoles" => \A r \in t.roles : <<t.user, r>> \in Us
    OBVIOUS
  <1>2. tenant' = [tenant EXCEPT !.members = @ \cup Ms, !.orgRoles = @ \cup Os, !.userRoles = @ \cup Us]
    BY DEF With
  <1> HIDE DEF Ms, Os, Us
  <1>3. /\ Shape(tenant') /\ tenant'.roles = tenant.roles /\ tenant'.orgs = tenant.orgs
        /\ tenant'.members = tenant.members \cup Ms
        /\ tenant'.orgRoles = tenant.orgRoles \cup Os
        /\ tenant'.userRoles = tenant.userRoles \cup Us
    BY <1>2 DEF Shape
  <1> QED
    BY <1>1, <1>3 DEF Grows, Holds

\* What holds of a task is what doing it again leaves as it is.
LEMMA HoldsGiven ==
  ASSUME Shape(tenant), NEW t, Holds(t)
  PROVE  With({t}) = tenant
  <1> DEFINE T == {t}
             Ms == {<<x.org, x.user>> : x \in {x \in T : x.kind = "member"}}
             Os == UNION {{<<x.org, x.user, r>> : r \in x.roles} : x \in {x \in T : x.kind = "orgRoles"}}
             Us == UNION {{<<x.user, r>> : r \in x.roles} : x \in {x \in T : x.kind = "userRoles"}}
  <1>1. Ms \subseteq tenant.members /\ Os \subseteq tenant.orgRoles /\ Us \subseteq tenant.userRoles
    BY DEF Holds
  <1>2. With(T) = [tenant EXCEPT !.members = @ \cup Ms, !.orgRoles = @ \cup Os, !.userRoles = @ \cup Us]
    BY DEF With
  <1> HIDE DEF T, Ms, Os, Us
  <1>3. tenant.members \cup Ms = tenant.members /\ tenant.orgRoles \cup Os = tenant.orgRoles
        /\ tenant.userRoles \cup Us = tenant.userRoles
    BY <1>1
  <1>4. With(T) = tenant
    BY <1>2, <1>3 DEF Shape
  <1> QED
    BY <1>4 DEF T

\* What has been done stays done.
LEMMA HoldsKept ==
  ASSUME Grows, NEW t, Holds(t)
  PROVE  Holds(t)'
  BY DEF Grows, Holds

\* A name created is one more of its kind.
LEMMA NameAdded ==
  ASSUME TenantIs, kind \in Kinds, NEW name,
         tenant' = [tenant EXCEPT ![kind] = @ \cup {name}]
  PROVE  TenantIs' /\ Grows /\ tenant'[kind] = tenant[kind] \cup {name}
  <1>1. CASE kind = "roles"
    <2>1. tenant' = [tenant EXCEPT !.roles = @ \cup {name}]
      BY <1>1
    <2>2. /\ tenant'.roles = tenant.roles \cup {name} /\ tenant'.orgs = tenant.orgs
          /\ tenant'.members = tenant.members /\ tenant'.orgRoles = tenant.orgRoles
          /\ tenant'.userRoles = tenant.userRoles /\ Shape(tenant')
      BY <2>1 DEF TenantIs, Shape
    <2> QED
      BY <1>1, <2>2, FS_AddElement DEF TenantIs, Grows
  <1>2. CASE kind = "orgs"
    <2>1. tenant' = [tenant EXCEPT !.orgs = @ \cup {name}]
      BY <1>2
    <2>2. /\ tenant'.orgs = tenant.orgs \cup {name} /\ tenant'.roles = tenant.roles
          /\ tenant'.members = tenant.members /\ tenant'.orgRoles = tenant.orgRoles
          /\ tenant'.userRoles = tenant.userRoles /\ Shape(tenant')
      BY <2>1 DEF TenantIs, Shape
    <2> QED
      BY <1>2, <2>2, FS_AddElement DEF TenantIs, Grows
  <1> QED
    BY <1>1, <1>2 DEF Kinds

\* No step takes anything from the tenant.
LEMMA NothingTaken ==
  ASSUME TenantIs, kind \in Kinds, [Next]_vars
  PROVE  TenantIs' /\ Grows
  <1>1. ASSUME tenant' = tenant PROVE TenantIs' /\ Grows
    BY <1>1 DEF TenantIs, Shape, Grows
  <1>2. ASSUME NEW T, tenant' = With(T) PROVE TenantIs' /\ Grows
    BY <1>2, WithAdds DEF TenantIs
  <1>3. CASE Create \/ CallFailed
    BY <1>1, <1>3, NameAdded DEF Create, CallFailed
  <1>4. CASE Crash
    BY <1>2, <1>4 DEF Crash
  <1>5. CASE \E i \in DOMAIN w : Answered(i) \/ RequestFails(i)
    BY <1>1, <1>2, <1>5 DEF Answered, RequestFails
  <1>6. CASE \E i \in DOMAIN w : Work(i) /\ ~Answered(i) /\ ~RequestFails(i)
    <2>1. tenant' = tenant
      BY <1>6 DEF Work, Launch, ReadPause, PauseOver, Cancelled, NothingToAssign, SendWithToken,
                  FetchToken, TokenFetched, FetchFails, Refused, Limited, Observe, Fails
    <2> QED
      BY <1>1, <2>1
  <1>7. CASE \/ Start \/ Interrupt \/ Tick \/ Over \/ ListExisting \/ Match \/ CreateRefused \/ Matched
             \/ AddMembership \/ AddGlobalRoles \/ StartPool \/ PoolDone \/ Record \/ UNCHANGED vars
    <2>1. tenant' = tenant
      BY <1>7 DEF Start, Interrupt, Tick, Over, ListExisting, Match, CreateRefused, Matched,
                  AddMembership, AddGlobalRoles, StartPool, PoolDone, Record, vars
    <2> QED
      BY <1>1, <2>1
  <1> QED
    BY <1>3, <1>4, <1>5, <1>6, <1>7 DEF Next

\* What was too much for a page stays so.
LEMMA StaysOverfull ==
  ASSUME TenantIs, TenantIs', Grows, NEW k \in Kinds, Overfull(k)
  PROVE  Cardinality(tenant'[k]) > PageSize
  <1>1. tenant[k] \subseteq tenant'[k] /\ IsFiniteSet(tenant'[k]) /\ IsFiniteSet(tenant[k])
    BY DEF TenantIs, Grows, Kinds
  <1>2. Cardinality(tenant[k]) <= Cardinality(tenant'[k])
    BY <1>1, FS_Subset
  <1> QED
    BY <1>1, <1>2, FS_CardinalityType, OrgRolesAssumption DEF Overfull

-----------------------------------------------------------------------------
\* The names: the phase's first part.

\* A page that is not all there was when it was listed was too short for it.
LEMMA ListedPage ==
  ASSUME Listing, ListExisting
  PROVE  Overfull(kind)' \/ tenant'[kind'] \subseteq page'
  <1>1. PICK p \in SUBSET tenant[kind] :
          /\ Cardinality(p) <= PageSize
          /\ Cardinality(p) < PageSize => p = tenant[kind]
          /\ page' = p
    BY DEF ListExisting
  <1>2. tenant' = tenant /\ kind' = kind /\ IsFiniteSet(tenant[kind])
    BY DEF ListExisting, Listing, TenantIs, Kinds
  <1>3. CASE p # tenant[kind]
    <2>1. Cardinality(p) \in Nat /\ Cardinality(tenant[kind]) \in Nat
      BY <1>2, FS_Subset, FS_CardinalityType
    <2>2. Cardinality(p) <= Cardinality(tenant[kind]) /\ Cardinality(p) # Cardinality(tenant[kind])
      BY <1>2, <1>3, FS_Subset
    <2>3. Cardinality(p) = PageSize
      BY <1>1, <1>3, <2>1, OrgRolesAssumption
    <2> QED
      BY <1>2, <2>1, <2>2, <2>3 DEF Overfull
  <1> QED
    BY <1>1, <1>2, <1>3

\* The indices before b are those before a and those from a on.
LEMMA IndicesBefore ==
  ASSUME NEW a \in Nat \ {0}, NEW b \in Nat, a <= b
  PROVE  1..(a - 1) \subseteq 1..(b - 1) /\ a..(b - 1) \subseteq 1..(b - 1)
  OBVIOUS

\* A step by which the phase goes on with the same page keeps what is known of it.
LEMMA PageKept ==
  ASSUME Listing, TenantIs', Grows, pc = "match", UNCHANGED <<kind, plan, page>>,
         at' \in Nat, at <= at',
         tenant'[kind] \subseteq tenant[kind] \cup {NameOf(Listed(kind)[j]) : j \in at..(at' - 1)}
  PROVE  PageCovers'
  <1>0. at \in Nat \ {0} /\ kind \in Kinds /\ TenantIs
    BY DEF Listing
  <1>1. CASE Overfull(kind)
    BY <1>0, <1>1, StaysOverfull DEF PageCovers, Overfull
  <1>2. CASE ~Overfull(kind)
    <2>1. tenant[kind] \subseteq page \cup CreatedHere
      BY <1>2 DEF Listing, PageCovers
    <2>2. CreatedHere' = {NameOf(Listed(kind)[j]) : j \in 1..(at' - 1)}
      BY DEF CreatedHere, NameOf, Listed
    <2>3. 1..(at - 1) \subseteq 1..(at' - 1) /\ at..(at' - 1) \subseteq 1..(at' - 1)
      BY <1>0, IndicesBefore
    <2>4. tenant'[kind] \subseteq page \cup CreatedHere'
      BY <2>1, <2>2, <2>3 DEF CreatedHere
    <2> QED
      BY <2>4 DEF PageCovers
  <1> QED
    BY <1>1, <1>2

\* A conflict explained stays so.
LEMMA ConflictsKept ==
  ASSUME Listing, TenantIs', Grows, plan' = plan,
         \A c \in conflicts' \ conflicts :
           /\ c[1] \in Kinds
           /\ \/ Overfull(c[1])
              \/ \E i, j \in DOMAIN Listed(c[1]) :
                   i # j /\ NameOf(Listed(c[1])[i]) = c[2] /\ NameOf(Listed(c[1])[j]) = c[2]
  PROVE  RerunFindsItsRoles' /\ \A c \in conflicts' : c[1] \in Kinds
  <1> SUFFICES ASSUME NEW c \in conflicts'
      PROVE  /\ c[1] \in Kinds
             /\ \/ Cardinality(tenant'[c[1]]) > PageSize
                \/ \E i, j \in DOMAIN Listed(c[1]) :
                     i # j /\ NameOf(Listed(c[1])[i]) = c[2] /\ NameOf(Listed(c[1])[j]) = c[2]
    BY DEF RerunFindsItsRoles, Listed, NameOf
  <1>1. c[1] \in Kinds
    BY DEF Listing
  <1>2. \/ Overfull(c[1])
        \/ \E i, j \in DOMAIN Listed(c[1]) :
             i # j /\ NameOf(Listed(c[1])[i]) = c[2] /\ NameOf(Listed(c[1])[j]) = c[2]
    BY DEF Listing, RerunFindsItsRoles, Overfull
  <1>3. Overfull(c[1]) => Cardinality(tenant'[c[1]]) > PageSize
    BY <1>1, StaysOverfull DEF Listing
  <1> QED
    BY <1>1, <1>2, <1>3

\* A name refused though it was not listed is one of those created, by an entry of its
\* own, or was left out of a full page.
LEMMA RefusedIsExplained ==
  ASSUME Listing, CreateRefused
  PROVE  \/ Overfull(kind)
         \/ \E i, j \in DOMAIN Listed(kind) :
              i # j /\ NameOf(Listed(kind)[i]) = NameOf(Current) /\ NameOf(Listed(kind)[j]) = NameOf(Current)
  <1>0. /\ at \in Nat \ {0} /\ at <= Len(Listed(kind)) /\ NameOf(Current) \in tenant[kind]
        /\ NameOf(Current) \notin page /\ PageCovers /\ pc = "match"
    BY DEF Listing, CreateRefused, Matching, Found
  <1>1. Listed(kind) \in Seq(Sources)
    BY PlanIs DEF Listing, Listed
  <1>2. CASE ~Overfull(kind)
    <2>1. NameOf(Current) \in CreatedHere
      BY <1>0, <1>2 DEF PageCovers
    <2>2. PICK j \in 1..(at - 1) : NameOf(Listed(kind)[j]) = NameOf(Current)
      BY <2>1 DEF CreatedHere
    <2>3. at \in DOMAIN Listed(kind) /\ j \in DOMAIN Listed(kind) /\ j # at
      BY <1>0, <1>1
    <2> QED
      BY <2>2, <2>3 DEF Current
  <1> QED
    BY <1>2

LEMMA ListingStep ==
  ASSUME Listing, [Next]_vars
  PROVE  Listing'
  <1>0. /\ plan \in Plans /\ kind \in Kinds /\ at \in Nat \ {0} /\ nth \in Nat \ {0} /\ TenantIs
    BY DEF Listing
  <1>1. TenantIs' /\ Grows
    BY <1>0, NothingTaken
  <1>2. plan' = plan
    BY DEF Next, vars, Start, Interrupt, Crash, Tick, Over, ListExisting, Match, Create, CreateRefused,
           CallFailed, ReturnError, Matched, AddMembership, AddGlobalRoles, StartPool, PoolDone, Record,
           Work, Launch, ReadPause, PauseOver, Cancelled, NothingToAssign, SendWithToken, FetchToken,
           TokenFetched, FetchFails, Answered, Refused, Limited, RequestFails, Answer, Observe, Fails, Apart
  <1>3. kind' \in Kinds /\ at' \in Nat \ {0} /\ nth' \in Nat \ {0}
    <2>1. CASE Start \/ CreateRefused \/ CallFailed \/ Crash \/ Record
      BY <2>1 DEF Start, CreateRefused, CallFailed, ReturnError, Crash, Record, Forget, Kinds
    <2>2. CASE ListExisting \/ Match \/ Create \/ Matched \/ AddMembership \/ AddGlobalRoles \/ StartPool
      BY <1>0, <2>2 DEF ListExisting, Match, Create, Matched, AddMembership, AddGlobalRoles, StartPool, Kinds
    <2>3. CASE Interrupt \/ Tick \/ Over \/ PoolDone \/ UNCHANGED vars \/ \E i \in DOMAIN w : Work(i)
      BY <1>0, <2>3 DEF vars, Interrupt, Tick, Over, PoolDone, phase,
           Work, Launch, ReadPause, PauseOver, Cancelled, NothingToAssign, SendWithToken, FetchToken,
           TokenFetched, FetchFails, Answered, Refused, Limited, RequestFails, Answer, Observe, Fails, Apart
    <2> QED
      BY <2>1, <2>2, <2>3 DEF Next
  <1>4. PageCovers'
    <2>1. CASE ListExisting
      BY <2>1, ListedPage DEF PageCovers
    <2>2. CASE Match \/ Create
      <3>1. /\ pc = "match" /\ UNCHANGED <<kind, plan, page>> /\ at' = at + 1
            /\ tenant' = tenant \/ tenant' = [tenant EXCEPT ![kind] = @ \cup {NameOf(Current)}]
        BY <2>2 DEF Match, Create, Matching
      <3>2. tenant'[kind] \subseteq tenant[kind] \cup {NameOf(Current)}
        BY <1>0, <3>1, NameAdded
      <3>3. NameOf(Current) \in {NameOf(Listed(kind)[j]) : j \in at..(at' - 1)}
        BY <1>0, <3>1 DEF Current
      <3> QED
        BY <1>0, <1>1, <3>1, <3>2, <3>3, PageKept
    <2>3. CASE /\ pc = "match" /\ UNCHANGED <<kind, plan, page, at, tenant>>
      BY <1>0, <1>1, <2>3, PageKept
    <2>4. CASE pc' # "match"
      BY <2>4 DEF PageCovers
    <2>5. pc' # "match" \/ ListExisting \/ Match \/ Create
          \/ (pc = "match" /\ UNCHANGED <<kind, plan, page, at, tenant>>)
      <3>1. CASE Start \/ CreateRefused \/ CallFailed \/ Crash \/ Record \/ Matched
                 \/ AddMembership \/ AddGlobalRoles \/ StartPool \/ PoolDone
        BY <3>1 DEF Start, CreateRefused, CallFailed, ReturnError, Crash, Record, Matched, AddMembership,
                    AddGlobalRoles, StartPool, PoolDone, Planning
      <3>2. CASE Interrupt \/ Tick \/ Over \/ UNCHANGED vars
        BY <3>2 DEF vars, Interrupt, Tick, Over, phase
      <3>3. CASE \E i \in DOMAIN w : Work(i)
        <4>1. PICK i \in DOMAIN w : Work(i)
          BY <3>3
        <4>2. CASE Launch(i) \/ ReadPause(i) \/ PauseOver(i) \/ Cancelled(i) \/ NothingToAssign(i)
                   \/ SendWithToken(i) \/ FetchToken(i) \/ TokenFetched(i) \/ FetchFails(i)
          BY <4>2 DEF phase, InPool, Launch, ReadPause, PauseOver, Cancelled, NothingToAssign, SendWithToken,
                      FetchToken, TokenFetched, FetchFails, Answer, Fails, Apart
        <4>3. CASE ~(Launch(i) \/ ReadPause(i) \/ PauseOver(i) \/ Cancelled(i) \/ NothingToAssign(i)
                     \/ SendWithToken(i) \/ FetchToken(i) \/ TokenFetched(i) \/ FetchFails(i))
          BY <4>1, <4>3 DEF phase, InPool, Calls, Work, Answered, Refused, Limited, RequestFails, Answer,
                            Observe, Fails, Apart
        <4> QED BY <4>2, <4>3
      <3> QED
        BY <3>1, <3>2, <3>3 DEF Next
    <2> QED
      BY <2>1, <2>2, <2>3, <2>4, <2>5
  <1>5. RerunFindsItsRoles' /\ \A c \in conflicts' : c[1] \in Kinds
    <2>1. CASE conflicts' = conflicts
      BY <1>1, <1>2, <2>1, ConflictsKept
    <2>2. CASE CreateRefused
      <3>1. conflicts' \ conflicts \subseteq {<<kind, NameOf(Current)>>}
        BY <2>2 DEF CreateRefused
      <3> QED
        BY <1>0, <1>1, <1>2, <2>2, <3>1, RefusedIsExplained, ConflictsKept
    <2>3. conflicts' = conflicts \/ CreateRefused
      BY DEF Next, vars, history, Start, Interrupt, Crash, Tick, Over, ListExisting, Match, Create,
           CallFailed, ReturnError, Matched, AddMembership, AddGlobalRoles, StartPool, PoolDone, Record,
           Work, Launch, ReadPause, PauseOver, Cancelled, NothingToAssign, SendWithToken, FetchToken,
           TokenFetched, FetchFails, Answered, Refused, Limited, RequestFails, Answer, Observe, Fails, Apart
    <2> QED
      BY <2>1, <2>2, <2>3
  <1> QED
    BY <1>0, <1>1, <1>2, <1>3, <1>4, <1>5 DEF Listing

-----------------------------------------------------------------------------
\* The tasks: the phase's second part.

LEMMA OneMore ==
  ASSUME NEW S, NEW s \in Seq(S), NEW x \in S
  PROVE  /\ Append(s, x) \in Seq(S)
         /\ \A i \in DOMAIN s : i \in DOMAIN Append(s, x) /\ Append(s, x)[i] = s[i]
         /\ \E i \in DOMAIN Append(s, x) : Append(s, x)[i] = x
  <1>1. /\ Append(s, x) \in Seq(S) /\ DOMAIN s = 1..Len(s) /\ Len(s) \in Nat
        /\ DOMAIN Append(s, x) = 1..(Len(s) + 1) /\ Append(s, x)[Len(s) + 1] = x
        /\ \A i \in 1..Len(s) : Append(s, x)[i] = s[i]
    OBVIOUS
  <1> QED
    BY <1>1

\* A task is in terms of the plan and of the IDs, as long as these are.
LEMMA TaskType ==
  ASSUME plan \in Plans, ids \in [Kinds -> SUBSET Sources], NEW u \in Users
  PROVE  /\ \A o \in Sources : Member(u, o) \in Task
         /\ \A o \in Sources, rs \in SUBSET Sources : MemberRoles(u, o, rs) \in Task
         /\ \A rs \in SUBSET Sources : GlobalRoles(u, rs) \in Task
  <1>1. \A o \in Sources : NameOf(o) \in Names
    BY PlanIs DEF NameOf
  <1>2. \A rs : RoleIDs(rs) \in SUBSET Names
    BY <1>1 DEF RoleIDs, Kinds
  <1> QED
    BY <1>1, <1>2 DEF Member, MemberRoles, GlobalRoles, Task

LEMMA PlannedTypes ==
  ASSUME plan \in Plans, NEW u \in Users
  PROVE  /\ plan.memberships[u] \in Seq([org : Sources, roles : SUBSET Sources])
         /\ \A k \in DOMAIN plan.memberships[u] :
              plan.memberships[u][k].org \in Sources /\ plan.memberships[u][k].roles \in SUBSET Sources
         /\ plan.globals[u] \in SUBSET Sources
  <1>1. plan.memberships[u] \in Seq([org : Sources, roles : SUBSET Sources]) /\ plan.globals[u] \in SUBSET Sources
    BY PlanIs DEF Memberships
  <1> DEFINE M == [org : Sources, roles : SUBSET Sources]
             ms == plan.memberships[u]
  <1>2. \A m \in M : m.org \in Sources /\ m.roles \in SUBSET Sources
    OBVIOUS
  <1>3. ms \in Seq(M)
    BY <1>1
  <1> HIDE DEF M, ms
  <1>4. \A k \in DOMAIN ms : ms[k] \in M
    BY <1>3
  <1> QED
    BY <1>1, <1>2, <1>4 DEF ms

\* A task planned stays planned.
Stay == plan' = plan /\ ids' = ids /\ \A t : AmongTasks(t) => AmongTasks(t)'

LEMMA DueKept ==
  ASSUME Stay, NEW u
  PROVE  /\ \A m : MembershipDue(u, m) => MembershipDue(u, m)'
         /\ GlobalsDue(u) => GlobalsDue(u)'
         /\ AllDue(u) => AllDue(u)'
  <1>1. /\ \A o : Member(u, o)' = Member(u, o)
        /\ \A o, rs : MemberRoles(u, o, rs)' = MemberRoles(u, o, rs)
        /\ \A rs : GlobalRoles(u, rs)' = GlobalRoles(u, rs)
    BY DEF Stay, Member, MemberRoles, GlobalRoles, RoleIDs, NameOf
  <1>2. \A m : MembershipDue(u, m) => MembershipDue(u, m)'
    BY <1>1 DEF Stay, MembershipDue, AmongTasks
  <1>3. GlobalsDue(u) => GlobalsDue(u)'
    BY <1>1 DEF Stay, GlobalsDue, AmongTasks
  <1> QED
    BY <1>2, <1>3 DEF AllDue, Stay

\* Tasks added are of the type of tasks, and leave those planned.
LEMMA TaskAdded ==
  ASSUME tasks \in Seq(Task), plan' = plan, ids' = ids, NEW x \in Task, tasks' = Append(tasks, x)
  PROVE  tasks' \in Seq(Task) /\ Stay /\ AmongTasks(x)'
  <1>1. /\ tasks' \in Seq(Task)
        /\ \A i \in DOMAIN tasks : i \in DOMAIN tasks' /\ tasks'[i] = tasks[i]
        /\ \E i \in DOMAIN tasks' : tasks'[i] = x
    BY OneMore
  <1> QED
    BY <1>1 DEF Stay, AmongTasks

LEMMA TwoTasksAdded ==
  ASSUME tasks \in Seq(Task), plan' = plan, ids' = ids, NEW x \in Task, NEW y \in Task,
         tasks' = tasks \o <<x, y>>
  PROVE  tasks' \in Seq(Task) /\ Stay /\ AmongTasks(x)' /\ AmongTasks(y)'
  <1>1. PICK n \in Nat : n = Len(tasks)
    OBVIOUS
  <1>2. /\ tasks' \in Seq(Task) /\ DOMAIN tasks = 1..n /\ DOMAIN tasks' = 1..(n + 2)
        /\ \A i \in 1..n : tasks'[i] = tasks[i]
        /\ tasks'[n + 1] = x /\ tasks'[n + 2] = y
    BY <1>1
  <1>3. n + 1 \in 1..(n + 2) /\ n + 2 \in 1..(n + 2) /\ \A i \in 1..n : i \in 1..(n + 2)
    OBVIOUS
  <1> QED
    BY <1>2, <1>3 DEF Stay, AmongTasks

\* The membership gone over is due no more.
LEMMA MembershipAdded ==
  ASSUME Listing, Outcomes, AddMembership
  PROVE  /\ tasks' \in Seq(Task) /\ Stay
         /\ \A u, m : u = User /\ u \in plan.imported /\ m = plan.memberships[u][nth] =>
                      MembershipDue(u, m)'
  <1>0. /\ plan \in Plans /\ ids \in [Kinds -> SUBSET Sources] /\ tasks \in Seq(Task)
        /\ plan' = plan /\ ids' = ids /\ at \in Nat \ {0} /\ nth \in Nat \ {0}
        /\ at <= Len(plan.users) /\ nth <= Len(plan.memberships[User])
    BY DEF Listing, Outcomes, AddMembership, Planning
  <1>1. User \in Users
    BY <1>0, PlanIs DEF User
  <1>2. PICK u \in Users : u = User
    BY <1>1
  <1>3. plan.memberships[u] \in Seq([org : Sources, roles : SUBSET Sources])
    BY <1>0, PlannedTypes
  <1>4. nth \in DOMAIN plan.memberships[u]
    BY <1>0, <1>2, <1>3
  <1>5. PICK m : m = plan.memberships[u][nth]
    OBVIOUS
  <1>6. m.org \in Sources /\ m.roles \in SUBSET Sources
    BY <1>0, <1>4, <1>5, PlannedTypes
  <1>7. PICK mt \in Task, rt \in Task : mt = Member(u, m.org) /\ rt = MemberRoles(u, m.org, m.roles)
    BY <1>0, <1>6, TaskType
  <1>8. mt = Member(u, m.org)' /\ rt = MemberRoles(u, m.org, m.roles)'
    BY <1>0, <1>7 DEF Member, MemberRoles, RoleIDs, NameOf
  <1>9. tasks' = IF u \notin plan.imported \/ m.org \notin ids["orgs"] THEN tasks
                 ELSE IF m.roles = {} THEN Append(tasks, mt) ELSE tasks \o <<mt, rt>>
    BY <1>2, <1>5, <1>7 DEF AddMembership
  <1>10. tasks' \in Seq(Task) /\ Stay
         /\ (u \in plan.imported /\ m.org \in ids["orgs"] =>
              AmongTasks(mt)' /\ (m.roles # {} => AmongTasks(rt)'))
    <2>1. CASE u \notin plan.imported \/ m.org \notin ids["orgs"]
      BY <1>0, <1>9, <2>1 DEF Stay, AmongTasks
    <2>2. CASE ~(u \notin plan.imported \/ m.org \notin ids["orgs"]) /\ m.roles = {}
      <3>1. tasks' = Append(tasks, mt)
        BY <1>9, <2>2
      <3> QED
        BY <1>0, <2>2, <3>1, TaskAdded
    <2>3. CASE ~(u \notin plan.imported \/ m.org \notin ids["orgs"]) /\ m.roles # {}
      <3>1. tasks' = tasks \o <<mt, rt>>
        BY <1>9, <2>3
      <3> QED
        BY <1>0, <3>1, TwoTasksAdded
    <2> QED
      BY <2>1, <2>2, <2>3
  <1>11. u \in plan.imported => MembershipDue(u, m)'
    BY <1>0, <1>8, <1>10 DEF MembershipDue, AmongTasks
  <1> QED
    BY <1>2, <1>5, <1>10, <1>11

LEMMA GlobalsAdded ==
  ASSUME Listing, Outcomes, AddGlobalRoles
  PROVE  /\ tasks' \in Seq(Task) /\ Stay
         /\ \A u : u = User /\ u \in plan.imported => GlobalsDue(u)'
  <1>0. /\ plan \in Plans /\ ids \in [Kinds -> SUBSET Sources] /\ tasks \in Seq(Task)
        /\ plan' = plan /\ ids' = ids /\ at \in Nat \ {0} /\ at <= Len(plan.users)
    BY DEF Listing, Outcomes, AddGlobalRoles, Planning
  <1>1. User \in Users
    BY <1>0, PlanIs DEF User
  <1>2. PICK u \in Users : u = User
    BY <1>1
  <1>3. PICK g \in Task : g = GlobalRoles(u, plan.globals[u])
    BY <1>0, TaskType, PlannedTypes
  <1>4. g = GlobalRoles(u, plan.globals[u])'
    BY <1>0, <1>3 DEF GlobalRoles, RoleIDs, NameOf
  <1>5. tasks' = IF u \notin plan.imported \/ plan.globals[u] = {} THEN tasks ELSE Append(tasks, g)
    BY <1>2, <1>3 DEF AddGlobalRoles
  <1>6. tasks' \in Seq(Task) /\ Stay
        /\ (u \in plan.imported /\ plan.globals[u] # {} => AmongTasks(g)')
    <2>1. CASE u \notin plan.imported \/ plan.globals[u] = {}
      BY <1>0, <1>5, <2>1 DEF Stay, AmongTasks
    <2>2. CASE ~(u \notin plan.imported \/ plan.globals[u] = {})
      <3>1. tasks' = Append(tasks, g)
        BY <1>5, <2>2
      <3> QED
        BY <1>0, <3>1, TaskAdded
    <2> QED
      BY <2>1, <2>2
  <1>7. u \in plan.imported => GlobalsDue(u)'
    BY <1>0, <1>4, <1>6 DEF GlobalsDue, AmongTasks
  <1> QED
    BY <1>2, <1>6, <1>7

\* Every other step of the phase leaves the tasks and what they are made of alone, or
\* starts from none.
LEMMA TasksElsewhere ==
  ASSUME [Next]_vars, ~AddMembership, ~AddGlobalRoles
  PROVE  \/ pc' \notin AfterListing /\ nth' = 1
         \/ pc' \notin AfterListing /\ nth' = nth /\ pc \notin AfterListing
         \/ Matched
         \/ StartPool
         \/ UNCHANGED <<plan, ids, tasks, at, nth>> /\ (pc' = pc \/ PoolDone)
  <1>1. CASE Start \/ CreateRefused \/ CallFailed \/ Crash \/ Record
    BY <1>1 DEF Start, CreateRefused, CallFailed, ReturnError, Crash, Record, Forget, AfterListing
  <1>2. CASE ListExisting \/ Match \/ Create
    BY <1>2 DEF ListExisting, Match, Create, Matching, AfterListing
  <1>3. CASE Interrupt \/ Tick \/ Over \/ PoolDone \/ UNCHANGED vars
    BY <1>3 DEF Interrupt, Tick, Over, PoolDone, vars, phase
  <1>4. CASE \E i \in DOMAIN w : Work(i)
    <2>1. Apart
      BY <1>4 DEF Work, Launch, ReadPause, PauseOver, Cancelled, NothingToAssign, SendWithToken,
           FetchToken, TokenFetched, FetchFails, Answered, Refused, Limited, RequestFails, Answer, Observe,
           Fails
    <2> QED
      BY <2>1 DEF Apart, phase
  <1> QED
    BY <1>1, <1>2, <1>3, <1>4 DEF Next

LEMMA PlannedStep ==
  ASSUME Listing, Outcomes, Planned, [Next]_vars
  PROVE  Planned'
  <1>0. /\ plan \in Plans /\ at \in Nat \ {0} /\ nth \in Nat \ {0} /\ plan.users \in Seq(Users)
    BY PlanIs DEF Listing
  <1> DEFINE Gone(n) == n < at /\ plan.users[n] \in plan.imported => AllDue(plan.users[n])
  <1>1. CASE AddMembership
    <2>1. /\ pc = "plan" /\ pc' = "plan" /\ at' = at /\ nth' = nth + 1 /\ plan' = plan /\ at <= Len(plan.users)
      BY <1>1 DEF AddMembership, Planning
    <2>2. Stay /\ \A u, m : u = User /\ u \in plan.imported /\ m = plan.memberships[u][nth] =>
                      MembershipDue(u, m)'
      BY <1>1, MembershipAdded
    <2>3. ASSUME NEW n \in DOMAIN plan.users, n < at, plan.users[n] \in plan.imported
          PROVE  \A u : u = plan.users[n] => AllDue(u)'
      BY <2>1, <2>2, <2>3, DueKept DEF Planned, AfterListing
    <2>4. ASSUME NEW u, u = User, u \in plan.imported, NEW k \in DOMAIN plan.memberships[u], k < nth + 1
          PROVE  \A m : m = plan.memberships[u][k] => MembershipDue(u, m)'
      <3>1. u \in Users
        BY <1>0, <2>1, <2>4, PlanIs
      <3>2. k \in Nat
        BY <1>0, <3>1, PlannedTypes
      <3>3. CASE k = nth
        BY <2>2, <2>4, <3>3
      <3>4. CASE k < nth
        <4>1. MembershipDue(u, plan.memberships[u][k])
          BY <1>0, <2>1, <2>4, <3>4 DEF Planned, AfterListing, User
        <4> QED
          BY <2>2, <4>1, DueKept
      <3> QED
        BY <1>0, <2>4, <3>2, <3>3, <3>4
    <2> QED
      BY <2>1, <2>3, <2>4 DEF Planned, AfterListing, User
  <1>2. CASE AddGlobalRoles
    <2>1. /\ pc = "plan" /\ pc' = "plan" /\ at' = at + 1 /\ nth' = 1 /\ plan' = plan /\ at <= Len(plan.users)
          /\ nth > Len(plan.memberships[User])
      BY <1>2 DEF AddGlobalRoles, Planning
    <2>2. Stay /\ \A u : u = User /\ u \in plan.imported => GlobalsDue(u)'
      BY <1>2, GlobalsAdded
    <2>3. ASSUME NEW n \in DOMAIN plan.users, n < at, plan.users[n] \in plan.imported
          PROVE  \A u : u = plan.users[n] => AllDue(u)'
      BY <2>1, <2>2, <2>3, DueKept DEF Planned, AfterListing
    <2>4. ASSUME NEW u, u = User, u \in plan.imported
          PROVE  AllDue(u)'
      <3>1. u \in Users
        BY <1>0, <2>1, <2>4, PlanIs
      <3>2. \A k \in DOMAIN plan.memberships[u] : k < nth
        BY <1>0, <2>1, <2>4, <3>1, PlannedTypes
      <3>3. \A k \in DOMAIN plan.memberships[u] : MembershipDue(u, plan.memberships[u][k])
        BY <1>0, <2>1, <2>4, <3>2 DEF Planned, AfterListing, User
      <3>4. ASSUME NEW k \in DOMAIN plan.memberships[u]
            PROVE  \A m : m = plan.memberships[u][k] => MembershipDue(u, m)'
        BY <2>2, <3>3, DueKept
      <3> QED
        BY <2>1, <2>2, <2>4, <3>4 DEF AllDue
    <2>5. \A n \in DOMAIN plan.users : n < at + 1 => n < at \/ n = at
      BY <1>0
    <2>6. ASSUME NEW n \in DOMAIN plan.users, n < at + 1, plan.users[n] \in plan.imported
          PROVE  \A u : u = plan.users[n] => AllDue(u)'
      BY <2>3, <2>4, <2>5, <2>6 DEF User
    <2>7. ASSUME NEW u, u = User', NEW k \in DOMAIN plan.memberships[u], at + 1 \in DOMAIN plan.users
          PROVE  ~(k < 1)
      <3>1. u \in Users
        BY <1>0, <2>1, <2>7 DEF User
      <3> QED
        BY <1>0, <2>7, <3>1, PlannedTypes
    <2> QED
      BY <2>1, <2>6, <2>7 DEF Planned, AfterListing
  <1>3. CASE Matched
    <2>1. nth = 1 /\ nth' = 1 /\ plan' = plan /\ pc' \in {"list", "plan"} /\ at' = 1
      BY <1>3 DEF Matched, Planned, AfterListing
    <2>2. \A k : k \in Nat \ {0} => ~(k < 1)
      OBVIOUS
    <2>3. \A n \in DOMAIN plan.users : ~(n < 1)
      BY <1>0
    <2>4. ASSUME at' \in DOMAIN plan.users, NEW u, u = User', NEW k \in DOMAIN plan.memberships[u]
          PROVE  ~(k < 1)
      <3>1. u \in Users
        BY <1>0, <2>1, <2>4 DEF User
      <3> QED
        BY <1>0, <3>1, PlannedTypes
    <2> QED
      BY <2>1, <2>3, <2>4 DEF Planned, AfterListing
  <1>4. CASE StartPool
    <2>1. /\ pc = "plan" /\ pc' = "pool" /\ UNCHANGED <<at, nth, plan, ids, tasks>> /\ at > Len(plan.users)
      BY <1>4 DEF StartPool
    <2>2. Stay
      BY <2>1 DEF Stay, AmongTasks
    <2> QED
      BY <2>1, <2>2, DueKept DEF Planned, AfterListing
  <1>5. CASE UNCHANGED <<plan, ids, tasks, at, nth>> /\ (pc' = pc \/ PoolDone)
    <2>1. pc' = pc \/ (pc = "pool" /\ pc' = "over")
      BY <1>5 DEF PoolDone
    <2>2. Stay
      BY <1>5 DEF Stay, AmongTasks
    <2> QED
      BY <1>5, <2>1, <2>2, DueKept DEF Planned, AfterListing, User
  <1>6. CASE \/ pc' \notin AfterListing /\ nth' = 1
             \/ pc' \notin AfterListing /\ nth' = nth /\ pc \notin AfterListing
    BY <1>6 DEF Planned
  <1> QED
    BY <1>1, <1>2, <1>3, <1>4, <1>5, <1>6, TasksElsewhere

-----------------------------------------------------------------------------
\* The outcomes: the phase's third part.

\* A worker's step settles its own task, and leaves the others settled.
LEMMA OneSettled ==
  ASSUME Outcomes, PoolInv, Grows, pc = "pool", UNCHANGED phase, errs \subseteq errs',
         NEW i \in DOMAIN w, NEW v, w' = [w EXCEPT ![i] = v], NEW t, t = tasks[i],
         v.st = "done" => i \in errs' \/ Holds(t)',
         v.st = "answered" /\ v.ok => Holds(t)'
  PROVE  Outcomes'
  <1>1. DOMAIN w' = DOMAIN w /\ \A j \in DOMAIN w : w'[j] = IF j = i THEN v ELSE w[j]
    BY DEF PoolInv, Workers
  <1>2. pc' = "pool" /\ tasks' = tasks /\ ids' = ids
    BY DEF phase
  <1>3. ASSUME NEW j \in DOMAIN w PROVE Settled(j)'
    <2>1. CASE j = i
      BY <1>1, <1>2, <2>1 DEF Settled, Holds
    <2>2. CASE j # i
      <3>1. w'[j] = w[j] /\ Settled(j)
        BY <1>1, <2>2 DEF Outcomes
      <3>2. Holds(tasks[j]) => Holds(tasks[j])'
        BY <1>2 DEF Holds, Grows
      <3> QED
        BY <1>2, <3>1, <3>2 DEF Settled
    <2> QED
      BY <2>1, <2>2
  <1> QED
    BY <1>1, <1>2, <1>3 DEF Outcomes

\* A task the tenant has done, as it does when it does not refuse it.
LEMMA DoneHolds ==
  ASSUME Listing, NEW t, tenant' = With({t})
  PROVE  Holds(t)'
  <1>1. Shape(tenant)
    BY DEF Listing, TenantIs
  <1> QED
    BY <1>1, WithAdds

LEMMA WorkOutcomes ==
  ASSUME PoolInv, Listing, Outcomes, NEW i \in DOMAIN w, Work(i), Grows
  PROVE  Outcomes'
  <1>0. /\ w[i] \in Worker /\ UNCHANGED phase /\ pc = "pool" /\ Settled(i)
    <2>1. Apart /\ pc = "pool"
      BY DEF Work, Launch, ReadPause, PauseOver, Cancelled, NothingToAssign, SendWithToken,
           FetchToken, TokenFetched, FetchFails, Answered, Refused, Limited, RequestFails, Answer, Observe,
           Fails, InPool, Calls
    <2> QED
      BY <2>1 DEF Apart, PoolInv, Workers, Outcomes
  <1>1. PICK t : t = tasks[i]
    OBVIOUS
  <1>2. ASSUME NEW v, w' = [w EXCEPT ![i] = v], v.st \notin {"answered", "done"}, errs' = errs
        PROVE  Outcomes'
    BY <1>0, <1>1, <1>2, OneSettled
  <1>3. CASE Launch(i) \/ PauseOver(i)
    <2>1. \E st \in {"started", "calling"} : w' = [w EXCEPT ![i] = [w[i] EXCEPT !.st = st]] /\ errs' = errs
      BY <1>3 DEF Launch, PauseOver
    <2> QED
      BY <1>0, <1>2, <2>1 DEF Worker
  <1>4. CASE ReadPause(i)
    <2> DEFINE v == [w[i] EXCEPT !.st = IF pauseUntil > now THEN "waiting" ELSE "calling",
                                 !.until = pauseUntil, !.known = limits]
    <2>1. w' = [w EXCEPT ![i] = v] /\ v.st \notin {"answered", "done"} /\ errs' = errs
      BY <1>0, <1>4 DEF ReadPause, Worker
    <2> QED
      BY <1>2, <2>1
  <1>5. CASE SendWithToken(i)
    <2> DEFINE v == [w[i] EXCEPT !.st = "sent", !.since = now, !.exp = token]
    <2>1. w' = [w EXCEPT ![i] = v] /\ v.st \notin {"answered", "done"} /\ errs' = errs
      BY <1>0, <1>5 DEF SendWithToken, Worker
    <2> QED
      BY <1>2, <2>1
  <1>6. CASE FetchToken(i)
    <2> DEFINE v == [w[i] EXCEPT !.st = "fetching", !.since = now]
    <2>1. w' = [w EXCEPT ![i] = v] /\ v.st \notin {"answered", "done"} /\ errs' = errs
      BY <1>0, <1>6 DEF FetchToken, Worker
    <2> QED
      BY <1>2, <2>1
  <1>7. CASE TokenFetched(i)
    <2> DEFINE v == [w[i] EXCEPT !.st = "sent", !.since = now, !.exp = now + Lifetime]
    <2>1. w' = [w EXCEPT ![i] = v] /\ v.st \notin {"answered", "done"} /\ errs' = errs
      BY <1>0, <1>7 DEF TokenFetched, Worker
    <2> QED
      BY <1>2, <2>1
  \* A failure is reported.
  <1>8. CASE Cancelled(i) \/ FetchFails(i)
    <2>1. w' = [w EXCEPT ![i] = DoneWorker] /\ errs' = errs \cup {i}
      BY <1>8 DEF Cancelled, FetchFails, Fails
    <2>2. i \in errs' /\ errs \subseteq errs' /\ DoneWorker.st = "done"
      BY <2>1, NewWorkerType
    <2> QED
      BY <1>0, <1>1, <2>1, <2>2, OneSettled
  \* A task of no role asks nothing of the tenant.
  <1>9. CASE NothingToAssign(i)
    <2>1. w' = [w EXCEPT ![i] = DoneWorker] /\ errs' = errs /\ t.kind # "member" /\ t.roles = {}
      BY <1>1, <1>9 DEF NothingToAssign
    <2>2. Holds(t)' /\ DoneWorker.st = "done"
      BY <2>1, NewWorkerType DEF Holds
    <2> QED
      BY <1>0, <1>1, <2>1, <2>2, OneSettled
  <1>10. CASE Answered(i)
    <2>1. PICK reset : Answer(i, TRUE, reset) /\ tenant' = With({t})
      BY <1>1, <1>10 DEF Answered
    <2>2. Holds(t)'
      BY <2>1, DoneHolds
    <2> DEFINE v == [w[i] EXCEPT !.st = "answered", !.ok = TRUE, !.reset = reset]
    <2>3. w' = [w EXCEPT ![i] = v] /\ v.st = "answered" /\ errs' = errs
      BY <1>0, <2>1 DEF Answer, Worker
    <2> QED
      BY <1>0, <1>1, <2>2, <2>3, OneSettled
  <1>11. CASE Refused(i) \/ Limited(i) \/ RequestFails(i)
    <2>1. PICK reset : Answer(i, FALSE, reset)
      BY <1>11 DEF Refused, Limited, RequestFails
    <2> DEFINE v == [w[i] EXCEPT !.st = "answered", !.ok = FALSE, !.reset = reset]
    <2>2. w' = [w EXCEPT ![i] = v] /\ v.st = "answered" /\ ~v.ok /\ errs' = errs
      BY <1>0, <2>1 DEF Answer, Worker
    <2> QED
      BY <1>0, <1>1, <2>2, OneSettled
  <1>12. CASE Observe(i)
    <2>1. /\ w' = [w EXCEPT ![i] = DoneWorker] /\ errs' = (IF w[i].ok THEN errs ELSE errs \cup {i})
          /\ w[i].st = "answered" /\ DoneWorker.st = "done" /\ tenant' = tenant
      BY <1>12, NewWorkerType DEF Observe, InPool, Is
    <2>2. CASE w[i].ok
      <3>1. Holds(t)'
        BY <1>0, <1>1, <2>1, <2>2, HoldsKept DEF Settled
      <3> QED
        BY <1>0, <1>1, <2>1, <2>2, <3>1, OneSettled
    <2>3. CASE ~w[i].ok
      <3>1. i \in errs' /\ errs \subseteq errs'
        BY <2>1, <2>3
      <3> QED
        BY <1>0, <1>1, <2>1, <3>1, OneSettled
    <2> QED
      BY <2>2, <2>3
  <1> QED
    BY <1>3, <1>4, <1>5, <1>6, <1>7, <1>8, <1>9, <1>10, <1>11, <1>12 DEF Work

\* Outside the pool, what there is to do and the IDs are all that counts.
LEMMA TasksTyped ==
  ASSUME Listing, Outcomes, [Next]_vars
  PROVE  ids' \in [Kinds -> SUBSET Sources] /\ tasks' \in Seq(Task)
  <1>0. /\ plan \in Plans /\ kind \in Kinds /\ at \in Nat \ {0}
        /\ ids \in [Kinds -> SUBSET Sources] /\ tasks \in Seq(Task) /\ <<>> \in Seq(Task)
    BY DEF Listing, Outcomes
  <1>1. CASE Start \/ CreateRefused \/ CallFailed \/ Crash \/ Record
    BY <1>0, <1>1 DEF Start, CreateRefused, CallFailed, ReturnError, Crash, Record, Forget
  <1>2. CASE Match \/ Create
    <2>1. /\ ids' = [ids EXCEPT ![kind] = @ \cup {Current}] /\ tasks' = tasks /\ at <= Len(Listed(kind))
      BY <1>2 DEF Match, Create, Matching
    <2>2. Listed(kind) \in Seq(Sources)
      BY <1>0, PlanIs DEF Listed
    <2>3. Current \in Sources
      BY <1>0, <2>1, <2>2 DEF Current
    <2> QED
      BY <1>0, <2>1, <2>3
  <1>3. CASE AddMembership \/ AddGlobalRoles
    BY <1>0, <1>3, MembershipAdded, GlobalsAdded DEF Stay
  <1>4. CASE \E i \in DOMAIN w : Work(i)
    <2>1. Apart
      BY <1>4 DEF Work, Launch, ReadPause, PauseOver, Cancelled, NothingToAssign, SendWithToken,
           FetchToken, TokenFetched, FetchFails, Answered, Refused, Limited, RequestFails, Answer, Observe,
           Fails
    <2> QED
      BY <1>0, <2>1 DEF Apart, phase
  <1>5. CASE \/ ListExisting \/ Matched \/ StartPool \/ PoolDone
             \/ Interrupt \/ Tick \/ Over \/ UNCHANGED vars
    BY <1>0, <1>5 DEF ListExisting, Matched, StartPool, PoolDone, Interrupt, Tick, Over, vars, phase
  <1> QED
    BY <1>1, <1>2, <1>3, <1>4, <1>5 DEF Next

LEMMA OutcomesStep ==
  ASSUME PoolInv, Listing, Outcomes, [Next]_vars, Grows
  PROVE  Outcomes'
  <1>0. ids' \in [Kinds -> SUBSET Sources] /\ tasks' \in Seq(Task) /\ tasks \in Seq(Task)
    BY TasksTyped DEF Outcomes
  <1>1. CASE pc' \notin {"pool", "over"}
    BY <1>0, <1>1 DEF Outcomes
  <1>2. CASE StartPool
    <2>1. pc' = "pool" /\ tasks' = tasks /\ w' = [i \in 1..Len(tasks) |-> NewWorker]
      BY <1>2 DEF StartPool
    <2>2. DOMAIN w' = DOMAIN tasks' /\ \A i \in DOMAIN w' : w'[i].st = "new"
      BY <1>0, <2>1 DEF NewWorker
    <2> QED
      BY <1>0, <2>1, <2>2 DEF Outcomes, Settled
  <1>3. CASE \E i \in DOMAIN w : Work(i)
    BY <1>3, WorkOutcomes
  <1>4. CASE Interrupt \/ Tick \/ Over \/ PoolDone \/ UNCHANGED vars
    <2>1. UNCHANGED <<tenant, tasks, ids, w, errs>> /\ (pc' = pc \/ PoolDone)
      BY <1>4 DEF Interrupt, Tick, Over, PoolDone, vars, phase, pool
    <2>2. CASE pc' = pc
      BY <2>1, <2>2 DEF Outcomes, Settled, Holds
    <2>3. CASE PoolDone
      BY <2>1, <2>3 DEF PoolDone, Is, Outcomes, Settled, Holds
    <2> QED
      BY <2>1, <2>2, <2>3
  <1>5. pc' \notin {"pool", "over"} \/ StartPool \/ PoolDone \/ Interrupt \/ Tick \/ Over
        \/ UNCHANGED vars \/ \E i \in DOMAIN w : Work(i)
    BY DEF Next, Start, CreateRefused, CallFailed, ReturnError, Crash, Record, ListExisting, Match, Create,
           Matching, Matched, AddMembership, AddGlobalRoles, Planning
  <1> QED
    BY <1>1, <1>2, <1>3, <1>4, <1>5

-----------------------------------------------------------------------------
\* The theorems.

LEMMA InitPhase == Init => PhaseInv
  <1> SUFFICES ASSUME Init PROVE PhaseInv
    OBVIOUS
  <1>1. plan \in Plans /\ IsFiniteSet(plan.there)
    BY PlanIs DEF Init
  <1>2. Listing
    BY <1>1 DEF Init, Listing, Kinds, TenantIs, Shape, PageCovers, RerunFindsItsRoles
  <1>3. Planned
    BY DEF Init, Planned, AfterListing
  <1>4. Outcomes
    <2>1. <<>> \in Seq(Task)
      OBVIOUS
    <2> QED
      BY <2>1 DEF Init, Outcomes
  <1> QED
    BY <1>2, <1>3, <1>4, InitPoolInv DEF PhaseInv

LEMMA PhaseStep == PhaseInv /\ [Next]_vars => PhaseInv'
  <1> SUFFICES ASSUME PhaseInv, [Next]_vars PROVE PhaseInv'
    OBVIOUS
  <1>1. PoolInv /\ Listing /\ Planned /\ Outcomes
    BY DEF PhaseInv
  <1>2. Grows
    BY <1>1, NothingTaken DEF Listing
  <1>3. PoolInv'
    BY <1>1, StepPoolInv
  <1>4. Listing'
    BY <1>1, ListingStep
  <1>5. Planned'
    BY <1>1, PlannedStep
  <1>6. Outcomes'
    BY <1>1, <1>2, OutcomesStep
  <1> QED
    BY <1>3, <1>4, <1>5, <1>6 DEF PhaseInv

\* What is listed, planned and carried out fits together in every reachable state.
THEOREM PhaseIsSound == Spec => []PhaseInv
  BY InitPhase, PhaseStep, PTL DEF Spec

\* orgs_roles.go:53-95: a creation is refused only of a name that its listing left out
\* of a full page, or that an entry of its own run shares, after any failures, deaths
\* and runs of the phase.
THEOREM RerunsFindTheirRoles == Spec => []RerunFindsItsRoles
  <1>1. PhaseInv => RerunFindsItsRoles
    BY DEF PhaseInv, Listing
  <1> QED
    BY <1>1, PhaseIsSound, PTL

LEMMA TaskGiven ==
  ASSUME PhaseInv, pc = "over", NEW t, AmongTasks(t)
  PROVE  Given(t)
  <1>1. PICK i \in DOMAIN w : tasks[i] = t /\ w[i].st = "done" /\ Settled(i)
    BY DEF PhaseInv, Outcomes, AmongTasks
  <1>2. CASE i \in errs
    BY <1>1, <1>2 DEF Given
  <1>3. CASE Holds(t)
    BY <1>3, HoldsGiven DEF Given, PhaseInv, Listing, TenantIs
  <1> QED
    BY <1>1, <1>2, <1>3 DEF Settled

\* orgs_roles.go:98-151: the report the phase returns leaves out no membership and no
\* role of a user imported, however many workers made the calls and in whatever order.
THEOREM AllAssignedOrReported == Spec => []AssignedOrReported
  <1>1. PhaseInv => AssignedOrReported
    <2> SUFFICES ASSUME PhaseInv, pc = "over", NEW u \in plan.imported
                 PROVE  /\ \A k \in DOMAIN plan.memberships[u] :
                             LET m == plan.memberships[u][k] IN
                             m.org \in ids["orgs"] =>
                               Given(Member(u, m.org)) /\ (m.roles # {} => Given(MemberRoles(u, m.org, m.roles)))
                        /\ (plan.globals[u] # {}) => Given(GlobalRoles(u, plan.globals[u]))
      BY DEF AssignedOrReported
    <2>1. plan \in Plans /\ u \in Users /\ plan.users \in Seq(Users) /\ at \in Nat \ {0}
      BY PlanIs DEF PhaseInv, Listing
    <2>2. CASE \E n \in DOMAIN plan.users : plan.users[n] = u
      <3>1. PICK n \in DOMAIN plan.users : plan.users[n] = u
        BY <2>2
      <3>2. n < at
        <4>1. at > Len(plan.users)
          BY DEF PhaseInv, Planned, AfterListing
        <4> QED
          BY <2>1, <4>1
      <3>3. AllDue(u)
        BY <3>1, <3>2 DEF PhaseInv, Planned, AfterListing
      <3> QED
        BY <3>3, TaskGiven DEF AllDue, MembershipDue, GlobalsDue
    <2>3. CASE plan.memberships[u] = <<>> /\ plan.globals[u] = {}
      BY <2>3
    <2> QED
      BY <2>1, <2>2, <2>3, PlanIs
  <1> QED
    BY <1>1, PhaseIsSound, PTL
=============================================================================
