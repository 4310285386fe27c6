----------------------------- MODULE MCOrgRoles ------------------------------
(* Small instances of OrgRoles. *)
EXTENDS OrgRoles

NoMemberships == [u \in Users |-> <<>>]
NoGlobals == [u \in Users |-> {}]

Base ==
  [roles |-> <<>>, orgs |-> <<>>, users |-> <<>>, memberships |-> NoMemberships, globals |-> NoGlobals,
   imported |-> Users, chosen |-> {}, name |-> [s \in Sources |-> "a"], there |-> {},
   faults |-> 1, interrupts |-> 1]

Named(f) == [s \in Sources |-> IF s \in DOMAIN f THEN f[s] ELSE "a"]

\* Two roles and an organization: names there or not, two of one name, and an ID
\* chosen by a hook; with no user to give them to.
MatchingNames ==
  {[Base EXCEPT !.roles = <<"r1", "r2">>, !.orgs = <<"o1">>, !.name = n, !.there = t, !.chosen = c] :
     n \in {Named([r1 |-> "a", r2 |-> "b"]), Named([r1 |-> "a", r2 |-> "a"])},
     t \in SUBSET Names, c \in {{}, {"r1"}}}

\* One user with roles in an organization, in another one unknown to the files, and global
\* roles, one of them unknown; and one that was not imported.
Assigning ==
  {[Base EXCEPT !.roles = <<"r1">>, !.orgs = <<"o1">>, !.users = <<"u2", "u1">>,
                !.name = Named([r1 |-> "a", o1 |-> "b"]), !.there = Names, !.imported = {"u1"},
                !.memberships = [u \in Users |->
                   IF u = "u1" THEN <<[org |-> "o1", roles |-> {"r1"}], [org |-> "o2", roles |-> {"r1"}]>>
                   ELSE <<[org |-> "o1", roles |-> {}]>>],
                !.globals = [NoGlobals EXCEPT !["u1"] = g]] :
     g \in {{}, {"r1", "r2"}, {"r2"}}}

\* Two members of an organization, without roles, through an interruption.
Members ==
  {[Base EXCEPT !.orgs = <<"o1">>, !.users = <<"u1", "u2">>, !.there = {"a"},
                !.memberships = [u \in Users |-> <<[org |-> "o1", roles |-> {}]>>], !.faults = 0]}

\* Three memberships, and two rate limits met while they are assigned.
Limits ==
  {[Base EXCEPT !.orgs = <<"o1", "o2">>, !.users = <<"u1", "u2">>, !.chosen = {"o1", "o2"},
                !.memberships = [u \in Users |->
                   IF u = "u1" THEN <<[org |-> "o1", roles |-> {}], [org |-> "o2", roles |-> {}]>>
                   ELSE <<[org |-> "o1", roles |-> {}]>>],
                !.name = Named([o1 |-> "a", o2 |-> "b"]), !.faults = 2, !.interrupts = 0]}

AllPlans == MatchingNames \cup Assigning \cup Limits
=============================================================================
