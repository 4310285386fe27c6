------------------------------ MODULE Migration ------------------------------
(***************************************************************************)
(* A user's way through a migration: the source's record is exported to a  *)
(* CMF user, the export-side strategies rewrite it, validate checks it     *)
(* with the rest of the file, the import prepares it, places its metadata  *)
(* and builds the target's payload, and Verify looks the account up.       *)
(*                                                                         *)
(* A case is a record together with what is true of it at the source: what *)
(* its password verifies with (checks), its factors and its metadata.      *)
(***************************************************************************)
EXTENDS Sources

CONSTANTS
  Cases,      \* names of the records
  CaseOf,     \* each one's record, and what is true of it
  AllOptions, \* what mapping and file are migrated with
  Assigned    \* the ID ids.target gives a user of each source ID

Strategies == {"email_first", "username_first", "phone_first"}

VARIABLES
  case, target,
  options,  \* [primary, ids, places, edit, others], see Accepted
  phase,    \* the step to come, "done", or "out" for a user left out of the file
  user,     \* the user of the users file
  skipped,  \* why the manifest says the record was left out
  problems, \* the fields validate reports
  fields,   \* the target fields metadata was moved to
  dropped,  \* the metadata keys the mapping or its handler drops
  payload,  \* what the connector built, or why the import reports a failure
  found,    \* the accounts Verify finds, "no identifier" aside
  drift     \* and what it says differs
vars == <<case, target, options, phase, user, skipped, problems, fields, dropped, payload, found, drift>>

Nobody == NewUser(Empty)
NoPayload == Built(Account, {})

(***************************************************************************)
(* The mapping.  places are metadata keys with the field each goes to: the *)
(* handler's answer, or static routes, which skip a key the user has not.  *)
(***************************************************************************)
IdentityOrder(s) ==
  CASE s = "email_first" -> <<"email", "username", "phone">>
    [] s = "username_first" -> <<"username", "email", "phone">>
    [] s = "phone_first" -> <<"phone", "email", "username">>
    [] OTHER -> <<>>
PrimaryLead(s) == IdentityOrder(s)[1]
Drop == Field("drop", Empty, Empty)
Place(from, key, to, static) == [from |-> from, key |-> key, to |-> to, static |-> static]

\* The kind a built-in prefers must be one the target can make primary, IDs one it can
\* take, and static routes lead where it has fields.
Accepted(t, o) ==
  /\ o.primary \in Strategies => PrimaryLead(o.primary) \in Capabilities(t).identifiers
  /\ o.ids # "none" => Capabilities(t).customID
  /\ \A p \in o.places : p.static => p.to = Drop \/ CheckTargetField(t, p.to)

HasIdentifier(u, kind) ==
  \/ kind = "email" /\ u.emails # <<>>
  \/ kind = "username" /\ u.username # Empty
  \/ kind = "phone" /\ u.phones # <<>>
BuiltinPrimary(s, u, allowed) == FirstOf(IdentityOrder(s), {k \in allowed : HasIdentifier(u, k)})

\* The contact flagged primary comes first, where connectors take it from.
PrimaryFirst(contacts) ==
  LET flagged == {i \in DOMAIN contacts : contacts[i].primary} IN
  IF flagged = {} THEN contacts
  ELSE LET at == CHOOSE i \in flagged : \A j \in flagged : i <= j
       IN <<contacts[at]>> \o SubSeq(contacts, 1, at - 1) \o SubSeq(contacts, at + 1, Len(contacts))
ApplyPrimary(u, kind) ==
  [u EXCEPT !.emails = PrimaryFirst(@), !.phones = PrimaryFirst(@), !.login = kind]

(***************************************************************************)
(* The file.                                                               *)
(***************************************************************************)
Exported(c) ==
  CASE c.source = "flatfile" -> FromRow(c.record, c.answers)
    [] c.source = "kratos" -> {UserFromIdentity(c.record)}
    [] c.source = "keycloak" -> {UserFromRepresentation(c.record)}
    [] c.source = "firebase" -> {UserFromAccount(c.record, c.config)}
    [] c.source = "auth0" -> {UserFromExport(c.record)}
    [] c.source = "azure-ad-b2c" -> {UserFromGraph(c.record)}

\* A contact in a CMF file has a value: connectors leave out the others, as a handler is
\* taken to.
Listed == [v : DOMAIN Shape \ {Empty}, verified : BOOLEAN, primary : BOOLEAN]
ContactList == Seq(Listed)
CMFUser(u) ==
  /\ DOMAIN u = DOMAIN Nobody
  /\ u.emails \in ContactList /\ u.phones \in ContactList /\ u.blocked \in BOOLEAN
  /\ Len(u.factors) \in Nat /\ DOMAIN u.factors = 1..Len(u.factors)
  /\ \A f \in FactorsOf(u) : f.type \in MFATypes

ASSUME CasesAssumption ==
  \A c \in Cases : \A u \in Exported(CaseOf[c]) : Ok(u) => CMFUser(u)
ASSUME OptionsAssumption == \A o \in AllOptions : \A v \in o.others : CMFUser(v)

Skip(why) == skipped' = why /\ phase' = "out" /\ UNCHANGED user
Write(u) == user' = u /\ phase' = "rewrite" /\ UNCHANGED skipped

\* The record is written to the file, or listed in the manifest.
Export ==
  /\ phase = "export"
  /\ \E u \in Exported(CaseOf[case]) : IF Ok(u) THEN Write(u) ELSE Skip(u.error)
  /\ UNCHANGED <<case, target, options, problems, fields, dropped, payload, found, drift>>

\* export.user: a replacement keeps the credentials.  This one lists the contacts the other
\* way round, with another name.
Reversed(contacts) == [i \in DOMAIN contacts |-> contacts[Len(contacts) + 1 - i]]
Replacement(u) ==
  [NewUser(u.id) EXCEPT
     !.emails = Reversed(u.emails), !.phones = Reversed(u.phones), !.username = u.username,
     !.name = "replaced", !.blocked = u.blocked, !.app = u.app, !.user = u.user]
AnswerApplied(u) ==
  IF options.edit = "replace"
  THEN [Replacement(u) EXCEPT !.password = u.password, !.factors = u.factors] ELSE u

\* ids.target: an ID once assigned is kept.
AssignedTo(u) == IF options.ids = "handler" THEN Assigned["handler"] ELSE Assigned[u.id]
Assign(u) ==
  IF options.ids = "none" \/ u.targetID # Empty THEN u ELSE [u EXCEPT !.targetID = AssignedTo(u)]

\* The file's other users were through the same rewriting.
Others == {Assign(u) : u \in options.others}

Rewrite ==
  /\ phase = "rewrite"
  /\ IF options.edit = "drop" THEN Skip("export.user")
     ELSE user' = Assign(AnswerApplied(user)) /\ phase' = "validate" /\ UNCHANGED skipped
  /\ UNCHANGED <<case, target, options, problems, fields, dropped, payload, found, drift>>

\* Identifiers and target IDs that an earlier user of the file has, or the user has twice.
Twice(contacts) == \E i, j \in DOMAIN contacts : i < j /\ contacts[i].v = contacts[j].v
DupTracker(u, seen) ==
  Problem(Twice(u.emails) \/ \E v \in seen : Emails(u) \cap Emails(v) # {}, "emails")
  \cup Problem(u.username # Empty /\ \E v \in seen : u.username = v.username, "username")
  \cup Problem(Twice(u.phones) \/ \E v \in seen : Phones(u) \cap Phones(v) # {}, "phones")
IDProblems(u, seen) ==
  Problem(IF u.targetID = Empty THEN options.ids # "none"
          ELSE ~Capabilities(target).customID \/ (\E v \in seen : v.targetID = u.targetID), "target_ids")
ProblemsOf(u, seen) ==
  CheckUser(target, u) \cup ValidateUser(target, u) \cup DupTracker(u, seen) \cup IDProblems(u, seen)

Validate ==
  /\ phase = "validate"
  /\ problems' = ProblemsOf(user, Others) /\ phase' = "import"
  /\ UNCHANGED <<case, target, options, user, skipped, fields, dropped, payload, found, drift>>

(***************************************************************************)
(* The import.                                                             *)
(***************************************************************************)
Metadata(u, from) == IF from = "app_metadata" THEN u.app ELSE u.user
Has(u, p) == p.key \in DOMAIN Metadata(u, p.from)
\* What fails the import.  A user without metadata is not sent to the handler.
BadPlacement(u) ==
  /\ DOMAIN u.app \cup DOMAIN u.user # {}
  /\ \E p \in options.places :
       ~p.static /\ (~Has(u, p) \/ (p.to # Drop /\ ~CheckTargetField(target, p.to)))

\* The keys placed are taken out of the user's metadata, an empty value goes nowhere.
Taken(u) == {p \in options.places : Has(u, p)}
Without(m, keys) == [k \in DOMAIN m \ keys |-> m[k]]
Left(u) ==
  [u EXCEPT !.app = Without(@, {p.key : p \in {q \in Taken(u) : q.from = "app_metadata"}}),
            !.user = Without(@, {p.key : p \in {q \in Taken(u) : q.from = "user_metadata"}})]
Fields(u) ==
  {Field(p.to.root, p.to.key, Metadata(u, p.from)[p.key]) :
     p \in {q \in Taken(u) : q.to # Drop /\ Metadata(u, q.from)[q.key] # Empty}}
Dropped(u) == {<<p.from, p.key>> : p \in {q \in Taken(u) : q.to = Drop}}

\* identity.primary decides as the mapping says, among what the target takes.
Prepared(u) ==
  IF options.primary = "none" THEN u
  ELSE ApplyPrimary(u, BuiltinPrimary(options.primary, u, Capabilities(target).identifiers))

\* What the connector reports for the user: its payload, or a TRANSLATION_ERROR.
Translated(u, fs) ==
  LET b == Build(target, u)
      a == IF Ok(b) THEN ApplyFields(target, b.account, fs) ELSE b
  IN IF Ok(a) THEN [b EXCEPT !.account = a] ELSE a

Import ==
  /\ phase = "import"
  /\ IF BadPlacement(user)
     THEN payload' = Refused("metadata.place") /\ UNCHANGED <<fields, dropped>>
     ELSE /\ fields' = Fields(user)
          /\ dropped' = Dropped(user)
          /\ payload' = Translated(Left(Prepared(user)), fields')
  /\ phase' = IF Ok(payload') THEN "verify" ELSE "done"
  /\ UNCHANGED <<case, target, options, user, skipped, problems, found, drift>>

\* The accounts the file's other users got.
OtherAccounts ==
  {b.account : b \in {p \in {Translated(Prepared(u), {}) : u \in Others} : Ok(p)}}

\* Mutant: the user is looked up as the file has it.
MAsImported(u) == u
\* identity.primary's built-in is replayed on the file's user.
AsImported(u) ==
  IF options.primary = "none" THEN u
  ELSE ApplyPrimary(u, BuiltinPrimary(options.primary, u, {"email", "username", "phone"}))

Verify ==
  /\ phase = "verify"
  /\ LET u == AsImported(user) IN
     /\ found' = IF NoIdentifier(target, u) THEN {}
                 ELSE Lookup(target, u, {payload.account} \cup OtherAccounts)
     /\ drift' = UNION {Drift(target, u, a) : a \in found'}
  /\ phase' = "done"
  /\ UNCHANGED <<case, target, options, user, skipped, problems, fields, dropped, payload>>

Init ==
  /\ case \in Cases /\ target \in Targets
  /\ options \in {o \in AllOptions : Accepted(target, o)}
  /\ phase = "export" /\ user = Nobody /\ skipped = Empty /\ problems = {} /\ fields = {} /\ dropped = {}
  /\ payload = NoPayload /\ found = {} /\ drift = {}
Next == Export \/ Rewrite \/ Validate \/ Import \/ Verify
Spec == Init /\ [][Next]_vars

-----------------------------------------------------------------------------
Truth == CaseOf[case]
IsBuilt == phase \in {"verify", "done"} /\ Ok(payload)

(***************************************************************************)
(* What it takes for a record's truth to be that of a user in the file:    *)
(* its password verifies what the source's did, unless it is marked as one *)
(* nothing can verify; its factors are the record's; its metadata holds    *)
(* the record's.                                                           *)
(***************************************************************************)
\* A factor without parameters has those of its URI.
Held(f) ==
  [type |-> f.type, of |-> f.of, params |-> IF f.params = Empty /\ f.as = "uri" THEN f.uri ELSE f.params]
HasPassword(c, u) ==
  \A k \in c.checks :
     Derivable(k) /\ \E p \in u.password : p.portable => SameCheck(k, Verifies(p))
HasFactors(c, u) == c.factors = {Held(f) : f \in FactorsOf(u)}
HasMetadata(c, u) ==
  \A m \in c.metadata :
     /\ m.from \in {"app_metadata", "user_metadata"} /\ m.v # Empty
     /\ Has(u, m) /\ Metadata(u, m.from)[m.key] = m.v
TrueOf(c, u) == HasPassword(c, u) /\ HasFactors(c, u) /\ HasMetadata(c, u)

ASSUME TruthAssumption ==
  \A c \in Cases : \A u \in Exported(CaseOf[c]) : Ok(u) => TrueOf(CaseOf[c], u)

\* The password of an account is the one the source verified with, or the user is told to
\* choose another.  (Auth0 has to guess the length of a PBKDF2 key, and takes no salt with
\* an HMAC.)
Guessed(c, d) ==
  /\ target = "auth0" /\ c.kdf = d.kdf
  /\ \/ c.kdf = "pbkdf2" /\ d = [c EXCEPT !.params.keylen = DefaultKeylen]
     \/ c.kdf = "hmac" /\ d = [c EXCEPT !.salt = NoBytes, !.pos = Empty]
PasswordKept ==
  \A c \in Truth.checks :
     \/ "password reset" \in payload.flags
     \/ \E d \in payload.account.checks : (SameCheck(c, d) \/ Guessed(c, d))

\* A factor keeps its secret, and a TOTP its parameters where the target is sent any, or is
\* to be enrolled again.  (Kratos holds one factor of a type, whatever it was given.)
FactorsKept ==
  \A f \in Truth.factors :
     \/ "re-enrollment" \in payload.flags
     \/ f.type = "recovery_codes" /\ "recovery codes" \in payload.flags
     \/ \E g \in payload.account.factors :
          /\ g.type = f.type /\ g.of = f.of
          /\ f.type = "totp" /\ target \notin {"auth0", "kratos"} => g.params = f.params
     \/ target = "kratos" /\ (\E g \in Truth.factors : g # f /\ g.type = f.type)

\* Where the account has a metadata key: at the fields the mapping places it in, or where
\* the connector puts it.
Home(m) ==
  CASE target = "kratos" ->
         <<IF m.from = "app_metadata" THEN "metadata_admin" ELSE "metadata_public", m.key>>
    [] target = "keycloak" -> <<"attributes", m.key>>
    [] target = "firebase" -> <<"custom_claims", m.key>>
    [] OTHER -> <<m.from, m.key>>
Placed(m) == {p \in options.places : p.from = m.from /\ p.key = m.key}
Spots(m) == IF Placed(m) = {} THEN {Home(m)} ELSE {<<p.to.root, p.to.key>> : p \in Placed(m)}
\* Its value is there, or that of another key which the mapping puts in the same field
\* (the later of two is the one set).
Holds(path, v) ==
  /\ path \in DOMAIN payload.account.attributes
  /\ LET w == payload.account.attributes[path] IN
     w = v \/ \E f \in fields : <<f.root, f.key>> = path /\ f.v = w
\* Cognito takes none without a target field, Firebase no user_metadata, and Keycloak has
\* one value of a name: its own first, then that of app_metadata.
Untaken(m) ==
  \/ target = "cognito"
  \/ target = "firebase" /\ m.from = "user_metadata"
  \/ target = "keycloak" /\ m.key \in ReservedAttributes
  \/ target = "keycloak" /\ m.from = "user_metadata" /\ m.key \in DOMAIN Left(user).app
\* A metadata key the mapping does not drop has its value on the account.
MetadataKept ==
  \A m \in Truth.metadata :
     \/ <<m.from, m.key>> \in dropped
     \/ Placed(m) = {} /\ Untaken(m)
     \/ \E path \in Spots(m) : Holds(path, m.v)

\* Whatever the pair of connectors and the mapping, what a record held reaches the account,
\* or the import says that it does not (flags of pkg/connector's build functions).
NothingLostSilently == IsBuilt => PasswordKept /\ FactorsKept /\ MetadataKept

\* What an account goes by: Kratos and Keycloak have one set of names for all kinds.
GoesBy(a) ==
  CASE target = "kratos" -> {a.email, a.username, a.phone}
    [] target = "keycloak" -> {a.login, a.email}
    [] target = "cognito" -> {a.login} [] OTHER -> {}
\* Two accounts a target cannot both have.
Same(x, y) == x # Empty /\ x = y
Clash(a, b) ==
  \/ (GoesBy(a) \cap GoesBy(b)) \ {Empty} # {}
  \/ target \in {"auth0", "firebase"} /\ (Same(a.id, b.id) \/ Same(a.email, b.email))
  \/ target = "auth0" /\ Same(a.username, b.username)
  \/ target = "firebase" /\ Same(a.phone, b.phone)

\* What validate does not try: all but Firebase's hashes, a TOTP secret, Keycloak's need
\* of an identifier, and the fields that metadata is moved to.
Untried ==
  CASE target \in {"auth0", "kratos"} -> {"password"}
    [] target = "keycloak" -> {"password", "TOTP secret", "username"}
    [] target = "firebase" -> {"claims"} [] target = "cognito" -> {}

\* What validate does not compare: identifiers of different kinds, and IDs of the source,
\* with or without Auth0's prefix.
Values(u, kind) ==
  CASE kind = "email" -> Emails(u) [] kind = "phone" -> Phones(u)
    [] OTHER -> {u.username} \ {Empty}
Uncompared(u, v) ==
  \/ \E k, l \in {"email", "username", "phone"} : k # l /\ Values(u, k) \cap Values(v, l) # {}
  \/ Unprefixed[TargetID(u)] = Unprefixed[TargetID(v)] /\ (u.targetID = Empty \/ u.targetID # v.targetID)

\* A user with no problem is not refused by the connector that builds it for a reason
\* validate looked at, and its account clashes with that of no other user of the file, but
\* by what validate does not compare (cmd/validate.go before the target's Import).
ValidatedIsTaken ==
  phase \in {"verify", "done"} /\ problems = {}
  => IF Ok(payload)
     THEN (\A v \in Others : ~Uncompared(user, v)) => \A a \in OtherAccounts : ~Clash(payload.account, a)
     ELSE payload.error \in Untried \cup {"metadata.place"}

\* A user is found by Verify under the identifier the import gave it, as the import left it
\* (unless another user's account is in the way, or a target field changed what is compared).
VerifyFindsIt ==
  IsBuilt /\ phase = "done" /\ ~NoIdentifier(target, user)
  /\ (\A a \in OtherAccounts : ~Clash(payload.account, a)) /\ (\A f \in fields : f.root # "profile")
  => found = {payload.account} /\ drift = {}
=============================================================================
