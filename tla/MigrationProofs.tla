--------------------------- MODULE MigrationProofs ---------------------------
(***************************************************************************)
(* Proofs about Migration: what validate passes, what Verify finds and     *)
(* what becomes of a password, a factor and a metadata key, for every      *)
(* record, target, mapping and file, and every hash.                       *)
(***************************************************************************)
EXTENDS Migration, TLAPS, FiniteSetTheorems

-----------------------------------------------------------------------------
(* Users as the import prepares them. *)

LEMMA LeastOf ==
  ASSUME NEW S \in SUBSET Nat, S # {}
  PROVE  \E i \in S : \A j \in S : i <= j
<1> DEFINE T == {0..i : i \in S}
           R == StrictSubsetOrdering(Nat)
<1>1. IsWellFoundedOn(R, FiniteSubsetsOf(Nat))
  BY FS_StrictSubsetOrderingWellFounded
<1>2. T \subseteq FiniteSubsetsOf(Nat)
  <2>1. ASSUME NEW i \in S PROVE 0..i \in FiniteSubsetsOf(Nat)
    <3>1. i \in Int /\ 0 \in Int
      OBVIOUS
    <3>2. IsFiniteSet(0..i)
      BY <3>1, FS_Interval
    <3>3. 0..i \in SUBSET Nat
      OBVIOUS
    <3> QED BY <3>2, <3>3 DEF FiniteSubsetsOf
  <2> QED BY <2>1
<1>3. T # {}
  OBVIOUS
<1>4. \E x \in T : \A y \in T : <<y, x>> \notin R
  <2> HIDE DEF R, T
  <2> QED BY <1>1, <1>2, <1>3, WFMin
<1>5. PICK i \in S : \A j \in S : <<0..j, 0..i>> \notin R
  BY <1>4
<1>6. ASSUME NEW j \in S, j < i PROVE FALSE
  <2>1. 0..j \subseteq 0..i /\ i \in 0..i /\ i \notin 0..j
    BY <1>6
  <2>2. <<0..j, 0..i>> \in R
    BY <2>1 DEF StrictSubsetOrdering
  <2> QED BY <2>2, <1>5
<1> QED BY <1>6

\* What comes first in the list a connector reads is one of the user's contacts.
LEMMA PrimaryIsOneOf ==
  ASSUME NEW c \in ContactList
  PROVE  /\ c = <<>> => PrimaryFirst(c) = <<>>
         /\ c # <<>> => PrimaryFirst(c) # <<>> /\ \E i \in DOMAIN c : First(PrimaryFirst(c)) = c[i]
<1> DEFINE flagged == {i \in DOMAIN c : c[i].primary}
           at == CHOOSE i \in flagged : \A j \in flagged : i <= j
           before == SubSeq(c, 1, at - 1)
           after == SubSeq(c, at + 1, Len(c))
<1>0. c \in Seq(Listed) /\ DOMAIN c = 1..Len(c) /\ Len(c) \in Nat
  BY DEF ContactList
<1>1. CASE flagged = {}
  <2>1. PrimaryFirst(c) = c
    BY <1>1 DEF PrimaryFirst
  <2>2. c # <<>> => 1 \in DOMAIN c
    BY <1>0
  <2>3. c # <<>> => First(c) = c[1]
    BY Zenon DEF First
  <2> QED BY <2>1, <2>2, <2>3
<1>2. CASE flagged # {}
  <2>1. flagged \in SUBSET Nat
    BY <1>0
  <2>2. \E i \in flagged : \A j \in flagged : i <= j
    <3> HIDE DEF flagged
    <3> QED BY <2>1, <1>2, LeastOf
  <2>3. at \in flagged
    <3> HIDE DEF flagged
    <3> QED BY <2>2
  <2>4. at \in 1..Len(c) /\ c # <<>>
    BY <2>3, <1>0
  <2>5. PrimaryFirst(c) = <<c[at]>> \o before \o after
    BY <1>2, Zenon DEF PrimaryFirst
  <2> HIDE DEF at
  <2>6. c[at] \in Listed /\ before \in Seq(Listed) /\ after \in Seq(Listed)
    BY <2>4, <1>0
  <2> HIDE DEF before, after
  <2> DEFINE x == c[at]
             d == <<x>> \o before \o after
  <2>7. d # <<>> /\ d[1] = x
    <3> HIDE DEF x
    <3>1. <<x>> \o before \in Seq(Listed) /\ Len(<<x>> \o before) >= 1 /\ (<<x>> \o before)[1] = x
      BY <2>6 DEF x
    <3> QED BY <3>1, <2>6
  <2>8. First(d) = d[1]
    <3> HIDE DEF d
    <3> QED BY <2>7, Zenon DEF First
  <2> QED BY <2>3, <2>4, <2>5, <2>7, <2>8
<1> QED BY <1>1, <1>2

\* What a connector reads of a user is left by the import as the user has it, but for the
\* order of the contacts and the kind of identifier to log in with.
Alike(w, u) ==
  /\ w.id = u.id /\ w.targetID = u.targetID /\ w.username = u.username /\ w.name = u.name
  /\ w.blocked = u.blocked /\ w.password = u.password
\* The contacts of a list, or one of them is read for them.
ReadFrom(w, u) ==
  IF u = <<>> THEN w = <<>> ELSE w # <<>> /\ \E i \in DOMAIN u : First(w) = u[i]
Reads(w, u) == Alike(w, u) /\ ReadFrom(w.emails, u.emails) /\ ReadFrom(w.phones, u.phones)

LEMMA UserFields ==
  ASSUME NEW u, CMFUser(u)
  PROVE  DOMAIN u = {"id", "targetID", "emails", "phones", "username", "name", "blocked", "password",
                     "factors", "app", "user", "login"}
BY DEF CMFUser, Nobody, NewUser

LEMMA AppliedReads ==
  ASSUME NEW u, CMFUser(u), NEW kind
  PROVE  LET w == ApplyPrimary(u, kind) IN
         Reads(w, u) /\ w.login = kind /\ DOMAIN w = DOMAIN u
         /\ w.emails = PrimaryFirst(u.emails) /\ w.phones = PrimaryFirst(u.phones)
<1> DEFINE w == ApplyPrimary(u, kind)
<1>1. /\ w.emails = PrimaryFirst(u.emails) /\ w.phones = PrimaryFirst(u.phones)
      /\ Alike(w, u) /\ w.login = kind /\ DOMAIN w = DOMAIN u
  BY UserFields DEF ApplyPrimary, Alike
<1>2. ASSUME NEW c \in ContactList PROVE ReadFrom(PrimaryFirst(c), c)
  BY PrimaryIsOneOf DEF ReadFrom
<1>3. u.emails \in ContactList /\ u.phones \in ContactList
  BY DEF CMFUser
<1> HIDE DEF w
<1> QED BY <1>1, <1>2, <1>3 DEF Reads, w

LEMMA SelfReads ==
  ASSUME NEW u, CMFUser(u)
  PROVE  Reads(u, u)
<1>1. ASSUME NEW c \in ContactList PROVE ReadFrom(c, c)
  <2>1. c \in Seq(Listed)
    BY DEF ContactList
  <2>2. c # <<>> => 1 \in DOMAIN c
    BY <2>1
  <2>3. c # <<>> => First(c) = c[1]
    BY Zenon DEF First
  <2> QED BY <2>2, <2>3 DEF ReadFrom
<1> QED BY <1>1 DEF CMFUser, Reads, Alike

LEMMA PreparedReads ==
  ASSUME NEW u, CMFUser(u)
  PROVE  Reads(Prepared(u), u) /\ DOMAIN Prepared(u) = DOMAIN u
<1>1. CASE options.primary = "none"
  BY <1>1, SelfReads DEF Prepared
<1>2. CASE options.primary # "none"
  <2>1. Prepared(u) = ApplyPrimary(u, BuiltinPrimary(options.primary, u, Capabilities(target).identifiers))
    BY <1>2, Zenon DEF Prepared
  <2> QED BY <2>1, AppliedReads
<1> QED BY <1>1, <1>2

\* The user as the import builds it, and as Verify looks it up.
BuiltAs(w, u) ==
  /\ Reads(w, user) /\ Reads(u, user) /\ Alike(w, u)
  /\ w.emails = u.emails /\ w.phones = u.phones
  /\ target \notin {"auth0", "firebase"} => w.login = u.login

LEMMA ImportedAsVerified ==
  ASSUME CMFUser(user), target \in Targets
  PROVE  BuiltAs(Left(Prepared(user)), AsImported(user))
<1> DEFINE p == Prepared(user)
           w == Left(p)
           u == AsImported(user)
<1>1. Reads(p, user) /\ DOMAIN p = DOMAIN user
  BY PreparedReads
<1>2. /\ Alike(w, p) /\ w.emails = p.emails /\ w.phones = p.phones /\ w.login = p.login
  <2> HIDE DEF p
  <2>1. "app" \in DOMAIN p /\ "user" \in DOMAIN p
    BY <1>1, UserFields
  <2>2. PICK a, b : w = [p EXCEPT !.app = a, !.user = b]
    BY Zenon DEF Left
  <2> HIDE DEF w
  <2> QED BY <2>1, <2>2, <1>1, UserFields DEF Alike
<1>3. /\ Reads(u, user) /\ Alike(p, u) /\ p.emails = u.emails /\ p.phones = u.phones
      /\ target \notin {"auth0", "firebase"} => p.login = u.login
  <2>1. CASE options.primary = "none"
    BY <2>1, <1>1, Zenon DEF Prepared, AsImported, Alike
  <2>2. CASE options.primary # "none"
    <3> DEFINE k(s) == BuiltinPrimary(options.primary, user, s)
               mine == Capabilities(target).identifiers
               all == {"email", "username", "phone"}
    <3>1. p = ApplyPrimary(user, k(mine)) /\ u = ApplyPrimary(user, k(all))
      BY <2>2, Zenon DEF Prepared, AsImported
    <3>2. target \notin {"auth0", "firebase"} => mine = all
      BY Zenon DEF Targets, Capabilities
    <3>3. target \notin {"auth0", "firebase"} => k(mine) = k(all)
      BY <3>2
    <3> HIDE DEF k, mine, all, p, u
    <3> QED BY <3>1, <3>3, AppliedReads DEF Reads, Alike
  <2> QED BY <2>1, <2>2
<1> HIDE DEF p, w, u
<1>4. Reads(w, user)
  BY <1>1, <1>2 DEF Reads, Alike
<1>5. Alike(w, u)
  BY <1>2, <1>3 DEF Alike
<1> QED BY <1>2, <1>3, <1>4, <1>5 DEF BuiltAs, p, w, u

-----------------------------------------------------------------------------
(* What each connector builds. *)

\* What an account of target t has of the user it was built from.
AccountOf(t, w, a) ==
  /\ a.email = First(w.emails).v /\ a.verified = First(w.emails).verified
  /\ a.phone = First(w.phones).v /\ a.enabled = ~w.blocked
  /\ t \in {"auth0", "kratos"} => a.username = w.username
  /\ t = "keycloak" => a.login = LoginUsername(w) /\ a.login # Empty
  /\ t = "cognito" => a.login = Login(w).v /\ a.login # Empty
  /\ t = "auth0" => a.id = Unprefixed[TargetID(w)] /\ w.emails # <<>>
  /\ t = "firebase" => a.id = TargetID(w) /\ (w.emails # <<>> \/ w.phones # <<>>)
Named(t, w, a) == t # "kratos" => a.name = w.name
\* The reasons a connector has to refuse a user.
RefusedOf(t, w, why) ==
  \/ t = "auth0" /\ why = "email" /\ w.emails = <<>>
  \/ t \in {"auth0", "kratos", "keycloak"} /\ why = "password"
  \/ t = "keycloak" /\ why \in {"TOTP secret", "username"}
  \/ t = "cognito" /\ why = "username" /\ Login(w).v = Empty
  \/ t = "firebase" /\ why = "emails" /\ w.emails = <<>> /\ w.phones = <<>>
  \/ t = "firebase" /\ why = "password" /\ NotTranslated(w, ToFirebaseHash)
BuildSays(t, w, b) ==
  IF Ok(b)
  THEN /\ DOMAIN b = {"account", "flags"} /\ DOMAIN b.account = DOMAIN Account
       /\ AccountOf(t, w, b.account) /\ Named(t, w, b.account)
  ELSE DOMAIN b = {"error"} /\ RefusedOf(t, w, b.error)

LEMMA Outcomes ==
  /\ \A why : ~Ok(Refused(why)) /\ Refused(why).error = why /\ DOMAIN Refused(why) = {"error"}
  /\ \A a, f : /\ Ok(Built(a, f)) /\ Built(a, f).account = a /\ Built(a, f).flags = f
               /\ DOMAIN Built(a, f) = {"account", "flags"}
BY DEF Ok, Refused, Built

LEMMA AccountFields ==
  DOMAIN Account = {"id", "login", "email", "verified", "phone", "username", "name", "enabled", "checks",
                    "factors", "attributes"}
BY DEF Account

LEMMA ContactsSay ==
  ASSUME NEW w
  PROVE  LET c == Contacts(w, Account) IN
         /\ DOMAIN c = DOMAIN Account /\ c.email = First(w.emails).v
         /\ c.verified = First(w.emails).verified /\ c.phone = First(w.phones).v
BY AccountFields DEF Contacts

LEMMA Auth0Builds ==
  ASSUME NEW w
  PROVE  BuildSays("auth0", w, BuildImportUser(w))
<1>1. CASE w.emails = <<>>
  <2>1. BuildImportUser(w) = Refused("email")
    BY <1>1, Zenon DEF BuildImportUser
  <2> QED BY <2>1, <1>1, Outcomes, Zenon DEF BuildSays, RefusedOf
<1>2. CASE w.emails # <<>> /\ NotTranslated(w, ToAuth0)
  <2>1. BuildImportUser(w) = Refused("password")
    BY <1>2, Zenon DEF BuildImportUser
  <2> QED BY <2>1, <1>2, Outcomes, Zenon DEF BuildSays, RefusedOf
<1>3. CASE w.emails # <<>> /\ ~NotTranslated(w, ToAuth0)
  <2> DEFINE c == Contacts(w, Account)
  <2>1. PICK checks, factors, attributes, flags :
          BuildImportUser(w) =
            Built([c EXCEPT !.id = Unprefixed[TargetID(w)], !.username = w.username, !.name = w.name,
                                  !.enabled = ~w.blocked, !.checks = checks, !.factors = factors,
                                  !.attributes = attributes], flags)
    BY <1>3, Zenon DEF BuildImportUser
  <2> DEFINE a == [c EXCEPT !.id = Unprefixed[TargetID(w)], !.username = w.username, !.name = w.name,
                       !.enabled = ~w.blocked, !.checks = checks, !.factors = factors,
                       !.attributes = attributes]
  <2>2. BuildImportUser(w) = Built(a, flags)
    BY <2>1
  <2>3. DOMAIN a = DOMAIN Account /\ AccountOf("auth0", w, a) /\ Named("auth0", w, a)
    <3> HIDE DEF c
    <3>1. DOMAIN c = DOMAIN Account /\ c.email = First(w.emails).v
          /\ c.verified = First(w.emails).verified /\ c.phone = First(w.phones).v
      BY ContactsSay DEF c
    <3> QED BY <3>1, <1>3, AccountFields DEF AccountOf, Named
  <2> HIDE DEF a
  <2> QED BY <2>2, <2>3, Outcomes, Zenon DEF BuildSays
<1> QED BY <1>1, <1>2, <1>3

LEMMA KratosBuilds ==
  ASSUME NEW w
  PROVE  BuildSays("kratos", w, BuildIdentity(w))
<1>1. CASE NotTranslated(w, ToKratosHashedPassword)
  <2>1. BuildIdentity(w) = Refused("password")
    BY <1>1, Zenon DEF BuildIdentity
  <2> QED BY <2>1, <1>1, Outcomes, Zenon DEF BuildSays, RefusedOf
<1>2. CASE ~NotTranslated(w, ToKratosHashedPassword)
  <2> DEFINE c == Contacts(w, Account)
  <2>1. PICK checks, factors, attributes, flags :
          BuildIdentity(w) =
            Built([c EXCEPT !.username = w.username, !.enabled = ~w.blocked,
                                  !.checks = checks, !.factors = factors, !.attributes = attributes], flags)
    BY <1>2, Zenon DEF BuildIdentity
  <2> DEFINE a == [c EXCEPT !.username = w.username, !.enabled = ~w.blocked,
                       !.checks = checks, !.factors = factors, !.attributes = attributes]
  <2>2. BuildIdentity(w) = Built(a, flags)
    BY <2>1
  <2>3. DOMAIN a = DOMAIN Account /\ AccountOf("kratos", w, a) /\ Named("kratos", w, a)
    <3> HIDE DEF c
    <3>1. DOMAIN c = DOMAIN Account /\ c.email = First(w.emails).v
          /\ c.verified = First(w.emails).verified /\ c.phone = First(w.phones).v
      BY ContactsSay DEF c
    <3> QED BY <3>1, <1>2, AccountFields DEF AccountOf, Named
  <2> HIDE DEF a
  <2> QED BY <2>2, <2>3, Outcomes, Zenon DEF BuildSays
<1> QED BY <1>1, <1>2

LEMMA KeycloakBuilds ==
  ASSUME NEW w
  PROVE  BuildSays("keycloak", w, BuildUser(w))
<1>1. CASE LoginUsername(w) = Empty
  <2>1. BuildUser(w) = Refused("username")
    BY <1>1, Zenon DEF BuildUser
  <2> QED BY <2>1, <1>1, Outcomes, Zenon DEF BuildSays, RefusedOf
<1>2. CASE ~(LoginUsername(w) = Empty) /\ NotTranslated(w, ToKeycloakCredential)
  <2>1. BuildUser(w) = Refused("password")
    BY <1>2, Zenon DEF BuildUser
  <2> QED BY <2>1, <1>2, Outcomes, Zenon DEF BuildSays, RefusedOf
<1>3. CASE ~(LoginUsername(w) = Empty) /\ ~NotTranslated(w, ToKeycloakCredential) /\ \E f \in TOTPs(w) : ~Ok(OTPCredential(f))
  <2>1. BuildUser(w) = Refused("TOTP secret")
    BY <1>3, Zenon DEF BuildUser
  <2> QED BY <2>1, <1>3, Outcomes, Zenon DEF BuildSays, RefusedOf
<1>4. CASE ~(LoginUsername(w) = Empty) /\ ~NotTranslated(w, ToKeycloakCredential) /\ ~(\E f \in TOTPs(w) : ~Ok(OTPCredential(f)))
  <2> DEFINE c == Contacts(w, Account)
  <2>1. PICK checks, factors, attributes, flags :
          BuildUser(w) =
            Built([c EXCEPT !.login = LoginUsername(w), !.name = w.name, !.enabled = ~w.blocked,
                                  !.checks = checks, !.factors = factors, !.attributes = attributes], flags)
    BY <1>4, Zenon DEF BuildUser
  <2> DEFINE a == [c EXCEPT !.login = LoginUsername(w), !.name = w.name, !.enabled = ~w.blocked,
                       !.checks = checks, !.factors = factors, !.attributes = attributes]
  <2>2. BuildUser(w) = Built(a, flags)
    BY <2>1
  <2>3. DOMAIN a = DOMAIN Account /\ AccountOf("keycloak", w, a) /\ Named("keycloak", w, a)
    <3> HIDE DEF c
    <3>1. DOMAIN c = DOMAIN Account /\ c.email = First(w.emails).v
          /\ c.verified = First(w.emails).verified /\ c.phone = First(w.phones).v
      BY ContactsSay DEF c
    <3> QED BY <3>1, <1>4, AccountFields DEF AccountOf, Named
  <2> HIDE DEF a
  <2> QED BY <2>2, <2>3, Outcomes, Zenon DEF BuildSays
<1> QED BY <1>1, <1>2, <1>3, <1>4

LEMMA CognitoBuilds ==
  ASSUME NEW w
  PROVE  BuildSays("cognito", w, BuildCreateUser(w))
<1>1. CASE Login(w).v = Empty
  <2>1. BuildCreateUser(w) = Refused("username")
    BY <1>1, Zenon DEF BuildCreateUser
  <2> QED BY <2>1, <1>1, Outcomes, Zenon DEF BuildSays, RefusedOf
<1>2. CASE ~(Login(w).v = Empty)
  <2> DEFINE c == Contacts(w, Account)
  <2>1. PICK username, flags :
          BuildCreateUser(w) =
            Built([c EXCEPT !.login = Login(w).v, !.name = w.name, !.username = username,
                                  !.enabled = ~w.blocked], flags)
    BY <1>2, Zenon DEF BuildCreateUser
  <2> DEFINE a == [c EXCEPT !.login = Login(w).v, !.name = w.name, !.username = username,
                       !.enabled = ~w.blocked]
  <2>2. BuildCreateUser(w) = Built(a, flags)
    BY <2>1
  <2>3. DOMAIN a = DOMAIN Account /\ AccountOf("cognito", w, a) /\ Named("cognito", w, a)
    <3> HIDE DEF c
    <3>1. DOMAIN c = DOMAIN Account /\ c.email = First(w.emails).v
          /\ c.verified = First(w.emails).verified /\ c.phone = First(w.phones).v
      BY ContactsSay DEF c
    <3> QED BY <3>1, <1>2, AccountFields DEF AccountOf, Named
  <2> HIDE DEF a
  <2> QED BY <2>2, <2>3, Outcomes, Zenon DEF BuildSays
<1> QED BY <1>1, <1>2

LEMMA FirebaseBuilds ==
  ASSUME NEW w
  PROVE  BuildSays("firebase", w, BuildAccount(w))
<1>1. CASE w.emails = <<>> /\ w.phones = <<>>
  <2>1. BuildAccount(w) = Refused("emails")
    BY <1>1, Zenon DEF BuildAccount
  <2> QED BY <2>1, <1>1, Outcomes, Zenon DEF BuildSays, RefusedOf
<1>2. CASE ~(w.emails = <<>> /\ w.phones = <<>>) /\ NotTranslated(w, ToFirebaseHash)
  <2>1. BuildAccount(w) = Refused("password")
    BY <1>2, Zenon DEF BuildAccount
  <2> QED BY <2>1, <1>2, Outcomes, Zenon DEF BuildSays, RefusedOf
<1>3. CASE ~(w.emails = <<>> /\ w.phones = <<>>) /\ ~NotTranslated(w, ToFirebaseHash)
  <2> DEFINE c == Contacts(w, Account)
  <2>1. PICK checks, factors, attributes, flags :
          BuildAccount(w) =
            Built([c EXCEPT !.id = TargetID(w), !.name = w.name, !.enabled = ~w.blocked,
                                  !.checks = checks, !.factors = factors, !.attributes = attributes], flags)
    BY <1>3, Zenon DEF BuildAccount
  <2> DEFINE a == [c EXCEPT !.id = TargetID(w), !.name = w.name, !.enabled = ~w.blocked,
                       !.checks = checks, !.factors = factors, !.attributes = attributes]
  <2>2. BuildAccount(w) = Built(a, flags)
    BY <2>1
  <2>3. DOMAIN a = DOMAIN Account /\ AccountOf("firebase", w, a) /\ Named("firebase", w, a)
    <3> HIDE DEF c
    <3>1. DOMAIN c = DOMAIN Account /\ c.email = First(w.emails).v
          /\ c.verified = First(w.emails).verified /\ c.phone = First(w.phones).v
      BY ContactsSay DEF c
    <3> QED BY <3>1, <1>3, AccountFields DEF AccountOf, Named
  <2> HIDE DEF a
  <2> QED BY <2>2, <2>3, Outcomes, Zenon DEF BuildSays
<1> QED BY <1>1, <1>2, <1>3

LEMMA EachBuilds ==
  ASSUME target \in Targets, NEW w
  PROVE  BuildSays(target, w, Build(target, w))
<1>1. CASE target = "auth0"
  BY <1>1, Auth0Builds, Zenon DEF Build
<1>2. CASE target = "kratos"
  BY <1>2, KratosBuilds, Zenon DEF Build
<1>3. CASE target = "keycloak"
  BY <1>3, KeycloakBuilds, Zenon DEF Build
<1>4. CASE target = "cognito"
  BY <1>4, CognitoBuilds, Zenon DEF Build
<1>5. CASE target = "firebase"
  BY <1>5, FirebaseBuilds, Zenon DEF Build
<1> QED BY <1>1, <1>2, <1>3, <1>4, <1>5 DEF Targets

\* The fields set over an account.
FieldsSet(fs) ==
  [path \in {<<f.root, f.key>> : f \in fs} |-> (CHOOSE f \in fs : <<f.root, f.key>> = path).v]

LEMMA FieldsApplied ==
  ASSUME NEW t, NEW account, DOMAIN account = DOMAIN Account, NEW fs
  PROVE  LET a == ApplyFields(t, account, fs) IN
         IF Ok(a)
         THEN /\ DOMAIN a = DOMAIN Account
              /\ \A k \in DOMAIN Account \ {"attributes", "name"} : a[k] = account[k]
              /\ a.attributes = Over(FieldsSet(fs), account.attributes)
              /\ (\A f \in fs : f.root # "profile") => a.name = account.name
         ELSE t = "firebase" /\ a = Refused("claims")
<1> DEFINE refused == t = "firebase" /\ \E f \in fs : f.root = "custom_claims" /\ f.v = Huge
           set == FieldsSet(fs)
           a == ApplyFields(t, account, fs)
<1>1. CASE refused
  BY <1>1, Outcomes, Zenon DEF ApplyFields
<1>2. CASE ~refused
  <2> DEFINE at == Over(set, account.attributes)
             named == <<"profile", "name">> \in DOMAIN set
             name == IF named THEN set[<<"profile", "name">>] ELSE account.name
  <2>1. a = [account EXCEPT !.attributes = at, !.name = name]
    BY <1>2, Zenon DEF ApplyFields, FieldsSet
  <2>2. (\A f \in fs : f.root # "profile") => ~named
    BY DEF FieldsSet
  <2>3. (\A f \in fs : f.root # "profile") => name = account.name
    BY <2>2
  <2> HIDE DEF a, at, name
  <2>4. DOMAIN a = DOMAIN Account /\ a.name = name /\ a.attributes = at
        /\ \A k \in DOMAIN Account \ {"attributes", "name"} : a[k] = account[k]
    BY <2>1, AccountFields
  <2>5. Ok(a)
    BY <2>4, AccountFields DEF Ok
  <2> QED BY <2>3, <2>4, <2>5 DEF a, at
<1> QED BY <1>1, <1>2

LEMMA TranslatedSays ==
  ASSUME target \in Targets, NEW w, NEW fs
  PROVE  LET p == Translated(w, fs) IN
         IF Ok(p)
         THEN /\ AccountOf(target, w, p.account)
              /\ (\A f \in fs : f.root # "profile") => Named(target, w, p.account)
         ELSE RefusedOf(target, w, p.error) \/ (target = "firebase" /\ p.error = "claims")
<1> DEFINE b == Build(target, w)
           a == ApplyFields(target, b.account, fs)
           p == Translated(w, fs)
<1>1. BuildSays(target, w, b)
  BY EachBuilds
<1>2. CASE ~Ok(b)
  BY <1>1, <1>2, Zenon DEF Translated, BuildSays
<1>3. CASE Ok(b) /\ ~Ok(a)
  <2>1. p = a
    BY <1>3, Zenon DEF Translated
  <2>2. DOMAIN b.account = DOMAIN Account
    BY <1>1, <1>3, Zenon DEF BuildSays
  <2>3. target = "firebase" /\ a = Refused("claims")
    BY <2>2, <1>3, FieldsApplied, Zenon
  <2> QED BY <2>1, <2>3, <1>3, Outcomes, Zenon
<1>4. CASE Ok(b) /\ Ok(a)
  <2>1. p = [b EXCEPT !.account = a]
    BY <1>4, Zenon DEF Translated
  <2>2. DOMAIN b = {"account", "flags"} /\ DOMAIN b.account = DOMAIN Account
        /\ AccountOf(target, w, b.account) /\ Named(target, w, b.account)
    BY <1>1, <1>4, Zenon DEF BuildSays
  <2>3. /\ \A k \in DOMAIN Account \ {"attributes", "name"} : a[k] = b.account[k]
        /\ (\A f \in fs : f.root # "profile") => a.name = b.account.name
    <3> HIDE DEF b
    <3>1. DOMAIN b.account = DOMAIN Account /\ Ok(a)
      BY <2>2, <1>4
    <3> QED BY <3>1, FieldsApplied
  <2> HIDE DEF a, b, p
  <2>4. Ok(p) /\ p.account = a
    BY <2>1, <2>2 DEF Ok
  <2>5. AccountOf(target, w, a)
    <3>1. /\ a.email = b.account.email /\ a.verified = b.account.verified /\ a.phone = b.account.phone
          /\ a.enabled = b.account.enabled /\ a.username = b.account.username
          /\ a.login = b.account.login /\ a.id = b.account.id
      BY <2>3, AccountFields
    <3> QED BY <3>1, <2>2, Zenon DEF AccountOf
  <2>6. (\A f \in fs : f.root # "profile") => Named(target, w, a)
    BY <2>2, <2>3 DEF Named
  <2> QED BY <2>4, <2>5, <2>6 DEF p
<1> QED BY <1>2, <1>3, <1>4

-----------------------------------------------------------------------------
(* What an account goes by. *)

\* The identifiers a user has, of any kind.
Known(u) == Emails(u) \cup Phones(u) \cup ({u.username} \ {Empty})

LEMMA FirstRead ==
  ASSUME NEW c \in ContactList, NEW d, ReadFrom(d, c)
  PROVE  /\ c = <<>> <=> d = <<>>
         /\ c = <<>> => First(d).v = Empty
         /\ c # <<>> => First(d) = d[1] /\ First(d).v # Empty /\ First(d).v \in {c[i].v : i \in DOMAIN c}
<1>1. CASE c = <<>>
  <2>1. d = <<>>
    BY <1>1 DEF ReadFrom
  <2>2. First(d) = Contact(Empty, FALSE, FALSE)
    BY <2>1, Zenon DEF First
  <2>3. First(d).v = Empty
    BY <2>2 DEF Contact
  <2> QED BY <1>1, <2>1, <2>3
<1>2. CASE c # <<>>
  <2>1. d # <<>>
    BY <1>2, Zenon DEF ReadFrom
  <2>2. First(d) = d[1]
    BY <2>1, Zenon DEF First
  <2>3. PICK i \in DOMAIN c : First(d) = c[i]
    BY <1>2, Zenon DEF ReadFrom
  <2>4. c[i] \in Listed
    BY DEF ContactList
  <2>5. c[i].v # Empty
    BY <2>4 DEF Listed
  <2>6. First(d).v # Empty /\ First(d).v \in {c[j].v : j \in DOMAIN c}
    BY <2>3, <2>5, Zenon
  <2> QED BY <1>2, <2>1, <2>2, <2>6
<1> QED BY <1>1, <1>2

LEMMA ContactsRead ==
  ASSUME NEW u, CMFUser(u), NEW w, Reads(w, u)
  PROVE  /\ u.emails = <<>> <=> w.emails = <<>>
         /\ u.phones = <<>> <=> w.phones = <<>>
         /\ u.emails = <<>> => First(w.emails).v = Empty
         /\ u.phones = <<>> => First(w.phones).v = Empty
         /\ u.emails # <<>> => First(w.emails) = w.emails[1] /\ First(w.emails).v # Empty /\ First(w.emails).v \in Emails(u)
         /\ u.phones # <<>> => First(w.phones) = w.phones[1] /\ First(w.phones).v # Empty /\ First(w.phones).v \in Phones(u)
<1>1. u.emails \in ContactList /\ u.phones \in ContactList
  BY DEF CMFUser
<1>2. ReadFrom(w.emails, u.emails) /\ ReadFrom(w.phones, u.phones)
  BY DEF Reads
<1>3. Emails(u) = {u.emails[i].v : i \in DOMAIN u.emails} /\ Phones(u) = {u.phones[i].v : i \in DOMAIN u.phones}
  BY DEF Emails, Phones
<1> HIDE DEF Reads
<1> QED BY <1>1, <1>2, <1>3, FirstRead, Zenon

\* The one kind of identifier a login is of.
LEMMA LoginKnown ==
  ASSUME NEW u, CMFUser(u), NEW w, Reads(w, u)
  PROVE  /\ Login(w).v # Empty => Login(w).v \in Known(u)
         /\ LoginUsername(w) # Empty => LoginUsername(w) \in Known(u)
<1>1. /\ First(w.emails).v # Empty => First(w.emails).v \in Known(u)
      /\ First(w.phones).v # Empty => First(w.phones).v \in Known(u)
      /\ w.username # Empty => w.username \in Known(u)
  <2>1. w.username = u.username
    BY DEF Reads, Alike
  <2> QED BY <2>1, ContactsRead, Zenon DEF Known
<1>2. \A kind : ValueOf(w, kind) # Empty => ValueOf(w, kind) \in Known(u)
  <2> TAKE kind
  <2>1. CASE kind = "email"
    BY <2>1, <1>1, Zenon DEF ValueOf
  <2>2. CASE kind = "username"
    BY <2>2, <1>1, Zenon DEF ValueOf
  <2>3. CASE kind = "phone"
    BY <2>3, <1>1, Zenon DEF ValueOf
  <2>4. CASE kind \notin {"email", "username", "phone"}
    <3>1. ValueOf(w, kind) = Empty
      BY <2>4, Zenon DEF ValueOf
    <3> QED BY <3>1
  <2> QED BY <2>1, <2>2, <2>3, <2>4
<1>3. \E kind : Login(w).v = ValueOf(w, kind)
  BY DEF Login
<1>4. LoginUsername(w) \in {First(w.emails).v, First(w.phones).v, w.username}
  <2>1. /\ w.emails # <<>> => First(w.emails) = w.emails[1]
        /\ w.phones # <<>> => First(w.phones) = w.phones[1]
    BY ContactsRead, Zenon
  <2>2. CASE w.login = "email" /\ w.emails # <<>>
    BY <2>1, <2>2, Zenon DEF LoginUsername
  <2>3. CASE ~(w.login = "email" /\ w.emails # <<>>) /\ w.login = "phone" /\ w.phones # <<>>
    BY <2>1, <2>3, Zenon DEF LoginUsername
  <2>4. CASE ~(w.login = "email" /\ w.emails # <<>>) /\ ~(w.login = "phone" /\ w.phones # <<>>)
    BY <2>1, <2>4, Zenon DEF LoginUsername
  <2> QED BY <2>2, <2>3, <2>4
<1> QED BY <1>1, <1>2, <1>3, <1>4

LEMMA AccountKnown ==
  ASSUME target \in Targets, NEW u, CMFUser(u), NEW w, Reads(w, u), NEW a, AccountOf(target, w, a)
  PROVE  /\ a.email # Empty => a.email \in Known(u)
         /\ a.phone # Empty => a.phone \in Known(u)
         /\ target \in {"auth0", "kratos"} /\ a.username # Empty => a.username \in Known(u)
         /\ target \in {"keycloak", "cognito"} /\ a.login # Empty => a.login \in Known(u)
         /\ (GoesBy(a) \ {Empty}) \subseteq Known(u)
<1>1. a.email # Empty => a.email \in Known(u)
  BY ContactsRead, Zenon DEF AccountOf, Known
<1>2. a.phone # Empty => a.phone \in Known(u)
  BY ContactsRead, Zenon DEF AccountOf, Known
<1>3. target \in {"auth0", "kratos"} /\ a.username # Empty => a.username \in Known(u)
  <2>1. w.username = u.username
    BY DEF Reads, Alike
  <2> QED BY <2>1, Zenon DEF AccountOf, Known
<1>4. target \in {"keycloak", "cognito"} /\ a.login # Empty => a.login \in Known(u)
  BY LoginKnown, Zenon DEF AccountOf
<1>5. (GoesBy(a) \ {Empty}) \subseteq Known(u)
  <2>1. CASE target = "kratos"
    <3>1. GoesBy(a) = {a.email, a.username, a.phone}
      BY <2>1, Zenon DEF GoesBy
    <3> QED BY <3>1, <2>1, <1>1, <1>2, <1>3
  <2>2. CASE target = "keycloak"
    <3>1. GoesBy(a) = {a.login, a.email}
      BY <2>2, Zenon DEF GoesBy
    <3> QED BY <3>1, <2>2, <1>1, <1>4
  <2>3. CASE target = "cognito"
    <3>1. GoesBy(a) = {a.login}
      BY <2>3, Zenon DEF GoesBy
    <3> QED BY <3>1, <2>3, <1>4
  <2>4. CASE target \notin {"kratos", "keycloak", "cognito"}
    BY <2>4, Zenon DEF GoesBy
  <2> QED BY <2>1, <2>2, <2>3, <2>4
<1> QED BY <1>1, <1>2, <1>3, <1>4, <1>5
-----------------------------------------------------------------------------
(* The file's other users, and what validate compares them by. *)

\* What a user keeps when it is assigned an ID, or replaced by a handler.
Keeps(w, u) ==
  w.password = u.password /\ w.factors = u.factors /\ w.app = u.app /\ w.user = u.user

LEMMA AssignKeeps ==
  ASSUME NEW u, CMFUser(u)
  PROVE  CMFUser(Assign(u)) /\ Keeps(Assign(u), u)
<1>1. PICK id : Assign(u) \in {u, [u EXCEPT !.targetID = id]}
  BY Zenon DEF Assign
<1> DEFINE w == Assign(u)
<1> HIDE DEF w
<1>2. /\ w \in {u, [u EXCEPT !.targetID = id]} /\ DOMAIN u = DOMAIN Nobody
      /\ "targetID" \in DOMAIN u
  BY <1>1, UserFields DEF w, CMFUser
<1>3. /\ DOMAIN w = DOMAIN u /\ w.emails = u.emails /\ w.phones = u.phones /\ w.blocked = u.blocked
      /\ Keeps(w, u)
  BY <1>2, UserFields DEF Keeps
<1>4. FactorsOf(w) = FactorsOf(u)
  BY <1>3, Zenon DEF FactorsOf, Keeps
<1>5. CMFUser(w)
  BY <1>3, <1>4, Zenon DEF CMFUser, Keeps
<1> QED BY <1>3, <1>5 DEF w

LEMMA OthersAreUsers ==
  ASSUME options \in AllOptions
  PROVE  \A v \in Others : CMFUser(v)
<1>1. ASSUME NEW u, CMFUser(u) PROVE CMFUser(Assign(u))
  BY <1>1, AssignKeeps
<1>2. \A u \in options.others : CMFUser(u)
  BY OptionsAssumption, Zenon
<1> QED BY <1>1, <1>2, Zenon DEF Others

LEMMA Compared ==
  ASSUME ProblemsOf(user, Others) = {}, NEW v \in Others
  PROVE  /\ Emails(user) \cap Emails(v) = {} /\ Phones(user) \cap Phones(v) = {}
         /\ user.username # Empty => user.username # v.username
         /\ user.targetID # Empty => v.targetID # user.targetID
<1>1. \A c, f : Problem(c, f) = {} => ~c
  BY DEF Problem
<1>2. DupTracker(user, Others) = {} /\ IDProblems(user, Others) = {}
  BY DEF ProblemsOf
<1>3. /\ ~(\E x \in Others : Emails(user) \cap Emails(x) # {})
      /\ ~(user.username # Empty /\ \E x \in Others : user.username = x.username)
      /\ ~(\E x \in Others : Phones(user) \cap Phones(x) # {})
  <2> DEFINE e == Problem(Twice(user.emails) \/ \E x \in Others : Emails(user) \cap Emails(x) # {}, "emails")
             n == Problem(user.username # Empty /\ \E x \in Others : user.username = x.username, "username")
             p == Problem(Twice(user.phones) \/ \E x \in Others : Phones(user) \cap Phones(x) # {}, "phones")
  <2>1. DupTracker(user, Others) = e \cup n \cup p
    BY DEF DupTracker
  <2>2. e = {} /\ n = {} /\ p = {}
    <3> HIDE DEF e, n, p
    <3> QED BY <2>1, <1>2
  <2> QED BY <2>2, <1>1, Zenon
<1>4. user.targetID # Empty => ~(\E x \in Others : x.targetID = user.targetID)
  BY <1>2, <1>1, Zenon DEF IDProblems
<1> QED BY <1>3, <1>4

LEMMA NothingInCommon ==
  ASSUME ProblemsOf(user, Others) = {}, NEW v \in Others, ~Uncompared(user, v)
  PROVE  /\ Known(user) \cap Known(v) = {}
         /\ TargetID(user) # TargetID(v) /\ Unprefixed[TargetID(user)] # Unprefixed[TargetID(v)]
<1> DEFINE Kinds == {"email", "username", "phone"}
<1>1. \A k, l \in Kinds : k # l => Values(user, k) \cap Values(v, l) = {}
  BY Zenon DEF Uncompared
<1>2. \A u : /\ Values(u, "email") = Emails(u) /\ Values(u, "phone") = Phones(u)
             /\ Values(u, "username") = {u.username} \ {Empty}
  BY Zenon DEF Values
<1>3. \A k \in Kinds : Values(user, k) \cap Values(v, k) = {}
  BY <1>2, Compared
<1>4. \A u : Known(u) = Values(u, "email") \cup Values(u, "phone") \cup Values(u, "username")
  BY <1>2, Zenon DEF Known
<1>5. \A k, l \in Kinds : Values(user, k) \cap Values(v, l) = {}
  BY <1>1, <1>3, Zenon
<1>6. Known(user) \cap Known(v) = {}
  <2>1. \A x, k, l : k \in Kinds /\ l \in Kinds /\ x \in Values(user, k) => x \notin Values(v, l)
    BY <1>5
  <2>2. "email" \in Kinds /\ "phone" \in Kinds /\ "username" \in Kinds
    OBVIOUS
  <2> HIDE DEF Kinds
  <2> QED BY <2>1, <2>2, <1>4
<1>7. Unprefixed[TargetID(user)] # Unprefixed[TargetID(v)]
  BY Compared, Zenon DEF Uncompared
<1> QED BY <1>6, <1>7

LEMMA NoClash ==
  ASSUME target \in Targets, ProblemsOf(user, Others) = {}, CMFUser(user),
         NEW v \in Others, CMFUser(v), ~Uncompared(user, v),
         NEW w, Reads(w, user), NEW a, AccountOf(target, w, a),
         NEW x, Reads(x, v), NEW b, AccountOf(target, x, b)
  PROVE  ~Clash(a, b)
<1>1. Known(user) \cap Known(v) = {}
  BY NothingInCommon
<1>2. /\ a.email # Empty => a.email \in Known(user)
      /\ a.phone # Empty => a.phone \in Known(user)
      /\ target \in {"auth0", "kratos"} /\ a.username # Empty => a.username \in Known(user)
      /\ (GoesBy(a) \ {Empty}) \subseteq Known(user)
  BY AccountKnown
<1>3. /\ b.email # Empty => b.email \in Known(v)
      /\ b.phone # Empty => b.phone \in Known(v)
      /\ target \in {"auth0", "kratos"} /\ b.username # Empty => b.username \in Known(v)
      /\ (GoesBy(b) \ {Empty}) \subseteq Known(v)
  BY AccountKnown
<1>4. (GoesBy(a) \cap GoesBy(b)) \ {Empty} = {}
  BY <1>1, <1>2, <1>3
<1>5. ~Same(a.email, b.email) /\ ~Same(a.phone, b.phone)
  BY <1>1, <1>2, <1>3 DEF Same
<1>6. target = "auth0" => ~Same(a.username, b.username)
  BY <1>1, <1>2, <1>3 DEF Same
<1>7. target \in {"auth0", "firebase"} => ~Same(a.id, b.id)
  <2>1. TargetID(w) = TargetID(user) /\ TargetID(x) = TargetID(v)
    BY DEF Reads, Alike, TargetID
  <2>2. TargetID(user) # TargetID(v) /\ Unprefixed[TargetID(user)] # Unprefixed[TargetID(v)]
    BY NothingInCommon
  <2>3. CASE target = "auth0"
    BY <2>1, <2>2, <2>3, Zenon DEF AccountOf, Same
  <2>4. CASE target = "firebase"
    BY <2>1, <2>2, <2>4, Zenon DEF AccountOf, Same
  <2> QED BY <2>3, <2>4
<1> QED BY <1>4, <1>5, <1>6, <1>7, Zenon DEF Clash

\* The accounts of the others are of what they have.
LEMMA OthersBuilt ==
  ASSUME target \in Targets, options \in AllOptions
  PROVE  \A a \in OtherAccounts :
           \E v \in Others : CMFUser(v) /\ \E x : Reads(x, v) /\ AccountOf(target, x, a)
<1> TAKE a \in OtherAccounts
<1>1. PICK v \in Others : Ok(Translated(Prepared(v), {})) /\ a = Translated(Prepared(v), {}).account
  BY DEF OtherAccounts
<1>2. CMFUser(v)
  BY OthersAreUsers
<1>3. Reads(Prepared(v), v)
  BY <1>2, PreparedReads
<1>4. AccountOf(target, Prepared(v), a)
  <2> DEFINE w == Prepared(v)
             fs == {}
             p == Translated(w, fs)
  <2>1. Ok(p) /\ a = p.account
    BY <1>1
  <2> HIDE DEF w, fs
  <2>2. AccountOf(target, w, p.account)
    BY <2>1, TranslatedSays, Zenon
  <2> QED BY <2>1, <2>2 DEF w
<1> QED BY <1>2, <1>3, <1>4

-----------------------------------------------------------------------------
(* Why a user with no problem may still be refused. *)

LEMMA FirstOfKinds ==
  ASSUME NEW k1, NEW k2, NEW k3, NEW k4, NEW S, S \subseteq {k2, k3, k4}, S # {}
  PROVE  FirstOf(<<k1, k2, k3, k4>>, S) \in S
<1> DEFINE kinds == <<k1, k2, k3, k4>>
           at == {i \in DOMAIN kinds : kinds[i] \in S}
           i0 == CHOOSE i \in at : \A j \in at : i <= j
<1>1. DOMAIN kinds = {1, 2, 3, 4} /\ kinds[2] = k2 /\ kinds[3] = k3 /\ kinds[4] = k4
  OBVIOUS
<1> HIDE DEF kinds
<1>2. at # {} /\ at \in SUBSET Nat
  BY <1>1
<1>3. i0 \in at
  <2> HIDE DEF at
  <2>1. \E i \in at : \A j \in at : i <= j
    BY <1>2, LeastOf
  <2> QED BY <2>1
<1>4. FirstOf(kinds, S) = kinds[i0]
  BY <1>2, Zenon DEF FirstOf
<1>5. kinds[i0] \in S
  <2> HIDE DEF i0
  <2> QED BY <1>3
<1> QED BY <1>4, <1>5 DEF kinds

\* A user without a login has no identifier at all, nor has the user it was read from.
LEMMA LoginEmpty ==
  ASSUME NEW u, CMFUser(u), NEW w, Reads(w, u), Login(w).v = Empty
  PROVE  Login(u).v = Empty /\ w.emails = <<>> /\ w.phones = <<>> /\ w.username = Empty
<1> DEFINE Kinds == {"email", "username", "phone"}
           S(x) == {k \in Kinds : ValueOf(x, k) # Empty}
           kind(x) == FirstOf(<<x.login, "email", "username", "phone">>, S(x))
<1>1. \A x : Login(x).v = ValueOf(x, kind(x))
  BY DEF Login
<1>2. S(w) = {}
  <2>1. S(w) # {} => kind(w) \in S(w)
    BY FirstOfKinds
  <2>2. S(w) # {} => ValueOf(w, kind(w)) # Empty
    <3> HIDE DEF kind
    <3> QED BY <2>1
  <2> HIDE DEF kind, S
  <2> QED BY <2>2, <1>1
<1>3. \A x : /\ ValueOf(x, "email") = First(x.emails).v /\ ValueOf(x, "phone") = First(x.phones).v
             /\ ValueOf(x, "username") = x.username
  BY Zenon DEF ValueOf
<1>4. First(w.emails).v = Empty /\ First(w.phones).v = Empty /\ w.username = Empty
  <2>1. \A k \in Kinds : ValueOf(w, k) = Empty
    BY <1>2
  <2> QED BY <2>1, <1>3
<1>5. u.emails = <<>> /\ u.phones = <<>> /\ w.emails = <<>> /\ w.phones = <<>>
  BY <1>4, ContactsRead
<1>6. u.username = Empty
  BY <1>4 DEF Reads, Alike
<1>7. Login(u).v = Empty
  <2>1. Login(u).v # Empty => Login(u).v \in Known(u)
    BY LoginKnown, SelfReads
  <2>2. Known(u) = {}
    <3>1. Emails(u) = {} /\ Phones(u) = {}
      BY <1>5 DEF Emails, Phones
    <3> QED BY <3>1, <1>6 DEF Known
  <2> QED BY <2>1, <2>2
<1> QED BY <1>4, <1>5, <1>7

LEMMA RefusedIsUntried ==
  ASSUME target \in Targets, CMFUser(user), ProblemsOf(user, Others) = {},
         NEW w, Reads(w, user), NEW why,
         RefusedOf(target, w, why) \/ (target = "firebase" /\ why = "claims")
  PROVE  why \in Untried
<1>1. \A c, f : Problem(c, f) = {} => ~c
  BY DEF Problem
<1>2. ValidateUser(target, user) = {}
  BY DEF ProblemsOf
<1>3. (user.emails = <<>> <=> w.emails = <<>>) /\ (user.phones = <<>> <=> w.phones = <<>>)
  BY ContactsRead
<1>4. CASE target = "auth0"
  <2>1. ValidateForAuth0(user) = {}
    BY <1>2, <1>4, Zenon DEF ValidateUser
  <2>2. Problem(user.emails = <<>> \/ \E v \in Emails(user) : Shape[v] # "address", "emails") = {}
    BY <2>1, Zenon DEF ValidateForAuth0
  <2>3. user.emails # <<>>
    BY <2>2, <1>1, Zenon
  <2>4. why = "password"
    BY <2>3, <1>3, <1>4 DEF RefusedOf
  <2> QED BY <2>4, <1>4, Zenon DEF Untried
<1>5. CASE target = "kratos"
  <2>1. why = "password"
    BY <1>5 DEF RefusedOf
  <2> QED BY <2>1, <1>5, Zenon DEF Untried
<1>6. CASE target = "keycloak"
  <2>1. why \in {"password", "TOTP secret", "username"}
    BY <1>6 DEF RefusedOf
  <2> QED BY <2>1, <1>6, Zenon DEF Untried
<1>7. CASE target = "cognito"
  <2>1. ValidateForCognito(user) = {}
    BY <1>2, <1>7, Zenon DEF ValidateUser
  <2>2. Problem(Login(user).v = Empty, "emails") = {}
    BY <2>1, Zenon DEF ValidateForCognito
  <2>3. Login(user).v # Empty
    BY <2>2, <1>1, Zenon
  <2>4. Login(w).v = Empty
    BY <1>7 DEF RefusedOf
  <2> QED BY <2>3, <2>4, LoginEmpty
<1>8. CASE target = "firebase"
  <2>1. ValidateForFirebase(user) = {}
    BY <1>2, <1>8, Zenon DEF ValidateUser
  <2>2. /\ Problem(user.emails = <<>> /\ user.phones = <<>>, "emails") = {}
        /\ Problem(NotTranslated(user, ToFirebaseHash), "password") = {}
    BY <2>1, Zenon DEF ValidateForFirebase
  <2>3. ~(user.emails = <<>> /\ user.phones = <<>>) /\ ~NotTranslated(user, ToFirebaseHash)
    BY <2>2, <1>1, Zenon
  <2>4. Portable(w) = Portable(user)
    BY DEF Portable, Reads, Alike
  <2>5. ~NotTranslated(w, ToFirebaseHash)
    BY <2>3, <2>4, Zenon DEF NotTranslated
  <2>6. why = "claims"
    BY <2>3, <2>5, <1>3, <1>8 DEF RefusedOf
  <2> QED BY <2>6, <1>8, Zenon DEF Untried
<1> QED BY <1>4, <1>5, <1>6, <1>7, <1>8 DEF Targets

-----------------------------------------------------------------------------
(* What a lookup finds. *)

\* The account of a user built as w is found as u is looked up, and no other is.
LEMMA FoundAlone ==
  ASSUME target \in Targets, CMFUser(user),
         NEW w, NEW u, BuiltAs(w, u), NEW a, AccountOf(target, w, a), ~NoIdentifier(target, user),
         \A b \in OtherAccounts : ~Clash(a, b)
  PROVE  ~NoIdentifier(target, u) /\ Lookup(target, u, {a} \cup OtherAccounts) = {a}
<1> DEFINE others == OtherAccounts
           all == {a} \cup others
<1>0. /\ Reads(w, user) /\ Reads(u, user) /\ Alike(w, u) /\ w.emails = u.emails /\ w.phones = u.phones
      /\ target \notin {"auth0", "firebase"} => w.login = u.login
  BY DEF BuiltAs
<1>1. /\ u.emails = <<>> <=> user.emails = <<>>
      /\ u.phones = <<>> <=> user.phones = <<>>
      /\ u.emails # <<>> => First(w.emails) = u.emails[1] /\ u.emails[1].v # Empty
      /\ u.phones # <<>> => First(w.phones) = First(u.phones) /\ First(u.phones).v # Empty
  BY <1>0, ContactsRead, Zenon
<1>2. u.username = user.username /\ w.username = u.username
  BY <1>0 DEF Reads, Alike
<1>3. ~NoIdentifier(target, u)
  BY <1>1, <1>2 DEF NoIdentifier
<1>4. ~(u.emails = <<>> /\ u.phones = <<>> /\ u.username = Empty)
  BY <1>3 DEF NoIdentifier
<1>5. /\ u.emails # <<>> => a.email = u.emails[1].v /\ a.email # Empty
      /\ u.phones # <<>> => a.phone = First(u.phones).v /\ a.phone # Empty
  BY <1>1, Zenon DEF AccountOf
<1>6. CASE target = "auth0"
  <2> DEFINE same == {b \in all : b.email = u.emails[1].v}
             own == {b \in same : b.id = Unprefixed[TargetID(u)]}
  <2>1. u.emails # <<>>
    BY <1>0, <1>6, Zenon DEF AccountOf
  <2>2. \A b \in others : b.email # a.email
    BY <1>5, <1>6, <2>1, Zenon DEF Clash, Same
  <2>3. same = {a}
    BY <2>1, <2>2, <1>5
  <2>4. LookupAuth0(u, all) = IF own # {} THEN own ELSE same
    BY <2>1, Zenon DEF LookupAuth0
  <2>5. LookupAuth0(u, all) = {a}
    <3>1. own = {} \/ own = {a}
      BY <2>3
    <3> HIDE DEF own, same
    <3> QED BY <2>3, <2>4, <3>1
  <2> QED BY <2>5, <1>3, <1>6, Zenon DEF Lookup
<1>7. CASE target = "kratos"
  <2> DEFINE id == LoginIdentifier(u)
  <2>1. \/ id = a.email /\ id # Empty
        \/ id = a.username /\ id # Empty
        \/ id = a.phone /\ id # Empty
    <3>1. CASE u.emails # <<>>
      <4>1. id = u.emails[1].v
        BY <3>1, Zenon DEF LoginIdentifier
      <4> QED BY <4>1, <3>1, <1>5, Zenon
    <3>2. CASE u.emails = <<>> /\ u.username # Empty
      <4>1. id = u.username
        BY <3>2, Zenon DEF LoginIdentifier
      <4>2. a.username = u.username
        BY <1>2, <1>7, Zenon DEF AccountOf
      <4> QED BY <4>1, <4>2, <3>2, Zenon
    <3>3. CASE u.emails = <<>> /\ u.username = Empty
      <4>1. id = First(u.phones).v
        BY <3>3, Zenon DEF LoginIdentifier
      <4> QED BY <4>1, <3>3, <1>4, <1>5, Zenon
    <3> QED BY <3>1, <3>2, <3>3
  <2> HIDE DEF id
  <2>2. id \in {a.email, a.username, a.phone} /\ id # Empty
    BY <2>1
  <2>3. \A b \in others : id \notin {b.email, b.username, b.phone}
    <3> TAKE b \in others
    <3>1. (GoesBy(a) \cap GoesBy(b)) \ {Empty} = {}
      BY DEF Clash
    <3>2. GoesBy(a) = {a.email, a.username, a.phone} /\ GoesBy(b) = {b.email, b.username, b.phone}
      BY <1>7, Zenon DEF GoesBy
    <3> QED BY <3>1, <3>2, <2>2
  <2>4. LookupKratos(u, all) = {b \in all : id \in {b.email, b.username, b.phone}}
    BY DEF LookupKratos, id
  <2>5. LookupKratos(u, all) = {a}
    BY <2>2, <2>3, <2>4
  <2> QED BY <2>5, <1>3, <1>7, Zenon DEF Lookup
<1>8. CASE target = "keycloak"
  <2>1. LoginUsername(u) = LoginUsername(w)
    BY <1>0, <1>2, <1>8, Zenon DEF LoginUsername
  <2>2. a.login = LoginUsername(u) /\ a.login # Empty
    BY <2>1, <1>8, Zenon DEF AccountOf
  <2>3. \A b \in others :
          (a.login # b.login) /\ (a.email # Empty => a.email # b.email)
    <3> TAKE b \in others
    <3>1. (GoesBy(a) \cap GoesBy(b)) \ {Empty} = {}
      BY DEF Clash
    <3>2. GoesBy(a) = {a.login, a.email} /\ GoesBy(b) = {b.login, b.email}
      BY <1>8, Zenon DEF GoesBy
    <3> QED BY <3>1, <3>2, <2>2
  <2>4. LookupKeycloak(u, all) = {a}
    <3>1. CASE u.emails # <<>>
      <4>1. LookupKeycloak(u, all) = {b \in all : b.email = u.emails[1].v}
        BY <3>1, Zenon DEF LookupKeycloak
      <4> QED BY <4>1, <3>1, <1>5, <2>3
    <3>2. CASE u.emails = <<>>
      <4>1. LookupKeycloak(u, all) = {b \in all : b.login = LoginUsername(u)}
        BY <3>2, Zenon DEF LookupKeycloak
      <4> QED BY <4>1, <2>2, <2>3
    <3> QED BY <3>1, <3>2
  <2> QED BY <2>4, <1>3, <1>8, Zenon DEF Lookup
<1>9. CASE target = "cognito"
  <2>1. \A kind : ValueOf(u, kind) = ValueOf(w, kind)
    BY <1>0, <1>2, Zenon DEF ValueOf
  <2>2. Login(u) = Login(w)
    BY <1>0, <2>1, <1>9 DEF Login
  <2>3. a.login = Login(u).v /\ a.login # Empty
    BY <2>2, <1>9, Zenon DEF AccountOf
  <2>4. \A b \in others : a.login # b.login
    <3> TAKE b \in others
    <3>1. (GoesBy(a) \cap GoesBy(b)) \ {Empty} = {}
      BY DEF Clash
    <3>2. GoesBy(a) = {a.login} /\ GoesBy(b) = {b.login}
      BY <1>9, Zenon DEF GoesBy
    <3> QED BY <3>1, <3>2, <2>3
  <2>5. LookupCognito(u, all) = {a}
    BY <2>3, <2>4 DEF LookupCognito
  <2> QED BY <2>5, <1>3, <1>9, Zenon DEF Lookup
<1>10. CASE target = "firebase"
  <2>1. u.emails # <<>> \/ u.phones # <<>>
    BY <1>3, <1>10 DEF NoIdentifier
  <2>2. \A b \in others : (a.email # Empty => a.email # b.email) /\ (a.phone # Empty => a.phone # b.phone)
    BY <1>10, Zenon DEF Clash, Same
  <2>3. LookupFirebase(u, all) = {a}
    <3>1. CASE u.emails # <<>>
      <4>1. LookupFirebase(u, all) = {b \in all : b.email = u.emails[1].v}
        BY <3>1, Zenon DEF LookupFirebase
      <4> QED BY <4>1, <3>1, <1>5, <2>2
    <3>2. CASE u.emails = <<>>
      <4>1. LookupFirebase(u, all) = {b \in all : b.phone = First(u.phones).v}
        BY <3>2, Zenon DEF LookupFirebase
      <4> QED BY <4>1, <3>2, <2>1, <1>5, <2>2
    <3> QED BY <3>1, <3>2
  <2> QED BY <2>3, <1>3, <1>10, Zenon DEF Lookup
<1> QED BY <1>6, <1>7, <1>8, <1>9, <1>10 DEF Targets

\* Nothing of the account differs from the user.
LEMMA NoDrift ==
  ASSUME target \in Targets, CMFUser(user),
         NEW w, NEW u, BuiltAs(w, u),
         NEW a, AccountOf(target, w, a), Named(target, w, a)
  PROVE  Drift(target, u, a) = {}
<1>0. Reads(w, user) /\ Alike(w, u) /\ w.emails = u.emails
  BY DEF BuiltAs
<1>1. a.enabled # u.blocked
  <2>1. a.enabled = ~u.blocked
    BY <1>0 DEF AccountOf, Alike
  <2>2. u.blocked \in BOOLEAN
    BY <1>0 DEF CMFUser, Reads, Alike
  <2> QED BY <2>1, <2>2
<1>2. u.emails # <<>> => a.verified = u.emails[1].verified
  BY <1>0, Zenon DEF AccountOf, First
<1>3. target = "auth0" => UserDrift(u, a) = {}
  <2> HAVE target = "auth0"
  <2>1. a.username = u.username /\ a.name = u.name
    BY <1>0, Zenon DEF AccountOf, Named, Alike
  <2> QED BY <2>1 DEF UserDrift, Problem
<1> QED BY <1>1, <1>2, <1>3 DEF Drift, Problem

-----------------------------------------------------------------------------
(* The invariant: what the import read is what the account was built from. *)

InFile == phase \in {"rewrite", "validate", "import", "verify", "done"}
Looked ==
  LET u == AsImported(user) IN
  /\ found = IF NoIdentifier(target, u) THEN {} ELSE Lookup(target, u, {payload.account} \cup OtherAccounts)
  /\ drift = UNION {Drift(target, u, a) : a \in found}
CarriedInv ==
  /\ case \in Cases /\ target \in Targets /\ options \in AllOptions
  /\ phase \in {"export", "out"} \/ InFile
  /\ InFile => CMFUser(user)
  /\ phase \in {"import", "verify", "done"} => problems = ProblemsOf(user, Others)
  /\ phase \in {"verify", "done"} =>
       payload \in {Refused("metadata.place"), Translated(Left(Prepared(user)), fields)}
  /\ phase = "verify" => Ok(payload)
  /\ phase = "done" /\ Ok(payload) => Looked

LEMMA RewrittenIsUser ==
  ASSUME NEW u, CMFUser(u)
  PROVE  LET w == Assign(AnswerApplied(u)) IN CMFUser(w) /\ Keeps(w, u)
<1>1. ASSUME NEW c \in ContactList PROVE Reversed(c) \in ContactList
  <2>1. c \in Seq(Listed) /\ Len(c) \in Nat /\ DOMAIN c = 1..Len(c)
    BY DEF ContactList
  <2>2. \A i \in 1..Len(c) : Len(c) + 1 - i \in 1..Len(c)
    BY <2>1
  <2>3. Reversed(c) \in [1..Len(c) -> Listed]
    BY <2>1, <2>2 DEF Reversed
  <2> QED BY <2>1, <2>3 DEF ContactList
<1> DEFINE a == AnswerApplied(u)
<1>2. CMFUser(a) /\ Keeps(a, u)
  <2>1. CASE options.edit = "replace"
    <3> DEFINE r == Replacement(u)
    <3>1. /\ DOMAIN r = DOMAIN Nobody /\ r.emails = Reversed(u.emails) /\ r.phones = Reversed(u.phones)
          /\ r.blocked = u.blocked /\ r.app = u.app /\ r.user = u.user
      BY DEF Replacement, Nobody, NewUser
    <3>2. a = [r EXCEPT !.password = u.password, !.factors = u.factors]
      BY <2>1, Zenon DEF AnswerApplied
    <3>3. {"password", "factors"} \subseteq DOMAIN r
      BY <3>1, UserFields DEF CMFUser
    <3> HIDE DEF r, a
    <3>4. /\ DOMAIN a = DOMAIN Nobody /\ a.emails = Reversed(u.emails) /\ a.phones = Reversed(u.phones)
          /\ a.blocked = u.blocked /\ Keeps(a, u)
      BY <3>1, <3>2, <3>3 DEF Keeps
    <3>5. Reversed(u.emails) \in ContactList /\ Reversed(u.phones) \in ContactList /\ u.blocked \in BOOLEAN
      BY <1>1 DEF CMFUser
    <3>6. FactorsOf(a) = FactorsOf(u)
      BY <3>4, Zenon DEF FactorsOf, Keeps
    <3> QED BY <3>4, <3>5, <3>6, Zenon DEF CMFUser, Keeps
  <2>2. CASE options.edit # "replace"
    BY <2>2 DEF AnswerApplied, Keeps
  <2> QED BY <2>1, <2>2
<1> HIDE DEF a
<1>3. CMFUser(Assign(a)) /\ Keeps(Assign(a), a)
  BY <1>2, AssignKeeps
<1> QED BY <1>2, <1>3 DEF Keeps, a

LEMMA CarriedInit == Init => CarriedInv
BY DEF Init, CarriedInv, InFile

LEMMA CarriedNext == CarriedInv /\ [Next]_vars => CarriedInv'
<1> SUFFICES ASSUME CarriedInv, [Next]_vars
             PROVE  CarriedInv'
  OBVIOUS
<1>0. ASSUME UNCHANGED <<target, options, user>>
      PROVE  /\ ProblemsOf(user, Others)' = ProblemsOf(user, Others)
             /\ Left(Prepared(user))' = Left(Prepared(user))
             /\ AsImported(user)' = AsImported(user)
             /\ OtherAccounts' = OtherAccounts
  <2>1. Others' = Others
    BY <1>0 DEF Others, Assign, AssignedTo
  <2>2. ProblemsOf(user, Others)' = ProblemsOf(user, Others)
    BY <1>0, <2>1 DEF ProblemsOf, IDProblems
  <2>3. Left(Prepared(user))' = Left(Prepared(user))
    BY <1>0 DEF Left, Taken, Prepared
  <2>4. AsImported(user)' = AsImported(user)
    BY <1>0 DEF AsImported
  <2>5. OtherAccounts' = OtherAccounts
    BY <1>0, <2>1 DEF OtherAccounts, Translated, Prepared
  <2> QED BY <2>2, <2>3, <2>4, <2>5
<1> USE DEF InFile
<1>1. CASE Export
  <2>1. PICK u \in Exported(CaseOf[case]) : IF Ok(u) THEN Write(u) ELSE Skip(u.error)
    BY <1>1 DEF Export
  <2>2. UNCHANGED <<case, target, options>>
    BY <1>1 DEF Export
  <2>3. CASE Ok(u)
    <3>1. CMFUser(u)
      BY <2>3, CasesAssumption DEF CarriedInv
    <3> QED BY <2>1, <2>2, <2>3, <3>1 DEF Write, CarriedInv
  <2>4. CASE ~Ok(u)
    BY <2>1, <2>2, <2>4 DEF Skip, CarriedInv
  <2> QED BY <2>3, <2>4
<1>2. CASE Rewrite
  <2>1. CMFUser(Assign(AnswerApplied(user)))
    BY <1>2, RewrittenIsUser DEF Rewrite, CarriedInv
  <2> QED BY <2>1, <1>2 DEF Rewrite, Skip, CarriedInv
<1>3. CASE Validate
  <2>1. UNCHANGED <<case, target, options, user>> /\ phase' = "import" /\ problems' = ProblemsOf(user, Others)
        /\ CMFUser(user)
    BY <1>3 DEF Validate, CarriedInv
  <2>2. ProblemsOf(user, Others)' = ProblemsOf(user, Others)
    BY <1>0, <2>1
  <2> QED BY <2>1, <2>2 DEF CarriedInv
<1>4. CASE Import
  <2> DEFINE w == Left(Prepared(user))
             built == Translated(w, fields)
  <2>1. UNCHANGED <<case, target, options, user, problems>> /\ phase = "import"
        /\ phase' = IF Ok(payload') THEN "verify" ELSE "done"
    BY <1>4 DEF Import
  <2>2. built' = Translated(w, fields')
    BY <1>0, <2>1 DEF Translated
  <2>3. payload' \in {Refused("metadata.place"), built'}
    BY <1>4, <2>2 DEF Import
  <2>4. ProblemsOf(user, Others)' = ProblemsOf(user, Others)
    BY <1>0, <2>1
  <2>5. CMFUser(user)' /\ problems' = ProblemsOf(user, Others)'
    BY <2>1, <2>4 DEF CarriedInv, CMFUser
  <2> HIDE DEF built
  <2>6. CASE Ok(payload')
    BY <2>1, <2>3, <2>5, <2>6 DEF CarriedInv, built
  <2>7. CASE ~Ok(payload')
    <3>1. ~Ok(payload)'
      BY <2>7 DEF Ok
    <3> QED BY <2>1, <2>3, <2>5, <2>7, <3>1 DEF CarriedInv, built
  <2> QED BY <2>6, <2>7
<1>5. CASE Verify
  <2>1. UNCHANGED <<case, target, options, user, problems, fields, payload>>
        /\ phase = "verify" /\ phase' = "done"
    BY <1>5 DEF Verify
  <2>2. Looked'
    <3> DEFINE u == AsImported(user)
               accounts == {payload.account} \cup OtherAccounts
    <3>1. u' = u /\ accounts' = accounts
      BY <1>0, <2>1
    <3>2. /\ found' = IF NoIdentifier(target, u) THEN {} ELSE Lookup(target, u, accounts)
          /\ drift' = UNION {Drift(target, u, a) : a \in found'}
      BY <1>5, Zenon DEF Verify
    <3> HIDE DEF u, accounts
    <3>3. /\ found' = IF NoIdentifier(target', u') THEN {} ELSE Lookup(target', u', accounts')
          /\ drift' = UNION {Drift(target', u', a) : a \in found'}
      BY <3>1, <3>2, <2>1
    <3> QED BY <3>3 DEF Looked, u, accounts
  <2>3. ProblemsOf(user, Others)' = ProblemsOf(user, Others)
        /\ Translated(Left(Prepared(user)), fields)' = Translated(Left(Prepared(user)), fields)
    BY <1>0, <2>1 DEF Translated
  <2> QED BY <2>1, <2>2, <2>3 DEF CarriedInv
<1>6. CASE UNCHANGED vars
  <2>1. UNCHANGED <<case, target, options, phase, user, problems, fields, payload, found, drift>>
    BY <1>6 DEF vars
  <2>2. ProblemsOf(user, Others)' = ProblemsOf(user, Others)
        /\ Translated(Left(Prepared(user)), fields)' = Translated(Left(Prepared(user)), fields)
    BY <1>0, <2>1 DEF Translated
  <2>3. Looked' = Looked
    BY <1>0, <2>1 DEF Looked
  <2> QED BY <2>1, <2>2, <2>3 DEF CarriedInv
<1> QED BY <1>1, <1>2, <1>3, <1>4, <1>5, <1>6 DEF Next

\* From a record to its account: the user of the file is a CMF user, its problems are those
\* of the file, the payload is built from it as prepared and placed (or the placement was
\* refused), and what Verify says is of the user with identity.primary replayed.
THEOREM UsersAreCarried == Spec => []CarriedInv
<1>1. Init => CarriedInv
  BY CarriedInit
<1>2. CarriedInv /\ [Next]_vars => CarriedInv'
  BY CarriedNext
<1> QED BY <1>1, <1>2, PTL DEF Spec

-----------------------------------------------------------------------------
\* A user without a problem is refused only for what validate does not try, and clashes with
\* another user's account only by what it does not compare, whatever the record, the target
\* and the mapping (cmd/validate.go before the target's Import).
THEOREM ValidationHolds == Spec => []ValidatedIsTaken
<1>1. CarriedInv => ValidatedIsTaken
  <2> SUFFICES ASSUME CarriedInv, phase \in {"verify", "done"}, problems = {}
               PROVE  IF Ok(payload)
                      THEN (\A v \in Others : ~Uncompared(user, v)) =>
                             \A a \in OtherAccounts : ~Clash(payload.account, a)
                      ELSE payload.error \in Untried \cup {"metadata.place"}
    BY DEF ValidatedIsTaken
  <2> DEFINE w == Left(Prepared(user))
  <2>1. /\ target \in Targets /\ options \in AllOptions /\ CMFUser(user) /\ ProblemsOf(user, Others) = {}
        /\ payload \in {Refused("metadata.place"), Translated(w, fields)}
    BY DEF CarriedInv, InFile
  <2>2. Reads(w, user)
    BY <2>1, ImportedAsVerified DEF BuiltAs
  <2> HIDE DEF w
  <2>3. CASE payload = Refused("metadata.place")
    BY <2>3, Outcomes
  <2>4. CASE payload = Translated(w, fields) /\ Ok(payload)
    <3>1. AccountOf(target, w, payload.account)
      BY <2>1, <2>4, TranslatedSays
    <3>2. ASSUME \A v \in Others : ~Uncompared(user, v), NEW a \in OtherAccounts
          PROVE  ~Clash(payload.account, a)
      <4>1. PICK v \in Others : CMFUser(v) /\ \E x : Reads(x, v) /\ AccountOf(target, x, a)
        BY <2>1, OthersBuilt
      <4>2. PICK x : Reads(x, v) /\ AccountOf(target, x, a)
        BY <4>1
      <4> QED BY <2>1, <2>2, <3>1, <3>2, <4>1, <4>2, NoClash
    <3> QED BY <3>2, <2>4
  <2>5. CASE payload = Translated(w, fields) /\ ~Ok(payload)
    <3>1. RefusedOf(target, w, payload.error) \/ (target = "firebase" /\ payload.error = "claims")
      BY <2>1, <2>5, TranslatedSays
    <3> QED BY <2>1, <2>2, <2>5, <3>1, RefusedIsUntried
  <2> QED BY <2>1, <2>3, <2>4, <2>5
<1> QED BY <1>1, UsersAreCarried, PTL

\* Verify finds the account the import made, and that alone, as the import left it, whatever
\* the record, the target and the mapping (cmd/import.go, the connectors' Verify).
THEOREM VerificationFinds == Spec => []VerifyFindsIt
<1>1. CarriedInv => VerifyFindsIt
  <2> SUFFICES ASSUME CarriedInv, phase = "done", Ok(payload), ~NoIdentifier(target, user),
                      \A a \in OtherAccounts : ~Clash(payload.account, a), \A f \in fields : f.root # "profile"
               PROVE  found = {payload.account} /\ drift = {}
    BY DEF VerifyFindsIt, IsBuilt
  <2> DEFINE w == Left(Prepared(user))
             u == AsImported(user)
  <2>1. /\ target \in Targets /\ CMFUser(user) /\ payload \in {Refused("metadata.place"), Translated(w, fields)}
        /\ found = IF NoIdentifier(target, u) THEN {} ELSE Lookup(target, u, {payload.account} \cup OtherAccounts)
        /\ drift = UNION {Drift(target, u, a) : a \in found}
    BY DEF CarriedInv, InFile, Looked
  <2>2. BuiltAs(w, u)
    BY <2>1, ImportedAsVerified
  <2> HIDE DEF w, u
  <2>3. payload = Translated(w, fields)
    BY <2>1, Outcomes
  <2>4. AccountOf(target, w, payload.account) /\ Named(target, w, payload.account)
    BY <2>1, <2>3, TranslatedSays
  <2>5. ~NoIdentifier(target, u) /\ Lookup(target, u, {payload.account} \cup OtherAccounts) = {payload.account}
    BY <2>1, <2>2, <2>4, FoundAlone
  <2>6. Drift(target, u, payload.account) = {}
    BY <2>1, <2>2, <2>4, NoDrift
  <2> QED BY <2>1, <2>5, <2>6
<1> QED BY <1>1, UsersAreCarried, PTL

-----------------------------------------------------------------------------
(* What a translated password verifies with. *)

\* Bytes that decode as binary are the bytes the value stands for.
LEMMA Decoded ==
  ASSUME NEW v, v.enc \in {"hex", "base64"} \/ DecodeBinary(v) # Undecodable
  PROVE  DecodeBytes(v) = DecodeBinary(v)
<1>1. CASE v.enc # "utf8"
  BY <1>1, Zenon DEF DecodeBytes
<1>2. CASE v.enc = "utf8"
  <2>1. DecodeBinary(v) = Undecodable
    BY <1>2, Zenon DEF DecodeBinary
  <2> QED BY <2>1, <1>2
<1> QED BY <1>1, <1>2

LEMMA SaltDecoded ==
  ASSUME NEW p, p.salt # NoValue, DecodeBinary(p.salt) # Undecodable
  PROVE  SaltPayload(p) = DecodeBinary(p.salt)
BY Decoded, Zenon DEF SaltPayload

LEMMA NotRaw ==
  \A alg \in {"bcrypt", "argon2", "ldap", "scrypt", "pbkdf2", "hmac"} : alg \notin RawDigests
BY DEF RawDigests

LEMMA BcryptVerifies ==
  ASSUME NEW p, p.alg = "bcrypt", Ok(TranslateBcrypt(p))
  PROVE  TranslateBcrypt(p) = Verifies(p)
<1>1. p.hash.text.as = "bcrypt"
  BY Outcomes, Zenon DEF TranslateBcrypt
<1>2. p.alg \notin RawDigests
  BY NotRaw, Zenon
<1> QED BY <1>1, <1>2, Zenon DEF TranslateBcrypt, Verifies

LEMMA ArgonVerifies ==
  ASSUME NEW p, p.alg = "argon2"
  PROVE  Verifies(p) = ArgonCheck(p.phc)
<1>1. p.alg \notin RawDigests
  BY NotRaw, Zenon
<1> QED BY <1>1, Zenon DEF Verifies

\* Auth0 derives what the password was derived with, but for what it is not told.
LEMMA ScryptToAuth0 ==
  ASSUME NEW p, p.alg = "scrypt", Derivable(Verifies(p)), Ok(TranslateScrypt(p))
  PROVE  TranslateScrypt(p) = Verifies(p)
<1> DEFINE size == IF Param(p, "blockSize") = 0 THEN 8 ELSE Param(p, "blockSize")
           lanes == IF Param(p, "parallelization") = 0 THEN 1 ELSE Param(p, "parallelization")
           params == [cost |-> Param(p, "cost"), keylen |-> Param(p, "keylen"), blockSize |-> size,
                      parallelization |-> lanes]
           stated == [cost |-> Param(p, "cost"), keylen |-> Keylen(p),
                      blockSize |-> Param(p, "blockSize"), parallelization |-> Param(p, "parallelization")]
<1>1. /\ Name(p, "variant") # "firebase" /\ p.hash.enc \in {"hex", "base64"}
      /\ Param(p, "keylen") # 0 /\ PowerOfTwo(Param(p, "cost"))
  <2>1. CASE Name(p, "variant") = "firebase"
    BY <2>1, Outcomes, Zenon DEF TranslateScrypt
  <2>2. CASE Name(p, "variant") # "firebase" /\ p.hash.enc \notin {"hex", "base64"}
    BY <2>2, Outcomes, Zenon DEF TranslateScrypt
  <2>3. CASE Name(p, "variant") # "firebase" /\ p.hash.enc \in {"hex", "base64"} /\ Param(p, "keylen") = 0
    BY <2>3, Outcomes, Zenon DEF TranslateScrypt
  <2>4. CASE Name(p, "variant") # "firebase" /\ p.hash.enc \in {"hex", "base64"} /\ Param(p, "keylen") # 0
             /\ ~PowerOfTwo(Param(p, "cost"))
    BY <2>4, Outcomes, Zenon DEF TranslateScrypt
  <2> QED BY <2>1, <2>2, <2>3, <2>4
<1>2. TranslateScrypt(p) = Check("scrypt", DecodeBinary(p.hash), SaltPayload(p), Empty, params)
  BY <1>1, Zenon DEF TranslateScrypt
<1>3. Verifies(p) = Check("scrypt", DecodeBytes(p.hash), SaltPayload(p), Empty, stated)
  <2>1. p.alg \notin RawDigests
    BY NotRaw, Zenon
  <2> QED BY <1>1, <2>1, Zenon DEF Verifies
<1>4. Param(p, "blockSize") # 0 /\ Param(p, "parallelization") # 0
  BY <1>3 DEF Derivable, Check
<1>5. params = stated
  BY <1>1, <1>4, Zenon DEF Keylen
<1>6. DecodeBytes(p.hash) = DecodeBinary(p.hash)
  BY <1>1, Decoded
<1> QED BY <1>2, <1>3, <1>5, <1>6, Zenon

LEMMA PBKDF2ToAuth0 ==
  ASSUME target = "auth0", NEW p, p.alg = "pbkdf2", Derivable(Verifies(p)), Ok(TranslatePBKDF2(p))
  PROVE  TranslatePBKDF2(p) = Verifies(p) \/ Guessed(Verifies(p), TranslatePBKDF2(p))
<1> DEFINE count == IF Param(p, "iterations") = 0 THEN DefaultIterations ELSE Param(p, "iterations")
           len == IF Param(p, "keylen") = 0 THEN DefaultKeylen ELSE Param(p, "keylen")
           key == DecodeBytes(p.hash)
           salt == DecodeBytes(p.salt)
           d == [digest |-> Name(p, "digest"), iterations |-> count, keylen |-> len]
           s == [digest |-> KeycloakPBKDF2Digest(p), iterations |-> Param(p, "iterations"), keylen |-> Keylen(p)]
<1>1. p.salt # NoValue /\ Name(p, "digest") \in Auth0Digests
      /\ TranslatePBKDF2(p) = Check("pbkdf2", key, salt, Empty, d)
  <2>1. CASE p.salt = NoValue
    BY <2>1, Outcomes, Zenon DEF TranslatePBKDF2
  <2>2. CASE p.salt # NoValue /\ Name(p, "digest") \notin Auth0Digests
    BY <2>2, Outcomes, Zenon DEF TranslatePBKDF2
  <2>3. CASE p.salt # NoValue /\ Name(p, "digest") \in Auth0Digests /\ salt = Undecodable
    BY <2>3, Outcomes, Zenon DEF TranslatePBKDF2
  <2>4. CASE p.salt # NoValue /\ Name(p, "digest") \in Auth0Digests /\ salt # Undecodable /\ key = Undecodable
    BY <2>4, Outcomes, Zenon DEF TranslatePBKDF2
  <2>5. CASE p.salt # NoValue /\ Name(p, "digest") \in Auth0Digests /\ salt # Undecodable /\ key # Undecodable
    BY <2>5, Zenon DEF TranslatePBKDF2
  <2> QED BY <2>1, <2>2, <2>3, <2>4, <2>5
<1>2. Verifies(p) = Check("pbkdf2", key, salt, Empty, s)
  <2>1. SaltPayload(p) = salt
    BY <1>1, Zenon DEF SaltPayload
  <2>2. Verifies(p) = Check("pbkdf2", key, SaltPayload(p), Empty, s)
    <3>1. p.alg \notin RawDigests
      BY NotRaw, Zenon
    <3> QED BY <3>1, Zenon DEF Verifies
  <2> QED BY <2>1, <2>2, Zenon
<1>3. Name(p, "digest") # Empty
  BY <1>1, Zenon DEF Auth0Digests, Empty
<1>4. KeycloakPBKDF2Digest(p) = Name(p, "digest")
  BY <1>3, Zenon DEF KeycloakPBKDF2Digest
<1>5. Param(p, "iterations") # 0
  BY <1>2 DEF Derivable, Check
<1>6. count = Param(p, "iterations")
  BY <1>5
<1>7. d = [s EXCEPT !.keylen = len]
  <2> HIDE DEF len, count
  <2> QED BY <1>4, <1>6
<1>8. CASE Param(p, "keylen") # 0
  <2>1. Keylen(p) = len
    BY <1>8, Zenon DEF Keylen
  <2>2. d = s
    BY <1>4, <1>6, <2>1, Zenon
  <2> QED BY <1>1, <1>2, <2>2, Zenon
<1>9. CASE Param(p, "keylen") = 0
  <2>1. len = DefaultKeylen
    BY <1>9
  <2> DEFINE c == Check("pbkdf2", key, salt, Empty, s)
  <2>2. Check("pbkdf2", key, salt, Empty, d) = [c EXCEPT !.params.keylen = DefaultKeylen]
    <3> HIDE DEF key, salt, d, s, len
    <3> QED BY <1>7, <2>1 DEF Check
  <2>3. c.kdf = "pbkdf2" /\ Check("pbkdf2", key, salt, Empty, d).kdf = "pbkdf2"
    BY DEF Check
  <2> HIDE DEF key, salt, d, s, len, c
  <2>4. Guessed(c, Check("pbkdf2", key, salt, Empty, d))
    BY <2>2, <2>3, Zenon DEF Guessed
  <2> QED BY <1>1, <1>2, <2>4, Zenon DEF c
<1> QED BY <1>8, <1>9

LEMMA DigestToAuth0 ==
  ASSUME NEW p, p.alg \in RawDigests, Ok(TranslateDigest(p))
  PROVE  TranslateDigest(p) = Verifies(p)
<1>1. p.hash.enc \in {"hex", "base64"}
  BY Outcomes, Zenon DEF TranslateDigest
<1>2. TranslateDigest(p) = Check(p.alg, DecodeBinary(p.hash), SaltPayload(p), SaltPosition(p), NoParams)
  BY <1>1, Zenon DEF TranslateDigest, SaltPosition
<1>3. p.alg \notin {"bcrypt", "argon2", "ldap", "scrypt", "pbkdf2", "hmac"}
  BY DEF RawDigests
<1>4. Verifies(p) = Check(p.alg, DecodeBytes(p.hash), SaltPayload(p), SaltPosition(p), NoParams)
  BY <1>3, Zenon DEF Verifies
<1> QED BY <1>1, <1>2, <1>4, Decoded, Zenon

LEMMA HMACToAuth0 ==
  ASSUME target = "auth0", NEW p, p.alg = "hmac", Ok(TranslateHMAC(p))
  PROVE  Guessed(Verifies(p), TranslateHMAC(p))
<1> DEFINE params == [digest |-> p.digest, secret |-> DecodeBytes(p.key)]
           c == Check("hmac", DecodeBytes(p.hash), SaltPayload(p), SaltPosition(p), params)
           d == Check("hmac", DecodeBytes(p.hash), NoBytes, Empty, params)
<1>1. TranslateHMAC(p) = d
  <2>1. ~(p.digest = Empty \/ p.key.text.as = "none")
    BY Outcomes, Zenon DEF TranslateHMAC
  <2> QED BY <2>1, Zenon DEF TranslateHMAC
<1>2. Verifies(p) = c
  <2>1. p.alg \notin RawDigests
    BY NotRaw, Zenon
  <2> QED BY <2>1, Zenon DEF Verifies
<1>3. c.kdf = "hmac" /\ d.kdf = "hmac" /\ d = [c EXCEPT !.salt = NoBytes, !.pos = Empty]
  <2> DEFINE key == DecodeBytes(p.hash)
             salt == SaltPayload(p)
             pos == SaltPosition(p)
  <2>1. /\ c = [kdf |-> "hmac", key |-> key, salt |-> salt, pos |-> pos, params |-> params]
        /\ d = [kdf |-> "hmac", key |-> key, salt |-> NoBytes, pos |-> Empty, params |-> params]
    BY Zenon DEF Check
  <2> HIDE DEF params, key, salt, pos, c, d
  <2>2. c.kdf = "hmac" /\ d.kdf = "hmac"
    BY <2>1
  <2>3. d = [c EXCEPT !.salt = NoBytes, !.pos = Empty]
    <3> DEFINE x == [c EXCEPT !.salt = NoBytes]
    <3>1. x = [kdf |-> "hmac", key |-> key, salt |-> NoBytes, pos |-> pos, params |-> params]
      BY <2>1
    <3> HIDE DEF x
    <3>2. d = [x EXCEPT !.pos = Empty]
      BY <2>1, <3>1
    <3> QED BY <3>2 DEF x
  <2> QED BY <2>2, <2>3
<1> HIDE DEF c, d
<1> QED BY <1>1, <1>2, <1>3, Zenon DEF Guessed

\* Whatever Auth0 is sent for a password verifies with what the password does.
LEMMA Auth0Verifies ==
  ASSUME target = "auth0", NEW p, Derivable(Verifies(p)), Ok(ToAuth0(p))
  PROVE  ToAuth0(p) = Verifies(p) \/ Guessed(Verifies(p), ToAuth0(p))
<1>0. p.portable
  BY Outcomes, Zenon DEF ToAuth0
<1>1. CASE p.alg = "bcrypt"
  <2>1. p.alg \notin RawDigests
    BY <1>1, NotRaw, Zenon
  <2>2. ToAuth0(p) = TranslateBcrypt(p)
    BY <1>0, <1>1, <2>1, Zenon DEF ToAuth0
  <2> QED BY <1>1, <2>2, BcryptVerifies, Zenon
<1>2. CASE p.alg = "scrypt"
  <2>1. p.alg \notin RawDigests
    BY <1>2, NotRaw, Zenon
  <2>2. ToAuth0(p) = TranslateScrypt(p)
    BY <1>0, <1>2, <2>1, Zenon DEF ToAuth0
  <2> QED BY <1>2, <2>2, ScryptToAuth0, Zenon
<1>3. CASE p.alg = "pbkdf2"
  <2>1. p.alg \notin RawDigests
    BY <1>3, NotRaw, Zenon
  <2>2. ToAuth0(p) = TranslatePBKDF2(p)
    BY <1>0, <1>3, <2>1, Zenon DEF ToAuth0
  <2> QED BY <1>3, <2>2, PBKDF2ToAuth0, Zenon
<1>4. CASE p.alg = "argon2"
  <2>1. p.alg \notin RawDigests
    BY <1>4, NotRaw, Zenon
  <2>2. ToAuth0(p) = IF p.phc.as = "none" THEN Refused("phc") ELSE ArgonCheck(p.phc)
    BY <1>0, <1>4, <2>1, Zenon DEF ToAuth0
  <2> QED BY <1>4, <2>2, Outcomes, ArgonVerifies, Zenon
<1>5. CASE p.alg \in RawDigests
  <2>1. p.alg \notin {"bcrypt", "scrypt", "pbkdf2", "argon2", "hmac", "ldap"}
    BY <1>5 DEF RawDigests
  <2>2. ToAuth0(p) = TranslateDigest(p)
    BY <1>0, <1>5, <2>1, Zenon DEF ToAuth0
  <2> QED BY <1>5, <2>2, DigestToAuth0, Zenon
<1>6. CASE p.alg = "hmac"
  <2>1. p.alg \notin RawDigests
    BY <1>6, NotRaw, Zenon
  <2>2. ToAuth0(p) = TranslateHMAC(p)
    BY <1>0, <1>6, <2>1, Zenon DEF ToAuth0
  <2> QED BY <1>6, <2>2, HMACToAuth0, Zenon
<1>7. CASE p.alg = "ldap"
  <2>1. p.alg \notin RawDigests
    BY <1>7, NotRaw, Zenon
  <2>2. ToAuth0(p) = TranslateLDAP(p)
    BY <1>0, <1>7, <2>1, Zenon DEF ToAuth0
  <2>3. TranslateLDAP(p) = Check("ldap", p.hash.text.bytes, NoBytes, Empty, NoParams)
    BY <2>2, Outcomes, Zenon DEF TranslateLDAP
  <2>4. Verifies(p) = Check("ldap", p.hash.text.bytes, NoBytes, Empty, NoParams)
    BY <1>7, <2>1, Zenon DEF Verifies
  <2> QED BY <2>2, <2>3, <2>4, Zenon
<1>8. CASE p.alg \notin RawDigests \cup {"bcrypt", "scrypt", "pbkdf2", "argon2", "hmac", "ldap"}
  <2>1. ToAuth0(p) = Refused("algorithm")
    BY <1>0, <1>8, Zenon DEF ToAuth0
  <2> QED BY <2>1, Outcomes, Zenon
<1> QED BY <1>1, <1>2, <1>3, <1>4, <1>5, <1>6, <1>7, <1>8

LEMMA KratosVerifies ==
  ASSUME NEW p, Ok(ToKratosHashedPassword(p))
  PROVE  ToKratosHashedPassword(p) = Verifies(p)
<1>0. p.portable
  BY Outcomes, Zenon DEF ToKratosHashedPassword
<1>1. CASE p.alg = "bcrypt"
  <2>1. ToKratosHashedPassword(p) = TranslateBcrypt(p)
    BY <1>0, <1>1, Zenon DEF ToKratosHashedPassword
  <2> QED BY <1>1, <2>1, BcryptVerifies, Zenon
<1>2. CASE p.alg = "argon2"
  <2>1. ToKratosHashedPassword(p) \in {ArgonCheck(p.phc), Refused("argon2id")}
    BY <1>0, <1>2, Zenon DEF ToKratosHashedPassword
  <2> QED BY <1>2, <2>1, Outcomes, ArgonVerifies, Zenon
<1>3. CASE p.alg \notin {"bcrypt", "argon2"}
  <2>1. ToKratosHashedPassword(p) = Refused("algorithm")
    BY <1>0, <1>3, Zenon DEF ToKratosHashedPassword
  <2> QED BY <2>1, Outcomes, Zenon
<1> QED BY <1>1, <1>2, <1>3

LEMMA PBKDF2ToKeycloak ==
  ASSUME NEW p, p.alg = "pbkdf2", Derivable(Verifies(p)), Ok(TranslateKeycloakPBKDF2(p))
  PROVE  TranslateKeycloakPBKDF2(p) = Verifies(p)
<1> DEFINE key == DecodeBinary(p.hash)
           salt == DecodeBinary(p.salt)
           params(n) == [digest |-> KeycloakPBKDF2Digest(p), iterations |-> Param(p, "iterations"), keylen |-> n]
<1>1. /\ p.salt # NoValue /\ key # Undecodable /\ salt # Undecodable
      /\ TranslateKeycloakPBKDF2(p) = Check("pbkdf2", key, salt, Empty, params(key.n))
  <2> DEFINE known == KeycloakPBKDF2Digest(p) \in {"sha1", "sha256", "sha512"}
             counted == Param(p, "iterations") # 0
             salted == p.salt # NoValue
             decoded == Undecodable \notin {key, salt}
  <2>1. CASE ~known
    BY <2>1, Outcomes, Zenon DEF TranslateKeycloakPBKDF2
  <2>2. CASE known /\ ~counted
    BY <2>2, Outcomes, Zenon DEF TranslateKeycloakPBKDF2
  <2>3. CASE known /\ counted /\ ~salted
    BY <2>3, Outcomes, Zenon DEF TranslateKeycloakPBKDF2
  <2>4. CASE known /\ counted /\ salted /\ ~decoded
    BY <2>4, Outcomes, Zenon DEF TranslateKeycloakPBKDF2
  <2>5. CASE known /\ counted /\ salted /\ decoded
    BY <2>5, Zenon DEF TranslateKeycloakPBKDF2
  <2> QED BY <2>1, <2>2, <2>3, <2>4, <2>5
<1>2. DecodeBytes(p.hash) = key /\ SaltPayload(p) = salt
  BY <1>1, Decoded, SaltDecoded
<1>3. Verifies(p) = Check("pbkdf2", key, salt, Empty, params(Keylen(p)))
  <2>1. p.alg \notin RawDigests
    BY NotRaw, Zenon
  <2>2. Verifies(p) = Check("pbkdf2", DecodeBytes(p.hash), SaltPayload(p), Empty, params(Keylen(p)))
    BY <2>1, Zenon DEF Verifies
  <2> QED BY <1>2, <2>2, Zenon
<1>4. Keylen(p) = key.n
  <2> HIDE DEF key, salt
  <2> QED BY <1>3 DEF Derivable, Check
<1> QED BY <1>1, <1>3, <1>4, Zenon

LEMMA KeycloakVerifies ==
  ASSUME NEW p, Derivable(Verifies(p)), Ok(ToKeycloakCredential(p))
  PROVE  ToKeycloakCredential(p) = Verifies(p)
<1>0. p.portable
  BY Outcomes, Zenon DEF ToKeycloakCredential
<1>1. CASE p.alg = "pbkdf2"
  <2>1. ToKeycloakCredential(p) = TranslateKeycloakPBKDF2(p)
    BY <1>0, <1>1, Zenon DEF ToKeycloakCredential
  <2> QED BY <1>1, <2>1, PBKDF2ToKeycloak, Zenon
<1>2. CASE p.alg = "argon2"
  <2>1. ToKeycloakCredential(p) = TranslateKeycloakArgon2(p)
    BY <1>0, <1>2, Zenon DEF ToKeycloakCredential
  <2>2. TranslateKeycloakArgon2(p) = ArgonCheck(p.phc)
    <3> DEFINE known == p.phc.params.version \in KeycloakVersions
               decoded == Undecodable \notin {ArgonCheck(p.phc).key, ArgonCheck(p.phc).salt}
    <3>1. p.phc.as = "argon2"
      BY <2>1, Outcomes, Zenon DEF TranslateKeycloakArgon2
    <3>2. CASE ~known
      BY <3>1, <3>2, <2>1, Outcomes, Zenon DEF TranslateKeycloakArgon2
    <3>3. CASE known /\ ~decoded
      BY <3>1, <3>3, <2>1, Outcomes, Zenon DEF TranslateKeycloakArgon2
    <3>4. CASE known /\ decoded
      BY <3>1, <3>4, Zenon DEF TranslateKeycloakArgon2
    <3> QED BY <3>2, <3>3, <3>4
  <2> QED BY <1>2, <2>1, <2>2, ArgonVerifies, Zenon
<1>3. CASE p.alg \notin {"pbkdf2", "argon2"}
  <2>1. ToKeycloakCredential(p) = Refused("algorithm")
    BY <1>0, <1>3, Zenon DEF ToKeycloakCredential
  <2> QED BY <2>1, Outcomes, Zenon
<1> QED BY <1>1, <1>2, <1>3

LEMMA FirebaseScryptVerifies ==
  ASSUME NEW p, p.alg = "scrypt", Name(p, "variant") = "firebase", Ok(TranslateFirebaseScrypt(p)),
         DecodeBytes(p.hash) = DecodeBinary(p.hash), SaltPayload(p) = DecodeBinary(p.salt)
  PROVE  TranslateFirebaseScrypt(p) = Verifies(p)
<1> DEFINE cfg == FirebaseScryptParams(p)
           sep == IF "salt_separator" \in DOMAIN p.params THEN p.params.salt_separator ELSE NoBytes
           read == [signer |-> DecodeBinary(p.key), separator |-> sep,
                    rounds |-> Param(p, "rounds"), memCost |-> Param(p, "mem_cost")]
<1>1. Ok(cfg)
  BY Zenon DEF TranslateFirebaseScrypt
<1>2. cfg = read /\ ValidConfig(read)
  <2>1. CASE p.key = NoValue
    BY <1>1, <2>1, Outcomes, Zenon DEF FirebaseScryptParams
  <2>2. CASE p.key # NoValue /\ ~ValidConfig(read)
    BY <1>1, <2>2, Outcomes, Zenon DEF FirebaseScryptParams
  <2>3. CASE p.key # NoValue /\ ValidConfig(read)
    BY <2>3, Zenon DEF FirebaseScryptParams
  <2> QED BY <2>1, <2>2, <2>3
<1>3. DecodeBytes(p.key) = DecodeBinary(p.key)
  <2>1. read.signer = DecodeBinary(p.key) /\ read.signer # Undecodable
    BY <1>2 DEF ValidConfig
  <2> QED BY <2>1, Decoded
<1>4. read = Project(p)
  <2>1. Project(p) = [signer |-> DecodeBytes(p.key), rounds |-> Param(p, "rounds"),
                      memCost |-> Param(p, "mem_cost"), separator |-> sep]
    BY Zenon DEF Project
  <2> HIDE DEF sep
  <2> QED BY <2>1, <1>3
<1>5. Verifies(p) = Check("firebase", DecodeBytes(p.hash), SaltPayload(p), Empty, Project(p))
  <2>1. p.alg \notin RawDigests
    BY NotRaw, Zenon
  <2> QED BY <2>1, Zenon DEF Verifies
<1>6. TranslateFirebaseScrypt(p) = Check("firebase", DecodeBinary(p.hash), DecodeBinary(p.salt), Empty, cfg)
  BY <1>1, Zenon DEF TranslateFirebaseScrypt
<1> QED BY <1>2, <1>4, <1>5, <1>6, Zenon

LEMMA StandardScryptVerifies ==
  ASSUME NEW p, p.alg = "scrypt", Name(p, "variant") # "firebase", Ok(TranslateStandardScrypt(p)),
         Derivable(Verifies(p)),
         DecodeBytes(p.hash) = DecodeBinary(p.hash), SaltPayload(p) = DecodeBinary(p.salt)
  PROVE  TranslateStandardScrypt(p) = Verifies(p)
<1> DEFINE key == DecodeBinary(p.hash)
           salt == DecodeBinary(p.salt)
           params(n) == [cost |-> Param(p, "cost"), keylen |-> n, blockSize |-> Param(p, "blockSize"),
                         parallelization |-> Param(p, "parallelization")]
<1>1. TranslateStandardScrypt(p) = Check("scrypt", key, salt, Empty, params(key.n))
  <2> DEFINE power == PowerOfTwo(Param(p, "cost"))
             stated == 0 \notin {Param(p, "blockSize"), Param(p, "parallelization")}
  <2>1. CASE ~power
    BY <2>1, Outcomes, Zenon DEF TranslateStandardScrypt
  <2>2. CASE power /\ ~stated
    BY <2>2, Outcomes, Zenon DEF TranslateStandardScrypt
  <2>3. CASE power /\ stated
    BY <2>3, Zenon DEF TranslateStandardScrypt
  <2> QED BY <2>1, <2>2, <2>3
<1>2. Verifies(p) = Check("scrypt", key, salt, Empty, params(Keylen(p)))
  <2>1. p.alg \notin RawDigests
    BY NotRaw, Zenon
  <2>2. Verifies(p) = Check("scrypt", DecodeBytes(p.hash), SaltPayload(p), Empty, params(Keylen(p)))
    BY <2>1, Zenon DEF Verifies
  <2> QED BY <2>2, Zenon
<1>3. Keylen(p) = key.n
  <2> HIDE DEF key, salt
  <2> QED BY <1>2 DEF Derivable, Check
<1> QED BY <1>1, <1>2, <1>3, Zenon

LEMMA FirebaseVerifies ==
  ASSUME NEW p, Derivable(Verifies(p)), Ok(ToFirebaseHash(p))
  PROVE  ToFirebaseHash(p) = Verifies(p)
<1>0. p.portable
  BY Outcomes, Zenon DEF ToFirebaseHash
<1>1. CASE p.alg = "bcrypt"
  <2>1. ToFirebaseHash(p) = TranslateBcrypt(p)
    BY <1>0, <1>1, Zenon DEF ToFirebaseHash
  <2> QED BY <1>1, <2>1, BcryptVerifies, Zenon
<1>2. CASE p.alg = "scrypt"
  <2>1. ToFirebaseHash(p) =
          IF DecodeBinary(p.hash) = Undecodable THEN Refused("hash")
          ELSE IF p.salt = NoValue \/ DecodeBinary(p.salt) = Undecodable THEN Refused("salt")
          ELSE IF Name(p, "variant") = "firebase" THEN TranslateFirebaseScrypt(p)
          ELSE TranslateStandardScrypt(p)
    BY <1>0, <1>2, Zenon DEF ToFirebaseHash
  <2>2. DecodeBinary(p.hash) # Undecodable /\ p.salt # NoValue /\ DecodeBinary(p.salt) # Undecodable
    BY <2>1, Outcomes, Zenon
  <2>3. DecodeBytes(p.hash) = DecodeBinary(p.hash) /\ SaltPayload(p) = DecodeBinary(p.salt)
    BY <2>2, Decoded, SaltDecoded
  <2>4. CASE Name(p, "variant") = "firebase"
    <3>1. ToFirebaseHash(p) = TranslateFirebaseScrypt(p)
      BY <2>1, <2>2, <2>4, Zenon
    <3> QED BY <1>2, <2>3, <2>4, <3>1, FirebaseScryptVerifies
  <2>5. CASE Name(p, "variant") # "firebase"
    <3>1. ToFirebaseHash(p) = TranslateStandardScrypt(p)
      BY <2>1, <2>2, <2>5, Zenon
    <3> QED BY <1>2, <2>3, <2>5, <3>1, StandardScryptVerifies
  <2> QED BY <2>4, <2>5
<1>3. CASE p.alg \notin {"bcrypt", "scrypt"}
  <2>1. ToFirebaseHash(p) = Refused("algorithm")
    BY <1>0, <1>3, Zenon DEF ToFirebaseHash
  <2> QED BY <2>1, Outcomes, Zenon
<1> QED BY <1>1, <1>2, <1>3

-----------------------------------------------------------------------------
(* What the account a connector builds holds of the user. *)

Sends(b, checks, factors, attributes, flags) ==
  /\ b.account.checks = checks /\ b.account.factors = factors /\ b.account.attributes = attributes
  /\ b.flags = flags

LEMMA Auth0Sends ==
  ASSUME NEW w, Ok(BuildImportUser(w))
  PROVE  /\ \A p \in Portable(w) : Ok(ToAuth0(p))
         /\ Sends(BuildImportUser(w), {ToAuth0(p) : p \in Portable(w)},
                  {[type |-> f.type, as |-> f.as, of |-> f.of, params |-> Empty] :
                     f \in {g \in FactorsOf(w) : g.type \in {"totp", "sms", "email"}}},
                  Over(At("app_metadata", w.app), At("user_metadata", w.user)),
                  Reset(w) \cup Flag(w, {"webauthn", "push"}, "re-enrollment")
                           \cup Flag(w, {"recovery_codes"}, "recovery codes"))
<1> DEFINE c == Contacts(w, Account)
           checks == {ToAuth0(p) : p \in Portable(w)}
           factors == {[type |-> f.type, as |-> f.as, of |-> f.of, params |-> Empty] :
                         f \in {g \in FactorsOf(w) : g.type \in {"totp", "sms", "email"}}}
           attributes == Over(At("app_metadata", w.app), At("user_metadata", w.user))
           flags == Reset(w) \cup Flag(w, {"webauthn", "push"}, "re-enrollment")
                             \cup Flag(w, {"recovery_codes"}, "recovery codes")
           a == [c EXCEPT !.id = Unprefixed[TargetID(w)], !.username = w.username, !.name = w.name,
                          !.enabled = ~w.blocked, !.checks = checks, !.factors = factors,
                          !.attributes = attributes]
<1>1. w.emails # <<>> /\ ~NotTranslated(w, ToAuth0)
  BY Outcomes, Zenon DEF BuildImportUser
<1>2. BuildImportUser(w) = Built(a, flags)
  BY <1>1, Zenon DEF BuildImportUser
<1>3. a.checks = checks /\ a.factors = factors /\ a.attributes = attributes
  <2>1. DOMAIN c = DOMAIN Account
    BY ContactsSay
  <2> HIDE DEF c, checks, factors, attributes
  <2> QED BY <2>1, AccountFields
<1>4. \A p \in Portable(w) : Ok(ToAuth0(p))
  BY <1>1, Zenon DEF NotTranslated
<1> HIDE DEF a, checks, factors, attributes, flags
<1>5. Sends(BuildImportUser(w), checks, factors, attributes, flags)
  <2>1. Built(a, flags).account = a /\ Built(a, flags).flags = flags
    BY Outcomes
  <2> QED BY <1>2, <1>3, <2>1, Zenon DEF Sends
<1> QED BY <1>4, <1>5 DEF checks, factors, attributes, flags

LEMMA KratosSends ==
  ASSUME NEW w, Ok(BuildIdentity(w))
  PROVE  /\ \A p \in Portable(w) : Ok(ToKratosHashedPassword(p))
         /\ Sends(BuildIdentity(w), {ToKratosHashedPassword(p) : p \in Portable(w)},
                  {[type |-> f.type, as |-> f.as, of |-> f.of,
                    params |-> IF f.as = "uri" THEN f.uri ELSE Empty] :
                     f \in LastOf(w, "totp") \cup LastOf(w, "recovery_codes")},
                  Over(At("traits", BuildTraits(w)),
                       Over(At("metadata_admin", w.app), At("metadata_public", w.user))),
                  Reset(w) \cup Flag(w, {"sms", "email", "webauthn", "push"}, "re-enrollment"))
<1> DEFINE c == Contacts(w, Account)
           checks == {ToKratosHashedPassword(p) : p \in Portable(w)}
           factors == {[type |-> f.type, as |-> f.as, of |-> f.of,
                        params |-> IF f.as = "uri" THEN f.uri ELSE Empty] :
                         f \in LastOf(w, "totp") \cup LastOf(w, "recovery_codes")}
           attributes == Over(At("traits", BuildTraits(w)),
                              Over(At("metadata_admin", w.app), At("metadata_public", w.user)))
           flags == Reset(w) \cup Flag(w, {"sms", "email", "webauthn", "push"}, "re-enrollment")
           a == [c EXCEPT !.username = w.username, !.enabled = ~w.blocked,
                          !.checks = checks, !.factors = factors, !.attributes = attributes]
<1>1. ~NotTranslated(w, ToKratosHashedPassword)
  BY Outcomes, Zenon DEF BuildIdentity
<1>2. BuildIdentity(w) = Built(a, flags)
  BY <1>1, Zenon DEF BuildIdentity
<1>3. a.checks = checks /\ a.factors = factors /\ a.attributes = attributes
  <2>1. DOMAIN c = DOMAIN Account
    BY ContactsSay
  <2> HIDE DEF c, checks, factors, attributes
  <2> QED BY <2>1, AccountFields
<1>4. \A p \in Portable(w) : Ok(ToKratosHashedPassword(p))
  BY <1>1, Zenon DEF NotTranslated
<1> HIDE DEF a, checks, factors, attributes, flags
<1>5. Sends(BuildIdentity(w), checks, factors, attributes, flags)
  <2>1. Built(a, flags).account = a /\ Built(a, flags).flags = flags
    BY Outcomes
  <2> QED BY <1>2, <1>3, <2>1, Zenon DEF Sends
<1> QED BY <1>4, <1>5 DEF checks, factors, attributes, flags

LEMMA KeycloakSends ==
  ASSUME NEW w, Ok(BuildUser(w))
  PROVE  /\ \A p \in Portable(w) : Ok(ToKeycloakCredential(p))
         /\ \A f \in TOTPs(w) : Ok(OTPCredential(f))
         /\ Sends(BuildUser(w), {ToKeycloakCredential(p) : p \in Portable(w)},
                  {OTPCredential(f) : f \in TOTPs(w)},
                  At("attributes", Over(PhoneAttributes(w), Over(w.app, w.user))),
                  Reset(w) \cup Flag(w, {"sms", "email", "webauthn", "push"}, "re-enrollment")
                           \cup Flag(w, {"recovery_codes"}, "recovery codes"))
<1> DEFINE c == Contacts(w, Account)
           checks == {ToKeycloakCredential(p) : p \in Portable(w)}
           factors == {OTPCredential(f) : f \in TOTPs(w)}
           attributes == At("attributes", Over(PhoneAttributes(w), Over(w.app, w.user)))
           flags == Reset(w) \cup Flag(w, {"sms", "email", "webauthn", "push"}, "re-enrollment")
                             \cup Flag(w, {"recovery_codes"}, "recovery codes")
           a == [c EXCEPT !.login = LoginUsername(w), !.name = w.name, !.enabled = ~w.blocked,
                          !.checks = checks, !.factors = factors, !.attributes = attributes]
<1>1. LoginUsername(w) # Empty /\ ~NotTranslated(w, ToKeycloakCredential) /\ \A f \in TOTPs(w) : Ok(OTPCredential(f))
  BY Outcomes, Zenon DEF BuildUser
<1>2. BuildUser(w) = Built(a, flags)
  BY <1>1, Zenon DEF BuildUser
<1>3. a.checks = checks /\ a.factors = factors /\ a.attributes = attributes
  <2>1. DOMAIN c = DOMAIN Account
    BY ContactsSay
  <2> HIDE DEF c, checks, factors, attributes
  <2> QED BY <2>1, AccountFields
<1>4. \A p \in Portable(w) : Ok(ToKeycloakCredential(p))
  BY <1>1, Zenon DEF NotTranslated
<1> HIDE DEF a, checks, factors, attributes, flags
<1>5. Sends(BuildUser(w), checks, factors, attributes, flags)
  <2>1. Built(a, flags).account = a /\ Built(a, flags).flags = flags
    BY Outcomes
  <2> QED BY <1>2, <1>3, <2>1, Zenon DEF Sends
<1> QED BY <1>1, <1>4, <1>5 DEF checks, factors, attributes, flags

LEMMA FirebaseSends ==
  ASSUME NEW w, Ok(BuildAccount(w))
  PROVE  /\ \A p \in Portable(w) : Ok(ToFirebaseHash(p))
         /\ Sends(BuildAccount(w), {ToFirebaseHash(p) : p \in Portable(w)},
                  {[type |-> f.type, as |-> f.as, of |-> f.of, params |-> Empty] :
                     f \in {g \in FactorsOf(w) : Kept(g)}},
                  At("custom_claims", w.app),
                  Reset(w) \cup Problem(\E f \in FactorsOf(w) : ~Kept(f), "re-enrollment"))
<1> DEFINE c == Contacts(w, Account)
           checks == {ToFirebaseHash(p) : p \in Portable(w)}
           factors == {[type |-> f.type, as |-> f.as, of |-> f.of, params |-> Empty] :
                         f \in {g \in FactorsOf(w) : Kept(g)}}
           attributes == At("custom_claims", w.app)
           flags == Reset(w) \cup Problem(\E f \in FactorsOf(w) : ~Kept(f), "re-enrollment")
           a == [c EXCEPT !.id = TargetID(w), !.name = w.name, !.enabled = ~w.blocked,
                          !.checks = checks, !.factors = factors, !.attributes = attributes]
<1>1. ~(w.emails = <<>> /\ w.phones = <<>>) /\ ~NotTranslated(w, ToFirebaseHash)
  BY Outcomes, Zenon DEF BuildAccount
<1>2. BuildAccount(w) = Built(a, flags)
  BY <1>1, Zenon DEF BuildAccount
<1>3. a.checks = checks /\ a.factors = factors /\ a.attributes = attributes
  <2>1. DOMAIN c = DOMAIN Account
    BY ContactsSay
  <2> HIDE DEF c, checks, factors, attributes
  <2> QED BY <2>1, AccountFields
<1>4. \A p \in Portable(w) : Ok(ToFirebaseHash(p))
  BY <1>1, Zenon DEF NotTranslated
<1> HIDE DEF a, checks, factors, attributes, flags
<1>5. Sends(BuildAccount(w), checks, factors, attributes, flags)
  <2>1. Built(a, flags).account = a /\ Built(a, flags).flags = flags
    BY Outcomes
  <2> QED BY <1>2, <1>3, <2>1, Zenon DEF Sends
<1> QED BY <1>4, <1>5 DEF checks, factors, attributes, flags

LEMMA CognitoSends ==
  ASSUME NEW w, Ok(BuildCreateUser(w))
  PROVE  BuildCreateUser(w).flags =
           Problem(w.password # {}, "password reset") \cup Problem(w.factors # <<>>, "re-enrollment")
<1> DEFINE flags == Problem(w.password # {}, "password reset") \cup Problem(w.factors # <<>>, "re-enrollment")
<1>1. Login(w).v # Empty
  BY Outcomes, Zenon DEF BuildCreateUser
<1>2. PICK a : BuildCreateUser(w) = Built(a, flags)
  BY <1>1, Zenon DEF BuildCreateUser
<1>3. Built(a, flags).flags = flags
  <2> HIDE DEF flags
  <2> QED BY Outcomes
<1> QED BY <1>2, <1>3, Zenon

\* A password is on the account as what it verifies, or the import says that it is not.
LEMMA PasswordSent ==
  ASSUME target \in Targets, NEW w, Ok(Build(target, w)),
         NEW p \in w.password, p.portable => Derivable(Verifies(p))
  PROVE  \/ "password reset" \in Build(target, w).flags
         \/ /\ p.portable
            /\ \E d \in Build(target, w).account.checks : d = Verifies(p) \/ Guessed(Verifies(p), d)
<1> DEFINE b == Build(target, w)
<1>1. ~p.portable => "password reset" \in Reset(w)
  BY Zenon DEF Reset
<1>2. p.portable => p \in Portable(w)
  BY DEF Portable
<1>3. CASE target = "auth0"
  <2>1. b = BuildImportUser(w)
    BY <1>3, Zenon DEF Build
  <2>2. /\ \A q \in Portable(w) : Ok(ToAuth0(q))
        /\ b.account.checks = {ToAuth0(q) : q \in Portable(w)} /\ Reset(w) \subseteq b.flags
    BY <2>1, Auth0Sends DEF Sends
  <2>3. CASE p.portable
    <3>1. ToAuth0(p) = Verifies(p) \/ Guessed(Verifies(p), ToAuth0(p))
      BY <1>2, <1>3, <2>2, <2>3, Auth0Verifies, Zenon
    <3> QED BY <1>2, <2>2, <2>3, <3>1, Zenon
  <2> QED BY <1>1, <2>2, <2>3, Zenon
<1>4. CASE target = "kratos"
  <2>1. b = BuildIdentity(w)
    BY <1>4, Zenon DEF Build
  <2>2. /\ \A q \in Portable(w) : Ok(ToKratosHashedPassword(q))
        /\ b.account.checks = {ToKratosHashedPassword(q) : q \in Portable(w)} /\ Reset(w) \subseteq b.flags
    BY <2>1, KratosSends DEF Sends
  <2>3. CASE p.portable
    <3>1. ToKratosHashedPassword(p) = Verifies(p)
      BY <1>2, <2>2, <2>3, KratosVerifies, Zenon
    <3> QED BY <1>2, <2>2, <2>3, <3>1, Zenon
  <2> QED BY <1>1, <2>2, <2>3, Zenon
<1>5. CASE target = "keycloak"
  <2>1. b = BuildUser(w)
    BY <1>5, Zenon DEF Build
  <2>2. /\ \A q \in Portable(w) : Ok(ToKeycloakCredential(q))
        /\ b.account.checks = {ToKeycloakCredential(q) : q \in Portable(w)} /\ Reset(w) \subseteq b.flags
    BY <2>1, KeycloakSends DEF Sends
  <2>3. CASE p.portable
    <3>1. ToKeycloakCredential(p) = Verifies(p)
      BY <1>2, <2>2, <2>3, KeycloakVerifies, Zenon
    <3> QED BY <1>2, <2>2, <2>3, <3>1, Zenon
  <2> QED BY <1>1, <2>2, <2>3, Zenon
<1>6. CASE target = "firebase"
  <2>1. b = BuildAccount(w)
    BY <1>6, Zenon DEF Build
  <2>2. /\ \A q \in Portable(w) : Ok(ToFirebaseHash(q))
        /\ b.account.checks = {ToFirebaseHash(q) : q \in Portable(w)} /\ Reset(w) \subseteq b.flags
    BY <2>1, FirebaseSends DEF Sends
  <2>3. CASE p.portable
    <3>1. ToFirebaseHash(p) = Verifies(p)
      BY <1>2, <2>2, <2>3, FirebaseVerifies, Zenon
    <3> QED BY <1>2, <2>2, <2>3, <3>1, Zenon
  <2> QED BY <1>1, <2>2, <2>3, Zenon
<1>7. CASE target = "cognito"
  <2>1. b = BuildCreateUser(w)
    BY <1>7, Zenon DEF Build
  <2>2. Problem(w.password # {}, "password reset") \subseteq b.flags
    BY <2>1, CognitoSends
  <2>3. "password reset" \in Problem(w.password # {}, "password reset")
    BY DEF Problem
  <2> QED BY <2>2, <2>3, Zenon
<1> QED BY <1>3, <1>4, <1>5, <1>6, <1>7 DEF Targets

\* There is a last factor of a type, where there is one.
LEMMA LastFactor ==
  ASSUME NEW w, Len(w.factors) \in Nat, DOMAIN w.factors = 1..Len(w.factors), NEW f \in FactorsOf(w)
  PROVE  \E g \in LastOf(w, f.type) : g \in FactorsOf(w) /\ g.type = f.type
<1> DEFINE n == Len(w.factors)
           typed == {i \in 1..n : w.factors[i].type = f.type}
           left == {n - i : i \in typed}
<1>1. typed # {}
  BY DEF FactorsOf
<1>2. left \in SUBSET Nat /\ left # {}
  <2>1. \A i \in typed : n - i \in Nat
    OBVIOUS
  <2>2. left # {}
    BY <1>1
  <2> HIDE DEF typed, n
  <2> QED BY <2>1, <2>2
<1>3. PICK l \in left : \A k \in left : l <= k
  <2> HIDE DEF left
  <2> QED BY <1>2, LeastOf
<1>4. PICK i \in typed : l = n - i
  BY <1>3
<1>5. \A k \in 1..n : w.factors[k].type = f.type => k <= i
  <2> SUFFICES ASSUME NEW k \in 1..n, w.factors[k].type = f.type
               PROVE  k <= i
    OBVIOUS
  <2>1. n - i <= n - k
    BY <1>3, <1>4
  <2> QED BY <2>1, <1>4
<1>6. i \in DOMAIN w.factors /\ w.factors[i].type = f.type
  BY <1>4
<1>7. w.factors[i] \in LastOf(w, f.type)
  BY <1>5, <1>6, Zenon DEF LastOf
<1> QED BY <1>6, <1>7 DEF FactorsOf

\* A factor is on the account, or the import says that it is to be enrolled again.
Enrolled(w, f, b) ==
  \/ "re-enrollment" \in b.flags
  \/ f.type = "recovery_codes" /\ "recovery codes" \in b.flags
  \/ \E g \in b.account.factors :
       /\ g.type = f.type /\ g.of = f.of
       /\ f.type = "totp" /\ target \notin {"auth0", "kratos"} => g.params = Held(f).params
  \/ target = "kratos" /\ (\E g \in FactorsOf(w) : Held(g) # Held(f) /\ g.type = f.type)

LEMMA FactorSent ==
  ASSUME target \in Targets, NEW w, Ok(Build(target, w)), NEW f \in FactorsOf(w), f.type \in MFATypes,
         Len(w.factors) \in Nat, DOMAIN w.factors = 1..Len(w.factors)
  PROVE  Enrolled(w, f, Build(target, w))
<1> DEFINE b == Build(target, w)
<1>1. CASE target = "auth0"
  <2>1. b = BuildImportUser(w)
    BY <1>1, Zenon DEF Build
  <2>2. /\ Flag(w, {"webauthn", "push"}, "re-enrollment") \cup Flag(w, {"recovery_codes"}, "recovery codes")
             \subseteq b.flags
        /\ b.account.factors = {[type |-> g.type, as |-> g.as, of |-> g.of, params |-> Empty] :
                                  g \in {h \in FactorsOf(w) : h.type \in {"totp", "sms", "email"}}}
    BY <2>1, Auth0Sends DEF Sends
  <2>3. CASE f.type \in {"totp", "sms", "email"}
    <3>1. [type |-> f.type, as |-> f.as, of |-> f.of, params |-> Empty] \in b.account.factors
      BY <2>2, <2>3
    <3> QED BY <1>1, <3>1 DEF Enrolled
  <2>4. CASE f.type \in {"webauthn", "push"}
    <3>1. "re-enrollment" \in Flag(w, {"webauthn", "push"}, "re-enrollment")
      BY <2>4 DEF Flag
    <3> QED BY <2>2, <3>1, Zenon DEF Enrolled
  <2>5. CASE f.type = "recovery_codes"
    <3>1. "recovery codes" \in Flag(w, {"recovery_codes"}, "recovery codes")
      BY <2>5 DEF Flag
    <3> QED BY <2>2, <2>5, <3>1, Zenon DEF Enrolled
  <2> QED BY <2>3, <2>4, <2>5 DEF MFATypes
<1>2. CASE target = "kratos"
  <2>1. b = BuildIdentity(w)
    BY <1>2, Zenon DEF Build
  <2>2. /\ Flag(w, {"sms", "email", "webauthn", "push"}, "re-enrollment") \subseteq b.flags
        /\ b.account.factors = {[type |-> g.type, as |-> g.as, of |-> g.of,
                                 params |-> IF g.as = "uri" THEN g.uri ELSE Empty] :
                                  g \in LastOf(w, "totp") \cup LastOf(w, "recovery_codes")}
    BY <2>1, KratosSends DEF Sends
  <2>3. CASE f.type \in {"totp", "recovery_codes"}
    <3>1. PICK g \in LastOf(w, f.type) : g \in FactorsOf(w) /\ g.type = f.type
      BY LastFactor
    <3>2. \E h \in b.account.factors : h.type = g.type /\ h.of = g.of
      <4>1. g \in LastOf(w, "totp") \cup LastOf(w, "recovery_codes")
        BY <2>3, <3>1
      <4> DEFINE h == [type |-> g.type, as |-> g.as, of |-> g.of,
                       params |-> IF g.as = "uri" THEN g.uri ELSE Empty]
      <4>2. h \in b.account.factors
        BY <2>2, <4>1, Zenon
      <4>3. h.type = g.type /\ h.of = g.of
        OBVIOUS
      <4> QED BY <4>2, <4>3, Zenon
    <3>3. CASE Held(g) = Held(f)
      <4>1. g.of = f.of
        BY <3>3 DEF Held
      <4> QED BY <1>2, <3>1, <3>2, <4>1, Zenon DEF Enrolled
    <3>4. CASE Held(g) # Held(f)
      BY <1>2, <3>1, <3>4, Zenon DEF Enrolled
    <3> QED BY <3>3, <3>4
  <2>4. CASE f.type \in {"sms", "email", "webauthn", "push"}
    <3>1. "re-enrollment" \in Flag(w, {"sms", "email", "webauthn", "push"}, "re-enrollment")
      BY <2>4 DEF Flag
    <3> QED BY <2>2, <3>1, Zenon DEF Enrolled
  <2> QED BY <2>3, <2>4 DEF MFATypes
<1>3. CASE target = "keycloak"
  <2>1. b = BuildUser(w)
    BY <1>3, Zenon DEF Build
  <2>2. /\ Flag(w, {"sms", "email", "webauthn", "push"}, "re-enrollment")
             \cup Flag(w, {"recovery_codes"}, "recovery codes") \subseteq b.flags
        /\ b.account.factors = {OTPCredential(g) : g \in TOTPs(w)}
        /\ \A g \in TOTPs(w) : Ok(OTPCredential(g))
    BY <2>1, KeycloakSends DEF Sends
  <2>3. CASE f.type = "totp"
    <3>1. f \in TOTPs(w)
      BY <2>3 DEF TOTPs
    <3>2. OTPCredential(f) = [type |-> "totp", as |-> "base32", of |-> f.of,
                              params |-> IF f.params = Empty /\ f.as = "uri" THEN f.uri ELSE f.params]
      BY <2>2, <3>1, Outcomes, Zenon DEF OTPCredential
    <3>3. OTPCredential(f).type = f.type /\ OTPCredential(f).of = f.of /\ OTPCredential(f).params = Held(f).params
      BY <2>3, <3>2 DEF Held
    <3> QED BY <2>2, <3>1, <3>3, Zenon DEF Enrolled
  <2>4. CASE f.type \in {"sms", "email", "webauthn", "push"}
    <3>1. "re-enrollment" \in Flag(w, {"sms", "email", "webauthn", "push"}, "re-enrollment")
      BY <2>4 DEF Flag
    <3> QED BY <2>2, <3>1, Zenon DEF Enrolled
  <2>5. CASE f.type = "recovery_codes"
    <3>1. "recovery codes" \in Flag(w, {"recovery_codes"}, "recovery codes")
      BY <2>5 DEF Flag
    <3> QED BY <2>2, <2>5, <3>1, Zenon DEF Enrolled
  <2> QED BY <2>3, <2>4, <2>5 DEF MFATypes
<1>4. CASE target = "firebase"
  <2>1. b = BuildAccount(w)
    BY <1>4, Zenon DEF Build
  <2>2. /\ Problem(\E g \in FactorsOf(w) : ~Kept(g), "re-enrollment") \subseteq b.flags
        /\ b.account.factors = {[type |-> g.type, as |-> g.as, of |-> g.of, params |-> Empty] :
                                  g \in {h \in FactorsOf(w) : Kept(h)}}
    BY <2>1, FirebaseSends DEF Sends
  <2>3. CASE Kept(f)
    <3>1. [type |-> f.type, as |-> f.as, of |-> f.of, params |-> Empty] \in b.account.factors
      BY <2>2, <2>3, Zenon
    <3>2. f.type = "sms"
      BY <2>3 DEF Kept
    <3> QED BY <3>1, <3>2 DEF Enrolled
  <2>4. CASE ~Kept(f)
    <3>1. "re-enrollment" \in Problem(\E g \in FactorsOf(w) : ~Kept(g), "re-enrollment")
      BY <2>4, Zenon DEF Problem
    <3> QED BY <2>2, <3>1 DEF Enrolled
  <2> QED BY <2>3, <2>4
<1>5. CASE target = "cognito"
  <2>1. b = BuildCreateUser(w)
    BY <1>5, Zenon DEF Build
  <2>2. Problem(w.factors # <<>>, "re-enrollment") \subseteq b.flags
    BY <2>1, CognitoSends
  <2>3. w.factors # <<>>
    BY DEF FactorsOf
  <2> QED BY <2>2, <2>3 DEF Problem, Enrolled
<1> QED BY <1>1, <1>2, <1>3, <1>4, <1>5 DEF Targets

\* What maps under a root, and what one map over another has.
LEMMA AtReads ==
  ASSUME NEW root, NEW m, NEW k \in DOMAIN m
  PROVE  <<root, k>> \in DOMAIN At(root, m) /\ At(root, m)[<<root, k>>] = m[k]
<1>1. <<root, k>> \in {<<root, j>> : j \in DOMAIN m} /\ <<root, k>>[2] = k
  OBVIOUS
<1> QED BY <1>1, Zenon DEF At

LEMMA AtRoot ==
  ASSUME NEW root, NEW m, NEW path \in DOMAIN At(root, m)
  PROVE  path[1] = root
<1>1. PICK k : path = <<root, k>>
  BY Zenon DEF At
<1> QED BY <1>1

LEMMA OverReads ==
  ASSUME NEW f, NEW g, NEW x
  PROVE  /\ x \in DOMAIN f => x \in DOMAIN Over(f, g) /\ Over(f, g)[x] = f[x]
         /\ x \in DOMAIN g /\ x \notin DOMAIN f => x \in DOMAIN Over(f, g) /\ Over(f, g)[x] = g[x]
BY Zenon DEF Over

\* A value is on the account where the connector puts it, if it puts it anywhere.
HasAt(f, path, v) == path \in DOMAIN f /\ f[path] = v
\* Its key is of a name that Keycloak has an attribute of its own for, or app_metadata one.
Hidden(w, m) ==
  \/ target = "cognito"
  \/ target = "firebase" /\ m.from = "user_metadata"
  \/ target = "keycloak" /\ m.key \in ReservedAttributes
  \/ target = "keycloak" /\ m.from = "user_metadata" /\ m.key \in DOMAIN w.app

LEMMA MetadataSent ==
  ASSUME target \in Targets, NEW w, Ok(Build(target, w)),
         NEW m, m.from \in {"app_metadata", "user_metadata"},
         m.key \in DOMAIN Metadata(w, m.from), ~Hidden(w, m)
  PROVE  HasAt(Build(target, w).account.attributes, Home(m), Metadata(w, m.from)[m.key])
<1> DEFINE b == Build(target, w)
           at == b.account.attributes
           k == m.key
           v == Metadata(w, m.from)[m.key]
<1>1. CASE target = "auth0"
  <2> DEFINE apps == At("app_metadata", w.app)
             users == At("user_metadata", w.user)
  <2>1. b = BuildImportUser(w)
    BY <1>1, Zenon DEF Build
  <2>2. at = Over(apps, users)
    BY <2>1, Auth0Sends DEF Sends
  <2>3. Home(m) = <<m.from, k>>
    BY <1>1 DEF Home
  <2>4. CASE m.from = "app_metadata"
    <3>1. k \in DOMAIN w.app /\ v = w.app[k]
      BY <2>4, Zenon DEF Metadata
    <3>2. <<m.from, k>> \in DOMAIN apps /\ apps[<<m.from, k>>] = v
      BY <2>4, <3>1, AtReads
    <3>3. <<m.from, k>> \in DOMAIN at /\ at[<<m.from, k>>] = v
      <4> HIDE DEF apps, users, at
      <4> QED BY <2>2, <3>2, OverReads
    <3> QED BY <2>3, <3>3, Zenon DEF HasAt
  <2>5. CASE m.from = "user_metadata"
    <3>1. k \in DOMAIN w.user /\ v = w.user[k]
      BY <2>5 DEF Metadata
    <3>2. <<"user_metadata", k>> \notin DOMAIN apps
      <4>1. <<"user_metadata", k>>[1] = "user_metadata"
        OBVIOUS
      <4> QED BY <4>1, AtRoot
    <3>3. <<m.from, k>> \in DOMAIN users /\ users[<<m.from, k>>] = v
      BY <2>5, <3>1, AtReads
    <3>4. <<m.from, k>> \in DOMAIN at /\ at[<<m.from, k>>] = v
      <4> HIDE DEF apps, users, at
      <4> QED BY <2>2, <2>5, <3>2, <3>3, OverReads
    <3> QED BY <2>3, <3>4, Zenon DEF HasAt
  <2> QED BY <2>4, <2>5
<1>2. CASE target = "kratos"
  <2> DEFINE traits == At("traits", BuildTraits(w))
             admin == At("metadata_admin", w.app)
             public == At("metadata_public", w.user)
  <2>1. b = BuildIdentity(w)
    BY <1>2, Zenon DEF Build
  <2>2. at = Over(traits, Over(admin, public))
    BY <2>1, KratosSends DEF Sends
  <2>3. ASSUME NEW root, root # "traits" PROVE <<root, k>> \notin DOMAIN traits
    <3>1. <<root, k>>[1] = root
      OBVIOUS
    <3> QED BY <2>3, <3>1, AtRoot
  <2>4. CASE m.from = "app_metadata"
    <3>1. Home(m) = <<"metadata_admin", k>>
      BY <1>2, <2>4 DEF Home
    <3>2. k \in DOMAIN w.app /\ v = w.app[k]
      BY <2>4, Zenon DEF Metadata
    <3>3. <<"metadata_admin", k>> \notin DOMAIN traits
      BY <2>3
    <3>4. <<"metadata_admin", k>> \in DOMAIN admin /\ admin[<<"metadata_admin", k>>] = v
      BY <3>2, AtReads
    <3>5. <<"metadata_admin", k>> \in DOMAIN at /\ at[<<"metadata_admin", k>>] = v
      <4> HIDE DEF traits, admin, public, at
      <4> DEFINE rest == Over(admin, public)
      <4>1. <<"metadata_admin", k>> \in DOMAIN rest /\ rest[<<"metadata_admin", k>>] = v
        BY <3>4, OverReads
      <4> HIDE DEF rest
      <4> QED BY <2>2, <3>3, <4>1, OverReads DEF rest
    <3> QED BY <3>1, <3>5, Zenon DEF HasAt
  <2>5. CASE m.from = "user_metadata"
    <3>1. Home(m) = <<"metadata_public", k>>
      BY <1>2, <2>5 DEF Home
    <3>2. k \in DOMAIN w.user /\ v = w.user[k]
      BY <2>5 DEF Metadata
    <3>3. <<"metadata_public", k>> \notin DOMAIN traits
      BY <2>3
    <3>4. <<"metadata_public", k>> \notin DOMAIN admin
      <4>1. <<"metadata_public", k>>[1] = "metadata_public"
        OBVIOUS
      <4> QED BY <4>1, AtRoot
    <3>5. <<"metadata_public", k>> \in DOMAIN public /\ public[<<"metadata_public", k>>] = v
      BY <3>2, AtReads
    <3>6. <<"metadata_public", k>> \in DOMAIN at /\ at[<<"metadata_public", k>>] = v
      <4> HIDE DEF traits, admin, public, at
      <4> DEFINE rest == Over(admin, public)
      <4>1. <<"metadata_public", k>> \in DOMAIN rest /\ rest[<<"metadata_public", k>>] = v
        BY <3>4, <3>5, OverReads
      <4> HIDE DEF rest
      <4> QED BY <2>2, <3>3, <4>1, OverReads DEF rest
    <3> QED BY <3>1, <3>6, Zenon DEF HasAt
  <2> QED BY <2>4, <2>5
<1>3. CASE target = "keycloak"
  <2> DEFINE bag == Over(PhoneAttributes(w), Over(w.app, w.user))
  <2>1. b = BuildUser(w)
    BY <1>3, Zenon DEF Build
  <2>2. at = At("attributes", bag)
    BY <2>1, KeycloakSends DEF Sends
  <2>3. Home(m) = <<"attributes", k>>
    BY <1>3 DEF Home
  <2>4. k \notin DOMAIN PhoneAttributes(w)
    <3>1. k # "phoneNumber"
      BY <1>3 DEF Hidden, ReservedAttributes
    <3>2. CASE w.phones = <<>>
      BY <3>2 DEF PhoneAttributes
    <3>3. CASE w.phones # <<>>
      BY <3>1, <3>3 DEF PhoneAttributes
    <3> QED BY <3>2, <3>3
  <2>5. k \in DOMAIN Over(w.app, w.user) /\ Over(w.app, w.user)[k] = v
    <3>1. CASE m.from = "app_metadata"
      <4>1. k \in DOMAIN w.app /\ v = w.app[k]
        BY <3>1, Zenon DEF Metadata
      <4> QED BY <4>1, OverReads
    <3>2. CASE m.from = "user_metadata"
      <4>1. k \in DOMAIN w.user /\ v = w.user[k]
        BY <3>2 DEF Metadata
      <4>2. k \notin DOMAIN w.app
        BY <1>3, <3>2 DEF Hidden
      <4> QED BY <4>1, <4>2, OverReads
    <3> QED BY <3>1, <3>2
  <2>6. k \in DOMAIN bag /\ bag[k] = v
    BY <2>4, <2>5, OverReads
  <2> HIDE DEF bag
  <2> QED BY <2>2, <2>3, <2>6, AtReads DEF HasAt
<1>4. CASE target = "firebase"
  <2>1. b = BuildAccount(w)
    BY <1>4, Zenon DEF Build
  <2>2. at = At("custom_claims", w.app)
    BY <2>1, FirebaseSends DEF Sends
  <2>3. Home(m) = <<"custom_claims", k>>
    BY <1>4 DEF Home
  <2>4. m.from = "app_metadata"
    BY <1>4 DEF Hidden
  <2>5. k \in DOMAIN w.app /\ v = w.app[k]
    BY <2>4, Zenon DEF Metadata
  <2> QED BY <2>2, <2>3, <2>5, AtReads DEF HasAt
<1>5. target # "cognito"
  BY DEF Hidden
<1> QED BY <1>1, <1>2, <1>3, <1>4, <1>5 DEF Targets

-----------------------------------------------------------------------------
(* The metadata that are placed, and those that are not. *)

\* What the import leaves of the user.
LEMMA LeftKeeps ==
  ASSUME NEW u, CMFUser(u)
  PROVE  LET w == Left(Prepared(u)) IN
         /\ w.password = u.password /\ w.factors = u.factors
         /\ w.app = Left(u).app /\ w.user = Left(u).user
<1> DEFINE p == Prepared(u)
           w == Left(p)
<1>1. DOMAIN p = DOMAIN u /\ Keeps(p, u)
  <2>1. CASE options.primary = "none"
    BY <2>1 DEF Prepared, Keeps
  <2>2. CASE options.primary # "none"
    <3>1. PICK kind : p = ApplyPrimary(u, kind)
      BY <2>2, Zenon DEF Prepared
    <3> HIDE DEF p
    <3> QED BY <3>1, UserFields DEF ApplyPrimary, Keeps
  <2> QED BY <2>1, <2>2
<1>2. Taken(p) = Taken(u)
  BY <1>1, Zenon DEF Taken, Has, Metadata, Keeps
<1>3. {"app", "user", "password", "factors"} \subseteq DOMAIN u
  BY UserFields
<1> DEFINE apps == {q.key : q \in {r \in Taken(u) : r.from = "app_metadata"}}
           users == {q.key : q \in {r \in Taken(u) : r.from = "user_metadata"}}
<1>4. w = [p EXCEPT !.app = Without(@, apps), !.user = Without(@, users)]
  BY <1>2, Zenon DEF Left
<1>5. Left(u) = [u EXCEPT !.app = Without(@, apps), !.user = Without(@, users)]
  BY Zenon DEF Left
<1> DEFINE l == Left(u)
<1> HIDE DEF p, w, apps, users, l
<1>6. w.password = p.password /\ w.factors = p.factors /\ w.app = Without(p.app, apps)
      /\ w.user = Without(p.user, users)
  BY <1>1, <1>3, <1>4
<1>7. l.app = Without(u.app, apps) /\ l.user = Without(u.user, users)
  BY <1>3, <1>5 DEF l
<1> QED BY <1>1, <1>6, <1>7 DEF Keeps, p, w, l

LEMMA LeftUnplaced ==
  ASSUME NEW u, CMFUser(u), NEW m, m.from \in {"app_metadata", "user_metadata"}, Has(u, m), Placed(m) = {}
  PROVE  Has(Left(u), m) /\ Metadata(Left(u), m.from)[m.key] = Metadata(u, m.from)[m.key]
<1> DEFINE apps == {q.key : q \in {r \in Taken(u) : r.from = "app_metadata"}}
           users == {q.key : q \in {r \in Taken(u) : r.from = "user_metadata"}}
           l == Left(u)
<1>1. /\ m.from = "app_metadata" => m.key \notin apps
      /\ m.from = "user_metadata" => m.key \notin users
  BY DEF Placed, Taken
<1>2. l = [u EXCEPT !.app = Without(@, apps), !.user = Without(@, users)]
  BY Zenon DEF Left
<1>3. {"app", "user"} \subseteq DOMAIN u
  BY UserFields
<1> HIDE DEF l, apps, users
<1>4. l.app = Without(u.app, apps) /\ l.user = Without(u.user, users)
  BY <1>2, <1>3
<1>5. CASE m.from = "app_metadata"
  BY <1>1, <1>4, <1>5 DEF Has, Metadata, Without, l
<1>6. CASE m.from = "user_metadata"
  BY <1>1, <1>4, <1>6 DEF Has, Metadata, Without, l
<1> QED BY <1>5, <1>6

LEMMA PlacedOrDropped ==
  ASSUME NEW u, NEW m, Has(u, m), Metadata(u, m.from)[m.key] # Empty, Placed(m) # {}
  PROVE  \/ <<m.from, m.key>> \in Dropped(u)
         \/ \E p \in Placed(m) : Field(p.to.root, p.to.key, Metadata(u, m.from)[m.key]) \in Fields(u)
<1>1. PICK p \in options.places : p.from = m.from /\ p.key = m.key
  BY DEF Placed
<1>2. p \in Taken(u) /\ p \in Placed(m)
  BY <1>1, Zenon DEF Taken, Has, Placed
<1>3. CASE p.to = Drop
  BY <1>1, <1>2, <1>3, Zenon DEF Dropped
<1>4. CASE p.to # Drop
  <2>1. p \in {q \in Taken(u) : q.to # Drop /\ Metadata(u, q.from)[q.key] # Empty}
    BY <1>1, <1>2, <1>4, Zenon
  <2>2. Field(p.to.root, p.to.key, Metadata(u, p.from)[p.key]) \in Fields(u)
    BY <2>1, Zenon DEF Fields
  <2> QED BY <1>1, <1>2, <2>2, Zenon
<1> QED BY <1>3, <1>4

\* The value set at a path is that of a field.
LEMMA FieldSet ==
  ASSUME NEW fs, NEW path \in DOMAIN FieldsSet(fs)
  PROVE  \E f \in fs : <<f.root, f.key>> = path /\ f.v = FieldsSet(fs)[path]
<1> DEFINE g == CHOOSE f \in fs : <<f.root, f.key>> = path
<1>1. \E f \in fs : <<f.root, f.key>> = path
  BY Zenon DEF FieldsSet
<1>2. g \in fs /\ <<g.root, g.key>> = path
  BY <1>1, Zenon
<1>3. FieldsSet(fs)[path] = g.v
  BY Zenon DEF FieldsSet
<1> QED BY <1>2, <1>3, Zenon

\* A payload is what the connector built, with the fields set over it.
LEMMA TranslatedKeeps ==
  ASSUME target \in Targets, NEW w, NEW fs, Ok(Translated(w, fs))
  PROVE  LET b == Build(target, w)
             p == Translated(w, fs) IN
         /\ Ok(b) /\ p.flags = b.flags
         /\ p.account.checks = b.account.checks /\ p.account.factors = b.account.factors
         /\ p.account.attributes = Over(FieldsSet(fs), b.account.attributes)
<1> DEFINE b == Build(target, w)
           a == ApplyFields(target, b.account, fs)
           p == Translated(w, fs)
<1>1. Ok(b) /\ Ok(a) /\ p = [b EXCEPT !.account = a]
  BY Zenon DEF Translated
<1>2. DOMAIN b = {"account", "flags"} /\ DOMAIN b.account = DOMAIN Account
  BY <1>1, EachBuilds, Zenon DEF BuildSays
<1>3. /\ a.checks = b.account.checks /\ a.factors = b.account.factors
      /\ a.attributes = Over(FieldsSet(fs), b.account.attributes)
  <2> HIDE DEF b
  <2>1. DOMAIN b.account = DOMAIN Account /\ Ok(a)
    BY <1>1, <1>2
  <2>2. /\ \A k \in DOMAIN Account \ {"attributes", "name"} : a[k] = b.account[k]
        /\ a.attributes = Over(FieldsSet(fs), b.account.attributes)
    BY <2>1, FieldsApplied
  <2> HIDE DEF a
  <2> QED BY <2>2, AccountFields
<1> HIDE DEF a, b, p
<1>4. p.account = a /\ p.flags = b.flags
  BY <1>1, <1>2
<1> QED BY <1>1, <1>3, <1>4 DEF b, p

-----------------------------------------------------------------------------
(* The invariant: the user of the file is still as the record says. *)

KeptInv ==
  /\ InFile => TrueOf(Truth, user)
  /\ phase \in {"verify", "done"} /\ Ok(payload) => fields = Fields(user) /\ dropped = Dropped(user)

LEMMA TruthKept ==
  ASSUME NEW c, NEW u, NEW w, Keeps(w, u), TrueOf(c, u)
  PROVE  TrueOf(c, w)
<1>1. HasPassword(c, w)
  BY Zenon DEF TrueOf, HasPassword, Keeps
<1>2. HasFactors(c, w)
  BY Zenon DEF TrueOf, HasFactors, FactorsOf, Keeps
<1>3. HasMetadata(c, w)
  BY Zenon DEF TrueOf, HasMetadata, Has, Metadata, Keeps
<1> QED BY <1>1, <1>2, <1>3 DEF TrueOf

LEMMA KeptInit == Init => KeptInv
BY DEF Init, KeptInv, InFile

LEMMA KeptNext == CarriedInv /\ KeptInv /\ [Next]_vars => KeptInv'
<1> SUFFICES ASSUME CarriedInv, KeptInv, [Next]_vars
             PROVE  KeptInv'
  OBVIOUS
<1>0. ASSUME UNCHANGED <<case, options, user>>
      PROVE  /\ TrueOf(Truth, user)' = TrueOf(Truth, user)
             /\ Fields(user)' = Fields(user) /\ Dropped(user)' = Dropped(user)
  BY <1>0 DEF TrueOf, Truth, HasPassword, HasFactors, HasMetadata, Fields, Dropped, Taken
<1> USE DEF InFile
<1>1. CASE Export
  <2>1. PICK u \in Exported(CaseOf[case]) : IF Ok(u) THEN Write(u) ELSE Skip(u.error)
    BY <1>1 DEF Export
  <2>2. UNCHANGED case
    BY <1>1 DEF Export
  <2>3. CASE Ok(u)
    <3>1. TrueOf(Truth, u)
      BY <2>3, TruthAssumption DEF CarriedInv, Truth
    <3>2. phase' = "rewrite" /\ user' = u
      BY <2>1, <2>3 DEF Write
    <3>3. TrueOf(Truth, user)'
      BY <2>2, <3>1, <3>2 DEF TrueOf, Truth, HasPassword, HasFactors, HasMetadata
    <3> QED BY <3>2, <3>3 DEF KeptInv
  <2>4. CASE ~Ok(u)
    BY <2>1, <2>4 DEF Skip, KeptInv
  <2> QED BY <2>3, <2>4
<1>2. CASE Rewrite
  <2> DEFINE w == Assign(AnswerApplied(user))
  <2>1. TrueOf(Truth, user) /\ CMFUser(user) /\ UNCHANGED case
    BY <1>2 DEF Rewrite, KeptInv, CarriedInv
  <2>2. TrueOf(Truth, w)
    <3>1. Keeps(w, user)
      BY <2>1, RewrittenIsUser
    <3> HIDE DEF w
    <3> QED BY <2>1, <3>1, TruthKept
  <2>3. \/ phase' = "out"
        \/ phase' = "validate" /\ user' = w
    BY <1>2 DEF Rewrite, Skip
  <2> HIDE DEF w
  <2>4. user' = w => TrueOf(Truth, user)'
    BY <2>1, <2>2 DEF TrueOf, Truth, HasPassword, HasFactors, HasMetadata
  <2> QED BY <2>3, <2>4 DEF KeptInv
<1>3. CASE Validate
  <2>1. UNCHANGED <<case, options, user>> /\ phase = "validate" /\ phase' = "import"
    BY <1>3 DEF Validate
  <2> QED BY <1>0, <2>1 DEF KeptInv
<1>4. CASE Import
  <2>1. UNCHANGED <<case, options, user>> /\ phase = "import" /\ phase' \in {"verify", "done"}
    BY <1>4 DEF Import
  <2>2. Ok(payload') => fields' = Fields(user) /\ dropped' = Dropped(user)
    BY <1>4, Outcomes DEF Import
  <2> QED BY <1>0, <2>1, <2>2 DEF KeptInv, Ok
<1>5. CASE Verify
  <2>1. UNCHANGED <<case, options, user, fields, dropped, payload>> /\ phase = "verify" /\ phase' = "done"
    BY <1>5 DEF Verify
  <2> QED BY <1>0, <2>1 DEF KeptInv, Ok
<1>6. CASE UNCHANGED vars
  <2>1. UNCHANGED <<case, options, phase, user, fields, dropped, payload>>
    BY <1>6 DEF vars
  <2> QED BY <1>0, <2>1 DEF KeptInv, Ok
<1> QED BY <1>1, <1>2, <1>3, <1>4, <1>5, <1>6 DEF Next

\* What a record held is that of the user at every step to its account, and the fields and
\* the drops of the import are those of that user.
THEOREM TruthIsCarried == Spec => []KeptInv
<1>1. Init => KeptInv
  BY KeptInit
<1>2. CarriedInv /\ KeptInv /\ [Next]_vars => KeptInv'
  BY KeptNext
<1> QED BY <1>1, <1>2, UsersAreCarried, PTL DEF Spec

\* Whatever the pair of connectors, the mapping and the hash, what a record held reaches the
\* account, or the import says that it does not.
THEOREM NothingIsLost == Spec => []NothingLostSilently
<1>1. CarriedInv /\ KeptInv => NothingLostSilently
  <2> SUFFICES ASSUME CarriedInv, KeptInv, IsBuilt
               PROVE  PasswordKept /\ FactorsKept /\ MetadataKept
    BY DEF NothingLostSilently
  <2> DEFINE w == Left(Prepared(user))
             b == Build(target, w)
  <2>1. /\ target \in Targets /\ CMFUser(user) /\ Ok(payload)
        /\ payload \in {Refused("metadata.place"), Translated(w, fields)}
    BY DEF CarriedInv, InFile, IsBuilt
  <2>2. TrueOf(Truth, user) /\ fields = Fields(user) /\ dropped = Dropped(user)
    BY DEF KeptInv, InFile, IsBuilt
  <2>3. payload = Translated(w, fields)
    BY <2>1, Outcomes
  <2>4. /\ Ok(b) /\ payload.flags = b.flags
        /\ payload.account.checks = b.account.checks /\ payload.account.factors = b.account.factors
        /\ payload.account.attributes = Over(FieldsSet(fields), b.account.attributes)
    <3> HIDE DEF w
    <3> QED BY <2>1, <2>3, TranslatedKeeps, Zenon
  <2>5. /\ w.password = user.password /\ w.factors = user.factors
        /\ w.app = Left(user).app /\ w.user = Left(user).user
    BY <2>1, LeftKeeps
  <2> HIDE DEF w
  <2>6. PasswordKept
    <3> SUFFICES ASSUME NEW c \in Truth.checks, "password reset" \notin payload.flags
                 PROVE  \E d \in payload.account.checks : (SameCheck(c, d) \/ Guessed(c, d))
      BY Zenon DEF PasswordKept
    <3>1. PICK p \in user.password : Derivable(c) /\ (p.portable => c = Verifies(p))
      BY <2>2, Zenon DEF TrueOf, HasPassword, SameCheck
    <3>2. p \in w.password /\ (p.portable => Derivable(Verifies(p)))
      BY <2>5, <3>1
    <3>3. p.portable /\ \E d \in b.account.checks : d = Verifies(p) \/ Guessed(Verifies(p), d)
      BY <2>1, <2>4, <3>2, PasswordSent, Zenon
    <3> QED BY <2>4, <3>1, <3>3, Zenon DEF SameCheck
  <2>7. FactorsKept
    <3> SUFFICES ASSUME NEW e \in Truth.factors
                 PROVE  \/ "re-enrollment" \in payload.flags
                        \/ e.type = "recovery_codes" /\ "recovery codes" \in payload.flags
                        \/ \E g \in payload.account.factors :
                             /\ g.type = e.type /\ g.of = e.of
                             /\ e.type = "totp" /\ target \notin {"auth0", "kratos"} => g.params = e.params
                        \/ target = "kratos" /\ (\E g \in Truth.factors : g # e /\ g.type = e.type)
      BY Zenon DEF FactorsKept
    <3>1. Truth.factors = {Held(f) : f \in FactorsOf(user)} /\ FactorsOf(user) = FactorsOf(w)
      BY <2>2, <2>5, Zenon DEF TrueOf, HasFactors, FactorsOf
    <3>2. PICK f \in FactorsOf(w) : e = Held(f)
      BY <3>1
    <3>3. \A g : Held(g).type = g.type /\ Held(g).of = g.of
      BY DEF Held
    <3>4. f.type \in MFATypes /\ Len(w.factors) \in Nat /\ DOMAIN w.factors = 1..Len(w.factors)
      BY <2>1, <2>5, <3>1, Zenon DEF CMFUser
    <3>5. Enrolled(w, f, b)
      BY <2>1, <2>4, <3>4, FactorSent, Zenon
    <3> QED BY <2>4, <3>1, <3>2, <3>3, <3>5, Zenon DEF Enrolled
  <2>8. MetadataKept
    <3> SUFFICES ASSUME NEW m \in Truth.metadata, <<m.from, m.key>> \notin dropped,
                        ~(Placed(m) = {} /\ Untaken(m))
                 PROVE  \E path \in Spots(m) : Holds(path, m.v)
      BY Zenon DEF MetadataKept
    <3>1. /\ m.from \in {"app_metadata", "user_metadata"} /\ m.v # Empty
          /\ Has(user, m) /\ Metadata(user, m.from)[m.key] = m.v
      BY <2>2, Zenon DEF TrueOf, HasMetadata
    <3> DEFINE set == FieldsSet(fields)
    <3>2. ASSUME NEW path \in DOMAIN set PROVE Holds(path, m.v)
      <4>1. path \in DOMAIN payload.account.attributes /\ payload.account.attributes[path] = set[path]
        BY <2>4, OverReads
      <4>2. \E f \in fields : <<f.root, f.key>> = path /\ f.v = set[path]
        BY FieldSet
      <4> QED BY <4>1, <4>2, Zenon DEF Holds
    <3>3. CASE Placed(m) # {}
      <4>1. PICK p \in Placed(m) : Field(p.to.root, p.to.key, m.v) \in fields
        BY <2>2, <3>1, <3>3, PlacedOrDropped, Zenon
      <4>2. <<p.to.root, p.to.key>> \in DOMAIN set
        BY <4>1 DEF FieldsSet, Field
      <4>3. <<p.to.root, p.to.key>> \in Spots(m)
        BY <3>3, <4>1, Zenon DEF Spots
      <4> QED BY <3>2, <4>2, <4>3
    <3>4. CASE Placed(m) = {}
      <4>1. m.key \in DOMAIN Metadata(w, m.from) /\ Metadata(w, m.from)[m.key] = m.v
        <5>1. Has(Left(user), m) /\ Metadata(Left(user), m.from)[m.key] = m.v
          BY <2>1, <3>1, <3>4, LeftUnplaced
        <5>2. Metadata(Left(user), m.from) = Metadata(w, m.from)
          BY <2>5, Zenon DEF Metadata
        <5> QED BY <5>1, <5>2, Zenon DEF Has
      <4>2. ~Hidden(w, m)
        BY <2>5, <3>4, Zenon DEF Hidden, Untaken
      <4>3. HasAt(b.account.attributes, Home(m), m.v)
        <5>1. HasAt(b.account.attributes, Home(m), Metadata(w, m.from)[m.key])
          BY <2>1, <2>4, <3>1, <4>1, <4>2, MetadataSent
        <5> QED BY <4>1, <5>1, Zenon
      <4>4. Holds(Home(m), m.v)
        <5>1. CASE Home(m) \in DOMAIN set
          BY <3>2, <5>1
        <5>2. CASE Home(m) \notin DOMAIN set
          <6> HIDE DEF b, set
          <6>1. Home(m) \in DOMAIN payload.account.attributes /\ payload.account.attributes[Home(m)] = m.v
            BY <2>4, <4>3, <5>2, OverReads DEF HasAt, set
          <6> QED BY <6>1, Zenon DEF Holds
        <5> QED BY <5>1, <5>2
      <4>5. Home(m) \in Spots(m)
        BY <3>4, Zenon DEF Spots
      <4> QED BY <4>4, <4>5
    <3> QED BY <3>3, <3>4
  <2> QED BY <2>6, <2>7, <2>8
<1> QED BY <1>1, UsersAreCarried, TruthIsCarried, PTL

-----------------------------------------------------------------------------
(* What the translations come to, from the hash of a source to that of a target. *)

\* A translator that takes a password sends what the password verifies with, whatever the
\* algorithm and its encodings (pkg/hash), but for what Auth0 is not told of a password.
THEOREM TranslationsAgree ==
  ASSUME NEW p, Derivable(Verifies(p))
  PROVE  /\ target = "auth0" /\ Ok(ToAuth0(p)) => ToAuth0(p) = Verifies(p) \/ Guessed(Verifies(p), ToAuth0(p))
         /\ Ok(ToKratosHashedPassword(p)) => ToKratosHashedPassword(p) = Verifies(p)
         /\ Ok(ToKeycloakCredential(p)) => ToKeycloakCredential(p) = Verifies(p)
         /\ Ok(ToFirebaseHash(p)) => ToFirebaseHash(p) = Verifies(p)
BY Auth0Verifies, KratosVerifies, KeycloakVerifies, FirebaseVerifies

LEMMA PasswordFields ==
  ASSUME NEW alg, NEW hash
  PROVE  LET p == Password(alg, hash) IN
         /\ DOMAIN p = {"alg", "hash", "digest", "phc", "salt", "pos", "key", "params", "portable"}
         /\ p.alg = alg /\ p.hash = hash /\ p.salt = NoValue /\ p.pos = Empty /\ p.params = NoParams
         /\ p.digest = Empty /\ p.key = NoValue /\ p.portable
BY DEF Password

LEMMA WrittenInBase64 ==
  ASSUME NEW bytes
  PROVE  /\ DecodeBinary(B64(bytes)) = bytes /\ DecodeBytes(B64(bytes)) = bytes
         /\ DecodeBinary(B64Raw(bytes)) = bytes /\ DecodeBytes(B64Raw(bytes)) = bytes
         /\ B64(bytes) # NoValue /\ B64Raw(bytes) # NoValue
         /\ Value(B64Raw(bytes).text, "base64") = B64Raw(bytes)
<1> DEFINE b == B64(bytes)
           r == B64Raw(bytes)
<1>1. /\ b.text.as = "base64" /\ b.text.bytes = bytes /\ b.enc = "base64"
      /\ r.text.as = "raw64" /\ r.text.bytes = bytes /\ r.enc = "base64"
      /\ r = Value(r.text, "base64")
  BY DEF B64, B64Raw, Value, Text
<1>2. NoValue.text.as = "none"
  BY DEF NoValue, Value, Text
<1> HIDE DEF b, r
<1>3. "base64" \in Base64 /\ "raw64" \in Base64 /\ "hex" \notin Base64
  BY DEF Base64
<1>4. DecodeBinary(b) = bytes /\ DecodeBinary(r) = bytes
  BY <1>1, <1>3, Zenon DEF DecodeBinary
<1>5. DecodeBytes(b) = bytes /\ DecodeBytes(r) = bytes
  BY <1>1, <1>4, Zenon DEF DecodeBytes
<1>6. b # NoValue /\ r # NoValue
  BY <1>1, <1>2
<1> QED BY <1>1, <1>4, <1>5, <1>6 DEF b, r

\* What a Keycloak password verifies with: its salt, its key and the parameters a file of
\* kc.sh export has of it.
KeycloakCheck(c) ==
  /\ c = Check(c.kdf, c.key, c.salt, Empty, c.params)
  /\ c.kdf = "pbkdf2" => /\ c.params.iterations # 0
                         /\ c.params = [digest |-> c.params.digest, iterations |-> c.params.iterations,
                                        keylen |-> c.key.n]

LEMMA KeycloakPBKDF2Read ==
  ASSUME NEW c, KeycloakCheck(c), c.kdf = "pbkdf2"
  PROVE  Verifies(NormalizeKeycloakCredential(c)) = c
<1> DEFINE phc == PHC("pbkdf2", [digest |-> c.params.digest, iterations |-> c.params.iterations],
                      B64Raw(c.salt).text, B64Raw(c.key).text)
           n == Normalize(phc, NoHint)
           params == [digest |-> c.params.digest, iterations |-> c.params.iterations, keylen |-> c.key.n]
           p == [n EXCEPT !.params = params]
<1>1. NormalizeKeycloakCredential(c) = p
  BY Zenon DEF NormalizeKeycloakCredential
<1>2. /\ phc.as = "pbkdf2" /\ phc.salt = B64Raw(c.salt).text /\ phc.key = B64Raw(c.key).text
      /\ phc.params.digest = c.params.digest
  BY DEF PHC
<1>3. n = [Password("pbkdf2", B64Raw(c.key)) EXCEPT
             !.digest = phc.params.digest, !.salt = B64Raw(c.salt), !.pos = "prefix", !.params = phc.params]
  BY <1>2, WrittenInBase64, Zenon DEF Normalize
<1> HIDE DEF phc, n
<1>4. /\ DOMAIN n = {"alg", "hash", "digest", "phc", "salt", "pos", "key", "params", "portable"}
      /\ n.alg = "pbkdf2" /\ n.hash = B64Raw(c.key) /\ n.salt = B64Raw(c.salt)
  BY <1>3, PasswordFields
<1> HIDE DEF params, p
<1>5. p.alg = "pbkdf2" /\ p.hash = B64Raw(c.key) /\ p.salt = B64Raw(c.salt) /\ p.params = params
  BY <1>4 DEF p
<1>6. DecodeBytes(p.hash) = c.key /\ SaltPayload(p) = c.salt
  BY <1>5, WrittenInBase64 DEF SaltPayload
<1>7. /\ Param(p, "iterations") = c.params.iterations /\ Param(p, "keylen") = c.key.n
      /\ Name(p, "digest") = c.params.digest
  BY <1>5 DEF Param, Name, params
<1>8. KeycloakPBKDF2Digest(p) = c.params.digest
  <2>1. p.digest = c.params.digest
    <3>1. n.digest = c.params.digest
      BY <1>2, <1>3, PasswordFields
    <3> QED BY <1>4, <3>1 DEF p
  <2> QED BY <1>7, <2>1, Zenon DEF KeycloakPBKDF2Digest
<1>9. Keylen(p) = c.key.n
  BY <1>6, <1>7, Zenon DEF Keylen
<1>10. Verifies(p) = Check("pbkdf2", c.key, c.salt, Empty, params)
  <2>1. p.alg \notin RawDigests
    BY <1>5, NotRaw, Zenon
  <2>2. Verifies(p) = Check("pbkdf2", DecodeBytes(p.hash), SaltPayload(p), Empty,
                            [digest |-> KeycloakPBKDF2Digest(p), iterations |-> Param(p, "iterations"),
                             keylen |-> Keylen(p)])
    BY <1>5, <2>1, Zenon DEF Verifies
  <2> QED BY <1>6, <1>7, <1>8, <1>9, <2>2, Zenon DEF params
<1> QED BY <1>1, <1>10, Zenon DEF KeycloakCheck, params

LEMMA ArgonRead ==
  ASSUME NEW raw, raw.as = "argon2", NEW hint
  PROVE  Normalize(raw, hint).alg = "argon2" /\ Verifies(Normalize(raw, hint)) = ArgonCheck(raw)
<1> DEFINE p == Normalize(raw, hint)
<1>1. p = [Password("argon2", Value(raw.key, "base64")) EXCEPT
             !.phc = raw, !.salt = Value(raw.salt, "base64"), !.pos = "prefix", !.params = raw.params]
  BY Zenon DEF Normalize
<1> HIDE DEF p
<1>2. p.alg = "argon2" /\ p.phc = raw
  BY <1>1, PasswordFields
<1> QED BY <1>2, ArgonVerifies DEF p

\* A password of a Keycloak export is one that verifies with what Keycloak's did.
LEMMA KeycloakRead ==
  ASSUME NEW c, KeycloakCheck(c), Ok(NormalizeKeycloakCredential(c))
  PROVE  Verifies(NormalizeKeycloakCredential(c)) = c /\ Derivable(c)
<1>1. c.kdf \in {"pbkdf2", "argon2"}
  <2>1. CASE c.kdf \notin {"pbkdf2", "argon2"}
    BY <2>1, Outcomes, Zenon DEF NormalizeKeycloakCredential
  <2> QED BY <2>1
<1>2. Derivable(c)
  <2>1. c.kdf = "pbkdf2" => c.params.keylen = c.key.n /\ c.params.iterations # 0
    <3> SUFFICES ASSUME c.kdf = "pbkdf2" PROVE c.params.keylen = c.key.n /\ c.params.iterations # 0
      OBVIOUS
    <3>1. PICK d, i : c.params = [digest |-> d, iterations |-> i, keylen |-> c.key.n] /\ c.params.iterations # 0
      BY Zenon DEF KeycloakCheck
    <3> QED BY <3>1
  <2> QED BY <1>1, <2>1 DEF Derivable
<1>3. CASE c.kdf = "argon2"
  <2> DEFINE raw == PHC("argon2", c.params, B64Raw(c.salt).text, B64Raw(c.key).text)
  <2>1. c.params.version \in KeycloakVersions
    BY <1>3, Outcomes, Zenon DEF NormalizeKeycloakCredential
  <2>2. NormalizeKeycloakCredential(c) = Normalize(raw, NoHint)
    BY <1>3, <2>1, Zenon DEF NormalizeKeycloakCredential
  <2>3. /\ raw.as = "argon2" /\ raw.params = c.params
        /\ raw.salt = B64Raw(c.salt).text /\ raw.key = B64Raw(c.key).text
    BY DEF PHC
  <2> HIDE DEF raw
  <2>4. Verifies(Normalize(raw, NoHint)) = ArgonCheck(raw)
    BY <2>3, ArgonRead
  <2>5. ArgonCheck(raw) = Check("argon2", c.key, c.salt, Empty, c.params)
    BY <2>3, WrittenInBase64 DEF ArgonCheck
  <2> QED BY <1>2, <1>3, <2>2, <2>4, <2>5, Zenon DEF KeycloakCheck
<1> QED BY <1>1, <1>2, <1>3, KeycloakPBKDF2Read

\* And so does one of a Firebase export, with the project's configuration.
LEMMA FirebaseRead ==
  ASSUME NEW hash, NEW salt, NEW cfg, Ok(NormalizeFirebaseScrypt(hash, salt, cfg)),
         cfg = [signer |-> cfg.signer, rounds |-> cfg.rounds, memCost |-> cfg.memCost,
                separator |-> cfg.separator]
  PROVE  LET c == Check("firebase", hash, salt, Empty, cfg) IN
         Verifies(NormalizeFirebaseScrypt(hash, salt, cfg)) = c /\ Derivable(c)
<1> DEFINE p == NormalizeFirebaseScrypt(hash, salt, cfg)
           params == [variant |-> "firebase", salt_separator |-> cfg.separator,
                      rounds |-> cfg.rounds, mem_cost |-> cfg.memCost]
           c == Check("firebase", hash, salt, Empty, cfg)
<1>1. p = [Password("scrypt", B64Raw(hash)) EXCEPT
             !.salt = B64Raw(salt), !.key = B64(cfg.signer), !.params = params]
  <2>1. CASE ~ValidConfig(cfg)
    BY <2>1, Outcomes, Zenon DEF NormalizeFirebaseScrypt
  <2>2. CASE ValidConfig(cfg) /\ hash \in {NoBytes, Undecodable}
    BY <2>2, Outcomes, Zenon DEF NormalizeFirebaseScrypt
  <2>3. CASE ValidConfig(cfg) /\ hash \notin {NoBytes, Undecodable} /\ salt \in {NoBytes, Undecodable}
    BY <2>3, Outcomes, Zenon DEF NormalizeFirebaseScrypt
  <2>4. CASE ValidConfig(cfg) /\ hash \notin {NoBytes, Undecodable} /\ salt \notin {NoBytes, Undecodable}
    BY <2>4, Zenon DEF NormalizeFirebaseScrypt
  <2> QED BY <2>1, <2>2, <2>3, <2>4
<1> HIDE DEF p, params
<1>2. p.alg = "scrypt" /\ p.hash = B64Raw(hash) /\ p.salt = B64Raw(salt) /\ p.key = B64(cfg.signer)
      /\ p.params = params
  BY <1>1, PasswordFields
<1>3. /\ Name(p, "variant") = "firebase" /\ Param(p, "rounds") = cfg.rounds
      /\ Param(p, "mem_cost") = cfg.memCost
      /\ "salt_separator" \in DOMAIN p.params /\ p.params.salt_separator = cfg.separator
  BY <1>2 DEF Param, Name, params
<1>4. DecodeBytes(p.hash) = hash /\ SaltPayload(p) = salt /\ DecodeBytes(p.key) = cfg.signer
  BY <1>2, WrittenInBase64 DEF SaltPayload
<1>5. Project(p) = cfg
  BY <1>3, <1>4, Zenon DEF Project
<1>6. Verifies(p) = Check("firebase", DecodeBytes(p.hash), SaltPayload(p), Empty, Project(p))
  <2>1. p.alg \notin RawDigests
    BY <1>2, NotRaw, Zenon
  <2> QED BY <1>2, <1>3, <2>1, Zenon DEF Verifies
<1>7. Derivable(c)
  BY DEF Derivable, Check
<1> QED BY <1>4, <1>5, <1>6, <1>7, Zenon DEF p

\* What a hash verifies with as its source has it: a text that says so itself, or a digest of
\* which the hint says the rest.
PHCBytes(text) == DecodeBytes(Value(text, "base64"))
DigestBytes(raw, enc) == DecodeBytes(Value(raw, IF enc = Empty THEN raw.as ELSE enc))
HintedPosition(hint) ==
  IF hint.salt = NoBytes THEN Empty ELSE IF hint.pos = Empty THEN "suffix" ELSE hint.pos
PHCShapes == {"bcrypt", "argon2", "scrypt", "pbkdf2", "ldap"}
HashCheck(raw, hint) ==
  CASE raw.as = "bcrypt" -> BcryptCheck(raw)
    [] raw.as = "argon2" -> ArgonCheck(raw)
    [] raw.as = "ldap" -> Check("ldap", raw.bytes, NoBytes, Empty, NoParams)
    [] raw.as = "pbkdf2" ->
         Check("pbkdf2", PHCBytes(raw.key), PHCBytes(raw.salt), Empty,
               [digest |-> raw.params.digest, iterations |-> raw.params.iterations,
                keylen |-> PHCBytes(raw.key).n])
    [] raw.as = "scrypt" ->
         Check("scrypt", PHCBytes(raw.key), PHCBytes(raw.salt), Empty,
               [cost |-> 2 ^ raw.params.ln, keylen |-> PHCBytes(raw.key).n,
                blockSize |-> raw.params.r, parallelization |-> raw.params.p])
    [] raw.as \notin PHCShapes ->
         Check(hint.alg, DigestBytes(raw, hint.enc), hint.salt, HintedPosition(hint),
               IF hint.alg = "hmac" THEN [digest |-> hint.digest, secret |-> hint.key] ELSE NoParams)
\* A PHC string has its function's parameters.
Written(raw) ==
  /\ raw.as = "pbkdf2" =>
       /\ raw.params = [digest |-> raw.params.digest, iterations |-> raw.params.iterations]
       /\ raw.params.iterations # 0
  /\ raw.as = "scrypt" => 0 \notin {raw.params.r, raw.params.p}

LEMMA PBKDF2Read ==
  ASSUME NEW raw, NEW hint, raw.as = "pbkdf2", Written(raw)
  PROVE  /\ Verifies(Normalize(raw, hint)) = HashCheck(raw, hint)
         /\ Derivable(HashCheck(raw, hint))
<1> DEFINE p == Normalize(raw, hint)
           hash == Value(raw.key, "base64")
           salt == Value(raw.salt, "base64")
           c == HashCheck(raw, hint)
           params == [digest |-> raw.params.digest, iterations |-> raw.params.iterations,
                      keylen |-> PHCBytes(raw.key).n]
<1>1. p = [Password("pbkdf2", hash) EXCEPT
             !.digest = raw.params.digest, !.salt = salt, !.pos = "prefix", !.params = raw.params]
  BY Zenon DEF Normalize
<1>2. salt # NoValue /\ DecodeBytes(hash) = PHCBytes(raw.key) /\ DecodeBytes(salt) = PHCBytes(raw.salt)
  BY DEF Value, NoValue, PHCBytes
<1>3. c = Check("pbkdf2", PHCBytes(raw.key), PHCBytes(raw.salt), Empty, params)
  <2>1. raw.as \in PHCShapes
    BY DEF PHCShapes
  <2> QED BY <2>1, Zenon DEF HashCheck
<1> HIDE DEF p, hash, salt
<1>4. /\ p.alg = "pbkdf2" /\ p.hash = hash /\ p.salt = salt /\ p.params = raw.params
      /\ p.digest = raw.params.digest
  BY <1>1, PasswordFields
<1>5. /\ DOMAIN p.params = {"digest", "iterations"}
      /\ p.params.digest = raw.params.digest /\ p.params.iterations = raw.params.iterations
  BY <1>4 DEF Written
<1>6. /\ Param(p, "keylen") = 0 /\ Param(p, "iterations") = raw.params.iterations
      /\ Name(p, "digest") = raw.params.digest
  BY <1>5 DEF Param, Name
<1>7. KeycloakPBKDF2Digest(p) = raw.params.digest
  BY <1>4, <1>6, Zenon DEF KeycloakPBKDF2Digest
<1>8. Keylen(p) = PHCBytes(raw.key).n /\ DecodeBytes(p.hash) = PHCBytes(raw.key)
  BY <1>2, <1>4, <1>6, Zenon DEF Keylen
<1>9. SaltPayload(p) = PHCBytes(raw.salt)
  BY <1>2, <1>4, Zenon DEF SaltPayload
<1>10. Verifies(p) = Check("pbkdf2", PHCBytes(raw.key), PHCBytes(raw.salt), Empty, params)
  <2>1. p.alg \notin RawDigests
    BY <1>4, NotRaw, Zenon
  <2> QED BY <1>4, <1>6, <1>7, <1>8, <1>9, <2>1, Zenon DEF Verifies
<1>11. Derivable(c)
  <2>1. c.kdf = "pbkdf2" /\ c.params = params /\ c.key = PHCBytes(raw.key)
    BY <1>3 DEF Check
  <2> QED BY <2>1 DEF Derivable, Written
<1> QED BY <1>3, <1>10, <1>11 DEF p

LEMMA ScryptRead ==
  ASSUME NEW raw, NEW hint, raw.as = "scrypt", Written(raw)
  PROVE  /\ Verifies(Normalize(raw, hint)) = HashCheck(raw, hint)
         /\ Derivable(HashCheck(raw, hint))
<1> DEFINE p == Normalize(raw, hint)
           hash == Value(raw.key, "base64")
           salt == Value(raw.salt, "base64")
           c == HashCheck(raw, hint)
           cost == 2 ^ raw.params.ln
           given == [cost |-> cost, blockSize |-> raw.params.r, parallelization |-> raw.params.p]
           params == [cost |-> cost, keylen |-> PHCBytes(raw.key).n,
                      blockSize |-> raw.params.r, parallelization |-> raw.params.p]
<1>1. p = [Password("scrypt", hash) EXCEPT !.salt = salt, !.pos = "prefix", !.params = given]
  BY Zenon DEF Normalize
<1>2. salt # NoValue /\ DecodeBytes(hash) = PHCBytes(raw.key) /\ DecodeBytes(salt) = PHCBytes(raw.salt)
  BY DEF Value, NoValue, PHCBytes
<1>3. c = Check("scrypt", PHCBytes(raw.key), PHCBytes(raw.salt), Empty, params)
  <2>1. raw.as \in PHCShapes
    BY DEF PHCShapes
  <2> QED BY <2>1, Zenon DEF HashCheck
<1> HIDE DEF p, hash, salt, cost
<1>4. p.alg = "scrypt" /\ p.hash = hash /\ p.salt = salt /\ p.params = given
  BY <1>1, PasswordFields
<1>5. /\ Param(p, "keylen") = 0 /\ Param(p, "cost") = cost /\ Param(p, "blockSize") = raw.params.r
      /\ Param(p, "parallelization") = raw.params.p /\ Name(p, "variant") = Empty
  BY <1>4 DEF Param, Name
<1>6. Name(p, "variant") # "firebase"
  BY <1>5 DEF Empty
<1>7. Keylen(p) = PHCBytes(raw.key).n /\ DecodeBytes(p.hash) = PHCBytes(raw.key)
  BY <1>2, <1>4, <1>5, Zenon DEF Keylen
<1>8. SaltPayload(p) = PHCBytes(raw.salt)
  BY <1>2, <1>4, Zenon DEF SaltPayload
<1>9. Verifies(p) = Check("scrypt", PHCBytes(raw.key), PHCBytes(raw.salt), Empty, params)
  <2>1. p.alg \notin RawDigests
    BY <1>4, NotRaw, Zenon
  <2> QED BY <1>4, <1>5, <1>6, <1>7, <1>8, <2>1, Zenon DEF Verifies
<1>10. Derivable(c)
  <2>1. c.kdf = "scrypt" /\ c.params = params /\ c.key = PHCBytes(raw.key)
    BY <1>3 DEF Check
  <2>2. params.keylen = PHCBytes(raw.key).n /\ params.blockSize = raw.params.r
        /\ params.parallelization = raw.params.p
    OBVIOUS
  <2> QED BY <2>1, <2>2 DEF Derivable, Written
<1> QED BY <1>3, <1>9, <1>10 DEF p

\* A digest is put in a form that stands for the same bytes.
LEMMA EncodingDetected ==
  ASSUME NEW raw, NEW given, Ok(DetectDigestEncoding(raw, given))
  PROVE  DecodeBytes(DetectDigestEncoding(raw, given)) = DigestBytes(raw, given)
<1> DEFINE v == DetectDigestEncoding(raw, given)
<1>1. CASE given \in {"hex", "base64"}
  <2> DEFINE b == DecodeBinary(Value(raw, given))
             w == Value(Text(given, b), given)
  <2>1. b # Undecodable /\ v = w
    <3>1. given # Empty
      BY <1>1 DEF Empty
    <3>2. v = IF b = Undecodable THEN Refused("encoding") ELSE w
      BY <1>1, <3>1, Zenon DEF DetectDigestEncoding
    <3> QED BY <3>2, Outcomes, Zenon
  <2>2. DigestBytes(raw, given) = b
    <3>1. given # Empty /\ Value(raw, given).enc # "utf8"
      BY <1>1 DEF Empty, Value
    <3> QED BY <3>1, Zenon DEF DigestBytes, DecodeBytes
  <2>3. w.enc = given /\ w.text.as = given /\ w.text.bytes = b
    BY DEF Value, Text
  <2> HIDE DEF b, w
  <2>4. DecodeBinary(w) = b
    <3>1. CASE given = "hex"
      BY <2>3, <3>1 DEF DecodeBinary, Base64
    <3>2. CASE given = "base64"
      BY <2>3, <3>2 DEF DecodeBinary, Base64
    <3> QED BY <1>1, <3>1, <3>2
  <2>5. w.enc # "utf8"
    BY <1>1, <2>3
  <2> QED BY <2>1, <2>2, <2>4, <2>5, Zenon DEF DecodeBytes
<1>2. CASE given = Empty
  <2>1. given \notin {"hex", "base64"}
    BY <1>2 DEF Empty
  <2>2. CASE raw.as = "hex"
    BY <1>2, <2>1, <2>2, Zenon DEF DetectDigestEncoding, DigestBytes
  <2>3. CASE raw.as = "base64"
    BY <1>2, <2>1, <2>3, Zenon DEF DetectDigestEncoding, DigestBytes
  <2>4. CASE raw.as \notin {"hex", "base64"}
    BY <1>2, <2>1, <2>4, Outcomes, Zenon DEF DetectDigestEncoding
  <2> QED BY <2>2, <2>3, <2>4
<1>3. CASE given \notin {Empty, "hex", "base64"}
  BY <1>3, Outcomes, Zenon DEF DetectDigestEncoding
<1> QED BY <1>1, <1>2, <1>3

LEMMA DigestRead ==
  ASSUME NEW raw, NEW hint, raw.as \notin PHCShapes, Ok(Normalize(raw, hint))
  PROVE  /\ Verifies(Normalize(raw, hint)) = HashCheck(raw, hint)
         /\ Derivable(HashCheck(raw, hint))
<1> DEFINE p == Normalize(raw, hint)
           v == DetectDigestEncoding(raw, hint.enc)
           c == HashCheck(raw, hint)
           hmac == hint.alg = "hmac"
           pos == HintedPosition(hint)
           digest == IF hmac THEN hint.digest ELSE Empty
           key == IF hmac THEN B64(hint.key) ELSE NoValue
           salt == IF hint.salt = NoBytes THEN NoValue ELSE B64(hint.salt)
           params == IF hmac THEN [digest |-> hint.digest, secret |-> hint.key] ELSE NoParams
<1>0. raw.as \notin {"bcrypt", "argon2", "scrypt", "pbkdf2", "ldap"}
  BY DEF PHCShapes
<1>1. hint.alg # Empty /\ p = NormalizeRawDigest(raw, hint)
  BY <1>0, Outcomes, Zenon DEF Normalize
<1>2. hint.alg \in RawDigests \cup {"hmac"} /\ Ok(v)
      /\ p = [Password(hint.alg, v) EXCEPT !.digest = digest, !.key = key, !.salt = salt, !.pos = pos]
  <2> DEFINE wrongSize == hint.alg \in RawDigests /\ DecodeBinary(v).n # DigestSize(hint.alg)
             keyless == hint.alg = "hmac" /\ (hint.key = NoBytes \/ hint.digest = Empty)
  <2>1. CASE hint.alg \notin RawDigests \cup {"hmac"} \/ ~Ok(v) \/ wrongSize \/ keyless
    <3>1. (p = v /\ ~Ok(v)) \/ \E why : p = Refused(why)
      BY <1>1, <2>1, Zenon DEF NormalizeRawDigest
    <3> HIDE DEF p, v
    <3>2. Ok(p)
      BY DEF p
    <3>3. p # v \/ Ok(v)
      BY <3>2
    <3>4. PICK why : p = Refused(why)
      BY <3>1, <3>3, Zenon
    <3>5. ~Ok(p)
      BY <3>4, Outcomes
    <3> QED BY <3>2, <3>5
  <2>2. CASE ~(hint.alg \notin RawDigests \cup {"hmac"} \/ ~Ok(v) \/ wrongSize \/ keyless)
    BY <1>1, <2>2, Zenon DEF NormalizeRawDigest, HintedPosition
  <2> QED BY <2>1, <2>2
<1>3. c = Check(hint.alg, DigestBytes(raw, hint.enc), hint.salt, pos, params)
  BY <1>0, Zenon DEF HashCheck, PHCShapes
<1> HIDE DEF p, v, digest, key, salt, pos
<1>4. /\ p.alg = hint.alg /\ p.hash = v /\ p.digest = digest /\ p.key = key /\ p.salt = salt /\ p.pos = pos
  BY <1>2, PasswordFields
<1>5. DecodeBytes(p.hash) = DigestBytes(raw, hint.enc)
  BY <1>2, <1>4, EncodingDetected DEF v
<1>6. SaltPayload(p) = hint.salt
  BY <1>4, WrittenInBase64, Zenon DEF SaltPayload, salt
<1>7. SaltPosition(p) = pos
  <2>1. CASE hint.salt = NoBytes
    BY <1>4, <2>1, Zenon DEF SaltPosition, salt
  <2>2. CASE hint.salt # NoBytes
    <3>1. pos # Empty
      BY <2>2 DEF pos, HintedPosition, Empty
    <3> QED BY <1>4, <3>1, Zenon DEF SaltPosition
  <2> QED BY <2>1, <2>2
<1>8. Verifies(p) = c
  <2>1. CASE hmac
    <3>1. p.alg = "hmac" /\ p.alg \notin RawDigests /\ params = [digest |-> p.digest, secret |-> DecodeBytes(p.key)]
      BY <1>4, <2>1, NotRaw, WrittenInBase64, Zenon DEF digest, key
    <3> QED BY <1>3, <1>4, <1>5, <1>6, <1>7, <3>1, Zenon DEF Verifies
  <2>2. CASE ~hmac
    <3>1. p.alg \in RawDigests /\ params = NoParams
      BY <1>2, <1>4, <2>2
    <3>2. p.alg \notin {"bcrypt", "argon2", "ldap", "scrypt", "pbkdf2", "hmac"}
      BY <3>1, NotRaw, Zenon
    <3> QED BY <1>3, <1>4, <1>5, <1>6, <1>7, <3>1, <3>2, Zenon DEF Verifies
  <2> QED BY <2>1, <2>2
<1>9. Derivable(c)
  <2>1. c.kdf = hint.alg
    BY <1>3 DEF Check
  <2>2. hint.alg \notin {"pbkdf2", "scrypt"}
    BY <1>2 DEF RawDigests
  <2> QED BY <2>1, <2>2 DEF Derivable
<1> QED BY <1>8, <1>9 DEF p

LEMMA HashRead ==
  ASSUME NEW raw, NEW hint, Written(raw), Ok(Normalize(raw, hint))
  PROVE  /\ Verifies(Normalize(raw, hint)) = HashCheck(raw, hint)
         /\ Derivable(HashCheck(raw, hint))
<1> DEFINE p == Normalize(raw, hint)
           c == HashCheck(raw, hint)
           bare(alg) == Password(alg, Value(raw, "utf8"))
<1>0. \A alg : bare(alg).alg = alg /\ bare(alg).hash.text = raw
  BY PasswordFields DEF Value
<1>1. CASE raw.as = "bcrypt"
  <2>1. p = bare("bcrypt")
    BY <1>1, Zenon DEF Normalize
  <2>2. p.alg = "bcrypt" /\ p.hash.text = raw
    BY <1>0, <2>1
  <2>3. p.alg \notin RawDigests
    BY <2>2, NotRaw, Zenon
  <2>4. c = BcryptCheck(raw)
    BY <1>1, Zenon DEF HashCheck, PHCShapes
  <2>5. Derivable(c)
    BY <2>4 DEF Derivable, BcryptCheck, Check
  <2> QED BY <2>2, <2>3, <2>4, <2>5, Zenon DEF Verifies
<1>2. CASE raw.as = "ldap"
  <2>1. p = bare("ldap")
    BY <1>2, Outcomes, Zenon DEF Normalize
  <2>2. p.alg = "ldap" /\ p.hash.text = raw
    BY <1>0, <2>1
  <2>3. p.alg \notin RawDigests
    BY <2>2, NotRaw, Zenon
  <2>4. c = Check("ldap", raw.bytes, NoBytes, Empty, NoParams)
    BY <1>2, Zenon DEF HashCheck, PHCShapes
  <2>5. Derivable(c)
    BY <2>4 DEF Derivable, Check
  <2> QED BY <2>2, <2>3, <2>4, <2>5, Zenon DEF Verifies
<1>3. CASE raw.as = "argon2"
  <2>1. c = ArgonCheck(raw)
    BY <1>3, Zenon DEF HashCheck, PHCShapes
  <2>2. Derivable(c)
    BY <2>1 DEF Derivable, ArgonCheck, Check
  <2> QED BY <1>3, <2>1, <2>2, ArgonRead
<1>4. CASE raw.as = "pbkdf2"
  BY <1>4, PBKDF2Read
<1>5. CASE raw.as = "scrypt"
  BY <1>5, ScryptRead
<1>6. CASE raw.as \notin PHCShapes
  BY <1>6, DigestRead
<1> QED BY <1>1, <1>2, <1>3, <1>4, <1>5, <1>6 DEF PHCShapes

\* The hashes of kc.sh export and of the Firebase export become passwords that verify what
\* those did, and so does every hash that is recognised by its text or by its columns
\* (NormalizeKeycloakCredential, NormalizeFirebaseScrypt and Normalize).
THEOREM SourcesAgree ==
  /\ \A c : KeycloakCheck(c) /\ Ok(NormalizeKeycloakCredential(c)) =>
              Verifies(NormalizeKeycloakCredential(c)) = c /\ Derivable(c)
  /\ \A hash, salt, signer, separator, rounds, memCost :
       LET cfg == [signer |-> signer, rounds |-> rounds, memCost |-> memCost, separator |-> separator] IN
       Ok(NormalizeFirebaseScrypt(hash, salt, cfg)) =>
         Verifies(NormalizeFirebaseScrypt(hash, salt, cfg)) = Check("firebase", hash, salt, Empty, cfg)
  /\ \A raw, hint : Written(raw) /\ Ok(Normalize(raw, hint)) =>
       Verifies(Normalize(raw, hint)) = HashCheck(raw, hint) /\ Derivable(HashCheck(raw, hint))
<1>1. ASSUME NEW c, KeycloakCheck(c), Ok(NormalizeKeycloakCredential(c))
      PROVE  Verifies(NormalizeKeycloakCredential(c)) = c /\ Derivable(c)
  BY <1>1, KeycloakRead
<1>2. ASSUME NEW hash, NEW salt, NEW signer, NEW separator, NEW rounds, NEW memCost,
             Ok(NormalizeFirebaseScrypt(hash, salt, [signer |-> signer, rounds |-> rounds, memCost |-> memCost,
                                                     separator |-> separator]))
      PROVE  LET cfg == [signer |-> signer, rounds |-> rounds, memCost |-> memCost, separator |-> separator] IN
             Verifies(NormalizeFirebaseScrypt(hash, salt, cfg)) = Check("firebase", hash, salt, Empty, cfg)
  <2> DEFINE cfg == [signer |-> signer, rounds |-> rounds, memCost |-> memCost, separator |-> separator]
  <2>1. cfg = [signer |-> cfg.signer, rounds |-> cfg.rounds, memCost |-> cfg.memCost,
               separator |-> cfg.separator]
    OBVIOUS
  <2>2. Ok(NormalizeFirebaseScrypt(hash, salt, cfg))
    BY <1>2
  <2> HIDE DEF cfg
  <2>3. Verifies(NormalizeFirebaseScrypt(hash, salt, cfg)) = Check("firebase", hash, salt, Empty, cfg)
    BY <2>1, <2>2, FirebaseRead, Zenon
  <2> QED BY <2>3 DEF cfg
<1> QED BY <1>1, <1>2, HashRead

-----------------------------------------------------------------------------
(* Records whose truth is that of their users. *)

LEMMA NewUserFields ==
  ASSUME NEW id
  PROVE  DOMAIN NewUser(id) = {"id", "targetID", "emails", "phones", "username", "name", "blocked",
                               "password", "factors", "app", "user", "login"}
         /\ NewUser(id).app = <<>>
BY DEF NewUser

\* Keys of m with a value, as a record's metadata.
Listing(from, m) ==
  {[from |-> from, key |-> k, v |-> m[k]] : k \in {j \in DOMAIN m : m[j] # Empty}}

LEMMA ListingHeld ==
  ASSUME NEW c, NEW u,
         c.metadata \subseteq Listing("app_metadata", u.app) \cup Listing("user_metadata", u.user)
  PROVE  HasMetadata(c, u)
<1> SUFFICES ASSUME NEW m \in c.metadata
             PROVE  /\ m.from \in {"app_metadata", "user_metadata"} /\ m.v # Empty
                    /\ Has(u, m) /\ Metadata(u, m.from)[m.key] = m.v
  BY Zenon DEF HasMetadata
<1>1. CASE m \in Listing("app_metadata", u.app)
  <2>1. m.from = "app_metadata" /\ m.key \in DOMAIN u.app /\ m.v = u.app[m.key] /\ m.v # Empty
    BY <1>1 DEF Listing
  <2>2. Metadata(u, m.from) = u.app
    BY <2>1, Zenon DEF Metadata
  <2> QED BY <2>1, <2>2, Zenon DEF Has
<1>2. CASE m \in Listing("user_metadata", u.user)
  <2>1. m.from = "user_metadata" /\ m.key \in DOMAIN u.user /\ m.v = u.user[m.key] /\ m.v # Empty
    BY <1>2 DEF Listing
  <2>2. Metadata(u, m.from) = u.user
    BY <2>1, Zenon DEF Metadata
  <2> QED BY <2>1, <2>2, Zenon DEF Has
<1> QED BY <1>1, <1>2

\* SetToSeq lists a set.
LEMMA FactorsListed ==
  ASSUME NEW S, IsFiniteSet(S)
  PROVE  {SetToSeq(S)[i] : i \in DOMAIN SetToSeq(S)} = S
<1> DEFINE n == Cardinality(S)
           s == SetToSeq(S)
<1>1. n \in Nat /\ ExistsBijection(1..n, S)
  BY FS_CardinalityType
<1>2. \E f \in [1..n -> S] : IsInjective(f)
  <2>1. PICK f \in Bijection(1..n, S) : TRUE
    BY <1>1 DEF ExistsBijection
  <2>2. f \in [1..n -> S] /\ \A a, b \in 1..n : f[a] = f[b] => a = b
    BY <2>1 DEF Bijection, Injection, IsInjective
  <2> QED BY <2>2 DEF IsInjective
<1>3. s \in [1..n -> S] /\ IsInjective(s)
  BY <1>2, Zenon DEF SetToSeq
<1> DEFINE R == {s[i] : i \in DOMAIN s}
<1> HIDE DEF s
<1>4. R \subseteq S /\ s \in Bijection(1..n, R)
  BY <1>3 DEF Bijection, Injection, Surjection, IsInjective
<1>5. IsFiniteSet(1..n) /\ Cardinality(1..n) = n
  <2>1. 1 \in Int /\ n \in Int
    BY <1>1
  <2> HIDE DEF n
  <2> QED BY <1>1, <2>1, FS_Interval
<1>6. ExistsBijection(1..n, R)
  BY <1>4 DEF ExistsBijection
<1>7. Cardinality(R) = n
  BY <1>1, <1>6, FS_CountingElements
<1> HIDE DEF R, n
<1>8. R = S
  BY <1>4, <1>7, FS_Subset DEF n
<1> QED BY <1>8 DEF R, s

\* Chosen leaves none of those to choose out.
LEMMA ChosenAre ==
  ASSUME NEW s, NEW at, at \subseteq Nat, IsFiniteSet(at)
  PROVE  /\ Cardinality(at) \in Nat /\ DOMAIN Chosen(s, at) = 1..Cardinality(at)
         /\ {Chosen(s, at)[n] : n \in 1..Cardinality(at)} = {s[i] : i \in at}
<1> DEFINE upTo(i) == {j \in at : j <= i}
           count == [i \in at |-> Cardinality(upTo(i))]
           m == Cardinality(at)
           place(n) == CHOOSE i \in at : Cardinality(upTo(i)) = n
<1>1. m \in Nat
  BY FS_CardinalityType
<1>2. ASSUME NEW i \in at
      PROVE  IsFiniteSet(upTo(i)) /\ count[i] \in 1..m
  <2>1. IsFiniteSet(upTo(i)) /\ Cardinality(upTo(i)) \in Nat /\ Cardinality(upTo(i)) <= m
    BY FS_Subset, FS_CardinalityType
  <2>2. upTo(i) # {}
    BY <1>2
  <2>3. Cardinality(upTo(i)) # 0
    BY <2>1, <2>2, FS_EmptySet
  <2> HIDE DEF upTo, m
  <2> QED BY <1>1, <2>1, <2>3
<1>3. ASSUME NEW i \in at, NEW k \in at, i < k
      PROVE  count[i] # count[k]
  <2>1. upTo(i) \subseteq upTo(k) /\ k \in upTo(k) /\ k \notin upTo(i)
    <3>1. i \in Nat /\ k \in Nat /\ \A j \in at : j \in Nat
      OBVIOUS
    <3>2. k <= k /\ ~(k <= i) /\ \A j \in Nat : j <= i => j <= k
      BY <1>3, <3>1
    <3> QED BY <3>1, <3>2
  <2>2. IsFiniteSet(upTo(k))
    BY <1>2
  <2> HIDE DEF upTo
  <2>3. Cardinality(upTo(i)) # Cardinality(upTo(k))
    BY <2>1, <2>2, FS_Subset
  <2> QED BY <2>3
<1>4. count \in [at -> 1..m] /\ \A i, k \in at : count[i] = count[k] => i = k
  <2>1. ASSUME NEW i \in at, NEW k \in at, count[i] = count[k]
        PROVE  i = k
    <3>1. i \in Nat /\ k \in Nat
      OBVIOUS
    <3>2. ~(i < k) /\ ~(k < i)
      <4> HIDE DEF count
      <4> QED BY <2>1, <1>3
    <3> QED BY <3>1, <3>2
  <2> HIDE DEF m
  <2> QED BY <1>2, <2>1
<1>5. count \in Injection(at, 1..m)
  <2> HIDE DEF count, m
  <2> QED BY <1>4 DEF Injection, IsInjective
<1>6. IsFiniteSet(1..m) /\ Cardinality(1..m) = m
  <2>1. 1 \in Int /\ m \in Int
    BY <1>1
  <2> HIDE DEF m
  <2> QED BY <1>1, <2>1, FS_Interval
<1>7. count \in Surjection(at, 1..m)
  <2> HIDE DEF count
  <2> QED BY <1>5, <1>6, FS_Injection
<1>8. \A n \in 1..m : \E i \in at : count[i] = n
  <2> HIDE DEF count, m
  <2> QED BY <1>7 DEF Surjection
<1>9. ASSUME NEW n \in 1..m
      PROVE  place(n) \in at /\ count[place(n)] = n
  <2>1. \E i \in at : Cardinality(upTo(i)) = n
    BY <1>8
  <2>2. place(n) \in at /\ Cardinality(upTo(place(n))) = n
    <3> HIDE DEF upTo
    <3> QED BY <2>1, Zenon
  <2> HIDE DEF upTo, place
  <2> QED BY <2>2
<1>10. \A i \in at : place(count[i]) = i
  <2> HIDE DEF place, count, m
  <2> QED BY <1>4, <1>9
<1>11. Chosen(s, at) = [n \in 1..m |-> s[place(n)]]
  BY DEF Chosen
<1> HIDE DEF place, count, m, upTo
<1>12. {s[place(n)] : n \in 1..m} = {s[i] : i \in at}
  <2>1. \A n \in 1..m : place(n) \in at
    BY <1>9
  <2>2. \A i \in at : count[i] \in 1..m /\ s[place(count[i])] = s[i]
    BY <1>4, <1>10
  <2> QED BY <2>1, <2>2
<1>13. DOMAIN Chosen(s, at) = 1..m /\ \A n \in 1..m : Chosen(s, at)[n] = s[place(n)]
  BY <1>11
<1> HIDE DEF Chosen
<1>14. {Chosen(s, at)[n] : n \in 1..m} = {s[i] : i \in at}
  BY <1>12, <1>13
<1> QED BY <1>1, <1>13, <1>14 DEF m

\* The factors of two lists joined.
Elements(s) == {s[i] : i \in DOMAIN s}
LEMMA JoinedAre ==
  ASSUME NEW T, NEW a \in Seq(T), NEW b \in Seq(T)
  PROVE  Elements(a \o b) = Elements(a) \cup Elements(b)
<1>1. /\ Len(a) \in Nat /\ Len(b) \in Nat /\ DOMAIN a = 1..Len(a) /\ DOMAIN b = 1..Len(b)
      /\ DOMAIN (a \o b) = 1..Len(a) + Len(b)
      /\ \A i \in 1..Len(a) + Len(b) : (a \o b)[i] = IF i <= Len(a) THEN a[i] ELSE b[i - Len(a)]
  OBVIOUS
<1> DEFINE c == a \o b
<1> HIDE DEF c
<1>2. \A i \in DOMAIN c : c[i] \in {a[j] : j \in DOMAIN a} \cup {b[j] : j \in DOMAIN b}
  BY <1>1 DEF c
<1>3. \A j \in DOMAIN a : j \in DOMAIN c /\ c[j] = a[j]
  BY <1>1 DEF c
<1>4. \A j \in DOMAIN b : Len(a) + j \in DOMAIN c /\ c[Len(a) + j] = b[j]
  BY <1>1 DEF c
<1> DEFINE A == {a[j] : j \in DOMAIN a} \cup {b[j] : j \in DOMAIN b}
           C == {c[i] : i \in DOMAIN c}
<1>5. \A i \in DOMAIN c : c[i] \in A
  BY <1>2
<1>6. C \subseteq A
  BY <1>5
<1>7. ASSUME NEW x \in A
      PROVE  x \in C
  <2>1. CASE \E j \in DOMAIN a : x = a[j]
    BY <1>3, <2>1
  <2>2. CASE \E j \in DOMAIN b : x = b[j]
    BY <1>4, <2>2
  <2> QED BY <1>7, <2>1, <2>2
<1> QED BY <1>6, <1>7 DEF c, Elements

\* What is true of an account of the Firebase export, of a project configured as g.
FirebaseTruth(r, g) ==
  [checks |-> IF r.hash = NoBytes THEN {} ELSE {Check("firebase", r.hash, r.salt, Empty, g)},
   factors |-> {[type |-> IF r.mfa[i].type = "totp" THEN "totp" ELSE "sms",
                 of |-> IF r.mfa[i].type = "totp" THEN Empty ELSE r.mfa[i].of, params |-> Empty] :
                  i \in DOMAIN r.mfa},
   metadata |-> {[from |-> "app_metadata", key |-> k, v |-> r.claims[k]] :
                   k \in {j \in DOMAIN r.claims : r.claims[j] # Empty}}]

\* An account of the Firebase export becomes a user with its password, its factors and its
\* claims, given the project's configuration or not (userFromAccount).
THEOREM FirebaseRecordsHold ==
  ASSUME NEW r, NEW g, g = [signer |-> g.signer, rounds |-> g.rounds, memCost |-> g.memCost,
                            separator |-> g.separator],
         NEW cfg \in {{}, {g}}, Ok(UserFromAccount(r, cfg))
  PROVE  TrueOf(FirebaseTruth(r, g), UserFromAccount(r, cfg))
<1> DEFINE u == UserFromAccount(r, cfg)
           c == FirebaseTruth(r, g)
           passwords == IF r.hash = NoBytes THEN {} ELSE {PasswordFromAccount(r, cfg)}
           emails == Primary(r.email, r.verified)
           phones == Primary(r.phone, TRUE)
           factors == [i \in DOMAIN r.mfa |-> MFAFactor(r.mfa[i])]
<1>1. /\ \A p \in passwords : Ok(p)
      /\ u = [NewUser(r.id) EXCEPT !.emails = emails, !.phones = phones, !.name = r.name,
                !.blocked = r.disabled, !.app = r.claims, !.password = passwords, !.factors = factors]
  <2> DEFINE anonymous == r.email = Empty /\ r.phone = Empty /\ r.providers = 0
             unread == \E p \in passwords : ~Ok(p)
  <2>1. CASE anonymous
    BY <2>1, Outcomes, Zenon DEF UserFromAccount
  <2>2. CASE ~anonymous /\ unread
    BY <2>2, Outcomes, Zenon DEF UserFromAccount
  <2>3. CASE ~anonymous /\ ~unread
    BY <2>3, Zenon DEF UserFromAccount
  <2> QED BY <2>1, <2>2, <2>3
<1>2. u.password = passwords /\ u.factors = factors /\ u.app = r.claims
  <2> HIDE DEF u, passwords, emails, phones, factors
  <2> QED BY <1>1, NewUserFields
<1>3. HasPassword(c, u)
  <2> SUFFICES ASSUME NEW k \in c.checks
               PROVE  Derivable(k) /\ \E p \in u.password : p.portable => SameCheck(k, Verifies(p))
    BY Zenon DEF HasPassword
  <2>1. r.hash # NoBytes /\ k = Check("firebase", r.hash, r.salt, Empty, g)
    BY DEF FirebaseTruth
  <2>2. Derivable(k)
    BY <2>1 DEF Derivable, Check
  <2> DEFINE p == PasswordFromAccount(r, cfg)
  <2>3. p \in u.password /\ Ok(p)
    BY <1>1, <1>2, <2>1, Zenon
  <2>4. CASE cfg = {}
    <3>1. p = [Password("scrypt", B64Raw(r.hash)) EXCEPT !.params = [variant |-> "firebase"], !.portable = FALSE]
      BY <2>4, Zenon DEF PasswordFromAccount
    <3> HIDE DEF p
    <3>2. ~p.portable
      BY <3>1, PasswordFields
    <3> QED BY <2>2, <2>3, <3>2
  <2>5. CASE cfg = {g}
    <3>1. p = NormalizeFirebaseScrypt(r.hash, r.salt, g)
      <4>1. (CHOOSE x \in cfg : TRUE) = g /\ cfg # {}
        BY <2>5
      <4> QED BY <4>1, Zenon DEF PasswordFromAccount
    <3>2. Verifies(p) = Check("firebase", r.hash, r.salt, Empty, g)
      BY <2>3, <3>1, FirebaseRead, Zenon
    <3> QED BY <2>1, <2>2, <2>3, <3>2, Zenon DEF SameCheck
  <2> QED BY <2>4, <2>5
<1>4. HasFactors(c, u)
  <2> DEFINE e(i) == [type |-> IF r.mfa[i].type = "totp" THEN "totp" ELSE "sms",
                      of |-> IF r.mfa[i].type = "totp" THEN Empty ELSE r.mfa[i].of, params |-> Empty]
  <2>1. \A i : Held(MFAFactor(r.mfa[i])) = e(i)
    <3> SUFFICES ASSUME NEW i PROVE Held(MFAFactor(r.mfa[i])) = e(i)
      OBVIOUS
    <3> DEFINE x == r.mfa[i]
               as == IF x.masked THEN "masked" ELSE "number"
    <3>1. CASE x.type = "totp"
      <4>1. MFAFactor(x) = Factor("totp", "none", Empty, Empty, Empty, FALSE)
        BY <3>1, Zenon DEF MFAFactor
      <4> QED BY <3>1, <4>1 DEF Held, Factor
    <3>2. CASE x.type # "totp"
      <4>1. MFAFactor(x) = Factor("sms", as, x.of, Empty, Empty, ~x.masked)
        BY <3>2, Zenon DEF MFAFactor
      <4> HIDE DEF as
      <4> QED BY <3>2, <4>1 DEF Held, Factor
    <3> QED BY <3>1, <3>2
  <2>2. FactorsOf(u) = {MFAFactor(r.mfa[i]) : i \in DOMAIN r.mfa}
    <3>1. DOMAIN u.factors = DOMAIN r.mfa /\ \A i \in DOMAIN r.mfa : u.factors[i] = MFAFactor(r.mfa[i])
      BY <1>2
    <3> HIDE DEF u
    <3> QED BY <3>1 DEF FactorsOf
  <2>3. c.factors = {e(i) : i \in DOMAIN r.mfa}
    BY DEF FirebaseTruth
  <2> HIDE DEF e, c, u
  <2> QED BY <2>1, <2>2, <2>3 DEF HasFactors
<1>5. HasMetadata(c, u)
  <2> SUFFICES ASSUME NEW m \in c.metadata
               PROVE  /\ m.from \in {"app_metadata", "user_metadata"} /\ m.v # Empty
                      /\ Has(u, m) /\ Metadata(u, m.from)[m.key] = m.v
    BY Zenon DEF HasMetadata
  <2>1. /\ m.from = "app_metadata" /\ m.key \in DOMAIN r.claims
        /\ m.v = r.claims[m.key] /\ m.v # Empty
    BY DEF FirebaseTruth
  <2>2. Metadata(u, m.from) = r.claims
    BY <1>2, <2>1, Zenon DEF Metadata
  <2> QED BY <2>1, <2>2, Zenon DEF Has
<1> QED BY <1>3, <1>4, <1>5 DEF TrueOf

\* What is true of a user of kc.sh export.
TOTPPlaces(r) == {i \in DOMAIN r.otp : r.otp[i].sub = "totp"}
KeycloakTruth(r) ==
  [checks |-> r.passwords,
   factors |-> {[type |-> "totp", of |-> r.otp[i].of, params |-> r.otp[i].params] : i \in TOTPPlaces(r)}
               \cup {[type |-> r.others[i], of |-> Empty, params |-> Empty] : i \in DOMAIN r.others},
   metadata |-> {[from |-> "user_metadata", key |-> k, v |-> r.attributes[k]] :
                   k \in {j \in DOMAIN r.attributes \ ReservedAttributes : r.attributes[j] # Empty}}]

\* A user of kc.sh export becomes a user with its password, its factors and its attributes
\* (userFromRepresentation).
THEOREM KeycloakRecordsHold ==
  ASSUME NEW r, \A c \in r.passwords : KeycloakCheck(c), Ok(UserFromRepresentation(r)),
         NEW S, r.otp \in Seq(S), NEW T, r.others \in Seq(T)
  PROVE  TrueOf(KeycloakTruth(r), UserFromRepresentation(r))
<1> DEFINE u == UserFromRepresentation(r)
           c == KeycloakTruth(r)
           passwords == {NormalizeKeycloakCredential(k) : k \in r.passwords}
           attributes == [k \in DOMAIN r.attributes \ ReservedAttributes |-> r.attributes[k]]
           totps == Chosen(r.otp, TOTPPlaces(r))
           other(o) == Factor(o, "none", Empty, Empty, Empty, FALSE)
           first == [i \in DOMAIN totps |-> TOTPFactor(totps[i])]
           rest == [i \in DOMAIN r.others |-> other(r.others[i])]
           factors == first \o rest
<1>1. /\ \A p \in passwords : Ok(p)
      /\ \E emails, phones, username :
           u = [NewUser(r.id) EXCEPT !.emails = emails, !.phones = phones, !.username = username,
                  !.name = r.name, !.blocked = ~r.enabled, !.user = attributes, !.password = passwords,
                  !.factors = factors]
  <2> DEFINE unread == \E p \in passwords : ~Ok(p)
  <2>1. CASE r.service
    BY <2>1, Outcomes, Zenon DEF UserFromRepresentation
  <2>2. CASE ~r.service /\ unread
    BY <2>2, Outcomes, Zenon DEF UserFromRepresentation
  <2>3. CASE ~r.service /\ ~unread
    BY <2>3, Zenon DEF UserFromRepresentation, TOTPPlaces
  <2> QED BY <2>1, <2>2, <2>3
<1>2. u.password = passwords /\ u.user = attributes /\ u.factors = factors
  <2> HIDE DEF u, passwords, attributes, factors
  <2>1. PICK emails, phones, username :
          u = [NewUser(r.id) EXCEPT !.emails = emails, !.phones = phones, !.username = username,
                 !.name = r.name, !.blocked = ~r.enabled, !.user = attributes, !.password = passwords,
                 !.factors = factors]
    BY <1>1
  <2> QED BY <2>1, NewUserFields
<1>3. HasPassword(c, u)
  <2> SUFFICES ASSUME NEW k \in c.checks
               PROVE  Derivable(k) /\ \E p \in u.password : p.portable => SameCheck(k, Verifies(p))
    BY Zenon DEF HasPassword
  <2> DEFINE p == NormalizeKeycloakCredential(k)
  <2>1. k \in r.passwords
    BY DEF KeycloakTruth
  <2>2. p \in u.password /\ Ok(p)
    BY <1>1, <1>2, <2>1, Zenon
  <2>3. Verifies(p) = k /\ Derivable(k)
    BY <2>1, <2>2, KeycloakRead
  <2> QED BY <2>2, <2>3, Zenon DEF SameCheck
<1>4. HasFactors(c, u)
  <2> DEFINE F == {TOTPFactor(totps[i]) : i \in DOMAIN totps} \cup {other(r.others[i]) : i \in DOMAIN r.others}
  <2>1. TOTPPlaces(r) \subseteq Nat /\ IsFiniteSet(TOTPPlaces(r))
    <3>1. DOMAIN r.otp = 1..Len(r.otp) /\ Len(r.otp) \in Nat
      OBVIOUS
    <3> DEFINE l == Len(r.otp)
    <3>a. 1 \in Int /\ l \in Int
      BY <3>1
    <3>2. IsFiniteSet(1..l)
      <4> HIDE DEF l
      <4> QED BY <3>a, FS_Interval
    <3>3. TOTPPlaces(r) \subseteq 1..Len(r.otp)
      BY <3>1 DEF TOTPPlaces
    <3> QED BY <3>1, <3>2, <3>3, FS_Subset
  <2> DEFINE n == Cardinality(TOTPPlaces(r))
  <2>2. n \in Nat /\ DOMAIN totps = 1..n /\ {totps[i] : i \in DOMAIN totps} = {r.otp[i] : i \in TOTPPlaces(r)}
    BY <2>1, ChosenAre
  <2>3. FactorsOf(u) = F
    <3> HIDE DEF totps, other, n
    <3>1. /\ DOMAIN first = DOMAIN totps /\ \A i \in DOMAIN totps : first[i] = TOTPFactor(totps[i])
          /\ DOMAIN rest = DOMAIN r.others /\ \A i \in DOMAIN r.others : rest[i] = other(r.others[i])
      OBVIOUS
    <3>2. first \in Seq(F)
      <4>1. first \in [1..n -> F]
        BY <2>2
      <4> HIDE DEF first, F
      <4> QED BY <2>2, <4>1
    <3>3. rest \in Seq(F)
      <4>1. rest \in [1..Len(r.others) -> F] /\ Len(r.others) \in Nat
        OBVIOUS
      <4> HIDE DEF rest, F
      <4> QED BY <4>1
    <3>4. Elements(factors) = Elements(first) \cup Elements(rest)
      <4> HIDE DEF first, rest, F
      <4> QED BY <3>2, <3>3, JoinedAre
    <3>5. FactorsOf(u) = Elements(factors)
      BY <1>2, Zenon DEF FactorsOf, Elements
    <3> HIDE DEF first, rest, factors, u
    <3> QED BY <3>1, <3>4, <3>5 DEF Elements
  <2>4. \A o : Held(TOTPFactor(o)) = [type |-> "totp", of |-> o.of, params |-> o.params]
    <3>1. \A o : TOTPFactor(o) = Factor("totp", "base32", o.of, Empty, o.params, TRUE)
      BY DEF TOTPFactor
    <3> QED BY <3>1 DEF Held, Factor
  <2>5. \A o : Held(other(o)) = [type |-> o, of |-> Empty, params |-> Empty]
    BY DEF Held, Factor
  <2>6. c.factors = {[type |-> "totp", of |-> r.otp[i].of, params |-> r.otp[i].params] : i \in TOTPPlaces(r)}
                    \cup {[type |-> r.others[i], of |-> Empty, params |-> Empty] : i \in DOMAIN r.others}
    BY DEF KeycloakTruth
  <2> DEFINE e(o) == [type |-> "totp", of |-> o.of, params |-> o.params]
             x(o) == [type |-> o, of |-> Empty, params |-> Empty]
  <2>7. c.factors = {e(r.otp[i]) : i \in TOTPPlaces(r)} \cup {x(r.others[i]) : i \in DOMAIN r.others}
    BY <2>6
  <2> HIDE DEF c, u, totps, other, e, x
  <2>8. {Held(f) : f \in F} = {e(totps[i]) : i \in DOMAIN totps} \cup {x(r.others[i]) : i \in DOMAIN r.others}
    <3>1. \A o : Held(TOTPFactor(o)) = e(o) /\ Held(other(o)) = x(o)
      BY <2>4, <2>5 DEF e, x
    <3> QED BY <3>1
  <2>9. {e(totps[i]) : i \in DOMAIN totps} = {e(r.otp[i]) : i \in TOTPPlaces(r)}
    <3> DEFINE places == TOTPPlaces(r)
               D == DOMAIN totps
    <3>1. {totps[i] : i \in D} = {r.otp[j] : j \in places}
      BY <2>2
    <3> HIDE DEF places, D
    <3>2. \A i \in D : \E j \in places : totps[i] = r.otp[j]
      BY <3>1
    <3>3. \A j \in places : \E i \in D : totps[i] = r.otp[j]
      BY <3>1
    <3>4. {e(totps[i]) : i \in D} = {e(r.otp[j]) : j \in places}
      BY <3>2, <3>3
    <3> QED BY <3>4 DEF places, D
  <2> HIDE DEF F
  <2> QED BY <2>3, <2>7, <2>8, <2>9 DEF HasFactors
<1>5. HasMetadata(c, u)
  <2> SUFFICES ASSUME NEW m \in c.metadata
               PROVE  /\ m.from \in {"app_metadata", "user_metadata"} /\ m.v # Empty
                      /\ Has(u, m) /\ Metadata(u, m.from)[m.key] = m.v
    BY Zenon DEF HasMetadata
  <2>1. /\ m.from = "user_metadata" /\ m.key \in DOMAIN attributes
        /\ m.v = attributes[m.key] /\ m.v # Empty
    BY DEF KeycloakTruth
  <2>2. Metadata(u, m.from) = attributes
    BY <1>2, <2>1 DEF Metadata
  <2> HIDE DEF attributes
  <2> QED BY <2>1, <2>2, Zenon DEF Has
<1> QED BY <1>3, <1>4, <1>5 DEF TrueOf

\* What is true of an identity of Kratos.
KratosTruth(r) ==
  [checks |-> {HashCheck(hash, NoHint) : hash \in r.password}, factors |-> {Held(f) : f \in r.totp},
   metadata |-> Listing("app_metadata", r.admin) \cup Listing("user_metadata", r.public)]

\* An identity of Kratos becomes a user with its password, its TOTP and its metadata
\* (userFromIdentity).
THEOREM KratosRecordsHold ==
  ASSUME NEW r, \A hash \in r.password : Written(hash), IsFiniteSet(r.totp), Ok(UserFromIdentity(r))
  PROVE  TrueOf(KratosTruth(r), UserFromIdentity(r))
<1> DEFINE u == UserFromIdentity(r)
           c == KratosTruth(r)
           passwords == {Normalize(hash, NoHint) : hash \in r.password}
           emails == Primary(Trait(r, "email"), Trait(r, "email") \in r.verified)
           phones == Primary(Trait(r, "phone"), Trait(r, "phone") \in r.verified)
           username == Trait(r, "username")
           factors == SetToSeq(r.totp)
<1>1. /\ \A p \in passwords : Ok(p)
      /\ u = [NewUser(r.id) EXCEPT !.emails = emails, !.phones = phones, !.username = username,
                !.blocked = ~r.active, !.app = r.admin, !.user = r.public, !.password = passwords,
                !.factors = factors]
  <2> DEFINE unread == \E p \in passwords : ~Ok(p)
  <2>1. CASE unread
    BY <2>1, Outcomes, Zenon DEF UserFromIdentity
  <2>2. CASE ~unread
    BY <2>2, Zenon DEF UserFromIdentity
  <2> QED BY <2>1, <2>2
<1>2. u.password = passwords /\ u.factors = factors /\ u.app = r.admin /\ u.user = r.public
  <2> HIDE DEF u, passwords, emails, phones, username, factors
  <2> QED BY <1>1, NewUserFields
<1>3. HasPassword(c, u)
  <2> SUFFICES ASSUME NEW k \in c.checks
               PROVE  Derivable(k) /\ \E p \in u.password : p.portable => SameCheck(k, Verifies(p))
    BY Zenon DEF HasPassword
  <2>1. PICK hash \in r.password : k = HashCheck(hash, NoHint)
    BY DEF KratosTruth
  <2> DEFINE p == Normalize(hash, NoHint)
  <2>2. p \in u.password /\ Ok(p)
    BY <1>1, <1>2, Zenon
  <2>3. Verifies(p) = k /\ Derivable(k)
    BY <2>1, <2>2, HashRead
  <2> QED BY <2>2, <2>3, Zenon DEF SameCheck
<1>4. HasFactors(c, u)
  <2>1. FactorsOf(u) = r.totp
    <3> HIDE DEF u
    <3> QED BY <1>2, FactorsListed DEF FactorsOf
  <2>2. c.factors = {Held(f) : f \in r.totp}
    BY DEF KratosTruth
  <2> HIDE DEF c, u
  <2> QED BY <2>1, <2>2 DEF HasFactors
<1>5. HasMetadata(c, u)
  <2>1. c.metadata = Listing("app_metadata", u.app) \cup Listing("user_metadata", u.user)
    BY <1>2 DEF KratosTruth
  <2> QED BY <2>1, ListingHeld
<1> QED BY <1>3, <1>4, <1>5 DEF TrueOf

\* A user without password and factors, and with the metadata given, has the truth of a record
\* without them.
LEMMA HashlessHold ==
  ASSUME NEW u, NEW c, u.factors = <<>>, c.checks = {}, c.factors = {},
         c.metadata \subseteq Listing("app_metadata", u.app) \cup Listing("user_metadata", u.user)
  PROVE  TrueOf(c, u)
<1>1. HasPassword(c, u)
  BY DEF HasPassword
<1>2. HasFactors(c, u)
  <2>1. FactorsOf(u) = {}
    BY DEF FactorsOf
  <2> QED BY <2>1 DEF HasFactors
<1> QED BY <1>1, <1>2, ListingHeld DEF TrueOf

\* What is true of a user of Auth0's export, and of one of Azure AD B2C's Graph.
ExportTruth(r) ==
  [checks |-> {}, factors |-> {},
   metadata |-> Listing("app_metadata", r.app) \cup Listing("user_metadata", r.user)]
GraphTruth(r) ==
  [checks |-> {}, factors |-> {},
   metadata |-> Listing("user_metadata", r.extensions) \cup
     {[from |-> "app_metadata", key |-> "federated_identities", v |-> v] :
        v \in IF SignIns(r, "federated") = <<>> THEN {} ELSE {SignIns(r, "federated")[1].of} \ {Empty}}]

\* Neither source has passwords; what metadata a user has there is the user's in the file
\* (userFromExport, userFromGraph).
THEOREM HashlessRecordsHold ==
  ASSUME NEW r
  PROVE  /\ Ok(UserFromExport(r)) => TrueOf(ExportTruth(r), UserFromExport(r))
         /\ Ok(UserFromGraph(r)) => TrueOf(GraphTruth(r), UserFromGraph(r))
<1>1. ASSUME Ok(UserFromExport(r))
      PROVE  TrueOf(ExportTruth(r), UserFromExport(r))
  <2> DEFINE u == UserFromExport(r)
             c == ExportTruth(r)
             emails == Primary(r.email, r.verified)
             phones == Primary(r.phone, r.phoneVerified)
  <2>1. u = [NewUser(r.id) EXCEPT !.emails = emails, !.phones = phones, !.username = r.username,
               !.name = r.name, !.blocked = r.blocked, !.app = r.app, !.user = r.user]
    BY <1>1, Outcomes, Zenon DEF UserFromExport
  <2>2. u.app = r.app /\ u.user = r.user /\ u.factors = <<>>
    <3> HIDE DEF u, emails, phones
    <3> QED BY <2>1, NewUserFields DEF NewUser
  <2>3. /\ c.checks = {} /\ c.factors = {}
        /\ c.metadata = Listing("app_metadata", u.app) \cup Listing("user_metadata", u.user)
    BY <2>2 DEF ExportTruth
  <2> QED BY <2>2, <2>3, HashlessHold
<1>2. ASSUME Ok(UserFromGraph(r))
      PROVE  TrueOf(GraphTruth(r), UserFromGraph(r))
  <2> DEFINE u == UserFromGraph(r)
             c == GraphTruth(r)
             federated == SignIns(r, "federated")
             app == IF federated = <<>> THEN <<>> ELSE [k \in {"federated_identities"} |-> federated[1].of]
  <2>1. \E emails, phones, username :
          u = [NewUser(r.id) EXCEPT !.emails = emails, !.phones = phones, !.username = username,
                 !.name = r.name, !.blocked = ~r.enabled, !.app = app, !.user = r.extensions]
    BY <1>2, Outcomes, Zenon DEF UserFromGraph
  <2>2. u.app = app /\ u.user = r.extensions /\ u.factors = <<>>
    <3> HIDE DEF u, app
    <3>1. PICK emails, phones, username :
            u = [NewUser(r.id) EXCEPT !.emails = emails, !.phones = phones, !.username = username,
                   !.name = r.name, !.blocked = ~r.enabled, !.app = app, !.user = r.extensions]
      BY <2>1
    <3> QED BY <3>1, NewUserFields DEF NewUser
  <2>3. c.checks = {} /\ c.factors = {}
    BY DEF GraphTruth
  <2>4. ASSUME NEW m \in c.metadata
        PROVE  m \in Listing("app_metadata", u.app) \cup Listing("user_metadata", u.user)
    <3>1. CASE m \in Listing("user_metadata", r.extensions)
      BY <2>2, <3>1
    <3>2. CASE m \notin Listing("user_metadata", r.extensions)
      <4>1. /\ federated # <<>> /\ federated[1].of # Empty
            /\ m = [from |-> "app_metadata", key |-> "federated_identities", v |-> federated[1].of]
        BY <2>4, <3>2 DEF GraphTruth
      <4> HIDE DEF federated
      <4>2. DOMAIN app = {"federated_identities"} /\ app["federated_identities"] = federated[1].of
        BY <4>1
      <4> HIDE DEF app
      <4>3. m \in Listing("app_metadata", app)
        BY <4>1, <4>2 DEF Listing
      <4> QED BY <2>2, <4>3
    <3> QED BY <3>1, <3>2
  <2> HIDE DEF c, u
  <2>5. c.metadata \subseteq Listing("app_metadata", u.app) \cup Listing("user_metadata", u.user)
    BY <2>4
  <2> QED BY <2>2, <2>3, <2>5, HashlessHold DEF c, u
<1> QED BY <1>1, <1>2

\* The row as the handlers of export.record and id.source leave it.
Handled(r, answers) == IdSource(ExportRecord(r, answers), answers)
\* What is true of a row of a flat file: the passwords its columns settle (a handler settles the
\* others), and its metadata columns but those that another of the same name contradicts.
AppColumns(columns) == {p \in DOMAIN columns : p[1] # "user_metadata." /\ columns[p] # Empty}
RowTruth(row) ==
  [checks |-> {HashCheck(hash, PasswordHint(row)) :
                 hash \in {h \in row.password : Ok(ReadPassword(row, h))}},
   factors |-> {},
   metadata |->
     {[from |-> "user_metadata", key |-> p[2], v |-> row.columns[p]] :
        p \in {q \in DOMAIN row.columns : q = <<"user_metadata.", q[2]>> /\ row.columns[q] # Empty}}
     \cup
     {[from |-> "app_metadata", key |-> p[2], v |-> row.columns[p]] :
        p \in {q \in AppColumns(row.columns) :
                 \A o \in AppColumns(row.columns) : o[2] = q[2] => row.columns[o] = row.columns[q]}}]

LEMMA ColumnsHeld ==
  ASSUME NEW columns, NEW app \in AppMetadata(columns), NEW p \in AppColumns(columns),
         \A o \in AppColumns(columns) : o[2] = p[2] => columns[o] = columns[p]
  PROVE  p[2] \in DOMAIN app /\ app[p[2]] = columns[p] /\ columns[p] # Empty
<1>1. /\ DOMAIN app = {o[2] : o \in AppColumns(columns)}
      /\ \A k \in DOMAIN app : \E o \in AppColumns(columns) : o[2] = k /\ columns[o] = app[k]
  BY DEF AppMetadata, AppColumns
<1>2. p[2] \in DOMAIN app
  BY <1>1
<1>3. PICK o \in AppColumns(columns) : o[2] = p[2] /\ columns[o] = app[p[2]]
  BY <1>1, <1>2
<1> QED BY <1>2, <1>3 DEF AppColumns

\* A row becomes a user with the passwords and the metadata of its columns, whatever the
\* handlers of export.record, id.source and hash.detect answer (mapper.go, strategies.go): of
\* the row as they left it.
THEOREM RowsHold ==
  ASSUME NEW r, NEW answers, \A hash \in Handled(r, answers).password : Written(hash),
         NEW u \in FromRow(r, answers), Ok(u)
  PROVE  TrueOf(RowTruth(Handled(r, answers)), u)
<1> DEFINE row == Handled(r, answers)
           passwords == {DetectHashes(row, hash, answers) : hash \in row.password}
           c == RowTruth(row)
           emails == Primary(row.email, row.verified \in {Empty, "true"})
           userColumns == UserMetadata(row.columns)
<1>1. u \in RowToUser(row, passwords)
  <2> DEFINE left == {p \in passwords : ~Ok(p)}
             isDropped == answers.action = "drop"
             nameless == row.id = Empty
             unread == \E p \in passwords : ~Ok(p)
             rows == RowToUser(row, passwords)
  <2>1. CASE ~isDropped /\ ~nameless /\ ~unread
    <3>1. FromRow(r, answers) = rows
      BY <2>1, Zenon DEF FromRow, Handled
    <3> QED BY <3>1
  <2>2. CASE isDropped \/ nameless \/ unread
    <3>1. FromRow(r, answers) \in {{Refused("export.record")}, {Refused("missing source_id")}, left}
      <4>1. CASE isDropped
        BY <4>1, Zenon DEF FromRow, Handled
      <4>2. CASE ~isDropped /\ nameless
        BY <4>2, Zenon DEF FromRow, Handled
      <4>3. CASE ~isDropped /\ ~nameless /\ unread
        BY <4>3, Zenon DEF FromRow, Handled
      <4> QED BY <2>2, <4>1, <4>2, <4>3
    <3> QED BY <3>1, Outcomes
  <2> QED BY <2>1, <2>2
<1> HIDE DEF row
<1>2. PICK app \in AppMetadata(row.columns) :
        u = [NewUser(row.id) EXCEPT !.emails = emails, !.username = row.username, !.name = row.name,
               !.blocked = row.blocked, !.password = passwords, !.app = app, !.user = userColumns]
  BY <1>1, Zenon DEF RowToUser
<1>3. u.password = passwords /\ u.app = app /\ u.user = userColumns /\ u.factors = <<>>
  <2> HIDE DEF passwords, emails, userColumns
  <2> QED BY <1>2, NewUserFields DEF NewUser
<1>4. HasPassword(c, u)
  <2> SUFFICES ASSUME NEW k \in c.checks
               PROVE  Derivable(k) /\ \E p \in u.password : p.portable => SameCheck(k, Verifies(p))
    BY Zenon DEF HasPassword
  <2>1. PICK hash \in row.password : Ok(ReadPassword(row, hash)) /\ k = HashCheck(hash, PasswordHint(row))
    BY DEF RowTruth
  <2> DEFINE p == Normalize(hash, PasswordHint(row))
             read == ReadPassword(row, hash)
  <2>2. read = p
    BY <2>1, Zenon DEF ReadPassword
  <2>3. DetectHashes(row, hash, answers) = read
    BY <2>1, Zenon DEF DetectHashes
  <2>4. p \in u.password /\ Ok(p)
    BY <1>3, <2>1, <2>2, <2>3, Zenon
  <2>5. Verifies(p) = k /\ Derivable(k)
    BY <2>1, <2>4, HashRead DEF row
  <2> QED BY <2>4, <2>5, Zenon DEF SameCheck
<1>5. HasFactors(c, u)
  <2>1. FactorsOf(u) = {}
    BY <1>3 DEF FactorsOf
  <2>2. c.factors = {}
    BY DEF RowTruth
  <2> HIDE DEF c
  <2> QED BY <2>1, <2>2 DEF HasFactors
<1>6. HasMetadata(c, u)
  <2>1. ASSUME NEW m \in c.metadata
        PROVE  m \in Listing("app_metadata", app) \cup Listing("user_metadata", userColumns)
    <3>1. CASE \E p \in DOMAIN row.columns :
                 /\ p = <<"user_metadata.", p[2]>> /\ row.columns[p] # Empty
                 /\ m = [from |-> "user_metadata", key |-> p[2], v |-> row.columns[p]]
      <4>1. PICK p \in DOMAIN row.columns :
                 /\ p = <<"user_metadata.", p[2]>> /\ row.columns[p] # Empty
                 /\ m = [from |-> "user_metadata", key |-> p[2], v |-> row.columns[p]]
        BY <3>1
      <4>2. p[1] = "user_metadata."
        BY <4>1
      <4>3. p[2] \in DOMAIN userColumns /\ userColumns[p[2]] = row.columns[p]
        BY <4>1, <4>2 DEF UserMetadata
      <4> HIDE DEF userColumns
      <4> QED BY <4>1, <4>3 DEF Listing
    <3>2. CASE \E p \in AppColumns(row.columns) :
                 /\ \A o \in AppColumns(row.columns) : o[2] = p[2] => row.columns[o] = row.columns[p]
                 /\ m = [from |-> "app_metadata", key |-> p[2], v |-> row.columns[p]]
      <4>1. PICK p \in AppColumns(row.columns) :
                 /\ \A o \in AppColumns(row.columns) : o[2] = p[2] => row.columns[o] = row.columns[p]
                 /\ m = [from |-> "app_metadata", key |-> p[2], v |-> row.columns[p]]
        BY <3>2
      <4>2. p[2] \in DOMAIN app /\ app[p[2]] = row.columns[p] /\ row.columns[p] # Empty
        BY <4>1, ColumnsHeld
      <4> QED BY <4>1, <4>2 DEF Listing
    <3> QED BY <2>1, <3>1, <3>2 DEF RowTruth
  <2> HIDE DEF c
  <2>2. c.metadata \subseteq Listing("app_metadata", u.app) \cup Listing("user_metadata", u.user)
    BY <1>3, <2>1
  <2> QED BY <2>2, ListingHeld
<1> QED BY <1>4, <1>5, <1>6 DEF TrueOf, row

\* A case tells of its record what this section says is true of it.
Tells(c, t) == c.checks = t.checks /\ c.factors = t.factors /\ c.metadata = t.metadata
Told(c) ==
  \/ c.source = "flatfile" /\ Tells(c, RowTruth(Handled(c.record, c.answers)))
     /\ \A hash \in Handled(c.record, c.answers).password : Written(hash)
  \/ c.source = "kratos" /\ Tells(c, KratosTruth(c.record))
     /\ (\A hash \in c.record.password : Written(hash)) /\ IsFiniteSet(c.record.totp)
  \/ c.source = "keycloak" /\ Tells(c, KeycloakTruth(c.record))
     /\ (\A k \in c.record.passwords : KeycloakCheck(k))
     /\ \E S, T : c.record.otp \in Seq(S) /\ c.record.others \in Seq(T)
  \/ c.source = "firebase"
     /\ \E g : /\ g = [signer |-> g.signer, rounds |-> g.rounds, memCost |-> g.memCost,
                       separator |-> g.separator]
               /\ c.config \in {{}, {g}} /\ Tells(c, FirebaseTruth(c.record, g))
  \/ c.source = "auth0" /\ Tells(c, ExportTruth(c.record))
  \/ c.source = "azure-ad-b2c" /\ Tells(c, GraphTruth(c.record))

\* What TruthAssumption asks of a case holds of every record, of any source, whose case tells
\* no more of it than the record itself (the connectors' Export, whatever the hashes).
THEOREM RecordsAreTrue ==
  ASSUME NEW c, Told(c), NEW u \in Exported(c), Ok(u)
  PROVE  TrueOf(c, u)
<1>1. ASSUME NEW t, Tells(c, t), TrueOf(t, u)
      PROVE  TrueOf(c, u)
  BY <1>1 DEF Tells, TrueOf, HasPassword, HasFactors, HasMetadata
<1>2. CASE c.source = "flatfile"
  <2>1. Exported(c) = FromRow(c.record, c.answers)
    BY <1>2, Zenon DEF Exported
  <2>2. /\ Tells(c, RowTruth(Handled(c.record, c.answers)))
        /\ \A hash \in Handled(c.record, c.answers).password : Written(hash)
    BY <1>2 DEF Told
  <2> QED BY <1>1, <2>1, <2>2, RowsHold
<1>3. CASE c.source = "kratos"
  <2>1. Exported(c) = {UserFromIdentity(c.record)}
    BY <1>3, Zenon DEF Exported
  <2>2. /\ Tells(c, KratosTruth(c.record)) /\ IsFiniteSet(c.record.totp)
        /\ \A hash \in c.record.password : Written(hash)
    BY <1>3 DEF Told
  <2> QED BY <1>1, <2>1, <2>2, KratosRecordsHold
<1>4. CASE c.source = "keycloak"
  <2>1. Exported(c) = {UserFromRepresentation(c.record)}
    BY <1>4, Zenon DEF Exported
  <2>2. /\ Tells(c, KeycloakTruth(c.record)) /\ \A k \in c.record.passwords : KeycloakCheck(k)
        /\ \E S, T : c.record.otp \in Seq(S) /\ c.record.others \in Seq(T)
    BY <1>4 DEF Told
  <2>3. TrueOf(KeycloakTruth(c.record), UserFromRepresentation(c.record))
    BY <2>1, <2>2, KeycloakRecordsHold
  <2> QED BY <1>1, <2>1, <2>2, <2>3
<1>5. CASE c.source = "firebase"
  <2>1. Exported(c) = {UserFromAccount(c.record, c.config)}
    BY <1>5, Zenon DEF Exported
  <2>2. PICK g : /\ g = [signer |-> g.signer, rounds |-> g.rounds, memCost |-> g.memCost,
                         separator |-> g.separator]
                 /\ c.config \in {{}, {g}} /\ Tells(c, FirebaseTruth(c.record, g))
    BY <1>5 DEF Told
  <2>3. TrueOf(FirebaseTruth(c.record, g), UserFromAccount(c.record, c.config))
    BY <2>1, <2>2, FirebaseRecordsHold
  <2> QED BY <1>1, <2>1, <2>2, <2>3
<1>6. CASE c.source = "auth0"
  <2>1. Exported(c) = {UserFromExport(c.record)}
    BY <1>6, Zenon DEF Exported
  <2>2. Tells(c, ExportTruth(c.record))
    BY <1>6 DEF Told
  <2> QED BY <1>1, <2>1, <2>2, HashlessRecordsHold
<1>7. CASE c.source = "azure-ad-b2c"
  <2>1. Exported(c) = {UserFromGraph(c.record)}
    BY <1>7, Zenon DEF Exported
  <2>2. Tells(c, GraphTruth(c.record))
    BY <1>7 DEF Told
  <2> QED BY <1>1, <2>1, <2>2, HashlessRecordsHold
<1> QED BY <1>2, <1>3, <1>4, <1>5, <1>6, <1>7 DEF Told

=============================================================================
