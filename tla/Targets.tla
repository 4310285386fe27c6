------------------------------ MODULE Targets -------------------------------
(***************************************************************************)
(* What each target connector makes of a CMF user: the payload Import      *)
(* sends, the follow-ups it reports, what ValidateUser says beforehand and *)
(* how Verify finds the user again.                                        *)
(*                                                                         *)
(* A user has at most one password, so the field is a set.  Metadata are   *)
(* functions of their keys.  Every payload is an account: its attributes   *)
(* are a function of their paths, a root and a key.                        *)
(***************************************************************************)
EXTENDS Hashes, Sequences, FiniteSets, TLC

CONSTANTS
  Shape,     \* of each identifier: "address", "number" (E.164), "name" or "blank"
  Size,      \* its length
  Unprefixed \* each user ID without the auth0| before it

Targets == {"auth0", "kratos", "keycloak", "cognito", "firebase"}

NewUser(id) ==
  [id |-> id, targetID |-> Empty, emails |-> <<>>, phones |-> <<>>, username |-> Empty, name |-> Empty,
   blocked |-> FALSE, password |-> {}, factors |-> <<>>, app |-> <<>>, user |-> <<>>, login |-> Empty]
Contact(v, verified, primary) == [v |-> v, verified |-> verified, primary |-> primary]
\* The secret of a TOTP factor is base32, loose base32 (in lower case, with spaces or
\* padding), an otpauth:// URI with parameters of its own, or no secret at all.
Factor(type, as, of, uri, params, portable) ==
  [type |-> type, as |-> as, of |-> of, uri |-> uri, params |-> params, portable |-> portable]

MFATypes == {"totp", "sms", "email", "webauthn", "recovery_codes", "push"}

TargetID(u) == IF u.targetID = Empty THEN u.id ELSE u.targetID
First(contacts) == IF contacts = <<>> THEN Contact(Empty, FALSE, FALSE) ELSE contacts[1]
\* The identifier of a kind the user has, Empty for none.
ValueOf(u, kind) ==
  CASE kind = "email" -> First(u.emails).v [] kind = "username" -> u.username
    [] kind = "phone" -> First(u.phones).v [] OTHER -> Empty
\* The first of kinds in S.
FirstOf(kinds, S) ==
  LET at == {i \in DOMAIN kinds : kinds[i] \in S}
  IN IF at = {} THEN Empty ELSE kinds[CHOOSE i \in at : \A j \in at : i <= j]
FactorsOf(u) == {u.factors[i] : i \in DOMAIN u.factors}
\* f, and g where f says nothing: @@, by what the provers can expand.
Over(f, g) == [x \in DOMAIN f \cup DOMAIN g |-> IF x \in DOMAIN f THEN f[x] ELSE g[x]]
Portable(u) == {p \in u.password : p.portable}
At(root, metadata) == [path \in {<<root, k>> : k \in DOMAIN metadata} |-> metadata[path[2]]]

Account ==
  [id |-> Empty, login |-> Empty, email |-> Empty, verified |-> FALSE, phone |-> Empty, username |-> Empty, name |-> Empty,
   enabled |-> TRUE, checks |-> {}, factors |-> {}, attributes |-> <<>>]
Built(account, flags) == [account |-> account, flags |-> flags]

Capabilities(t) ==
  CASE t = "auth0" -> [algorithms |-> Algorithms, passwords |-> TRUE, mfa |-> {"totp", "sms", "email"},
                       customID |-> TRUE, identifiers |-> {"email"}]
    [] t = "kratos" -> [algorithms |-> {"bcrypt", "argon2"}, passwords |-> TRUE,
                        mfa |-> {"totp", "recovery_codes"}, customID |-> FALSE,
                        identifiers |-> {"email", "username", "phone"}]
    [] t = "keycloak" -> [algorithms |-> {"pbkdf2", "argon2"}, passwords |-> TRUE, mfa |-> {"totp"},
                          customID |-> FALSE, identifiers |-> {"email", "username", "phone"}]
    [] t = "cognito" -> [algorithms |-> {}, passwords |-> FALSE, mfa |-> {}, customID |-> FALSE,
                         identifiers |-> {"email", "username", "phone"}]
    [] t = "firebase" -> [algorithms |-> {"bcrypt", "scrypt"}, passwords |-> TRUE, mfa |-> {"sms"},
                          customID |-> TRUE, identifiers |-> {"email", "phone"}]

\* A password whose hash nothing can verify is not sent: the user is to choose another.
Reset(u) == IF \E p \in u.password : ~p.portable THEN {"password reset"} ELSE {}
Flag(u, types, flag) == IF \E f \in FactorsOf(u) : f.type \in types THEN {flag} ELSE {}
NotTranslated(u, Translate(_)) == \E p \in Portable(u) : ~Ok(Translate(p))
Contacts(u, a) ==
  [a EXCEPT !.email = First(u.emails).v, !.verified = First(u.emails).verified, !.phone = First(u.phones).v]

(***************************************************************************)
(* Auth0's bulk import.                                                    *)
(***************************************************************************)
\* Mutant: the password of a user whose hash is not portable is left out silently.
MBuildImportUser(u) ==
  IF u.emails = <<>> THEN Refused("email")
  ELSE IF NotTranslated(u, ToAuth0) THEN Refused("password")
  ELSE Built(
    [Contacts(u, Account) EXCEPT
       !.id = Unprefixed[TargetID(u)], !.username = u.username, !.name = u.name, !.enabled = ~u.blocked,
       !.checks = {ToAuth0(p) : p \in Portable(u)},
       !.factors = {[type |-> f.type, as |-> f.as, of |-> f.of, params |-> Empty] :
                      f \in {g \in FactorsOf(u) : g.type \in {"totp", "sms", "email"}}},
       !.attributes = Over(At("app_metadata", u.app), At("user_metadata", u.user))],
    Flag(u, {"webauthn", "push"}, "re-enrollment") \cup Flag(u, {"recovery_codes"}, "recovery codes"))
BuildImportUser(u) ==
  IF u.emails = <<>> THEN Refused("email")
  ELSE IF NotTranslated(u, ToAuth0) THEN Refused("password")
  ELSE Built(
    [Contacts(u, Account) EXCEPT
       !.id = Unprefixed[TargetID(u)], !.username = u.username, !.name = u.name, !.enabled = ~u.blocked,
       !.checks = {ToAuth0(p) : p \in Portable(u)},
       !.factors = {[type |-> f.type, as |-> f.as, of |-> f.of, params |-> Empty] :
                      f \in {g \in FactorsOf(u) : g.type \in {"totp", "sms", "email"}}},
       !.attributes = Over(At("app_metadata", u.app), At("user_metadata", u.user))],
    Reset(u) \cup Flag(u, {"webauthn", "push"}, "re-enrollment")
             \cup Flag(u, {"recovery_codes"}, "recovery codes"))

Problem(cond, field) == IF cond THEN {field} ELSE {}
SomeFactor(u, type, Bad(_)) == \E f \in FactorsOf(u) : f.type = type /\ Bad(f)
Emails(u) == {u.emails[i].v : i \in DOMAIN u.emails}
Phones(u) == {u.phones[i].v : i \in DOMAIN u.phones}

\* The default limits of a connection, which its configuration may change.
UsernameMax == 15
MaxUserID == 128
MaxFactors == 10
\* A value too large for any metadata limit.
Huge == "huge"
ReservedByAuth0 == {"email", "blocked", "user_id"}

MfaFactorProblems(u) ==
  Problem(SomeFactor(u, "totp", LAMBDA f : f.as # "base32"), "totp")
  \cup Problem(SomeFactor(u, "sms", LAMBDA f : f.as # "number"), "sms")
  \cup Problem(SomeFactor(u, "email", LAMBDA f : f.as # "address"), "email factor")
  \cup Problem(Len(SelectSeq(u.factors, LAMBDA f : f.type \in {"totp", "sms", "email"})) > MaxFactors,
               "factors")

ValidateForAuth0(u) ==
  Problem(u.emails = <<>> \/ \E v \in Emails(u) : Shape[v] # "address", "emails")
  \cup Problem(\E v \in Phones(u) : Shape[v] # "number", "phones")
  \cup Problem(u.username # Empty /\ (Size[u.username] > UsernameMax \/ Shape[u.username] = "blank"),
               "username")
  \cup Problem(Size[Unprefixed[TargetID(u)]] \notin 1..MaxUserID, "id")
  \cup Problem(DOMAIN u.app \cap ReservedByAuth0 # {}, "app_metadata")
  \cup Problem(\E k \in DOMAIN u.app : u.app[k] = Huge, "app_metadata")
  \cup Problem(\E k \in DOMAIN u.user : u.user[k] = Huge, "user_metadata")
  \cup MfaFactorProblems(u)

(***************************************************************************)
(* Kratos: the identifiers and user_metadata are traits, and a type of     *)
(* credential has one value.                                               *)
(***************************************************************************)
IdentifierTraits(u) ==
  [k \in {x \in {"email", "username", "phone"} : ValueOf(u, x) # Empty} |-> ValueOf(u, k)]
BuildTraits(u) == Over(IdentifierTraits(u), u.user)

\* The last factor of a type is the one left.
LastOf(u, type) ==
  {u.factors[i] : i \in {j \in DOMAIN u.factors :
     u.factors[j].type = type /\ \A k \in DOMAIN u.factors : u.factors[k].type = type => k <= j}}
BuildIdentity(u) ==
  IF NotTranslated(u, ToKratosHashedPassword) THEN Refused("password")
  ELSE Built(
    [Contacts(u, Account) EXCEPT
       !.username = u.username, !.enabled = ~u.blocked,
       !.checks = {ToKratosHashedPassword(p) : p \in Portable(u)},
       !.factors = {[type |-> f.type, as |-> f.as, of |-> f.of,
                     params |-> IF f.as = "uri" THEN f.uri ELSE Empty] :
                      f \in LastOf(u, "totp") \cup LastOf(u, "recovery_codes")},
       !.attributes = Over(At("traits", BuildTraits(u)),
                           Over(At("metadata_admin", u.app), At("metadata_public", u.user)))],
    Reset(u) \cup Flag(u, {"sms", "email", "webauthn", "push"}, "re-enrollment"))

MaxKratosUsername == 255
\* Without an identity schema; one adds what it requires of the traits.
ValidateForKratos(u) ==
  Problem(u.username # Empty /\ (Size[u.username] > MaxKratosUsername \/ Shape[u.username] = "blank"),
          "username")
  \cup Problem(DOMAIN u.user \cap {"email", "username", "phone"} # {}, "user_metadata")

(***************************************************************************)
(* Keycloak: one bag of attributes, a username on every user.              *)
(***************************************************************************)
LoginUsername(u) ==
  IF u.login = "email" /\ u.emails # <<>> THEN u.emails[1].v
  ELSE IF u.login = "phone" /\ u.phones # <<>> THEN u.phones[1].v
  ELSE IF u.username # Empty THEN u.username
  ELSE IF u.emails # <<>> THEN u.emails[1].v ELSE First(u.phones).v

\* A URI's parameters stand in for the factor's own, and the defaults for both.
OTPCredential(f) ==
  IF f.as \notin {"base32", "loose", "uri"} THEN Refused("TOTP secret")
  ELSE [type |-> "totp", as |-> "base32", of |-> f.of,
        params |-> IF f.params = Empty /\ f.as = "uri" THEN f.uri ELSE f.params]

PhoneAttributes(u) ==
  IF u.phones = <<>> THEN <<>> ELSE [k \in {"phoneNumber"} |-> u.phones[1].v]
TOTPs(u) == {f \in FactorsOf(u) : f.type = "totp"}
BuildUser(u) ==
  IF LoginUsername(u) = Empty THEN Refused("username")
  ELSE IF NotTranslated(u, ToKeycloakCredential) THEN Refused("password")
  ELSE IF \E f \in TOTPs(u) : ~Ok(OTPCredential(f)) THEN Refused("TOTP secret")
  ELSE Built(
    [Contacts(u, Account) EXCEPT
       !.login = LoginUsername(u), !.name = u.name, !.enabled = ~u.blocked,
       !.checks = {ToKeycloakCredential(p) : p \in Portable(u)},
       !.factors = {OTPCredential(f) : f \in TOTPs(u)},
       !.attributes = At("attributes", Over(PhoneAttributes(u), Over(u.app, u.user)))],
    Reset(u) \cup Flag(u, {"sms", "email", "webauthn", "push"}, "re-enrollment")
             \cup Flag(u, {"recovery_codes"}, "recovery codes"))

\* Keycloak's own columns: an attribute of such a name is dropped.  (So is the length of a
\* name limited.)
ProfileAttributes == {"username", "email", "firstName", "lastName"}
ValidateForKeycloak(u) ==
  Problem(DOMAIN u.user \cap ProfileAttributes # {}, "user_metadata")
  \cup Problem(DOMAIN u.app \cap ProfileAttributes # {}, "app_metadata")

(***************************************************************************)
(* Cognito: a user is created under one identifier, takes neither password *)
(* nor factor, and loses its metadata but for target fields.               *)
(***************************************************************************)
Login(u) ==
  LET kind == FirstOf(<<u.login, "email", "username", "phone">>,
                      {k \in {"email", "username", "phone"} : ValueOf(u, k) # Empty})
  IN [kind |-> kind, v |-> ValueOf(u, kind)]
BuildCreateUser(u) ==
  IF Login(u).v = Empty THEN Refused("username")
  ELSE Built(
    [Contacts(u, Account) EXCEPT
       !.login = Login(u).v, !.name = u.name,
       !.username = IF Login(u).kind # "username" THEN u.username ELSE Empty,
       !.enabled = ~u.blocked],
    Problem(u.password # {}, "password reset") \cup Problem(u.factors # <<>>, "re-enrollment"))

MaxCognitoUsername == 128
ValidateForCognito(u) ==
  LET v == Login(u).v IN
  Problem(v = Empty, "emails")
  \cup Problem(v # Empty /\ (Size[v] > MaxCognitoUsername \/ Shape[v] = "blank"), "username")
  \cup Problem(u.emails # <<>> /\ Shape[u.emails[1].v] # "address", "emails")
  \cup Problem(u.phones # <<>> /\ Shape[u.phones[1].v] # "number", "phones")

(***************************************************************************)
(* Firebase: app_metadata are the custom claims, SMS the only factor.      *)
(***************************************************************************)
Kept(f) == f.type = "sms" /\ f.portable
BuildAccount(u) ==
  IF u.emails = <<>> /\ u.phones = <<>> THEN Refused("emails")
  ELSE IF NotTranslated(u, ToFirebaseHash) THEN Refused("password")
  ELSE Built(
    [Contacts(u, Account) EXCEPT
       !.id = TargetID(u), !.name = u.name, !.enabled = ~u.blocked,
       !.checks = {ToFirebaseHash(p) : p \in Portable(u)},
       !.factors = {[type |-> f.type, as |-> f.as, of |-> f.of, params |-> Empty] :
                      f \in {g \in FactorsOf(u) : Kept(g)}},
       !.attributes = At("custom_claims", u.app)],
    Reset(u) \cup Problem(\E f \in FactorsOf(u) : ~Kept(f), "re-enrollment"))

MaxUID == 128
ReservedClaims == {"sub", "iss", "aud", "exp"}
\* Mutant: the hash is not tried.
MValidateForFirebase(u) ==
  Problem(Size[TargetID(u)] > MaxUID, "id")
  \cup Problem(u.emails = <<>> /\ u.phones = <<>>, "emails")
  \cup Problem(u.emails # <<>> /\ Shape[u.emails[1].v] # "address", "emails")
  \cup Problem(u.phones # <<>> /\ Shape[u.phones[1].v] # "number", "phones")
  \cup Problem(DOMAIN u.app \cap ReservedClaims # {}, "app_metadata")
  \cup Problem(\E k \in DOMAIN u.app : u.app[k] = Huge, "app_metadata")
  \cup Problem(SomeFactor(u, "sms", LAMBDA f : f.portable /\ f.as # "number"), "mfa_factors")
ValidateForFirebase(u) ==
  Problem(Size[TargetID(u)] > MaxUID, "id")
  \cup Problem(u.emails = <<>> /\ u.phones = <<>>, "emails")
  \cup Problem(u.emails # <<>> /\ Shape[u.emails[1].v] # "address", "emails")
  \cup Problem(u.phones # <<>> /\ Shape[u.phones[1].v] # "number", "phones")
  \cup Problem(DOMAIN u.app \cap ReservedClaims # {}, "app_metadata")
  \cup Problem(\E k \in DOMAIN u.app : u.app[k] = Huge, "app_metadata")
  \cup Problem(NotTranslated(u, ToFirebaseHash), "password")
  \cup Problem(SomeFactor(u, "sms", LAMBDA f : f.portable /\ f.as # "number"), "mfa_factors")

(***************************************************************************)
(* The connectors as an import, validate and Verify use them.              *)
(***************************************************************************)
Build(t, u) ==
  CASE t = "auth0" -> BuildImportUser(u) [] t = "kratos" -> BuildIdentity(u)
    [] t = "keycloak" -> BuildUser(u) [] t = "cognito" -> BuildCreateUser(u)
    [] t = "firebase" -> BuildAccount(u)
ValidateUser(t, u) ==
  CASE t = "auth0" -> ValidateForAuth0(u) [] t = "kratos" -> ValidateForKratos(u)
    [] t = "keycloak" -> ValidateForKeycloak(u) [] t = "cognito" -> ValidateForCognito(u)
    [] t = "firebase" -> ValidateForFirebase(u)

\* What the target's capabilities alone tell of a user: a target that takes no password
\* has no say on its algorithm.
CheckUser(t, u) ==
  Problem(Capabilities(t).passwords /\ \E p \in u.password : p.alg \notin Capabilities(t).algorithms,
          "password.algorithm")
  \cup Problem(\E f \in FactorsOf(u) : f.portable /\ f.type \notin Capabilities(t).mfa, "mfa_factors.type")

\* A target field: the root of its path ("profile" for one of the target's own fields),
\* the key under it and its value.
Field(root, key, v) == [root |-> root, key |-> key, v |-> v]
CheckTargetField(t, f) ==
  CASE t = "auth0" -> f.root \in {"profile", "user_metadata", "app_metadata"}
    [] t = "kratos" -> \/ f.root = "traits" /\ f.key \notin {"email", "username", "phone"}
                       \/ f.root \in {"metadata_public", "metadata_admin"}
    [] t = "keycloak" -> f.root \in {"profile", "attributes"}
    [] t = "cognito" -> f.root \in {"profile", "custom"}
    [] t = "firebase" -> \/ f.root = "profile"
                         \/ f.root = "custom_claims" /\ f.key \notin ReservedClaims

\* The fields are set over what the user has there.  Firebase's claims must still fit.
ApplyFields(t, account, fields) ==
  LET set == [path \in {<<f.root, f.key>> : f \in fields} |->
                (CHOOSE f \in fields : <<f.root, f.key>> = path).v]
  IN IF t = "firebase" /\ \E f \in fields : f.root = "custom_claims" /\ f.v = Huge THEN Refused("claims")
     ELSE [account EXCEPT !.attributes = Over(set, @),
                          !.name = IF <<"profile", "name">> \in DOMAIN set THEN set[<<"profile", "name">>]
                                   ELSE @]

\* The accounts a lookup by the user's own identifier finds.
LookupAuth0(u, accounts) ==
  LET found == CASE u.emails # <<>> -> {a \in accounts : a.email = u.emails[1].v}
                 [] u.emails = <<>> /\ u.username # Empty -> {a \in accounts : a.username = u.username}
                 [] OTHER -> {a \in accounts : a.phone = First(u.phones).v}
      own == {a \in found : a.id = Unprefixed[TargetID(u)]}
  IN IF own # {} THEN own ELSE found
LoginIdentifier(u) ==
  CASE u.emails # <<>> -> u.emails[1].v
    [] u.emails = <<>> /\ u.username # Empty -> u.username
    [] OTHER -> First(u.phones).v
LookupKratos(u, accounts) ==
  {a \in accounts : LoginIdentifier(u) \in {a.email, a.username, a.phone}}
LookupKeycloak(u, accounts) ==
  {a \in accounts : IF u.emails # <<>> THEN a.email = u.emails[1].v ELSE a.login = LoginUsername(u)}
LookupCognito(u, accounts) == {a \in accounts : a.login = Login(u).v}
LookupFirebase(u, accounts) ==
  {a \in accounts : IF u.emails # <<>> THEN a.email = u.emails[1].v ELSE a.phone = First(u.phones).v}
Lookup(t, u, accounts) ==
  CASE t = "auth0" -> LookupAuth0(u, accounts) [] t = "kratos" -> LookupKratos(u, accounts)
    [] t = "keycloak" -> LookupKeycloak(u, accounts) [] t = "cognito" -> LookupCognito(u, accounts)
    [] t = "firebase" -> LookupFirebase(u, accounts)
NoIdentifier(t, u) == u.emails = <<>> /\ u.phones = <<>> /\ (t = "firebase" \/ u.username = Empty)

\* Only what Import sets is compared: what Auth0 fills in itself when the user has none.
UserDrift(u, a) ==
  Problem(u.username # Empty /\ a.username # u.username, "username")
  \cup Problem(u.name # Empty /\ a.name # u.name, "name")
Drift(t, u, a) ==
  Problem(a.enabled = u.blocked, "blocked")
  \cup Problem(t \in {"auth0", "cognito", "firebase"} /\ u.emails # <<>> /\ a.verified # u.emails[1].verified,
               "email_verified")
  \cup (IF t = "auth0" THEN UserDrift(u, a) ELSE {})
=============================================================================
