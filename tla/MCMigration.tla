----------------------------- MODULE MCMigration -----------------------------
(* Records of every source, with passwords, factors and metadata of each     *)
(* kind, and ways to migrate them.                                           *)
EXTENDS Migration

Salt == Bytes("salt", 16)
Key(n) == Bytes("key", n)
Hash(as, params, n) == PHC(as, params, Text("raw64", Salt), Text("raw64", Key(n)))
Argon(variant) == [variant |-> variant, version |-> 19, memory |-> 65536, passes |-> 3]
PBKDF2(digest) == [digest |-> digest, iterations |-> 600000]
Derived(params, n) ==
  Check("pbkdf2", Key(n), Salt, "", [digest |-> params.digest, iterations |-> params.iterations, keylen |-> n])
Argon2(variant) == Check("argon2", Key(32), Salt, "", Argon(variant))
Digest(alg, n, salt, pos) == Check(alg, Bytes("digest", n), salt, pos, NoParams)
Config == [signer |-> Bytes("signer", 64), separator |-> Bytes("separator", 1), rounds |-> 8, memCost |-> 14]
HMAC == [Password("hmac", Value(Text("hex", Key(32)), "hex")) EXCEPT
           !.digest = "sha256", !.key = B64(Bytes("secret", 32))]

Unsalted == [Password("scrypt", Value(Text("hex", Key(32)), "hex")) EXCEPT
               !.params = [cost |-> 2 ^ 14, blockSize |-> 8, parallelization |-> 1, keylen |-> 32]]

Secret(type, of, params) == [type |-> type, of |-> of, params |-> params]
Meta(from, key, v) == [from |-> from, key |-> key, v |-> v]
App == Meta("app_metadata", "plan", "gold")
Usr == Meta("user_metadata", "lang", "fr")

\* A record, and what is true of it.
Record(source, record, checks, factors, metadata) ==
  [source |-> source, record |-> record, answers |-> NoAnswers, config |-> {Config},
   checks |-> checks, factors |-> factors, metadata |-> metadata]

Row(hash) ==
  [NewRow("u1") EXCEPT !.email = "ann@x", !.username = "ann", !.name = "Ann", !.password = {hash},
     !.columns = (<<"", "plan">> :> "gold") @@ (<<"user_metadata.", "lang">> :> "fr")]
Raw(alg, n) == [Row(Text("hex", Bytes("digest", n))) EXCEPT !.alg = alg]
Flat(row, checks) == Record("flatfile", row, checks, {}, {App, Usr})
FlatAnswered(row, answers, checks) == [Flat(row, checks) EXCEPT !.answers = answers]

Flats ==
  [bcrypt |-> Flat(Row(Bcrypt("2b", 10)), {BcryptCheck(Bcrypt("2b", 10))}),
   argon2id |-> Flat(Row(Hash("argon2", Argon("argon2id"), 32)), {Argon2("argon2id")}),
   argon2i |-> Flat(Row(Hash("argon2", Argon("argon2i"), 32)), {Argon2("argon2i")}),
   pbkdf2_64 |-> Flat(Row(Hash("pbkdf2", PBKDF2("sha512"), 64)), {Derived(PBKDF2("sha512"), 64)}),
   pbkdf2_32 |-> Flat(Row(Hash("pbkdf2", PBKDF2("sha256"), 32)), {Derived(PBKDF2("sha256"), 32)}),
   scrypt |-> Flat(Row(Hash("scrypt", [ln |-> 14, r |-> 8, p |-> 1], 32)),
                   {Check("scrypt", Key(32), Salt, "",
                          [cost |-> 2 ^ 14, keylen |-> 32, blockSize |-> 8, parallelization |-> 1])}),
   ldap |-> Flat(Row(LDAP("SSHA")), {Check("ldap", Bytes("SSHA", 0), NoBytes, "", NoParams)}),
   crypt |-> Flat(Row(LDAP("CRYPT")), {}),
   sha256 |-> Flat(Raw("sha256", 32), {Digest("sha256", 32, NoBytes, "")}),
   salted |-> Flat([Raw("md5", 16) EXCEPT !.salt = Value(Text("hex", Salt), "hex")],
                   {Digest("md5", 16, Salt, "suffix")}),
   prefixed |-> Flat([Raw("sha1", 20) EXCEPT !.salt = Value(Text("utf8", Salt), "utf8"), !.pos = "prefix"],
                     {Digest("sha1", 20, Salt, "prefix")}),
   truncated |-> Flat(Raw("sha512", 32), {}),
   unknown |-> Flat(Raw("", 32), {}),
   detected |-> FlatAnswered([Row(Text("hex", Key(32))) EXCEPT !.alg = ""],
                             [NoAnswers EXCEPT !.password = {HMAC}],
                             {Check("hmac", Key(32), NoBytes, "",
                                    [digest |-> "sha256", secret |-> Bytes("secret", 32)])}),
   unsalted |-> FlatAnswered(Raw("", 32), [NoAnswers EXCEPT !.password = {Unsalted}],
                             {Check("scrypt", Key(32), NoBytes, "", Unsalted.params)}),
   skipped |-> FlatAnswered(Raw("", 32), [NoAnswers EXCEPT !.skip = TRUE], {}),
   unnamed |-> Flat([Row(Bcrypt("2a", 12)) EXCEPT !.id = ""], {}),
   named |-> FlatAnswered([Row(Bcrypt("2a", 12)) EXCEPT !.id = ""], [NoAnswers EXCEPT !.sourceID = "u2"],
                          {BcryptCheck(Bcrypt("2a", 12))}),
   unwanted |-> FlatAnswered(Row(Bcrypt("2a", 12)), [NoAnswers EXCEPT !.action = "drop"], {}),
   twoPlans |-> [Flat([Row(Bcrypt("2b", 10)) EXCEPT !.columns = @ @@ (<<"app_metadata.", "plan">> :> "silver")],
                      {BcryptCheck(Bcrypt("2b", 10))}) EXCEPT !.metadata = {Usr}],
   nameless |-> Flat([Row(Bcrypt("2b", 10)) EXCEPT !.email = "", !.username = "  "],
                     {BcryptCheck(Bcrypt("2b", 10))})]

Identity(hash) ==
  [NewIdentity("u1") EXCEPT
     !.traits = [email |-> "ann@x", username |-> "ann", phone |-> "+1555"], !.verified = {"ann@x"},
     !.active = FALSE, !.admin = [plan |-> "gold"], !.public = [lang |-> "fr"], !.password = {hash},
     !.totp = {Factor("totp", "uri", "seed", "8 digits", "", TRUE)}]
Krato(hash, checks) ==
  Record("kratos", Identity(hash), checks, {Secret("totp", "seed", "8 digits")}, {App, Usr})
Kratos ==
  [k_bcrypt |-> Krato(Bcrypt("2a", 12), {BcryptCheck(Bcrypt("2a", 12))}),
   k_argon2 |-> Krato(Hash("argon2", Argon("argon2id"), 32), {Argon2("argon2id")}),
   k_nohash |-> Krato(Text("none", NoBytes), {})]

Representation ==
  [NewRepresentation("u1") EXCEPT
     !.username = "ann@x", !.email = "ann@x", !.verified = TRUE, !.name = "Ann",
     !.attributes = [lang |-> "fr", phoneNumber |-> "+1555"]]
Keycloaked(r, checks, factors) == Record("keycloak", r, checks, factors, {Usr})
Keycloaks ==
  [kc_pbkdf2 |-> Keycloaked([Representation EXCEPT !.passwords = {Derived(PBKDF2("sha512"), 64)},
                                                   !.otp = <<OTP("totp", "seed", "")>>],
                            {Derived(PBKDF2("sha512"), 64)}, {Secret("totp", "seed", "")}),
   kc_argon2 |-> Keycloaked([Representation EXCEPT !.passwords = {Argon2("argon2id")}, !.username = "ann",
                                                   !.otp = <<OTP("totp", "seed", "8 digits")>>],
                            {Argon2("argon2id")}, {Secret("totp", "seed", "8 digits")}),
   kc_two |-> Keycloaked([Representation EXCEPT
                            !.otp = <<OTP("totp", "seed", ""), OTP("hotp", "counter", ""), OTP("totp", "new", "")>>],
                         {}, {Secret("totp", "seed", ""), Secret("totp", "new", "")}),
   kc_codes |-> Keycloaked([Representation EXCEPT !.others = <<"recovery_codes", "webauthn">>, !.enabled = FALSE],
                           {}, {Secret("recovery_codes", "", ""), Secret("webauthn", "", "")}),
   kc_phone |-> Keycloaked([Representation EXCEPT !.email = "", !.username = "ann"], {}, {}),
   kc_admin |-> Keycloaked([Representation EXCEPT !.passwords = {Check("none", NoBytes, NoBytes, "", NoParams)}],
                           {}, {}),
   kc_service |-> Keycloaked([Representation EXCEPT !.service = TRUE], {}, {})]

Local ==
  [NewFirebaseAccount("u1") EXCEPT
     !.email = "ann@x", !.verified = TRUE, !.phone = "+1555", !.name = "Ann", !.claims = [plan |-> "gold"],
     !.hash = Key(64), !.salt = Salt]
Enrolled(type, of, masked) == [type |-> type, of |-> of, masked |-> masked]
Modified == {Check("firebase", Key(64), Salt, "", Config)}
Fire(r, checks, factors) == Record("firebase", r, checks, factors, {App})
Fires ==
  [fb_full |-> Fire([Local EXCEPT !.mfa = <<Enrolled("sms", "+1555", FALSE)>>], Modified,
                    {Secret("sms", "+1555", "")}),
   fb_noconfig |-> [Fire(Local, Modified, {}) EXCEPT !.config = {}],
   fb_masked |-> Fire([Local EXCEPT !.mfa = <<Enrolled("totp", "", FALSE), Enrolled("sms", "+1***5", TRUE)>>],
                      Modified, {Secret("totp", "", ""), Secret("sms", "+1***5", "")}),
   fb_nosalt |-> Fire([Local EXCEPT !.salt = NoBytes], {}, {}),
   fb_anonymous |-> Fire([Local EXCEPT !.email = "", !.phone = ""], {}, {})]

A0 == [id |-> "auth0|u1", email |-> "ann@x", verified |-> TRUE, username |-> "ann", phone |-> "+1555",
       phoneVerified |-> TRUE, name |-> "Ann", blocked |-> TRUE, app |-> [plan |-> "gold"], user |-> [lang |-> "fr"]]
Graph == [id |-> "u1", identities |-> <<[type |-> "userName", of |-> "ann"], [type |-> "emailAddress", of |-> "ann@x"],
                                        [type |-> "federated", of |-> "gold"]>>,
          mail |-> "ann@x", otherMails |-> <<"ann@y">>, mobile |-> "+1555", name |-> "Ann", enabled |-> TRUE,
          extensions |-> [lang |-> "fr"]]
Hashless ==
  [a_full |-> Record("auth0", A0, {}, {}, {App, Usr}),
   a_noid |-> Record("auth0", [A0 EXCEPT !.id = ""], {}, {}, {}),
   z_full |-> Record("azure-ad-b2c", Graph, {}, {}, {Meta("app_metadata", "federated_identities", "gold"), Usr}),
   z_names |-> Record("azure-ad-b2c", [Graph EXCEPT !.mail = "", !.otherMails = <<>>, !.identities = SubSeq(@, 1, 1)],
                      {}, {}, {Usr}),
   z_none |-> Record("azure-ad-b2c", [Graph EXCEPT !.mail = "", !.otherMails = <<>>, !.identities = <<>>, !.mobile = ""],
                     {}, {}, {})]

MCCaseOf == Flats @@ Kratos @@ Keycloaks @@ Fires @@ Hashless
MCCases == DOMAIN MCCaseOf

(***************************************************************************)
(* The ways to migrate.                                                    *)
(***************************************************************************)
Plainly == [primary |-> "none", ids |-> "none", places |-> {}, edit |-> "keep", others |-> {}]
Other(id, email, username) == [NewUser(id) EXCEPT !.emails = <<Contact(email, TRUE, TRUE)>>, !.username = username]
Bystander == Other("u3", "bob@x", "bob")

MCAllOptions ==
  {[Plainly EXCEPT !.primary = s, !.edit = e] : s \in Strategies \cup {"none"}, e \in {"keep", "replace"}}
  \cup {[Plainly EXCEPT !.edit = "drop"]}
  \cup {[Plainly EXCEPT !.ids = i, !.others = {Bystander}] : i \in {"none", "prefix", "handler"}}
  \cup {[Plainly EXCEPT !.others = {o}] :
          o \in {Other("u3", "ann@x", "bob"), Other("u3", "bob@x", "ann"), Other("u3", "bob@x", "ann@x"),
                 [Bystander EXCEPT !.phones = <<Contact("+1555", TRUE, TRUE)>>]}}
  \cup {[Plainly EXCEPT !.places = {p}] :
          p \in {Place("app_metadata", "plan", to, static) :
                   to \in {Drop, Field("custom_claims", "tier", ""), Field("user_metadata", "tier", ""),
                           Field("attributes", "tier", ""), Field("custom", "tier", "")}, static \in BOOLEAN}
                \cup {Place("user_metadata", "lang", to, TRUE) :
                        to \in {Field("profile", "name", ""), Field("traits", "locale", "")}}}

Strings == {"", "  ", "ann", "bob", "ann@x", "ann@y", "bob@x", "+1555", "u1", "u2", "u3", "auth0|u1",
            "p-u1", "p-u2", "p-u3", "same"}
MCShape ==
  [s \in Strings |-> CASE s \in {"ann@x", "ann@y", "bob@x"} -> "address" [] s = "+1555" -> "number"
                       [] s \in {"", "  "} -> "blank" [] OTHER -> "name"]
MCSize == [s \in Strings |-> IF s = "" THEN 0 ELSE 2]
MCUnprefixed == [s \in Strings |-> IF s = "auth0|u1" THEN "u1" ELSE s]
MCAssigned ==
  [s \in {"u1", "u2", "u3", "auth0|u1", "handler"} |->
     CASE s = "handler" -> "same" [] s = "u2" -> "p-u2" [] s = "u3" -> "p-u3" [] OTHER -> "p-u1"]
=============================================================================
