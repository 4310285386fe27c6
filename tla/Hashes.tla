------------------------------- MODULE Hashes -------------------------------
(***************************************************************************)
(* Password hashes (pkg/hash): how an inbound hash is recognised and made  *)
(* a CMF password, and how a CMF password is made what Auth0, Kratos,      *)
(* Keycloak and Firebase accept.                                           *)
(*                                                                         *)
(* Bytes are a name and a length; a text is what it is written as and the  *)
(* bytes it stands for.  What matters of a translation is what the target  *)
(* will verify passwords with: a Check, the function, its key, salt and    *)
(* parameters.  What an operator refuses is Refused(why).                  *)
(***************************************************************************)
EXTENDS Naturals

Empty == ""  \* Go's zero value of a string: absent

Refused(why) == [error |-> why]
Ok(x) == "error" \notin DOMAIN x

Bytes(of, n) == [of |-> of, n |-> n]
NoBytes == Bytes("none", 0)
Text(as, bytes) == [as |-> as, bytes |-> bytes]
\* An encoded value of a password: its text, and the encoding it says it has.
Value(text, enc) == [text |-> text, enc |-> enc]
NoValue == Value(Text("none", NoBytes), "none")

Base64 == {"base64", "raw64", "url64"}  \* padded, unpadded, and of the URL alphabet
Undecodable == Bytes("undecodable", 0)

\* Hexadecimal digits are valid base64 too, of other bytes.
DecodeBinary(v) ==
  CASE v.text.as = "none" -> IF v.enc \in {"hex", "base64"} THEN NoBytes ELSE Undecodable
    [] v.enc = "hex" /\ v.text.as = "hex" -> v.text.bytes
    [] v.enc = "base64" /\ v.text.as \in Base64 -> v.text.bytes
    [] v.enc = "base64" /\ v.text.as = "hex" -> Bytes("garbled", (3 * v.text.bytes.n) \div 2)
    [] OTHER -> Undecodable
DecodeBytes(v) ==
  IF v.enc # "utf8" THEN DecodeBinary(v)
  ELSE IF v.text.as = "utf8" THEN v.text.bytes ELSE Bytes("characters", v.text.bytes.n)

B64(bytes) == Value(Text("base64", bytes), "base64")
B64Raw(bytes) == Value(Text("raw64", bytes), "base64")

(***************************************************************************)
(* Hashes as sources hold them: a bcrypt string of a variant and a cost,   *)
(* an LDAP value of a scheme, a PHC string, or the text of a raw digest.   *)
(***************************************************************************)
Bcrypt(variant, cost) == Text("bcrypt", Bytes(variant, cost))
LDAP(scheme) == Text("ldap", Bytes(scheme, 0))
PHC(as, params, salt, key) ==
  [as |-> as, bytes |-> NoBytes, params |-> params, salt |-> salt, key |-> key]

NoParams == [none |-> TRUE]
Password(alg, hash) ==
  [alg |-> alg, hash |-> hash, digest |-> Empty, phc |-> Text("none", NoBytes), salt |-> NoValue,
   pos |-> Empty, key |-> NoValue, params |-> NoParams, portable |-> TRUE]

\* intParam: 0 when the parameter is missing (or no whole number).
Param(p, k) == IF k \in DOMAIN p.params THEN p.params[k] ELSE 0
Name(p, k) == IF k \in DOMAIN p.params THEN p.params[k] ELSE Empty

NoHint == [alg |-> Empty, enc |-> Empty, salt |-> NoBytes, pos |-> Empty, key |-> NoBytes, digest |-> Empty]

RawDigests == {"md4", "md5", "sha1", "sha256", "sha512"}
DigestSize(alg) ==
  CASE alg \in {"md4", "md5"} -> 16 [] alg = "sha1" -> 20 [] alg = "sha256" -> 32
    [] alg = "sha512" -> 64

\* The digest in a canonical form, in the encoding given or else the one it looks like.
DetectDigestEncoding(raw, given) ==
  CASE given \in {"hex", "base64"} ->
         LET b == DecodeBinary(Value(raw, given)) IN
         IF b = Undecodable THEN Refused("encoding")
         ELSE Value(Text(given, b), given)
    [] given \notin {Empty, "hex", "base64"} -> Refused("encoding")
    [] given = Empty /\ raw.as = "hex" -> Value(raw, "hex")
    [] given = Empty /\ raw.as = "base64" -> Value(raw, "base64")
    [] OTHER -> Refused("encoding")

NormalizeRawDigest(raw, hint) ==
  LET v == DetectDigestEncoding(raw, hint.enc) IN
  CASE hint.alg \notin RawDigests \cup {"hmac"} -> Refused("algorithm")
    [] ~Ok(v) -> v
    [] hint.alg \in RawDigests /\ DecodeBinary(v).n # DigestSize(hint.alg) -> Refused("size")
    [] hint.alg = "hmac" /\ (hint.key = NoBytes \/ hint.digest = Empty) -> Refused("hmac")
    [] OTHER ->
         [Password(hint.alg, v) EXCEPT
            !.digest = IF hint.alg = "hmac" THEN hint.digest ELSE Empty,
            !.key = IF hint.alg = "hmac" THEN B64(hint.key) ELSE NoValue,
            !.salt = IF hint.salt = NoBytes THEN NoValue ELSE B64(hint.salt),
            !.pos = IF hint.salt = NoBytes THEN Empty ELSE IF hint.pos = Empty THEN "suffix" ELSE hint.pos]

Normalize(raw, hint) ==
  CASE raw.as = "bcrypt" -> Password("bcrypt", Value(raw, "utf8"))
    [] raw.as = "argon2" ->
         [Password("argon2", Value(raw.key, "base64")) EXCEPT
            !.phc = raw, !.salt = Value(raw.salt, "base64"), !.pos = "prefix", !.params = raw.params]
    [] raw.as = "scrypt" ->
         [Password("scrypt", Value(raw.key, "base64")) EXCEPT
            !.salt = Value(raw.salt, "base64"), !.pos = "prefix",
            !.params = [cost |-> 2 ^ raw.params.ln, blockSize |-> raw.params.r,
                        parallelization |-> raw.params.p]]
    [] raw.as = "pbkdf2" ->
         [Password("pbkdf2", Value(raw.key, "base64")) EXCEPT
            !.digest = raw.params.digest, !.salt = Value(raw.salt, "base64"), !.pos = "prefix",
            !.params = raw.params]
    [] raw.as = "ldap" -> IF raw.bytes.of = "CRYPT" THEN Refused("crypt")
                          ELSE Password("ldap", Value(raw, "utf8"))
    [] OTHER -> IF hint.alg = Empty THEN Refused("ambiguous") ELSE NormalizeRawDigest(raw, hint)

Algorithms == RawDigests \cup {"bcrypt", "scrypt", "pbkdf2", "argon2", "hmac", "ldap"}

\* Validate: a password that came from a handler is one the translators can work with.
ValidPassword(p) ==
  /\ p.alg \in Algorithms
  /\ p.hash.text.as # "none"
  /\ \/ p.hash.enc \in {"hex", "base64"} /\ DecodeBinary(p.hash) # Undecodable
        /\ p.alg \in RawDigests => DecodeBinary(p.hash).n = DigestSize(p.alg)
     \/ p.hash.enc = "utf8" /\ p.alg \notin RawDigests \cup {"hmac"}
  /\ p.alg = "bcrypt" => p.hash.text.as = "bcrypt"
  /\ p.alg = "hmac" => p.key.text.as # "none" /\ DecodeBytes(p.key) # Undecodable /\ p.digest # Empty
  /\ p.salt # NoValue => DecodeBytes(p.salt) # Undecodable /\ p.pos \in {Empty, "prefix", "suffix"}
  /\ p.phc.as # "none" => LET got == Normalize(p.phc, NoHint) IN Ok(got) /\ got.alg = p.alg

(***************************************************************************)
(* What a target verifies passwords with.                                  *)
(***************************************************************************)
Check(kdf, key, salt, pos, params) ==
  [kdf |-> kdf, key |-> key, salt |-> salt, pos |-> pos, params |-> params]
SameCheck(a, b) == a.kdf = b.kdf /\ a = b

BcryptCheck(text) == Check("bcrypt", text.bytes, NoBytes, Empty, NoParams)
ArgonCheck(phc) ==
  Check("argon2", DecodeBinary(Value(phc.key, "base64")), DecodeBinary(Value(phc.salt, "base64")),
        Empty, phc.params)

PowerOfTwo(n) == n \in {2 ^ i : i \in 1..20}

\* Auth0's bulk import: its salts may be missing.
SaltPayload(p) == IF p.salt = NoValue THEN NoBytes ELSE DecodeBytes(p.salt)
TranslateScrypt(p) ==
  CASE Name(p, "variant") = "firebase" -> Refused("firebase scrypt")
    [] p.hash.enc \notin {"hex", "base64"} -> Refused("encoding")
    [] Param(p, "keylen") = 0 -> Refused("keylen")
    [] ~PowerOfTwo(Param(p, "cost")) -> Refused("cost")
    [] OTHER ->
         Check("scrypt", DecodeBinary(p.hash), SaltPayload(p), Empty,
               [cost |-> Param(p, "cost"), keylen |-> Param(p, "keylen"),
                blockSize |-> IF Param(p, "blockSize") = 0 THEN 8 ELSE Param(p, "blockSize"),
                parallelization |-> IF Param(p, "parallelization") = 0 THEN 1
                                    ELSE Param(p, "parallelization")])

\* Auth0 takes more digests; these are the ones a CMF password can name.
Auth0Digests == {"md4", "md5", "sha1", "sha256", "sha512"}
DefaultIterations == 100000
DefaultKeylen == 64
TranslatePBKDF2(p) ==
  CASE p.salt = NoValue -> Refused("salt")
    [] Name(p, "digest") \notin Auth0Digests -> Refused("digest")
    [] DecodeBytes(p.salt) = Undecodable -> Refused("salt")
    [] DecodeBytes(p.hash) = Undecodable -> Refused("hash")
    [] OTHER ->
         Check("pbkdf2", DecodeBytes(p.hash), DecodeBytes(p.salt), Empty,
               [digest |-> Name(p, "digest"),
                iterations |-> IF Param(p, "iterations") = 0 THEN DefaultIterations
                               ELSE Param(p, "iterations"),
                keylen |-> IF Param(p, "keylen") = 0 THEN DefaultKeylen ELSE Param(p, "keylen")])

\* A salt without a position is a prefix to Auth0.
TranslateDigest(p) ==
  IF p.hash.enc \notin {"hex", "base64"} THEN Refused("encoding")
  ELSE Check(p.alg, DecodeBinary(p.hash), SaltPayload(p),
             IF p.salt # NoValue /\ p.pos = Empty THEN "prefix" ELSE p.pos, NoParams)
TranslateHMAC(p) ==
  IF p.digest = Empty \/ p.key.text.as = "none" THEN Refused("hmac")
  ELSE Check("hmac", DecodeBytes(p.hash), NoBytes, Empty, [digest |-> p.digest, secret |-> DecodeBytes(p.key)])
Auth0Schemes == {"MD5", "SMD5", "SHA", "SSHA"}
TranslateLDAP(p) ==
  IF p.hash.text.as = "ldap" /\ p.hash.text.bytes.of \in Auth0Schemes
  THEN Check("ldap", p.hash.text.bytes, NoBytes, Empty, NoParams) ELSE Refused("scheme")

TranslateBcrypt(p) ==
  IF p.hash.text.as = "bcrypt" THEN BcryptCheck(p.hash.text) ELSE Refused("prefix")
ToAuth0(p) ==
  IF ~p.portable THEN Refused("non-portable")
  ELSE CASE p.alg = "bcrypt" -> TranslateBcrypt(p)
         [] p.alg = "scrypt" -> TranslateScrypt(p)
         [] p.alg = "pbkdf2" -> TranslatePBKDF2(p)
         [] p.alg = "argon2" -> IF p.phc.as = "none" THEN Refused("phc") ELSE ArgonCheck(p.phc)
         [] p.alg \in RawDigests -> TranslateDigest(p)
         [] p.alg = "hmac" -> TranslateHMAC(p)
         [] p.alg = "ldap" -> TranslateLDAP(p)
         [] OTHER -> Refused("algorithm")

ToKratosHashedPassword(p) ==
  IF ~p.portable THEN Refused("non-portable")
  ELSE CASE p.alg = "bcrypt" -> TranslateBcrypt(p)
         [] p.alg = "argon2" -> IF p.phc.as = "argon2" /\ p.phc.params.variant = "argon2id"
                                THEN ArgonCheck(p.phc) ELSE Refused("argon2id")
         [] OTHER -> Refused("algorithm")

(***************************************************************************)
(* Keycloak's credentials: a provider, iterations, a key and a salt, and   *)
(* Argon2's own parameters.  It derives a key as long as the stored one.   *)
(***************************************************************************)
KeycloakPBKDF2Digest(p) == IF Name(p, "digest") = Empty THEN p.digest ELSE Name(p, "digest")
KeycloakVersions == {16, 19}
TranslateKeycloakPBKDF2(p) ==
  CASE KeycloakPBKDF2Digest(p) \notin {"sha1", "sha256", "sha512"} -> Refused("digest")
    [] Param(p, "iterations") = 0 -> Refused("iterations")
    [] p.salt = NoValue -> Refused("salt")
    [] Undecodable \in {DecodeBinary(p.hash), DecodeBinary(p.salt)} -> Refused("encoding")
    [] OTHER -> Check("pbkdf2", DecodeBinary(p.hash), DecodeBinary(p.salt), Empty,
                      [digest |-> KeycloakPBKDF2Digest(p), iterations |-> Param(p, "iterations"),
                       keylen |-> DecodeBinary(p.hash).n])
TranslateKeycloakArgon2(p) ==
  IF p.phc.as # "argon2" THEN Refused("phc")
  ELSE CASE p.phc.params.version \notin KeycloakVersions -> Refused("version")
         [] Undecodable \in {ArgonCheck(p.phc).key, ArgonCheck(p.phc).salt} -> Refused("encoding")
         [] OTHER -> ArgonCheck(p.phc)
ToKeycloakCredential(p) ==
  IF ~p.portable THEN Refused("non-portable")
  ELSE CASE p.alg = "pbkdf2" -> TranslateKeycloakPBKDF2(p)
         [] p.alg = "argon2" -> TranslateKeycloakArgon2(p)
         [] OTHER -> Refused("algorithm")

\* The inverse: what kc.sh export wrote of a credential that verifies as c.
NormalizeKeycloakCredential(c) ==
  CASE c.kdf = "pbkdf2" ->
         LET p == Normalize(PHC("pbkdf2", [digest |-> c.params.digest, iterations |-> c.params.iterations],
                                B64Raw(c.salt).text, B64Raw(c.key).text), NoHint)
         IN [p EXCEPT !.params = [digest |-> c.params.digest, iterations |-> c.params.iterations,
                                  keylen |-> c.key.n]]
    [] c.kdf = "argon2" /\ c.params.version \in KeycloakVersions ->
         Normalize(PHC("argon2", c.params, B64Raw(c.salt).text, B64Raw(c.key).text), NoHint)
    [] OTHER -> Refused("provider")

(***************************************************************************)
(* Firebase: bcrypt, scrypt, and a modified scrypt whose signer key, salt  *)
(* separator, rounds and memory cost are those of the whole project.       *)
(***************************************************************************)
MaxRounds == 8
MaxMemCost == 14
ValidConfig(cfg) ==
  /\ cfg.signer # NoBytes /\ cfg.signer # Undecodable /\ cfg.separator # Undecodable
  /\ cfg.rounds \in 1..MaxRounds /\ cfg.memCost \in 1..MaxMemCost

NormalizeFirebaseScrypt(hash, salt, cfg) ==
  CASE ~ValidConfig(cfg) -> Refused("configuration")
    [] hash \in {NoBytes, Undecodable} -> Refused("hash")
    [] salt \in {NoBytes, Undecodable} -> Refused("salt")
    [] OTHER -> [Password("scrypt", B64Raw(hash)) EXCEPT
                   !.salt = B64Raw(salt), !.key = B64(cfg.signer),
                   !.params = [variant |-> "firebase", salt_separator |-> cfg.separator,
                               rounds |-> cfg.rounds, mem_cost |-> cfg.memCost]]

FirebaseScryptParams(p) ==
  LET cfg == [signer |-> DecodeBinary(p.key),
              separator |-> IF "salt_separator" \in DOMAIN p.params THEN p.params.salt_separator
                            ELSE NoBytes,
              rounds |-> Param(p, "rounds"), memCost |-> Param(p, "mem_cost")]
  IN CASE p.key = NoValue -> Refused("signer key")
       [] ~ValidConfig(cfg) -> Refused("configuration")
       [] OTHER -> cfg

TranslateFirebaseScrypt(p) ==
  LET cfg == FirebaseScryptParams(p) IN
  IF Ok(cfg) THEN Check("firebase", DecodeBinary(p.hash), DecodeBinary(p.salt), Empty, cfg) ELSE cfg
TranslateStandardScrypt(p) ==
  CASE ~PowerOfTwo(Param(p, "cost")) -> Refused("cost")
    [] 0 \in {Param(p, "blockSize"), Param(p, "parallelization")} -> Refused("parameters")
    [] OTHER -> Check("scrypt", DecodeBinary(p.hash), DecodeBinary(p.salt), Empty,
                      [cost |-> Param(p, "cost"), keylen |-> DecodeBinary(p.hash).n,
                       blockSize |-> Param(p, "blockSize"),
                       parallelization |-> Param(p, "parallelization")])
ToFirebaseHash(p) ==
  IF ~p.portable THEN Refused("non-portable")
  ELSE CASE p.alg = "bcrypt" -> TranslateBcrypt(p)
         [] p.alg = "scrypt" ->
              IF DecodeBinary(p.hash) = Undecodable THEN Refused("hash")
              ELSE IF p.salt = NoValue \/ DecodeBinary(p.salt) = Undecodable THEN Refused("salt")
              ELSE IF Name(p, "variant") = "firebase" THEN TranslateFirebaseScrypt(p)
              ELSE TranslateStandardScrypt(p)
         [] OTHER -> Refused("algorithm")

-----------------------------------------------------------------------------
\* What a password of the file verifies with, whatever the target: the translations are
\* held to it.  Its digest is among the parameters or beside the hash.
SaltPosition(p) == IF p.salt # NoValue /\ p.pos = Empty THEN "prefix" ELSE p.pos
Keylen(p) == IF Param(p, "keylen") = 0 THEN DecodeBytes(p.hash).n ELSE Param(p, "keylen")
Project(p) ==
  [signer |-> DecodeBytes(p.key), rounds |-> Param(p, "rounds"), memCost |-> Param(p, "mem_cost"),
   separator |-> IF "salt_separator" \in DOMAIN p.params THEN p.params.salt_separator ELSE NoBytes]
Verifies(p) ==
  CASE p.alg = "bcrypt" -> BcryptCheck(p.hash.text)
    [] p.alg = "argon2" -> ArgonCheck(p.phc)
    [] p.alg = "ldap" -> Check("ldap", p.hash.text.bytes, NoBytes, Empty, NoParams)
    [] p.alg = "scrypt" /\ Name(p, "variant") = "firebase" ->
         Check("firebase", DecodeBytes(p.hash), SaltPayload(p), Empty, Project(p))
    [] p.alg = "scrypt" /\ Name(p, "variant") # "firebase" ->
         Check("scrypt", DecodeBytes(p.hash), SaltPayload(p), Empty,
               [cost |-> Param(p, "cost"), keylen |-> Keylen(p), blockSize |-> Param(p, "blockSize"),
                parallelization |-> Param(p, "parallelization")])
    [] p.alg = "pbkdf2" ->
         Check("pbkdf2", DecodeBytes(p.hash), SaltPayload(p), Empty,
               [digest |-> KeycloakPBKDF2Digest(p), iterations |-> Param(p, "iterations"),
                keylen |-> Keylen(p)])
    [] p.alg = "hmac" ->
         Check("hmac", DecodeBytes(p.hash), SaltPayload(p), SaltPosition(p),
               [digest |-> p.digest, secret |-> DecodeBytes(p.key)])
    [] p.alg \in RawDigests ->
         Check(p.alg, DecodeBytes(p.hash), SaltPayload(p), SaltPosition(p), NoParams)

\* A check that a password can pass: the key is as long as the function makes it, and no
\* number is missing.
Derivable(c) ==
  /\ c.kdf \in {"pbkdf2", "scrypt"} => c.params.keylen = c.key.n
  /\ c.kdf = "pbkdf2" => c.params.iterations # 0
  /\ c.kdf = "scrypt" => 0 \notin {c.params.blockSize, c.params.parallelization}
=============================================================================
