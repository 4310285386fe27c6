------------------------------- MODULE Sources -------------------------------
(***************************************************************************)
(* What each source connector makes of a record: a CMF user, or the reason *)
(* the manifest gives for skipping it, Refused(why).  (The order of the    *)
(* columns of a row is not fixed, so it has a set of outcomes.)            *)
(***************************************************************************)
EXTENDS Targets, SequencesExt

Primary(v, verified) == IF v = Empty THEN <<>> ELSE <<Contact(v, verified, TRUE)>>

(***************************************************************************)
(* Flat files.  A row names its user and the password columns; any other   *)
(* column is <<prefix, key>>, the prefix Empty or that of one of the metadata.*)
(***************************************************************************)
NewRow(id) ==
  [id |-> id, email |-> Empty, verified |-> Empty, username |-> Empty, name |-> Empty, blocked |-> FALSE,
   password |-> {}, alg |-> Empty, enc |-> Empty, salt |-> NoValue, pos |-> Empty, columns |-> <<>>]
\* What the handlers of export.record, id.source and hash.detect answer for a row.
NoAnswers == [action |-> "keep", record |-> NewRow(Empty), sourceID |-> Empty, skip |-> FALSE, password |-> {}]

PasswordHint(row) ==
  CASE row.alg \notin Algorithms \cup {Empty} -> Refused("password_algorithm")
    [] row.enc \notin {Empty, "hex", "base64"} -> Refused("password_encoding")
    [] row.salt # NoValue /\ row.salt.enc \notin {"hex", "base64", "utf8"} -> Refused("salt encoding")
    [] row.salt # NoValue /\ DecodeBytes(row.salt) = Undecodable -> Refused("password_salt")
    [] row.pos \notin {Empty, "prefix", "suffix"} -> Refused("password_salt_position")
    [] OTHER -> [NoHint EXCEPT !.alg = row.alg, !.enc = row.enc, !.pos = row.pos,
                               !.salt = IF row.salt = NoValue THEN NoBytes ELSE DecodeBytes(row.salt)]
ReadPassword(row, hash) ==
  LET hint == PasswordHint(row) IN IF Ok(hint) THEN Normalize(hash, hint) ELSE hint

\* The handler of hash.detect decides of a password that the columns do not settle.
DetectHashes(row, hash, answers) ==
  LET read == ReadPassword(row, hash) IN
  CASE Ok(read) \/ (~answers.skip /\ answers.password = {}) -> read
    [] ~Ok(read) /\ answers.skip -> Refused("skip")
    [] OTHER -> LET p == CHOOSE q \in answers.password : TRUE IN
                IF ValidPassword(p) THEN p ELSE Refused("hash.detect")

\* Of a column and one of the same name under app_metadata. the last to come is left.
AppMetadata(columns) ==
  LET paths == {p \in DOMAIN columns : p[1] # "user_metadata." /\ columns[p] # Empty}
  IN {f \in [{p[2] : p \in paths} -> {columns[p] : p \in paths}] :
        \A k \in DOMAIN f : \E p \in paths : p[2] = k /\ columns[p] = f[k]}
UserMetadata(columns) ==
  [k \in {p[2] : p \in {q \in DOMAIN columns : q[1] = "user_metadata." /\ columns[q] # Empty}} |->
     columns[<<"user_metadata.", k>>]]

RowToUser(row, passwords) ==
  {[NewUser(row.id) EXCEPT
      !.emails = Primary(row.email, row.verified \in {Empty, "true"}), !.username = row.username,
      !.name = row.name, !.blocked = row.blocked, !.password = passwords,
      !.app = app, !.user = UserMetadata(row.columns)] : app \in AppMetadata(row.columns)}

\* export.record keeps, replaces or drops the row as it was read; id.source may name it.
ExportRecord(row, answers) == IF answers.action = "replace" THEN answers.record ELSE row
IdSource(row, answers) == IF answers.sourceID = Empty THEN row ELSE [row EXCEPT !.id = answers.sourceID]
FromRow(r, answers) ==
  LET row == IdSource(ExportRecord(r, answers), answers)
      passwords == {DetectHashes(row, hash, answers) : hash \in row.password}
  IN CASE answers.action = "drop" -> {Refused("export.record")}
       [] row.id = Empty -> {Refused("missing source_id")}
       [] \E p \in passwords : ~Ok(p) -> {p \in passwords : ~Ok(p)}
       [] OTHER -> RowToUser(row, passwords)

(***************************************************************************)
(* Kratos: only the identifier traits are read, and a password that cannot *)
(* be recognised skips the identity.                                       *)
(***************************************************************************)
NewIdentity(id) ==
  [id |-> id, traits |-> <<>>, verified |-> {}, active |-> TRUE, admin |-> <<>>, public |-> <<>>,
   password |-> {}, totp |-> {}]
Trait(r, k) == IF k \in DOMAIN r.traits THEN r.traits[k] ELSE Empty
UserFromIdentity(r) ==
  LET passwords == {Normalize(hash, NoHint) : hash \in r.password} IN
  IF \E p \in passwords : ~Ok(p) THEN Refused("unrecognized password hash format")
  ELSE [NewUser(r.id) EXCEPT
          !.emails = Primary(Trait(r, "email"), Trait(r, "email") \in r.verified),
          !.phones = Primary(Trait(r, "phone"), Trait(r, "phone") \in r.verified),
          !.username = Trait(r, "username"), !.blocked = ~r.active, !.app = r.admin, !.user = r.public,
          !.password = passwords, !.factors = SetToSeq(r.totp)]

(***************************************************************************)
(* Keycloak: a user of kc.sh export, credentials and all.  A password is   *)
(* what it verifies with, "none" when the file comes from the Admin API.   *)
(***************************************************************************)
NewRepresentation(id) ==
  [id |-> id, username |-> Empty, email |-> Empty, verified |-> FALSE, name |-> Empty, enabled |-> TRUE,
   service |-> FALSE, attributes |-> <<>>, passwords |-> {}, otp |-> <<>>, others |-> <<>>]
OTP(sub, of, params) == [sub |-> sub, of |-> of, params |-> params]
ReservedAttributes == {"phoneNumber", "phoneNumberVerified", "locale", "picture"}
Attribute(r, k) == IF k \in DOMAIN r.attributes THEN r.attributes[k] ELSE Empty

\* The elements of s at these places, in their order: SelectSeq, by what the provers have
\* facts about.
Chosen(s, at) == [n \in 1..Cardinality(at) |-> s[CHOOSE i \in at : Cardinality({j \in at : j <= i}) = n]]

\* A counter-based credential has no equivalent; TOTPs come out in base32.
TOTPFactor(otp) == Factor("totp", "base32", otp.of, Empty, otp.params, TRUE)
UserFromRepresentation(r) ==
  LET passwords == {NormalizeKeycloakCredential(c) : c \in r.passwords}
      totps == Chosen(r.otp, {i \in DOMAIN r.otp : r.otp[i].sub = "totp"})
  IN CASE r.service -> Refused("service account")
       [] \E p \in passwords : ~Ok(p) -> Refused("unrecognized password hash format")
       [] OTHER ->
            [NewUser(r.id) EXCEPT
               !.emails = Primary(r.email, r.verified),
               !.phones = Primary(Attribute(r, "phoneNumber"), Attribute(r, "phoneNumberVerified") = "true"),
               !.username = IF r.username \in {r.email, Attribute(r, "phoneNumber")} THEN Empty ELSE r.username,
               !.name = r.name, !.blocked = ~r.enabled,
               !.user = [k \in DOMAIN r.attributes \ ReservedAttributes |-> r.attributes[k]],
               !.password = passwords,
               !.factors = [i \in DOMAIN totps |-> TOTPFactor(totps[i])]
                           \o [i \in DOMAIN r.others |-> Factor(r.others[i], "none", Empty, Empty, Empty, FALSE)]]

(***************************************************************************)
(* Firebase, with the project's scrypt configuration or without.           *)
(***************************************************************************)
NewFirebaseAccount(id) ==
  [id |-> id, email |-> Empty, verified |-> FALSE, phone |-> Empty, providers |-> 0, name |-> Empty,
   disabled |-> FALSE, claims |-> <<>>, hash |-> NoBytes, salt |-> NoBytes, mfa |-> <<>>]

PasswordFromAccount(r, cfg) ==
  IF cfg = {} THEN [Password("scrypt", B64Raw(r.hash)) EXCEPT
                      !.params = [variant |-> "firebase"], !.portable = FALSE]
  ELSE NormalizeFirebaseScrypt(r.hash, r.salt, CHOOSE c \in cfg : TRUE)
\* The secret of a TOTP enrolment is never returned, and a number may be masked.
MFAFactor(e) ==
  IF e.type = "totp" THEN Factor("totp", "none", Empty, Empty, Empty, FALSE)
  ELSE Factor("sms", IF e.masked THEN "masked" ELSE "number", e.of, Empty, Empty, ~e.masked)
UserFromAccount(r, cfg) ==
  LET passwords == IF r.hash = NoBytes THEN {} ELSE {PasswordFromAccount(r, cfg)} IN
  CASE r.email = Empty /\ r.phone = Empty /\ r.providers = 0 -> Refused("anonymous")
    [] \E p \in passwords : ~Ok(p) -> Refused("unrecognized password hash format")
    [] OTHER ->
         [NewUser(r.id) EXCEPT
            !.emails = Primary(r.email, r.verified), !.phones = Primary(r.phone, TRUE), !.name = r.name,
            !.blocked = r.disabled, !.app = r.claims, !.password = passwords,
            !.factors = [i \in DOMAIN r.mfa |-> MFAFactor(r.mfa[i])]]

(***************************************************************************)
(* Auth0's export job and Azure AD B2C's Graph: neither has passwords.     *)
(***************************************************************************)
UserFromExport(r) ==
  IF r.id = Empty THEN Refused("no user_id")
  ELSE [NewUser(r.id) EXCEPT
          !.emails = Primary(r.email, r.verified), !.phones = Primary(r.phone, r.phoneVerified),
          !.username = r.username, !.name = r.name, !.blocked = r.blocked, !.app = r.app, !.user = r.user]

SignIns(r, type) == SelectSeq(r.identities, LAMBDA i : i.type = type)
\* Each address once, none of them verified, the first one the primary.
GraphEmails(r) ==
  LET add(seen, v) == IF v = Empty \/ \E i \in DOMAIN seen : seen[i] = v THEN seen ELSE Append(seen, v)
      signIns == SignIns(r, "emailAddress")
      all == FoldLeft(add, <<>>, [i \in DOMAIN signIns |-> signIns[i].of] \o <<r.mail>> \o r.otherMails)
  IN [i \in DOMAIN all |-> Contact(all[i], FALSE, i = 1)]
UserFromGraph(r) ==
  LET names == SignIns(r, "userName")
      u == [NewUser(r.id) EXCEPT
              !.emails = GraphEmails(r),
              !.phones = IF r.mobile = Empty THEN <<>> ELSE <<Contact(r.mobile, FALSE, TRUE)>>,
              !.username = IF names = <<>> THEN Empty ELSE names[1].of, !.name = r.name, !.blocked = ~r.enabled,
              !.app = IF SignIns(r, "federated") = <<>> THEN <<>>
                      ELSE [k \in {"federated_identities"} |-> SignIns(r, "federated")[1].of],
              !.user = r.extensions]
  IN CASE r.id = Empty -> Refused("no id")
       [] u.emails = <<>> /\ u.phones = <<>> /\ u.username = Empty -> Refused("no identifier")
       [] OTHER -> u
=============================================================================
