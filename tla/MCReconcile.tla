---------------------------- MODULE MCReconcile -----------------------------
(* Small instances of Reconcile: three users, the second one blocked.       *)
EXTENDS Reconcile

MCParamsOf == [u \in File |-> IF u = 2 THEN "scrypt" ELSE "bcrypt"]

Refs(user, hash, payload) ==
  [s \in ImportStrategies |-> CASE s = "import.user" -> user [] s = "hash.translate" -> hash
                                [] s = "import.payload" -> payload [] OTHER -> "none"]

Plain == Refs("none", "none", "none")
Fields == [Plain EXCEPT !["metadata.place"] = "builtin"]

Scenario(r, d, b, t, dup, j, pre, v, id, rep) ==
  [refs |-> r, drops |-> d, broken |-> b, target |-> t, onDuplicate |-> dup, job |-> j,
   there |-> pre, vrefs |-> [s \in VerifyStrategies |-> v], byTargetID |-> id, withReport |-> rep]

\* Each target with no strategy, with users it already has, and each way to answer
\* for them; and each with handlers that may fail, or drop a whole batch.
MCScenarios ==
  {Scenario(Plain, {}, 0, t, dup, FALSE, {2}, "none", id, TRUE) :
     t \in Targets, dup \in {"fail", "skip", "upsert"}, id \in BOOLEAN}
  \cup {Scenario(Refs("fail", "ignore", "none"), {1, 2}, b, t, "fail", TRUE, {}, "ignore", FALSE, TRUE) :
     t \in {"kratos", "firebase"}, b \in {0, 2, 3}}
  \cup {Scenario(Refs("ignore", "none", "fail"), {2}, 0, t, "fail", TRUE, {}, "fail", FALSE, FALSE) :
     t \in {"keycloak", "cognito"}}
  \cup {Scenario(Fields, {}, b, t, "fail", FALSE, {}, "none", FALSE, FALSE) : t \in Targets, b \in {0, 2}}
  \cup {Scenario([s \in ImportStrategies |-> "fail"], {3}, 0, t, "skip", TRUE, {}, "ignore", FALSE, TRUE) :
     t \in Targets}
=============================================================================
