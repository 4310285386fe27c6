---------------------------- MODULE MCJobServer ----------------------------
(***************************************************************************)
(* Instances of JobServer for TLC: a driver of the server's process.       *)
(***************************************************************************)
EXTENDS JobServer, TLC

OneProcess == [d \in Drivers |-> Server]
=============================================================================
