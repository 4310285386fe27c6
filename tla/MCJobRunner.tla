---------------------------- MODULE MCJobRunner ----------------------------
(***************************************************************************)
(* Instances of JobRunner for TLC: two calls, of two processes, competing  *)
(* for one job.                                                            *)
(***************************************************************************)
EXTENDS JobRunner, TLC

\* Each call is a process of its own, as two `iamigrate job` commands are.
OwnProcess == [d \in Drivers |-> d]

\* The calls differ by nothing but their name.
Symmetry == Permutations(Drivers)
=============================================================================
