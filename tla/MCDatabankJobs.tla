--------------------------- MODULE MCDatabankJobs ---------------------------
(***************************************************************************)
(* Instances of DatabankJobs for TLC. The jobs are interchangeable, which  *)
(* the runs without temporal properties use.                               *)
(***************************************************************************)
EXTENDS DatabankJobs, TLC

MCSymmetry == Permutations(Jobs)

=============================================================================
