---------------------------- MODULE MCJobQueue ----------------------------
(***************************************************************************)
(* Instances of JobQueue for TLC. Requests of one kind are interchangeable: *)
(* the run with two of them uses symmetry, the liveness runs do not.        *)
(***************************************************************************)
EXTENDS JobQueue, TLC

CONSTANT AllRequest   (* the request whose type is "all"; the others ask for zip *)

(* The bodies worth telling apart: a callback that reports progress, one   *)
(* that reports success and one that reports failure.                      *)
MCBodies ==
  { [status |-> "processing", error |-> FALSE, result |-> FALSE],
    [status |-> "completed", error |-> FALSE, result |-> TRUE],
    [status |-> "failed", error |-> TRUE, result |-> FALSE] }

(* One request for both jobs and one for a zip job: two entries compete in *)
(* jobs:zip, and the second job of "all" waits for its first.              *)
MCKind == [r \in Requests |-> IF r = AllRequest THEN "all" ELSE "zip"]

(* Sound where AllRequest is no request, for properties of states.          *)
MCSymmetry == Permutations(Requests)

===========================================================================
