---------------------------- MODULE JobLifecycle ----------------------------
(***************************************************************************)
(* What the processing queue promises of a job, without the lists, hashes  *)
(* and processes that make it so: it is submitted once, handed to a worker *)
(* once, and ends with the verdict of that one attempt. When workers can   *)
(* fail a job may also be lost, from the queue (the reply of BRPOP) or     *)
(* from the hands of a worker; it is never put back.                       *)
(***************************************************************************)
CONSTANTS
  Jobs,      (* the jobs that may be submitted                             *)
  MayLose    (* whether worker failures are possible                       *)

VARIABLE phase

Phases == {"new", "queued", "running", "succeeded", "failed", "lost"}

Moves(j, from, to) == phase[j] \in from /\ phase' = [phase EXCEPT ![j] = to]

Init == phase = [j \in Jobs |-> "new"]

Submit(j) == Moves(j, {"new"}, "queued")
Start(j) == Moves(j, {"queued"}, "running")
Succeed(j) == Moves(j, {"running"}, "succeeded")
Fail(j) == Moves(j, {"running"}, "failed")
Lose(j) == MayLose /\ Moves(j, {"queued", "running"}, "lost")

Next ==
  \E j \in Jobs : Submit(j) \/ Start(j) \/ Succeed(j) \/ Fail(j) \/ Lose(j)

Spec == Init /\ [][Next]_phase

=============================================================================
