---------------------------- MODULE StackContract ----------------------------
(***************************************************************************)
(* What a caller of the orchestrator may conclude about the containers of  *)
(* a run from the answer to one request: "before" and "after" say whether  *)
(* containers exist when the request is handled and when it is answered.   *)
(* RunLifecycle relies on these operators for what its calls do;           *)
(* StackService turns them into a specification and Stacks implements it.  *)
(***************************************************************************)

Presence == {"up", "down"}

(* A stop that succeeds leaves no containers; one that finds no stack      *)
(* found none; one that fails may have removed them all the same.          *)
StopContract(before, result, after) ==
    /\ after \in {before, "down"}
    /\ result = "success" => after = "down"
    /\ result = "missing" => before = "down"

(* The same for a deletion, except that "not found" also answers for one   *)
(* that failed.                                                            *)
DeleteContract(before, result, after) ==
    /\ after \in {before, "down"}
    /\ result = "success" => after = "down"

(* A launch can leave containers behind when it fails, and it can succeed  *)
(* without creating any: a stack recorded as running is not looked at.     *)
LaunchContract(before, result, after) ==
    /\ after \in {before, "up"}
    /\ result = "started" => after = "up"

(* A run reported as stopped has no containers.                            *)
StatusContract(before, result) == result = "stopped" => before = "down"
=============================================================================
