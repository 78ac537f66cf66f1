---------------------------- MODULE StackService ----------------------------
(***************************************************************************)
(* The orchestrator as its callers see it: for each run whether containers *)
(* exist, and the request that was handled last with the answer it leads   *)
(* to.  Containers appear only in the handling of a launch request and     *)
(* disappear only in a stop, in a deletion, or behind the orchestrator's   *)
(* back; every answer keeps the contract of StackContract.                 *)
(***************************************************************************)
EXTENDS StackContract

CONSTANT Runs

VARIABLES stack,   \* the runs' containers
          event    \* the request handled in the last step, and its answer

vars == <<stack, event>>

Silent == [op |-> "none", run |-> "none", result |-> "none"]

Serve(op, r, result) == event' = [op |-> op, run |-> r, result |-> result]

Becomes(r, after) == stack' = [stack EXCEPT ![r] = after]

Launch(r) == \E after \in Presence, result \in {"started", "running", "refused"} :
                /\ LaunchContract(stack[r], result, after)
                /\ Becomes(r, after) /\ Serve("launch", r, result)

Stop(r) == \E after \in Presence, result \in {"success", "missing", "failed"} :
                /\ StopContract(stack[r], result, after)
                /\ Becomes(r, after) /\ Serve("stop", r, result)

Delete(r) == \E after \in Presence, result \in {"success", "missing", "failed"} :
                /\ DeleteContract(stack[r], result, after)
                /\ Becomes(r, after) /\ Serve("delete", r, result)

Status(r) == \E result \in {"absent", "starting", "running", "stopped", "error"} :
                /\ StatusContract(stack[r], result)
                /\ UNCHANGED stack /\ Serve("status", r, result)

Removed(r) == Becomes(r, "down") /\ event' = Silent

Quiet == UNCHANGED stack /\ event' = Silent

Init == stack = [r \in Runs |-> "down"] /\ event = Silent

Next ==
    \/ \E r \in Runs : Launch(r) \/ Stop(r) \/ Delete(r) \/ Status(r) \/ Removed(r)
    \/ Quiet

Spec == Init /\ [][Next]_vars
=============================================================================
