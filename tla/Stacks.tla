------------------------------- MODULE Stacks -------------------------------
(***************************************************************************)
(* The orchestrator's stack manager                                        *)
(* (services/orchestrator/app/stack_manager.py) behind its routes          *)
(* (routes/orchestrator.py) and process lifecycle (main.py).               *)
(*                                                                         *)
(* One dictionary, running_stacks, holds the stacks of environments and    *)
(* of runs; environments are also kept in SQLite.  docker-compose is run   *)
(* synchronously, so a handler is atomic except where a start request      *)
(* waits for the containers: it then goes on with the StackInfo object it  *)
(* created, which may no longer be the one in the dictionary, or may have  *)
(* been stopped meanwhile.                                                 *)
(***************************************************************************)
EXTENDS Integers, FiniteSets

CONSTANTS
    Runs,        \* run ids
    Envs,        \* environment names
    Starters,    \* bound: start requests that can be waiting at a time
    MaxCrashes   \* bound: restarts of the orchestrator

ASSUME StacksAssumption ==
    /\ Runs \cap Envs = {}
    /\ MaxCrashes \in Nat

VARIABLES
    entry,    \* running_stacks: status, and the start request still waiting on the object
    saved,    \* the status column of the SQLite table; "absent" without a row
    docker,   \* whether the compose project of a stack has containers
    starts,   \* the stack each waiting start request is for, or NoKey
    up,       \* the orchestrator process runs
    crashes,
    event     \* the request on a run handled in the last step, and its answer

vars == <<entry, saved, docker, starts, up, crashes, event>>

Keys     == Runs \cup Envs
NoKey    == "no key"
NoStart  == "no start"
Presence == {"up", "down"}
Statuses == {"absent", "starting", "running", "unhealthy", "stopped", "error"}
Entry    == [status: Statuses, owner: Starters \cup {NoStart}]
Missing  == [status |-> "absent", owner |-> NoStart]

Operations == {"launch", "stop", "delete", "status"}
Answers == {"started", "running", "refused", "success", "missing", "failed",
            "absent", "starting", "stopped", "error"}
Events  == [op: Operations \cup {"none"}, run: Runs \cup {"none"},
            result: Answers \cup {"none"}]

Service == INSTANCE StackService WITH stack <- [r \in Runs |-> docker[r]]

Serve(op, k, result) ==
    event' = IF k \in Runs THEN [op |-> op, run |-> k, result |-> result]
             ELSE Service!Silent

Quietly == event' = Service!Silent

-----------------------------------------------------------------------------
(* Mutants, here and below: what the operator that follows would be with a *)
(* plausible bug.  No action uses them.                                    *)
PutInMemory(k, e) == entry' = [entry EXCEPT ![k] = e] /\ UNCHANGED saved

(* Writing an entry; that of an environment is saved.                      *)
Put(k, e) ==
    /\ entry' = [entry EXCEPT ![k] = e]
    /\ saved' = IF k \in Envs THEN [saved EXCEPT ![k] = e.status] ELSE saved

Mark(k, status) == Put(k, [entry[k] EXCEPT !.status = status])

Containers(k, after) == docker' = [docker EXCEPT ![k] = after]

-----------------------------------------------------------------------------
(* start_environment and start_run_stack.                                  *)

(* The compose files are rejected before docker-compose runs: an           *)
(* environment has no new entry yet, a run keeps its "starting" entry      *)
(* because a validation error is not a Docker error.                       *)
RejectStart(k) ==
    /\ IF k \in Runs THEN Put(k, [status |-> "starting", owner |-> NoStart])
       ELSE IF entry[k] = Missing THEN UNCHANGED <<entry, saved>>
       ELSE Mark(k, "error")
    /\ Serve("launch", k, "refused")
    /\ UNCHANGED <<docker, starts>>

StartOver(k, h) ==
    \/ /\ Put(k, [status |-> "starting", owner |-> h])
       /\ Containers(k, "up")
       /\ starts' = [starts EXCEPT ![h] = k]
       /\ Serve("launch", k, "started")
    \/ /\ Put(k, [status |-> "error", owner |-> NoStart])
       /\ \E after \in {docker[k], "up"} : Containers(k, after)
       /\ Serve("launch", k, "refused")
       /\ UNCHANGED starts
    \/ RejectStart(k)

(* A start request, up to its wait for the containers.                     *)
Start(k, h) ==
    /\ up /\ starts[h] = NoKey
    /\ \/ /\ entry[k].status = "running"
          /\ Serve("launch", k, "running")
          /\ UNCHANGED <<entry, saved, docker, starts>>
       \/ /\ entry[k].status # "running"
          /\ StartOver(k, h)
    /\ UNCHANGED <<up, crashes>>

(* The outcomes of the wait.  A run is declared running whatever is there. *)
Settled(k) == IF k \in Runs THEN {"running"} ELSE {"running", "unhealthy"}

(* The request's own object gets the outcome, and is saved, also when the  *)
(* dictionary no longer holds it; an error goes to whatever it holds.      *)
FinishStart(h) ==
    LET k == starts[h] IN
    /\ k # NoKey
    /\ starts' = [starts EXCEPT ![h] = NoKey]
    /\ \/ \E status \in Settled(k) :
             /\ entry' = IF entry[k].owner = h
                         THEN [entry EXCEPT ![k] = [status |-> status, owner |-> NoStart]]
                         ELSE entry
             /\ saved' = IF k \in Envs THEN [saved EXCEPT ![k] = status] ELSE saved
       \/ /\ k \in Envs
          /\ IF entry[k] = Missing THEN UNCHANGED <<entry, saved>>
             ELSE Put(k, [status |-> "error",
                          owner |-> IF entry[k].owner = h THEN NoStart ELSE entry[k].owner])
    /\ Quietly
    /\ UNCHANGED <<docker, up, crashes>>

-----------------------------------------------------------------------------
(* Stop and delete.                                                        *)

MarkStoppedAnyway(k) ==
    \E after \in {docker[k], "down"} :
       /\ Containers(k, after)
       /\ Mark(k, "stopped")
       /\ Serve("stop", k, "success")

(* docker-compose down, and the status written when it worked.             *)
TearDown(k) ==
    \/ /\ Containers(k, "down")
       /\ Mark(k, "stopped")
       /\ Serve("stop", k, "success")
    \/ /\ \E after \in {docker[k], "down"} : Containers(k, after)
       /\ Serve("stop", k, "failed")
       /\ UNCHANGED <<entry, saved>>

(* stop_run_stack: a run the dictionary does not know, because the         *)
(* orchestrator was restarted, is found again by its compose project.      *)
StopRun(r) ==
    /\ up
    /\ \/ entry[r] # Missing /\ TearDown(r)
       \/ /\ entry[r] = Missing /\ docker[r] = "up"
          /\ \/ /\ Containers(r, "down")
                /\ Put(r, [Missing EXCEPT !.status = "stopped"])
                /\ Serve("stop", r, "success")
             \/ /\ \E after \in {docker[r], "down"} : Containers(r, after)
                /\ Put(r, [Missing EXCEPT !.status = "running"])
                /\ Serve("stop", r, "failed")
       \/ /\ entry[r] = Missing
          /\ \/ docker[r] = "down" /\ Serve("stop", r, "missing")
             \/ Serve("stop", r, "failed")            \* Docker cannot be asked
          /\ UNCHANGED <<entry, saved, docker>>
    /\ UNCHANGED <<starts, up, crashes>>

DeleteRun(r) ==
    /\ up
    /\ \/ /\ entry[r] # Missing
          /\ \/ /\ Containers(r, "down")
                /\ Put(r, Missing)
                /\ Serve("delete", r, "success")
             \/ /\ \E after \in {docker[r], "down"} : Containers(r, after)
                /\ Serve("delete", r, "failed")
                /\ UNCHANGED <<entry, saved>>
       \/ /\ entry[r] = Missing
          /\ \/ docker[r] = "up" /\ Containers(r, "down") /\ Serve("delete", r, "success")
             \/ /\ \E after \in {docker[r], "down"} : Containers(r, after)
                /\ Serve("delete", r, "missing")
          /\ UNCHANGED <<entry, saved>>
    /\ UNCHANGED <<starts, up, crashes>>

StopEnv(e) ==
    /\ up /\ entry[e] # Missing
    /\ TearDown(e)
    /\ UNCHANGED <<starts, up, crashes>>

(* The status a query leaves: an entry that says "running" is compared     *)
(* with the containers, which may be unhealthy.                            *)
Refreshed(e) ==
    IF entry[e].status # "running" THEN {entry[e].status}
    ELSE IF docker[e] = "down" THEN {"stopped"}
    ELSE {"running", "unhealthy"}

Refresh(e, status) ==
    IF status = entry[e].status THEN UNCHANGED <<entry, saved>> ELSE Mark(e, status)

EnvStatus(e) ==
    /\ up /\ entry[e] # Missing
    /\ \E status \in Refreshed(e) : Refresh(e, status)
    /\ Quietly
    /\ UNCHANGED <<docker, starts, up, crashes>>

(* DELETE /environments/{name}: stopped first when the status asks for it; *)
(* a failed stop leaves everything in place.                               *)
DeleteEnv(e) ==
    /\ up /\ entry[e] # Missing
    /\ \E status \in Refreshed(e) :
          \/ /\ status \in {"running", "starting", "unhealthy"}
             /\ \/ Containers(e, "down") /\ Put(e, Missing)
                \/ /\ \E after \in {docker[e], "down"} : Containers(e, after)
                   /\ Refresh(e, status)
          \/ /\ status \notin {"running", "starting", "unhealthy"}
             /\ Put(e, Missing)
             /\ UNCHANGED docker
    /\ Quietly
    /\ UNCHANGED <<starts, up, crashes>>

-----------------------------------------------------------------------------
ReportFromMemory(r) == entry[r].status

(* get_run_stack_status: the entry if there is one, else the containers.   *)
Report(r) ==
    IF entry[r] # Missing THEN entry[r].status
    ELSE IF docker[r] = "up" THEN "running"
    ELSE "absent"

RunStatus(r) ==
    /\ up
    /\ \/ Serve("status", r, Report(r))
       \/ entry[r] = Missing /\ Serve("status", r, "absent")   \* Docker cannot be asked
    /\ UNCHANGED <<entry, saved, docker, starts, up, crashes>>

-----------------------------------------------------------------------------
(* Containers removed behind the orchestrator's back.                      *)
RemovedOutside(k) ==
    /\ docker[k] = "up" /\ Containers(k, "down")
    /\ Quietly
    /\ UNCHANGED <<entry, saved, starts, up, crashes>>

(* The process ends.  A graceful shutdown schedules a stop of every        *)
(* environment in use, of which some may still be carried out; those it    *)
(* schedules for runs fail on a missing attribute.                         *)
GoDown ==
    /\ up /\ crashes < MaxCrashes
    /\ up' = FALSE /\ crashes' = crashes + 1
    /\ entry' = [k \in Keys |-> Missing]
    /\ starts' = [h \in Starters |-> NoKey]
    /\ \E done \in SUBSET {e \in Envs : entry[e].status \in {"running", "starting"}} :
          /\ docker' = [k \in Keys |-> IF k \in done THEN "down" ELSE docker[k]]
          /\ saved'  = [e \in Envs |-> IF e \in done THEN "stopped" ELSE saved[e]]
    /\ Quietly

Survived(status) == IF status \in {"running", "starting"} THEN "stopped" ELSE status

(* _load_state: environments come back, "running" and "starting" as        *)
(* "stopped".                                                              *)
Boot ==
    /\ ~up /\ up' = TRUE
    /\ saved' = [e \in Envs |-> Survived(saved[e])]
    /\ entry' = [k \in Keys |-> IF k \in Envs
                                THEN [Missing EXCEPT !.status = Survived(saved[k])]
                                ELSE Missing]
    /\ Quietly
    /\ UNCHANGED <<docker, starts, crashes>>

-----------------------------------------------------------------------------
Init ==
    /\ entry = [k \in Keys |-> Missing]
    /\ saved = [e \in Envs |-> "absent"]
    /\ docker = [k \in Keys |-> "down"]
    /\ starts = [h \in Starters |-> NoKey]
    /\ up = TRUE /\ crashes = 0
    /\ event = Service!Silent

Next ==
    \/ \E k \in Keys : RemovedOutside(k) \/ \E h \in Starters : Start(k, h)
    \/ \E h \in Starters : FinishStart(h)
    \/ \E r \in Runs : StopRun(r) \/ DeleteRun(r) \/ RunStatus(r)
    \/ \E e \in Envs : StopEnv(e) \/ EnvStatus(e) \/ DeleteEnv(e)
    \/ GoDown \/ Boot

Spec == Init /\ [][Next]_vars

-----------------------------------------------------------------------------
(* Properties.                                                             *)

TypeOK ==
    /\ entry \in [Keys -> Entry]
    /\ saved \in [Envs -> Statuses]
    /\ docker \in [Keys -> Presence]
    /\ starts \in [Starters -> Keys \cup {NoKey}]
    /\ up \in BOOLEAN /\ crashes \in 0..MaxCrashes
    /\ event \in Events

(* The containers of a run are never reported as stopped or unknown, while *)
(* Docker can be asked: not after failed starts and stops, not when stops  *)
(* race starts, not after the orchestrator lost its memory.                *)
RunNeverHidden ==
    \A r \in Runs : up /\ docker[r] = "up"
        => Report(r) \in {"starting", "running", "error"}

(* A restart forgets no environment that is managed: whatever races, what  *)
(* the dictionary holds has a row in SQLite.                               *)
NothingForgotten ==
    \A e \in Envs : entry[e] # Missing => saved[e] # "absent"

(* The stack manager implements what callers are told to rely on.          *)
ServiceContract == Service!Spec

(* DELETE /environments "stops the environment if running": containers of  *)
(* an environment nobody manages any more are never left behind.  Refuted: *)
(* an environment whose start failed half-way, or that outlived a restart  *)
(* of the orchestrator, is deleted without being stopped.                  *)
NoOrphanedEnvironment ==
    \A e \in Envs : up /\ docker[e] = "up" => entry[e] # Missing
=============================================================================
