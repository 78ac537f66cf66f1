---------------------------- MODULE RunLifecycle ----------------------------
(***************************************************************************)
(* One run as the controller manages it: the row of the runs table, the    *)
(* request that creates the run, the requests that control it, the tasks   *)
(* that enforce its limits, and the container stack and heartbeat          *)
(* scheduler those act on (services/controller/app: run_compat.py,         *)
(* run_public_ops.py, run_task_enforcement.py, routes/telemetry.py,        *)
(* run_launcher.py, main.py).                                              *)
(*                                                                         *)
(* The controller is one asyncio loop.  A handler is atomic between two    *)
(* awaits; run_launcher.stop_run and launch_run are synchronous and block  *)
(* the loop unless the code wraps them in asyncio.to_thread.  Every write  *)
(* of the status is an UPDATE by primary key that does not look at the     *)
(* value it replaces, so a handler that read the row before an await       *)
(* overwrites whatever was written meanwhile.                              *)
(***************************************************************************)
EXTENDS Integers, FiniteSets, StackContract

CONSTANTS
    Requests,    \* bound: control requests that can be under way at a time
    Limits,      \* limits the environment configures
    MaxCrashes   \* bound: crashes or restarts of the controller

ASSUME LifecycleAssumption ==
    /\ IsFiniteSet(Requests)
    /\ Limits \subseteq {"runtime", "ticks", "beats"}
    /\ MaxCrashes \in Nat

VARIABLES
    row,       \* status of the run's row; "none" before, "deleted" after it exists
    creator,   \* the await create_bound_run is suspended in
    reqs,      \* the control requests under way
    tasks,     \* the live enforcement task of each limit
    stack,     \* the run's containers
    sched,     \* the heartbeat scheduler in the launcher container
    up,        \* the controller process runs
    crashes,
    finished,  \* history: the row has been terminal
    revived,   \* history: a terminal run's stack was launched again
    ignored    \* history: the code went on although a stop or delete failed

vars == <<row, creator, reqs, tasks, stack, sched, up, crashes,
          finished, revived, ignored>>

runtime == <<stack, sched>>
history == <<finished, revived, ignored>>

Live     == {"running", "paused"}
Terminal == {"completed", "timed_out", "failed", "cancelled"}
Statuses == {"none", "pending", "deleted"} \cup Live \cup Terminal

CreatorPCs == {"idle", "health", "bootstrap", "agents", "starting", "started",
               "aborting", "abortingStart", "failing", "failed", "gone"}
Kinds      == {"none", "pause", "resume", "costPause", "costRepause",
               "costStop", "restart"}
RequestPCs == {"idle", "sent", "answered", "stopping", "stopped",
               "inspecting", "launching", "probing"}
Request    == [kind: Kinds, pc: RequestPCs]
NoRequest  == [kind |-> "none", pc |-> "idle"]

TaskPCs == {"none", "sleeping", "asking", "reached"}
NoTasks == [l \in Limits |-> "none"]
AllTasks == [l \in Limits |-> "sleeping"]

Idle(r) == reqs' = [reqs EXCEPT ![r] = NoRequest]
To(r, pc) == reqs' = [reqs EXCEPT ![r].pc = pc]

-----------------------------------------------------------------------------
(* The orchestrator's answers, by the contract it offers; the scheduler    *)
(* runs in one of the containers.                                          *)

Results == {"success", "missing", "failed"}

SchedulerFollows ==
    /\ stack' \in Presence
    /\ sched' = IF stack' = "up" THEN sched ELSE "stopped"

StopStack(result) == SchedulerFollows /\ StopContract(stack, result, stack')

DeleteStack(result) == SchedulerFollows /\ DeleteContract(stack, result, stack')

LaunchStack(result) == stack' \in Presence /\ LaunchContract(stack, result, stack')

(* History of a stop whose failure the code only logs.                     *)
Ignoring == ignored' = (ignored \/ stack' = "up")

(* Write a status, whatever the row holds; a deleted row makes the commit  *)
(* fail, which ends the handler.                                           *)
WriteRow(status) ==
    /\ row' = IF row = "deleted" THEN row ELSE status
    /\ finished' = (finished \/ row' \in Terminal)

-----------------------------------------------------------------------------
(* create_bound_run.                                                       *)

(* Up to the first await: the row is committed as PENDING, assignments are *)
(* persisted and the stack is launched with the loop blocked.              *)
Create ==
    /\ up /\ row = "none"
    /\ \/ /\ LaunchStack("started")
          /\ row' = "pending" /\ creator' = "health"
          /\ UNCHANGED history
       \/ /\ LaunchStack("refused")
          /\ row' = "failed" /\ creator' = "gone" /\ finished' = TRUE
          /\ Ignoring /\ UNCHANGED revived
    /\ UNCHANGED <<reqs, tasks, sched, up, crashes>>

(* abort_if_run_cancelled, up to its await: re-read the row, then go on,   *)
(* or stop the stack of a cancelled run; a deleted row cannot be re-read.  *)
Continue(next, abort) ==
    creator' = CASE row = "deleted"   -> "gone"
                 [] row = "cancelled" -> abort
                 [] OTHER             -> next

Unhealthy == creator' = "failing"

(* wait_for_run_services polls the environment service until it answers or *)
(* the time or the retries are used up; without URLs the startup fails as  *)
(* well.                                                                   *)
Healths == {"healthy", "no_urls", "failed"}

HealthDone ==
    /\ creator = "health"
    /\ \E health \in Healths :
          IF health = "healthy" THEN Continue("bootstrap", "aborting") ELSE Unhealthy
    /\ UNCHANGED <<row, reqs, tasks, runtime, up, crashes, history>>

(* Mutants, here and below: what the operator that follows would be with a *)
(* plausible bug.  No action uses them.                                    *)
PromoteUnchecked(abort) ==
    /\ WriteRow("running") /\ creator' = "gone" /\ tasks' = AllTasks
    /\ UNCHANGED <<runtime, revived, ignored>>

(* The last check, the promotion to RUNNING, the enforcement tasks and the *)
(* on_run_start hooks: there is no await between them.  When a hook fails  *)
(* the run is stopped through the stop route, and FAILED only if that      *)
(* worked; otherwise it stays RUNNING.                                     *)
Promote(abort) ==
    \/ /\ row \in {"cancelled", "deleted"}
       /\ Continue("gone", abort)
       /\ UNCHANGED <<row, tasks, runtime, history>>
    \/ /\ row \notin {"cancelled", "deleted"}
       /\ creator' = "gone"
       /\ \/ /\ WriteRow("running") /\ tasks' = AllTasks
             /\ UNCHANGED runtime
          \/ /\ \E result \in Results :
                   /\ StopStack(result)
                   /\ WriteRow(IF result = "failed" THEN "running" ELSE "failed")
                   /\ tasks' = IF result = "failed" THEN AllTasks ELSE NoTasks
       /\ UNCHANGED <<revived, ignored>>

(* Contract validation and run/init, then either the agents or, for a run  *)
(* without agents, the promotion.                                          *)
BootstrapDone ==
    /\ creator = "bootstrap"
    /\ \/ /\ Continue("agents", "aborting") \/ Unhealthy
          /\ UNCHANGED <<row, tasks, runtime, history>>
       \/ Promote("aborting")
    /\ UNCHANGED <<reqs, up, crashes>>

(* Launcher health and agent initialisation.  An HTTPException of the      *)
(* batch initialisation leaves create_bound_run with the row PENDING.      *)
AgentsDone ==
    /\ creator = "agents"
    /\ \/ Continue("starting", "aborting")
       \/ Continue("failing", "aborting")      \* some agent was not initialised
       \/ Unhealthy                            \* the launcher does not answer
       \/ creator' = "gone"
    /\ UNCHANGED <<row, reqs, tasks, runtime, up, crashes, history>>

(* POST /scheduler/start is carried out, refused, or its answer is lost.   *)
SchedulerStart ==
    /\ creator = "starting"
    /\ \/ stack = "up" /\ sched' = "running" /\ creator' \in {"started", "failing"}
       \/ creator' = "failing" /\ UNCHANGED sched
    /\ UNCHANGED <<row, reqs, tasks, stack, up, crashes, history>>

(* The last check sits inside the try block of start_scheduler: the 409 it *)
(* raises for a cancelled run, and the error of a deleted one, are caught  *)
(* there and end in mark_run_failed_and_stop.                              *)
StartDone ==
    /\ creator = "started"
    /\ IF row = "deleted"
       THEN Unhealthy /\ UNCHANGED <<row, tasks, runtime, history>>
       ELSE Promote("abortingStart")
    /\ UNCHANGED <<reqs, up, crashes>>

(* The rest of abort_if_run_cancelled.                                     *)
AbortDone ==
    /\ creator \in {"aborting", "abortingStart"}
    /\ \E result \in Results : StopStack(result)
    /\ Ignoring
    /\ tasks' = NoTasks
    /\ creator' = IF creator = "aborting" THEN "gone" ELSE "failing"
    /\ UNCHANGED <<row, reqs, up, crashes, finished, revived>>

(* mark_run_failed_and_stop: the stop in a thread, then the write.         *)
FailStop ==
    /\ creator = "failing"
    /\ \E result \in Results : StopStack(result)
    /\ Ignoring
    /\ creator' = "failed"
    /\ UNCHANGED <<row, reqs, tasks, up, crashes, finished, revived>>

FailWrite ==
    /\ creator = "failed"
    /\ WriteRow("failed")
    /\ tasks' = NoTasks
    /\ creator' = "gone"
    /\ UNCHANGED <<reqs, runtime, up, crashes, revived, ignored>>

CreatorStep ==
    \/ HealthDone \/ BootstrapDone \/ AgentsDone \/ SchedulerStart \/ StartDone
    \/ AbortDone \/ FailStop \/ FailWrite

-----------------------------------------------------------------------------
(* Stop and delete: the orchestrator is called with the loop blocked.      *)

StopAcceptingErrors(result) == TRUE

StopAccepted(result) == result # "failed"

StopRoute ==
    /\ up /\ row \in {"pending"} \cup Live
    /\ \E result \in Results :
          /\ StopStack(result)
          /\ IF StopAccepted(result)
             THEN WriteRow("cancelled") /\ tasks' = NoTasks
             ELSE UNCHANGED <<row, tasks, finished>>
    /\ UNCHANGED <<creator, reqs, up, crashes, revived, ignored>>

DeleteRoute ==
    /\ up /\ row \in {"pending"} \cup Terminal
    /\ \E result \in Results : DeleteStack(result)
    /\ Ignoring
    /\ row' = "deleted" /\ tasks' = NoTasks
    /\ UNCHANGED <<creator, reqs, up, crashes, finished, revived>>

-----------------------------------------------------------------------------
(* Pause and resume, by an operator or by a breached cost limit: the row   *)
(* is read, the scheduler is asked, the row is written.                    *)

Asks(kind) ==
    \/ kind = "pause" /\ row = "running"
    \/ kind = "resume" /\ row = "paused"
    \/ kind = "costPause" /\ row = "running"
    \/ kind = "costRepause" /\ row = "paused"
    \/ kind = "costStop" /\ row \in Live
    \/ kind = "restart" /\ row \in Terminal

FirstPC(kind) == CASE kind = "costStop" -> "stopping"
                   [] kind = "restart"  -> "inspecting"
                   [] OTHER             -> "sent"

Arrive(r) ==
    /\ up /\ reqs[r] = NoRequest
    /\ \E kind \in Kinds \ {"none"} :
          Asks(kind) /\ reqs' = [reqs EXCEPT ![r] = [kind |-> kind, pc |-> FirstPC(kind)]]
    /\ UNCHANGED <<row, creator, tasks, runtime, up, crashes, history>>

(* The scheduler accepts a request for the state it is already in, refuses *)
(* one while it is stopped, and its answer can be lost.  A cost limit that *)
(* is breached on a PAUSED row asks again, and then assigns the status it  *)
(* read, which writes nothing.                                             *)
SchedulerAnswers(r) ==
    /\ reqs[r].pc = "sent"
    /\ \/ /\ stack = "up" /\ sched # "stopped"
          /\ sched' = IF reqs[r].kind = "resume" THEN "running" ELSE "paused"
          /\ (reqs[r].kind # "costRepause" /\ To(r, "answered")) \/ Idle(r)
       \/ Idle(r) /\ UNCHANGED sched
    /\ UNCHANGED <<row, creator, tasks, stack, up, crashes, history>>

CommitAnswer(r) ==
    /\ reqs[r].pc = "answered"
    /\ WriteRow(IF reqs[r].kind = "resume" THEN "running" ELSE "paused")
    /\ Idle(r)
    /\ UNCHANGED <<creator, tasks, runtime, up, crashes, revived, ignored>>

(* A breached cost limit with on_breach "stop": the stop runs in a thread, *)
(* its failure is logged, the tasks are left alone.                        *)
CostStop(r) ==
    /\ reqs[r] = [kind |-> "costStop", pc |-> "stopping"]
    /\ \E result \in Results : StopStack(result)
    /\ Ignoring
    /\ To(r, "stopped")
    /\ UNCHANGED <<row, creator, tasks, up, crashes, finished, revived>>

CostCommit(r) ==
    /\ reqs[r].pc = "stopped"
    /\ WriteRow("cancelled")
    /\ Idle(r)
    /\ UNCHANGED <<creator, tasks, runtime, up, crashes, revived, ignored>>

(* restart_run_stack: a terminal run's stack comes back, the row does not. *)
Inspect(r) ==
    /\ reqs[r].pc = "inspecting"
    /\ To(r, "launching") \/ Idle(r)
    /\ UNCHANGED <<row, creator, tasks, runtime, up, crashes, history>>

Relaunch(r) ==
    /\ reqs[r].pc = "launching"
    /\ \E result \in {"started", "running", "refused"} :
          /\ LaunchStack(result)
          /\ IF result = "refused" THEN Idle(r) ELSE To(r, "probing")
    /\ revived' = (revived \/ stack' = "up")
    /\ UNCHANGED <<row, creator, tasks, sched, up, crashes, finished, ignored>>

Probe(r) ==
    /\ reqs[r].pc = "probing"
    /\ Idle(r) \/ reqs' = [reqs EXCEPT ![r].pc = "stopping"]
    /\ UNCHANGED <<row, creator, tasks, runtime, up, crashes, history>>

RestartStop(r) ==
    /\ reqs[r] = [kind |-> "restart", pc |-> "stopping"]
    /\ \E result \in Results : StopStack(result)
    /\ Idle(r)
    /\ UNCHANGED <<row, creator, tasks, up, crashes, history>>

RequestStep(r) ==
    \/ SchedulerAnswers(r) \/ CommitAnswer(r) \/ CostStop(r) \/ CostCommit(r)
    \/ Inspect(r) \/ Relaunch(r) \/ Probe(r) \/ RestartStop(r)

-----------------------------------------------------------------------------
(* Enforcement.                                                            *)

End(l) == tasks' = [tasks EXCEPT ![l] = "none"]

(* A limit that is reached stops the run: FAILED when the stop is not a    *)
(* success, a stack that is not found included.                            *)
EnforceLimit(l, status) ==
    /\ \E result \in Results :
          /\ StopStack(result)
          /\ WriteRow(IF result = "success" THEN status ELSE "failed")
    /\ Ignoring
    /\ End(l)

EnforcesRunning(status) == status = "running"

(* What an enforcement task asks of the row when it wakes up.              *)
Enforces(status) == status \in Live

(* The runtime limit: the row is read after the sleep, and nothing awaits  *)
(* until it is written.                                                    *)
RuntimeLimit ==
    /\ "runtime" \in Limits /\ tasks["runtime"] = "sleeping"
    /\ \/ /\ ~Enforces(row)
          /\ End("runtime") /\ UNCHANGED <<row, runtime, history>>
       \/ /\ Enforces(row)
          /\ EnforceLimit("runtime", "timed_out") /\ UNCHANGED revived
    /\ UNCHANGED <<creator, reqs, up, crashes>>

(* The tick and heartbeat limits poll: the row is read, the scheduler is   *)
(* asked for its progress, and the answer decides on the row as it was     *)
(* read.  A scheduler that cannot be reached is asked again later.         *)
Progress == {"unreachable", "below"} \cup (IF stack = "up" THEN {"enough"} ELSE {})

Poll(l) ==
    /\ l # "runtime" /\ tasks[l] = "sleeping"
    /\ tasks' = [tasks EXCEPT ![l] = IF Enforces(row) THEN "asking" ELSE "none"]
    /\ UNCHANGED <<row, creator, reqs, runtime, up, crashes, history>>

PollAnswered(l) ==
    /\ tasks[l] = "asking"
    /\ \E progress \in Progress :
          tasks' = [tasks EXCEPT ![l] = IF progress = "enough" THEN "reached" ELSE "sleeping"]
    /\ UNCHANGED <<row, creator, reqs, runtime, up, crashes, history>>

PolledLimit(l) ==
    /\ tasks[l] = "reached"
    /\ EnforceLimit(l, "completed")
    /\ UNCHANGED <<creator, reqs, up, crashes, revived>>

Enforce ==
    \/ RuntimeLimit
    \/ \E l \in Limits : Poll(l) \/ PollAnswered(l) \/ PolledLimit(l)

-----------------------------------------------------------------------------
(* The scheduler stops by itself when every agent is done.                 *)
SchedulerStops ==
    /\ sched = "running" /\ sched' = "stopped"
    /\ UNCHANGED <<row, creator, reqs, tasks, stack, up, crashes, history>>

(* The containers disappear behind the controller's back.                  *)
ContainersRemoved ==
    /\ stack = "up" /\ stack' = "down" /\ sched' = "stopped"
    /\ UNCHANGED <<row, creator, reqs, tasks, up, crashes, history>>

(* The controller goes away with everything in memory; the row, the stack  *)
(* and the scheduler stay.                                                 *)
Crash ==
    /\ up /\ crashes < MaxCrashes
    /\ up' = FALSE /\ crashes' = crashes + 1
    /\ creator' = IF creator = "idle" THEN "idle" ELSE "gone"
    /\ reqs' = [r \in Requests |-> NoRequest]
    /\ tasks' = NoTasks
    /\ UNCHANGED <<row, runtime, history>>

RecoverRunningOnly == IF row = "running" THEN AllTasks ELSE NoTasks

(* The recover_*_on_startup functions.                                     *)
Recovered == IF row \in Live THEN AllTasks ELSE NoTasks

Boot ==
    /\ ~up
    /\ up' = TRUE
    /\ tasks' = Recovered
    /\ UNCHANGED <<row, creator, reqs, runtime, crashes, history>>

-----------------------------------------------------------------------------
Init ==
    /\ row = "none" /\ creator = "idle"
    /\ reqs = [r \in Requests |-> NoRequest]
    /\ tasks = NoTasks
    /\ stack = "down" /\ sched = "stopped"
    /\ up = TRUE /\ crashes = 0
    /\ finished = FALSE /\ revived = FALSE /\ ignored = FALSE

Next ==
    \/ Create \/ CreatorStep
    \/ StopRoute \/ DeleteRoute
    \/ \E r \in Requests : Arrive(r) \/ RequestStep(r)
    \/ Enforce
    \/ SchedulerStops \/ ContainersRemoved
    \/ Crash \/ Boot

Spec == Init /\ [][Next]_vars

(***************************************************************************)
(* Fairness.  A crashed controller is started again (the compose file says *)
(* restart: unless-stopped), and the runtime limit is a deadline counted   *)
(* from started_at: a task that sleeps again and again, across restarts,   *)
(* sleeps for no time at all once the deadline has passed, so it runs.     *)
(* Nothing else is owed.                                                   *)
(***************************************************************************)
FairSpec == Spec /\ WF_vars(Boot) /\ SF_vars(RuntimeLimit)

-----------------------------------------------------------------------------
(* Properties.                                                             *)

TypeOK ==
    /\ row \in Statuses
    /\ creator \in CreatorPCs
    /\ reqs \in [Requests -> Request]
    /\ tasks \in [Limits -> TaskPCs]
    /\ stack \in {"up", "down"} /\ sched \in {"stopped", "running", "paused"}
    /\ up \in BOOLEAN /\ crashes \in 0..MaxCrashes
    /\ finished \in BOOLEAN /\ revived \in BOOLEAN /\ ignored \in BOOLEAN

(* As long as a run has not ended, each of its limits has a live task that *)
(* will enforce it: the creation, failing hooks, refused stops, pauses,    *)
(* and the recovery after a restart of the controller all keep them.       *)
EnforcementAlive ==
    up /\ row \in Live /\ ~finished => \A l \in Limits : tasks[l] # "none"

(* A terminal run has no containers, unless its stack was restarted on     *)
(* purpose or the code went on after a stop that failed: no order of       *)
(* startup, cancellation, limits and crashes leaks a stack.                *)
TerminalStackDown ==
    row \in Terminal /\ ~revived /\ ~ignored => stack = "down"

(* No late writer overrides how a run ended in the meantime: startup, that *)
(* took minutes, makes only a row RUNNING that is still PENDING, and a     *)
(* runtime limit, that slept for hours, only a row TIMED_OUT that is       *)
(* RUNNING or PAUSED.                                                      *)
LatePromotion ==
    creator # "gone" /\ creator' = "gone" /\ row' = "running" /\ row # "pending"

LateTimeout == row' = "timed_out" /\ row \notin Live \cup {"timed_out"}

NoLateOverride == [][~LatePromotion /\ ~LateTimeout]_vars

(* A run with a runtime limit ends, whatever is paused, resumed or lost    *)
(* and however often the controller crashes.                               *)
LimitEnforced == row \in Live /\ ~finished ~> finished \/ row = "deleted"

(* "Run ... was cancelled during startup": a run that startup found        *)
(* cancelled stays cancelled.  Refuted: the last check raises into the     *)
(* handler of start_scheduler's errors, which marks the run FAILED.        *)
CancelledStaysCancelled ==
    []( creator \in {"aborting", "abortingStart"}
          => [](row \in {"cancelled", "deleted"}) )
=============================================================================
