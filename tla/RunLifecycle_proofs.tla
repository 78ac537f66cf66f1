------------------------- MODULE RunLifecycle_proofs -------------------------
(***************************************************************************)
(* Proofs about RunLifecycle, for every set of concurrent requests, every  *)
(* set of limits and any number of crashes.  The two invariants are not    *)
(* inductive by themselves: what keeps a request from resurrecting a run   *)
(* that startup still works on, or a creator from failing a run that is    *)
(* already RUNNING, is that the two never exist together (Phases).         *)
(***************************************************************************)
EXTENDS RunLifecycle, TLAPS

Creating == creator \notin {"idle", "gone"}

(* The awaits in which a request of each kind can be suspended.            *)
Coherent(q) ==
    \/ q.kind = "none" /\ q.pc = "idle"
    \/ q.kind \in {"pause", "resume", "costPause", "costRepause"} /\ q.pc \in {"sent", "answered"}
    \/ q.kind = "costStop" /\ q.pc \in {"stopping", "stopped"}
    \/ q.kind = "restart" /\ q.pc \in {"inspecting", "launching", "probing", "stopping"}

Phases ==
    /\ creator = "idle" <=> row = "none"
    /\ row \in {"none", "pending"} => \A r \in Requests : reqs[r].kind = "none"
    /\ Creating => /\ row \in {"pending", "cancelled", "deleted"}
                   /\ \A r \in Requests : reqs[r].kind \in {"none", "restart"}
    /\ creator # "gone" => tasks = NoTasks
    /\ \A r \in Requests : Coherent(reqs[r])

(* A stack that is owed to be down: the row is terminal, or a handler that *)
(* has stopped the stack is about to make it so.                           *)
OwedDown == \/ row \in Terminal
            \/ creator = "failed"
            \/ \E r \in Requests : reqs[r].pc = "stopped"

Stacks == OwedDown /\ ~revived /\ ~ignored => stack = "down"

Ended == row \in Terminal => finished

IInv == TypeOK /\ Phases /\ Stacks /\ Ended /\ EnforcementAlive

-----------------------------------------------------------------------------
(* What a stop does to the stack, whatever its result.                     *)
LEMMA StopFacts ==
    ASSUME TypeOK, NEW result \in Results, StopStack(result)
    PROVE  /\ stack' \in {"up", "down"}
           /\ sched' \in {"stopped", "running", "paused"}
           /\ stack = "down" => stack' = "down"
           /\ result # "failed" => stack' = "down"
BY DEF StopStack, SchedulerFollows, StopContract, Presence, Results, TypeOK

LEMMA DeleteFacts ==
    ASSUME TypeOK, NEW result \in Results, DeleteStack(result)
    PROVE  /\ stack' \in {"up", "down"}
           /\ sched' \in {"stopped", "running", "paused"}
           /\ stack = "down" => stack' = "down"
BY DEF DeleteStack, SchedulerFollows, DeleteContract, Presence, Results, TypeOK

LEMMA LaunchFacts ==
    ASSUME NEW result, LaunchStack(result) PROVE stack' \in {"up", "down"}
BY DEF LaunchStack, Presence

(* An unconditional write of the row.                                      *)
LEMMA WriteFacts ==
    ASSUME TypeOK, Ended, NEW status \in Live \cup Terminal, WriteRow(status)
    PROVE  /\ row' \in Statuses /\ finished' \in BOOLEAN
           /\ row' \in {status, "deleted"}
           /\ row = "deleted" <=> row' = "deleted"
           /\ row' \in Terminal => finished'
           /\ finished => finished'
BY DEF WriteRow, TypeOK, Ended, Statuses, Live, Terminal

-----------------------------------------------------------------------------
(* The steps of create_bound_run.                                          *)

LEMMA CreateStep == IInv /\ Create => IInv'
BY LaunchFacts DEF Create, IInv, TypeOK, Phases, Creating, Coherent, Stacks, OwedDown, Ended,
       EnforcementAlive, Ignoring, Statuses, Live, Terminal, CreatorPCs, history

(* A step of the creator that only moves it on.                            *)
LEMMA MoveStep ==
    ASSUME IInv, Creating, creator' \in CreatorPCs \ {"idle", "failed"},
           UNCHANGED <<row, reqs, tasks, stack, up, crashes, history>>,
           sched' \in {"stopped", "running", "paused"}
    PROVE  IInv'
BY DEF IInv, TypeOK, Phases, Creating, Stacks, OwedDown, Ended, EnforcementAlive, history

LEMMA PromoteStep ==
    ASSUME IInv, Creating, NEW abort \in {"aborting", "abortingStart"},
           creator # "failed", Promote(abort), UNCHANGED <<reqs, up, crashes>>
    PROVE  IInv'
<1>1. CASE row \in {"cancelled", "deleted"}
  <2>1. creator' \in CreatorPCs \ {"idle", "failed"} /\ UNCHANGED <<row, tasks, runtime, history>>
    BY <1>1 DEF Promote, Continue, CreatorPCs
  <2> QED BY <2>1, MoveStep DEF runtime, IInv, TypeOK
<1>2. CASE row \notin {"cancelled", "deleted"}
  <2>1. row = "pending" /\ creator' = "gone" /\ UNCHANGED <<revived, ignored>>
    BY <1>2 DEF Promote, IInv, Phases, Creating
  <2>2. CASE WriteRow("running") /\ tasks' = AllTasks /\ UNCHANGED runtime
    BY <2>1, <2>2, WriteFacts
       DEF IInv, TypeOK, Phases, Creating, Stacks, OwedDown, Ended, EnforcementAlive,
           runtime, Statuses, Live, Terminal, CreatorPCs, AllTasks, TaskPCs
  <2>3. ASSUME NEW result \in Results, StopStack(result),
               WriteRow(IF result = "failed" THEN "running" ELSE "failed"),
               tasks' = IF result = "failed" THEN AllTasks ELSE NoTasks
        PROVE  IInv'
    <3>1. stack' \in {"up", "down"} /\ sched' \in {"stopped", "running", "paused"}
      BY <2>3, StopFacts DEF IInv
    <3>2. result # "failed" => stack' = "down"
      BY <2>3, StopFacts DEF IInv
    <3>3. row' = IF result = "failed" THEN "running" ELSE "failed"
      BY <2>1, <2>3 DEF WriteRow
    <3>4. finished' = (finished \/ row' \in Terminal)
      BY <2>3 DEF WriteRow
    <3>5. \A r \in Requests : reqs[r].pc # "stopped"
      BY <2>1 DEF IInv, Phases, Coherent
    <3>6. TypeOK' /\ Ended' /\ EnforcementAlive'
      BY <2>1, <2>3, <3>1, <3>3, <3>4
         DEF IInv, TypeOK, Ended, EnforcementAlive,
             Statuses, Live, Terminal, CreatorPCs, AllTasks, NoTasks, TaskPCs
    <3>7. Stacks'
      BY <2>1, <3>2, <3>3, <3>5 DEF Stacks, OwedDown, Terminal
    <3> QED
      BY <2>1, <3>3, <3>6, <3>7 DEF IInv, Phases, Creating
  <2> QED BY <1>2, <2>1, <2>2, <2>3 DEF Promote
<1> QED BY <1>1, <1>2

LEMMA CreatorStepIInv == IInv /\ CreatorStep => IInv'
<1> SUFFICES ASSUME IInv, CreatorStep PROVE IInv'
  OBVIOUS
<1>1. CASE HealthDone
  BY <1>1, MoveStep DEF HealthDone, Healths, Continue, Unhealthy, Creating, CreatorPCs, runtime, IInv, TypeOK
<1>2. CASE BootstrapDone
  <2>1. CASE Promote("aborting")
    BY <1>2, <2>1, PromoteStep DEF BootstrapDone, Creating
  <2>2. CASE ~Promote("aborting")
    BY <1>2, <2>2, MoveStep
       DEF BootstrapDone, Continue, Unhealthy, Creating, CreatorPCs, runtime, IInv, TypeOK
  <2> QED BY <2>1, <2>2
<1>3. CASE AgentsDone
  BY <1>3, MoveStep DEF AgentsDone, Continue, Unhealthy, Creating, CreatorPCs, runtime, IInv, TypeOK
<1>4. CASE SchedulerStart
  BY <1>4, MoveStep DEF SchedulerStart, Creating, CreatorPCs, IInv, TypeOK
<1>5. CASE StartDone
  <2>1. CASE row = "deleted"
    BY <1>5, <2>1, MoveStep
       DEF StartDone, Unhealthy, Creating, CreatorPCs, runtime, IInv, TypeOK
  <2>2. CASE row # "deleted"
    BY <1>5, <2>2, PromoteStep DEF StartDone, Creating
  <2> QED BY <2>1, <2>2
<1>6. CASE AbortDone \/ FailStop
  <2>1. PICK result \in Results : StopStack(result)
    BY <1>6 DEF AbortDone, FailStop
  <2>2. /\ stack' \in {"up", "down"} /\ sched' \in {"stopped", "running", "paused"}
        /\ stack = "down" => stack' = "down"
    BY <2>1, StopFacts DEF IInv
  <2>3. creator' \in {"gone", "failing", "failed"} /\ ignored' = (ignored \/ stack' = "up")
    BY <1>6 DEF AbortDone, FailStop, Ignoring
  <2>4. tasks' = NoTasks /\ tasks' \in [Limits -> TaskPCs]
    BY <1>6 DEF AbortDone, FailStop, NoTasks, TaskPCs, IInv, Phases
  <2>5. /\ Creating /\ UNCHANGED <<row, reqs, up, crashes, finished, revived>>
    BY <1>6 DEF AbortDone, FailStop, Creating
  <2>6. row \notin Live
    BY <2>5 DEF IInv, Phases, Live
  <2> QED BY <2>2, <2>3, <2>4, <2>5, <2>6
       DEF IInv, TypeOK, Phases, Creating, Stacks, OwedDown, Ended, EnforcementAlive, CreatorPCs
<1>7. CASE FailWrite
  <2>1. row' = IF row = "deleted" THEN row ELSE "failed"
    BY <1>7 DEF FailWrite, WriteRow
  <2>2. finished' = (finished \/ row' \in Terminal)
    BY <1>7 DEF FailWrite, WriteRow
  <2>3. /\ creator = "failed" /\ creator' = "gone" /\ tasks' = NoTasks
        /\ UNCHANGED <<reqs, stack, sched, up, crashes, revived, ignored>>
    BY <1>7 DEF FailWrite, runtime
  <2> QED BY <2>1, <2>2, <2>3
       DEF IInv, TypeOK, Phases, Creating, Stacks, OwedDown, Ended, EnforcementAlive,
           Statuses, Live, Terminal, CreatorPCs, NoTasks, TaskPCs
<1> QED BY <1>1, <1>2, <1>3, <1>4, <1>5, <1>6, <1>7 DEF CreatorStep

-----------------------------------------------------------------------------
(* Stop, delete, and the requests that read, ask and write.                *)

LEMMA StopRouteStep == IInv /\ StopRoute => IInv'
<1> SUFFICES ASSUME IInv, StopRoute PROVE IInv'
  OBVIOUS
<1>1. PICK result \in Results :
         /\ StopStack(result)
         /\ IF StopAccepted(result)
            THEN WriteRow("cancelled") /\ tasks' = NoTasks
            ELSE UNCHANGED <<row, tasks, finished>>
  BY DEF StopRoute
<1>2. /\ stack' \in {"up", "down"} /\ sched' \in {"stopped", "running", "paused"}
      /\ stack = "down" => stack' = "down"
      /\ result # "failed" => stack' = "down"
  BY <1>1, StopFacts DEF IInv
<1>3. UNCHANGED <<creator, reqs, up, crashes, revived, ignored>> /\ row \in {"pending"} \cup Live
  BY DEF StopRoute
<1>4. CASE result # "failed"
  <2>1. row' = "cancelled" /\ finished' = TRUE /\ tasks' = NoTasks
    BY <1>1, <1>3, <1>4 DEF StopAccepted, WriteRow, Live, Terminal
  <2> QED BY <1>2, <1>3, <1>4, <2>1
       DEF IInv, TypeOK, Phases, Creating, Stacks, Ended, EnforcementAlive,
           Statuses, Live, Terminal, NoTasks, TaskPCs
<1>5. CASE result = "failed"
  BY <1>1, <1>2, <1>3, <1>5
     DEF StopAccepted, IInv, TypeOK, Phases, Creating, Stacks, OwedDown, Ended, EnforcementAlive
<1> QED BY <1>4, <1>5

LEMMA DeleteRouteStep == IInv /\ DeleteRoute => IInv'
<1> SUFFICES ASSUME IInv, DeleteRoute PROVE IInv'
  OBVIOUS
<1>1. PICK result \in Results : DeleteStack(result)
  BY DEF DeleteRoute
<1>2. /\ stack' \in {"up", "down"} /\ sched' \in {"stopped", "running", "paused"}
      /\ stack = "down" => stack' = "down"
  BY <1>1, DeleteFacts DEF IInv
<1>3. /\ UNCHANGED <<creator, reqs, up, crashes, finished, revived>>
      /\ row' = "deleted" /\ tasks' = NoTasks /\ row \in {"pending"} \cup Terminal
      /\ ignored' = (ignored \/ stack' = "up")
  BY DEF DeleteRoute, Ignoring
<1> QED BY <1>2, <1>3
     DEF IInv, TypeOK, Phases, Creating, Stacks, OwedDown, Ended, EnforcementAlive,
         Statuses, Live, Terminal, NoTasks, TaskPCs

(* A request that moves on or ends, and leaves row, tasks and creator.     *)
LEMMA RequestMove ==
    ASSUME IInv, NEW r \in Requests, NEW q \in Request,
           reqs' = [reqs EXCEPT ![r] = q], Coherent(q),
           q.kind # "none" => row \notin {"none", "pending"},
           Creating => q.kind \in {"none", "restart"},
           q.pc = "stopped" => stack' = "down" \/ ignored',
           stack' = "up" => stack = "up" \/ revived',
           stack' \in {"up", "down"}, sched' \in {"stopped", "running", "paused"},
           revived' \in BOOLEAN, revived => revived',
           ignored' \in BOOLEAN, ignored => ignored',
           UNCHANGED <<row, creator, tasks, up, crashes, finished>>
    PROVE  IInv'
<1>1. TypeOK' /\ Ended' /\ EnforcementAlive'
  BY DEF IInv, TypeOK, Ended, EnforcementAlive
<1>2. \A x \in Requests : reqs'[x] = IF x = r THEN q ELSE reqs[x]
  BY DEF IInv, TypeOK
<1>3. Phases'
  BY <1>2 DEF IInv, Phases, Creating
<1>4. Stacks'
  BY <1>2 DEF IInv, TypeOK, Stacks, OwedDown
<1> QED BY <1>1, <1>3, <1>4 DEF IInv

LEMMA RequestFacts ==
    ASSUME IInv, NEW r \in Requests
    PROVE  /\ reqs[r] \in Request /\ Coherent(reqs[r])
           /\ NoRequest \in Request /\ Coherent(NoRequest)
           /\ \A pc \in RequestPCs :
                 [reqs EXCEPT ![r].pc = pc]
                   = [reqs EXCEPT ![r] = [kind |-> reqs[r].kind, pc |-> pc]]
<1>1. reqs[r] \in Request /\ Coherent(reqs[r]) /\ reqs \in [Requests -> Request]
  BY DEF IInv, TypeOK, Phases
<1>2. NoRequest \in Request /\ Coherent(NoRequest)
  BY DEF NoRequest, Request, Kinds, RequestPCs, Coherent
<1>3. ASSUME NEW pc \in RequestPCs
      PROVE  [reqs EXCEPT ![r].pc = pc] = [reqs EXCEPT ![r] = [kind |-> reqs[r].kind, pc |-> pc]]
  <2>1. [reqs[r] EXCEPT !.pc = pc] = [kind |-> reqs[r].kind, pc |-> pc]
    BY <1>1 DEF Request
  <2> QED BY <2>1
<1> QED BY <1>1, <1>2, <1>3

(* The write at the end of a request.  The row is past PENDING, so it was  *)
(* RUNNING or PAUSED with its tasks alive, or has ended before.            *)
LEMMA RequestWrite ==
    ASSUME IInv, NEW r \in Requests, reqs[r].kind \notin {"none", "restart"},
           NEW status \in {"running", "paused", "cancelled"}, WriteRow(status),
           status = "cancelled" => reqs[r].pc = "stopped",
           reqs' = [reqs EXCEPT ![r] = NoRequest],
           UNCHANGED <<creator, tasks, runtime, up, crashes, revived, ignored>>
    PROVE  IInv'
<1>1. row \in Live \cup Terminal \cup {"deleted"} /\ ~Creating
  BY DEF IInv, TypeOK, Phases, Statuses, Creating, Live, Terminal
<1>2. row' = (IF row = "deleted" THEN row ELSE status)
      /\ finished' = (finished \/ row' \in Terminal)
  BY DEF WriteRow
<1>3. \A x \in Requests : reqs'[x] = IF x = r THEN NoRequest ELSE reqs[x]
  BY DEF IInv, TypeOK
<1>4. TypeOK'
  BY <1>2, RequestFacts DEF IInv, TypeOK, Statuses, Live, Terminal, runtime
<1>5. Phases'
  BY <1>1, <1>2, <1>3, RequestFacts DEF IInv, Phases, Creating, Live, Terminal, NoRequest
<1>6. Stacks'
  BY <1>1, <1>2, <1>3 DEF IInv, Stacks, OwedDown, Creating, Live, Terminal, NoRequest, runtime
<1>7. Ended' /\ EnforcementAlive'
  BY <1>1, <1>2 DEF IInv, Ended, EnforcementAlive, Live, Terminal
<1> QED BY <1>4, <1>5, <1>6, <1>7 DEF IInv

LEMMA ArriveStep ==
    ASSUME IInv, NEW r \in Requests, Arrive(r) PROVE IInv'
<1>1. PICK kind \in Kinds \ {"none"} :
         Asks(kind) /\ reqs' = [reqs EXCEPT ![r] = [kind |-> kind, pc |-> FirstPC(kind)]]
  BY DEF Arrive
<1>2. /\ [kind |-> kind, pc |-> FirstPC(kind)] \in Request
      /\ Coherent([kind |-> kind, pc |-> FirstPC(kind)])
      /\ FirstPC(kind) # "stopped"
  BY DEF Kinds, Request, RequestPCs, FirstPC, Coherent
<1>3. row \notin {"none", "pending"} /\ (kind # "restart" => row \in Live)
  BY <1>1 DEF Asks, Live, Terminal, Kinds
<1>4. Creating => kind = "restart"
  BY <1>3 DEF IInv, Phases, Live
<1> QED BY <1>1, <1>2, <1>3, <1>4, RequestMove DEF Arrive, IInv, TypeOK, runtime, history

LEMMA RequestStepIInv ==
    ASSUME IInv, NEW r \in Requests, RequestStep(r) PROVE IInv'
<1> DEFINE at(pc) == [kind |-> reqs[r].kind, pc |-> pc]
<1>0. /\ reqs[r] \in Request /\ Coherent(reqs[r]) /\ NoRequest \in Request /\ Coherent(NoRequest)
      /\ \A pc \in RequestPCs : To(r, pc) => reqs' = [reqs EXCEPT ![r] = at(pc)]
      /\ \A pc \in RequestPCs : at(pc) \in Request
  BY RequestFacts DEF To, Request
<1>1. /\ NoRequest.kind = "none" /\ NoRequest.pc = "idle"
      /\ stack \in {"up", "down"} /\ sched \in {"stopped", "running", "paused"}
      /\ revived \in BOOLEAN /\ ignored \in BOOLEAN
  BY DEF NoRequest, IInv, TypeOK
<1>2. reqs[r].kind # "none" =>
         row \notin {"none", "pending"} /\ (Creating => reqs[r].kind = "restart")
  BY DEF IInv, Phases
<1>3. ASSUME NEW pc \in RequestPCs \ {"stopped"}, Coherent(at(pc)), reqs[r].kind # "none",
             To(r, pc) \/ Idle(r),
             sched' \in {"stopped", "running", "paused"}, stack' \in {"up", "down"},
             stack' = "up" => stack = "up" \/ revived',
             revived' \in BOOLEAN, revived => revived',
             UNCHANGED <<row, creator, tasks, up, crashes, finished, ignored>>
      PROVE  IInv'
  <2>1. CASE To(r, pc)
    BY <1>0, <1>1, <1>2, <1>3, <2>1, RequestMove
  <2>2. CASE Idle(r)
    BY <1>0, <1>1, <1>3, <2>2, RequestMove DEF Idle
  <2> QED BY <1>3, <2>1, <2>2
<1>4. CASE SchedulerAnswers(r)
  <2>1. reqs[r].kind # "none" /\ Coherent(at("answered"))
    BY <1>0, <1>4 DEF SchedulerAnswers, Coherent
  <2> QED BY <1>1, <1>3, <1>4, <2>1 DEF SchedulerAnswers, RequestPCs, history
<1>5. CASE Inspect(r)
  <2>1. reqs[r].kind # "none" /\ Coherent(at("launching"))
    BY <1>0, <1>5 DEF Inspect, Coherent
  <2> QED BY <1>1, <1>3, <1>5, <2>1 DEF Inspect, RequestPCs, history, runtime
<1>6. CASE Relaunch(r)
  <2>1. reqs[r].kind # "none" /\ Coherent(at("probing"))
    BY <1>0, <1>6 DEF Relaunch, Coherent
  <2>2. stack' \in {"up", "down"} /\ (stack' = "up" => revived')
        /\ revived' \in BOOLEAN /\ (revived => revived')
    BY <1>1, <1>6, LaunchFacts DEF Relaunch
  <2> QED BY <1>1, <1>3, <1>6, <2>1, <2>2 DEF Relaunch, RequestPCs
<1>7. CASE Probe(r)
  <2>1. reqs[r].kind # "none" /\ Coherent(at("stopping"))
    BY <1>0, <1>7 DEF Probe, Coherent
  <2>2. To(r, "stopping") \/ Idle(r)
    BY <1>7 DEF Probe, To
  <2> QED BY <1>1, <1>3, <1>7, <2>1, <2>2 DEF Probe, RequestPCs, history, runtime
<1>8. CASE RestartStop(r)
  <2>1. PICK result \in Results : StopStack(result)
    BY <1>8 DEF RestartStop
  <2>2. /\ stack' \in {"up", "down"} /\ sched' \in {"stopped", "running", "paused"}
        /\ stack = "down" => stack' = "down"
    BY <2>1, StopFacts DEF IInv
  <2>3. reqs' = [reqs EXCEPT ![r] = NoRequest]
    BY <1>8 DEF RestartStop, Idle
  <2> QED BY <1>0, <1>1, <1>8, <2>2, <2>3, RequestMove DEF RestartStop, history
<1>9. CASE CostStop(r)
  <2>1. PICK result \in Results : StopStack(result)
    BY <1>9 DEF CostStop
  <2>2. /\ stack' \in {"up", "down"} /\ sched' \in {"stopped", "running", "paused"}
        /\ stack = "down" => stack' = "down"
    BY <2>1, StopFacts DEF IInv
  <2>3. ignored' = (ignored \/ stack' = "up") /\ reqs[r].kind = "costStop"
    BY <1>9 DEF CostStop, Ignoring
  <2>4. reqs' = [reqs EXCEPT ![r] = at("stopped")] /\ at("stopped") \in Request
        /\ Coherent(at("stopped"))
    BY <1>0, <1>9, <2>3 DEF CostStop, RequestPCs, Coherent
  <2>5. ~Creating
    BY <1>2, <2>3
  <2> QED BY <1>1, <1>2, <1>9, <2>2, <2>3, <2>4, <2>5, RequestMove DEF CostStop
<1>10. CASE CommitAnswer(r)
  <2>1. reqs[r].kind \in {"pause", "resume", "costPause", "costRepause"}
    BY <1>0, <1>10 DEF CommitAnswer, Coherent
  <2> QED BY <1>10, <2>1, RequestWrite DEF CommitAnswer, Idle
<1>11. CASE CostCommit(r)
  <2>1. reqs[r].kind = "costStop"
    BY <1>0, <1>11 DEF CostCommit, Coherent
  <2> QED BY <1>11, <2>1, RequestWrite DEF CostCommit, Idle
<1> QED BY <1>4, <1>5, <1>6, <1>7, <1>8, <1>9, <1>10, <1>11 DEF RequestStep

-----------------------------------------------------------------------------
(* Enforcement, crash and recovery.                                        *)

LEMMA EnforceStep == IInv /\ Enforce => IInv'
<1> SUFFICES ASSUME IInv, Enforce PROVE IInv'
  OBVIOUS
<1>1. ASSUME NEW l \in Limits, NEW status \in {"timed_out", "completed"},
             EnforceLimit(l, status), tasks[l] # "none",
             UNCHANGED <<creator, reqs, up, crashes, revived>>
      PROVE  IInv'
  <2>1. creator = "gone" /\ row # "none"
    BY <1>1 DEF IInv, Phases, NoTasks
  <2>2. PICK result \in Results :
           StopStack(result) /\ WriteRow(IF result = "success" THEN status ELSE "failed")
    BY <1>1 DEF EnforceLimit
  <2>3. /\ stack' \in {"up", "down"} /\ sched' \in {"stopped", "running", "paused"}
        /\ stack = "down" => stack' = "down"
    BY <2>2, StopFacts DEF IInv
  <2>4. /\ row' \in Terminal \cup {"deleted"}
        /\ row' = "deleted" => row = "deleted"
        /\ finished' = (finished \/ row' \in Terminal)
    BY <2>2 DEF WriteRow, Terminal
  <2>5. tasks' \in [Limits -> TaskPCs] /\ ignored' = (ignored \/ stack' = "up")
    BY <1>1 DEF EnforceLimit, End, Ignoring, IInv, TypeOK, TaskPCs
  <2>6. TypeOK' /\ Ended' /\ EnforcementAlive'
    BY <1>1, <2>3, <2>4, <2>5
       DEF IInv, TypeOK, Ended, EnforcementAlive, Statuses, Live, Terminal
  <2>7. Phases'
    BY <1>1, <2>1, <2>4 DEF IInv, Phases, Creating, Terminal
  <2>8. Stacks'
    BY <1>1, <2>3, <2>5 DEF IInv, TypeOK, Stacks
  <2> QED BY <2>6, <2>7, <2>8 DEF IInv
<1>2. ASSUME NEW l \in Limits, NEW pc \in TaskPCs, tasks[l] # "none",
             tasks' = [tasks EXCEPT ![l] = pc], pc = "none" => row \notin Live,
             UNCHANGED <<row, creator, reqs, runtime, up, crashes, history>>
      PROVE  IInv'
  <2>1. creator = "gone"
    BY <1>2 DEF IInv, Phases, NoTasks
  <2>2. \A x \in Limits : tasks'[x] = IF x = l THEN pc ELSE tasks[x]
    BY <1>2 DEF IInv, TypeOK
  <2>3. TypeOK' /\ Ended' /\ EnforcementAlive'
    BY <1>2, <2>2 DEF IInv, TypeOK, Ended, EnforcementAlive, runtime, history
  <2> QED BY <1>2, <2>1, <2>3
       DEF IInv, Phases, Creating, Stacks, OwedDown, runtime, history
<1>3. CASE RuntimeLimit
  BY <1>1, <1>2, <1>3 DEF RuntimeLimit, Enforces, End, TaskPCs, runtime, history
<1>4. ASSUME NEW l \in Limits, Poll(l) \/ PollAnswered(l) PROVE IInv'
  <2>1. PICK pc \in TaskPCs : tasks' = [tasks EXCEPT ![l] = pc] /\ (pc = "none" => row \notin Live)
    BY <1>4 DEF Poll, PollAnswered, Progress, Enforces, TaskPCs
  <2>2. tasks[l] # "none" /\ UNCHANGED <<row, creator, reqs, runtime, up, crashes, history>>
    BY <1>4 DEF Poll, PollAnswered, Progress
  <2> QED BY <1>2, <2>1, <2>2
<1>5. ASSUME NEW l \in Limits, PolledLimit(l) PROVE IInv'
  BY <1>1, <1>5 DEF PolledLimit
<1> QED BY <1>3, <1>4, <1>5 DEF Enforce

LEMMA ProcessStep == IInv /\ (SchedulerStops \/ ContainersRemoved \/ Crash \/ Boot) => IInv'
<1> SUFFICES ASSUME IInv, SchedulerStops \/ ContainersRemoved \/ Crash \/ Boot
             PROVE  IInv'
  OBVIOUS
<1>1. CASE SchedulerStops \/ ContainersRemoved
  BY <1>1 DEF SchedulerStops, ContainersRemoved, IInv, TypeOK, Phases, Creating, Stacks, OwedDown, Ended,
       EnforcementAlive, history
<1>2. CASE Crash
  <2>1. /\ creator' \in {"idle", "gone"} /\ (creator' = "idle" <=> row = "none")
        /\ up' = FALSE /\ tasks' = NoTasks /\ UNCHANGED <<row, runtime, history>>
        /\ reqs' = [r \in Requests |-> NoRequest]
        /\ crashes' = crashes + 1 /\ crashes < MaxCrashes
    BY <1>2 DEF Crash, IInv, Phases
  <2>2. TypeOK'
    <3>1. reqs' \in [Requests -> Request] /\ tasks' \in [Limits -> TaskPCs]
      BY <2>1 DEF NoTasks, TaskPCs, NoRequest, Request, Kinds, RequestPCs
    <3>2. crashes' \in 0..MaxCrashes
      BY <2>1, LifecycleAssumption DEF IInv, TypeOK
    <3> QED BY <2>1, <3>1, <3>2 DEF IInv, TypeOK, CreatorPCs, runtime, history
  <2>3. Phases' /\ Ended' /\ EnforcementAlive'
    BY <2>1 DEF IInv, Phases, Creating, Coherent, NoRequest, Ended, EnforcementAlive, history
  <2>4. Stacks'
    BY <2>1 DEF IInv, Stacks, OwedDown, NoRequest, runtime, history
  <2> QED BY <2>2, <2>3, <2>4 DEF IInv
<1>3. CASE Boot
  <2>1. /\ tasks' = IF row \in Live THEN AllTasks ELSE NoTasks
        /\ up' = TRUE /\ UNCHANGED <<row, creator, reqs, runtime, crashes, history>>
    BY <1>3 DEF Boot, Recovered
  <2>2. row \in Live => creator = "gone"
    BY DEF IInv, Phases, Creating, Live
  <2>3. TypeOK' /\ Ended' /\ EnforcementAlive'
    BY <2>1 DEF IInv, TypeOK, Ended, EnforcementAlive, NoTasks, AllTasks, TaskPCs,
       runtime, history
  <2>4. Phases' /\ Stacks'
    BY <2>1, <2>2 DEF IInv, Phases, Creating, Stacks, OwedDown, runtime, history
  <2> QED BY <2>3, <2>4 DEF IInv
<1> QED BY <1>1, <1>2, <1>3

-----------------------------------------------------------------------------
(* The invariant of the specification.                                     *)

LEMMA InitIInv == Init => IInv
<1> SUFFICES ASSUME Init PROVE IInv
  OBVIOUS
<1>1. TypeOK
  <2>1. reqs \in [Requests -> Request] /\ tasks \in [Limits -> TaskPCs]
    BY DEF Init, NoTasks, TaskPCs, NoRequest, Request, Kinds, RequestPCs
  <2>2. crashes \in 0..MaxCrashes
    BY LifecycleAssumption DEF Init
  <2> QED BY <2>1, <2>2 DEF Init, TypeOK, Statuses, CreatorPCs
<1>2. Phases
  BY DEF Init, Phases, Creating, Coherent, NoRequest
<1>3. Stacks /\ Ended /\ EnforcementAlive
  BY DEF Init, Stacks, Ended, EnforcementAlive, Terminal, Live
<1> QED BY <1>1, <1>2, <1>3 DEF IInv

LEMMA NextIInv == IInv /\ [Next]_vars => IInv'
<1> SUFFICES ASSUME IInv, [Next]_vars PROVE IInv'
  OBVIOUS
<1>1. CASE UNCHANGED vars
  BY <1>1 DEF vars, IInv, TypeOK, Phases, Creating, Stacks, OwedDown, Ended, EnforcementAlive
<1>2. CASE Next
  BY <1>2, CreateStep, CreatorStepIInv, StopRouteStep, DeleteRouteStep, ArriveStep,
     RequestStepIInv, EnforceStep, ProcessStep DEF Next
<1> QED BY <1>1, <1>2

LEMMA Invariance == Spec => []IInv
<1>1. Init => IInv
  BY InitIInv
<1>2. IInv /\ [Next]_vars => IInv'
  BY NextIInv
<1> QED BY <1>1, <1>2, PTL DEF Spec

(* Every variable keeps its type.                                          *)
THEOREM TypeCorrect == Spec => []TypeOK
<1>1. IInv => TypeOK
  BY DEF IInv
<1> QED BY <1>1, Invariance, PTL

(* A run that has not ended is never without the tasks of its limits, for  *)
(* any number of controller crashes and any requests at the same time.     *)
THEOREM LimitsStayEnforced == Spec => []EnforcementAlive
<1>1. IInv => EnforcementAlive
  BY DEF IInv
<1> QED BY <1>1, Invariance, PTL

(* No terminal run keeps its containers, but for a deliberate restart and  *)
(* a stop whose failure the code ignored.                                  *)
THEOREM TerminalRunsHaveNoStack == Spec => []TerminalStackDown
<1>1. IInv => TerminalStackDown
  BY DEF IInv, Stacks, OwedDown, TerminalStackDown
<1> QED BY <1>1, Invariance, PTL

(* The creator never promotes anything but a PENDING row to RUNNING.       *)
LEMMA NoLatePromotion == IInv /\ [Next]_vars => ~LatePromotion
<1> DEFINE Promotion == creator # "gone" /\ creator' = "gone" /\ row' = "running"
<1>1. ASSUME IInv, [Next]_vars, Promotion PROVE row = "pending"
  <2>1. creator # "idle" => row \in {"pending", "cancelled", "deleted"}
    BY <1>1 DEF IInv, Phases, Creating
  <2>2. CASE Create
    BY <1>1, <2>2 DEF Create
  <2>3. CASE CreatorStep
    <3>1. creator \in CreatorPCs \ {"idle", "gone"}
      BY <2>3, <1>1 DEF CreatorStep, HealthDone, Healths, BootstrapDone, AgentsDone, SchedulerStart,
         StartDone, AbortDone, FailStop, FailWrite, CreatorPCs
    <3>2. row # "deleted" /\ (row = "cancelled" => row' # "running")
      BY <1>1, <2>3 DEF CreatorStep, HealthDone, Healths, BootstrapDone, AgentsDone, SchedulerStart,
         StartDone, AbortDone, FailStop, FailWrite, Promote, WriteRow
    <3> QED BY <1>1, <2>1, <3>1, <3>2
  <2>4. CASE StopRoute \/ DeleteRoute \/ Enforce \/ SchedulerStops \/ ContainersRemoved \/ Boot
    BY <1>1, <2>4 DEF StopRoute, DeleteRoute, Enforce, RuntimeLimit, Poll, PollAnswered, Progress,
       PolledLimit, SchedulerStops, ContainersRemoved, Boot
  <2>5. ASSUME NEW r \in Requests, Arrive(r) \/ RequestStep(r) PROVE FALSE
    BY <1>1, <2>5 DEF Arrive, RequestStep, SchedulerAnswers, CommitAnswer, CostStop,
       CostCommit, Inspect, Relaunch, Probe, RestartStop
  <2>6. CASE Crash
    BY <1>1, <2>1, <2>6 DEF Crash
  <2>7. CASE UNCHANGED vars
    BY <1>1, <2>7 DEF vars
  <2> QED BY <1>1, <2>2, <2>3, <2>4, <2>5, <2>6, <2>7 DEF Next
<1> QED BY <1>1 DEF LatePromotion

(* The runtime limit never overrides an outcome: of all the writers of the *)
(* row only its task writes TIMED_OUT, and it reads the row with no await  *)
(* in between.                                                             *)
LEMMA NoLateTimeout == [Next]_vars => ~LateTimeout
<1> DEFINE TimesOut == row' = "timed_out" /\ row # "timed_out"
<1>1. ASSUME [Next]_vars, TimesOut PROVE row \in Live
  <2>1. \A status : status # "timed_out" /\ WriteRow(status) => ~TimesOut
    BY DEF WriteRow
  <2>2. CASE Create \/ StopRoute \/ DeleteRoute \/ SchedulerStops \/ ContainersRemoved \/ Boot \/ Crash
    BY <1>1, <2>1, <2>2 DEF Create, StopRoute, DeleteRoute, SchedulerStops, ContainersRemoved,
       Boot, Crash
  <2>3. CASE CreatorStep
    BY <1>1, <2>1, <2>3 DEF CreatorStep, HealthDone, Healths, BootstrapDone, AgentsDone, SchedulerStart,
       StartDone, AbortDone, FailStop, FailWrite, Promote
  <2>4. ASSUME NEW r \in Requests, Arrive(r) \/ RequestStep(r) PROVE FALSE
    BY <1>1, <2>1, <2>4 DEF Arrive, RequestStep, SchedulerAnswers, CommitAnswer, CostStop,
       CostCommit, Inspect, Relaunch, Probe, RestartStop
  <2>5. CASE RuntimeLimit
    BY <1>1, <2>5 DEF RuntimeLimit, Enforces
  <2>6. ASSUME NEW l \in Limits, Poll(l) \/ PollAnswered(l) \/ PolledLimit(l) PROVE FALSE
    BY <1>1, <2>1, <2>6 DEF Poll, PollAnswered, Progress, PolledLimit, EnforceLimit
  <2>7. CASE UNCHANGED vars
    BY <1>1, <2>7 DEF vars
  <2> QED BY <1>1, <2>2, <2>3, <2>4, <2>5, <2>6, <2>7 DEF Next, Enforce
<1> QED BY <1>1 DEF LateTimeout

(* Whatever the order of startup, requests, limits and crashes, a startup  *)
(* or a limit that is late does not rewrite the outcome of a run.          *)
THEOREM LateWritersOverrideNothing == Spec => NoLateOverride
<1>1. IInv /\ [Next]_vars => [~LatePromotion /\ ~LateTimeout]_vars
  BY NoLatePromotion, NoLateTimeout
<1> QED BY <1>1, Invariance, PTL DEF Spec, NoLateOverride
=============================================================================
