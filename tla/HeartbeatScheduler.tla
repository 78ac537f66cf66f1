------------------------- MODULE HeartbeatScheduler -------------------------
(***************************************************************************)
(* The per-run heartbeat scheduler of the agent launcher                   *)
(* (services/agent-launcher/app/scheduler.py) together with the control    *)
(* routes that drive it (routes/scheduler.py).                             *)
(*                                                                         *)
(* Everything runs on one asyncio event loop, so the code between two      *)
(* awaits that really suspend is one atomic action here.  The interleaving *)
(* that remains is between the agent loops, the sync loops that reconcile  *)
(* them with the agent directories, and control requests, of which stop()  *)
(* suspends (it awaits the telemetry flush before it writes STOPPED).      *)
(*                                                                         *)
(* Task.cancel() only requests a cancellation: the loop sees it when it is *)
(* next resumed.  A loop cancelled while it sleeps returns; a loop         *)
(* cancelled inside a heartbeat swallows the CancelledError, counts the    *)
(* heartbeat as a success and looks at the scheduler state again, so it    *)
(* goes on when the state is still, or again, RUNNING.                     *)
(***************************************************************************)
EXTENDS Integers, FiniteSets

CONSTANTS
    Agents,       \* agent directories the scheduler may discover
    Slots,        \* bound: coroutines of one agent that can exist at a time
    MaxParallel,  \* max_parallel_agents, the semaphore's initial value
    Retries,      \* retry_count of one heartbeat
    Cap,          \* max_heartbeats_per_agent
    MaxOps,       \* bound: control requests in a behaviour
    MaxChurn      \* bound: agent directories created or deleted

ASSUME SchedulerAssumption ==
    /\ IsFiniteSet(Agents)
    /\ Slots \subseteq Nat \ {0} /\ IsFiniteSet(Slots)
    /\ MaxParallel \in Nat \ {0}
    /\ Retries \in Nat \ {0}
    /\ Cap \in Nat \ {0}
    /\ MaxOps \in Nat
    /\ MaxChurn \in Nat

VARIABLES
    state,        \* _state
    agents,       \* _agent_states: Absent or the AgentState of each key
    loops,        \* the _agent_loop coroutines, by agent and slot
    registry,     \* _agent_loop_tasks: the slot registered for an agent, or NoLoop
    syncOwned,    \* the task _sync_task refers to is live and not cancelled
    syncStray,    \* live sync loops that _sync_task no longer refers to
    resumeSyncs,  \* one-shot syncs created by resume() that have not run
    stops,        \* stop requests suspended in telemetry_buffer.stop()
    restarts,     \* start requests suspended in the stop() they issued
    gen,          \* how often initialize() has run; names the semaphore
    permits,      \* free permits of each semaphore created so far
    inFlight,     \* _in_flight_heartbeats
    present,      \* agent directories on disk
    ops, churn,   \* control requests and directory changes so far
    served        \* history: heartbeats answered per AgentState object

vars == <<state, agents, loops, registry, syncOwned, syncStray, resumeSyncs,
          stops, restarts, gen, permits, inFlight, present, ops, churn, served>>

control == <<stops, restarts, ops>>
syncs   == <<syncOwned, syncStray, resumeSyncs>>
disk    == <<present, churn>>

NoLoop == 0
FailureLimit == 3

Gens     == 0 .. MaxOps
States   == {"stopped", "running", "paused"}
Statuses == {"unknown", "running", "active", "completed", "failed"}

AgentState == [index: Nat, status: Statuses, failures: 0..FailureLimit]
NewAgent   == [index |-> 0, status |-> "unknown", failures |-> 0]
Absent     == [index |-> 0, status |-> "absent", failures |-> 0]

(***************************************************************************)
(* A coroutine is described by the await it is suspended in: "asleep"      *)
(* before its first heartbeat and between two, "queued" on the semaphore,  *)
(* "calling" the heartbeat endpoint, "backoff" between two attempts; it is *)
(* "idle" when it does not exist.  fresh says that the AgentState object   *)
(* the heartbeat works on is still the one in _agent_states.               *)
(***************************************************************************)
LoopRecord == [pc: {"idle", "asleep", "queued", "calling", "backoff"},
               cancel: BOOLEAN, fresh: BOOLEAN,
               next: Nat, tries: Nat, gen: Gens]
Idle   == [pc |-> "idle", cancel |-> FALSE, fresh |-> FALSE,
           next |-> 0, tries |-> 0, gen |-> 0]
Asleep == [Idle EXCEPT !.pc = "asleep"]

Holding(l)   == l.pc \in {"calling", "backoff"}
InHeartbeat(l) == l.pc \in {"queued", "calling", "backoff"}

-----------------------------------------------------------------------------
(* Conditions the code evaluates on its state.                             *)

(* Mutants, here and below: what the operator that follows would be with a *)
(* plausible bug.  No action uses them.                                    *)
CappedLate(s) == s # Absent /\ s.index > Cap

Capped(s) == s # Absent /\ s.index >= Cap

AllAgentsTerminal(ags) ==
    /\ \E a \in Agents : ags[a] # Absent
    /\ \A a \in Agents : ags[a] # Absent => ags[a].status \in {"completed", "failed"}

NeverStop(st, ags, lps, reg, inf) == st

(* _maybe_stop_when_all_agents_terminal: the state it leaves behind.       *)
MaybeStop(st, ags, lps, reg, inf) ==
    IF /\ st = "running"
       /\ inf = 0
       /\ \A a \in Agents : reg[a] = NoLoop \/ lps[a][reg[a]].pc = "idle"
       /\ AllAgentsTerminal(ags)
    THEN "stopped"
    ELSE st

FreeSlots(lps, a) == {s \in Slots : lps[a][s].pc = "idle"}

SemaphoreFree(g) ==
    /\ permits[g] > 0
    /\ \A a \in Agents, s \in Slots :
          ~(loops[a][s].pc = "queued" /\ loops[a][s].gen = g /\ ~loops[a][s].cancel)

-----------------------------------------------------------------------------
(* _sync_agents_once on given loops, registry and states: which agents get *)
(* a loop, which loops are cancelled because their directory is gone.      *)

NeedsLoop(ags, reg) ==
    {a \in present : /\ ~Capped(ags[a])
                     /\ reg[a] = NoLoop}
Vanished(reg) == {a \in Agents \ present : reg[a] # NoLoop}

SyncOnce(st, ags, lps, reg, inf) ==
    LET new  == NeedsLoop(ags, reg)
        gone == Vanished(reg)
        slot(a) == CHOOSE s \in FreeSlots(lps, a) : TRUE
        ags1 == [a \in Agents |->
                   IF a \in gone THEN Absent
                   ELSE IF a \notin present THEN ags[a]
                   ELSE IF ags[a] = Absent THEN NewAgent
                   ELSE IF Capped(ags[a]) THEN [ags[a] EXCEPT !.status = "completed"]
                   ELSE ags[a]]
        lps1 == [a \in Agents |-> [s \in Slots |->
                   IF a \in gone
                   THEN [lps[a][s] EXCEPT !.fresh = FALSE, !.cancel = @ \/ s = reg[a]]
                   ELSE IF a \in new /\ s = slot(a) THEN Asleep
                   ELSE lps[a][s]]]
        reg1 == [a \in Agents |->
                   IF a \in gone THEN NoLoop
                   ELSE IF a \in new THEN slot(a)
                   ELSE reg[a]]
    IN  /\ \A a \in new : FreeSlots(lps, a) # {}
        /\ agents'   = ags1
        /\ loops'    = lps1
        /\ registry' = reg1
        /\ state'    = MaybeStop(st, ags1, lps1, reg1, inf)
        /\ inFlight' = inf
        /\ served'   = [a \in Agents |-> IF Absent \in {ags[a], ags1[a]} THEN 0 ELSE served[a]]

-----------------------------------------------------------------------------
FinishKeepingEntry(a, s, st, ags, inf) ==
    LET lps1 == [loops EXCEPT ![a][s] = Idle]
    IN  /\ loops' = lps1 /\ agents' = ags /\ inFlight' = inf
        /\ state' = MaybeStop(st, ags, lps1, registry, inf)
        /\ UNCHANGED registry

(* The end of an agent loop: its finally clause drops the registry entry   *)
(* when it is its own and looks at the auto-stop condition.                *)
Finish(a, s, st, ags, inf) ==
    LET lps1 == [loops EXCEPT ![a][s] = Idle]
        reg1 == IF registry[a] = s THEN [registry EXCEPT ![a] = NoLoop] ELSE registry
    IN  /\ loops'    = lps1
        /\ registry' = reg1
        /\ agents'   = ags
        /\ inFlight' = inf
        /\ state'    = MaybeStop(st, ags, lps1, reg1, inf)

(* What follows a heartbeat in _agent_loop: _update_agent_state, then the  *)
(* state and cap checks, then the next sleep.  A skipped or cancelled      *)
(* heartbeat is a successful one here.                                     *)
Updated(r, ok) ==
    IF ok THEN [r EXCEPT !.status = "active", !.failures = 0]
    ELSE IF r.failures + 1 >= FailureLimit
    THEN [r EXCEPT !.failures = FailureLimit, !.status = "failed"]
    ELSE [r EXCEPT !.failures = @ + 1]

Conclude(a, s, ok, ags, inf) ==
    LET ags1 == IF ags[a] = Absent THEN ags ELSE [ags EXCEPT ![a] = Updated(@, ok)]
        st1  == MaybeStop(state, ags1, loops, registry, inf)
    IN  \/ /\ st1 # "running"
           /\ Finish(a, s, st1, ags1, inf)
        \/ /\ st1 = "running"
           /\ Capped(ags1[a])
           /\ Finish(a, s, st1, [ags1 EXCEPT ![a].status = "completed"], inf)
        \/ /\ st1 = "running"
           /\ ~Capped(ags1[a])
           /\ loops' = [loops EXCEPT ![a][s] = Asleep]
           /\ agents' = ags1
           /\ inFlight' = inf
           /\ state' = st1
           /\ UNCHANGED registry

ReleasedToCurrent(l) == [permits EXCEPT ![gen] = @ + 1]
NotDecremented == inFlight
DecrementedBelowZero == inFlight - 1

(* Leaving the semaphore block: the permit returns to the semaphore it was *)
(* taken from, the counter is decremented but never below zero.            *)
Released(l)  == [permits EXCEPT ![l.gen] = @ + 1]
Decremented  == IF inFlight > 0 THEN inFlight - 1 ELSE 0

-----------------------------------------------------------------------------
(* Steps of one agent loop.                                                *)

EnterCall(l) == [l EXCEPT !.pc = "calling", !.tries = 1]

EnterAsleep(a, s) ==
    /\ loops[a][s].pc = "asleep" /\ ~loops[a][s].cancel
    /\ state = "running" /\ Capped(agents[a])
    /\ Finish(a, s, state, [agents EXCEPT ![a].status = "completed"], inFlight)
    /\ UNCHANGED <<syncs, control, disk, gen, permits, served>>

(* The loop resumes from a sleep and starts its next heartbeat.            *)
Wake(a, s) ==
    /\ loops[a][s].pc = "asleep" /\ ~loops[a][s].cancel
    /\ \/ /\ state # "running"
          /\ Finish(a, s, state, agents, inFlight)
          /\ UNCHANGED <<permits, served>>
       \/ /\ state = "running" /\ Capped(agents[a])
          /\ Finish(a, s, state, [agents EXCEPT ![a].status = "completed"], inFlight)
          /\ UNCHANGED <<permits, served>>
       \/ /\ state = "running" /\ ~Capped(agents[a])
          /\ LET r == IF agents[a] = Absent THEN NewAgent ELSE agents[a]
                 l == [pc |-> "queued", cancel |-> FALSE, fresh |-> TRUE,
                       next |-> r.index + 1, tries |-> 0, gen |-> gen]
             IN  /\ agents' = [agents EXCEPT ![a] = [r EXCEPT !.status = "running"]]
                 /\ \/ /\ SemaphoreFree(gen)
                       /\ loops' = [loops EXCEPT ![a][s] = EnterCall(l)]
                       /\ permits' = [permits EXCEPT ![gen] = @ - 1]
                       /\ inFlight' = inFlight + 1
                    \/ /\ ~SemaphoreFree(gen)
                       /\ loops' = [loops EXCEPT ![a][s] = l]
                       /\ UNCHANGED <<permits, inFlight>>
          /\ UNCHANGED <<state, registry, served>>
    /\ UNCHANGED <<syncs, control, disk, gen>>

AdmitUnchecked(a, s) ==
    LET l == loops[a][s] IN
    /\ l.pc = "queued" /\ ~l.cancel /\ permits[l.gen] > 0
    /\ loops' = [loops EXCEPT ![a][s] = EnterCall(l)]
    /\ permits' = [permits EXCEPT ![l.gen] = @ - 1]
    /\ inFlight' = inFlight + 1
    /\ UNCHANGED <<state, agents, registry, syncs, control, disk, gen, served>>

(* The semaphore admits a queued heartbeat, which re-checks the state.     *)
Admit(a, s) ==
    LET l == loops[a][s] IN
    /\ l.pc = "queued" /\ ~l.cancel
    /\ permits[l.gen] > 0
    /\ \/ /\ state # "running"
          /\ Conclude(a, s, TRUE, agents, inFlight)
          /\ UNCHANGED permits
       \/ /\ state = "running"
          /\ loops' = [loops EXCEPT ![a][s] = EnterCall(l)]
          /\ permits' = [permits EXCEPT ![l.gen] = @ - 1]
          /\ inFlight' = inFlight + 1
          /\ UNCHANGED <<state, agents, registry>>
    /\ UNCHANGED <<syncs, control, disk, gen, served>>

(* The endpoint answers: the AgentState object of this heartbeat gets the  *)
(* index that was computed before the semaphore wait, also when the answer *)
(* says that the turn failed (ok is FALSE).                                *)
CallAnswered(a, s) ==
    LET l == loops[a][s]
        live == l.fresh
    IN
    /\ l.pc = "calling" /\ ~l.cancel
    /\ served' = IF live THEN [served EXCEPT ![a] = @ + 1] ELSE served
    /\ permits' = Released(l)
    /\ \E ok \in BOOLEAN :
          Conclude(a, s, ok,
                   IF live THEN [agents EXCEPT ![a].index = l.next] ELSE agents,
                   Decremented)
    /\ UNCHANGED <<syncs, control, disk, gen>>

(* An attempt fails: wait for the next one, or give the heartbeat up.      *)
CallFail(a, s) ==
    LET l == loops[a][s] IN
    /\ l.pc = "calling" /\ ~l.cancel
    /\ \/ /\ l.tries < Retries
          /\ loops' = [loops EXCEPT ![a][s].pc = "backoff"]
          /\ UNCHANGED <<state, agents, registry, permits, inFlight>>
       \/ /\ l.tries >= Retries
          /\ permits' = Released(l)
          /\ Conclude(a, s, FALSE,
                      IF l.fresh
                      THEN [agents EXCEPT ![a].status = "failed",
                              ![a].failures = IF @ < FailureLimit THEN @ + 1 ELSE @]
                      ELSE agents,
                      Decremented)
    /\ UNCHANGED <<syncs, control, disk, gen, served>>

BackoffDone(a, s) ==
    LET l == loops[a][s] IN
    /\ l.pc = "backoff" /\ ~l.cancel
    /\ \/ /\ state # "running"
          /\ permits' = Released(l)
          /\ Conclude(a, s, TRUE, agents, Decremented)
       \/ /\ state = "running"
          /\ loops' = [loops EXCEPT ![a][s].pc = "calling", ![a][s].tries = @ + 1]
          /\ UNCHANGED <<state, agents, registry, permits, inFlight>>
    /\ UNCHANGED <<syncs, control, disk, gen, served>>

(* The CancelledError arrives.  Only a sleeping loop lets it through.      *)
DeliverCancel(a, s) ==
    LET l == loops[a][s] IN
    /\ l.cancel
    /\ \/ /\ l.pc = "asleep"
          /\ Finish(a, s, state, agents, inFlight)
          /\ UNCHANGED permits
       \/ /\ l.pc = "queued"
          /\ Conclude(a, s, TRUE, agents, inFlight)
          /\ UNCHANGED permits
       \/ /\ Holding(l)
          /\ permits' = Released(l)
          /\ Conclude(a, s, TRUE, agents, Decremented)
    /\ UNCHANGED <<syncs, control, disk, gen, served>>

-----------------------------------------------------------------------------
(* Sync loops.                                                             *)

(* One turn of a _sync_agents_loop: it ends when the state is not RUNNING. *)
SyncTurn ==
    /\ syncOwned \/ syncStray > 0
    /\ state = "running"
    /\ SyncOnce(state, agents, loops, registry, inFlight)
    /\ UNCHANGED <<syncs, control, disk, gen, permits>>

SyncExit ==
    /\ state # "running"
    /\ \/ syncOwned /\ syncOwned' = FALSE /\ UNCHANGED syncStray
       \/ syncStray > 0 /\ syncStray' = syncStray - 1 /\ UNCHANGED syncOwned
    /\ UNCHANGED <<state, agents, loops, registry, resumeSyncs, control, disk,
                   gen, permits, inFlight, served>>

(* The one-shot sync of resume().                                          *)
ResumeSync ==
    /\ resumeSyncs > 0
    /\ resumeSyncs' = resumeSyncs - 1
    /\ \/ /\ state = "running"
          /\ SyncOnce(state, agents, loops, registry, inFlight)
       \/ /\ state # "running"
          /\ UNCHANGED <<state, agents, loops, registry, inFlight, served>>
    /\ UNCHANGED <<syncOwned, syncStray, control, disk, gen, permits>>

-----------------------------------------------------------------------------
(* Control requests.                                                       *)

Op == ops < MaxOps /\ ops' = ops + 1

CancelRegistered ==
    /\ loops' = [a \in Agents |-> [s \in Slots |->
                   IF s = registry[a] /\ loops[a][s].pc # "idle"
                   THEN [loops[a][s] EXCEPT !.cancel = TRUE]
                   ELSE loops[a][s]]]
    /\ registry' = [a \in Agents |-> NoLoop]
    /\ syncOwned' = FALSE

(* initialize() followed by start(): a new semaphore, a zero counter, no   *)
(* registered loops and no agent states; nothing is cancelled.  start()    *)
(* bootstraps the loops before it can be interrupted.                      *)
InitializeAndStart ==
    LET stale == [a \in Agents |-> [s \in Slots |-> [loops[a][s] EXCEPT !.fresh = FALSE]]]
    IN  /\ gen' = gen + 1
        /\ permits' = [permits EXCEPT ![gen + 1] = MaxParallel]
        /\ syncStray' = IF syncOwned THEN syncStray + 1 ELSE syncStray
        /\ syncOwned' = TRUE
        /\ SyncOnce("running", [a \in Agents |-> Absent], stale,
                    [a \in Agents |-> NoLoop], 0)

(* POST /scheduler/start on a stopped scheduler, with or without config.   *)
Start ==
    /\ Op
    /\ state = "stopped"
    /\ InitializeAndStart
    /\ UNCHANGED <<resumeSyncs, stops, restarts, disk>>

ResumeWithoutSync ==
    /\ Op
    /\ state = "paused"
    /\ state' = "running"
    /\ UNCHANGED <<agents, loops, registry, syncs, stops, restarts, gen,
                   permits, inFlight, disk, served>>

(* POST /scheduler/resume, and /scheduler/start without config, on a       *)
(* paused scheduler.                                                       *)
Resume ==
    /\ Op
    /\ state = "paused"
    /\ state' = "running"
    /\ resumeSyncs' = resumeSyncs + 1
    /\ syncOwned' = TRUE
    /\ UNCHANGED <<agents, loops, registry, syncStray, stops, restarts, gen,
                   permits, inFlight, disk, served>>

(* POST /scheduler/pause.                                                  *)
Pause ==
    /\ Op
    /\ state = "running"
    /\ state' = "paused"
    /\ CancelRegistered
    /\ UNCHANGED <<agents, syncStray, resumeSyncs, stops, restarts, gen,
                   permits, inFlight, disk, served>>

(* POST /scheduler/stop, up to the await of the telemetry flush.           *)
BeginStop ==
    /\ Op
    /\ state # "stopped"
    /\ CancelRegistered
    /\ stops' = stops + 1
    /\ UNCHANGED <<state, agents, syncStray, resumeSyncs, restarts, gen,
                   permits, inFlight, disk, served>>

EndStop ==
    /\ stops > 0
    /\ stops' = stops - 1
    /\ state' = "stopped"
    /\ UNCHANGED <<agents, loops, registry, syncs, restarts, ops, gen,
                   permits, inFlight, disk, served>>

(* POST /scheduler/start with a config on a scheduler that is not stopped. *)
BeginRestart ==
    /\ Op
    /\ state # "stopped"
    /\ CancelRegistered
    /\ restarts' = restarts + 1
    /\ UNCHANGED <<state, agents, syncStray, resumeSyncs, stops, gen,
                   permits, inFlight, disk, served>>

EndRestart ==
    /\ restarts > 0
    /\ restarts' = restarts - 1
    /\ \/ InitializeAndStart
       \/ /\ state' = "stopped"      \* initialize() rejects the config
          /\ UNCHANGED <<agents, loops, registry, syncOwned, syncStray, gen,
                         permits, inFlight, served>>
    /\ UNCHANGED <<resumeSyncs, stops, ops, disk>>

(* Agent directories are created and deleted by the /agents routes.        *)
ChangeDirectories ==
    /\ churn < MaxChurn
    /\ churn' = churn + 1
    /\ \E a \in Agents :
          present' = IF a \in present THEN present \ {a} ELSE present \cup {a}
    /\ UNCHANGED <<state, agents, loops, registry, syncs, control, gen,
                   permits, inFlight, served>>

-----------------------------------------------------------------------------
Init ==
    /\ state = "stopped"
    /\ agents = [a \in Agents |-> Absent]
    /\ loops = [a \in Agents |-> [s \in Slots |-> Idle]]
    /\ registry = [a \in Agents |-> NoLoop]
    /\ syncOwned = FALSE /\ syncStray = 0 /\ resumeSyncs = 0
    /\ stops = 0 /\ restarts = 0
    /\ gen = 0
    /\ permits = [g \in Gens |-> 0]
    /\ inFlight = 0
    /\ present = Agents
    /\ ops = 0 /\ churn = 0
    /\ served = [a \in Agents |-> 0]

LoopStep(a, s) ==
    \/ Wake(a, s)
    \/ Admit(a, s)
    \/ CallAnswered(a, s)
    \/ CallFail(a, s)
    \/ BackoffDone(a, s)
    \/ DeliverCancel(a, s)

Next ==
    \/ \E a \in Agents, s \in Slots : LoopStep(a, s)
    \/ SyncTurn \/ SyncExit \/ ResumeSync
    \/ Start \/ Resume \/ Pause
    \/ BeginStop \/ EndStop \/ BeginRestart \/ EndRestart
    \/ ChangeDirectories

Spec == Init /\ [][Next]_vars

(***************************************************************************)
(* Fairness.  The event loop runs every task that is ready, so each step   *)
(* of a coroutine that stays enabled is taken; the semaphore is a FIFO, so *)
(* a queued heartbeat that sees a free permit again and again is admitted. *)
(* Control requests and directory changes are never owed.  Nothing is      *)
(* assumed of the heartbeat endpoint beyond its timeout: every call ends.  *)
(***************************************************************************)
Scheduling ==
    /\ \A a \in Agents, s \in Slots :
          /\ WF_vars(LoopStep(a, s))
          /\ SF_vars(Admit(a, s))
    /\ WF_vars(SyncTurn) /\ WF_vars(SyncExit) /\ WF_vars(ResumeSync)
    /\ WF_vars(EndStop) /\ WF_vars(EndRestart)

FairSpec == Spec /\ Scheduling

(* An endpoint that answers again and again if it is called again and again. *)
AnsweringSpec ==
    FairSpec /\ \A a \in Agents, s \in Slots : SF_vars(CallAnswered(a, s))

-----------------------------------------------------------------------------
(* Properties.                                                             *)

TypeOK ==
    /\ state \in States
    /\ agents \in [Agents -> AgentState \cup {Absent}]
    /\ loops \in [Agents -> [Slots -> LoopRecord]]
    /\ registry \in [Agents -> Slots \cup {NoLoop}]
    /\ syncOwned \in BOOLEAN
    /\ syncStray \in Nat /\ resumeSyncs \in Nat
    /\ stops \in Nat /\ restarts \in Nat
    /\ gen \in Gens
    /\ permits \in [Gens -> Nat]
    /\ inFlight \in Nat
    /\ present \subseteq Agents
    /\ ops \in 0..MaxOps /\ churn \in 0..MaxChurn
    /\ served \in [Agents -> Nat]

(* A registered task is one that exists and has not been cancelled: the    *)
(* registry never hides a dead loop from _sync_agents_once, which would    *)
(* then not replace it, nor from stop() and pause(), which cancel through  *)
(* it.  Zombie loops of earlier epochs must not disturb it.                *)
RegistryLive ==
    \A a \in Agents : registry[a] # NoLoop =>
        /\ loops[a][registry[a]].pc # "idle"
        /\ ~loops[a][registry[a]].cancel

(* No heartbeat carries an agent past max_heartbeats_per_agent: neither    *)
(* the recorded index nor the index of a heartbeat under way exceeds it,   *)
(* whatever pauses, restarts and failures came between.                    *)
IndexWithinBudget ==
    \A a \in Agents :
        /\ agents[a] # Absent => agents[a].index <= Cap
        /\ \A s \in Slots : InHeartbeat(loops[a][s]) => loops[a][s].next <= Cap

Holders == {x \in Agents \X Slots : Holding(loops[x[1]][x[2]])}

(* Permits are neither lost nor forged: for each semaphore ever created,   *)
(* free permits and heartbeats holding one add up to max_parallel_agents,  *)
(* through failures, retries, pauses and cancellations at any await.       *)
PermitConservation ==
    \A g \in 1..gen :
        permits[g] + Cardinality({x \in Holders : loops[x[1]][x[2]].gen = g})
            = MaxParallel

(* _in_flight_heartbeats never exceeds the heartbeats under way (an excess *)
(* would keep the scheduler from ever stopping by itself), and it is exact *)
(* until a second initialize() resets it under running heartbeats.         *)
InFlightCounts ==
    /\ inFlight <= Cardinality(Holders)
    /\ gen <= 1 => inFlight = Cardinality(Holders)

(* "Heartbeats will not be sent while paused": no step sends a heartbeat,  *)
(* first attempt or retry, unless the state is RUNNING when it is sent,    *)
(* although the heartbeat may have been queued or backing off for long.    *)
NoSendUnlessRunning ==
    [][\A a \in Agents, s \in Slots :
          loops'[a][s].pc = "calling" /\ loops[a][s].pc # "calling"
              => state = "running"]_vars

(* A heartbeat is under way from its first attempt to the end of its last. *)
NoHeartbeat == [epoch |-> 0, index |-> 0, attempts |-> 0]
Seen(l) ==
    IF Holding(l) THEN [epoch |-> l.gen, index |-> l.next, attempts |-> l.tries] ELSE NoHeartbeat
Open == [x \in Agents \X Slots |-> Seen(loops[x[1]][x[2]])]

Service == INSTANCE HeartbeatService WITH
    Senders <- Agents \X Slots, epoch <- gen, open <- Open

(* The scheduler implements HeartbeatService, whatever loops are cancelled *)
(* in the middle of a heartbeat, outlive a restart or wait for a semaphore *)
(* that was replaced: attempts and concurrency keep to their limits, all   *)
(* sends are in RUNNING, and no stop, pause or restart that is suspended   *)
(* lets the state change in another way than the requests would.           *)
KeepsService == Service!Spec

(* A running scheduler has a sync loop that _sync_task refers to, or a     *)
(* request that will take it out of RUNNING or give it one is under way:   *)
(* whatever was paused, stopped and started in between, agents that lose   *)
(* their loop are seen to, and the next stop() finds the task to cancel.   *)
RunningIsSynced ==
    state = "running" => syncOwned \/ stops + restarts > 0

(* A running scheduler with a heartbeat budget stops by itself, whatever   *)
(* is paused, stopped or restarted, if the endpoint keeps answering and    *)
(* the agent directories stay: an agent deleted while the scheduler is     *)
(* paused keeps its AgentState, "active" for ever, and blocks the stop.    *)
EventuallyQuiet == [](churn = 0) => <>[](state # "running")

(* Once the scheduler stays out of RUNNING every loop ends, those          *)
(* cancelled in the middle of a heartbeat and the unregistered included.   *)
LoopsDrain ==
    (<>[](state # "running"))
        => <>[](\A a \in Agents, s \in Slots : loops[a][s].pc = "idle")

(* While the scheduler runs no agent with budget left is forgotten: it     *)
(* gets a registered loop again, or the scheduler leaves RUNNING.          *)
AgentsAreLooped ==
    \A a \in Agents :
        state = "running" ~>
            \/ registry[a] # NoLoop
            \/ Capped(agents[a])
            \/ a \notin present
            \/ state # "running"

(* routes/scheduler.py promises a "per-agent heartbeat budget": what one   *)
(* AgentState was charged for never exceeds it.  Refuted: a loop that      *)
(* swallowed its cancellation and the loop that replaced it send the same  *)
(* heartbeat index to the agent.                                           *)
BudgetRespected == \A a \in Agents : served[a] <= Cap
=============================================================================
