---------------------------- MODULE AgentBootstrap ----------------------------
(***************************************************************************)
(* From a stack that is up to a scheduler that runs: the controller has    *)
(* the agent launcher create a directory for each agent of the run, has    *)
(* the environment register them, and starts the heartbeat scheduler       *)
(* (services/controller/app/run_compat.py, run_bootstrap.py).  The         *)
(* launcher creates many directories at a time, each over several awaits   *)
(* (routes/launcher.py, agent_fs.py), while other clients of its API       *)
(* create, delete and equip agents, calls fail or time out with the work   *)
(* going on, and the launcher restarts.                                    *)
(*                                                                         *)
(* A directory is the set of its parts and what is in the two files that   *)
(* an environment's token is kept in.  A token of an agent is its number   *)
(* among those the environment gave it: only the latest is good.           *)
(***************************************************************************)
EXTENDS Integers, FiniteSets

CONSTANTS
    Agents,       \* the agents a run can have
    Concurrency,  \* agent_init_concurrency
    MaxTokens,    \* bound: registrations of an agent
    MaxVisits,    \* bound: calls of other clients of the launcher
    MaxCrashes    \* bound: restarts of the launcher

ASSUME BootstrapAssumption ==
    /\ IsFiniteSet(Agents)
    /\ Concurrency \in Nat \ {0}
    /\ MaxTokens \in Nat \ {0}
    /\ MaxVisits \in Nat
    /\ MaxCrashes \in Nat

VARIABLES
    specs,        \* the agents of the run
    preRegister,  \* pre_register_agents
    phase,        \* where the startup is
    ready,        \* validated_specs, then init_results
    errors,       \* agents with an initialization error
    tokens,       \* agent_tokens
    up,           \* the stack of the run is up
    jobs,         \* the creations under way, by who asked for them
    dir,          \* the directories of the agents
    current,      \* the environment: the token each agent is known by
    scheduled,    \* the scheduler runs
    handed,       \* the tokens it was started with
    visits,
    crashes,
    deleted       \* history: agents that a client deleted

startup == <<specs, preRegister, phase, ready, errors, tokens, up>>
launcher == <<jobs, dir, scheduled, handed>>
bounds == <<visits, crashes, deleted>>
bootVars == <<startup, launcher, current, bounds>>

Callers == {"startup", "client"}
NoToken == 0

(* What a file of credentials holds: it is not there or empty, there is no *)
(* token in it, or a token.                                                *)
NoFile == -1
Junk == 0
Contents == NoFile..MaxTokens

Parts == {"root", "workspace", "config", "skill"}
Directories == [parts: SUBSET Parts, creds: Contents, state: Contents]
Gone == [parts |-> {}, creds |-> NoFile, state |-> NoFile]
Exists(a) == dir[a].parts # {}
Whole(a) == dir[a].parts = Parts
With(a, part) == [dir EXCEPT ![a].parts = @ \cup {"root", part}]

JobStates == {"none", "queued", "filling", "filled", "skilling", "closing",
              "created", "unskilled", "refused", "lost"}
Settled == {"none", "created", "unskilled", "refused", "lost"}
Job(c, a) == jobs[<<c, a>>]
Moves(c, a, state) == jobs' = [jobs EXCEPT ![<<c, a>>] = state]

Phases == {"health", "creating", "registering", "checking", "starting",
           "running", "failed", "raised"}

Init ==
    /\ specs \in SUBSET Agents
    /\ preRegister \in BOOLEAN
    /\ phase = "health"
    /\ ready = {}
    /\ errors = {}
    /\ tokens = [a \in Agents |-> NoToken]
    /\ up = TRUE
    /\ jobs = [j \in Callers \X Agents |-> "none"]
    /\ dir = [a \in Agents |-> Gone]
    /\ current = [a \in Agents |-> NoToken]
    /\ scheduled = FALSE
    /\ handed = [a \in Agents |-> NoToken]
    /\ visits = 0
    /\ crashes = 0
    /\ deleted = {}

-----------------------------------------------------------------------------
(* The launcher creates an agent: _create_agent_from_request.              *)

(* A creation of a batch waits for the semaphore.  Nothing is awaited from *)
(* the look at whether the agent exists to the first directory made.  A    *)
(* runtime package that is missing, or is not the one the run was planned  *)
(* with, is found out before anything is made.                             *)
InProgress == {a \in Agents : Job("startup", a) \notin Settled \cup {"queued"}}

(* Mutants, here and below: what the operator that follows would be with a *)
(* plausible bug.  No action uses them.                                    *)
Make_Anyway(c, a) ==
    \/ /\ dir' = With(a, "root")
       /\ Moves(c, a, "filling")
    \/ /\ ~Exists(a)
       /\ Moves(c, a, "refused")
       /\ UNCHANGED dir

Make(c, a) ==
    \/ /\ ~Exists(a)
       /\ dir' = With(a, "root")
       /\ Moves(c, a, "filling")
    \/ /\ Moves(c, a, "refused")
       /\ UNCHANGED dir

Create_Unbounded(a) ==
    /\ up
    /\ Job("startup", a) = "queued"
    /\ Make("startup", a)
    /\ UNCHANGED <<startup, scheduled, handed, current, bounds>>

Create(a) ==
    /\ up
    /\ Job("startup", a) = "queued"
    /\ Cardinality(InProgress) < Concurrency
    /\ Make("startup", a)
    /\ UNCHANGED <<startup, scheduled, handed, current, bounds>>

(* The files of the runtime's workspace.  An exception, as when the        *)
(* directory went away, ends the creation and leaves what is there.        *)
Fill(c, a) ==
    /\ up
    /\ Job(c, a) = "filling"
    /\ \/ /\ Exists(a)
          /\ dir' = With(a, "workspace")
          /\ Moves(c, a, "filled")
       \/ /\ Moves(c, a, "refused")
          /\ UNCHANGED dir
    /\ UNCHANGED <<startup, scheduled, handed, current, bounds>>

(* config.json.  When a value it requires is missing the whole directory   *)
(* is removed, whoever put what into it.                                   *)
Configure(c, a) ==
    /\ up
    /\ Job(c, a) = "filled"
    /\ \/ /\ Exists(a)
          /\ dir' = With(a, "config")
          /\ Moves(c, a, "skilling")
       \/ /\ dir' = [dir EXCEPT ![a] = Gone]
          /\ Moves(c, a, "refused")
       \/ /\ Moves(c, a, "refused")
          /\ UNCHANGED dir
    /\ UNCHANGED <<startup, scheduled, handed, current, bounds>>

(* bootstrap_environment_skill: the environment's SKILL.md, which may not  *)
(* be found or not be written.  The agent is created all the same.         *)
Skill(c, a) ==
    /\ up
    /\ Job(c, a) = "skilling"
    /\ \/ /\ Exists(a)
          /\ dir' = With(a, "skill")
          /\ Moves(c, a, "closing")
       \/ /\ Moves(c, a, "unskilled")
          /\ UNCHANGED dir
    /\ UNCHANGED <<startup, scheduled, handed, current, bounds>>

(* seed_workspace_heartbeat_for_environment writes HEARTBEAT.md if there   *)
(* is none, making the directories above it: an agent that was deleted in  *)
(* the meantime is there again, with this one file.                        *)
Finish(c, a) ==
    /\ up
    /\ Job(c, a) = "closing"
    /\ dir' = With(a, "root")
    /\ Moves(c, a, "created")
    /\ UNCHANGED <<startup, scheduled, handed, current, bounds>>

-----------------------------------------------------------------------------
(* The other clients of the launcher.                                      *)

Visit == up /\ visits < MaxVisits /\ visits' = visits + 1

ClientCreate(a) ==
    /\ Visit
    /\ Job("client", a) \in Settled
    /\ Make("client", a)
    /\ UNCHANGED <<startup, scheduled, handed, current, crashes, deleted>>

ClientDelete(a) ==
    /\ Visit
    /\ Exists(a)
    /\ dir' = [dir EXCEPT ![a] = Gone]
    /\ deleted' = deleted \cup {a}
    /\ UNCHANGED <<startup, jobs, scheduled, handed, current, crashes>>

ClientInstall(a) ==
    /\ Visit
    /\ Exists(a)
    /\ dir' = With(a, "skill")
    /\ UNCHANGED <<startup, jobs, scheduled, handed, current, crashes, deleted>>

(* The launcher restarts: the directories stay, the rest was in memory.    *)
Crash ==
    /\ up
    /\ crashes < MaxCrashes
    /\ crashes' = crashes + 1
    /\ jobs' = [j \in DOMAIN jobs |-> IF jobs[j] \in Settled THEN jobs[j] ELSE "lost"]
    /\ scheduled' = FALSE
    /\ handed' = [a \in Agents |-> NoToken]
    /\ UNCHANGED <<startup, dir, current, visits, deleted>>

-----------------------------------------------------------------------------
(* The startup: the end of create_bound_run.                               *)

(* mark_run_failed_and_stop: the stack is stopped, if the orchestrator     *)
(* can; if it cannot that is logged.                                       *)
Fails ==
    /\ phase' = "failed"
    /\ up' \in BOOLEAN

(* A run without agents runs at once.  Otherwise the launcher must answer  *)
(* one of thirty looks at its health before it is asked for the agents.    *)
Health ==
    /\ phase = "health"
    /\ \/ /\ specs = {}
          /\ phase' = "running"
          /\ UNCHANGED <<up, jobs>>
       \/ /\ specs # {}
          /\ phase' = "creating"
          /\ jobs' = [j \in DOMAIN jobs |-> IF j[1] = "startup" /\ j[2] \in specs THEN "queued" ELSE jobs[j]]
          /\ UNCHANGED up
       \/ /\ specs # {}
          /\ Fails
          /\ UNCHANGED jobs
    /\ UNCHANGED <<specs, preRegister, ready, errors, tokens, dir, scheduled, handed, current, bounds>>

(* The agents that _validate_materialized_agent_result lets pass.  The     *)
(* launcher has compared the hashes already.                               *)
Validated == {a \in specs : Job("startup", a) = "created"}

Answered ==
    /\ up
    /\ phase = "creating"
    /\ \A a \in specs : Job("startup", a) \in Settled \ {"lost"}
    /\ ready' = Validated
    /\ errors' = specs \ Validated
    /\ phase' = IF preRegister /\ Validated # {} THEN "registering" ELSE "checking"
    /\ UNCHANGED <<specs, preRegister, tokens, up, launcher, current, bounds>>

(* No answer: a timeout, with the launcher still at work, or a connection  *)
(* that broke.  The exception of a call for several agents at once is not  *)
(* caught: it leaves create_bound_run and the run stays as it is.  For a   *)
(* single agent it is an error like another.                               *)
NoAnswer(asked) ==
    IF Cardinality(asked) > 1
    THEN phase' = "raised" /\ UNCHANGED <<ready, errors>>
    ELSE phase' = "checking" /\ errors' = errors \cup asked /\ ready' = ready \ asked

GiveUp ==
    /\ phase = "creating"
    /\ NoAnswer(specs)
    /\ UNCHANGED <<specs, preRegister, tokens, up, launcher, current, bounds>>

(* /auth/register and /auth/register/batch of the environment: all the     *)
(* agents of a call, or none.                                              *)
Issued(asked) == [a \in Agents |-> IF a \in asked THEN current[a] + 1 ELSE current[a]]
CanIssue(asked) == \A a \in asked : current[a] < MaxTokens

TokensOf(asked) == [a \in Agents |-> IF a \in asked THEN current[a] + 1 ELSE tokens[a]]

Register ==
    /\ up
    /\ phase = "registering"
    /\ CanIssue(ready)
    /\ current' = Issued(ready)
    /\ tokens' = TokensOf(ready)
    /\ phase' = "checking"
    /\ UNCHANGED <<specs, preRegister, ready, errors, up, launcher, bounds>>

RegisterFails ==
    /\ phase = "registering"
    /\ \/ UNCHANGED current
       \/ up /\ CanIssue(ready) /\ current' = Issued(ready)
    /\ NoAnswer(ready)
    /\ UNCHANGED <<specs, preRegister, tokens, up, launcher, bounds>>

(* One error, or no agent at all, and the run fails.                       *)
Initialized_Some == ready # {}

Initialized == errors = {} /\ ready # {}

Check ==
    /\ phase = "checking"
    /\ \/ /\ Initialized
          /\ phase' = "starting"
          /\ UNCHANGED up
       \/ /\ ~Initialized
          /\ Fails
    /\ UNCHANGED <<specs, preRegister, ready, errors, tokens, launcher, current, bounds>>

(* start_scheduler, whose answer may be lost.                              *)
Scheduled ==
    /\ up
    /\ scheduled' = TRUE
    /\ handed' = tokens

Start ==
    /\ phase = "starting"
    /\ \/ /\ Scheduled
          /\ phase' = "running"
          /\ UNCHANGED up
       \/ /\ Scheduled \/ UNCHANGED <<scheduled, handed>>
          /\ Fails
    /\ UNCHANGED <<specs, preRegister, ready, errors, tokens, jobs, dir, current, bounds>>

Startup == Health \/ Answered \/ GiveUp \/ Register \/ RegisterFails \/ Check \/ Start

Launcher ==
    \E a \in Agents :
        \/ Create(a)
        \/ ClientCreate(a)
        \/ ClientDelete(a)
        \/ ClientInstall(a)
        \/ \E c \in Callers : Fill(c, a) \/ Configure(c, a) \/ Skill(c, a) \/ Finish(c, a)

BootNext == Startup \/ Launcher \/ Crash
BootSpec == Init /\ [][BootNext]_bootVars

-----------------------------------------------------------------------------
(* The values the variables take; the agents that are ready or have an     *)
(* error are of the run, and the semaphore bounds the creations of a batch *)
(* that are under way.                                                     *)
BootTypeOK ==
    /\ specs \subseteq Agents
    /\ preRegister \in BOOLEAN
    /\ phase \in Phases
    /\ ready \subseteq specs
    /\ errors \subseteq specs
    /\ up \in BOOLEAN
    /\ jobs \in [Callers \X Agents -> JobStates]
    /\ Cardinality(InProgress) <= Concurrency
    /\ dir \in [Agents -> Directories]
    /\ current \in [Agents -> NoToken..MaxTokens]
    /\ tokens \in [Agents -> NoToken..MaxTokens]
    /\ handed \in [Agents -> NoToken..MaxTokens]
    /\ scheduled \in BOOLEAN
    /\ visits \in 0..MaxVisits
    /\ crashes \in 0..MaxCrashes
    /\ deleted \subseteq Agents

(* A launcher that is asked twice for an agent makes one directory for it: *)
(* of two creations at most one gets past the look at the directory, until *)
(* the agent is deleted, so none fills or removes what the other made.     *)
Makes == {"filling", "filled", "skilling", "closing", "created", "unskilled"}

CreatedOnce ==
    \A a \in Agents \ deleted : ~(Job("startup", a) \in Makes /\ Job("client", a) \in Makes)

(* When create_bound_run lets the scheduler go, every agent of the run has *)
(* a directory with all its parts, unless a client deleted it, and, if the *)
(* agents were to be registered before, the token the environment knows it *)
(* by: whatever other clients, timeouts and restarts did on the way.       *)
AllReady ==
    \A a \in specs :
        /\ a \in ready
        /\ Whole(a) \/ a \in deleted
        /\ preRegister => tokens[a] = current[a] /\ current[a] # NoToken

StartsWhole == [][~scheduled /\ scheduled' => AllReady]_bootVars
=============================================================================
