----------------------------- MODULE AgentActions -----------------------------
(***************************************************************************)
(* What the turns of an agent do to the environment and to the agent's own *)
(* files: the answers of the model (llm_client.py), the tool calls found   *)
(* in them (action_parser.py) and ActionExecutor (executor.py), of an      *)
(* agent that AgentBootstrap created and registered.                       *)
(*                                                                         *)
(* A request that changes something needs a token.  The executor of a turn *)
(* starts with the one in the agent's files, or with the one the scheduler *)
(* was started with; when an action of the turn registers the agent again  *)
(* it goes on with the new one and saves it.  Turns of one agent overlap   *)
(* (HeartbeatTurn says why), calls are lost on the way there or back, and  *)
(* the agent writes, edits and deletes files, those with the tokens too.   *)
(*                                                                         *)
(* The environments of a run have host names of their own, and the primary *)
(* one is followed here: the registry of tokens is one token.              *)
(***************************************************************************)
EXTENDS AgentBootstrap

CONSTANTS
    Actor,       \* the agent whose turns are followed
    Turns,       \* its turns
    MaxActions   \* bound: actions of a turn

ASSUME ActionsAssumption ==
    /\ Actor \in Agents
    /\ MaxActions \in Nat

VARIABLES
    turns,     \* the turns of the actor
    told,      \* history: the token of the registration answered last
    blurred    \* history: what the files hold is not told's doing alone

vars == <<bootVars, turns, told, blurred>>

(* creds: .<environment>-credentials.json of the workspace; state:         *)
(* credentials.json among the state of the environment's skill.            *)
Files == {"creds", "state"}
Content(f) == IF f = "creds" THEN dir[Actor].creds ELSE dir[Actor].state

(* The directories above a file are made when it is written.               *)
Written(f, content) ==
    IF f = "creds"
    THEN [dir EXCEPT ![Actor].creds = content, ![Actor].parts = @ \cup {"root"}]
    ELSE [dir EXCEPT ![Actor].state = content, ![Actor].parts = @ \cup {"root"}]

States == {"idle", "seeding", "acting", "sent", "answered", "editing", "writing", "over"}
(* seed: what was read of the state; copy: the token or the content that   *)
(* the turn goes on with after an await.                                   *)
Turn == [pc: States, seed: Contents, auth: NoToken..MaxTokens, acts: 0..MaxActions,
         file: Files, copy: Contents]
Idle == [pc |-> "idle", seed |-> NoFile, auth |-> NoToken, acts |-> 0,
         file |-> "creds", copy |-> NoFile]

Now(t, pc) == turns[t].pc = pc
Becomes(t, turn) == turns' = [turns EXCEPT ![t] = turn]
AtWork == {t \in Turns : turns[t].pc \notin {"idle", "over"}}

ActionsInit ==
    /\ Init
    /\ turns = [t \in Turns |-> Idle]
    /\ told = NoToken
    /\ blurred = FALSE

boot == <<startup, jobs, scheduled, handed, bounds>>

-----------------------------------------------------------------------------
(* A turn begins: _run_heartbeat_turn up to the executor.                  *)

(* _load_environment_auth_registry_seed reads the state of the skill and,  *)
(* only if that is not there, the file of the workspace.                   *)
Begin(t) ==
    /\ up
    /\ scheduled
    /\ Now(t, "idle")
    /\ Exists(Actor)
    /\ Becomes(t, [turns[t] EXCEPT !.pc = "seeding", !.seed = Content("state")])
    /\ blurred' = (blurred \/ AtWork # {})
    /\ UNCHANGED <<boot, dir, current, told>>

Seed(turn) == IF turn.seed = NoFile THEN Content("creds") ELSE turn.seed

(* ActionExecutor.__init__: the seed, if there is a token in it, and over  *)
(* it the token the scheduler sent along.                                  *)
AuthOf(turn) ==
    IF handed[Actor] # NoToken
    THEN handed[Actor]
    ELSE IF Seed(turn) \in {NoFile, Junk} THEN NoToken ELSE Seed(turn)

Ready(t) ==
    /\ Now(t, "seeding")
    /\ Becomes(t, [turns[t] EXCEPT !.pc = "acting", !.seed = NoFile, !.auth = AuthOf(turns[t])])
    /\ UNCHANGED <<boot, dir, current, told, blurred>>

-----------------------------------------------------------------------------
(* The model is asked, and its answer is a list of actions, performed one  *)
(* after the other.                                                        *)

CanAct(t) == up /\ Now(t, "acting") /\ turns[t].acts < MaxActions

Acted(turn, pc) == [turn EXCEPT !.pc = pc, !.acts = @ + 1]

(* Actions that change nothing here: a call of the environment that is not *)
(* a registration and, if it changes something, has a token; a file that   *)
(* is read; one that is refused, as it is unknown, has no target or no     *)
(* token, or goes beyond the environments or the files it may.             *)
Look(t) ==
    /\ CanAct(t)
    /\ Becomes(t, Acted(turns[t], "acting"))
    /\ UNCHANGED <<boot, dir, current, told, blurred>>

(* POST /auth/register: it may be lost before the environment acts on it,  *)
(* or its answer may be.                                                   *)
Send(t) ==
    /\ CanAct(t)
    /\ \/ /\ CanIssue({Actor})
          /\ current' = Issued({Actor})
          /\ \/ Becomes(t, [Acted(turns[t], "sent") EXCEPT !.copy = current'[Actor]])
             \/ Becomes(t, Acted(turns[t], "acting"))
       \/ /\ Becomes(t, Acted(turns[t], "acting"))
          /\ UNCHANGED current
    /\ UNCHANGED <<boot, dir, told, blurred>>

(* The answer, 201 with the token, is taken at once, and saved after an    *)
(* await.                                                                  *)
(*                                                                         *)
(* Mutants, here and below: what the operator that follows would be with a *)
(* plausible bug.  No action uses them.                                    *)
Receive_Kept(t) ==
    /\ Now(t, "sent")
    /\ told' = turns[t].copy
    /\ Becomes(t, [turns[t] EXCEPT !.pc = "acting", !.auth = turns[t].copy, !.copy = NoFile])
    /\ UNCHANGED <<boot, dir, current, blurred>>

Receive(t) ==
    /\ Now(t, "sent")
    /\ told' = turns[t].copy
    /\ Becomes(t, [turns[t] EXCEPT !.pc = "answered", !.auth = turns[t].copy])
    /\ UNCHANGED <<boot, dir, current, blurred>>

(* write_file: opening the file empties it ...                             *)
Opens(t, turn, f, content) ==
    /\ dir' = Written(f, NoFile)
    /\ Becomes(t, [turn EXCEPT !.pc = "writing", !.file = f, !.copy = content])

(* ... and after an await the content is put at its start, over what       *)
(* another turn may have put there.  It may come to nothing, as when the   *)
(* file was deleted in between.                                            *)
Wrote(t) ==
    /\ up
    /\ Now(t, "writing")
    /\ \/ /\ Exists(Actor)
          /\ \E content \in {turns[t].copy, IF Content(turns[t].file) = NoFile THEN turns[t].copy ELSE Junk} :
                dir' = Written(turns[t].file, content)
          /\ UNCHANGED blurred
       \/ /\ blurred' = TRUE
          /\ UNCHANGED dir
    /\ Becomes(t, [turns[t] EXCEPT !.pc = "acting", !.file = "creds", !.copy = NoFile])
    /\ UNCHANGED <<boot, current, told>>

(* _persist_registration_credentials; a failure is only logged.            *)
Persist(t) ==
    /\ up
    /\ Now(t, "answered")
    /\ \/ /\ Opens(t, turns[t], "creds", turns[t].copy)
          /\ UNCHANGED blurred
       \/ /\ Becomes(t, [turns[t] EXCEPT !.pc = "acting", !.copy = NoFile])
          /\ blurred' = TRUE
          /\ UNCHANGED dir
    /\ UNCHANGED <<boot, current, told>>

-----------------------------------------------------------------------------
(* Actions on the two files: _execute_filesystem.                          *)

(* What the agent can put there: the token it was told, what it read.      *)
Writable == {Junk, told, Content("creds"), Content("state")} \ {NoFile}

Touched(f) == blurred' = (blurred \/ f = "creds")

FsWrite(t, f) ==
    /\ CanAct(t)
    /\ \E content \in Writable : Opens(t, Acted(turns[t], "writing"), f, content)
    /\ Touched(f)
    /\ UNCHANGED <<boot, current, told>>

(* Something after the JSON of a token and it is none.                     *)
FsAppend(t, f) ==
    /\ CanAct(t)
    /\ \E content \in Writable :
          dir' = Written(f, IF Content(f) = NoFile THEN content ELSE Junk)
    /\ Becomes(t, Acted(turns[t], "acting"))
    /\ Touched(f)
    /\ UNCHANGED <<boot, current, told>>

FsDelete(t, f) ==
    /\ CanAct(t)
    /\ Content(f) # NoFile
    /\ dir' = Written(f, NoFile)
    /\ Becomes(t, Acted(turns[t], "acting"))
    /\ Touched(f)
    /\ UNCHANGED <<boot, current, told>>

(* An edit reads the file ...                                              *)
FsEdit(t, f) ==
    /\ CanAct(t)
    /\ Content(f) # NoFile
    /\ Becomes(t, [Acted(turns[t], "editing") EXCEPT !.file = f, !.copy = Content(f)])
    /\ UNCHANGED <<boot, dir, current, told, blurred>>

(* ... and after an await writes all of it, changed.                       *)
FsEdited(t) ==
    /\ up
    /\ Now(t, "editing")
    /\ \E content \in Writable \cup {turns[t].copy} : Opens(t, turns[t], turns[t].file, content)
    /\ Touched(turns[t].file)
    /\ UNCHANGED <<boot, current, told>>

(* HEARTBEAT_OK, no action found in the answer, an error of the model, or  *)
(* a limit of the turn.                                                    *)
End(t) ==
    /\ up
    /\ Now(t, "acting")
    /\ Becomes(t, [Idle EXCEPT !.pc = "over"])
    /\ UNCHANGED <<boot, dir, current, told, blurred>>

TurnNext ==
    \E t \in Turns :
        \/ Begin(t) \/ Ready(t) \/ Look(t) \/ Send(t) \/ Receive(t) \/ Persist(t)
        \/ FsEdited(t) \/ Wrote(t) \/ End(t)
        \/ \E f \in Files : FsWrite(t, f) \/ FsAppend(t, f) \/ FsDelete(t, f) \/ FsEdit(t, f)

(* The turns are in the memory of the launcher, and of the stack.          *)
Lost ==
    /\ Crash
    /\ turns' = [t \in Turns |-> IF Now(t, "idle") THEN turns[t] ELSE [Idle EXCEPT !.pc = "over"]]
    /\ blurred' = (blurred \/ \E t \in Turns : turns[t].pc \in {"answered", "writing"})
    /\ UNCHANGED told

(* Meanwhile the agent's directory may go, with the files.                 *)
Other ==
    /\ Startup \/ Launcher
    /\ blurred' = (blurred \/ (Exists(Actor) /\ dir'[Actor] = Gone))
    /\ UNCHANGED <<turns, told>>

Next ==
    \/ Other
    \/ TurnNext
    \/ Lost

Spec == ActionsInit /\ [][Next]_vars

-----------------------------------------------------------------------------
(* The values the variables take, and only a turn that is still at work    *)
(* holds a token or the content of a file.                                 *)
TypeOK ==
    /\ BootTypeOK
    /\ turns \in [Turns -> Turn]
    /\ \A t \in Turns \ AtWork : turns[t].auth = NoToken /\ turns[t].copy = NoFile
    /\ told \in NoToken..MaxTokens
    /\ blurred \in BOOLEAN

(* The token of the registration that was answered last is in the file of  *)
(* the workspace once it is saved, through all later turns: unless turns   *)
(* overlapped, the agent itself changed the file, saving it failed, or the *)
(* agent was removed.                                                      *)
SavedForLater ==
    (/\ told # NoToken
     /\ ~blurred
     /\ \A t \in Turns : turns[t].pc \notin {"answered", "writing"}) => Content("creds") = told

(* _persist_registration_credentials: "Persist registration credentials    *)
(* into workspace for later heartbeats": a turn that begins when they are  *)
(* saved there, and nowhere else, begins with them.  Refuted: the token    *)
(* the scheduler sends along, of the registration before the run, goes     *)
(* over what is read.                                                      *)
LaterHeartbeatsUseIt ==
    [][\A t \in Turns :
          (/\ Now(t, "seeding")
           /\ turns'[t].pc = "acting"
           /\ turns[t].seed = NoFile
           /\ told # NoToken
           /\ ~blurred) => turns'[t].auth = told]_vars
=============================================================================
