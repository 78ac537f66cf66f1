----------------------------- MODULE HeartbeatTurn -----------------------------
(***************************************************************************)
(* The turns of one agent: POST /heartbeat                                 *)
(* (services/agent-launcher/app/routes/launcher.py) with the rounds of     *)
(* model calls and actions of TurnOrchestrator (openclaw_core/loop.py),    *)
(* ActionExecutor.execute_actions (executor.py), and the heartbeat log     *)
(* each action and each turn is appended to (agent_fs.py).                 *)
(*                                                                         *)
(* The scheduler sends one heartbeat at a time to an agent, but retries    *)
(* one that timed out while the endpoint is still at it: turns of one      *)
(* agent overlap, and nothing locks the files of the agent.  The log is    *)
(* appended to by reading it, opening it, which empties it, and writing it *)
(* out again, with other turns running in between.                         *)
(***************************************************************************)
EXTENDS Integers, Sequences, ModelAnswers

CONSTANTS
    Turns,       \* the turns of a behaviour
    Policies,    \* what the policy of a turn can be
    MaxRounds,   \* bound: rounds after which the model asks for nothing more
    MaxEntries,  \* AGENT_HEARTBEAT_LOG_MAX_ENTRIES
    MaxPauses    \* bound: pauses of the scheduler

(* A limit that config.json disables, as runtimes/openclaw does with all.  *)
NoLimit == 0

(* max_model_calls_per_tick, max_actions_per_round, max_actions_per_tick,  *)
(* and whether max_tick_runtime_ms is set.                                 *)
Policy == [calls: Nat, round: Nat, tick: Nat, timed: BOOLEAN]

ASSUME TurnAssumption ==
    /\ Policies \subseteq Policy
    /\ MaxRounds \in Nat
    /\ MaxEntries \in Nat \ {0}
    /\ MaxPauses \in Nat

VARIABLES
    turns,      \* the turns
    paused,     \* the scheduler is paused
    pauses,
    bootstrap,  \* BOOTSTRAP.md exists
    log,        \* the entries of the heartbeat log
    last,       \* history: the entry appended last
    torn        \* history: appends overlapped since the log was last at rest

files == <<bootstrap, log, last, torn>>
vars == <<turns, paused, pauses, files>>

(* A turn.  next is where it goes on after an append.                      *)
Fresh(policy) ==
    [policy  |-> policy,    \* resolved from config.json
     pc      |-> "idle",
     status  |-> "completed",
     rounds  |-> 0,         \* round_index
     calls   |-> 0,         \* history: model calls made
     records |-> 0,         \* len(round_details)
     asked   |-> 0,         \* actionable actions of the round
     cap     |-> 0,         \* per_round_cap
     done    |-> 0,         \* actions of the round performed
     total   |-> 0,         \* total_actions
     acted   |-> 0,         \* history: actions performed
     next    |-> "acting",
     entries |-> 0,         \* entries appended
     copy    |-> << >>]     \* the log with the entry, to be written

Now(t, pc) == turns[t].pc = pc
Becomes(t, turn) == turns' = [turns EXCEPT ![t] = turn]

(* The turn is somewhere between reading the log and having written it.    *)
Appending(t) == turns[t].pc \in {"opening", "writing"}

-----------------------------------------------------------------------------
(* Appending to the log: append_runtime_heartbeat_entry, update_heartbeat. *)

(* Mutants, here and below: what the operator that follows would be with a *)
(* plausible bug.  No action uses them.                                    *)
TrimmedAtTheEnd(entries) ==
    {SubSeq(entries, 1, k) : k \in {n \in 1..Len(entries) : n <= MaxEntries}}

TrimmedLate(entries) ==
    {SubSeq(entries, k, Len(entries)) : k \in {n \in 1..Len(entries) : Len(entries) - n <= MaxEntries}}

(* The last entries, or fewer of them when they have too many characters.  *)
Trimmed(entries) ==
    {SubSeq(entries, k, Len(entries)) : k \in {n \in 1..Len(entries) : Len(entries) - n < MaxEntries}}

ReadLog(t) ==
    /\ Now(t, "reading")
    /\ \E entries \in Trimmed(Append(log, <<t, turns[t].entries + 1>>)) :
          Becomes(t, [turns[t] EXCEPT !.pc = "opening", !.copy = entries, !.entries = @ + 1])
    /\ torn' = (\E u \in Turns : Appending(u))
    /\ UNCHANGED <<paused, pauses, bootstrap, log, last>>

OpenLog(t) ==
    /\ Now(t, "opening")
    /\ log' = << >>
    /\ Becomes(t, [turns[t] EXCEPT !.pc = "writing"])
    /\ UNCHANGED <<paused, pauses, bootstrap, last, torn>>

(* What another turn wrote meanwhile is written over from its beginning:   *)
(* of a longer text the rest stays, which is read as an entry or several.  *)
Rest == <<"rest", 0>>
Over(text) == IF text = << >> THEN {<< >>} ELSE {<< >>, <<Rest>>}

WriteLog(t) ==
    /\ Now(t, "writing")
    /\ \E rest \in Over(log) : log' = turns[t].copy \o rest
    /\ last' = <<t, turns[t].entries>>
    /\ Becomes(t, [turns[t] EXCEPT !.pc = turns[t].next, !.copy = << >>])
    /\ UNCHANGED <<paused, pauses, bootstrap, torn>>

-----------------------------------------------------------------------------
(* The rounds of a turn: TurnOrchestrator.run.                             *)

(* The rounds are over; the summary of the turn is appended to the log.    *)
Closing(turn) == [turn EXCEPT !.pc = "reading", !.next = "closing"]
ClosedAtOnce(turn, status) == [Closing(turn) EXCEPT !.status = status]
ClosedBy(turn, status) == [ClosedAtOnce(turn, status) EXCEPT !.records = @ + 1]

(* heartbeat(): the scheduler is paused, a check of the configuration or   *)
(* of the gates says no, or the rounds begin.                              *)
Start(t) ==
    /\ Now(t, "idle")
    /\ \/ /\ paused
          /\ Becomes(t, ClosedAtOnce(turns[t], "paused"))
       \/ /\ ~paused
          /\ \E status \in {"skipped", "error"} : Becomes(t, ClosedAtOnce(turns[t], status))
       \/ /\ ~paused
          /\ Becomes(t, [turns[t] EXCEPT !.pc = "top"])
    /\ UNCHANGED <<paused, pauses, files>>

(* The time of the turn can be up when it is looked at: here, or AfterRound. *)
Top(t) ==
    /\ Now(t, "top")
    /\ \/ /\ turns[t].policy.timed
          /\ Becomes(t, Closing(turns[t]))
       \/ Becomes(t, [turns[t] EXCEPT !.pc = "calling", !.calls = @ + 1])
    /\ UNCHANGED <<paused, pauses, files>>

Least(a, b) == IF a <= b THEN a ELSE b

CapOfRound(turn, asked) == IF turn.policy.round = NoLimit THEN asked ELSE turn.policy.round

(* per_round_cap                                                           *)
Cap(turn, asked) ==
    LET remaining == IF turn.policy.tick = NoLimit THEN asked ELSE turn.policy.tick - turn.total
    IN  IF turn.policy.round = NoLimit THEN remaining ELSE Least(turn.policy.round, remaining)

(* The model answers: an error, nothing that can be parsed, nothing to do, *)
(* or actions (ModelAnswers).                                              *)
Reply(t) ==
    /\ Now(t, "calling")
    /\ \/ \E status \in {"error", "completed"} : Becomes(t, ClosedBy(turns[t], status))
       \/ /\ turns[t].rounds < MaxRounds
          /\ \E asked \in Askable :
                Becomes(t, [turns[t] EXCEPT !.pc = "acting", !.asked = asked, !.done = 0,
                                            !.cap = Cap(turns[t], asked)])
    /\ UNCHANGED <<paused, pauses, files>>

AfterRoundUncounted(turn) ==
    IF turn.policy.tick # NoLimit /\ turn.total >= turn.policy.tick
    THEN Closing(turn)
    ELSE [turn EXCEPT !.pc = "top"]

(* After the actions of a round: there were enough actions, there were     *)
(* enough rounds, or the next round begins.                                *)
AfterRound(turn) ==
    IF turn.policy.tick # NoLimit /\ turn.total >= turn.policy.tick
    THEN Closing(turn)
    ELSE IF turn.policy.calls # NoLimit /\ turn.rounds + 1 >= turn.policy.calls
         THEN Closing([turn EXCEPT !.rounds = @ + 1])
         ELSE [turn EXCEPT !.rounds = @ + 1, !.pc = "top"]

(* The round counts, and its local variables are gone.                     *)
Counted(turn, results) == [turn EXCEPT !.total = @ + results, !.records = @ + 1]
Left(turn) == [turn EXCEPT !.asked = 0, !.cap = 0, !.done = 0]

EndRound(t, results) ==
    /\ LET turn == Left(Counted(turns[t], results))
       IN  \/ turn.policy.timed /\ Becomes(t, Closing(turn))
           \/ Becomes(t, AfterRound(turn))
    /\ UNCHANGED <<paused, pauses, files>>

Perform(t) ==
    /\ Becomes(t, [turns[t] EXCEPT !.done = @ + 1, !.acted = @ + 1, !.pc = "reading"])
    /\ UNCHANGED <<paused, pauses, files>>

ActWhenResumed(t) ==
    /\ Now(t, "acting")
    /\ \/ /\ turns[t].done = turns[t].asked
          /\ EndRound(t, turns[t].done)
       \/ /\ ~paused /\ turns[t].done < turns[t].asked /\ turns[t].done >= turns[t].cap
          /\ EndRound(t, turns[t].done + 1)
       \/ /\ ~paused /\ turns[t].done < turns[t].asked /\ turns[t].done < turns[t].cap
          /\ Perform(t)

(* execute_actions: a pause ends the round, an action above the cap is     *)
(* refused, which counts as a result, and the others are performed.        *)
Act(t) ==
    /\ Now(t, "acting")
    /\ \/ /\ paused \/ turns[t].done = turns[t].asked
          /\ EndRound(t, turns[t].done)
       \/ /\ ~paused /\ turns[t].done < turns[t].asked /\ turns[t].done >= turns[t].cap
          /\ EndRound(t, turns[t].done + 1)
       \/ /\ ~paused /\ turns[t].done < turns[t].asked /\ turns[t].done < turns[t].cap
          /\ Perform(t)

(* The answer; a turn that did not fail completes the bootstrap.           *)
Close(t) ==
    /\ Now(t, "closing")
    /\ bootstrap' = (bootstrap /\ turns[t].status # "completed")
    /\ Becomes(t, [turns[t] EXCEPT !.pc = "ended"])
    /\ UNCHANGED <<paused, pauses, log, last, torn>>

-----------------------------------------------------------------------------
Pause ==
    /\ ~paused /\ pauses < MaxPauses
    /\ paused' = TRUE
    /\ pauses' = pauses + 1
    /\ UNCHANGED <<turns, files>>

Resume ==
    /\ paused
    /\ paused' = FALSE
    /\ UNCHANGED <<turns, pauses, files>>

-----------------------------------------------------------------------------
Init ==
    /\ \E policy \in Policies : turns = [t \in Turns |-> Fresh(policy)]
    /\ paused = FALSE
    /\ pauses = 0
    /\ bootstrap = TRUE
    /\ log = << >>
    /\ last = << >>
    /\ torn = FALSE

Round(t) == Top(t) \/ Reply(t) \/ Act(t)

Write(t) == ReadLog(t) \/ OpenLog(t) \/ WriteLog(t)

Next ==
    \/ \E t \in Turns : Start(t) \/ Round(t) \/ Write(t) \/ Close(t)
    \/ Pause
    \/ Resume

(* A turn that began goes on: the calls of the model and of an environment *)
(* have timeouts.  Nobody has to resume the scheduler, or send heartbeats. *)
Fairness == \A t \in Turns : WF_vars(Round(t) \/ Write(t) \/ Close(t))

Spec == Init /\ [][Next]_vars

FairSpec == Spec /\ Fairness
-----------------------------------------------------------------------------
PCs == {"idle", "top", "calling", "acting", "reading", "opening", "writing", "closing", "ended"}

Entry == (Turns \X Nat) \cup {Rest}

Turn ==
    [policy: Policies, pc: PCs, status: {"completed", "error", "skipped", "paused"},
     rounds: Nat, calls: Nat, records: Nat, asked: Nat, cap: Int,
     done: Nat, total: Nat, acted: Nat, next: {"acting", "closing"}, entries: Nat,
     copy: Seq(Entry)]

(* Types; in particular a turn writes at most MaxEntries entries of its    *)
(* own (HEARTBEAT_LOG_MAX_ENTRIES, agent_fs.py:55).                        *)
TypeOK ==
    /\ turns \in [Turns -> Turn]
    /\ \A t \in Turns : Len(turns[t].copy) <= MaxEntries
    /\ paused \in BOOLEAN
    /\ pauses \in 0..MaxPauses
    /\ bootstrap \in BOOLEAN
    /\ log \in Seq(Entry)
    /\ last \in Entry \cup {<< >>}
    /\ torn \in BOOLEAN

(* The limits of the policy hold over all the rounds of a turn, however it *)
(* is paused and resumed between them: so many model calls, so many        *)
(* actions in the round and in the turn.  What the turn reports as         *)
(* executed is at least what was, and at most one refused action per model *)
(* call more, so it can pass max_actions_per_tick by one.                  *)
WithinBudget ==
    \A t \in Turns :
        LET turn == turns[t]
        IN  /\ turn.policy.calls # NoLimit => turn.calls <= turn.policy.calls
            /\ turn.policy.round # NoLimit => turn.done <= turn.policy.round
            /\ turn.policy.tick # NoLimit =>
                  /\ turn.acted <= turn.policy.tick
                  /\ turn.total <= turn.policy.tick + 1
            /\ turn.next = "closing" =>
                  /\ turn.records = turn.calls
                  /\ turn.acted <= turn.total
                  /\ turn.total <= turn.acted + turn.calls

(* When no append is under way, and none overlapped another the last time  *)
(* there were any, the log ends with the entry appended last: it is what   *)
(* the next turn remembers (get_recent_heartbeat_entries).  Damage done by *)
(* overlapping turns does not last.                                        *)
LogEndsWithLast ==
    (~torn /\ last # << >> /\ \A t \in Turns : ~Appending(t)) =>
        /\ log # << >>
        /\ log[Len(log)] = last

(* The steps a turn can still take, counted at its end, at an append and   *)
(* at the top of a round, of which so many are left.                       *)
AppendSteps(pc) ==
    CASE pc = "reading" -> 3 [] pc = "opening" -> 2 [] pc = "writing" -> 1 [] OTHER -> 0

FromTop(rounds) == rounds * (4 * MaxReply + 3) + 6

StepsLeft(turn) ==
    LET rounds == MaxRounds - turn.rounds
    IN  CASE turn.pc = "ended" -> 0
          [] turn.pc # "ended" /\ turn.next = "closing" -> AppendSteps(turn.pc) + 1
          [] turn.pc = "idle" /\ turn.next = "acting" -> FromTop(rounds) + 1
          [] turn.pc = "top" /\ turn.next = "acting" -> FromTop(rounds)
          [] turn.pc = "calling" /\ turn.next = "acting" -> FromTop(rounds) - 1
          [] OTHER -> FromTop(rounds - 1) + 1 + 4 * (turn.asked - turn.done) + AppendSteps(turn.pc)

(* No turn turns in circles: whatever it does, and whatever other turns    *)
(* and pauses do meanwhile, it has fewer steps left than before, out of a  *)
(* number known when it begins.                                            *)
TurnsWindDown ==
    [][\A t \in Turns : turns'[t] # turns[t] =>
          0 <= StepsLeft(turns'[t]) /\ StepsLeft(turns'[t]) < StepsLeft(turns[t])]_vars

(* A turn that began ends, also when the scheduler is paused in the middle *)
(* of it and never resumed, and whatever limits are disabled, if only the  *)
(* model stops asking for actions at some time.                            *)
TurnsEnd == \A t \in Turns : turns[t].pc # "idle" ~> turns[t].pc = "ended"
=============================================================================
