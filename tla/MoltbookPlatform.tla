-------------------------- MODULE MoltbookPlatform --------------------------
(***************************************************************************)
(* The platform side of the moltbook environment (api/platform.py over      *)
(* core/database.py): one database per run and a default one, a single      *)
(* process-wide pointer to the active run, the registration of agents with  *)
(* their tokens, and the compass gate, a questionnaire that an agent has to *)
(* submit again and again to stay clear.  A handler takes its database from *)
(* the pointer when its session is made and keeps it; the pointer may be    *)
(* somewhere else by the time the handler reads or commits.                 *)
(***************************************************************************)
EXTENDS Integers, FiniteSets, Sequences, SequencesExt, FiniteSetsExt

CONSTANTS
    Runs,           \* run ids
    Default,        \* DEFAULT_RUN_ID
    Agents,         \* agent ids; all ask for the same name, the worst case
    Tokens,         \* api keys, each generated once
    Requests,       \* threads of the pool
    Interval, Grace,\* policy of the gate, in ticks of the clock
    Jitter,         \* _stable_jitter_seconds: a hash of the anchor
    MaxClock,       \* bound of the clock
    MaxSubs,        \* bound: submissions
    NoRun, NoToken, NoRequest

Times == 0..MaxClock

ASSUME DefaultIsNoRun == Default \notin Runs /\ NoRun \notin Runs \cup {Default}
ASSUME PolicyIsNat == Interval \in Nat \ {0} /\ Grace \in Nat /\ MaxClock \in Nat
ASSUME JitterIsInt == Jitter \in [Times -> Int]
ASSUME NothingIsNone == NoToken \notin Tokens /\ NoRequest \notin Requests
ASSUME AgentsFinite == IsFiniteSet(Agents)

VARIABLES
    active,     \* _active_run_id
    db,         \* the databases
    req,        \* the request each thread serves
    now,        \* the clock
    unused,     \* history: tokens not generated yet
    told,       \* history: the token last returned, per database and agent;
                \* NoToken also if the answer to a registration got lost
    strayed     \* history: runs whose init was overtaken by another switch

history == <<unused, told, strayed>>
vars == <<active, db, req, now, history>>

Databases == Runs \cup {Default}

\* Table agents.  A name is the number appended to the common name.
Names == 0..Cardinality(Agents)
AgentRows == [token : Tokens \cup {NoToken}, name : Names]
NoAgentRow == [token |-> NoToken, name |-> 0]

Submissions == [run : Runs, agent : Agents, accepted : BOOLEAN, at : Times]

\* Table run_context_states: whether there is a row for a run and since when.
\* Its params hold a compass section: without one there is no gate.
Contexts == [there : BOOLEAN, created : Times]
NoContext == [there |-> FALSE, created |-> 0]

DatabaseRows == [agents : [Agents -> AgentRows], general : BOOLEAN,
                 context : [Runs -> Contexts],
                 subs : Seq(Submissions),
                 writer : Requests \cup {NoRequest}]   \* holds SQLite's lock
EmptyDatabase == [agents |-> [a \in Agents |-> NoAgentRow], general |-> FALSE,
                  context |-> [r \in Runs |-> NoContext], subs |-> <<>>,
                  writer |-> NoRequest]

\* What a thread has in hand.  What a request carries and only its commit uses
\* (params, dates, answers, generated tokens) is chosen at the commit.
Sessions == [st : {"idle", "switching", "ready", "written"},
             op : {"none", "init", "reset", "register", "submit"},
             db : Databases \cup {NoRun}, run : Runs \cup {NoRun},
             agents : SUBSET Agents,
             seen : SUBSET Agents,              \* those with a row
             hadRow : BOOLEAN,                  \* context, or submolt, found
             names : [Agents -> Names],
             tokens : [Agents -> Tokens \cup {NoToken}]]   \* those generated
Idle == [st |-> "idle", op |-> "none", db |-> NoRun, run |-> NoRun,
         agents |-> {}, seen |-> {}, hadRow |-> FALSE,
         names |-> [a \in Agents |-> 0],
         tokens |-> [a \in Agents |-> NoToken]]

TypeOK == /\ active \in Databases
          /\ db \in [Databases -> DatabaseRows]
          /\ req \in [Requests -> Sessions]
          /\ now \in Times
          /\ unused \subseteq Tokens
          /\ told \in [Databases -> [Agents -> Tokens \cup {NoToken}]]
          /\ strayed \subseteq Runs

Init == /\ active = Default
        /\ db = [d \in Databases |-> EmptyDatabase]
        /\ req = [q \in Requests |-> Idle]
        /\ now = 0
        /\ unused = Tokens
        /\ told = [d \in Databases |-> [a \in Agents |-> NoToken]]
        /\ strayed = {}

-----------------------------------------------------------------------------
Serve(q, r) == req' = [req EXCEPT ![q] = r]
Answer(q) == Serve(q, Idle)
Free(d, q) == db[d].writer \in {NoRequest, q}
Registered(d, a) == db[d].agents[a].token # NoToken

\* The runs whose init has switched the pointer and has no session yet, when
\* something else switches it.
Straying(q) == {req[p].run : p \in {p \in Requests \ {q} :
                  req[p].op = "init" /\ req[p].st = "switching"}}

(* Mutants, here and below: what the operator that follows would be with a    *)
(* plausible bug.  No action uses them.                                       *)
Activate_Local(q, d) == UNCHANGED <<active, strayed>>

\* activate_run_context, deactivate_run_context.
Activate(q, d) == /\ active' = d
                  /\ strayed' = IF d = active THEN strayed
                                ELSE strayed \cup (Straying(q) \ {d})

-----------------------------------------------------------------------------
(* Run contexts.  run_init activates the run, then opens a session: over the *)
(* database of whatever run is active by then.                               *)
RunInit(q, r) ==
    /\ req[q].st = "idle"
    /\ Activate(q, r)
    /\ Serve(q, [Idle EXCEPT !.st = "switching", !.op = "init", !.run = r])
    /\ UNCHANGED <<db, now, unused, told>>

InitOpen(q) ==
    /\ req[q].st = "switching" /\ req[q].op = "init"
    /\ Serve(q, [req[q] EXCEPT !.st = "ready", !.db = active,
                   !.hadRow = db[active].context[req[q].run].there])
    /\ UNCHANGED <<active, db, now, history>>

\* The row is inserted, or the one found gets the new params.  If the row was
\* inserted by another request meanwhile, the unique run_id fails the commit.
InitCommit(q) ==
    LET s == req[q]
    IN  /\ s.st = "ready" /\ s.op = "init"
        /\ Free(s.db, q)
        /\ IF ~s.hadRow /\ db[s.db].context[s.run].there
           THEN db' = db
           ELSE db' = [db EXCEPT ![s.db].context[s.run] =
                         [there |-> TRUE,
                          created |-> IF s.hadRow THEN @.created ELSE now]]
        /\ Answer(q)
        /\ UNCHANGED <<active, now, history>>

RunStop == /\ Activate(NoRequest, Default)
           /\ UNCHANGED <<db, req, now, unused, told>>

\* run_reset: in between, the default database is active.
RunReset(q, r) ==
    /\ req[q].st = "idle"
    /\ Activate(q, Default)
    /\ Serve(q, [Idle EXCEPT !.st = "switching", !.op = "reset", !.run = r])
    /\ UNCHANGED <<db, now, unused, told>>

ResetActivate(q) ==
    /\ req[q].st = "switching" /\ req[q].op = "reset"
    /\ Activate(q, req[q].run)
    /\ Answer(q)
    /\ UNCHANGED <<db, now, unused, told>>

-----------------------------------------------------------------------------
(* The other handlers take the database of the active run and read at once.  *)

(* Registration, of one agent or of a batch.                                *)

Name_OwnIncluded(S, names, a) == 1 + Max({0} \cup {names[b] : b \in S})

\* _resolve_unique_agent_name: the first name that no other agent has, where
\* names gives those of the agents in S.
Name(S, names, a) ==
    Min({n \in Names : \A b \in S \ {a} : names[b] # n})

\* Without the submolt "general" the first agent of the batch is flushed along
\* with it, which takes the lock, and the names of the later ones are chosen
\* with its row in view; else nothing of the batch is seen before the commit.
Register(q, S) ==
    LET d == active
        there == {a \in Agents : Registered(d, a)}
        known == [a \in Agents |-> db[d].agents[a].name]
    IN  /\ req[q].st = "idle"
        /\ \E first \in S :
             LET name == Name(there, known, first)
                 flushed == IF db[d].general THEN {} ELSE {first}
                 view == [known EXCEPT ![first] = IF flushed = {} THEN @ ELSE name]
             IN  Serve(q, [Idle EXCEPT !.st = "ready", !.op = "register",
                   !.db = d, !.agents = S, !.seen = there \cap S,
                   !.hadRow = db[d].general,
                   !.names = [a \in Agents |-> IF a \in S
                                THEN Name(there \cup flushed, view, a) ELSE 0]])
        /\ IF db[d].general THEN db' = db
           ELSE /\ Free(d, q)
                /\ db' = [db EXCEPT ![d].writer = q]
        /\ UNCHANGED <<active, now, history>>

\* What the unique columns refuse: a row inserted meanwhile, two rows of one
\* name, a second submolt "general".
RegisterConflict(s) ==
    LET there == {a \in Agents : Registered(s.db, a)}
        after == [a \in Agents |-> IF a \in s.agents THEN s.names[a]
                                   ELSE db[s.db].agents[a].name]
    IN  \/ (s.agents \ s.seen) \cap there # {}
        \/ ~s.hadRow /\ db[s.db].general
        \/ \E a, b \in there \cup s.agents : a # b /\ after[a] = after[b]

Unlocked(d, q) == IF db[d].writer = q THEN NoRequest ELSE db[d].writer

RegisterFail(q) ==
    /\ req[q].st = "ready" /\ req[q].op = "register"
    /\ RegisterConflict(req[q])
    /\ db' = [db EXCEPT ![req[q].db].writer = Unlocked(req[q].db, q)]
    /\ Answer(q)
    /\ UNCHANGED <<active, now, history>>

\* All rows of a batch or none.
RegisterCommit(q) ==
    LET s == req[q]
        d == s.db
    IN  /\ s.st = "ready" /\ s.op = "register"
        /\ Free(d, q) /\ ~RegisterConflict(s)
        /\ \E tok \in [s.agents -> unused] :
             /\ IsInjective(tok)
             /\ unused' = unused \ {tok[a] : a \in s.agents}
             /\ Serve(q, [Idle EXCEPT !.st = "written", !.op = "register",
                            !.db = d, !.agents = s.agents,
                            !.tokens = [a \in Agents |-> IF a \in s.agents THEN tok[a]
                                                         ELSE NoToken]])
             /\ db' = [db EXCEPT ![d].agents = [a \in Agents |->
                          IF a \notin s.agents THEN @[a]
                          ELSE [token |-> tok[a], name |-> s.names[a]]],
                                 ![d].general = TRUE,
                                 ![d].writer = NoRequest]
        /\ UNCHANGED <<active, now, told, strayed>>

RegisterReply_Unrefreshed(q) ==
    LET s == req[q]
    IN  /\ s.st = "written"
        /\ told' = [told EXCEPT ![s.db] = [a \in Agents |->
                        IF a \in s.agents THEN s.tokens[a] ELSE @[a]]]
        /\ Answer(q)
        /\ UNCHANGED <<active, db, now, unused, strayed>>

\* db.refresh and the response: the tokens are those the rows have by now.
RegisterReply(q) ==
    LET s == req[q]
    IN  /\ s.st = "written"
        /\ told' = [told EXCEPT ![s.db] = [a \in Agents |->
                        IF a \in s.agents THEN db[s.db].agents[a].token ELSE @[a]]]
        /\ Answer(q)
        /\ UNCHANGED <<active, db, now, unused, strayed>>

-----------------------------------------------------------------------------
(* The compass gate.                                                        *)

Of(d, r, a, i) == db[d].subs[i].run = r /\ db[d].subs[i].agent = a

\* _latest_compass_submission: by submitted_at, then by the order of insertion.
Latest(d, I) == CHOOSE i \in I : \A j \in I :
    \/ db[d].subs[j].at < db[d].subs[i].at
    \/ db[d].subs[j].at = db[d].subs[i].at /\ j <= i

Anchor_AnySubmission(d, r, a) ==
    LET mine == {i \in DOMAIN db[d].subs : Of(d, r, a, i)}
    IN  IF mine = {} THEN db[d].context[r].created ELSE db[d].subs[Latest(d, mine)].at

\* What the next submission is due from: the latest accepted one, or the init.
Anchor(d, r, a) ==
    LET mine == {i \in DOMAIN db[d].subs : Of(d, r, a, i) /\ db[d].subs[i].accepted}
    IN  IF mine = {} THEN db[d].context[r].created ELSE db[d].subs[Latest(d, mine)].at

DueAt(d, r, a) == LET t == Anchor(d, r, a) IN t + Interval + Jitter[t]

GateState(d, r, a) ==
    IF now <= DueAt(d, r, a) THEN "clear"
    ELSE IF now <= DueAt(d, r, a) + Grace THEN "warning" ELSE "blocked"

\* get_current_agent: whose row has the token, one of those returned to clients.
Principals(d, tok) == {a \in Agents : db[d].agents[a].token = tok}

\* The gate of the run must be enabled in this database.
Submit(q, r) ==
    /\ req[q].st = "idle"
    /\ db[active].context[r].there
    /\ \E d \in Databases, a \in Agents :
         /\ told[d][a] # NoToken
         /\ Principals(active, told[d][a]) # {}
         /\ Serve(q, [Idle EXCEPT !.st = "ready", !.op = "submit", !.db = active,
                         !.run = r, !.agents = Principals(active, told[d][a])])
    /\ UNCHANGED <<active, db, now, history>>

SubmissionDb_Active(s) == active
SubmissionDb(s) == s.db

AllSubs == MapThenSumSet(LAMBDA d : Len(db[d].subs), Databases)

\* A submission or a refusal, with the date the client gives it.
SubmitCommit(q) ==
    LET s == req[q]
        d == SubmissionDb(s)
    IN  /\ s.st = "ready" /\ s.op = "submit"
        /\ Free(d, q) /\ AllSubs < MaxSubs
        /\ \E a \in s.agents, acc \in BOOLEAN, t \in Times :
             db' = [db EXCEPT ![d].subs = Append(@,
                      [run |-> s.run, agent |-> a, accepted |-> acc, at |-> t])]
        /\ Answer(q)
        /\ UNCHANGED <<active, now, history>>

-----------------------------------------------------------------------------
Tick == /\ now < MaxClock
        /\ now' = now + 1
        /\ UNCHANGED <<active, db, req, history>>

Unanswered(q) == IF req[q].st = "written" THEN {req[q].db} \X req[q].agents ELSE {}
Forgotten(lost) == [d \in Databases |-> [a \in Agents |->
                      IF <<d, a>> \in lost THEN NoToken ELSE told[d][a]]]

\* A handler fails: the database stays locked too long, or the refresh of a row
\* already committed raises.
Fail(q) ==
    /\ req[q].st # "idle"
    /\ db' = [d \in Databases |-> [db[d] EXCEPT !.writer = Unlocked(d, q)]]
    /\ told' = Forgotten(Unanswered(q))
    /\ Answer(q)
    /\ UNCHANGED <<active, now, unused, strayed>>

\* The process starts again: the pointer is a variable of the module.
Restart ==
    /\ active' = Default
    /\ db' = [d \in Databases |-> [db[d] EXCEPT !.writer = NoRequest]]
    /\ req' = [q \in Requests |-> Idle]
    /\ told' = Forgotten(UNION {Unanswered(q) : q \in Requests})
    /\ UNCHANGED <<now, unused, strayed>>

Next ==
    \/ RunStop \/ Tick \/ Restart
    \/ \E q \in Requests :
         \/ InitOpen(q) \/ InitCommit(q) \/ ResetActivate(q)
         \/ RegisterFail(q) \/ RegisterCommit(q) \/ RegisterReply(q)
         \/ SubmitCommit(q) \/ Fail(q)
         \/ \E S \in SUBSET Agents \ {{}} : Register(q, S)
         \/ \E r \in Runs : RunInit(q, r) \/ RunReset(q, r) \/ Submit(q, r)

Spec == Init /\ [][Next]_vars

-----------------------------------------------------------------------------
(* The context of a run is in the run's own database, unless the pointer was *)
(* switched between the activation and the session of its init               *)
(* (platform.py:1526, 1532).                                                  *)
ContextsAtHome ==
    \A d \in Databases, r \in Runs :
       db[d].context[r].there => d = r \/ r \in strayed

(* The token last returned for an agent is the one that works, unless a      *)
(* registration of it has committed and is not answered yet, or never will   *)
(* be: however many registrations overlap, the old token dies with the commit *)
(* of the new one and no client is left with it.                              *)
LastTokenWorks ==
    \A d \in Databases, a \in Agents :
       \/ told[d][a] \in {NoToken, db[d].agents[a].token}
       \/ \E q \in Requests : /\ req[q].st = "written" /\ req[q].db = d
                             /\ a \in req[q].agents

SubsOf(d, r, a) == {i \in DOMAIN db[d].subs : Of(d, r, a, i)}

\* _build_compass_review_payload: the rows list the agents of the database, the
\* total counts the submissions.
ReviewRows(d, r) == [a \in {a \in Agents : Registered(d, a)} |->
                       [count |-> Cardinality(SubsOf(d, r, a)),
                        latest |-> IF SubsOf(d, r, a) = {} THEN 0
                                   ELSE Latest(d, SubsOf(d, r, a))]]
ReviewTotal(d, r) == Cardinality({i \in DOMAIN db[d].subs : db[d].subs[i].run = r})

(* The review of a run leaves no submission out: its rows add up to its      *)
(* total, and the run it is for has a context in that database.               *)
ReviewAddsUp ==
    \A d \in Databases, r \in Runs :
      /\ LET rows == ReviewRows(d, r)
             Count(a) == rows[a].count
         IN  MapThenSumSet(Count, DOMAIN rows) = ReviewTotal(d, r)
      /\ ReviewTotal(d, r) > 0 => db[d].context[r].there

Blocked(d, r, a) == db[d].context[r].there /\ GateState(d, r, a) = "blocked"

(* "block_until_submit" (platform.py:212): a blocked agent gets out of it     *)
(* only by a submission of its own that is accepted, for that run and in that *)
(* database; not by refusing, by a new init of the run, or in time.           *)
BlockedUntilSubmit ==
    [][\A d \in Databases, r \in Runs, a \in Agents :
         (Blocked(d, r, a) /\ ~Blocked(d, r, a)')
            => /\ Len(db[d].subs') = Len(db[d].subs) + 1
               /\ LET x == Last(db[d].subs')
                  IN  x.run = r /\ x.agent = a /\ x.accepted]_<<db, now>>
==============================================================================
