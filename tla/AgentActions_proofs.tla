-------------------------- MODULE AgentActions_proofs --------------------------
(***************************************************************************)
(* Theorems about the bootstrap of the agents of a run and the turns that  *)
(* follow it, for any agents, turns, concurrency and bounds.               *)
(***************************************************************************)
EXTENDS AgentActions, FiniteSetTheorems, TLAPS

-----------------------------------------------------------------------------
(* The inductive invariant.                                                *)

(* The parts that a creation has made are there, unless the agent was      *)
(* deleted.                                                                *)
Staged ==
    \A c \in Callers, a \in Agents \ deleted :
        /\ Job(c, a) \in Makes => "root" \in dir[a].parts
        /\ Job(c, a) \in Makes \ {"filling"} => "workspace" \in dir[a].parts
        /\ Job(c, a) \in Makes \ {"filling", "filled"} => "config" \in dir[a].parts
        /\ Job(c, a) \in {"closing", "created"} => "skill" \in dir[a].parts

(* There is nothing in the files of a directory that is not there.         *)
NothingInGone == \A a \in Agents : dir[a].parts = {} => dir[a] = Gone

(* What the startup knows of the agents in each phase.                     *)
Known == \A a \in ready : tokens[a] = current[a] /\ current[a] # NoToken
Before == {"health", "creating", "registering", "checking", "starting"}

Followed ==
    /\ phase \in {"health", "creating"} => ready = {} /\ errors = {}
    /\ phase = "creating" => specs # {}
    /\ phase \in {"registering", "checking"} => specs = ready \cup errors /\ specs # {}
    /\ phase = "registering" => ready # {}
    /\ phase = "checking" /\ errors = {} /\ preRegister => Known
    /\ phase = "starting" => ready = specs /\ (preRegister => Known)
    /\ phase \in {"registering", "checking", "starting"} =>
          \A a \in ready : Job("startup", a) = "created"
    /\ phase \in Before => ~scheduled

BootInv == BootTypeOK /\ Staged /\ CreatedOnce /\ NothingInGone /\ Followed

(* No turn begins before the scheduler does; a turn that waits for the     *)
(* answer to a registration has the token it will be told.                 *)
TurnsInv ==
    /\ phase \in Before => \A t \in Turns : turns[t].pc = "idle"
    /\ \A t \in Turns : turns[t].pc = "sent" => turns[t].copy \in 1..MaxTokens

(* Nothing is blurred while one turn is at work at a time: the token told  *)
(* is in the file, or in the hands of the turn that is about to save it.   *)
Keeps(turn, token, creds) ==
    /\ turn.pc = "answered" => turn.copy = token
    /\ turn.pc = "writing" /\ turn.file = "creds" =>
          creds = NoFile /\ (token # NoToken => turn.copy = token)
    /\ token # NoToken /\ turn.pc # "answered" /\ (turn.pc = "writing" => turn.file = "state") =>
          creds = token

SavingInv ==
    ~blurred =>
        /\ \A t, u \in AtWork : t = u
        /\ \A t \in AtWork : Keeps(turns[t], told, dir[Actor].creds)
        /\ told # NoToken /\ AtWork = {} => dir[Actor].creds = told

IInv == TypeOK /\ BootInv /\ TurnsInv /\ SavingInv
-----------------------------------------------------------------------------
(* Directories, jobs and the semaphore.                                    *)

LEMMA DirGrows ==
  ASSUME dir \in [Agents -> Directories], NEW a \in Agents, NEW part \in Parts, dir' = With(a, part)
  PROVE  /\ dir' \in [Agents -> Directories]
         /\ \A b \in Agents : dir[b].parts \subseteq dir'[b].parts
         /\ {"root", part} \subseteq dir'[a].parts
         /\ \A b \in Agents : dir'[b].creds = dir[b].creds /\ dir'[b].state = dir[b].state
         /\ \A b \in Agents : b # a => dir'[b] = dir[b]
<1> DEFINE after == [dir[a] EXCEPT !.parts = @ \cup {"root", part}]
<1>1. dir' = [dir EXCEPT ![a] = after]
  BY DEF With
<1>2. dir[a] \in Directories
  OBVIOUS
<1>3. dir[a].parts \cup {"root", part} \in SUBSET Parts
  BY <1>2 DEF Directories, Parts
<1>4. after \in Directories /\ after.parts = dir[a].parts \cup {"root", part}
      /\ after.creds = dir[a].creds /\ after.state = dir[a].state
  BY <1>2, <1>3 DEF Directories
<1> HIDE DEF after
<1>5. \A b \in Agents : dir'[b] = IF b = a THEN after ELSE dir[b]
  BY <1>1
<1> QED BY <1>1, <1>4, <1>5

LEMMA GoneIsDirectory == Gone \in Directories /\ Gone.parts = {} /\ Gone.creds = NoFile /\ Gone.state = NoFile
<1>1. NoFile \in Contents
  BY BootstrapAssumption DEF Contents, NoFile
<1> QED BY <1>1 DEF Gone, Directories

LEMMA JobMoves ==
  ASSUME jobs \in [Callers \X Agents -> JobStates], NEW c \in Callers, NEW a \in Agents,
         NEW state \in JobStates, Moves(c, a, state)
  PROVE  /\ jobs' \in [Callers \X Agents -> JobStates]
         /\ \A d \in Callers, b \in Agents : jobs'[<<d, b>>] = IF d = c /\ b = a THEN state ELSE jobs[<<d, b>>]
BY DEF Moves

LEMMA InProgressFinite == IsFiniteSet(InProgress) /\ Cardinality(InProgress) \in Nat
<1>1. InProgress \subseteq Agents
  BY DEF InProgress
<1> QED BY <1>1, BootstrapAssumption, FS_Subset, FS_CardinalityType DEF BootstrapAssumption

LEMMA InProgressShrinks ==
  ASSUME Cardinality(InProgress) <= Concurrency, InProgress' \subseteq InProgress
  PROVE  Cardinality(InProgress') <= Concurrency
<1>1. Cardinality(InProgress') <= Cardinality(InProgress)
  BY InProgressFinite, FS_Subset
<1>2. Cardinality(InProgress') \in Nat
  BY InProgressFinite, FS_Subset, FS_CardinalityType
<1> QED BY <1>1, <1>2, InProgressFinite, BootstrapAssumption DEF BootstrapAssumption

LEMMA InProgressGrows ==
  ASSUME Cardinality(InProgress) < Concurrency, NEW a, InProgress' \subseteq InProgress \cup {a}
  PROVE  Cardinality(InProgress') <= Concurrency
<1> DEFINE more == InProgress \cup {a}
<1>0. IsFiniteSet(InProgress) /\ Cardinality(InProgress) \in Nat
  BY InProgressFinite
<1>5. IsFiniteSet(more) /\ Cardinality(more) = IF a \in InProgress THEN Cardinality(InProgress) ELSE Cardinality(InProgress) + 1
  BY <1>0, FS_AddElement
<1>1. IsFiniteSet(more) /\ Cardinality(more) <= Cardinality(InProgress) + 1
  BY <1>0, <1>5
<1>2. Cardinality(more) \in Nat
  BY <1>1, FS_CardinalityType
<1>3. Cardinality(InProgress') <= Cardinality(more) /\ IsFiniteSet(InProgress')
  BY <1>1, FS_Subset
<1>4. Cardinality(InProgress') \in Nat
  BY <1>3, FS_CardinalityType
<1> HIDE DEF more
<1> QED BY <1>1, <1>2, <1>3, <1>4, InProgressFinite, BootstrapAssumption DEF BootstrapAssumption

-----------------------------------------------------------------------------
(* What the launcher and its clients do.                                   *)

LEMMA FollowedKept ==
  ASSUME BootTypeOK, Followed, UNCHANGED <<startup, scheduled, current>>,
         \A a \in Agents : jobs[<<"startup", a>>] = "created" => jobs'[<<"startup", a>>] = "created"
  PROVE  Followed'
<1>1. ready \subseteq Agents
  BY DEF BootTypeOK
<1> QED BY <1>1 DEF Followed, Known, startup, Job

LEMMA GrowStep ==
  ASSUME BootInv, NEW c \in Callers, NEW a \in Agents, NEW state \in JobStates, NEW part \in Parts,
         dir' = With(a, part), Moves(c, a, state),
         UNCHANGED <<startup, scheduled, handed, current, crashes, deleted>>,
         visits' \in 0..MaxVisits, Cardinality(InProgress') <= Concurrency,
         c = "startup" => Job(c, a) # "created",
         state \in Makes => Job(c, a) \in Makes \/ ~Exists(a),
         state \in Makes \ {"filling"} => part = "workspace" \/ Job(c, a) \in Makes \ {"filling"},
         state \in Makes \ {"filling", "filled"} =>
            part = "config" \/ Job(c, a) \in Makes \ {"filling", "filled"},
         state \in {"closing", "created"} => part = "skill" \/ Job(c, a) \in {"closing", "created"}
  PROVE  BootInv'
<1>1. dir' \in [Agents -> Directories]
      /\ (\A b \in Agents : dir[b].parts \subseteq dir'[b].parts)
      /\ {"root", part} \subseteq dir'[a].parts
      /\ (\A b \in Agents : b # a => dir'[b] = dir[b])
  BY DirGrows DEF BootInv, BootTypeOK
<1>2. jobs' \in [Callers \X Agents -> JobStates]
      /\ \A d \in Callers, b \in Agents : jobs'[<<d, b>>] = IF d = c /\ b = a THEN state ELSE jobs[<<d, b>>]
  BY JobMoves DEF BootInv, BootTypeOK
<1>3. BootTypeOK'
  BY <1>1, <1>2 DEF BootInv, BootTypeOK, startup
<1>4. \A b \in Agents \ deleted, d \in Callers : jobs[<<d, b>>] \in Makes => dir[b].parts # {}
  BY DEF BootInv, Staged, Job
<1>5. Staged'
  <2> SUFFICES ASSUME NEW d \in Callers, NEW b \in Agents \ deleted
               PROVE  /\ jobs'[<<d, b>>] \in Makes => "root" \in dir'[b].parts
                      /\ jobs'[<<d, b>>] \in Makes \ {"filling"} => "workspace" \in dir'[b].parts
                      /\ jobs'[<<d, b>>] \in Makes \ {"filling", "filled"} => "config" \in dir'[b].parts
                      /\ jobs'[<<d, b>>] \in {"closing", "created"} => "skill" \in dir'[b].parts
    BY DEF Staged, Job
  <2>1. /\ jobs[<<d, b>>] \in Makes => "root" \in dir[b].parts
        /\ jobs[<<d, b>>] \in Makes \ {"filling"} => "workspace" \in dir[b].parts
        /\ jobs[<<d, b>>] \in Makes \ {"filling", "filled"} => "config" \in dir[b].parts
        /\ jobs[<<d, b>>] \in {"closing", "created"} => "skill" \in dir[b].parts
    BY DEF BootInv, Staged, Job
  <2> QED BY <2>1, <1>1, <1>2 DEF Job
<1>6. CreatedOnce'
  <2> SUFFICES ASSUME NEW b \in Agents \ deleted
               PROVE  ~(jobs'[<<"startup", b>>] \in Makes /\ jobs'[<<"client", b>>] \in Makes)
    BY DEF CreatedOnce, Job
  <2>1. ~(jobs[<<"startup", b>>] \in Makes /\ jobs[<<"client", b>>] \in Makes)
    BY DEF BootInv, CreatedOnce, Job
  <2> QED BY <2>1, <1>2, <1>4 DEF Job, Exists, Callers
<1>7. NothingInGone'
  BY <1>1 DEF BootInv, NothingInGone
<1>8. Followed'
  BY FollowedKept, <1>2 DEF BootInv, Job, Callers
<1> QED BY <1>3, <1>5, <1>6, <1>7, <1>8 DEF BootInv

(* A creation that ends without making more.                               *)
LEMMA SettleStep ==
  ASSUME BootInv, NEW c \in Callers, NEW a \in Agents, NEW state \in {"refused", "unskilled"},
         UNCHANGED dir, Moves(c, a, state),
         UNCHANGED <<startup, scheduled, handed, current, crashes, deleted>>,
         visits' \in 0..MaxVisits,
         c = "startup" => Job(c, a) # "created", state = "unskilled" => Job(c, a) = "skilling"
  PROVE  BootInv'
<1>0. state \in JobStates
  BY DEF JobStates
<1>2. jobs' \in [Callers \X Agents -> JobStates]
      /\ \A d \in Callers, b \in Agents : jobs'[<<d, b>>] = IF d = c /\ b = a THEN state ELSE jobs[<<d, b>>]
  BY <1>0, JobMoves DEF BootInv, BootTypeOK
<1>3. BootTypeOK'
  <2>1. InProgress' \subseteq InProgress
    BY <1>2 DEF InProgress, Settled, Job, Callers
  <2>2. Cardinality(InProgress') <= Concurrency
    BY <2>1, InProgressShrinks DEF BootInv, BootTypeOK
  <2> QED BY <1>2, <2>2 DEF BootInv, BootTypeOK, startup
<1>5. Staged'
  BY <1>2 DEF BootInv, Staged, Job, Makes
<1>6. CreatedOnce'
  BY <1>2 DEF BootInv, CreatedOnce, Job, Makes, Callers
<1>7. NothingInGone'
  BY DEF BootInv, NothingInGone
<1>8. Followed'
  BY FollowedKept, <1>2 DEF BootInv, Job, Callers
<1> QED BY <1>3, <1>5, <1>6, <1>7, <1>8 DEF BootInv

LEMMA CreateStep ==
  ASSUME BootInv, NEW a \in Agents, Create(a)
  PROVE  BootInv'
<1>1. Job("startup", a) = "queued" /\ Cardinality(InProgress) < Concurrency
      /\ UNCHANGED <<startup, scheduled, handed, current, bounds>>
  BY DEF Create
<1>2. visits' \in 0..MaxVisits
  BY <1>1 DEF bounds, BootInv, BootTypeOK
<1>3. CASE ~Exists(a) /\ dir' = With(a, "root") /\ Moves("startup", a, "filling")
  <2>1. jobs' = [jobs EXCEPT ![<<"startup", a>>] = "filling"]
    BY <1>3 DEF Moves
  <2>2. InProgress' \subseteq InProgress \cup {a}
    BY <2>1 DEF InProgress, Job, Callers, BootInv, BootTypeOK
  <2>3. Cardinality(InProgress') <= Concurrency
    BY <1>1, <2>2, InProgressGrows
  <2> QED BY <1>1, <1>2, <1>3, <2>3, GrowStep DEF Makes, JobStates, Parts, Callers, bounds
<1>4. CASE Moves("startup", a, "refused") /\ UNCHANGED dir
  BY <1>1, <1>2, <1>4, SettleStep DEF Callers, bounds
<1> QED BY <1>3, <1>4 DEF Create, Make

LEMMA ClientCreateStep ==
  ASSUME BootInv, NEW a \in Agents, ClientCreate(a)
  PROVE  BootInv'
<1>1. UNCHANGED <<startup, scheduled, handed, current, crashes, deleted>>
  BY DEF ClientCreate
<1>2. visits' \in 0..MaxVisits
  BY BootstrapAssumption DEF ClientCreate, Visit, BootInv, BootTypeOK, BootstrapAssumption
<1>3. CASE ~Exists(a) /\ dir' = With(a, "root") /\ Moves("client", a, "filling")
  <2>1. jobs' = [jobs EXCEPT ![<<"client", a>>] = "filling"]
    BY <1>3 DEF Moves
  <2>2. InProgress' \subseteq InProgress
    BY <2>1 DEF InProgress, Job, Callers, BootInv, BootTypeOK
  <2>3. Cardinality(InProgress') <= Concurrency
    BY <2>2, InProgressShrinks DEF BootInv, BootTypeOK
  <2> QED BY <1>1, <1>2, <1>3, <2>3, GrowStep DEF Makes, JobStates, Parts, Callers
<1>4. CASE Moves("client", a, "refused") /\ UNCHANGED dir
  BY <1>1, <1>2, <1>4, SettleStep DEF Callers
<1> QED BY <1>3, <1>4 DEF ClientCreate, Make

LEMMA JobStep ==
  ASSUME BootInv, NEW a \in Agents, NEW c \in Callers, Fill(c, a) \/ Skill(c, a) \/ Finish(c, a)
  PROVE  BootInv'
<1>1. UNCHANGED <<startup, scheduled, handed, current, crashes, deleted>> /\ visits' \in 0..MaxVisits
  BY DEF Fill, Skill, Finish, bounds, BootInv, BootTypeOK
<1>2. ASSUME NEW state \in JobStates, Moves(c, a, state), Job(c, a) \in {"filling", "skilling", "closing"}
      PROVE  Cardinality(InProgress') <= Concurrency
  <2>1. jobs' = [jobs EXCEPT ![<<c, a>>] = state]
    BY <1>2 DEF Moves
  <2>2. InProgress' \subseteq InProgress
    BY <2>1, <1>2 DEF InProgress, Job, Callers, BootInv, BootTypeOK, Settled
  <2> QED BY <2>2, InProgressShrinks DEF BootInv, BootTypeOK
<1>3. CASE Fill(c, a)
  <2>1. CASE dir' = With(a, "workspace") /\ Moves(c, a, "filled")
    BY <1>1, <1>2, <1>3, <2>1, GrowStep DEF Fill, Makes, JobStates, Parts
  <2>2. CASE Moves(c, a, "refused") /\ UNCHANGED dir
    BY <1>1, <1>3, <2>2, SettleStep DEF Fill
  <2> QED BY <1>3, <2>1, <2>2 DEF Fill
<1>4. CASE Skill(c, a)
  <2>1. CASE dir' = With(a, "skill") /\ Moves(c, a, "closing")
    BY <1>1, <1>2, <1>4, <2>1, GrowStep DEF Skill, Makes, JobStates, Parts
  <2>2. CASE Moves(c, a, "unskilled") /\ UNCHANGED dir
    BY <1>1, <1>4, <2>2, SettleStep DEF Skill
  <2> QED BY <1>4, <2>1, <2>2 DEF Skill
<1>5. CASE Finish(c, a)
  BY <1>1, <1>2, <1>5, GrowStep DEF Finish, Makes, JobStates, Parts
<1> QED BY <1>3, <1>4, <1>5

LEMMA ConfigureStep ==
  ASSUME BootInv, NEW a \in Agents, NEW c \in Callers, Configure(c, a)
  PROVE  BootInv'
<1>1. UNCHANGED <<startup, scheduled, handed, current, crashes, deleted>> /\ visits' \in 0..MaxVisits
      /\ Job(c, a) = "filled"
  BY DEF Configure, bounds, BootInv, BootTypeOK
<1>2. ASSUME NEW state \in JobStates, Moves(c, a, state)
      PROVE  /\ Cardinality(InProgress') <= Concurrency
             /\ jobs' \in [Callers \X Agents -> JobStates]
             /\ \A d \in Callers, b \in Agents :
                   jobs'[<<d, b>>] = IF d = c /\ b = a THEN state ELSE jobs[<<d, b>>]
  <2>1. jobs' = [jobs EXCEPT ![<<c, a>>] = state]
    BY <1>2 DEF Moves
  <2>2. InProgress' \subseteq InProgress
    BY <2>1, <1>1 DEF InProgress, Job, Callers, BootInv, BootTypeOK, Settled
  <2> QED BY <1>2, <2>2, InProgressShrinks, JobMoves DEF BootInv, BootTypeOK
<1>3. CASE dir' = With(a, "config") /\ Moves(c, a, "skilling")
  BY <1>1, <1>2, <1>3, GrowStep DEF Makes, JobStates, Parts
<1>4. CASE Moves(c, a, "refused") /\ UNCHANGED dir
  BY <1>1, <1>4, SettleStep
<1>5. CASE dir' = [dir EXCEPT ![a] = Gone] /\ Moves(c, a, "refused")
  <2>1. dir' \in [Agents -> Directories] /\ \A b \in Agents : dir'[b] = IF b = a THEN Gone ELSE dir[b]
    BY <1>5, GoneIsDirectory DEF BootInv, BootTypeOK
  <2>2. /\ Cardinality(InProgress') <= Concurrency
        /\ jobs' \in [Callers \X Agents -> JobStates]
        /\ \A d \in Callers, b \in Agents :
              jobs'[<<d, b>>] = IF d = c /\ b = a THEN "refused" ELSE jobs[<<d, b>>]
    BY <1>2, <1>5 DEF JobStates
  <2>3. BootTypeOK'
    BY <1>1, <2>1, <2>2 DEF BootInv, BootTypeOK, startup
  <2>4. CreatedOnce'
    BY <1>1, <2>2 DEF BootInv, CreatedOnce, Job, Callers, Makes
  <2>5. Staged'
    <3> SUFFICES ASSUME NEW d \in Callers, NEW b \in Agents \ deleted
                 PROVE  /\ jobs'[<<d, b>>] \in Makes => "root" \in dir'[b].parts
                        /\ jobs'[<<d, b>>] \in Makes \ {"filling"} => "workspace" \in dir'[b].parts
                        /\ jobs'[<<d, b>>] \in Makes \ {"filling", "filled"} => "config" \in dir'[b].parts
                        /\ jobs'[<<d, b>>] \in {"closing", "created"} => "skill" \in dir'[b].parts
      BY <1>1 DEF Staged, Job
    <3>1. CASE b = a
      <4>1. jobs'[<<d, a>>] \notin Makes
        BY <1>1, <2>2, <3>1 DEF BootInv, CreatedOnce, Job, Callers, Makes
      <4> QED BY <3>1, <4>1 DEF Makes
    <3>2. CASE b # a
      BY <2>1, <2>2, <3>2 DEF BootInv, Staged, Job
    <3> QED BY <3>1, <3>2
  <2>6. NothingInGone'
    BY <2>1 DEF BootInv, NothingInGone
  <2>7. Followed'
    BY <1>1, <2>2, FollowedKept DEF BootInv, Job, Callers
  <2> QED BY <2>3, <2>4, <2>5, <2>6, <2>7 DEF BootInv
<1> QED BY <1>3, <1>4, <1>5 DEF Configure

LEMMA ClientDeleteStep ==
  ASSUME BootInv, NEW a \in Agents, ClientDelete(a)
  PROVE  BootInv'
<1>1. UNCHANGED <<startup, jobs, scheduled, handed, current, crashes>> /\ deleted' = deleted \cup {a}
  BY DEF ClientDelete
<1>2. visits' \in 0..MaxVisits
  BY BootstrapAssumption DEF ClientDelete, Visit, BootInv, BootTypeOK, BootstrapAssumption
<1>3. dir' \in [Agents -> Directories] /\ \A b \in Agents : dir'[b] = IF b = a THEN Gone ELSE dir[b]
  BY GoneIsDirectory DEF ClientDelete, BootInv, BootTypeOK
<1>4. BootTypeOK'
  <2>1. InProgress' \subseteq InProgress
    BY <1>1 DEF InProgress, Job
  <2>2. Cardinality(InProgress') <= Concurrency
    BY <2>1, InProgressShrinks DEF BootInv, BootTypeOK
  <2> QED BY <1>1, <1>2, <1>3, <2>2 DEF BootInv, BootTypeOK, startup
<1>5. Staged'
  BY <1>1, <1>3 DEF BootInv, Staged, Job
<1>6. CreatedOnce'
  BY <1>1 DEF BootInv, CreatedOnce, Job
<1>7. NothingInGone'
  BY <1>3 DEF BootInv, NothingInGone
<1>8. Followed'
  BY <1>1, FollowedKept DEF BootInv
<1> QED BY <1>4, <1>5, <1>6, <1>7, <1>8 DEF BootInv

LEMMA ClientInstallStep ==
  ASSUME BootInv, NEW a \in Agents, ClientInstall(a)
  PROVE  BootInv'
<1>1. UNCHANGED <<startup, jobs, scheduled, handed, current, crashes, deleted>> /\ dir' = With(a, "skill")
  BY DEF ClientInstall
<1>2. visits' \in 0..MaxVisits
  BY BootstrapAssumption DEF ClientInstall, Visit, BootInv, BootTypeOK, BootstrapAssumption
<1>3. dir' \in [Agents -> Directories]
      /\ (\A b \in Agents : dir[b].parts \subseteq dir'[b].parts)
      /\ {"root", "skill"} \subseteq dir'[a].parts
      /\ (\A b \in Agents : b # a => dir'[b] = dir[b])
  BY <1>1, DirGrows DEF BootInv, BootTypeOK, Parts
<1>4. BootTypeOK'
  <2>1. InProgress' \subseteq InProgress
    BY <1>1 DEF InProgress, Job
  <2>2. Cardinality(InProgress') <= Concurrency
    BY <2>1, InProgressShrinks DEF BootInv, BootTypeOK
  <2> QED BY <1>1, <1>2, <1>3, <2>2 DEF BootInv, BootTypeOK, startup
<1>5. Staged'
  BY <1>1, <1>3 DEF BootInv, Staged, Job
<1>6. CreatedOnce'
  BY <1>1 DEF BootInv, CreatedOnce, Job
<1>7. NothingInGone'
  BY <1>3 DEF BootInv, NothingInGone
<1>8. Followed'
  BY <1>1, FollowedKept DEF BootInv
<1> QED BY <1>4, <1>5, <1>6, <1>7, <1>8 DEF BootInv

LEMMA LauncherStep == BootInv /\ Launcher => BootInv'
BY CreateStep, ClientCreateStep, ClientDeleteStep, ClientInstallStep, JobStep, ConfigureStep DEF Launcher

LEMMA CrashStep == BootInv /\ Crash => BootInv'
<1> SUFFICES ASSUME BootInv, Crash PROVE BootInv'
  OBVIOUS
<1>1. UNCHANGED <<startup, dir, current, visits, deleted>> /\ scheduled' = FALSE
      /\ handed' = [b \in Agents |-> NoToken] /\ crashes < MaxCrashes /\ crashes' = crashes + 1
  BY DEF Crash
<1>2. jobs' \in [Callers \X Agents -> JobStates]
      /\ \A d \in Callers, b \in Agents :
            jobs'[<<d, b>>] = IF jobs[<<d, b>>] \in Settled THEN jobs[<<d, b>>] ELSE "lost"
  BY DEF Crash, BootInv, BootTypeOK, JobStates, Settled
<1>3. BootTypeOK'
  <2>1. InProgress' \subseteq InProgress
    BY <1>2 DEF InProgress, Job, Callers, Settled
  <2>2. Cardinality(InProgress') <= Concurrency
    BY <2>1, InProgressShrinks DEF BootInv, BootTypeOK
  <2>3. crashes' \in 0..MaxCrashes
    BY <1>1, BootstrapAssumption DEF BootInv, BootTypeOK, BootstrapAssumption
  <2>4. handed' \in [Agents -> NoToken..MaxTokens]
    BY <1>1, BootstrapAssumption DEF BootstrapAssumption, NoToken
  <2> QED BY <1>1, <1>2, <2>2, <2>3, <2>4 DEF BootInv, BootTypeOK, startup
<1>4. Staged'
  BY <1>1, <1>2 DEF BootInv, Staged, Job, Makes
<1>5. CreatedOnce'
  BY <1>1, <1>2 DEF BootInv, CreatedOnce, Job, Makes, Callers
<1>6. NothingInGone'
  BY <1>1 DEF BootInv, NothingInGone
<1>7. Followed'
  BY <1>1, <1>2 DEF BootInv, BootTypeOK, Followed, Known, startup, Job, Callers, Settled
<1> QED BY <1>3, <1>4, <1>5, <1>6, <1>7 DEF BootInv

-----------------------------------------------------------------------------
(* The startup of the run.                                                 *)

LEMMA HealthStep == BootInv /\ Health => BootInv'
<1> SUFFICES ASSUME BootInv, Health PROVE BootInv'
  OBVIOUS
<1>1. UNCHANGED <<specs, preRegister, ready, errors, tokens, dir, scheduled, handed, current,
                  visits, crashes, deleted>>
      /\ phase = "health" /\ phase' \in {"running", "creating", "failed"}
      /\ (phase' = "creating" => specs # {}) /\ up' \in BOOLEAN
  BY DEF Health, bounds, Fails, BootInv, BootTypeOK
<1>2. jobs' \in [Callers \X Agents -> JobStates]
      /\ \A d \in Callers, b \in Agents : jobs'[<<d, b>>] \in {"queued", jobs[<<d, b>>]}
  <2>1. CASE UNCHANGED jobs
    BY <2>1 DEF BootInv, BootTypeOK
  <2>2. CASE jobs' = [j \in DOMAIN jobs |-> IF j[1] = "startup" /\ j[2] \in specs THEN "queued" ELSE jobs[j]]
    BY <2>2 DEF BootInv, BootTypeOK, JobStates
  <2> QED BY <2>1, <2>2 DEF Health
<1>3. BootTypeOK'
  <2>1. InProgress' \subseteq InProgress
    BY <1>2 DEF InProgress, Job, Callers
  <2>2. Cardinality(InProgress') <= Concurrency
    BY <2>1, InProgressShrinks DEF BootInv, BootTypeOK
  <2> QED BY <1>1, <1>2, <2>2 DEF BootInv, BootTypeOK, Phases
<1>4. Staged'
  BY <1>1, <1>2 DEF BootInv, Staged, Job, Makes
<1>5. CreatedOnce'
  BY <1>1, <1>2 DEF BootInv, CreatedOnce, Job, Makes, Callers
<1>6. NothingInGone'
  BY <1>1 DEF BootInv, NothingInGone
<1>7. Followed'
  BY <1>1 DEF BootInv, Followed, Before
<1> QED BY <1>3, <1>4, <1>5, <1>6, <1>7 DEF BootInv

(* The other steps leave the directories and the creations alone.          *)
LEMMA FilesKept ==
  ASSUME BootInv, UNCHANGED <<jobs, dir, deleted>>
  PROVE  Staged' /\ CreatedOnce' /\ NothingInGone' /\ Cardinality(InProgress') <= Concurrency
<1>1. InProgress' \subseteq InProgress
  BY DEF InProgress, Job
<1>2. Cardinality(InProgress') <= Concurrency
  BY <1>1, InProgressShrinks DEF BootInv, BootTypeOK
<1> QED BY <1>2 DEF BootInv, Staged, CreatedOnce, NothingInGone, Job

LEMMA AnsweredStep == BootInv /\ Answered => BootInv'
<1> SUFFICES ASSUME BootInv, Answered PROVE BootInv'
  OBVIOUS
<1>1. UNCHANGED <<specs, preRegister, tokens, up, jobs, dir, scheduled, handed, current, visits, crashes, deleted>>
      /\ ready' = Validated /\ errors' = specs \ Validated /\ phase = "creating"
      /\ phase' = IF preRegister /\ Validated # {} THEN "registering" ELSE "checking"
  BY DEF Answered, launcher, bounds
<1>2. Validated \subseteq specs /\ \A a \in Validated : jobs[<<"startup", a>>] = "created"
  BY DEF Validated, Job
<1>3. BootTypeOK'
  BY <1>1, <1>2, FilesKept DEF BootInv, BootTypeOK, Phases
<1>4. Followed'
  <2>1. specs # {} /\ ~scheduled
    BY <1>1 DEF BootInv, Followed, Before
  <2>2. CASE Validated = {}
    BY <1>1, <1>2, <2>1, <2>2 DEF Followed, Before, Known, Job
  <2>3. CASE Validated # {}
    BY <1>1, <1>2, <2>1, <2>3 DEF Followed, Before, Known, Job
  <2> QED BY <2>2, <2>3
<1> QED BY <1>1, <1>3, <1>4, FilesKept DEF BootInv

LEMMA NoAnswerStep ==
  ASSUME BootInv, NEW asked \in SUBSET specs, NoAnswer(asked),
         phase \in {"creating", "registering"},
         phase = "creating" => asked = specs, phase = "registering" => asked = ready,
         UNCHANGED <<specs, preRegister, tokens, up, launcher, bounds>>,
         current' \in [Agents -> NoToken..MaxTokens]
  PROVE  BootInv'
<1>1. UNCHANGED <<specs, preRegister, tokens, up, jobs, dir, scheduled, handed, visits, crashes, deleted>>
  BY DEF launcher, bounds
<1>2. asked # {} /\ (phase = "registering" => specs = ready \cup errors) /\ ~scheduled /\ specs # {}
      /\ (phase = "creating" => ready = {} /\ errors = {})
  BY DEF BootInv, Followed, Before
<1>3. CASE phase' = "raised" /\ UNCHANGED <<ready, errors>>
  <2>1. BootTypeOK'
    BY <1>1, <1>3, FilesKept DEF BootInv, BootTypeOK, Phases
  <2>2. Followed'
    BY <1>3 DEF Followed, Before
  <2> QED BY <1>1, <2>1, <2>2, FilesKept DEF BootInv
<1>4. CASE phase' = "checking" /\ errors' = errors \cup asked /\ ready' = ready \ asked
  <2>1. BootTypeOK'
    BY <1>1, <1>4, FilesKept DEF BootInv, BootTypeOK, Phases
  <2>2. errors' # {} /\ specs' = ready' \cup errors' /\ ready' = {}
    BY <1>1, <1>2, <1>4 DEF BootInv, BootTypeOK
  <2>3. Followed'
    BY <1>1, <1>2, <1>4, <2>2 DEF Followed, Before
  <2> QED BY <1>1, <2>1, <2>3, FilesKept DEF BootInv
<1> QED BY <1>3, <1>4 DEF NoAnswer

LEMMA Issues ==
  ASSUME current \in [Agents -> NoToken..MaxTokens], tokens \in [Agents -> NoToken..MaxTokens],
         NEW asked \in SUBSET Agents, CanIssue(asked)
  PROVE  /\ Issued(asked) \in [Agents -> NoToken..MaxTokens]
         /\ TokensOf(asked) \in [Agents -> NoToken..MaxTokens]
         /\ \A a \in asked : Issued(asked)[a] \in 1..MaxTokens /\ TokensOf(asked)[a] = Issued(asked)[a]
<1>1. \A a \in asked : current[a] + 1 \in 1..MaxTokens
  BY BootstrapAssumption DEF CanIssue, BootstrapAssumption, NoToken
<1> QED BY <1>1, BootstrapAssumption DEF Issued, TokensOf, NoToken, BootstrapAssumption

LEMMA RegisterStep == BootInv /\ Register => BootInv'
<1> SUFFICES ASSUME BootInv, Register PROVE BootInv'
  OBVIOUS
<1>1. UNCHANGED <<specs, preRegister, ready, errors, up, jobs, dir, scheduled, handed, visits, crashes, deleted>>
      /\ phase = "registering" /\ phase' = "checking"
      /\ current' = Issued(ready) /\ tokens' = TokensOf(ready) /\ CanIssue(ready)
  BY DEF Register, launcher, bounds
<1>2. ready \subseteq Agents
  BY DEF BootInv, BootTypeOK
<1>3. /\ current' \in [Agents -> NoToken..MaxTokens] /\ tokens' \in [Agents -> NoToken..MaxTokens]
      /\ \A a \in ready : current'[a] \in 1..MaxTokens /\ tokens'[a] = current'[a]
  BY <1>1, <1>2, Issues DEF BootInv, BootTypeOK
<1>4. BootTypeOK'
  BY <1>1, <1>3, FilesKept DEF BootInv, BootTypeOK, Phases
<1>5. Known'
  BY <1>1, <1>3 DEF Known, NoToken
<1>6. Followed'
  BY <1>1, <1>5 DEF BootInv, Followed, Before, Job
<1> QED BY <1>1, <1>4, <1>6, FilesKept DEF BootInv

LEMMA StartStep ==
  ASSUME BootInv, Start
  PROVE  BootInv'
<1>1. UNCHANGED <<specs, preRegister, ready, errors, tokens, jobs, dir, current, visits, crashes, deleted>>
      /\ phase' \in {"running", "failed"} /\ up' \in BOOLEAN
  BY DEF Start, Fails, bounds, BootInv, BootTypeOK
<1>2. scheduled' \in BOOLEAN /\ handed' \in [Agents -> NoToken..MaxTokens]
  BY DEF Start, Scheduled, BootInv, BootTypeOK
<1>3. BootTypeOK'
  BY <1>1, <1>2, FilesKept DEF BootInv, BootTypeOK, Phases
<1>4. Followed'
  BY <1>1 DEF Followed, Before
<1> QED BY <1>1, <1>3, <1>4, FilesKept DEF BootInv

LEMMA StartupStep == BootInv /\ Startup => BootInv'
<1> SUFFICES ASSUME BootInv, Startup PROVE BootInv'
  OBVIOUS
<1>0. specs \subseteq Agents /\ ready \subseteq specs /\ current \in [Agents -> NoToken..MaxTokens]
      /\ tokens \in [Agents -> NoToken..MaxTokens]
  BY DEF BootInv, BootTypeOK
<1>1. CASE GiveUp
  <2>1. UNCHANGED <<specs, preRegister, tokens, up, launcher, bounds>> /\ UNCHANGED current
        /\ NoAnswer(specs) /\ phase = "creating"
    BY <1>1 DEF GiveUp
  <2> QED BY <1>0, <2>1, NoAnswerStep
<1>2. CASE RegisterFails
  <2>1. UNCHANGED <<specs, preRegister, tokens, up, launcher, bounds>> /\ NoAnswer(ready)
        /\ phase = "registering"
    BY <1>2 DEF RegisterFails
  <2>2. current' \in [Agents -> NoToken..MaxTokens]
    <3>1. CanIssue(ready) => Issued(ready) \in [Agents -> NoToken..MaxTokens]
      BY <1>0, Issues
    <3> QED BY <1>0, <1>2, <3>1 DEF RegisterFails
  <2> QED BY <1>0, <2>1, <2>2, NoAnswerStep
<1>3. CASE Check
  <2>1. UNCHANGED <<specs, preRegister, ready, errors, tokens, jobs, dir, scheduled, handed, current,
                    visits, crashes, deleted>>
        /\ phase = "checking" /\ up' \in BOOLEAN
    BY <1>3 DEF Check, Fails, launcher, bounds, BootInv, BootTypeOK
  <2>2. phase' = "failed" \/ (phase' = "starting" /\ Initialized)
    BY <1>3 DEF Check, Fails
  <2>3. BootTypeOK'
    BY <2>1, <2>2, FilesKept DEF BootInv, BootTypeOK, Phases
  <2>4. Followed'
    <3>1. CASE phase' = "failed"
      BY <3>1 DEF Followed, Before
    <3>2. CASE phase' = "starting" /\ Initialized
      BY <2>1, <3>2 DEF BootInv, Followed, Before, Known, Initialized, Job
    <3> QED BY <2>2, <3>1, <3>2
  <2> QED BY <2>1, <2>3, <2>4, FilesKept DEF BootInv
<1> QED BY <1>1, <1>2, <1>3, HealthStep, AnsweredStep, RegisterStep, StartStep DEF Startup

(* What the scheduler is started with.                                     *)
LEMMA StartsReady == BootInv /\ Start /\ scheduled' => AllReady
<1> SUFFICES ASSUME BootInv, Start, scheduled' PROVE AllReady
  OBVIOUS
<1>1. UNCHANGED <<specs, preRegister, ready, tokens, jobs, dir, current, deleted>> /\ phase = "starting"
  BY DEF Start, bounds
<1>2. ready = specs /\ (preRegister => Known) /\ \A a \in ready : Job("startup", a) = "created"
  BY <1>1 DEF BootInv, Followed
<1>3. \A a \in specs : dir[a].parts = Parts \/ a \in deleted
  <2> SUFFICES ASSUME NEW a \in specs, a \notin deleted PROVE dir[a].parts = Parts
    OBVIOUS
  <2>1. a \in Agents \ deleted /\ Job("startup", a) = "created"
    BY <1>2 DEF BootInv, BootTypeOK
  <2>2. {"root", "workspace", "config", "skill"} \subseteq dir[a].parts
    BY <2>1 DEF BootInv, Staged, Makes, Callers
  <2>3. dir[a] \in Directories
    BY <2>1 DEF BootInv, BootTypeOK
  <2> QED BY <2>2, <2>3 DEF Directories, Parts
<1> QED BY <1>2, <1>3 DEF AllReady, Whole, Known

-----------------------------------------------------------------------------
(* The turns.                                                              *)

LEMMA DirWritten ==
  ASSUME dir \in [Agents -> Directories], NEW f \in Files, NEW content \in Contents, dir' = Written(f, content)
  PROVE  /\ dir' \in [Agents -> Directories]
         /\ \A b \in Agents : dir[b].parts \subseteq dir'[b].parts
         /\ dir'[Actor].parts # {}
         /\ dir'[Actor].creds = IF f = "creds" THEN content ELSE dir[Actor].creds
         /\ \A b \in Agents : b # Actor => dir'[b] = dir[b]
<1>0. Actor \in Agents /\ dir[Actor] \in Directories
  BY ActionsAssumption DEF ActionsAssumption
<1>1. dir[Actor].parts \cup {"root"} \in SUBSET Parts
  BY <1>0 DEF Directories, Parts
<1>2. CASE f = "creds"
  <2> DEFINE after == [dir[Actor] EXCEPT !.creds = content, !.parts = @ \cup {"root"}]
  <2>1. dir' = [dir EXCEPT ![Actor] = after]
    BY <1>2 DEF Written
  <2>2. after \in Directories /\ after.creds = content /\ after.parts = dir[Actor].parts \cup {"root"}
    BY <1>0, <1>1 DEF Directories
  <2> HIDE DEF after
  <2>3. \A b \in Agents : dir'[b] = IF b = Actor THEN after ELSE dir[b]
    BY <2>1
  <2> QED BY <1>0, <1>2, <2>1, <2>2, <2>3
<1>3. CASE f = "state"
  <2> DEFINE after == [dir[Actor] EXCEPT !.state = content, !.parts = @ \cup {"root"}]
  <2>1. dir' = [dir EXCEPT ![Actor] = after]
    BY <1>3 DEF Written
  <2>2. after \in Directories /\ after.creds = dir[Actor].creds /\ after.parts = dir[Actor].parts \cup {"root"}
    BY <1>0, <1>1 DEF Directories
  <2> HIDE DEF after
  <2>3. \A b \in Agents : dir'[b] = IF b = Actor THEN after ELSE dir[b]
    BY <2>1
  <2> QED BY <1>0, <1>3, <2>1, <2>2, <2>3
<1> QED BY <1>2, <1>3 DEF Files

(* A turn disturbs nothing of the bootstrap.                               *)
LEMMA BootKept ==
  ASSUME BootInv, UNCHANGED boot, dir' \in [Agents -> Directories],
         \A b \in Agents : dir[b].parts \subseteq dir'[b].parts,
         \A b \in Agents : dir'[b] = dir[b] \/ dir'[b].parts # {},
         current' \in [Agents -> NoToken..MaxTokens], UNCHANGED current \/ phase \notin Before
  PROVE  BootInv'
<1>1. UNCHANGED <<specs, preRegister, phase, ready, errors, tokens, up, jobs, scheduled, handed,
                  visits, crashes, deleted>>
  BY DEF boot, startup, bounds
<1>2. InProgress' \subseteq InProgress
  BY <1>1 DEF InProgress, Job
<1>3. BootTypeOK'
  BY <1>1, <1>2, InProgressShrinks DEF BootInv, BootTypeOK
<1>4. Staged' /\ CreatedOnce'
  BY <1>1 DEF BootInv, Staged, CreatedOnce, Job
<1>5. NothingInGone'
  BY DEF BootInv, NothingInGone
<1>6. Followed'
  BY <1>1 DEF BootInv, Followed, Known, Before, Job
<1> QED BY <1>3, <1>4, <1>5, <1>6 DEF BootInv

LEMMA TurnStep ==
  ASSUME IInv, NEW t \in Turns, NEW turn \in Turn, Becomes(t, turn), BootInv', phase' \notin Before,
         told' \in NoToken..MaxTokens, blurred' \in BOOLEAN,
         turn.pc # "idle", turn.pc = "over" => turn.auth = NoToken /\ turn.copy = NoFile,
         turn.pc = "sent" => turn.copy \in 1..MaxTokens,
         ~blurred' => /\ \A u \in Turns : u # t => turns[u].pc \in {"idle", "over"}
                      /\ Keeps(turn, told', dir'[Actor].creds)
  PROVE  IInv'
<1>1. turns' \in [Turns -> Turn] /\ \A u \in Turns : turns'[u] = IF u = t THEN turn ELSE turns[u]
  BY DEF Becomes, IInv, TypeOK
<1>2. \A u \in Turns : turns'[u].pc \in {"idle", "over"} =>
          turns'[u].auth = NoToken /\ turns'[u].copy = NoFile
  BY <1>1 DEF IInv, TypeOK, AtWork
<1>3. TypeOK'
  BY <1>1, <1>2 DEF TypeOK, BootInv, AtWork
<1>4. TurnsInv'
  BY <1>1 DEF IInv, TurnsInv
<1>5. SavingInv'
  <2> SUFFICES ASSUME ~blurred'
               PROVE  /\ \A u, v \in AtWork' : u = v
                      /\ \A u \in AtWork' : Keeps(turns'[u], told', dir'[Actor].creds)
                      /\ told' # NoToken /\ AtWork' = {} => dir'[Actor].creds = told'
    BY DEF SavingInv, Keeps
  <2>1. AtWork' \subseteq {t} /\ (turn.pc # "over" => t \in AtWork')
    BY <1>1 DEF AtWork
  <2>2. AtWork' = {} => turn.pc = "over"
    BY <2>1
  <2> QED BY <1>1, <2>1, <2>2 DEF Keeps
<1> QED BY <1>3, <1>4, <1>5 DEF IInv

LEMMA AtWorkFacts ==
  ASSUME IInv, NEW t \in Turns, turns[t].pc \notin {"idle", "over"}
  PROVE  /\ phase \notin Before
         /\ ~blurred => /\ \A u \in Turns : u # t => turns[u].pc \in {"idle", "over"}
                       /\ Keeps(turns[t], told, dir[Actor].creds)
<1>1. t \in AtWork
  BY DEF AtWork
<1>2. phase \notin Before
  BY DEF IInv, TurnsInv
<1> QED BY <1>1, <1>2 DEF IInv, SavingInv, AtWork

LEMMA TokensAreContents == NoToken..MaxTokens \subseteq Contents /\ NoFile \in Contents /\ Junk \in Contents
BY BootstrapAssumption DEF BootstrapAssumption, Contents, NoToken, NoFile, Junk

LEMMA ActedIsTurn ==
  ASSUME NEW turn \in Turn, NEW pc \in States, turn.acts < MaxActions
  PROVE  /\ Acted(turn, pc) \in Turn
         /\ Acted(turn, pc).pc = pc
         /\ Acted(turn, pc).copy = turn.copy /\ Acted(turn, pc).file = turn.file
<1>1. turn.acts + 1 \in 0..MaxActions
  BY ActionsAssumption DEF Turn, ActionsAssumption
<1> QED BY <1>1 DEF Acted, Turn

(* Steps of a turn that is at work and leaves the token file alone.        *)
LEMMA QuietStep ==
  ASSUME IInv, NEW t \in Turns, turns[t].pc \in {"acting", "editing"}, NEW turn \in Turn, Becomes(t, turn),
         UNCHANGED boot, dir' \in [Agents -> Directories],
         \A b \in Agents : dir[b].parts \subseteq dir'[b].parts,
         \A b \in Agents : dir'[b] = dir[b] \/ dir'[b].parts # {},
         current' \in [Agents -> NoToken..MaxTokens], UNCHANGED told, blurred' \in BOOLEAN,
         turn.pc # "idle", turn.pc = "over" => turn.auth = NoToken /\ turn.copy = NoFile,
         turn.pc = "sent" => turn.copy \in 1..MaxTokens,
         ~blurred' => /\ ~blurred
                      /\ dir'[Actor].creds = dir[Actor].creds
                      /\ turn.pc # "answered" /\ (turn.pc = "writing" => turn.file = "state")
  PROVE  IInv'
<1>1. /\ phase \notin Before
      /\ ~blurred => /\ \A u \in Turns : u # t => turns[u].pc \in {"idle", "over"}
                    /\ Keeps(turns[t], told, dir[Actor].creds)
  BY AtWorkFacts
<1>2. BootInv'
  BY <1>1, BootKept DEF IInv
<1>3. phase' \notin Before
  BY <1>1 DEF boot, startup
<1>4. ~blurred' => Keeps(turn, told', dir'[Actor].creds)
  BY <1>1 DEF Keeps
<1>5. told' \in NoToken..MaxTokens
  BY DEF IInv, TypeOK
<1> QED BY <1>1, <1>2, <1>3, <1>4, <1>5, TurnStep

LEMMA BeginStep ==
  ASSUME IInv, NEW t \in Turns, Begin(t)
  PROVE  IInv'
<1>1. turns[t].pc = "idle" /\ scheduled /\ UNCHANGED <<boot, dir, current, told>>
      /\ blurred' = (blurred \/ AtWork # {})
  BY DEF Begin, Now
<1> DEFINE turn == [turns[t] EXCEPT !.pc = "seeding", !.seed = Content("state")]
<1>2. Content("state") \in Contents /\ Content("creds") \in Contents
  BY ActionsAssumption DEF Content, IInv, BootInv, BootTypeOK, Directories, ActionsAssumption
<1>3. turn \in Turn /\ turn.pc = "seeding"
  BY <1>2 DEF IInv, TypeOK, Turn, States
<1>4. Becomes(t, turn)
  BY DEF Begin
<1> HIDE DEF turn
<1>5. phase \notin Before
  BY <1>1 DEF IInv, BootInv, Followed
<1>6. BootInv'
  BY <1>1, BootKept DEF IInv, BootInv, BootTypeOK
<1>7. ~blurred' => /\ \A u \in Turns : u # t => turns[u].pc \in {"idle", "over"}
                   /\ Keeps(turn, told', dir'[Actor].creds)
  <2> SUFFICES ASSUME ~blurred'
               PROVE  /\ \A u \in Turns : u # t => turns[u].pc \in {"idle", "over"}
                      /\ Keeps(turn, told', dir'[Actor].creds)
    OBVIOUS
  <2>1. ~blurred /\ AtWork = {}
    BY <1>1 DEF IInv, TypeOK
  <2>2. told # NoToken => dir[Actor].creds = told
    BY <2>1 DEF IInv, SavingInv
  <2> QED BY <1>1, <1>3, <2>1, <2>2 DEF AtWork, Keeps
<1>8. phase' \notin Before /\ told' \in NoToken..MaxTokens /\ blurred' \in BOOLEAN
  BY <1>1, <1>5 DEF boot, startup, IInv, TypeOK
<1> QED BY <1>3, <1>4, <1>6, <1>7, <1>8, TurnStep

LEMMA ReadyStep ==
  ASSUME IInv, NEW t \in Turns, Ready(t)
  PROVE  IInv'
<1>1. turns[t].pc = "seeding" /\ UNCHANGED <<boot, dir, current, told, blurred>>
  BY DEF Ready, Now
<1> DEFINE turn == [turns[t] EXCEPT !.pc = "acting", !.seed = NoFile, !.auth = AuthOf(turns[t])]
<1>2. AuthOf(turns[t]) \in NoToken..MaxTokens
  <2>1. Content("creds") \in Contents /\ turns[t].seed \in Contents
    BY ActionsAssumption DEF Content, IInv, TypeOK, Turn, BootInv, BootTypeOK, Directories, ActionsAssumption
  <2>2. handed[Actor] \in NoToken..MaxTokens
    BY ActionsAssumption DEF IInv, BootInv, BootTypeOK, ActionsAssumption
  <2>3. Seed(turns[t]) \in Contents
    BY <2>1 DEF Seed
  <2> QED BY <2>2, <2>3, BootstrapAssumption
       DEF AuthOf, Contents, NoFile, Junk, NoToken, BootstrapAssumption
<1>3. turn \in Turn /\ turn.pc = "acting" /\ turn.copy = turns[t].copy
  BY <1>2, TokensAreContents DEF IInv, TypeOK, Turn, States
<1>4. Becomes(t, turn)
  BY DEF Ready
<1> HIDE DEF turn
<1>5. /\ phase \notin Before
      /\ ~blurred => /\ \A u \in Turns : u # t => turns[u].pc \in {"idle", "over"}
                    /\ Keeps(turns[t], told, dir[Actor].creds)
  BY <1>1, AtWorkFacts
<1>6. BootInv'
  BY <1>1, BootKept DEF IInv, BootInv, BootTypeOK
<1>7. ~blurred' => Keeps(turn, told', dir'[Actor].creds)
  BY <1>1, <1>3, <1>5 DEF Keeps
<1>8. phase' \notin Before /\ told' \in NoToken..MaxTokens /\ blurred' \in BOOLEAN
  BY <1>1, <1>5 DEF boot, startup, IInv, TypeOK
<1> QED BY <1>1, <1>3, <1>4, <1>5, <1>6, <1>7, <1>8, TurnStep

LEMMA StateFacts ==
  ASSUME IInv
  PROVE  /\ dir \in [Agents -> Directories] /\ current \in [Agents -> NoToken..MaxTokens]
         /\ \A f \in Files : Content(f) \in Contents
         /\ told \in NoToken..MaxTokens /\ blurred \in BOOLEAN
         /\ \A t \in Turns : turns[t] \in Turn
         /\ Actor \in Agents
BY ActionsAssumption DEF ActionsAssumption, IInv, TypeOK, BootInv, BootTypeOK, Content, Directories

LEMMA WritableContents == IInv => Writable \subseteq Contents
BY StateFacts, TokensAreContents DEF Writable, Files

LEMMA LookStep ==
  ASSUME IInv, NEW t \in Turns, Look(t)
  PROVE  IInv'
<1>1. turns[t].pc = "acting" /\ turns[t].acts < MaxActions /\ UNCHANGED <<boot, dir, current, told, blurred>>
      /\ Becomes(t, Acted(turns[t], "acting"))
  BY DEF Look, CanAct, Now
<1>2. Acted(turns[t], "acting") \in Turn /\ Acted(turns[t], "acting").pc = "acting"
  BY <1>1, StateFacts, ActedIsTurn DEF States
<1> QED BY <1>1, <1>2, StateFacts, QuietStep

LEMMA EndStep ==
  ASSUME IInv, NEW t \in Turns, End(t)
  PROVE  IInv'
<1>1. turns[t].pc = "acting" /\ UNCHANGED <<boot, dir, current, told, blurred>>
      /\ Becomes(t, [Idle EXCEPT !.pc = "over"])
  BY DEF End, Now
<1>2. /\ [Idle EXCEPT !.pc = "over"] \in Turn
      /\ [Idle EXCEPT !.pc = "over"].pc = "over"
      /\ [Idle EXCEPT !.pc = "over"].auth = NoToken
      /\ [Idle EXCEPT !.pc = "over"].copy = NoFile
  BY TokensAreContents, ActionsAssumption, BootstrapAssumption
     DEF Idle, Turn, States, Files, ActionsAssumption, BootstrapAssumption, NoToken
<1> QED BY <1>1, <1>2, StateFacts, QuietStep

LEMMA SendStep ==
  ASSUME IInv, NEW t \in Turns, Send(t)
  PROVE  IInv'
<1>1. turns[t].pc = "acting" /\ turns[t].acts < MaxActions /\ UNCHANGED <<boot, dir, told, blurred>>
  BY DEF Send, CanAct, Now
<1>2. Acted(turns[t], "acting") \in Turn /\ Acted(turns[t], "acting").pc = "acting"
  BY <1>1, StateFacts, ActedIsTurn DEF States
<1>3. CASE CanIssue({Actor}) /\ current' = Issued({Actor})
           /\ Becomes(t, [Acted(turns[t], "sent") EXCEPT !.copy = current'[Actor]])
  <2> DEFINE turn == [Acted(turns[t], "sent") EXCEPT !.copy = current'[Actor]]
  <2>1. current' \in [Agents -> NoToken..MaxTokens] /\ current'[Actor] \in 1..MaxTokens
    BY <1>3, StateFacts, Issues DEF IInv, BootInv, BootTypeOK
  <2>2. Acted(turns[t], "sent") \in Turn /\ Acted(turns[t], "sent").pc = "sent"
    BY <1>1, StateFacts, ActedIsTurn DEF States
  <2>3. current'[Actor] \in Contents
    BY <2>1, BootstrapAssumption DEF BootstrapAssumption, Contents, NoFile
  <2>4. turn \in Turn /\ turn.pc = "sent" /\ turn.copy = current'[Actor]
    BY <2>2, <2>3 DEF Turn
  <2>5. Becomes(t, turn)
    BY <1>3
  <2> HIDE DEF turn
  <2> QED BY <1>1, <2>1, <2>4, <2>5, StateFacts, QuietStep
<1>4. CASE CanIssue({Actor}) /\ current' = Issued({Actor}) /\ Becomes(t, Acted(turns[t], "acting"))
  <2>1. current' \in [Agents -> NoToken..MaxTokens]
    BY <1>4, StateFacts, Issues DEF IInv, BootInv, BootTypeOK
  <2> QED BY <1>1, <1>2, <1>4, <2>1, StateFacts, QuietStep
<1>5. CASE UNCHANGED current /\ Becomes(t, Acted(turns[t], "acting"))
  BY <1>1, <1>2, <1>5, StateFacts, QuietStep
<1> QED BY <1>3, <1>4, <1>5 DEF Send

LEMMA ReceiveStep ==
  ASSUME IInv, NEW t \in Turns, Receive(t)
  PROVE  IInv'
<1>1. turns[t].pc = "sent" /\ told' = turns[t].copy /\ UNCHANGED <<boot, dir, current, blurred>>
  BY DEF Receive, Now
<1> DEFINE turn == [turns[t] EXCEPT !.pc = "answered", !.auth = turns[t].copy]
<1>2. turns[t].copy \in 1..MaxTokens /\ told' \in NoToken..MaxTokens
  BY <1>1, BootstrapAssumption DEF IInv, TurnsInv, NoToken, BootstrapAssumption
<1>3. turn \in Turn /\ turn.pc = "answered" /\ turn.copy = turns[t].copy
  BY <1>1, <1>2, StateFacts DEF Turn, States
<1>4. Becomes(t, turn)
  BY DEF Receive
<1> HIDE DEF turn
<1>5. /\ phase \notin Before
      /\ ~blurred => \A u \in Turns : u # t => turns[u].pc \in {"idle", "over"}
  BY <1>1, AtWorkFacts
<1>6. BootInv'
  BY <1>1, BootKept DEF IInv, BootInv, BootTypeOK
<1>7. Keeps(turn, told', dir'[Actor].creds)
  BY <1>1, <1>3 DEF Keeps
<1>8. phase' \notin Before /\ blurred' \in BOOLEAN
  BY <1>1, <1>5, StateFacts DEF boot, startup
<1> QED BY <1>1, <1>2, <1>3, <1>4, <1>5, <1>6, <1>7, <1>8, TurnStep

LEMMA PersistStep ==
  ASSUME IInv, NEW t \in Turns, Persist(t)
  PROVE  IInv'
<1>1. turns[t].pc = "answered" /\ UNCHANGED <<boot, current, told>> /\ turns[t] \in Turn
  BY StateFacts DEF Persist, Now
<1>2. turns[t].copy \in Contents
  BY <1>1 DEF Turn
<1>3. /\ phase \notin Before
      /\ ~blurred => /\ \A u \in Turns : u # t => turns[u].pc \in {"idle", "over"}
                    /\ Keeps(turns[t], told, dir[Actor].creds)
  BY <1>1, AtWorkFacts
<1>4. phase' \notin Before /\ told' \in NoToken..MaxTokens
  BY <1>1, <1>3, StateFacts DEF boot, startup
<1>5. CASE Opens(t, turns[t], "creds", turns[t].copy) /\ UNCHANGED blurred
  <2> DEFINE turn == [turns[t] EXCEPT !.pc = "writing", !.file = "creds", !.copy = turns[t].copy]
  <2>1. dir' = Written("creds", NoFile) /\ Becomes(t, turn)
    BY <1>5 DEF Opens
  <2>2. turn \in Turn /\ turn.pc = "writing" /\ turn.file = "creds" /\ turn.copy = turns[t].copy
    BY <1>1, <1>2 DEF Turn, States, Files
  <2> HIDE DEF turn
  <2>3. /\ dir' \in [Agents -> Directories]
        /\ \A b \in Agents : dir[b].parts \subseteq dir'[b].parts
        /\ \A b \in Agents : dir'[b] = dir[b] \/ dir'[b].parts # {}
        /\ dir'[Actor].creds = NoFile
    BY <2>1, StateFacts, TokensAreContents, DirWritten DEF Files
  <2>4. BootInv'
    BY <1>1, <2>3, BootKept, StateFacts DEF IInv
  <2>5. ~blurred' => Keeps(turn, told', dir'[Actor].creds)
    BY <1>1, <1>3, <1>5, <2>2, <2>3 DEF Keeps
  <2> QED BY <1>3, <1>4, <1>5, <2>1, <2>2, <2>4, <2>5, StateFacts, TurnStep
<1>6. CASE Becomes(t, [turns[t] EXCEPT !.pc = "acting", !.copy = NoFile]) /\ blurred' = TRUE /\ UNCHANGED dir
  <2> DEFINE turn == [turns[t] EXCEPT !.pc = "acting", !.copy = NoFile]
  <2>1. turn \in Turn /\ turn.pc = "acting"
    BY <1>1, TokensAreContents DEF Turn, States
  <2>2. Becomes(t, turn)
    BY <1>6
  <2> HIDE DEF turn
  <2>3. BootInv'
    BY <1>1, <1>6, BootKept, StateFacts DEF IInv
  <2> QED BY <1>3, <1>4, <1>6, <2>1, <2>2, <2>3, TurnStep
<1> QED BY <1>5, <1>6 DEF Persist

LEMMA WroteStep ==
  ASSUME IInv, NEW t \in Turns, Wrote(t)
  PROVE  IInv'
<1>1. turns[t].pc = "writing" /\ UNCHANGED <<boot, current, told>> /\ turns[t] \in Turn
  BY StateFacts DEF Wrote, Now
<1>2. turns[t].copy \in Contents /\ turns[t].file \in Files
  BY <1>1 DEF Turn
<1>3. /\ phase \notin Before
      /\ ~blurred => /\ \A u \in Turns : u # t => turns[u].pc \in {"idle", "over"}
                    /\ Keeps(turns[t], told, dir[Actor].creds)
  BY <1>1, AtWorkFacts
<1>4. phase' \notin Before /\ told' \in NoToken..MaxTokens
  BY <1>1, <1>3, StateFacts DEF boot, startup
<1> DEFINE turn == [turns[t] EXCEPT !.pc = "acting", !.file = "creds", !.copy = NoFile]
<1>5. turn \in Turn /\ turn.pc = "acting"
  BY <1>1, TokensAreContents DEF Turn, States, Files
<1>6. Becomes(t, turn)
  BY DEF Wrote
<1> HIDE DEF turn
<1>7. CASE /\ \E content \in {turns[t].copy, IF Content(turns[t].file) = NoFile THEN turns[t].copy ELSE Junk} :
                 dir' = Written(turns[t].file, content)
           /\ UNCHANGED blurred
  <2>1. PICK content \in {turns[t].copy, IF Content(turns[t].file) = NoFile THEN turns[t].copy ELSE Junk} :
            dir' = Written(turns[t].file, content)
    BY <1>7
  <2>2. content \in Contents
    BY <1>2, TokensAreContents
  <2>3. /\ dir' \in [Agents -> Directories]
        /\ \A b \in Agents : dir[b].parts \subseteq dir'[b].parts
        /\ \A b \in Agents : dir'[b] = dir[b] \/ dir'[b].parts # {}
        /\ dir'[Actor].creds = IF turns[t].file = "creds" THEN content ELSE dir[Actor].creds
    BY <1>2, <2>1, <2>2, StateFacts, DirWritten
  <2>4. BootInv'
    BY <1>1, <2>3, BootKept, StateFacts DEF IInv
  <2>5. ~blurred' => Keeps(turn, told', dir'[Actor].creds)
    <3> SUFFICES ASSUME ~blurred', told # NoToken PROVE dir'[Actor].creds = told
      BY <1>1, <1>5 DEF Keeps
    <3>1. CASE turns[t].file = "creds"
      BY <1>1, <1>3, <1>7, <2>1, <2>3, <3>1 DEF Keeps, Content
    <3>2. CASE turns[t].file = "state"
      BY <1>1, <1>3, <1>7, <2>3, <3>2 DEF Keeps
    <3> QED BY <1>2, <3>1, <3>2 DEF Files
  <2> QED BY <1>3, <1>4, <1>5, <1>6, <1>7, <2>4, <2>5, StateFacts, TurnStep
<1>8. CASE blurred' = TRUE /\ UNCHANGED dir
  <2>1. BootInv'
    BY <1>1, <1>8, BootKept, StateFacts DEF IInv
  <2> QED BY <1>3, <1>4, <1>5, <1>6, <1>8, <2>1, TurnStep
<1> QED BY <1>7, <1>8 DEF Wrote

(* The actions on files that an agent takes.                               *)
LEMMA FsStep ==
  ASSUME IInv, NEW t \in Turns, NEW f \in Files, FsWrite(t, f) \/ FsAppend(t, f) \/ FsDelete(t, f)
  PROVE  IInv'
<1>1. turns[t].pc = "acting" /\ turns[t].acts < MaxActions /\ UNCHANGED <<boot, current, told>>
      /\ blurred' = (blurred \/ f = "creds")
  BY DEF FsWrite, FsAppend, FsDelete, CanAct, Now, Touched
<1>2. blurred' \in BOOLEAN /\ (~blurred' => ~blurred /\ f = "state")
  BY <1>1, StateFacts DEF Files
<1>3. ASSUME NEW content \in Contents, dir' = Written(f, content)
      PROVE  /\ dir' \in [Agents -> Directories]
             /\ \A b \in Agents : dir[b].parts \subseteq dir'[b].parts
             /\ \A b \in Agents : dir'[b] = dir[b] \/ dir'[b].parts # {}
             /\ f = "state" => dir'[Actor].creds = dir[Actor].creds
  BY <1>3, StateFacts, DirWritten DEF Files
<1>4. Acted(turns[t], "acting") \in Turn /\ Acted(turns[t], "acting").pc = "acting"
      /\ Acted(turns[t], "writing") \in Turn
  BY <1>1, StateFacts, ActedIsTurn DEF States
<1>5. CASE FsWrite(t, f)
  <2>1. PICK content \in Writable : Opens(t, Acted(turns[t], "writing"), f, content)
    BY <1>5 DEF FsWrite
  <2> DEFINE turn == [Acted(turns[t], "writing") EXCEPT !.pc = "writing", !.file = f, !.copy = content]
  <2>2. content \in Contents
    BY WritableContents
  <2>3. turn \in Turn /\ turn.pc = "writing" /\ turn.file = f
    BY <1>4, <2>2 DEF Turn, States
  <2>4. Becomes(t, turn) /\ dir' = Written(f, NoFile)
    BY <2>1 DEF Opens
  <2> HIDE DEF turn
  <2> QED BY <1>1, <1>2, <1>3, <2>3, <2>4, TokensAreContents, StateFacts, QuietStep
<1>6. CASE FsAppend(t, f)
  <2>1. PICK content \in Writable : dir' = Written(f, IF Content(f) = NoFile THEN content ELSE Junk)
    BY <1>6 DEF FsAppend
  <2>2. (IF Content(f) = NoFile THEN content ELSE Junk) \in Contents
    BY WritableContents, TokensAreContents
  <2>3. Becomes(t, Acted(turns[t], "acting"))
    BY <1>6 DEF FsAppend
  <2> QED BY <1>1, <1>2, <1>3, <1>4, <2>1, <2>2, <2>3, StateFacts, QuietStep
<1>7. CASE FsDelete(t, f)
  <2>1. dir' = Written(f, NoFile) /\ Becomes(t, Acted(turns[t], "acting"))
    BY <1>7 DEF FsDelete
  <2> QED BY <1>1, <1>2, <1>3, <1>4, <2>1, TokensAreContents, StateFacts, QuietStep
<1> QED BY <1>5, <1>6, <1>7

LEMMA EditStep ==
  ASSUME IInv, NEW t \in Turns, (\E f \in Files : FsEdit(t, f)) \/ FsEdited(t)
  PROVE  IInv'
<1>1. CASE \E f \in Files : FsEdit(t, f)
  <2>1. PICK f \in Files : FsEdit(t, f)
    BY <1>1
  <2>2. turns[t].pc = "acting" /\ turns[t].acts < MaxActions /\ UNCHANGED <<boot, dir, current, told, blurred>>
    BY <2>1 DEF FsEdit, CanAct, Now
  <2> DEFINE turn == [Acted(turns[t], "editing") EXCEPT !.file = f, !.copy = Content(f)]
  <2>3. Acted(turns[t], "editing") \in Turn /\ Acted(turns[t], "editing").pc = "editing"
    BY <2>2, StateFacts, ActedIsTurn DEF States
  <2>4. turn \in Turn /\ turn.pc = "editing"
    BY <2>3, StateFacts DEF Turn
  <2>5. Becomes(t, turn)
    BY <2>1 DEF FsEdit
  <2> HIDE DEF turn
  <2> QED BY <2>2, <2>4, <2>5, StateFacts, QuietStep
<1>2. CASE FsEdited(t)
  <2>1. turns[t].pc = "editing" /\ UNCHANGED <<boot, current, told>>
        /\ blurred' = (blurred \/ turns[t].file = "creds") /\ turns[t] \in Turn
    BY <1>2, StateFacts DEF FsEdited, Now, Touched
  <2>2. turns[t].file \in Files /\ turns[t].copy \in Contents
    BY <2>1 DEF Turn
  <2>3. PICK content \in Writable \cup {turns[t].copy} : Opens(t, turns[t], turns[t].file, content)
    BY <1>2 DEF FsEdited
  <2>4. content \in Contents
    BY <2>2, WritableContents
  <2> DEFINE turn == [turns[t] EXCEPT !.pc = "writing", !.file = turns[t].file, !.copy = content]
  <2>5. turn \in Turn /\ turn.pc = "writing" /\ turn.file = turns[t].file
    BY <2>1, <2>2, <2>4 DEF Turn, States
  <2>6. Becomes(t, turn) /\ dir' = Written(turns[t].file, NoFile)
    BY <2>3 DEF Opens
  <2> HIDE DEF turn
  <2>7. /\ dir' \in [Agents -> Directories]
        /\ \A b \in Agents : dir[b].parts \subseteq dir'[b].parts
        /\ \A b \in Agents : dir'[b] = dir[b] \/ dir'[b].parts # {}
        /\ turns[t].file = "state" => dir'[Actor].creds = dir[Actor].creds
    BY <2>2, <2>6, TokensAreContents, StateFacts, DirWritten DEF Files
  <2>8. blurred' \in BOOLEAN /\ (~blurred' => ~blurred /\ turns[t].file = "state")
    BY <2>1, <2>2, StateFacts DEF Files
  <2> QED BY <2>1, <2>5, <2>6, <2>7, <2>8, StateFacts, QuietStep
<1> QED BY <1>1, <1>2

LEMMA TurnNextStep == IInv /\ TurnNext => IInv'
BY BeginStep, ReadyStep, LookStep, SendStep, ReceiveStep, PersistStep, EditStep, WroteStep, EndStep, FsStep
   DEF TurnNext

-----------------------------------------------------------------------------
(* What happens besides.                                                   *)

LEMMA LostStep == IInv /\ Lost => IInv'
<1> SUFFICES ASSUME IInv, Lost PROVE IInv'
  OBVIOUS
<1>1. BootInv' /\ UNCHANGED <<phase, dir>>
  BY CrashStep DEF Lost, IInv, Crash, startup
<1>2. UNCHANGED told
      /\ blurred' = (blurred \/ \E t \in Turns : turns[t].pc \in {"answered", "writing"})
  BY DEF Lost
<1> DEFINE over == [Idle EXCEPT !.pc = "over"]
<1>3. over \in Turn /\ over.pc = "over" /\ over.auth = NoToken /\ over.copy = NoFile
  BY TokensAreContents, ActionsAssumption, BootstrapAssumption
     DEF Idle, Turn, States, Files, ActionsAssumption, BootstrapAssumption, NoToken
<1>4. turns' = [t \in Turns |-> IF Now(t, "idle") THEN turns[t] ELSE over]
  BY DEF Lost
<1> HIDE DEF over
<1>5. turns' \in [Turns -> Turn] /\ \A t \in Turns : turns'[t] = IF turns[t].pc = "idle" THEN turns[t] ELSE over
  BY <1>3, <1>4, StateFacts DEF Now
<1>6. AtWork' = {}
  BY <1>3, <1>5 DEF AtWork
<1>7. TypeOK'
  <2>1. \A t \in Turns : turns'[t].auth = NoToken /\ turns'[t].copy = NoFile
    BY <1>3, <1>5 DEF IInv, TypeOK, AtWork
  <2> QED BY <1>1, <1>2, <1>5, <2>1, StateFacts DEF TypeOK, BootInv
<1>8. TurnsInv'
  BY <1>1, <1>3, <1>5 DEF IInv, TurnsInv
<1>9. SavingInv'
  <2> SUFFICES ASSUME ~blurred', told # NoToken PROVE dir[Actor].creds = told
    BY <1>1, <1>2, <1>6 DEF SavingInv
  <2>1. ~blurred /\ \A t \in Turns : turns[t].pc \notin {"answered", "writing"}
    BY <1>2, StateFacts
  <2>2. CASE AtWork = {}
    BY <2>1, <2>2 DEF IInv, SavingInv
  <2>3. CASE AtWork # {}
    BY <2>1, <2>3 DEF IInv, SavingInv, Keeps, AtWork
  <2> QED BY <2>2, <2>3
<1> QED BY <1>1, <1>7, <1>8, <1>9 DEF IInv

(* The launcher leaves the tokens of an agent as they are, or the agent    *)
(* with nothing.                                                           *)
LEMMA LauncherFiles ==
  ASSUME IInv, Startup \/ Launcher
  PROVE  dir'[Actor].creds = dir[Actor].creds \/ (Exists(Actor) /\ dir'[Actor] = Gone)
<1>1. dir \in [Agents -> Directories] /\ Actor \in Agents
  BY StateFacts
<1>2. ASSUME NEW a \in Agents, NEW part \in Parts, dir' = With(a, part)
      PROVE  dir'[Actor].creds = dir[Actor].creds
  BY <1>1, <1>2, DirGrows
<1>3. ASSUME NEW a \in Agents, dir' = [dir EXCEPT ![a] = Gone]
      PROVE  dir'[Actor].creds = dir[Actor].creds \/ (Exists(Actor) /\ dir'[Actor] = Gone)
  <2>1. CASE a # Actor
    BY <1>1, <1>3, <2>1
  <2>2. CASE a = Actor /\ Exists(Actor)
    BY <1>1, <1>3, <2>2
  <2>3. CASE a = Actor /\ ~Exists(Actor)
    <3>1. dir[Actor] = Gone
      BY <1>1, <2>3 DEF IInv, BootInv, NothingInGone, Exists
    <3> QED BY <1>1, <1>3, <2>3, <3>1
  <2> QED BY <2>1, <2>2, <2>3
<1>4. CASE Startup
  BY <1>4 DEF Startup, Health, Answered, GiveUp, Register, RegisterFails, Check, Start, launcher
<1>5. CASE Launcher
  <2>1. PICK a \in Agents :
          Create(a) \/ ClientCreate(a) \/ ClientDelete(a) \/ ClientInstall(a)
          \/ \E c \in Callers : Fill(c, a) \/ Configure(c, a) \/ Skill(c, a) \/ Finish(c, a)
    BY <1>5 DEF Launcher
  <2>2. UNCHANGED dir \/ dir' = [dir EXCEPT ![a] = Gone] \/ \E part \in Parts : dir' = With(a, part)
    BY <2>1 DEF Create, ClientCreate, Make, ClientDelete, ClientInstall, Fill, Configure, Skill, Finish, Parts
  <2> QED BY <1>2, <1>3, <2>2
<1> QED BY <1>4, <1>5

LEMMA OtherStep == IInv /\ Other => IInv'
<1> SUFFICES ASSUME IInv, Other PROVE IInv'
  OBVIOUS
<1>1. BootInv'
  BY StartupStep, LauncherStep DEF Other, IInv
<1>2. UNCHANGED <<turns, told>> /\ blurred' = (blurred \/ (Exists(Actor) /\ dir'[Actor] = Gone))
  BY DEF Other
<1>3. phase' \in Before => phase \in Before
  BY DEF Other, Startup, Launcher, Health, Answered, GiveUp, NoAnswer, Register, RegisterFails, Check, Start,
     Fails, Create, ClientCreate, ClientDelete, ClientInstall, Fill, Configure, Skill, Finish, startup, Before
<1>4. TypeOK'
  BY <1>1, <1>2 DEF BootInv, IInv, TypeOK, AtWork
<1>5. TurnsInv'
  BY <1>2, <1>3 DEF IInv, TurnsInv
<1>6. SavingInv'
  <2> SUFFICES ASSUME ~blurred' PROVE SavingInv'
    BY DEF SavingInv
  <2>1. ~blurred /\ dir'[Actor].creds = dir[Actor].creds
    BY <1>2, LauncherFiles, StateFacts DEF Other
  <2> QED BY <1>2, <2>1 DEF IInv, SavingInv, Keeps, AtWork
<1> QED BY <1>1, <1>4, <1>5, <1>6 DEF IInv

-----------------------------------------------------------------------------
LEMMA Starts == ActionsInit => IInv
<1> SUFFICES ASSUME ActionsInit PROVE IInv
  OBVIOUS
<1> USE DEF ActionsInit, Init
<1>1. InProgress = {}
  BY DEF InProgress, Job, Settled, Callers
<1>2. Cardinality(InProgress) <= Concurrency
  BY <1>1, FS_EmptySet, BootstrapAssumption DEF BootstrapAssumption
<1>3. 0 \in NoToken..MaxTokens /\ 0 \in 0..MaxVisits /\ 0 \in 0..MaxCrashes /\ 0 \in 0..MaxActions
  BY BootstrapAssumption, ActionsAssumption DEF BootstrapAssumption, ActionsAssumption, NoToken
<1>4. BootTypeOK
  BY <1>2, <1>3, GoneIsDirectory DEF BootTypeOK, Phases, JobStates, NoToken
<1>5. Staged /\ CreatedOnce
  BY DEF Staged, CreatedOnce, Job, Makes, Callers
<1>6. NothingInGone /\ Followed
  BY DEF NothingInGone, Followed, Before
<1>7. Idle \in Turn /\ Idle.pc = "idle" /\ Idle.auth = NoToken /\ Idle.copy = NoFile
  BY <1>3, TokensAreContents DEF Idle, Turn, States, Files, NoToken
<1>8. TypeOK
  BY <1>3, <1>4, <1>7 DEF TypeOK, NoToken
<1>9. TurnsInv /\ SavingInv
  BY <1>7 DEF TurnsInv, SavingInv, AtWork, Keeps
<1> QED BY <1>4, <1>5, <1>6, <1>8, <1>9 DEF IInv, BootInv

LEMMA Stutters == IInv /\ UNCHANGED vars => IInv'
BY DEF vars, bootVars, startup, launcher, bounds, IInv, TypeOK, BootInv, BootTypeOK, InProgress, Job, Staged,
       CreatedOnce, NothingInGone, Followed, Known, TurnsInv, SavingInv, AtWork, Keeps

LEMMA Invariance == Spec => []IInv
<1>1. IInv /\ [Next]_vars => IInv'
  BY OtherStep, TurnNextStep, LostStep, Stutters DEF Next
<1> QED BY <1>1, Starts, PTL DEF Spec

(* The values the variables take, and only a turn at work holds a token.   *)
THEOREM TypeCorrect == Spec => []TypeOK
<1>1. IInv => TypeOK
  BY DEF IInv
<1> QED BY <1>1, Invariance, PTL

(* Of two creations of an agent that was not deleted at most one gets past *)
(* the look at its directory, for any concurrency, and after restarts.     *)
THEOREM AgentsCreatedOnce == Spec => []CreatedOnce
<1>1. IInv => CreatedOnce
  BY DEF IInv, BootInv
<1> QED BY <1>1, Invariance, PTL

(* The token of the last registration that was answered is saved in the    *)
(* workspace, for any number of turns, unless one of the things that       *)
(* blurred names happened.                                                 *)
THEOREM RegistrationsAreSaved == Spec => []SavedForLater
<1>1. IInv => SavedForLater
  <2> SUFFICES ASSUME IInv, told # NoToken, ~blurred,
                      \A t \in Turns : turns[t].pc \notin {"answered", "writing"}
               PROVE  dir[Actor].creds = told
    BY DEF SavedForLater, Content
  <2>1. CASE AtWork = {}
    BY <2>1 DEF IInv, SavingInv
  <2>2. CASE AtWork # {}
    BY <2>2 DEF IInv, SavingInv, Keeps, AtWork
  <2> QED BY <2>1, <2>2
<1> QED BY <1>1, Invariance, PTL

(* The scheduler is started only for a run whose agents are all made       *)
(* whole, and registered if they were to be, whatever failed, timed out,   *)
(* restarted or interfered on the way.                                     *)
THEOREM RunsStartWhole == Spec => StartsWhole
<1>1. IInv /\ [Next]_vars => [~scheduled /\ scheduled' => AllReady]_bootVars
  <2> SUFFICES ASSUME IInv, [Next]_vars, ~scheduled, scheduled' PROVE AllReady
    OBVIOUS
  <2>1. BootInv
    BY DEF IInv
  <2>2. CASE Other
    <3>1. Start
      BY <2>2 DEF Other, Startup, Launcher, Health, Answered, GiveUp, Register, RegisterFails, Check,
         Create, ClientCreate, ClientDelete, ClientInstall, Fill, Configure, Skill, Finish, launcher
    <3> QED BY <2>1, <3>1, StartsReady
  <2>3. CASE TurnNext
    BY <2>3 DEF TurnNext, Begin, Ready, Look, Send, Receive, Persist, Wrote, FsWrite, FsAppend, FsDelete,
       FsEdit, FsEdited, End, boot
  <2>4. CASE Lost
    BY <2>4 DEF Lost, Crash
  <2>5. CASE UNCHANGED vars
    BY <2>5 DEF vars, bootVars, launcher
  <2> QED BY <2>2, <2>3, <2>4, <2>5 DEF Next
<1> QED BY <1>1, Invariance, PTL DEF StartsWhole, Spec
=============================================================================
