---------------------------- MODULE Stacks_proofs ----------------------------
(***************************************************************************)
(* Proofs about Stacks, for any runs, environments, number of waiting      *)
(* start requests and restarts: its invariants, and that it implements     *)
(* StackService.  The invariant that carries them is Agreement: an entry   *)
(* that says "stopped" is about a run without containers, although the     *)
(* status is also written by start requests that were overtaken.           *)
(***************************************************************************)
EXTENDS Stacks, TLAPS

RunStatuses == {"absent", "starting", "running", "stopped", "error"}

Agreement ==
    /\ \A k \in Keys : entry[k].status = "absent" => entry[k] = Missing
    /\ \A r \in Runs : /\ entry[r].status \in RunStatuses
                       /\ entry[r].status = "stopped" => docker[r] = "down"

IInv == TypeOK /\ Agreement /\ NothingForgotten

(* A step that leaves all but one key alone keeps the invariant when the   *)
(* key is left in an agreeing state.                                       *)
AgreesAt(k) ==
    /\ entry'[k] \in Entry /\ docker'[k] \in Presence
    /\ entry'[k].status = "absent" => entry'[k] = Missing
    /\ k \in Runs => /\ entry'[k].status \in RunStatuses
                     /\ entry'[k].status = "stopped" => docker'[k] = "down"
    /\ k \in Envs => /\ saved'[k] \in Statuses
                     /\ entry'[k] # Missing => saved'[k] # "absent"

OnlyAt(k) ==
    /\ entry'  = [entry EXCEPT ![k] = entry'[k]]
    /\ docker' = [docker EXCEPT ![k] = docker'[k]]
    /\ saved'  = [e \in Envs |-> IF e = k THEN saved'[k] ELSE saved[e]]

LEMMA OneKeyStep ==
    ASSUME IInv, NEW k \in Keys, OnlyAt(k), AgreesAt(k),
           starts' \in [Starters -> Keys \cup {NoKey}],
           up' \in BOOLEAN, crashes' \in 0..MaxCrashes,
           event' \in Events
    PROVE  IInv'
<1>1. entry' \in [Keys -> Entry] /\ docker' \in [Keys -> Presence]
  BY DEF OnlyAt, AgreesAt, IInv, TypeOK
<1>2. \A j \in Keys : j # k => entry'[j] = entry[j] /\ docker'[j] = docker[j]
  BY DEF OnlyAt, IInv, TypeOK
<1>3. \A e \in Envs : e # k => saved'[e] = saved[e]
  BY DEF OnlyAt
<1>4. saved' \in [Envs -> Statuses]
  BY DEF OnlyAt, AgreesAt, IInv, TypeOK
<1>5. TypeOK'
  BY <1>1, <1>4 DEF TypeOK
<1>6. Agreement'
  BY <1>1, <1>2 DEF AgreesAt, IInv, Agreement, Keys
<1>7. NothingForgotten'
  BY <1>2, <1>3 DEF AgreesAt, IInv, NothingForgotten, Keys
<1> QED BY <1>5, <1>6, <1>7 DEF IInv

(* A step that writes the entry and the containers of one key.             *)
LEMMA PutStep ==
    ASSUME IInv, NEW k \in Keys, NEW e \in Entry, NEW after \in Presence,
           Put(k, e), Containers(k, after),
           e.status = "absent" => e = Missing,
           k \in Runs => /\ e.status \in RunStatuses
                         /\ e.status = "stopped" => after = "down"
    PROVE  OnlyAt(k) /\ AgreesAt(k)
<1>1. /\ entry'[k] = e /\ docker'[k] = after
      /\ entry' = [entry EXCEPT ![k] = entry'[k]]
      /\ docker' = [docker EXCEPT ![k] = docker'[k]]
  BY DEF Put, Containers, IInv, TypeOK
<1>2. saved' = [f \in Envs |-> IF f = k THEN saved'[k] ELSE saved[f]]
  BY DEF Put, IInv, TypeOK
<1>3. k \in Envs => saved'[k] = e.status
  BY DEF Put, IInv, TypeOK
<1>4. e.status \in Statuses
  BY DEF Entry
<1> QED BY <1>1, <1>2, <1>3, <1>4 DEF OnlyAt, AgreesAt

(* A step that changes no entry and, of the containers, at most creates    *)
(* none: containers of one key may go.                                     *)
LEMMA KeepStep ==
    ASSUME IInv, NEW k \in Keys, NEW after \in {docker[k], "down"},
           UNCHANGED <<entry, saved>>, Containers(k, after)
    PROVE  OnlyAt(k) /\ AgreesAt(k)
<1>1. docker'[k] = after /\ docker' = [docker EXCEPT ![k] = docker'[k]] /\ after \in Presence
  BY DEF Containers, IInv, TypeOK, Presence
<1>2. entry' = [entry EXCEPT ![k] = entry'[k]] /\ entry'[k] = entry[k]
  BY DEF IInv, TypeOK
<1>3. saved' = [f \in Envs |-> IF f = k THEN saved'[k] ELSE saved[f]]
  BY DEF IInv, TypeOK
<1> QED BY <1>1, <1>2, <1>3
        DEF OnlyAt, AgreesAt, IInv, TypeOK, Agreement, NothingForgotten

LEMMA Same ==
    ASSUME IInv, NEW k \in Keys, UNCHANGED docker
    PROVE  Containers(k, docker[k]) /\ docker[k] \in Presence
BY DEF Containers, IInv, TypeOK

LEMMA ServeType ==
    ASSUME NEW k \in Keys, NEW op \in Operations, NEW result \in Answers,
           Serve(op, k, result)
    PROVE  event' \in Events
BY DEF Serve, Service!Silent, Events

LEMMA QuietType == ASSUME Quietly PROVE event' \in Events
BY DEF Quietly, Service!Silent, Events

-----------------------------------------------------------------------------
(* One lemma per action.                                                   *)

LEMMA StartStep ==
    ASSUME IInv, NEW k \in Keys, NEW h \in Starters, Start(k, h)
    PROVE  IInv'
<1>1. /\ UNCHANGED <<up, crashes>> /\ up \in BOOLEAN /\ crashes \in 0..MaxCrashes
      /\ starts \in [Starters -> Keys \cup {NoKey}] /\ entry[k] \in Entry
      /\ docker[k] \in Presence
  BY DEF Start, IInv, TypeOK
<1>2. CASE entry[k].status = "running"
  <2>1. UNCHANGED <<entry, saved, docker, starts>> /\ Serve("launch", k, "running")
    BY <1>2 DEF Start
  <2>2. OnlyAt(k) /\ AgreesAt(k)
    BY <2>1, Same, KeepStep
  <2> QED BY <1>1, <2>1, <2>2, OneKeyStep, ServeType DEF Operations, Answers
<1>3. ASSUME Put(k, [status |-> "starting", owner |-> h]), Containers(k, "up"),
             starts' = [starts EXCEPT ![h] = k], Serve("launch", k, "started")
      PROVE  IInv'
  <2>1. [status |-> "starting", owner |-> h] \in Entry
    BY DEF Entry, Statuses
  <2>2. OnlyAt(k) /\ AgreesAt(k)
    BY <1>3, <2>1, PutStep DEF Presence, RunStatuses
  <2>3. starts' \in [Starters -> Keys \cup {NoKey}]
    BY <1>1, <1>3
  <2> QED BY <1>1, <1>3, <2>2, <2>3, OneKeyStep, ServeType DEF Operations, Answers
<1>4. ASSUME NEW after \in {docker[k], "up"},
             Put(k, [status |-> "error", owner |-> NoStart]), Containers(k, after),
             Serve("launch", k, "refused"), UNCHANGED starts
      PROVE  IInv'
  <2>1. [status |-> "error", owner |-> NoStart] \in Entry /\ after \in Presence
    BY <1>1 DEF Entry, Statuses, Presence
  <2>2. OnlyAt(k) /\ AgreesAt(k)
    BY <1>4, <2>1, PutStep DEF RunStatuses
  <2> QED BY <1>1, <1>4, <2>2, OneKeyStep, ServeType DEF Operations, Answers
<1>5. CASE RejectStart(k)
  <2>1. UNCHANGED <<docker, starts>> /\ Serve("launch", k, "refused")
    BY <1>5 DEF RejectStart
  <2>2. OnlyAt(k) /\ AgreesAt(k)
    <3>1. CASE k \in Runs
      <4>1. Put(k, [status |-> "starting", owner |-> NoStart])
        BY <1>5, <3>1 DEF RejectStart
      <4>2. [status |-> "starting", owner |-> NoStart] \in Entry
        BY DEF Entry, Statuses
      <4> QED BY <2>1, <4>1, <4>2, Same, PutStep DEF RunStatuses
    <3>2. CASE k \notin Runs /\ entry[k] = Missing
      BY <1>5, <2>1, <3>2, Same, KeepStep DEF RejectStart
    <3>3. CASE k \notin Runs /\ entry[k] # Missing
      <4>1. Put(k, [entry[k] EXCEPT !.status = "error"])
        BY <1>5, <3>3 DEF RejectStart, Mark
      <4>2. /\ [entry[k] EXCEPT !.status = "error"] \in Entry
            /\ [entry[k] EXCEPT !.status = "error"].status = "error"
        BY <1>1 DEF Entry, Statuses
      <4> QED BY <2>1, <3>3, <4>1, <4>2, Same, PutStep
    <3> QED BY <3>1, <3>2, <3>3
  <2> QED BY <1>1, <2>1, <2>2, OneKeyStep, ServeType DEF Operations, Answers
<1> QED BY <1>2, <1>3, <1>4, <1>5 DEF Start, StartOver

LEMMA FinishStartStep ==
    ASSUME IInv, NEW h \in Starters, FinishStart(h)
    PROVE  IInv'
<1> DEFINE k == starts[h]
<1>1. k \in Keys /\ UNCHANGED <<docker, up, crashes>> /\ Quietly
  BY DEF FinishStart, IInv, TypeOK
<1>2. /\ starts' \in [Starters -> Keys \cup {NoKey}] /\ up' \in BOOLEAN
      /\ crashes' \in 0..MaxCrashes /\ entry[k] \in Entry
  BY <1>1 DEF FinishStart, IInv, TypeOK
<1>3. OnlyAt(k) /\ AgreesAt(k)
  <2>1. ASSUME NEW status \in Settled(k),
               entry' = IF entry[k].owner = h
                        THEN [entry EXCEPT ![k] = [status |-> status, owner |-> NoStart]]
                        ELSE entry,
               saved' = IF k \in Envs THEN [saved EXCEPT ![k] = status] ELSE saved
        PROVE  OnlyAt(k) /\ AgreesAt(k)
    <3>1. /\ status \in {"running", "unhealthy"}
          /\ [status |-> status, owner |-> NoStart] \in Entry
          /\ k \in Runs => status = "running"
      BY <2>1 DEF Settled, Entry, Statuses
    <3>2. /\ entry' = [entry EXCEPT ![k] = entry'[k]]
          /\ entry'[k] = entry[k]
                \/ entry'[k] = [status |-> status, owner |-> NoStart]
      BY <1>1, <2>1 DEF IInv, TypeOK
    <3>3. /\ saved' = [e \in Envs |-> IF e = k THEN saved'[k] ELSE saved[e]]
          /\ k \in Envs => saved'[k] = status
      BY <2>1 DEF IInv, TypeOK
    <3>4. docker' = [docker EXCEPT ![k] = docker'[k]] /\ docker'[k] = docker[k]
      BY <1>1 DEF IInv, TypeOK
    <3> QED BY <1>1, <1>2, <3>1, <3>2, <3>3, <3>4
            DEF OnlyAt, AgreesAt, IInv, TypeOK, Agreement, RunStatuses, Statuses
  <2>2. CASE k \in Envs /\ entry[k] = Missing /\ UNCHANGED <<entry, saved>>
    BY <1>1, <2>2, Same, KeepStep
  <2>3. ASSUME k \in Envs, entry[k] # Missing,
               Put(k, [status |-> "error",
                       owner |-> IF entry[k].owner = h THEN NoStart ELSE entry[k].owner])
        PROVE  OnlyAt(k) /\ AgreesAt(k)
    <3> DEFINE e == [status |-> "error",
                     owner |-> IF entry[k].owner = h THEN NoStart ELSE entry[k].owner]
    <3>1. e \in Entry /\ e.status = "error"
      BY <1>2 DEF Entry, Statuses
    <3>2. k \notin Runs
      BY <2>3, StacksAssumption
    <3> HIDE DEF e
    <3> QED BY <1>1, <2>3, <3>1, <3>2, Same, PutStep DEF e
  <2> QED BY <2>1, <2>2, <2>3 DEF FinishStart
<1> QED BY <1>1, <1>2, <1>3, OneKeyStep, QuietType

(* The parts of the frame the stop, delete and status requests share.      *)
LEMMA RequestFrame ==
    ASSUME IInv, NEW k \in Keys, UNCHANGED <<starts, up, crashes>>,
           OnlyAt(k), AgreesAt(k), event' \in Events
    PROVE  IInv'
BY OneKeyStep DEF IInv, TypeOK

LEMMA TearDownStep ==
    ASSUME IInv, NEW k \in Keys, entry[k] # Missing, TearDown(k)
    PROVE  OnlyAt(k) /\ AgreesAt(k) /\ event' \in Events
<1>1. ASSUME Containers(k, "down"), Mark(k, "stopped"), Serve("stop", k, "success")
      PROVE  OnlyAt(k) /\ AgreesAt(k) /\ event' \in Events
  <2>1. /\ [entry[k] EXCEPT !.status = "stopped"] \in Entry
        /\ [entry[k] EXCEPT !.status = "stopped"].status = "stopped"
    BY DEF Entry, Statuses, IInv, TypeOK
  <2>2. OnlyAt(k) /\ AgreesAt(k)
    BY <1>1, <2>1, PutStep DEF Mark, Presence, RunStatuses
  <2> QED BY <1>1, <2>2, ServeType DEF Operations, Answers
<1>2. ASSUME NEW after \in {docker[k], "down"}, Containers(k, after),
             UNCHANGED <<entry, saved>>, Serve("stop", k, "failed")
      PROVE  OnlyAt(k) /\ AgreesAt(k) /\ event' \in Events
  BY <1>2, KeepStep, ServeType DEF Operations, Answers
<1> QED BY <1>1, <1>2 DEF TearDown

LEMMA StopRunStep ==
    ASSUME IInv, NEW r \in Runs, StopRun(r)
    PROVE  IInv'
<1>1. r \in Keys /\ UNCHANGED <<starts, up, crashes>>
  BY DEF StopRun, Keys
<1>2. CASE entry[r] # Missing /\ TearDown(r)
  BY <1>1, <1>2, TearDownStep, RequestFrame
<1>3. ASSUME Containers(r, "down"), Put(r, [Missing EXCEPT !.status = "stopped"]),
             Serve("stop", r, "success")
      PROVE  IInv'
  <2>1. /\ [Missing EXCEPT !.status = "stopped"] \in Entry
        /\ [Missing EXCEPT !.status = "stopped"].status = "stopped"
    BY DEF Entry, Statuses, Missing
  <2>2. OnlyAt(r) /\ AgreesAt(r)
    BY <1>1, <1>3, <2>1, PutStep DEF Presence, RunStatuses
  <2> QED BY <1>1, <1>3, <2>2, RequestFrame, ServeType DEF Operations, Answers
<1>4. ASSUME NEW after \in {docker[r], "down"}, Containers(r, after),
             Put(r, [Missing EXCEPT !.status = "running"]), Serve("stop", r, "failed")
      PROVE  IInv'
  <2>1. /\ [Missing EXCEPT !.status = "running"] \in Entry
        /\ [Missing EXCEPT !.status = "running"].status = "running"
    BY DEF Entry, Statuses, Missing
  <2>2. after \in Presence
    BY <1>1 DEF Presence, IInv, TypeOK
  <2>3. OnlyAt(r) /\ AgreesAt(r)
    BY <1>1, <1>4, <2>1, <2>2, PutStep DEF RunStatuses
  <2> QED BY <1>1, <1>4, <2>3, RequestFrame, ServeType DEF Operations, Answers
<1>5. CASE /\ Serve("stop", r, "missing") \/ Serve("stop", r, "failed")
           /\ UNCHANGED <<entry, saved, docker>>
  <2>1. OnlyAt(r) /\ AgreesAt(r)
    BY <1>1, <1>5, Same, KeepStep
  <2> QED BY <1>1, <1>5, <2>1, RequestFrame, ServeType DEF Operations, Answers
<1> QED BY <1>2, <1>3, <1>4, <1>5 DEF StopRun

LEMMA DeleteRunStep ==
    ASSUME IInv, NEW r \in Runs, DeleteRun(r)
    PROVE  IInv'
<1>1. r \in Keys /\ UNCHANGED <<starts, up, crashes>>
  BY DEF DeleteRun, Keys
<1>2. ASSUME Containers(r, "down"), Put(r, Missing), Serve("delete", r, "success")
      PROVE  IInv'
  <2>1. Missing \in Entry /\ Missing.status = "absent"
    BY DEF Entry, Statuses, Missing
  <2>2. OnlyAt(r) /\ AgreesAt(r)
    BY <1>1, <1>2, <2>1, PutStep DEF Presence, RunStatuses
  <2> QED BY <1>1, <1>2, <2>2, RequestFrame, ServeType DEF Operations, Answers
<1>3. ASSUME NEW after \in {docker[r], "down"}, Containers(r, after),
             UNCHANGED <<entry, saved>>,
             \E result \in {"failed", "missing", "success"} : Serve("delete", r, result)
      PROVE  IInv'
  <2>1. event' \in Events
    BY <1>1, <1>3, ServeType DEF Operations, Answers
  <2> QED BY <1>1, <1>3, <2>1, KeepStep, RequestFrame
<1> QED BY <1>2, <1>3 DEF DeleteRun

LEMMA StopEnvStep ==
    ASSUME IInv, NEW e \in Envs, StopEnv(e)
    PROVE  IInv'
<1>1. e \in Keys /\ UNCHANGED <<starts, up, crashes>> /\ entry[e] # Missing /\ TearDown(e)
  BY DEF StopEnv, Keys
<1> QED BY <1>1, TearDownStep, RequestFrame

LEMMA RefreshStep ==
    ASSUME IInv, NEW e \in Envs, entry[e] # Missing, NEW status \in Refreshed(e),
           NEW after \in {docker[e], "down"}, Containers(e, after), Refresh(e, status)
    PROVE  OnlyAt(e) /\ AgreesAt(e)
<1>1. e \in Keys /\ e \notin Runs
  BY StacksAssumption DEF Keys
<1>2. after \in Presence
  BY <1>1 DEF Presence, IInv, TypeOK
<1>3. CASE status = entry[e].status
  BY <1>1, <1>3, KeepStep DEF Refresh
<1>4. CASE status # entry[e].status
  <2>1. status \in {"stopped", "unhealthy"}
    BY <1>4 DEF Refreshed
  <2>2. /\ [entry[e] EXCEPT !.status = status] \in Entry
        /\ [entry[e] EXCEPT !.status = status].status = status
    BY <1>1, <2>1 DEF Entry, Statuses, IInv, TypeOK
  <2>3. Put(e, [entry[e] EXCEPT !.status = status])
    BY <1>4 DEF Refresh, Mark
  <2> QED BY <1>1, <1>2, <2>1, <2>2, <2>3, PutStep
<1> QED BY <1>3, <1>4

LEMMA EnvStatusStep ==
    ASSUME IInv, NEW e \in Envs, EnvStatus(e)
    PROVE  IInv'
<1>1. e \in Keys /\ UNCHANGED <<docker, starts, up, crashes>> /\ entry[e] # Missing /\ Quietly
  BY DEF EnvStatus, Keys
<1>2. PICK status \in Refreshed(e) : Refresh(e, status)
  BY DEF EnvStatus
<1>3. OnlyAt(e) /\ AgreesAt(e)
  BY <1>1, <1>2, Same, RefreshStep
<1> QED BY <1>1, <1>3, RequestFrame, QuietType

LEMMA DeleteEnvStep ==
    ASSUME IInv, NEW e \in Envs, DeleteEnv(e)
    PROVE  IInv'
<1>1. /\ e \in Keys /\ e \notin Runs
      /\ UNCHANGED <<starts, up, crashes>> /\ entry[e] # Missing /\ Quietly
  BY StacksAssumption DEF DeleteEnv, Keys
<1>2. Missing \in Entry /\ Missing.status = "absent"
  BY DEF Entry, Statuses, Missing
<1>3. PICK status \in Refreshed(e) :
        \/ /\ Containers(e, "down") /\ Put(e, Missing)
        \/ /\ \E after \in {docker[e], "down"} : Containers(e, after)
           /\ Refresh(e, status)
        \/ Put(e, Missing) /\ UNCHANGED docker
  BY DEF DeleteEnv
<1>4. CASE Containers(e, "down") /\ Put(e, Missing)
  <2>1. OnlyAt(e) /\ AgreesAt(e)
    BY <1>1, <1>2, <1>4, PutStep DEF Presence
  <2> QED BY <1>1, <2>1, RequestFrame, QuietType
<1>5. ASSUME NEW after \in {docker[e], "down"}, Containers(e, after), Refresh(e, status)
      PROVE  IInv'
  BY <1>1, <1>5, RefreshStep, RequestFrame, QuietType
<1>6. CASE Put(e, Missing) /\ UNCHANGED docker
  <2>1. Containers(e, docker[e]) /\ docker[e] \in Presence
    BY <1>1, <1>6, Same
  <2>2. OnlyAt(e) /\ AgreesAt(e)
    BY <1>1, <1>2, <1>6, <2>1, PutStep
  <2> QED BY <1>1, <2>2, RequestFrame, QuietType
<1> QED BY <1>3, <1>4, <1>5, <1>6

LEMMA RunStatusStep ==
    ASSUME IInv, NEW r \in Runs, RunStatus(r)
    PROVE  IInv'
<1>1. r \in Keys /\ UNCHANGED <<entry, saved, docker, starts, up, crashes>>
  BY DEF RunStatus, Keys
<1>2. Report(r) \in Answers
  BY DEF Report, Answers, IInv, Agreement, RunStatuses
<1>3. event' \in Events
  BY <1>1, <1>2, ServeType DEF RunStatus, Operations, Answers
<1> QED BY <1>1, <1>3, Same, KeepStep, RequestFrame

LEMMA RemovedStep ==
    ASSUME IInv, NEW k \in Keys, RemovedOutside(k)
    PROVE  IInv'
<1>1. UNCHANGED <<entry, saved, starts, up, crashes>> /\ Quietly /\ Containers(k, "down")
  BY DEF RemovedOutside
<1> QED BY <1>1, KeepStep, RequestFrame, QuietType

LEMMA GoDownStep == IInv /\ GoDown => IInv'
<1> SUFFICES ASSUME IInv, GoDown PROVE IInv'
  OBVIOUS
<1>1. /\ entry' = [k \in Keys |-> Missing] /\ up' = FALSE /\ Quietly
      /\ starts' = [h \in Starters |-> NoKey] /\ crashes' = crashes + 1 /\ crashes < MaxCrashes
  BY DEF GoDown
<1>2. PICK done \in SUBSET Envs :
        /\ docker' = [k \in Keys |-> IF k \in done THEN "down" ELSE docker[k]]
        /\ saved'  = [e \in Envs |-> IF e \in done THEN "stopped" ELSE saved[e]]
  BY DEF GoDown
<1>3. crashes' \in 0..MaxCrashes
  BY <1>1, StacksAssumption DEF IInv, TypeOK
<1>4. docker' \in [Keys -> Presence] /\ saved' \in [Envs -> Statuses]
  BY <1>2 DEF IInv, TypeOK, Presence, Statuses
<1>5. entry' \in [Keys -> Entry]
  BY <1>1 DEF Entry, Missing, Statuses
<1>6. TypeOK'
  BY <1>1, <1>3, <1>4, <1>5, QuietType DEF TypeOK
<1>7. Agreement' /\ NothingForgotten'
  BY <1>1 DEF Agreement, NothingForgotten, Missing, RunStatuses, Keys
<1> QED BY <1>6, <1>7 DEF IInv

LEMMA BootStep == IInv /\ Boot => IInv'
<1> SUFFICES ASSUME IInv, Boot PROVE IInv'
  OBVIOUS
<1>1. /\ up' = TRUE /\ Quietly /\ UNCHANGED <<docker, starts, crashes>>
      /\ saved' = [e \in Envs |-> Survived(saved[e])]
      /\ entry' = [k \in Keys |-> IF k \in Envs
                                  THEN [Missing EXCEPT !.status = Survived(saved[k])]
                                  ELSE Missing]
  BY DEF Boot
<1>2. \A e \in Envs : Survived(saved[e]) \in Statuses
  BY DEF Survived, Statuses, IInv, TypeOK
<1>3. entry' \in [Keys -> Entry] /\ saved' \in [Envs -> Statuses]
  BY <1>1, <1>2 DEF Entry, Missing, Statuses
<1>4. TypeOK'
  BY <1>1, <1>3, QuietType DEF TypeOK, IInv
<1>5. Agreement'
  BY <1>1, StacksAssumption DEF Agreement, Missing, RunStatuses, Keys
<1>6. NothingForgotten'
  BY <1>1 DEF NothingForgotten, Missing, Keys
<1> QED BY <1>4, <1>5, <1>6 DEF IInv

-----------------------------------------------------------------------------
LEMMA InitIInv == Init => IInv
<1> SUFFICES ASSUME Init PROVE IInv
  OBVIOUS
<1>1. TypeOK
  BY StacksAssumption
     DEF Init, TypeOK, Entry, Missing, Statuses, Presence, Events, Service!Silent
<1>2. Agreement /\ NothingForgotten
  BY DEF Init, Agreement, NothingForgotten, Missing, RunStatuses, Keys
<1> QED BY <1>1, <1>2 DEF IInv

LEMMA NextIInv == IInv /\ [Next]_vars => IInv'
<1> SUFFICES ASSUME IInv, [Next]_vars PROVE IInv'
  OBVIOUS
<1>1. CASE UNCHANGED vars
  BY <1>1 DEF vars, IInv, TypeOK, Agreement, NothingForgotten
<1>2. CASE Next
  BY <1>2, RemovedStep, StartStep, FinishStartStep, StopRunStep, DeleteRunStep, RunStatusStep,
     StopEnvStep, EnvStatusStep, DeleteEnvStep, GoDownStep, BootStep DEF Next
<1> QED BY <1>1, <1>2

LEMMA Invariance == Spec => []IInv
<1>1. Init => IInv
  BY InitIInv
<1>2. IInv /\ [Next]_vars => IInv'
  BY NextIInv
<1> QED BY <1>1, <1>2, PTL DEF Spec

(* Every variable keeps its type.                                          *)
THEOREM TypeCorrect == Spec => []TypeOK
<1>1. IInv => TypeOK
  BY DEF IInv
<1> QED BY <1>1, Invariance, PTL

(* Containers of a run are never reported as stopped or unknown, however   *)
(* starts, stops, failures and restarts of the orchestrator interleave.    *)
THEOREM RunsStayVisible == Spec => []RunNeverHidden
<1>1. IInv => RunNeverHidden
  BY DEF IInv, TypeOK, Presence, Agreement, RunStatuses, RunNeverHidden, Report, Keys
<1> QED BY <1>1, Invariance, PTL

(* Every managed environment has a row that a restart will load.           *)
THEOREM EnvironmentsArePersisted == Spec => []NothingForgotten
<1>1. IInv => NothingForgotten
  BY DEF IInv
<1> QED BY <1>1, Invariance, PTL

-----------------------------------------------------------------------------
(* Stacks implements StackService: every step of a request on a run is the *)
(* abstract request, every other step is quiet or removes containers.      *)

LEMMA MapStep ==
    ASSUME IInv, NEW k \in Keys, NEW after, Containers(k, after)
    PROVE  /\ k \in Runs => Service!Becomes(k, after)
           /\ k \notin Runs => UNCHANGED [r \in Runs |-> docker[r]]
<1>1. CASE k \in Runs
  BY <1>1 DEF Containers, Service!Becomes, IInv, TypeOK, Keys
<1>2. CASE k \notin Runs
  BY <1>2 DEF Containers, IInv, TypeOK, Keys
<1> QED BY <1>1, <1>2

LEMMA MapSame ==
    ASSUME IInv, UNCHANGED docker
    PROVE  /\ UNCHANGED [r \in Runs |-> docker[r]]
           /\ \A r \in Runs : Service!Becomes(r, docker[r])
BY DEF Service!Becomes

LEMMA ServeMaps ==
    ASSUME NEW r \in Runs, NEW op, NEW result, Serve(op, r, result)
    PROVE  Service!Serve(op, r, result)
BY DEF Serve, Service!Serve

LEMMA QuietMaps ==
    ASSUME Quietly, UNCHANGED [r \in Runs |-> docker[r]]
    PROVE  Service!Next
BY DEF Quietly, Service!Next, Service!Quiet

(* A request on an environment is quiet.                                   *)
LEMMA EnvMaps ==
    ASSUME IInv, NEW k \in Keys, k \notin Runs, NEW op, NEW result, Serve(op, k, result),
           \/ UNCHANGED docker
           \/ \E after \in Presence : Containers(k, after)
    PROVE  Service!Next
<1>1. Quietly
  BY DEF Serve, Quietly
<1>2. UNCHANGED [r \in Runs |-> docker[r]]
  BY MapSame, MapStep
<1> QED BY <1>1, <1>2, QuietMaps

LEMMA LaunchMaps ==
    ASSUME IInv, NEW k \in Keys, NEW h \in Starters, Start(k, h)
    PROVE  Service!Next
<1>1. docker[k] \in Presence
  BY DEF IInv, TypeOK
<1>2. PICK result \in {"started", "running", "refused"} :
        /\ Serve("launch", k, result)
        /\ \/ result # "started" /\ UNCHANGED docker
           \/ result = "refused" /\ \E after \in {docker[k], "up"} : Containers(k, after)
           \/ Containers(k, "up")
  BY DEF Start, StartOver, RejectStart
<1>3. CASE k \notin Runs
  BY <1>1, <1>2, <1>3, EnvMaps DEF Presence
<1>4. CASE k \in Runs
  <2>1. PICK after \in {docker[k], "up"} :
          /\ Service!Becomes(k, after)
          /\ result = "started" => after = "up"
    <3>1. CASE result # "started" /\ UNCHANGED docker
      <4>1. result # "started" /\ docker' = docker
        BY <3>1
      <4>2. Service!Becomes(k, docker[k])
        BY <1>4, <4>1 DEF Service!Becomes
      <4> QED BY <4>1, <4>2 DEF Service!Becomes
    <3>2. CASE result = "refused" /\ \E x \in {docker[k], "up"} : Containers(k, x)
      <4>1. PICK x \in {docker[k], "up"} : Containers(k, x)
        BY <3>2
      <4>2. Service!Becomes(k, x)
        BY <1>1, <1>4, <4>1, MapStep DEF Keys, Presence
      <4> QED BY <3>2, <4>1, <4>2
    <3>3. CASE Containers(k, "up")
      <4>1. Service!Becomes(k, "up")
        BY <1>4, <3>3, MapStep DEF Keys, Presence
      <4> QED BY <4>1
    <3> QED BY <1>2, <3>1, <3>2, <3>3
  <2>2. Service!LaunchContract(docker[k], result, after) /\ after \in Service!Presence
    BY <1>1, <2>1 DEF Service!LaunchContract, Service!Presence, Presence
  <2>3. Service!Launch(k)
    BY <1>2, <1>4, <2>1, <2>2, ServeMaps DEF Service!Launch
  <2> QED BY <1>4, <2>3 DEF Service!Next
<1> QED BY <1>3, <1>4

(* What a stop or a deletion of a run must show.                           *)
LEMMA StopMaps ==
    ASSUME IInv, NEW r \in Runs, NEW result \in {"success", "missing", "failed"},
           NEW after \in {docker[r], "down"}, Containers(r, after), Serve("stop", r, result),
           result = "success" => after = "down", result = "missing" => docker[r] = "down"
    PROVE  Service!Next
<1>1. r \in Keys /\ docker[r] \in Presence
  BY DEF Keys, IInv, TypeOK
<1>2. Service!StopContract(docker[r], result, after) /\ after \in Service!Presence
  BY <1>1 DEF Service!StopContract, Service!Presence, Presence
<1>3. Service!Stop(r)
  BY <1>1, <1>2, MapStep, ServeMaps DEF Service!Stop
<1> QED BY <1>3 DEF Service!Next

LEMMA DeleteMaps ==
    ASSUME IInv, NEW r \in Runs, NEW result \in {"success", "missing", "failed"},
           NEW after \in {docker[r], "down"}, Containers(r, after), Serve("delete", r, result),
           result = "success" => after = "down"
    PROVE  Service!Next
<1>1. r \in Keys /\ docker[r] \in Presence
  BY DEF Keys, IInv, TypeOK
<1>2. Service!DeleteContract(docker[r], result, after) /\ after \in Service!Presence
  BY <1>1 DEF Service!DeleteContract, Service!Presence, Presence
<1>3. Service!Delete(r)
  BY <1>1, <1>2, MapStep, ServeMaps DEF Service!Delete
<1> QED BY <1>3 DEF Service!Next

LEMMA TearDownMaps ==
    ASSUME IInv, NEW k \in Keys, TearDown(k)
    PROVE  Service!Next
<1>1. PICK result \in {"success", "failed"}, after \in {docker[k], "down"} :
        /\ Containers(k, after) /\ Serve("stop", k, result)
        /\ result = "success" => after = "down"
  BY DEF TearDown
<1>2. CASE k \in Runs
  BY <1>1, <1>2, StopMaps
<1>3. CASE k \notin Runs
  <2>1. after \in Presence
    BY DEF Presence, IInv, TypeOK
  <2> QED BY <1>1, <1>3, <2>1, EnvMaps
<1> QED BY <1>2, <1>3

LEMMA StopRunMaps ==
    ASSUME IInv, NEW r \in Runs, StopRun(r)
    PROVE  Service!Next
<1>1. r \in Keys
  BY DEF Keys
<1>2. CASE TearDown(r)
  BY <1>1, <1>2, TearDownMaps
<1>3. CASE ~TearDown(r)
  <2>1. PICK result \in {"success", "missing", "failed"}, after \in {docker[r], "down"} :
          /\ Containers(r, after) /\ Serve("stop", r, result)
          /\ result = "success" => after = "down"
          /\ result = "missing" => docker[r] = "down"
    BY <1>1, <1>3, Same DEF StopRun
  <2> QED BY <2>1, StopMaps
<1> QED BY <1>2, <1>3

LEMMA DeleteRunMaps ==
    ASSUME IInv, NEW r \in Runs, DeleteRun(r)
    PROVE  Service!Next
<1>1. PICK result \in {"success", "missing", "failed"}, after \in {docker[r], "down"} :
        /\ Containers(r, after) /\ Serve("delete", r, result)
        /\ result = "success" => after = "down"
  BY DEF DeleteRun
<1> QED BY <1>1, DeleteMaps

(* The one place that needs the invariant: a status of "stopped" is true.  *)
LEMMA StatusMaps ==
    ASSUME IInv, NEW r \in Runs, RunStatus(r)
    PROVE  Service!Next
<1>1. PICK result \in {Report(r), "absent"} : Serve("status", r, result)
  BY DEF RunStatus
<1>2. /\ result \in {"absent", "starting", "running", "stopped", "error"}
      /\ result = "stopped" => docker[r] = "down"
  BY DEF Report, IInv, Agreement, RunStatuses
<1>3. UNCHANGED [s \in Runs |-> docker[s]]
  BY MapSame DEF RunStatus
<1>4. Service!Status(r)
  BY <1>1, <1>2, <1>3, ServeMaps DEF Service!Status, Service!StatusContract
<1> QED BY <1>4 DEF Service!Next

LEMMA EnvRequestMaps ==
    ASSUME IInv, NEW e \in Envs, StopEnv(e) \/ EnvStatus(e) \/ DeleteEnv(e)
    PROVE  Service!Next
<1>1. e \in Keys /\ e \notin Runs
  BY StacksAssumption DEF Keys
<1>2. CASE StopEnv(e)
  BY <1>1, <1>2, TearDownMaps DEF StopEnv
<1>3. CASE EnvStatus(e) \/ DeleteEnv(e)
  <2>1. Quietly /\ (UNCHANGED docker \/ \E after : Containers(e, after))
    BY <1>3 DEF EnvStatus, DeleteEnv
  <2> QED BY <1>1, <2>1, MapSame, MapStep, QuietMaps
<1> QED BY <1>2, <1>3

LEMMA RemovedMaps ==
    ASSUME IInv, NEW k \in Keys, RemovedOutside(k)
    PROVE  Service!Next
<1>1. Containers(k, "down") /\ Quietly
  BY DEF RemovedOutside
<1>2. CASE k \in Runs
  <2>1. Service!Removed(k)
    BY <1>1, <1>2, MapStep DEF Quietly, Service!Removed
  <2> QED BY <1>2, <2>1 DEF Service!Next
<1>3. CASE k \notin Runs
  BY <1>1, <1>3, MapStep, QuietMaps
<1> QED BY <1>2, <1>3

LEMMA ProcessMaps ==
    ASSUME IInv, GoDown \/ Boot \/ \E h \in Starters : FinishStart(h)
    PROVE  Service!Next
<1>1. Quietly
  BY DEF GoDown, Boot, FinishStart
<1>2. \A r \in Runs : docker'[r] = docker[r]
  BY StacksAssumption DEF GoDown, Boot, FinishStart, Keys, IInv, TypeOK
<1> QED BY <1>1, <1>2, QuietMaps

(* The stack manager keeps the contract its callers rely on: what it       *)
(* answers about the containers of a run is true, for any interleaving of  *)
(* requests and any number of restarts.                                    *)
THEOREM ImplementsService == Spec => ServiceContract
<1>1. Init => Service!Init
  BY DEF Init, Service!Init, Keys
<1>2. IInv /\ [Next]_vars => [Service!Next]_Service!vars
  <2> SUFFICES ASSUME IInv, [Next]_vars PROVE [Service!Next]_Service!vars
    OBVIOUS
  <2>1. CASE UNCHANGED vars
    BY <2>1 DEF vars, Service!vars
  <2>2. CASE Next
    BY <2>2, RemovedMaps, LaunchMaps, ProcessMaps, StopRunMaps, DeleteRunMaps, StatusMaps,
       EnvRequestMaps DEF Next
  <2> QED BY <2>1, <2>2
<1> QED BY <1>1, <1>2, Invariance, PTL DEF Spec, ServiceContract, Service!Spec
=============================================================================
