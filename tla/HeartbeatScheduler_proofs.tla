---------------------- MODULE HeartbeatScheduler_proofs ----------------------
(***************************************************************************)
(* Proofs about HeartbeatScheduler, for every set of agents and every      *)
(* value of the bounds.  The inductive invariant IInv joins what its parts *)
(* need from each other: the types, the budget of semaphore generations    *)
(* (each initialize() was paid for by a control request), the registry     *)
(* that names only live loops, and the heartbeat indexes below the cap.    *)
(***************************************************************************)
EXTENDS HeartbeatScheduler, FiniteSetTheorems, TLAPS

(* What must hold of _agent_states, the loops and the registry together;   *)
(* an operator of all three because the helpers of the model pass them on. *)
Sound(ags, lps, reg) ==
    /\ ags \in [Agents -> AgentState \cup {Absent}]
    /\ lps \in [Agents -> [Slots -> LoopRecord]]
    /\ reg \in [Agents -> Slots \cup {NoLoop}]
    /\ \A a \in Agents : reg[a] # NoLoop =>
          lps[a][reg[a]].pc # "idle" /\ ~lps[a][reg[a]].cancel
    /\ \A a \in Agents : ags[a] # Absent => ags[a].index <= Cap
    /\ \A a \in Agents, s \in Slots : InHeartbeat(lps[a][s]) => lps[a][s].next <= Cap
    /\ \A a \in Agents, s \in Slots : lps[a][s].fresh => ags[a] # Absent

(* The counters, and that every initialize() was paid for by a request.    *)
Scalars ==
    /\ state \in States
    /\ syncOwned \in BOOLEAN
    /\ syncStray \in Nat /\ resumeSyncs \in Nat
    /\ stops \in Nat /\ restarts \in Nat
    /\ gen \in Gens
    /\ permits \in [Gens -> Nat]
    /\ inFlight \in Nat
    /\ present \subseteq Agents
    /\ ops \in 0..MaxOps /\ churn \in 0..MaxChurn
    /\ served \in [Agents -> Nat]
    /\ gen + restarts <= ops

IInv == Scalars /\ Sound(agents, loops, registry)

(* What a step sends, as a predicate on the step; and that it sends nothing *)
(* that was not under way in lps.                                          *)
SendsWhileRunning ==
    \A a \in Agents, s \in Slots :
        loops'[a][s].pc = "calling" /\ loops[a][s].pc # "calling" => state = "running"
Silent(lps) ==
    \A a \in Agents, s \in Slots : loops'[a][s].pc = "calling" => lps[a][s].pc = "calling"

LEMMA RecordFacts ==
    /\ Idle \in LoopRecord /\ Idle.pc = "idle" /\ ~Idle.fresh
    /\ Asleep \in LoopRecord /\ Asleep.pc = "asleep" /\ ~Asleep.cancel /\ ~Asleep.fresh
    /\ NewAgent \in AgentState /\ NewAgent # Absent /\ NewAgent.index = 0
    /\ Absent \notin AgentState
<1>1. Idle \in LoopRecord /\ Idle.pc = "idle" /\ Idle.cancel = FALSE /\ Idle.fresh = FALSE
  BY SchedulerAssumption DEF Idle, LoopRecord, Gens
<1>2. Asleep \in LoopRecord /\ Asleep.pc = "asleep" /\ ~Asleep.cancel /\ ~Asleep.fresh
  BY <1>1 DEF Asleep, LoopRecord
<1>3. NewAgent \in AgentState /\ NewAgent.index = 0
  BY DEF NewAgent, AgentState, Statuses, FailureLimit
<1>4. Absent \notin AgentState
  <2>1. Absent.status = "absent"
    BY DEF Absent
  <2>2. \A r \in AgentState : r.status # "absent"
    BY DEF AgentState, Statuses
  <2> QED BY <2>1, <2>2
<1> QED BY <1>1, <1>2, <1>3, <1>4

LEMMA UpdatedFacts ==
    ASSUME NEW r \in AgentState, NEW ok \in BOOLEAN
    PROVE  Updated(r, ok) \in AgentState /\ Updated(r, ok).index = r.index
<1>1. r.failures \in 0..3
  BY DEF AgentState, FailureLimit
<1>2. CASE ok
  <2>1. Updated(r, ok) = [r EXCEPT !.status = "active", !.failures = 0]
    BY <1>2 DEF Updated
  <2>2. 0 \in 0..FailureLimit /\ "active" \in Statuses
    BY DEF FailureLimit, Statuses
  <2> QED BY <2>1, <2>2 DEF AgentState
<1>3. CASE ~ok /\ r.failures + 1 >= 3
  <2>1. Updated(r, ok) = [r EXCEPT !.failures = FailureLimit, !.status = "failed"]
    BY <1>3 DEF Updated, FailureLimit
  <2>2. FailureLimit \in 0..FailureLimit /\ "failed" \in Statuses
    BY DEF FailureLimit, Statuses
  <2> QED BY <2>1, <2>2 DEF AgentState
<1>4. CASE ~ok /\ ~(r.failures + 1 >= 3)
  <2>1. Updated(r, ok) = [r EXCEPT !.failures = r.failures + 1]
    BY <1>4 DEF Updated, FailureLimit
  <2>2. r.failures + 1 \in 0..3
    BY <1>1, <1>4
  <2> QED BY <2>1, <2>2 DEF AgentState, FailureLimit
<1> QED BY <1>2, <1>3, <1>4

LEMMA MaybeStopFacts ==
    ASSUME NEW st \in States, NEW ags, NEW lps, NEW reg, NEW inf
    PROVE  MaybeStop(st, ags, lps, reg, inf) \in States
BY DEF MaybeStop, States

(* _sync_agents_once keeps the three structures sound, whatever directories *)
(* it finds.                                                                *)
LEMMA SyncOnceSound ==
    ASSUME NEW st \in States, NEW ags, NEW lps, NEW reg, NEW inf,
           Sound(ags, lps, reg), served \in [Agents -> Nat],
           SyncOnce(st, ags, lps, reg, inf)
    PROVE  /\ Sound(agents', loops', registry')
           /\ state' \in States /\ inFlight' = inf /\ served' \in [Agents -> Nat]
           /\ Silent(lps)
<1> DEFINE new  == NeedsLoop(ags, reg)
           gone == Vanished(reg)
           slot(a) == CHOOSE s \in FreeSlots(lps, a) : TRUE
<1>1. \A a \in new : slot(a) \in Slots
  BY DEF SyncOnce, FreeSlots
<1>2. \A a \in Agents : a \in gone => a \notin new
  BY DEF NeedsLoop, Vanished
<1>3. /\ agents' \in [Agents -> AgentState \cup {Absent}]
      /\ \A a \in Agents : agents'[a] # Absent => agents'[a].index <= Cap
      /\ \A a \in Agents : agents'[a] = Absent => a \in gone \/ ags[a] = Absent
  <2> DEFINE f(a) == IF a \in gone THEN Absent
                     ELSE IF a \notin present THEN ags[a]
                     ELSE IF ags[a] = Absent THEN NewAgent
                     ELSE IF Capped(ags[a]) THEN [ags[a] EXCEPT !.status = "completed"]
                     ELSE ags[a]
  <2>1. agents' = [a \in Agents |-> f(a)]
    BY DEF SyncOnce
  <2>2. ASSUME NEW a \in Agents
        PROVE  /\ f(a) \in AgentState \cup {Absent}
               /\ f(a) # Absent => f(a).index <= Cap
               /\ f(a) = Absent => a \in gone \/ ags[a] = Absent
    <3>1. CASE ags[a] = Absent
      BY <3>1, RecordFacts, SchedulerAssumption
    <3>2. CASE ags[a] # Absent
      <4> ags[a] \in AgentState /\ ags[a].index <= Cap
        BY <3>2 DEF Sound
      <4>1. [ags[a] EXCEPT !.status = "completed"] \in AgentState
            /\ [ags[a] EXCEPT !.status = "completed"].index = ags[a].index
        BY <3>2 DEF AgentState, Statuses
      <4> QED BY <3>2, <4>1, RecordFacts
    <3> QED BY <3>1, <3>2
  <2> QED BY <2>1, <2>2
<1>4. /\ loops' \in [Agents -> [Slots -> LoopRecord]]
      /\ \A a \in Agents, s \in Slots :
            /\ InHeartbeat(loops'[a][s]) => loops'[a][s].next <= Cap
            /\ loops'[a][s].pc = "calling" => lps[a][s].pc = "calling"
            /\ loops'[a][s].fresh => lps[a][s].fresh /\ a \notin gone
            /\ a \notin gone /\ ~(a \in new /\ s = slot(a)) => loops'[a][s] = lps[a][s]
            /\ a \in new /\ s = slot(a) => loops'[a][s] = Asleep
  <2> DEFINE g(a, s) == IF a \in gone
                        THEN [lps[a][s] EXCEPT !.fresh = FALSE, !.cancel = @ \/ s = reg[a]]
                        ELSE IF a \in new /\ s = slot(a) THEN Asleep
                        ELSE lps[a][s]
  <2>1. loops' = [a \in Agents |-> [s \in Slots |-> g(a, s)]]
    BY DEF SyncOnce
  <2>2. ASSUME NEW a \in Agents, NEW s \in Slots
        PROVE  /\ g(a, s) \in LoopRecord
               /\ InHeartbeat(g(a, s)) => g(a, s).next <= Cap
               /\ g(a, s).pc = "calling" => lps[a][s].pc = "calling"
               /\ g(a, s).fresh => lps[a][s].fresh /\ a \notin gone
    <3>1. lps[a][s] \in LoopRecord /\ (InHeartbeat(lps[a][s]) => lps[a][s].next <= Cap)
      BY DEF Sound
    <3>2. LET l == [lps[a][s] EXCEPT !.fresh = FALSE, !.cancel = @ \/ s = reg[a]]
          IN  l \in LoopRecord /\ l.pc = lps[a][s].pc /\ l.next = lps[a][s].next
              /\ l.fresh = FALSE
      BY <3>1 DEF LoopRecord
    <3> QED BY <3>1, <3>2, RecordFacts DEF InHeartbeat
  <2> QED BY <2>1, <2>2, <1>2
<1>5. registry' \in [Agents -> Slots \cup {NoLoop}]
  BY <1>1 DEF SyncOnce, Sound
<1>6. ASSUME NEW a \in Agents, registry'[a] # NoLoop
      PROVE  loops'[a][registry'[a]].pc # "idle" /\ ~loops'[a][registry'[a]].cancel
  <2>1. registry'[a] = IF a \in gone THEN NoLoop ELSE IF a \in new THEN slot(a) ELSE reg[a]
    BY DEF SyncOnce
  <2>2. CASE a \in new
    BY <1>1, <1>2, <1>4, <2>1, <2>2, RecordFacts
  <2>3. CASE a \notin new
    <3>1. a \notin gone /\ registry'[a] = reg[a] /\ reg[a] \in Slots
      BY <1>6, <2>1, <2>3 DEF Sound
    <3> QED BY <1>4, <1>6, <2>3, <3>1 DEF Sound
  <2> QED BY <2>2, <2>3
<1>7. state' \in States /\ inFlight' = inf /\ served' \in [Agents -> Nat]
  BY MaybeStopFacts DEF SyncOnce
<1>8. ASSUME NEW a \in Agents, NEW s \in Slots, loops'[a][s].fresh
      PROVE  agents'[a] # Absent
  <2>1. lps[a][s].fresh /\ a \notin gone
    BY <1>4, <1>8
  <2>2. ags[a] # Absent
    BY <2>1 DEF Sound
  <2> QED BY <1>3, <2>1, <2>2
<1> QED BY <1>3, <1>4, <1>5, <1>6, <1>7, <1>8 DEF Sound, Silent

(* One AgentState is given new contents.                                   *)
LEMMA UpdateSound ==
    ASSUME NEW ags, NEW lps, NEW reg, Sound(ags, lps, reg),
           NEW a \in Agents, NEW r \in AgentState, r.index <= Cap
    PROVE  Sound([ags EXCEPT ![a] = r], lps, reg)
BY RecordFacts DEF Sound

(* One loop is replaced by a record that is well formed; the registry keeps *)
(* its entry only if that record is live and not cancelled.                *)
LEMMA ReplaceSound ==
    ASSUME NEW ags, Sound(ags, loops, registry),
           NEW a \in Agents, NEW s \in Slots, NEW l \in LoopRecord,
           InHeartbeat(l) => l.next <= Cap, l.fresh => ags[a] # Absent,
           registry[a] = s => l.pc # "idle" /\ ~l.cancel
    PROVE  Sound(ags, [loops EXCEPT ![a][s] = l], registry)
<1> DEFINE lps == [loops EXCEPT ![a][s] = l]
<1>1. lps \in [Agents -> [Slots -> LoopRecord]]
  BY DEF Sound
<1>2. \A b \in Agents, t \in Slots : lps[b][t] = IF b = a /\ t = s THEN l ELSE loops[b][t]
  BY DEF Sound
<1>3. \A b \in Agents, t \in Slots :
         /\ InHeartbeat(lps[b][t]) => lps[b][t].next <= Cap
         /\ lps[b][t].fresh => ags[b] # Absent
  BY <1>2 DEF Sound
<1>4. ASSUME NEW b \in Agents, registry[b] # NoLoop
      PROVE  lps[b][registry[b]].pc # "idle" /\ ~lps[b][registry[b]].cancel
  <2>1. registry[b] \in Slots
    BY <1>4 DEF Sound
  <2> QED BY <1>2, <1>4, <2>1 DEF Sound
<1> QED BY <1>1, <1>3, <1>4 DEF Sound

(* The end of a loop.                                                      *)
LEMMA FinishSound ==
    ASSUME NEW ags, Sound(ags, loops, registry), NEW st \in States, NEW inf,
           NEW a \in Agents, NEW s \in Slots, Finish(a, s, st, ags, inf)
    PROVE  /\ Sound(agents', loops', registry')
           /\ state' \in States /\ inFlight' = inf
           /\ Silent(loops)
<1> DEFINE reg1 == IF registry[a] = s THEN [registry EXCEPT ![a] = NoLoop] ELSE registry
<1>1. /\ agents' = ags /\ inFlight' = inf
      /\ loops' = [loops EXCEPT ![a][s] = Idle]
      /\ registry' = reg1
  BY DEF Finish
<1>2. state' \in States
  BY MaybeStopFacts DEF Finish
<1>3. loops' \in [Agents -> [Slots -> LoopRecord]]
      /\ \A b \in Agents, t \in Slots :
            loops'[b][t] = IF b = a /\ t = s THEN Idle ELSE loops[b][t]
  BY <1>1, RecordFacts DEF Sound
<1>4. reg1 \in [Agents -> Slots \cup {NoLoop}]
      /\ \A b \in Agents : reg1[b] # NoLoop => reg1[b] = registry[b] /\ ~(b = a /\ reg1[b] = s)
  BY DEF Sound
<1>5. ASSUME NEW b \in Agents, reg1[b] # NoLoop
      PROVE  loops'[b][reg1[b]].pc # "idle" /\ ~loops'[b][reg1[b]].cancel
  BY <1>3, <1>4, <1>5 DEF Sound
<1>6. \A b \in Agents, t \in Slots :
         /\ InHeartbeat(loops'[b][t]) => loops'[b][t].next <= Cap
         /\ loops'[b][t].fresh => ags[b] # Absent
  BY <1>3, RecordFacts DEF Sound, InHeartbeat
<1>7. Silent(loops)
  BY <1>3, RecordFacts DEF Silent
<1> QED BY <1>1, <1>2, <1>3, <1>4, <1>5, <1>6, <1>7 DEF Sound

(* What follows a heartbeat.                                               *)
LEMMA ConcludeSound ==
    ASSUME NEW ags, Sound(ags, loops, registry), state \in States, NEW inf,
           NEW a \in Agents, NEW s \in Slots, NEW ok \in BOOLEAN,
           Conclude(a, s, ok, ags, inf)
    PROVE  /\ Sound(agents', loops', registry')
           /\ state' \in States /\ inFlight' = inf
           /\ Silent(loops)
<1> DEFINE ags1 == IF ags[a] = Absent THEN ags ELSE [ags EXCEPT ![a] = Updated(@, ok)]
           ags2 == [ags1 EXCEPT ![a].status = "completed"]
           st1  == MaybeStop(state, ags1, loops, registry, inf)
<1>1. Sound(ags1, loops, registry)
  <2>1. CASE ags[a] = Absent
    BY <2>1
  <2>2. CASE ags[a] # Absent
    <3>1. ags[a] \in AgentState /\ ags[a].index <= Cap
      BY <2>2 DEF Sound
    <3> QED BY <2>2, <3>1, UpdatedFacts, UpdateSound
  <2> QED BY <2>1, <2>2
<1>2. st1 \in States
  BY MaybeStopFacts
<1>3. CASE st1 # "running" /\ Finish(a, s, st1, ags1, inf)
  BY <1>1, <1>2, <1>3, FinishSound
<1>4. CASE Capped(ags1[a]) /\ Finish(a, s, st1, ags2, inf)
  <2>1. Sound(ags2, loops, registry)
    <3>1. ags1[a] \in AgentState /\ ags1[a].index <= Cap
      BY <1>1, <1>4 DEF Capped, Sound
    <3>2. [ags1[a] EXCEPT !.status = "completed"] \in AgentState
          /\ [ags1[a] EXCEPT !.status = "completed"].index = ags1[a].index
      BY <3>1 DEF AgentState, Statuses
    <3> QED BY <1>1, <3>1, <3>2, UpdateSound
  <2> QED BY <1>2, <1>4, <2>1, FinishSound
<1>5. CASE /\ loops' = [loops EXCEPT ![a][s] = Asleep]
           /\ agents' = ags1 /\ inFlight' = inf /\ state' = st1
           /\ registry' = registry
  <2>1. Sound(ags1, [loops EXCEPT ![a][s] = Asleep], registry)
    BY <1>1, RecordFacts, ReplaceSound DEF InHeartbeat
  <2>2. Silent(loops)
    BY <1>5, RecordFacts DEF Silent, Sound
  <2> QED BY <1>2, <1>5, <2>1, <2>2
<1> QED BY <1>3, <1>4, <1>5 DEF Conclude

-----------------------------------------------------------------------------
(* One lemma per group of actions.                                         *)

LEMMA ReleasedType ==
    ASSUME IInv, NEW l \in LoopRecord
    PROVE  Released(l) \in [Gens -> Nat] /\ Decremented \in Nat
<1>1. l.gen \in Gens
  BY DEF LoopRecord
<1> QED BY <1>1 DEF Released, Decremented, IInv, Scalars

LEMMA WakeStep ==
    ASSUME IInv, NEW a \in Agents, NEW s \in Slots, Wake(a, s)
    PROVE  IInv' /\ SendsWhileRunning
<1>0. loops[a][s] \in LoopRecord /\ state \in States /\ Sound(agents, loops, registry)
  BY DEF IInv, Sound, Scalars
<1>1. CASE /\ Finish(a, s, state, agents, inFlight)
           /\ UNCHANGED <<permits, served>>
  <2>1. /\ Sound(agents', loops', registry')
        /\ state' \in States /\ inFlight' = inFlight
        /\ Silent(loops)
    BY <1>0, <1>1, FinishSound
  <2> QED BY <1>1, <2>1
       DEF IInv, Scalars, Wake, Silent, SendsWhileRunning, syncs, control, disk
<1>2. CASE /\ state = "running" /\ Capped(agents[a])
           /\ Finish(a, s, state, [agents EXCEPT ![a].status = "completed"], inFlight)
           /\ UNCHANGED <<permits, served>>
  <2>1. agents[a] \in AgentState /\ agents[a].index <= Cap
    BY <1>0, <1>2 DEF Capped, Sound
  <2>2. [agents[a] EXCEPT !.status = "completed"] \in AgentState
        /\ [agents[a] EXCEPT !.status = "completed"].index = agents[a].index
    BY <2>1 DEF AgentState, Statuses
  <2>3. Sound([agents EXCEPT ![a].status = "completed"], loops, registry)
    BY <1>0, <2>1, <2>2, UpdateSound
  <2>4. /\ Sound(agents', loops', registry')
        /\ state' \in States /\ inFlight' = inFlight
        /\ Silent(loops)
    BY <1>0, <1>2, <2>3, FinishSound
  <2> QED BY <1>2, <2>4
       DEF IInv, Scalars, Wake, Silent, SendsWhileRunning, syncs, control, disk
<1>3. CASE state = "running" /\ ~Capped(agents[a]) /\ UNCHANGED <<state, registry, served>>
  <2> DEFINE r == IF agents[a] = Absent THEN NewAgent ELSE agents[a]
             r1 == [r EXCEPT !.status = "running"]
             l == [pc |-> "queued", cancel |-> FALSE, fresh |-> TRUE,
                   next |-> r.index + 1, tries |-> 0, gen |-> gen]
             ags == [agents EXCEPT ![a] = r1]
  <2>1. r \in AgentState /\ r.index < Cap
    <3>1. CASE agents[a] = Absent
      BY <3>1, RecordFacts, SchedulerAssumption
    <3>2. CASE agents[a] # Absent
      <4>1. agents[a] \in AgentState /\ agents[a].index \in Nat /\ Cap \in Nat
        BY <1>0, <3>2, SchedulerAssumption DEF Sound, AgentState
      <4> QED BY <1>3, <3>2, <4>1 DEF Capped
    <3> QED BY <3>1, <3>2
  <2>2. r1 \in AgentState /\ r1.index <= Cap /\ r.index + 1 \in Nat /\ r.index + 1 <= Cap
    BY <2>1, SchedulerAssumption DEF AgentState, Statuses
  <2>3. Sound(ags, loops, registry) /\ ags[a] # Absent
    BY <1>0, <2>2, UpdateSound, RecordFacts DEF Sound
  <2>4. gen \in Gens /\ permits \in [Gens -> Nat]
    BY DEF IInv, Scalars
  <2>5. /\ l \in LoopRecord /\ l.next <= Cap /\ l.pc = "queued" /\ ~l.cancel
        /\ EnterCall(l) \in LoopRecord /\ EnterCall(l).next <= Cap
        /\ EnterCall(l).pc = "calling" /\ ~EnterCall(l).cancel
    BY <2>2, <2>4 DEF LoopRecord, EnterCall
  <2>6. CASE /\ SemaphoreFree(gen)
             /\ loops' = [loops EXCEPT ![a][s] = EnterCall(l)]
             /\ permits' = [permits EXCEPT ![gen] = @ - 1]
             /\ inFlight' = inFlight + 1
    <3>1. Sound(ags, loops', registry)
      BY <2>3, <2>5, <2>6, ReplaceSound
    <3>2. permits' \in [Gens -> Nat]
      BY <2>4, <2>6 DEF SemaphoreFree
    <3>3. agents' = ags
      BY <1>3 DEF Wake
    <3> QED BY <1>3, <2>6, <3>1, <3>2, <3>3
         DEF IInv, Scalars, Wake, SendsWhileRunning, syncs, control, disk
  <2>7. CASE /\ loops' = [loops EXCEPT ![a][s] = l]
             /\ UNCHANGED <<permits, inFlight>>
    <3>1. Sound(ags, loops', registry)
      BY <2>3, <2>5, <2>7, ReplaceSound
    <3>2. agents' = ags
      BY <1>3 DEF Wake
    <3> QED BY <1>3, <2>7, <3>1, <3>2
         DEF IInv, Scalars, Wake, SendsWhileRunning, syncs, control, disk
  <2> QED BY <1>3, <2>6, <2>7 DEF Wake
<1> QED BY <1>1, <1>2, <1>3 DEF Wake

LEMMA AdmitStep ==
    ASSUME IInv, NEW a \in Agents, NEW s \in Slots, Admit(a, s)
    PROVE  IInv' /\ SendsWhileRunning
<1> DEFINE l == loops[a][s]
<1>0. /\ l \in LoopRecord /\ l.gen \in Gens /\ l.next <= Cap
      /\ state \in States /\ Sound(agents, loops, registry)
  BY DEF IInv, Sound, Scalars, Admit, InHeartbeat, LoopRecord
<1>1. CASE Conclude(a, s, TRUE, agents, inFlight) /\ UNCHANGED permits
  <2>1. /\ Sound(agents', loops', registry')
        /\ state' \in States /\ inFlight' = inFlight
        /\ Silent(loops)
    BY <1>0, <1>1, ConcludeSound
  <2> QED BY <1>1, <2>1
       DEF IInv, Scalars, Admit, Silent, SendsWhileRunning, syncs, control, disk
<1>2. CASE /\ state = "running"
           /\ loops' = [loops EXCEPT ![a][s] = EnterCall(l)]
           /\ permits' = [permits EXCEPT ![l.gen] = @ - 1]
           /\ inFlight' = inFlight + 1
           /\ UNCHANGED <<state, agents, registry>>
  <2>1. /\ EnterCall(l) \in LoopRecord /\ EnterCall(l).next <= Cap
        /\ EnterCall(l).pc = "calling" /\ ~EnterCall(l).cancel
        /\ EnterCall(l).fresh = l.fresh
    BY <1>0 DEF LoopRecord, EnterCall, Admit
  <2>2. Sound(agents, loops', registry)
    <3>1. l.fresh => agents[a] # Absent
      BY <1>0 DEF Sound
    <3> QED BY <1>0, <1>2, <2>1, <3>1, ReplaceSound
  <2>3. permits' \in [Gens -> Nat]
    BY <1>0, <1>2 DEF Admit, IInv, Scalars
  <2> QED BY <1>2, <2>2, <2>3
       DEF IInv, Scalars, Admit, SendsWhileRunning, syncs, control, disk
<1> QED BY <1>1, <1>2 DEF Admit

LEMMA CallAnsweredStep ==
    ASSUME IInv, NEW a \in Agents, NEW s \in Slots, CallAnswered(a, s)
    PROVE  IInv' /\ SendsWhileRunning
<1> DEFINE l == loops[a][s]
           ags == IF l.fresh THEN [agents EXCEPT ![a].index = l.next] ELSE agents
<1>0. /\ l \in LoopRecord /\ l.next \in Nat /\ l.next <= Cap
      /\ state \in States /\ Sound(agents, loops, registry)
  BY DEF IInv, Sound, Scalars, CallAnswered, InHeartbeat, LoopRecord
<1>1. Sound(ags, loops, registry)
  <2>1. CASE agents[a] \in AgentState
    <3>1. [agents[a] EXCEPT !.index = l.next] \in AgentState
          /\ [agents[a] EXCEPT !.index = l.next].index = l.next
      BY <1>0, <2>1 DEF AgentState
    <3> QED BY <1>0, <2>1, <3>1, UpdateSound
  <2>2. CASE agents[a] = Absent /\ ~l.fresh
    BY <1>0, <2>2
  <2> QED BY <1>0, <2>1, <2>2 DEF Sound
<1>2. PICK ok \in BOOLEAN : Conclude(a, s, ok, ags, Decremented)
  BY DEF CallAnswered
<1>3. /\ Sound(agents', loops', registry')
      /\ state' \in States /\ inFlight' = Decremented
      /\ Silent(loops)
  BY <1>0, <1>1, <1>2, ConcludeSound
<1>4. permits' \in [Gens -> Nat] /\ Decremented \in Nat
  BY <1>0, ReleasedType DEF CallAnswered
<1>5. served' \in [Agents -> Nat]
  BY DEF CallAnswered, IInv, Scalars
<1> QED BY <1>3, <1>4, <1>5
     DEF IInv, Scalars, CallAnswered, Silent, SendsWhileRunning, syncs, control, disk

LEMMA CallFailStep ==
    ASSUME IInv, NEW a \in Agents, NEW s \in Slots, CallFail(a, s)
    PROVE  IInv' /\ SendsWhileRunning
<1> DEFINE l == loops[a][s]
           n == IF agents[a].failures < FailureLimit
                THEN agents[a].failures + 1 ELSE agents[a].failures
           ags == IF l.fresh
                  THEN [agents EXCEPT ![a].status = "failed",
                          ![a].failures = IF @ < FailureLimit THEN @ + 1 ELSE @]
                  ELSE agents
<1>0. /\ l \in LoopRecord /\ l.next <= Cap
      /\ state \in States /\ Sound(agents, loops, registry)
  BY DEF IInv, Sound, Scalars, CallFail, InHeartbeat, LoopRecord
<1>1. CASE /\ loops' = [loops EXCEPT ![a][s].pc = "backoff"]
           /\ UNCHANGED <<state, agents, registry, permits, inFlight>>
  <2> DEFINE m == [l EXCEPT !.pc = "backoff"]
  <2>1. /\ m \in LoopRecord /\ m.next <= Cap /\ m.pc = "backoff" /\ ~m.cancel
        /\ m.fresh => agents[a] # Absent
    BY <1>0 DEF LoopRecord, CallFail, Sound
  <2>2. loops' = [loops EXCEPT ![a][s] = m]
    BY <1>0, <1>1 DEF Sound
  <2>3. Sound(agents, loops', registry)
    BY <1>0, <2>1, <2>2, ReplaceSound
  <2>4. Silent(loops)
    BY <1>0, <2>1, <2>2 DEF Silent, Sound
  <2> QED BY <1>1, <2>3, <2>4
       DEF IInv, Scalars, CallFail, Silent, SendsWhileRunning, syncs, control, disk
<1>2. CASE permits' = Released(l) /\ Conclude(a, s, FALSE, ags, Decremented)
  <2>1. Sound(ags, loops, registry)
    <3>1. CASE ~l.fresh
      BY <1>0, <3>1
    <3>2. CASE l.fresh
      <4> DEFINE r == [agents[a] EXCEPT !.status = "failed", !.failures = n]
      <4>1. agents[a] \in AgentState /\ agents[a].index <= Cap
        BY <1>0, <3>2 DEF Sound
      <4>2. agents[a].failures \in 0..3 /\ n \in 0..FailureLimit
        BY <4>1 DEF AgentState, FailureLimit
      <4>3. r \in AgentState /\ r.index <= Cap
        BY <4>1, <4>2 DEF AgentState, Statuses
      <4>4. ags = [agents EXCEPT ![a] = r]
        BY <1>0, <3>2, <4>1 DEF Sound, AgentState
      <4> QED BY <1>0, <4>3, <4>4, UpdateSound
    <3> QED BY <3>1, <3>2
  <2>2. /\ Sound(agents', loops', registry')
        /\ state' \in States /\ inFlight' = Decremented
        /\ Silent(loops)
    BY <1>0, <1>2, <2>1, ConcludeSound
  <2>3. permits' \in [Gens -> Nat] /\ Decremented \in Nat
    BY <1>0, <1>2, ReleasedType
  <2> QED BY <2>2, <2>3
       DEF IInv, Scalars, CallFail, Silent, SendsWhileRunning, syncs, control, disk
<1> QED BY <1>1, <1>2 DEF CallFail

LEMMA BackoffDoneStep ==
    ASSUME IInv, NEW a \in Agents, NEW s \in Slots, BackoffDone(a, s)
    PROVE  IInv' /\ SendsWhileRunning
<1> DEFINE l == loops[a][s]
<1>0. /\ l \in LoopRecord /\ l.next <= Cap /\ l.tries + 1 \in Nat
      /\ state \in States /\ Sound(agents, loops, registry)
  BY DEF IInv, Sound, Scalars, BackoffDone, InHeartbeat, LoopRecord
<1>1. CASE permits' = Released(l) /\ Conclude(a, s, TRUE, agents, Decremented)
  <2>1. /\ Sound(agents', loops', registry')
        /\ state' \in States /\ inFlight' = Decremented
        /\ Silent(loops)
    BY <1>0, <1>1, ConcludeSound
  <2>2. permits' \in [Gens -> Nat] /\ Decremented \in Nat
    BY <1>0, <1>1, ReleasedType
  <2> QED BY <2>1, <2>2
       DEF IInv, Scalars, BackoffDone, Silent, SendsWhileRunning, syncs, control, disk
<1>2. CASE /\ state = "running"
           /\ loops' = [loops EXCEPT ![a][s].pc = "calling", ![a][s].tries = @ + 1]
           /\ UNCHANGED <<state, agents, registry, permits, inFlight>>
  <2> DEFINE m == [l EXCEPT !.pc = "calling", !.tries = l.tries + 1]
  <2>1. /\ m \in LoopRecord /\ m.next <= Cap /\ m.pc = "calling" /\ ~m.cancel
        /\ m.fresh => agents[a] # Absent
    BY <1>0 DEF LoopRecord, BackoffDone, Sound
  <2>2. loops' = [loops EXCEPT ![a][s] = m]
    BY <1>0, <1>2 DEF Sound
  <2>3. Sound(agents, loops', registry)
    BY <1>0, <2>1, <2>2, ReplaceSound
  <2> QED BY <1>2, <2>3
       DEF IInv, Scalars, BackoffDone, SendsWhileRunning, syncs, control, disk
<1> QED BY <1>1, <1>2 DEF BackoffDone

LEMMA DeliverCancelStep ==
    ASSUME IInv, NEW a \in Agents, NEW s \in Slots, DeliverCancel(a, s)
    PROVE  IInv' /\ SendsWhileRunning
<1> DEFINE l == loops[a][s]
<1>0. l \in LoopRecord /\ state \in States /\ Sound(agents, loops, registry)
  BY DEF IInv, Sound, Scalars
<1>1. CASE Finish(a, s, state, agents, inFlight) /\ UNCHANGED permits
  <2>1. /\ Sound(agents', loops', registry')
        /\ state' \in States /\ inFlight' = inFlight
        /\ Silent(loops)
    BY <1>0, <1>1, FinishSound
  <2> QED BY <1>1, <2>1
       DEF IInv, Scalars, DeliverCancel, Silent, SendsWhileRunning, syncs, control, disk
<1>2. CASE Conclude(a, s, TRUE, agents, inFlight) /\ UNCHANGED permits
  <2>1. /\ Sound(agents', loops', registry')
        /\ state' \in States /\ inFlight' = inFlight
        /\ Silent(loops)
    BY <1>0, <1>2, ConcludeSound
  <2> QED BY <1>2, <2>1
       DEF IInv, Scalars, DeliverCancel, Silent, SendsWhileRunning, syncs, control, disk
<1>3. CASE permits' = Released(l) /\ Conclude(a, s, TRUE, agents, Decremented)
  <2>1. /\ Sound(agents', loops', registry')
        /\ state' \in States /\ inFlight' = Decremented
        /\ Silent(loops)
    BY <1>0, <1>3, ConcludeSound
  <2>2. permits' \in [Gens -> Nat] /\ Decremented \in Nat
    BY <1>0, <1>3, ReleasedType
  <2> QED BY <2>1, <2>2
       DEF IInv, Scalars, DeliverCancel, Silent, SendsWhileRunning, syncs, control, disk
<1> QED BY <1>1, <1>2, <1>3 DEF DeliverCancel

LEMMA SyncStep ==
    ASSUME IInv, SyncTurn \/ SyncExit \/ ResumeSync
    PROVE  IInv' /\ SendsWhileRunning
<1>0. state \in States /\ Sound(agents, loops, registry) /\ served \in [Agents -> Nat]
  BY DEF IInv, Scalars
<1>1. CASE SyncOnce(state, agents, loops, registry, inFlight)
           /\ UNCHANGED <<syncOwned, syncStray, control, disk, gen, permits>>
           /\ resumeSyncs' \in Nat
  <2>1. /\ Sound(agents', loops', registry')
        /\ state' \in States /\ inFlight' = inFlight /\ served' \in [Agents -> Nat]
        /\ Silent(loops)
    BY <1>0, <1>1, SyncOnceSound
  <2> QED BY <1>1, <2>1
       DEF IInv, Scalars, Silent, SendsWhileRunning, control, disk
<1>2. CASE /\ UNCHANGED <<state, agents, loops, registry, control, disk, gen, permits,
                          inFlight, served>>
           /\ syncOwned' \in BOOLEAN /\ syncStray' \in Nat /\ resumeSyncs' \in Nat
  BY <1>2 DEF IInv, Scalars, SendsWhileRunning, control, disk
<1>3. resumeSyncs \in Nat /\ syncStray \in Nat /\ syncOwned \in BOOLEAN
  BY DEF IInv, Scalars
<1>4. CASE SyncTurn
  BY <1>1, <1>3, <1>4 DEF SyncTurn, syncs
<1>5. CASE SyncExit
  <2>1. syncOwned' \in BOOLEAN /\ syncStray' \in Nat /\ resumeSyncs' \in Nat
    <3>1. CASE syncOwned' = FALSE /\ syncStray' = syncStray /\ resumeSyncs' = resumeSyncs
      BY <1>3, <3>1
    <3>2. CASE /\ syncStray > 0 /\ syncStray' = syncStray - 1
               /\ syncOwned' = syncOwned /\ resumeSyncs' = resumeSyncs
      <4>1. syncStray' \in Nat
        BY <1>3, <3>2
      <4> QED BY <1>3, <3>2, <4>1
    <3> QED BY <1>5, <3>1, <3>2 DEF SyncExit
  <2> QED BY <1>2, <1>5, <2>1 DEF SyncExit
<1>6. CASE ResumeSync
  <2>1. resumeSyncs' \in Nat
    BY <1>3, <1>6 DEF ResumeSync
  <2> QED BY <1>1, <1>2, <1>3, <1>6, <2>1 DEF ResumeSync
<1> QED BY <1>4, <1>5, <1>6

(* stop(), pause() and the first part of a restart cancel what is registered *)
(* and empty the registry.                                                 *)
LEMMA CancelSound ==
    ASSUME IInv, CancelRegistered, agents' = agents
    PROVE  Sound(agents', loops', registry') /\ Silent(loops) /\ syncOwned' \in BOOLEAN
<1>0. Sound(agents, loops, registry)
  BY DEF IInv
<1>1. ASSUME NEW a \in Agents, NEW s \in Slots
      PROVE  /\ loops'[a][s] \in LoopRecord
             /\ loops'[a][s].pc = loops[a][s].pc
             /\ loops'[a][s].next = loops[a][s].next
             /\ loops'[a][s].fresh = loops[a][s].fresh
  <2>1. loops'[a][s] = IF s = registry[a] /\ loops[a][s].pc # "idle"
                       THEN [loops[a][s] EXCEPT !.cancel = TRUE]
                       ELSE loops[a][s]
    BY DEF CancelRegistered
  <2>2. loops[a][s] \in LoopRecord
    BY <1>0 DEF Sound
  <2> QED BY <2>1, <2>2 DEF LoopRecord
<1>2. loops' \in [Agents -> [Slots -> LoopRecord]]
  BY <1>1 DEF CancelRegistered
<1>3. registry' \in [Agents -> Slots \cup {NoLoop}] /\ \A a \in Agents : registry'[a] = NoLoop
  BY DEF CancelRegistered
<1>4. \A a \in Agents, s \in Slots :
         /\ InHeartbeat(loops'[a][s]) => loops'[a][s].next <= Cap
         /\ loops'[a][s].fresh => agents'[a] # Absent
  BY <1>0, <1>1 DEF Sound, InHeartbeat
<1> QED BY <1>0, <1>1, <1>2, <1>3, <1>4 DEF Sound, Silent, CancelRegistered

(* initialize() and start() after it.                                      *)
LEMMA InitializeSound ==
    ASSUME IInv, InitializeAndStart, gen + 1 \in Gens
    PROVE  /\ Sound(agents', loops', registry') /\ Silent(loops)
           /\ state' \in States /\ inFlight' \in Nat /\ served' \in [Agents -> Nat]
           /\ permits' \in [Gens -> Nat] /\ gen' = gen + 1
           /\ syncOwned' \in BOOLEAN /\ syncStray' \in Nat
<1> DEFINE stale == [a \in Agents |-> [s \in Slots |-> [loops[a][s] EXCEPT !.fresh = FALSE]]]
           ags0 == [a \in Agents |-> Absent]
           reg0 == [a \in Agents |-> NoLoop]
<1>0. Sound(agents, loops, registry) /\ served \in [Agents -> Nat]
  BY DEF IInv, Scalars
<1>1. ASSUME NEW a \in Agents, NEW s \in Slots
      PROVE  /\ stale[a][s] \in LoopRecord
             /\ stale[a][s].pc = loops[a][s].pc
             /\ stale[a][s].next = loops[a][s].next
             /\ stale[a][s].fresh = FALSE
  <2>1. loops[a][s] \in LoopRecord
    BY <1>0 DEF Sound
  <2> QED BY <2>1 DEF LoopRecord
<1>2. stale \in [Agents -> [Slots -> LoopRecord]]
  BY <1>1
<1>3. \A a \in Agents, s \in Slots :
         InHeartbeat(stale[a][s]) => stale[a][s].next <= Cap
  BY <1>0, <1>1 DEF Sound, InHeartbeat
<1>4. Sound(ags0, stale, reg0)
  <2> HIDE DEF stale
  <2> QED BY <1>1, <1>2, <1>3 DEF Sound
<1>5. SyncOnce("running", ags0, stale, reg0, 0)
  BY DEF InitializeAndStart
<1>6. /\ Sound(agents', loops', registry') /\ Silent(stale)
      /\ state' \in States /\ inFlight' = 0 /\ served' \in [Agents -> Nat]
  <2> HIDE DEF stale, ags0, reg0
  <2> QED BY <1>0, <1>4, <1>5, SyncOnceSound DEF States
<1>7. Silent(loops)
  <2> HIDE DEF stale
  <2> QED BY <1>1, <1>6 DEF Silent
<1>8. permits' \in [Gens -> Nat] /\ gen' = gen + 1
  BY SchedulerAssumption DEF InitializeAndStart, IInv, Scalars
<1>9. syncOwned' \in BOOLEAN /\ syncStray' \in Nat
  BY DEF InitializeAndStart, IInv, Scalars
<1> QED BY <1>6, <1>7, <1>8, <1>9

LEMMA ControlStep ==
    ASSUME IInv,
           \/ Start \/ Resume \/ Pause
           \/ BeginStop \/ EndStop \/ BeginRestart \/ EndRestart
    PROVE  IInv' /\ SendsWhileRunning
<1>0. /\ Sound(agents, loops, registry)
      /\ ops \in 0..MaxOps /\ gen \in Gens /\ restarts \in Nat /\ stops \in Nat
      /\ gen + restarts <= ops /\ MaxOps \in Nat /\ gen \in Nat /\ ops \in Nat
      /\ syncStray \in Nat /\ resumeSyncs \in Nat
  BY SchedulerAssumption DEF IInv, Scalars, Gens
<1> USE DEF Gens
<1>1. CASE Start
  <2>1. gen + 1 \in Gens /\ ops + 1 \in 0..MaxOps
    BY <1>0, <1>1 DEF Start, Op, Gens
  <2>2. /\ Sound(agents', loops', registry') /\ Silent(loops)
        /\ state' \in States /\ inFlight' \in Nat /\ served' \in [Agents -> Nat]
        /\ permits' \in [Gens -> Nat] /\ gen' = gen + 1
        /\ syncOwned' \in BOOLEAN /\ syncStray' \in Nat
    BY <1>1, <2>1, InitializeSound DEF Start
  <2> QED BY <1>0, <1>1, <2>1, <2>2
       DEF Start, Op, IInv, Scalars, Silent, SendsWhileRunning, disk
<1>2. CASE Resume
  BY <1>0, <1>2 DEF Resume, Op, IInv, Scalars, SendsWhileRunning, disk, States
<1>3. CASE Pause
  <2>1. Sound(agents', loops', registry') /\ Silent(loops) /\ syncOwned' \in BOOLEAN
    BY <1>3, CancelSound DEF Pause
  <2> QED BY <1>0, <1>3, <2>1
       DEF Pause, Op, IInv, Scalars, Silent, SendsWhileRunning, disk, States
<1>4. CASE BeginStop
  <2>1. Sound(agents', loops', registry') /\ Silent(loops) /\ syncOwned' \in BOOLEAN
    BY <1>4, CancelSound DEF BeginStop
  <2> QED BY <1>0, <1>4, <2>1
       DEF BeginStop, Op, IInv, Scalars, Silent, SendsWhileRunning, disk
<1>5. CASE EndStop
  BY <1>0, <1>5 DEF EndStop, IInv, Scalars, SendsWhileRunning, syncs, disk, States
<1>6. CASE BeginRestart
  <2>1. Sound(agents', loops', registry') /\ Silent(loops) /\ syncOwned' \in BOOLEAN
    BY <1>6, CancelSound DEF BeginRestart
  <2>2. ops' \in 0..MaxOps /\ gen' + restarts' <= ops' /\ restarts' \in Nat
    BY <1>0, <1>6 DEF BeginRestart, Op
  <2> QED BY <1>0, <1>6, <2>1, <2>2
       DEF BeginRestart, IInv, Scalars, Silent, SendsWhileRunning, disk
<1>7. CASE EndRestart /\ InitializeAndStart
  <2>1. gen + 1 \in Gens
    BY <1>0, <1>7 DEF EndRestart, Gens
  <2>2. /\ Sound(agents', loops', registry') /\ Silent(loops)
        /\ state' \in States /\ inFlight' \in Nat /\ served' \in [Agents -> Nat]
        /\ permits' \in [Gens -> Nat] /\ gen' = gen + 1
        /\ syncOwned' \in BOOLEAN /\ syncStray' \in Nat
    BY <1>7, <2>1, InitializeSound
  <2>3. gen' + restarts' <= ops' /\ restarts' \in Nat /\ gen' \in Gens /\ ops' = ops
    BY <1>0, <1>7, <2>1, <2>2 DEF EndRestart
  <2> QED BY <1>0, <1>7, <2>2, <2>3
       DEF EndRestart, IInv, Scalars, Silent, SendsWhileRunning, disk
<1>8. CASE EndRestart /\ ~InitializeAndStart
  BY <1>0, <1>8 DEF EndRestart, IInv, Scalars, SendsWhileRunning, disk, States
<1> QED BY <1>1, <1>2, <1>3, <1>4, <1>5, <1>6, <1>7, <1>8

-----------------------------------------------------------------------------
(* The invariant of the specification.                                     *)

LEMMA InitIInv == Init => IInv
<1> SUFFICES ASSUME Init PROVE IInv
  OBVIOUS
<1>1. Sound(agents, loops, registry)
  BY RecordFacts DEF Init, Sound, InHeartbeat
<1>2. Scalars
  <2>1. 0 \in Gens /\ 0 \in 0..MaxOps /\ 0 \in 0..MaxChurn
    BY SchedulerAssumption DEF Gens
  <2>2. permits \in [Gens -> Nat] /\ served \in [Agents -> Nat]
    BY DEF Init
  <2>3. syncOwned \in BOOLEAN /\ state \in States /\ present \subseteq Agents
    BY DEF Init, States
  <2>4. /\ syncStray = 0 /\ resumeSyncs = 0 /\ stops = 0 /\ restarts = 0 /\ gen = 0
        /\ inFlight = 0 /\ ops = 0 /\ churn = 0
    BY DEF Init
  <2>5. /\ syncStray \in Nat /\ resumeSyncs \in Nat /\ stops \in Nat /\ restarts \in Nat
        /\ inFlight \in Nat /\ gen + restarts <= ops
    BY <2>4
  <2> QED BY <2>1, <2>2, <2>3, <2>4, <2>5 DEF Scalars
<1> QED BY <1>1, <1>2 DEF IInv

LEMMA StepIInv == IInv /\ [Next]_vars => IInv' /\ SendsWhileRunning
<1> SUFFICES ASSUME IInv, [Next]_vars PROVE IInv' /\ SendsWhileRunning
  OBVIOUS
<1>1. ASSUME NEW a \in Agents, NEW s \in Slots, LoopStep(a, s)
      PROVE  IInv' /\ SendsWhileRunning
  BY <1>1, WakeStep, AdmitStep, CallAnsweredStep, CallFailStep, BackoffDoneStep,
     DeliverCancelStep DEF LoopStep
<1>2. CASE SyncTurn \/ SyncExit \/ ResumeSync
  BY <1>2, SyncStep
<1>3. CASE \/ Start \/ Resume \/ Pause
           \/ BeginStop \/ EndStop \/ BeginRestart \/ EndRestart
  BY <1>3, ControlStep
<1>4. CASE ChangeDirectories
  BY <1>4, SchedulerAssumption
     DEF ChangeDirectories, IInv, Scalars, SendsWhileRunning, syncs, control
<1>5. CASE UNCHANGED vars
  BY <1>5 DEF vars, IInv, Scalars, Sound, SendsWhileRunning
<1> QED BY <1>1, <1>2, <1>3, <1>4, <1>5 DEF Next

LEMMA Invariance == Spec => []IInv
<1>1. Init => IInv
  BY InitIInv
<1>2. IInv /\ [Next]_vars => IInv'
  BY StepIInv
<1> QED BY <1>1, <1>2, PTL DEF Spec

(* Every variable keeps its type through any number of pauses, restarts and *)
(* overlapping loops; the counters never go negative.                      *)
THEOREM TypeCorrect == Spec => []TypeOK
<1>1. IInv => TypeOK
  BY DEF IInv, Scalars, Sound, TypeOK
<1> QED BY <1>1, Invariance, PTL

(* The registry of agent loops only ever names loops that exist and were   *)
(* not cancelled, so a sync replaces every loop that is gone and pause()   *)
(* and stop() reach every loop that is registered.                         *)
THEOREM RegistryNamesLiveLoops == Spec => []RegistryLive
<1>1. IInv => RegistryLive
  BY DEF IInv, Sound, RegistryLive
<1> QED BY <1>1, Invariance, PTL

(* No heartbeat index, recorded or under way, exceeds the budget.          *)
THEOREM HeartbeatIndexWithinBudget == Spec => []IndexWithinBudget
<1>1. IInv => IndexWithinBudget
  BY DEF IInv, Sound, IndexWithinBudget
<1> QED BY <1>1, Invariance, PTL

(* A heartbeat is only ever sent while the scheduler is RUNNING.           *)
THEOREM SendsOnlyWhileRunning == Spec => NoSendUnlessRunning
<1>1. IInv /\ [Next]_vars =>
        [\A a \in Agents, s \in Slots :
            loops'[a][s].pc = "calling" /\ loops[a][s].pc # "calling"
                => state = "running"]_vars
  BY StepIInv DEF SendsWhileRunning
<1> QED BY <1>1, Invariance, PTL DEF Spec, NoSendUnlessRunning

-----------------------------------------------------------------------------
(* Permits and the in-flight counter: what every step does to the set of   *)
(* heartbeats that hold a permit.                                          *)

HoldersIn(lps)   == {x \in Agents \X Slots : Holding(lps[x[1]][x[2]])}
HeldIn(lps, g)   == {x \in HoldersIn(lps) : lps[x[1]][x[2]].gen = g}

(* What the two invariants say, of given permits, loops and counters.      *)
Balanced(pm, lps, inf, top) ==
    /\ \A g \in 1..top : pm[g] + Cardinality(HeldIn(lps, g)) = MaxParallel
    /\ inf <= Cardinality(HoldersIn(lps))
    /\ top <= 1 => inf = Cardinality(HoldersIn(lps))

(* A heartbeat waits for, or holds, a permit of a semaphore that exists,   *)
(* and before the first one there are no loops and the state is STOPPED.   *)
Numbered(lps, st, top) ==
    /\ \A a \in Agents, s \in Slots : InHeartbeat(lps[a][s]) => lps[a][s].gen <= top
    /\ top = 0 => st = "stopped" /\ \A a \in Agents, s \in Slots : lps[a][s].pc = "idle"

Ledger == Balanced(permits, loops, inFlight, gen) /\ Numbered(loops, state, gen)

LEMMA HoldersFinite ==
    ASSUME NEW lps
    PROVE  /\ IsFiniteSet(HoldersIn(lps)) /\ Cardinality(HoldersIn(lps)) \in Nat
           /\ \A g : IsFiniteSet(HeldIn(lps, g)) /\ Cardinality(HeldIn(lps, g)) \in Nat
<1>1. IsFiniteSet(Agents \X Slots)
  BY FS_Product, SchedulerAssumption
<1>2. HoldersIn(lps) \in SUBSET (Agents \X Slots)
  BY DEF HoldersIn
<1>3. IsFiniteSet(HoldersIn(lps))
  BY <1>1, <1>2, FS_Subset
<1>4. ASSUME NEW g PROVE IsFiniteSet(HeldIn(lps, g)) /\ Cardinality(HeldIn(lps, g)) \in Nat
  <2>1. HeldIn(lps, g) \in SUBSET HoldersIn(lps)
    BY DEF HeldIn
  <2> QED BY <1>3, <2>1, FS_Subset, FS_CardinalityType
<1> QED BY <1>3, <1>4, FS_CardinalityType

(* One loop is replaced.                                                   *)
LEMMA ReplacedHolders ==
    ASSUME loops \in [Agents -> [Slots -> LoopRecord]],
           NEW a \in Agents, NEW s \in Slots, NEW l,
           loops' = [loops EXCEPT ![a][s] = l]
    PROVE  /\ ~Holding(l) => /\ HoldersIn(loops') = HoldersIn(loops) \ {<<a, s>>}
                             /\ \A g : HeldIn(loops', g) = HeldIn(loops, g) \ {<<a, s>>}
           /\ Holding(l) => /\ HoldersIn(loops') = HoldersIn(loops) \cup {<<a, s>>}
                            /\ \A g : g # l.gen => HeldIn(loops', g) = HeldIn(loops, g) \ {<<a, s>>}
                            /\ HeldIn(loops', l.gen) = HeldIn(loops, l.gen) \cup {<<a, s>>}
<1>1. \A x \in Agents \X Slots :
         loops'[x[1]][x[2]] = IF x = <<a, s>> THEN l ELSE loops[x[1]][x[2]]
  <2>1. \A b \in Agents, t \in Slots : loops'[b][t] = IF b = a /\ t = s THEN l ELSE loops[b][t]
    OBVIOUS
  <2> QED BY <2>1
<1>2. <<a, s>> \in Agents \X Slots
  OBVIOUS
<1>3. CASE ~Holding(l)
  BY <1>1, <1>2, <1>3 DEF HoldersIn, HeldIn
<1>4. CASE Holding(l)
  BY <1>1, <1>2, <1>4 DEF HoldersIn, HeldIn
<1> QED BY <1>3, <1>4

(* All loops are replaced by ones that hold what they held.                *)
LEMMA SameHolders ==
    ASSUME NEW lps, NEW old,
           \A a \in Agents, s \in Slots :
              /\ Holding(lps[a][s]) <=> Holding(old[a][s])
              /\ Holding(lps[a][s]) => lps[a][s].gen = old[a][s].gen
    PROVE  /\ HoldersIn(lps) = HoldersIn(old)
           /\ \A g : HeldIn(lps, g) = HeldIn(old, g)
<1>1. \A x \in Agents \X Slots :
         /\ Holding(lps[x[1]][x[2]]) <=> Holding(old[x[1]][x[2]])
         /\ Holding(lps[x[1]][x[2]]) => lps[x[1]][x[2]].gen = old[x[1]][x[2]].gen
  OBVIOUS
<1> QED BY <1>1 DEF HoldersIn, HeldIn

(* A heartbeat leaves the semaphore block and gives its permit back.       *)
LEMMA LeaveBalanced ==
    ASSUME IInv, Ledger, NEW a \in Agents, NEW s \in Slots, Holding(loops[a][s]),
           NEW l, ~Holding(l), loops' = [loops EXCEPT ![a][s] = l],
           permits' = Released(loops[a][s]), inFlight' = Decremented
    PROVE  Balanced(permits', loops', inFlight', gen)
<1> DEFINE h == loops[a][s].gen
           x == <<a, s>>
<1>0. /\ permits \in [Gens -> Nat] /\ inFlight \in Nat /\ gen \in Nat
      /\ loops \in [Agents -> [Slots -> LoopRecord]] /\ h \in Gens
  BY SchedulerAssumption DEF IInv, Scalars, Sound, Gens, LoopRecord
<1>1. x \in HoldersIn(loops) /\ x \in HeldIn(loops, h)
      /\ \A g : g # h => x \notin HeldIn(loops, g)
  BY DEF HoldersIn, HeldIn
<1>2. /\ HoldersIn(loops') = HoldersIn(loops) \ {x}
      /\ \A g : HeldIn(loops', g) = HeldIn(loops, g) \ {x}
  BY <1>0, ReplacedHolders
<1>3. Cardinality(HoldersIn(loops')) = Cardinality(HoldersIn(loops)) - 1
  <2>1. IsFiniteSet(HoldersIn(loops))
    BY HoldersFinite
  <2> QED BY <1>1, <1>2, <2>1, FS_RemoveElement
<1>4. \A g : Cardinality(HeldIn(loops', g))
                = IF g = h THEN Cardinality(HeldIn(loops, g)) - 1 ELSE Cardinality(HeldIn(loops, g))
  <2> SUFFICES ASSUME NEW g
               PROVE  Cardinality(HeldIn(loops', g))
                        = IF g = h THEN Cardinality(HeldIn(loops, g)) - 1
                          ELSE Cardinality(HeldIn(loops, g))
    OBVIOUS
  <2>1. IsFiniteSet(HeldIn(loops, g))
    BY HoldersFinite
  <2>2. CASE g = h
    <3>1. x \in HeldIn(loops, g) /\ HeldIn(loops', g) = HeldIn(loops, g) \ {x}
      BY <1>1, <1>2, <2>2
    <3> HIDE DEF x, h
    <3> QED BY <2>1, <2>2, <3>1, FS_RemoveElement
  <2>3. CASE g # h
    BY <1>1, <1>2, <2>1, <2>3, FS_RemoveElement
  <2> QED BY <2>2, <2>3
<1>5. \A g \in Gens : permits'[g] = IF g = h THEN permits[g] + 1 ELSE permits[g]
  BY <1>0 DEF Released
<1>6. ASSUME NEW g \in 1..gen PROVE permits'[g] + Cardinality(HeldIn(loops', g)) = MaxParallel
  <2>1. g \in Gens /\ permits[g] \in Nat
    BY <1>0, SchedulerAssumption DEF Gens, IInv, Scalars
  <2>2. permits[g] + Cardinality(HeldIn(loops, g)) = MaxParallel
    BY DEF Ledger, Balanced
  <2>3. Cardinality(HeldIn(loops, g)) \in Nat
    BY HoldersFinite
  <2>4. CASE g = h
    <3>1. /\ permits'[g] = permits[g] + 1
          /\ Cardinality(HeldIn(loops', g)) = Cardinality(HeldIn(loops, g)) - 1
      BY <1>4, <1>5, <2>1, <2>4
    <3> QED BY <2>1, <2>2, <2>3, <3>1
  <2>5. CASE g # h
    <3>1. permits'[g] = permits[g] /\ Cardinality(HeldIn(loops', g)) = Cardinality(HeldIn(loops, g))
      BY <1>4, <1>5, <2>1, <2>5
    <3> QED BY <2>2, <3>1
  <2> QED BY <2>4, <2>5
<1>7. Cardinality(HoldersIn(loops')) \in Nat /\ Cardinality(HoldersIn(loops)) \in Nat
  BY HoldersFinite
<1>8. inFlight' <= Cardinality(HoldersIn(loops'))
      /\ (gen <= 1 => inFlight' = Cardinality(HoldersIn(loops')))
  BY <1>0, <1>3, <1>7 DEF Ledger, Balanced, Decremented
<1> QED BY <1>6, <1>8 DEF Balanced

(* A heartbeat enters the semaphore block.                                 *)
LEMMA EnterBalanced ==
    ASSUME IInv, Ledger, NEW a \in Agents, NEW s \in Slots, ~Holding(loops[a][s]),
           NEW l, Holding(l), l.gen \in Gens, loops' = [loops EXCEPT ![a][s] = l],
           permits' = [permits EXCEPT ![l.gen] = @ - 1], inFlight' = inFlight + 1
    PROVE  Balanced(permits', loops', inFlight', gen)
<1> DEFINE h == l.gen
           x == <<a, s>>
<1>0. /\ permits \in [Gens -> Nat] /\ inFlight \in Nat /\ gen \in Nat
      /\ loops \in [Agents -> [Slots -> LoopRecord]]
  BY SchedulerAssumption DEF IInv, Scalars, Sound, Gens
<1>1. x \notin HoldersIn(loops) /\ \A g : x \notin HeldIn(loops, g)
  BY DEF HoldersIn, HeldIn
<1>2. /\ HoldersIn(loops') = HoldersIn(loops) \cup {x}
      /\ \A g : g # h => HeldIn(loops', g) = HeldIn(loops, g)
      /\ HeldIn(loops', h) = HeldIn(loops, h) \cup {x}
  <2>1. /\ HoldersIn(loops') = HoldersIn(loops) \cup {x}
        /\ \A g : g # h => HeldIn(loops', g) = HeldIn(loops, g) \ {x}
        /\ HeldIn(loops', h) = HeldIn(loops, h) \cup {x}
    BY <1>0, ReplacedHolders
  <2>2. ASSUME NEW g, g # h PROVE HeldIn(loops', g) = HeldIn(loops, g)
    <3>1. HeldIn(loops', g) = HeldIn(loops, g) \ {x} /\ x \notin HeldIn(loops, g)
      BY <1>1, <2>1, <2>2
    <3> QED BY <3>1
  <2> QED BY <2>1, <2>2
<1>3. Cardinality(HoldersIn(loops')) = Cardinality(HoldersIn(loops)) + 1
  <2>1. IsFiniteSet(HoldersIn(loops))
    BY HoldersFinite
  <2> QED BY <1>1, <1>2, <2>1, FS_AddElement
<1>4. \A g : Cardinality(HeldIn(loops', g))
                = IF g = h THEN Cardinality(HeldIn(loops, g)) + 1 ELSE Cardinality(HeldIn(loops, g))
  <2> SUFFICES ASSUME NEW g
               PROVE  Cardinality(HeldIn(loops', g))
                        = IF g = h THEN Cardinality(HeldIn(loops, g)) + 1
                          ELSE Cardinality(HeldIn(loops, g))
    OBVIOUS
  <2>1. IsFiniteSet(HeldIn(loops, g))
    BY HoldersFinite
  <2>2. CASE g = h
    BY <1>1, <1>2, <2>1, <2>2, FS_AddElement
  <2>3. CASE g # h
    BY <1>1, <1>2, <2>1, <2>3, FS_AddElement
  <2> QED BY <2>2, <2>3
<1>5. \A g \in Gens : permits'[g] = IF g = h THEN permits[g] - 1 ELSE permits[g]
  BY <1>0
<1>6. ASSUME NEW g \in 1..gen PROVE permits'[g] + Cardinality(HeldIn(loops', g)) = MaxParallel
  <2>1. g \in Gens /\ permits[g] \in Nat
    BY <1>0, SchedulerAssumption DEF Gens, IInv, Scalars
  <2>2. permits[g] + Cardinality(HeldIn(loops, g)) = MaxParallel
    BY DEF Ledger, Balanced
  <2>3. Cardinality(HeldIn(loops, g)) \in Nat
    BY HoldersFinite
  <2>4. CASE g = h
    <3>1. /\ permits'[g] = permits[g] - 1
          /\ Cardinality(HeldIn(loops', g)) = Cardinality(HeldIn(loops, g)) + 1
      BY <1>4, <1>5, <2>1, <2>4
    <3> QED BY <2>1, <2>2, <2>3, <3>1
  <2>5. CASE g # h
    <3>1. permits'[g] = permits[g] /\ Cardinality(HeldIn(loops', g)) = Cardinality(HeldIn(loops, g))
      BY <1>4, <1>5, <2>1, <2>5
    <3> QED BY <2>2, <3>1
  <2> QED BY <2>4, <2>5
<1>7. Cardinality(HoldersIn(loops)) \in Nat
  BY HoldersFinite
<1>8. inFlight' <= Cardinality(HoldersIn(loops'))
      /\ (gen <= 1 => inFlight' = Cardinality(HoldersIn(loops')))
  BY <1>0, <1>3, <1>7 DEF Ledger, Balanced
<1> QED BY <1>6, <1>8 DEF Balanced

(* Nobody enters or leaves.                                                *)
Unmoved ==
    \A a \in Agents, s \in Slots :
        /\ Holding(loops'[a][s]) <=> Holding(loops[a][s])
        /\ Holding(loops'[a][s]) => loops'[a][s].gen = loops[a][s].gen

LEMMA UnmovedBalanced ==
    ASSUME Ledger, Unmoved, UNCHANGED <<permits, inFlight, gen>>
    PROVE  Balanced(permits', loops', inFlight', gen')
<1>1. HoldersIn(loops') = HoldersIn(loops) /\ \A g : HeldIn(loops', g) = HeldIn(loops, g)
  BY SameHolders DEF Unmoved
<1> QED BY <1>1 DEF Ledger, Balanced

(* One loop moves on without a permit before or after.                     *)
LEMMA ReplacedUnmoved ==
    ASSUME IInv, NEW a \in Agents, NEW s \in Slots, ~Holding(loops[a][s]),
           NEW l, ~Holding(l), loops' = [loops EXCEPT ![a][s] = l]
    PROVE  Unmoved
<1>1. \A b \in Agents, t \in Slots : loops'[b][t] = IF b = a /\ t = s THEN l ELSE loops[b][t]
  BY DEF IInv, Sound
<1> QED BY <1>1 DEF Unmoved

LEMMA ReplacedNumbered ==
    ASSUME IInv, Ledger, NEW a \in Agents, NEW s \in Slots, loops[a][s].pc # "idle",
           NEW l, InHeartbeat(l) => l.gen <= gen, loops' = [loops EXCEPT ![a][s] = l],
           gen' = gen
    PROVE  Numbered(loops', state', gen')
<1>1. \A b \in Agents, t \in Slots : loops'[b][t] = IF b = a /\ t = s THEN l ELSE loops[b][t]
  BY DEF IInv, Sound
<1>2. gen # 0
  BY DEF Ledger, Numbered
<1> QED BY <1>1, <1>2 DEF Ledger, Numbered

(* Where a loop goes that ends or sleeps.                                  *)
LEMMA ConcludeLoops ==
    ASSUME NEW a, NEW s, NEW ok, NEW ags, NEW inf, NEW st,
           Conclude(a, s, ok, ags, inf) \/ Finish(a, s, st, ags, inf)
    PROVE  /\ inFlight' = inf
           /\ \E l \in {Idle, Asleep} : loops' = [loops EXCEPT ![a][s] = l]
BY DEF Conclude, Finish

LEMMA RestFacts == \A l \in {Idle, Asleep} : ~Holding(l) /\ ~InHeartbeat(l)
BY DEF Idle, Asleep, Holding, InHeartbeat

LEMMA WaitsLedger ==
    ASSUME IInv, Ledger, NEW a \in Agents, NEW s \in Slots,
           loops[a][s].pc # "idle", ~Holding(loops[a][s]),
           NEW l \in {Idle, Asleep}, loops' = [loops EXCEPT ![a][s] = l],
           UNCHANGED <<permits, inFlight, gen>>
    PROVE  Ledger'
<1>1. Unmoved
  BY RestFacts, ReplacedUnmoved
<1>2. Balanced(permits', loops', inFlight', gen')
  BY <1>1, UnmovedBalanced
<1>3. Numbered(loops', state', gen')
  BY RestFacts, ReplacedNumbered
<1> QED BY <1>2, <1>3 DEF Ledger

LEMMA LeavesLedger ==
    ASSUME IInv, Ledger, NEW a \in Agents, NEW s \in Slots, Holding(loops[a][s]),
           NEW l \in {Idle, Asleep}, loops' = [loops EXCEPT ![a][s] = l],
           permits' = Released(loops[a][s]), inFlight' = Decremented, gen' = gen
    PROVE  Ledger'
<1>1. Balanced(permits', loops', inFlight', gen)
  BY RestFacts, LeaveBalanced
<1>2. Numbered(loops', state', gen')
  BY RestFacts, ReplacedNumbered DEF Holding
<1> QED BY <1>1, <1>2 DEF Ledger

LEMMA EntersLedger ==
    ASSUME IInv, Ledger, NEW a \in Agents, NEW s \in Slots,
           loops[a][s].pc # "idle", ~Holding(loops[a][s]),
           NEW l \in LoopRecord, l.pc = "calling", l.gen <= gen,
           loops' = [loops EXCEPT ![a][s] = l],
           permits' = [permits EXCEPT ![l.gen] = @ - 1], inFlight' = inFlight + 1, gen' = gen
    PROVE  Ledger'
<1>0. Holding(l) /\ l.gen \in Gens
  BY DEF Holding, LoopRecord
<1>1. Balanced(permits', loops', inFlight', gen)
  BY <1>0, EnterBalanced
<1>2. Numbered(loops', state', gen')
  BY ReplacedNumbered
<1> QED BY <1>1, <1>2 DEF Ledger

(* A loop stays where it is, in the block, for another attempt or a pause.  *)
LEMMA StaysLedger ==
    ASSUME IInv, Ledger, NEW a \in Agents, NEW s \in Slots, Holding(loops[a][s]),
           NEW l, Holding(l), l.gen = loops[a][s].gen, loops' = [loops EXCEPT ![a][s] = l],
           UNCHANGED <<permits, inFlight, gen>>
    PROVE  Ledger'
<1>1. \A b \in Agents, t \in Slots : loops'[b][t] = IF b = a /\ t = s THEN l ELSE loops[b][t]
  BY DEF IInv, Sound
<1>2. Unmoved
  BY <1>1 DEF Unmoved
<1>3. Balanced(permits', loops', inFlight', gen')
  BY <1>2, UnmovedBalanced
<1>4. loops[a][s].pc # "idle" /\ (InHeartbeat(l) => l.gen <= gen)
  BY DEF Holding, InHeartbeat, Ledger, Numbered
<1>5. Numbered(loops', state', gen')
  BY <1>4, ReplacedNumbered
<1> QED BY <1>3, <1>5 DEF Ledger

(* A loop queues on the semaphore.                                         *)
LEMMA QueuesLedger ==
    ASSUME IInv, Ledger, NEW a \in Agents, NEW s \in Slots,
           loops[a][s].pc # "idle", ~Holding(loops[a][s]),
           NEW l, l.pc = "queued", l.gen = gen, loops' = [loops EXCEPT ![a][s] = l],
           UNCHANGED <<permits, inFlight, gen>>
    PROVE  Ledger'
<1>1. ~Holding(l) /\ gen <= gen
  BY SchedulerAssumption DEF Holding, IInv, Scalars, Gens
<1>2. Unmoved
  BY <1>1, ReplacedUnmoved
<1>3. Balanced(permits', loops', inFlight', gen')
  BY <1>2, UnmovedBalanced
<1>4. Numbered(loops', state', gen')
  BY <1>1, ReplacedNumbered
<1> QED BY <1>3, <1>4 DEF Ledger

LEMMA LoopLedger ==
    ASSUME IInv, Ledger, NEW a \in Agents, NEW s \in Slots, LoopStep(a, s)
    PROVE  Ledger'
<1> DEFINE h == loops[a][s]
<1>0. /\ h \in LoopRecord /\ gen \in Gens /\ gen \in Nat
      /\ loops \in [Agents -> [Slots -> LoopRecord]]
      /\ InHeartbeat(h) => h.gen <= gen
  BY SchedulerAssumption DEF IInv, Sound, Scalars, Gens, Ledger, Numbered
<1> DEFINE Rests == \E l \in {Idle, Asleep} : loops' = [loops EXCEPT ![a][s] = l]
<1>1. CASE h.pc \in {"asleep", "queued"} /\ Rests /\ UNCHANGED <<permits, inFlight, gen>>
  BY <1>1, WaitsLedger DEF Holding
<1>2. CASE Holding(h) /\ Rests /\ permits' = Released(h) /\ inFlight' = Decremented /\ gen' = gen
  BY <1>2, LeavesLedger
<1>3. CASE Wake(a, s)
  <2>1. h.pc = "asleep" /\ gen' = gen /\ ~Holding(h)
    BY <1>3 DEF Wake, Holding
  <2>2. ASSUME NEW ags, Finish(a, s, state, ags, inFlight), permits' = permits
        PROVE  Ledger'
    BY <1>1, <2>1, <2>2, ConcludeLoops
  <2>3. CASE state = "running" /\ ~Capped(agents[a])
    <3> DEFINE r == IF agents[a] = Absent THEN NewAgent ELSE agents[a]
               l == [pc |-> "queued", cancel |-> FALSE, fresh |-> TRUE,
                     next |-> r.index + 1, tries |-> 0, gen |-> gen]
    <3>1. r.index + 1 \in Nat
      <4>1. r \in AgentState
        BY RecordFacts DEF IInv, Sound
      <4> QED BY <4>1 DEF AgentState
    <3>2. l \in LoopRecord /\ l.pc = "queued" /\ l.gen = gen
      BY <1>0, <3>1 DEF LoopRecord
    <3>3. EnterCall(l) \in LoopRecord /\ EnterCall(l).pc = "calling" /\ EnterCall(l).gen = gen
      BY <1>0, <3>1 DEF LoopRecord, EnterCall
    <3>4. \/ /\ loops' = [loops EXCEPT ![a][s] = EnterCall(l)]
             /\ permits' = [permits EXCEPT ![gen] = @ - 1]
             /\ inFlight' = inFlight + 1
          \/ /\ loops' = [loops EXCEPT ![a][s] = l]
             /\ UNCHANGED <<permits, inFlight>>
      BY <1>3, <2>3 DEF Wake, Finish
    <3> HIDE DEF l
    <3>5. CASE /\ loops' = [loops EXCEPT ![a][s] = EnterCall(l)]
               /\ permits' = [permits EXCEPT ![gen] = @ - 1]
               /\ inFlight' = inFlight + 1
      <4> DEFINE m == EnterCall(l)
      <4>1. /\ m \in LoopRecord /\ m.pc = "calling" /\ m.gen = gen /\ m.gen <= gen
            /\ permits' = [permits EXCEPT ![m.gen] = @ - 1]
            /\ loops' = [loops EXCEPT ![a][s] = m]
        BY <1>0, <3>3, <3>5
      <4> HIDE DEF m
      <4>2. h.pc # "idle" /\ inFlight' = inFlight + 1
        BY <2>1, <3>5
      <4> QED BY <2>1, <4>1, <4>2, EntersLedger
    <3>6. CASE loops' = [loops EXCEPT ![a][s] = l] /\ UNCHANGED <<permits, inFlight>>
      BY <2>1, <3>2, <3>6, QueuesLedger
    <3> QED BY <3>4, <3>5, <3>6
  <2> QED BY <1>3, <2>2, <2>3 DEF Wake
<1>4. CASE Admit(a, s)
  <2>1. h.pc = "queued" /\ gen' = gen /\ ~Holding(h)
    BY <1>4 DEF Admit, Holding
  <2>2. CASE Conclude(a, s, TRUE, agents, inFlight) /\ UNCHANGED permits
    BY <1>1, <2>1, <2>2, ConcludeLoops
  <2>3. CASE /\ loops' = [loops EXCEPT ![a][s] = EnterCall(h)]
             /\ permits' = [permits EXCEPT ![h.gen] = @ - 1]
             /\ inFlight' = inFlight + 1
    <3>1. /\ EnterCall(h) \in LoopRecord /\ EnterCall(h).pc = "calling"
          /\ EnterCall(h).gen = h.gen /\ h.gen <= gen
      BY <1>0, <2>1 DEF LoopRecord, EnterCall, InHeartbeat
    <3> QED BY <2>1, <2>3, <3>1, EntersLedger
  <2> QED BY <1>4, <2>2, <2>3 DEF Admit
<1>5. CASE CallAnswered(a, s)
  <2>1. Holding(h) /\ gen' = gen /\ permits' = Released(h)
    BY <1>5 DEF CallAnswered, Holding
  <2>2. PICK ok \in BOOLEAN :
           Conclude(a, s, ok, IF h.fresh THEN [agents EXCEPT ![a].index = h.next] ELSE agents,
                    Decremented)
    BY <1>5 DEF CallAnswered
  <2> QED BY <1>2, <2>1, <2>2, ConcludeLoops
<1>6. CASE CallFail(a, s)
  <2>1. Holding(h) /\ gen' = gen
    BY <1>6 DEF CallFail, Holding
  <2>2. CASE loops' = [loops EXCEPT ![a][s].pc = "backoff"] /\ UNCHANGED <<permits, inFlight>>
    <3> DEFINE l == [h EXCEPT !.pc = "backoff"]
    <3>1. Holding(l) /\ l.gen = h.gen /\ loops' = [loops EXCEPT ![a][s] = l]
      BY <1>0, <2>2 DEF Holding, LoopRecord
    <3> HIDE DEF l
    <3> QED BY <2>1, <2>2, <3>1, StaysLedger
  <2>3. CASE /\ permits' = Released(h)
             /\ Conclude(a, s, FALSE,
                      IF h.fresh
                      THEN [agents EXCEPT ![a].status = "failed",
                              ![a].failures = IF @ < FailureLimit THEN @ + 1 ELSE @]
                      ELSE agents,
                      Decremented)
    BY <1>2, <2>1, <2>3, ConcludeLoops
  <2> QED BY <1>6, <2>2, <2>3 DEF CallFail
<1>7. CASE BackoffDone(a, s)
  <2>1. Holding(h) /\ gen' = gen
    BY <1>7 DEF BackoffDone, Holding
  <2>2. CASE permits' = Released(h) /\ Conclude(a, s, TRUE, agents, Decremented)
    BY <1>2, <2>1, <2>2, ConcludeLoops
  <2>3. CASE /\ loops' = [loops EXCEPT ![a][s].pc = "calling", ![a][s].tries = @ + 1]
             /\ UNCHANGED <<permits, inFlight>>
    <3> DEFINE l == [h EXCEPT !.pc = "calling", !.tries = h.tries + 1]
    <3>1. Holding(l) /\ l.gen = h.gen /\ loops' = [loops EXCEPT ![a][s] = l]
      BY <1>0, <2>3 DEF Holding, LoopRecord
    <3> HIDE DEF l
    <3> QED BY <2>1, <2>3, <3>1, StaysLedger
  <2> QED BY <1>7, <2>2, <2>3 DEF BackoffDone
<1>8. CASE DeliverCancel(a, s)
  <2>1. gen' = gen
    BY <1>8 DEF DeliverCancel
  <2>2. CASE h.pc = "asleep" /\ Finish(a, s, state, agents, inFlight) /\ UNCHANGED permits
    BY <1>1, <2>1, <2>2, ConcludeLoops
  <2>3. CASE h.pc = "queued" /\ Conclude(a, s, TRUE, agents, inFlight) /\ UNCHANGED permits
    BY <1>1, <2>1, <2>3, ConcludeLoops
  <2>4. CASE Holding(h) /\ permits' = Released(h) /\ Conclude(a, s, TRUE, agents, Decremented)
    BY <1>2, <2>1, <2>4, ConcludeLoops
  <2> QED BY <1>8, <2>2, <2>3, <2>4 DEF DeliverCancel
<1> QED BY <1>3, <1>4, <1>5, <1>6, <1>7, <1>8 DEF LoopStep

(* Every heartbeat keeps its place, its permit, its number and attempts.   *)
Kept(lps) ==
    \A a \in Agents, s \in Slots :
        InHeartbeat(loops'[a][s]) \/ InHeartbeat(lps[a][s])
            => /\ loops'[a][s].pc = lps[a][s].pc /\ loops'[a][s].gen = lps[a][s].gen
               /\ loops'[a][s].next = lps[a][s].next /\ loops'[a][s].tries = lps[a][s].tries

LEMMA KeptUnmoved == ASSUME Kept(loops) PROVE Unmoved
BY DEF Kept, Unmoved, Holding, InHeartbeat

LEMMA KeptNumbered ==
    ASSUME Kept(loops), Ledger, gen # 0, gen' = gen
    PROVE  Numbered(loops', state', gen')
BY DEF Kept, Ledger, Numbered, InHeartbeat

LEMMA SyncOnceKept ==
    ASSUME NEW st, NEW ags, NEW lps, NEW reg, NEW inf,
           Sound(ags, lps, reg), SyncOnce(st, ags, lps, reg, inf)
    PROVE  Kept(lps) /\ inFlight' = inf
<1> DEFINE new  == NeedsLoop(ags, reg)
           gone == Vanished(reg)
           slot(a) == CHOOSE s \in FreeSlots(lps, a) : TRUE
<1>1. ASSUME NEW a \in Agents, NEW s \in Slots
      PROVE  /\ loops'[a][s] = IF a \in gone
                               THEN [lps[a][s] EXCEPT !.fresh = FALSE, !.cancel = @ \/ s = reg[a]]
                               ELSE IF a \in new /\ s = slot(a) THEN Asleep
                               ELSE lps[a][s]
             /\ a \in new => lps[a][slot(a)].pc = "idle"
             /\ lps[a][s] \in LoopRecord
  BY DEF SyncOnce, FreeSlots, Sound
<1>2. ASSUME NEW a \in Agents, NEW s \in Slots
      PROVE  LET l == [lps[a][s] EXCEPT !.fresh = FALSE, !.cancel = @ \/ s = reg[a]]
             IN  /\ l.pc = lps[a][s].pc /\ l.gen = lps[a][s].gen
                 /\ l.next = lps[a][s].next /\ l.tries = lps[a][s].tries
  <2>1. lps[a][s] \in LoopRecord
    BY <1>1
  <2> QED BY <2>1 DEF LoopRecord
<1>3. Asleep.pc = "asleep"
  BY DEF Asleep, Idle
<1>4. ASSUME NEW a \in Agents, NEW s \in Slots
      PROVE  \/ /\ loops'[a][s].pc = lps[a][s].pc /\ loops'[a][s].gen = lps[a][s].gen
                /\ loops'[a][s].next = lps[a][s].next /\ loops'[a][s].tries = lps[a][s].tries
             \/ loops'[a][s].pc = "asleep" /\ lps[a][s].pc = "idle"
  <2>1. CASE a \in gone
    <3>1. loops'[a][s] = [lps[a][s] EXCEPT !.fresh = FALSE, !.cancel = @ \/ s = reg[a]]
      BY <1>1, <2>1
    <3> QED BY <1>2, <3>1
  <2>2. CASE a \notin gone
    BY <1>1, <1>3, <2>2
  <2> QED BY <2>1, <2>2
<1>5. inFlight' = inf
  BY DEF SyncOnce
<1> QED BY <1>4, <1>5 DEF Kept, InHeartbeat

LEMMA CancelKept == ASSUME IInv, CancelRegistered PROVE Kept(loops)
<1>1. ASSUME NEW a \in Agents, NEW s \in Slots
      PROVE  /\ loops'[a][s].pc = loops[a][s].pc /\ loops'[a][s].gen = loops[a][s].gen
             /\ loops'[a][s].next = loops[a][s].next /\ loops'[a][s].tries = loops[a][s].tries
  <2>1. loops'[a][s] = IF s = registry[a] /\ loops[a][s].pc # "idle"
                       THEN [loops[a][s] EXCEPT !.cancel = TRUE]
                       ELSE loops[a][s]
    BY DEF CancelRegistered
  <2>2. loops[a][s] \in LoopRecord
    BY DEF IInv, Sound
  <2> QED BY <2>1, <2>2 DEF LoopRecord
<1> QED BY <1>1 DEF Kept

(* initialize() and start() leave the heartbeats under way as they are.    *)
LEMMA InitializeKept ==
    ASSUME IInv, InitializeAndStart
    PROVE  Kept(loops) /\ inFlight' = 0
<1> DEFINE stale == [a \in Agents |-> [s \in Slots |-> [loops[a][s] EXCEPT !.fresh = FALSE]]]
           ags0 == [a \in Agents |-> Absent]
           reg0 == [a \in Agents |-> NoLoop]
<1>0. /\ loops \in [Agents -> [Slots -> LoopRecord]]
      /\ \A a \in Agents, s \in Slots : InHeartbeat(loops[a][s]) => loops[a][s].next <= Cap
  BY DEF IInv, Sound
<1>1. ASSUME NEW a \in Agents, NEW s \in Slots
      PROVE  /\ stale[a][s] \in LoopRecord
             /\ stale[a][s].pc = loops[a][s].pc /\ stale[a][s].next = loops[a][s].next
             /\ stale[a][s].gen = loops[a][s].gen /\ stale[a][s].tries = loops[a][s].tries
             /\ ~stale[a][s].fresh
  <2>1. loops[a][s] \in LoopRecord
    BY <1>0
  <2> QED BY <2>1 DEF LoopRecord
<1>2. stale \in [Agents -> [Slots -> LoopRecord]]
  BY <1>1
<1>3. SyncOnce("running", ags0, stale, reg0, 0)
  BY DEF InitializeAndStart
<1> HIDE DEF stale
<1>4. Sound(ags0, stale, reg0)
  BY <1>0, <1>1, <1>2 DEF Sound, InHeartbeat
<1> HIDE DEF ags0, reg0
<1>5. Kept(stale) /\ inFlight' = 0
  BY <1>3, <1>4, SyncOnceKept
<1>6. Kept(loops)
  BY <1>1, <1>5 DEF Kept, InHeartbeat
<1> QED BY <1>5, <1>6

(* A new semaphore: nobody holds a permit of it, and the counter starts    *)
(* from zero under whoever holds one of an older semaphore.                *)
LEMMA InitializeLedger ==
    ASSUME IInv, Ledger, InitializeAndStart, gen + 1 \in Gens
    PROVE  Ledger'
<1>0. /\ loops \in [Agents -> [Slots -> LoopRecord]] /\ gen \in Nat
      /\ permits \in [Gens -> Nat] /\ MaxParallel \in Nat /\ MaxOps \in Nat
  BY SchedulerAssumption DEF IInv, Sound, Scalars, Gens
<1>5. inFlight' = 0
  BY InitializeKept
<1>6. Kept(loops)
  BY InitializeKept
<1>7. HoldersIn(loops') = HoldersIn(loops) /\ \A g : HeldIn(loops', g) = HeldIn(loops, g)
  BY <1>6, KeptUnmoved, SameHolders DEF Unmoved
<1>8. gen' = gen + 1 /\ permits' = [permits EXCEPT ![gen + 1] = MaxParallel]
  BY DEF InitializeAndStart
<1>9. HeldIn(loops, gen + 1) = {}
  <2>1. \A a \in Agents, s \in Slots : Holding(loops[a][s]) => loops[a][s].gen # gen + 1
    <3> TAKE a \in Agents, s \in Slots
    <3> HAVE Holding(loops[a][s])
    <3>1. loops[a][s].gen <= gen /\ loops[a][s].gen \in Nat
      BY <1>0 DEF Ledger, Numbered, Holding, InHeartbeat, LoopRecord, Gens
    <3> QED BY <1>0, <3>1
  <2> QED BY <2>1 DEF HeldIn, HoldersIn
<1>10. ASSUME NEW g \in 1..(gen + 1)
       PROVE  permits'[g] + Cardinality(HeldIn(loops', g)) = MaxParallel
  <2>1. CASE g = gen + 1
    <3>1. permits'[g] = MaxParallel
      BY <1>0, <1>8, <2>1
    <3>2. HeldIn(loops', g) = {} /\ Cardinality({}) = 0
      BY <1>7, <1>9, <2>1, FS_EmptySet
    <3> QED BY <1>0, <3>1, <3>2
  <2>2. CASE g # gen + 1
    <3>1. g \in 1..gen /\ g \in Gens
      BY <1>0, <2>2 DEF Gens
    <3>2. permits'[g] = permits[g]
      BY <1>0, <1>8, <2>2, <3>1
    <3> QED BY <1>7, <3>1, <3>2 DEF Ledger, Balanced
  <2> QED BY <2>1, <2>2
<1>11. /\ inFlight' <= Cardinality(HoldersIn(loops'))
       /\ gen + 1 <= 1 => inFlight' = Cardinality(HoldersIn(loops'))
  <2>1. CASE gen = 0
    <3>1. HoldersIn(loops) = {}
      BY <2>1 DEF Ledger, Numbered, HoldersIn, Holding
    <3> QED BY <1>5, <1>7, <3>1, FS_EmptySet
  <2>2. CASE gen # 0
    <3>1. Cardinality(HoldersIn(loops')) \in Nat
      BY HoldersFinite
    <3> QED BY <1>0, <1>5, <2>2, <3>1
  <2> QED BY <2>1, <2>2
<1>12. Balanced(permits', loops', inFlight', gen')
  BY <1>8, <1>10, <1>11 DEF Balanced
<1>13. Numbered(loops', state', gen')
  <2>1. ASSUME NEW a \in Agents, NEW s \in Slots, InHeartbeat(loops'[a][s])
        PROVE  loops'[a][s].gen <= gen + 1
    <3>1. InHeartbeat(loops[a][s]) /\ loops'[a][s].gen = loops[a][s].gen
      BY <1>6, <2>1 DEF Kept, InHeartbeat
    <3>2. loops[a][s].gen <= gen /\ loops[a][s].gen \in Nat
      BY <1>0, <3>1 DEF Ledger, Numbered, LoopRecord, Gens
    <3> QED BY <1>0, <3>1, <3>2
  <2>2. gen + 1 # 0
    BY <1>0
  <2> QED BY <1>8, <2>1, <2>2 DEF Numbered
<1> QED BY <1>12, <1>13 DEF Ledger

LEMMA ControlLedger ==
    ASSUME IInv, Ledger,
           \/ Start \/ Resume \/ Pause
           \/ BeginStop \/ EndStop \/ BeginRestart \/ EndRestart
    PROVE  Ledger'
<1>0. /\ ops \in 0..MaxOps /\ gen \in Gens /\ restarts \in Nat /\ gen + restarts <= ops
      /\ MaxOps \in Nat /\ gen \in Nat /\ ops \in Nat
  BY SchedulerAssumption DEF IInv, Scalars, Gens
<1>1. CASE Start
  <2>1. gen + 1 \in Gens
    BY <1>0, <1>1 DEF Start, Op, Gens
  <2> QED BY <1>1, <2>1, InitializeLedger DEF Start
<1>2. CASE EndRestart /\ InitializeAndStart
  <2>1. gen + 1 \in Gens
    BY <1>0, <1>2 DEF EndRestart, Gens
  <2> QED BY <1>2, <2>1, InitializeLedger
<1>3. CASE CancelRegistered /\ state # "stopped" /\ UNCHANGED <<permits, inFlight, gen>>
  <2>1. gen # 0
    BY <1>3 DEF Ledger, Numbered
  <2> QED BY <1>3, <2>1, CancelKept, KeptUnmoved, UnmovedBalanced, KeptNumbered DEF Ledger
<1>4. CASE UNCHANGED <<loops, permits, inFlight, gen>> /\ (state' = "stopped" \/ state # "stopped")
  BY <1>4 DEF Ledger, Balanced, Numbered, HoldersIn, HeldIn
<1>5. CASE Pause \/ BeginStop \/ BeginRestart
  BY <1>3, <1>5 DEF Pause, BeginStop, BeginRestart
<1>6. CASE Resume \/ EndStop \/ (EndRestart /\ ~InitializeAndStart)
  BY <1>4, <1>6 DEF Resume, EndStop, EndRestart
<1> QED BY <1>1, <1>2, <1>5, <1>6

LEMMA SyncLedger ==
    ASSUME IInv, Ledger, SyncTurn \/ SyncExit \/ ResumeSync
    PROVE  Ledger'
<1>1. CASE /\ state = "running" /\ SyncOnce(state, agents, loops, registry, inFlight)
           /\ UNCHANGED <<permits, gen>>
  <2>1. gen # 0
    BY <1>1 DEF Ledger, Numbered
  <2>2. Kept(loops) /\ inFlight' = inFlight
    BY <1>1, SyncOnceKept DEF IInv
  <2> QED BY <1>1, <2>1, <2>2, KeptUnmoved, UnmovedBalanced, KeptNumbered DEF Ledger
<1>2. CASE UNCHANGED <<state, loops, permits, inFlight, gen>>
  BY <1>2 DEF Ledger, Balanced, Numbered, HoldersIn, HeldIn
<1> QED BY <1>1, <1>2 DEF SyncTurn, SyncExit, ResumeSync

LEMMA LedgerInvariance == Spec => [](IInv /\ Ledger)
<1>1. Init => IInv /\ Ledger
  <2> SUFFICES ASSUME Init PROVE Ledger
    BY InitIInv
  <2>1. \A a \in Agents, s \in Slots : loops[a][s].pc = "idle"
    BY DEF Init, Idle
  <2>2. HoldersIn(loops) = {}
    BY <2>1 DEF HoldersIn, Holding
  <2>3. Cardinality(HoldersIn(loops)) = 0
    BY <2>2, FS_EmptySet
  <2>4. gen = 0 /\ inFlight = 0 /\ state = "stopped"
    BY DEF Init
  <2> QED BY <2>1, <2>3, <2>4 DEF Ledger, Balanced, Numbered, InHeartbeat
<1>2. IInv /\ Ledger /\ [Next]_vars => IInv' /\ Ledger'
  <2> SUFFICES ASSUME IInv, Ledger, [Next]_vars PROVE Ledger'
    BY StepIInv
  <2>1. ASSUME NEW a \in Agents, NEW s \in Slots, LoopStep(a, s) PROVE Ledger'
    BY <2>1, LoopLedger
  <2>2. CASE SyncTurn \/ SyncExit \/ ResumeSync
    BY <2>2, SyncLedger
  <2>3. CASE \/ Start \/ Resume \/ Pause
             \/ BeginStop \/ EndStop \/ BeginRestart \/ EndRestart
    BY <2>3, ControlLedger
  <2>4. CASE ChangeDirectories \/ UNCHANGED vars
    BY <2>4 DEF ChangeDirectories, vars, Ledger, Balanced, Numbered, HoldersIn, HeldIn
  <2> QED BY <2>1, <2>2, <2>3, <2>4 DEF Next
<1> QED BY <1>1, <1>2, PTL DEF Spec

(* Each semaphore ever created accounts for all its permits: no failure,   *)
(* retry, cancellation or restart loses one or returns it to another.      *)
THEOREM PermitsAreConserved == Spec => []PermitConservation
<1>1. Ledger => PermitConservation
  BY DEF Ledger, Balanced, PermitConservation, Holders, HeldIn, HoldersIn
<1> QED BY <1>1, LedgerInvariance, PTL

(* The in-flight counter never exceeds the heartbeats under way, and is    *)
(* exact until a second initialize().                                      *)
THEOREM InFlightNeverExceeds == Spec => []InFlightCounts
<1>1. Ledger => InFlightCounts
  BY DEF Ledger, Balanced, InFlightCounts, Holders, HoldersIn
<1> QED BY <1>1, LedgerInvariance, PTL

-----------------------------------------------------------------------------
(* RunningIsSynced.                                                        *)

(* No coroutine makes a scheduler run that does not.                       *)
NotStarted == state' = "running" => state = "running"

LEMMA MaybeStopOnlyStops ==
  ASSUME NEW st, NEW ags, NEW lps, NEW reg, NEW inf
  PROVE  MaybeStop(st, ags, lps, reg, inf) = "running" => st = "running"
BY DEF MaybeStop

LEMMA FinishNotStarts ==
  ASSUME NEW a, NEW s, NEW st, NEW ags, NEW inf, Finish(a, s, st, ags, inf)
  PROVE  state' = "running" => st = "running"
BY MaybeStopOnlyStops DEF Finish

LEMMA ConcludeNotStarts ==
  ASSUME NEW a, NEW s, NEW ok, NEW ags, NEW inf, Conclude(a, s, ok, ags, inf)
  PROVE  NotStarted
<1> DEFINE ags1 == IF ags[a] = Absent THEN ags ELSE [ags EXCEPT ![a] = Updated(@, ok)]
           st1  == MaybeStop(state, ags1, loops, registry, inf)
<1>1. st1 = "running" => state = "running"
  BY MaybeStopOnlyStops
<1>2. \/ Finish(a, s, st1, ags1, inf)
      \/ Finish(a, s, st1, [ags1 EXCEPT ![a].status = "completed"], inf)
      \/ state' = st1
  BY DEF Conclude
<1> HIDE DEF st1, ags1
<1>3. state' = "running" => st1 = "running"
  BY <1>2, FinishNotStarts
<1> QED BY <1>1, <1>3 DEF NotStarted

LEMMA LoopNotStarts ==
  ASSUME NEW a, NEW s, LoopStep(a, s)
  PROVE  NotStarted /\ UNCHANGED <<syncOwned, stops, restarts>>
<1>1. UNCHANGED <<syncOwned, stops, restarts>>
  BY DEF LoopStep, Wake, Admit, CallAnswered, CallFail, BackoffDone, DeliverCancel, syncs, control
<1>2. \/ \E ags, inf : Finish(a, s, state, ags, inf)
      \/ \E ok, ags, inf : Conclude(a, s, ok, ags, inf)
      \/ UNCHANGED state
  BY DEF LoopStep, Wake, Admit, CallAnswered, CallFail, BackoffDone, DeliverCancel
<1>3. NotStarted
  BY <1>2, FinishNotStarts, ConcludeNotStarts DEF NotStarted
<1> QED BY <1>1, <1>3

LEMMA SyncedNext == TypeOK /\ RunningIsSynced /\ [Next]_vars => RunningIsSynced'
<1> SUFFICES ASSUME TypeOK, RunningIsSynced, [Next]_vars PROVE RunningIsSynced'
  OBVIOUS
<1>0. stops \in Nat /\ restarts \in Nat
  BY DEF TypeOK
<1>1. ASSUME NotStarted, UNCHANGED <<syncOwned, stops, restarts>> PROVE RunningIsSynced'
  BY <1>1 DEF NotStarted, RunningIsSynced
<1>2. ASSUME NEW a \in Agents, NEW s \in Slots, LoopStep(a, s) PROVE RunningIsSynced'
  BY <1>1, <1>2, LoopNotStarts
<1>3. CASE SyncTurn \/ ResumeSync
  BY <1>1, <1>3, MaybeStopOnlyStops DEF SyncTurn, ResumeSync, SyncOnce, NotStarted, syncs, control
<1>4. CASE state' # "running"
  BY <1>4 DEF RunningIsSynced
<1>5. CASE syncOwned'
  BY <1>5 DEF RunningIsSynced
<1>6. CASE BeginStop \/ BeginRestart
  BY <1>0, <1>6 DEF BeginStop, BeginRestart, RunningIsSynced
<1>7. CASE UNCHANGED <<state, syncOwned, stops, restarts>>
  BY <1>7 DEF RunningIsSynced
<1> QED
  BY <1>2, <1>3, <1>4, <1>5, <1>6, <1>7 DEF Next, SyncExit, Start, Resume, Pause, EndStop, EndRestart,
     InitializeAndStart, ChangeDirectories, vars, syncs, control

(* While the scheduler runs, it has a sync loop of its own, or a request   *)
(* to stop or to start anew is under way.                                  *)
THEOREM RunningSchedulerSyncs == Spec => []RunningIsSynced
<1>1. Init => RunningIsSynced
  BY DEF Init, RunningIsSynced
<1> QED BY <1>1, TypeCorrect, SyncedNext, PTL DEF Spec

-----------------------------------------------------------------------------
(* The scheduler implements HeartbeatService.  What the refinement rests   *)
(* on, besides the ledger: heartbeats have a number, a semaphore, and as   *)
(* many attempts as they may have; one that waits for its next attempt has *)
(* one left.                                                               *)
Tried(lps) ==
    \A a \in Agents, s \in Slots :
        LET l == lps[a][s]
        IN  /\ InHeartbeat(l) => l.gen # 0 /\ l.next # 0
            /\ Holding(l) => l.tries \in 1..Retries
            /\ l.pc = "backoff" => l.tries < Retries

(* How a step that is not a request may change the state: not at all, or   *)
(* the scheduler stops by itself, with its counter at zero.                *)
Stopping == state' = state \/ (state = "running" /\ state' = "stopped" /\ inFlight' = 0)

LEMMA MaybeStopStops ==
  ASSUME NEW ags, NEW lps, NEW reg, NEW inf
  PROVE  \/ MaybeStop(state, ags, lps, reg, inf) = state
         \/ state = "running" /\ MaybeStop(state, ags, lps, reg, inf) = "stopped" /\ inf = 0
BY DEF MaybeStop

LEMMA StoppedStays ==
  ASSUME NEW ags, NEW lps, NEW reg, NEW inf
  PROVE  MaybeStop("stopped", ags, lps, reg, inf) = "stopped"
BY DEF MaybeStop

LEMMA FinishStops ==
  ASSUME NEW a, NEW s, NEW ags, NEW inf, Finish(a, s, state, ags, inf)
  PROVE  Stopping
BY MaybeStopStops DEF Finish, Stopping

LEMMA ConcludeStops ==
  ASSUME NEW a, NEW s, NEW ok, NEW ags, NEW inf, Conclude(a, s, ok, ags, inf)
  PROVE  Stopping
<1> DEFINE ags1 == IF ags[a] = Absent THEN ags ELSE [ags EXCEPT ![a] = Updated(@, ok)]
           st1  == MaybeStop(state, ags1, loops, registry, inf)
<1>1. st1 = state \/ (state = "running" /\ st1 = "stopped" /\ inf = 0)
  BY MaybeStopStops
<1>2. \/ Finish(a, s, st1, ags1, inf)
      \/ Finish(a, s, st1, [ags1 EXCEPT ![a].status = "completed"], inf)
      \/ state' = st1 /\ inFlight' = inf
  BY DEF Conclude
<1> HIDE DEF st1, ags1
<1>3. CASE st1 = state
  BY <1>2, <1>3, FinishStops DEF Stopping
<1>4. CASE state = "running" /\ st1 = "stopped" /\ inf = 0
  BY <1>2, <1>4, StoppedStays DEF Finish, Stopping
<1> QED BY <1>1, <1>3, <1>4

(* What a step of a loop does to it.                                       *)
Rests(a, s) == Stopping /\ \E l \in {Idle, Asleep} : loops' = [loops EXCEPT ![a][s] = l]
Queues(a, s) ==
    \E l \in LoopRecord :
        /\ l.pc = "queued" /\ l.gen = gen /\ l.next # 0 /\ state' = state
        /\ ~Holding(loops[a][s]) /\ loops' = [loops EXCEPT ![a][s] = l]
Enters(a, s) ==
    \E l \in LoopRecord :
        /\ l.pc = "calling" /\ l.tries = 1 /\ l.gen \in 1..gen /\ l.next \in 1..Cap
        /\ permits[l.gen] > 0 /\ state = "running" /\ state' = state
        /\ ~Holding(loops[a][s]) /\ loops' = [loops EXCEPT ![a][s] = l]
BacksOff(a, s) ==
    /\ loops[a][s].pc = "calling" /\ loops[a][s].tries < Retries /\ state' = state
    /\ loops' = [loops EXCEPT ![a][s] = [loops[a][s] EXCEPT !.pc = "backoff"]]
Repeats(a, s) ==
    /\ loops[a][s].pc = "backoff" /\ state = "running" /\ state' = state
    /\ loops' = [loops EXCEPT ![a][s] = [loops[a][s] EXCEPT !.pc = "calling",
                                                  !.tries = loops[a][s].tries + 1]]

LEMMA WakeForms ==
  ASSUME IInv, Ledger, NEW a \in Agents, NEW s \in Slots, Wake(a, s)
  PROVE  Rests(a, s) \/ Queues(a, s) \/ Enters(a, s)
<1>0. loops[a][s].pc = "asleep" /\ ~Holding(loops[a][s])
  BY DEF Wake, Holding
<1>1. ASSUME NEW ags, Finish(a, s, state, ags, inFlight) PROVE Rests(a, s)
  BY <1>1, FinishStops, ConcludeLoops DEF Rests
<1>2. CASE state = "running" /\ ~Capped(agents[a])
  <2> DEFINE r == IF agents[a] = Absent THEN NewAgent ELSE agents[a]
             l == [pc |-> "queued", cancel |-> FALSE, fresh |-> TRUE,
                   next |-> r.index + 1, tries |-> 0, gen |-> gen]
  <2>1. r \in AgentState /\ r.index \in Nat /\ r.index < Cap
    <3>1. r \in AgentState /\ NewAgent.index = 0
      BY RecordFacts DEF IInv, Sound
    <3>2. r.index \in Nat
      BY <3>1 DEF AgentState
    <3> QED BY <1>2, <3>1, <3>2, SchedulerAssumption DEF Capped
  <2>2. gen \in Gens /\ gen \in 1..gen
    BY <1>0, SchedulerAssumption DEF IInv, Scalars, Gens, Ledger, Numbered
  <2>3. r.index + 1 \in 1..Cap /\ r.index + 1 \in Nat
    BY <2>1, SchedulerAssumption
  <2>4. l \in LoopRecord /\ l.pc = "queued" /\ l.gen = gen /\ l.next # 0
    BY <2>2, <2>3 DEF LoopRecord
  <2>5. /\ EnterCall(l) \in LoopRecord /\ EnterCall(l).pc = "calling" /\ EnterCall(l).tries = 1
        /\ EnterCall(l).gen = gen /\ EnterCall(l).next = r.index + 1
    BY <2>2, <2>3 DEF LoopRecord, EnterCall
  <2>6. /\ state' = state
        /\ \/ SemaphoreFree(gen) /\ loops' = [loops EXCEPT ![a][s] = EnterCall(l)]
           \/ loops' = [loops EXCEPT ![a][s] = l]
    BY <1>2 DEF Wake
  <2> HIDE DEF l, r
  <2>7. CASE SemaphoreFree(gen) /\ loops' = [loops EXCEPT ![a][s] = EnterCall(l)]
    BY <1>0, <1>2, <2>2, <2>3, <2>5, <2>6, <2>7 DEF Enters, SemaphoreFree
  <2>8. CASE loops' = [loops EXCEPT ![a][s] = l]
    BY <1>0, <2>4, <2>6, <2>8 DEF Queues
  <2> QED BY <2>6, <2>7, <2>8
<1> QED BY <1>1, <1>2 DEF Wake

LEMMA LoopForms ==
  ASSUME IInv, Ledger, Tried(loops), NEW a \in Agents, NEW s \in Slots, LoopStep(a, s)
  PROVE  \/ Rests(a, s) \/ Queues(a, s) \/ Enters(a, s)
         \/ BacksOff(a, s) \/ Repeats(a, s)
<1> DEFINE l == loops[a][s]
<1>0. l \in LoopRecord
  BY DEF IInv, Sound
<1>1. ASSUME NEW ags, NEW inf, Finish(a, s, state, ags, inf) PROVE Rests(a, s)
  BY <1>1, FinishStops, ConcludeLoops DEF Rests
<1>2. ASSUME NEW ok, NEW ags, NEW inf, Conclude(a, s, ok, ags, inf) PROVE Rests(a, s)
  BY <1>2, ConcludeStops, ConcludeLoops DEF Rests
<1>3. CASE Wake(a, s)
  BY <1>3, WakeForms
<1>4. CASE Admit(a, s)
  <2>1. l.pc = "queued" /\ permits[l.gen] > 0
    BY <1>4 DEF Admit
  <2>2. l.gen \in 1..gen /\ l.next \in 1..Cap
    BY <1>0, <2>1, SchedulerAssumption DEF InHeartbeat, IInv, Sound, Scalars, Ledger, Numbered,
       Tried, LoopRecord, Gens
  <2>3. /\ EnterCall(l) \in LoopRecord /\ EnterCall(l).pc = "calling" /\ EnterCall(l).tries = 1
        /\ EnterCall(l).gen = l.gen /\ EnterCall(l).next = l.next
    BY <1>0 DEF EnterCall, LoopRecord
  <2>4. CASE state = "running" /\ loops' = [loops EXCEPT ![a][s] = EnterCall(l)] /\ state' = state
    BY <2>1, <2>2, <2>3, <2>4 DEF Enters, Holding
  <2> QED BY <1>2, <1>4, <2>4 DEF Admit
<1>5. CASE CallAnswered(a, s)
  BY <1>2, <1>5 DEF CallAnswered
<1>6. CASE CallFail(a, s)
  <2>1. CASE l.tries < Retries /\ loops' = [loops EXCEPT ![a][s].pc = "backoff"] /\ state' = state
    BY <1>0, <1>6, <2>1 DEF BacksOff, CallFail
  <2> QED BY <1>2, <1>6, <2>1 DEF CallFail
<1>7. CASE BackoffDone(a, s)
  <2>1. CASE /\ state = "running" /\ state' = state
             /\ loops' = [loops EXCEPT ![a][s].pc = "calling", ![a][s].tries = @ + 1]
    <3>1. loops' = [loops EXCEPT ![a][s] = [l EXCEPT !.pc = "calling", !.tries = l.tries + 1]]
      BY <1>0, <2>1 DEF IInv, Sound, LoopRecord
    <3> QED BY <1>7, <2>1, <3>1 DEF Repeats, BackoffDone
  <2> QED BY <1>2, <1>7, <2>1 DEF BackoffDone
<1>8. CASE DeliverCancel(a, s)
  BY <1>1, <1>2, <1>8 DEF DeliverCancel
<1> QED BY <1>3, <1>4, <1>5, <1>6, <1>7, <1>8 DEF LoopStep

LEMMA SyncOnceState ==
  ASSUME NEW st, NEW ags, NEW lps, NEW reg, NEW inf, SyncOnce(st, ags, lps, reg, inf)
  PROVE  state' = MaybeStop(st, agents', loops', registry', inf) /\ inFlight' = inf
BY DEF SyncOnce

(* Steps that are no loop's keep every heartbeat, and change the state as  *)
(* the service may.                                                        *)
LEMMA SyncForms ==
  ASSUME IInv, SyncTurn \/ SyncExit \/ ResumeSync
  PROVE  Kept(loops) /\ Stopping /\ gen' = gen
<1>1. CASE SyncOnce(state, agents, loops, registry, inFlight) /\ gen' = gen
  <2>1. /\ state' = MaybeStop(state, agents', loops', registry', inFlight)
        /\ inFlight' = inFlight
    BY <1>1, SyncOnceState
  <2>2. Stopping
    BY <2>1, MaybeStopStops DEF Stopping
  <2> QED BY <1>1, <2>2, SyncOnceKept DEF IInv
<1>2. CASE UNCHANGED <<state, loops, gen>>
  BY <1>2 DEF Kept, Stopping
<1> QED BY <1>1, <1>2 DEF SyncTurn, SyncExit, ResumeSync

(* No agent is finished when all have just got their AgentState.           *)
LEMMA InitializeRuns ==
  ASSUME InitializeAndStart
  PROVE  state' = "running" /\ gen' = gen + 1
<1> DEFINE stale == [a \in Agents |-> [s \in Slots |-> [loops[a][s] EXCEPT !.fresh = FALSE]]]
           ags0 == [a \in Agents |-> Absent]
           reg0 == [a \in Agents |-> NoLoop]
<1>1. SyncOnce("running", ags0, stale, reg0, 0) /\ gen' = gen + 1
  BY DEF InitializeAndStart
<1>2. Vanished(reg0) = {}
  BY DEF Vanished
<1>3. agents' = [a \in Agents |-> IF a \notin present THEN Absent ELSE NewAgent]
  <2> HIDE DEF stale
  <2>1. \A a \in Agents : ags0[a] = Absent
    OBVIOUS
  <2> HIDE DEF ags0, reg0
  <2>2. agents' = [a \in Agents |->
                     IF a \in Vanished(reg0) THEN Absent
                     ELSE IF a \notin present THEN ags0[a]
                     ELSE IF ags0[a] = Absent THEN NewAgent
                     ELSE IF Capped(ags0[a]) THEN [ags0[a] EXCEPT !.status = "completed"]
                     ELSE ags0[a]]
    BY <1>1 DEF SyncOnce
  <2> QED BY <1>2, <2>1, <2>2
<1>4. state' = MaybeStop("running", agents', loops', registry', 0)
  <2> HIDE DEF stale, ags0, reg0
  <2> QED BY <1>1, SyncOnceState
<1>5. \A a \in Agents : agents'[a] = Absent \/ agents'[a].status = "unknown"
  BY <1>3 DEF NewAgent
<1>6. ~AllAgentsTerminal(agents')
  BY <1>5 DEF AllAgentsTerminal
<1> QED BY <1>1, <1>4, <1>6 DEF MaybeStop

LEMMA ControlForms ==
  ASSUME IInv,
         \/ Start \/ Resume \/ Pause
         \/ BeginStop \/ EndStop \/ BeginRestart \/ EndRestart
  PROVE  /\ Kept(loops)
         /\ \/ UNCHANGED <<state, gen>>
            \/ state' = "running" /\ gen' = gen + 1
            \/ state' = "stopped" /\ gen' = gen
            \/ state = "running" /\ state' = "paused" /\ gen' = gen
            \/ state = "paused" /\ state' = "running" /\ gen' = gen
<1>1. CASE InitializeAndStart
  BY <1>1, InitializeKept, InitializeRuns
<1>2. CASE Pause \/ BeginStop \/ BeginRestart
  BY <1>2, CancelKept DEF Pause, BeginStop, BeginRestart
<1>3. CASE UNCHANGED loops /\ (Resume \/ EndStop \/ (EndRestart /\ ~InitializeAndStart))
  BY <1>3 DEF Kept, Resume, EndStop, EndRestart
<1> QED BY <1>1, <1>2, <1>3 DEF Start, Resume, EndStop, EndRestart

LEMMA TriedReplaced ==
  ASSUME loops \in [Agents -> [Slots -> LoopRecord]], Tried(loops),
         NEW a \in Agents, NEW s \in Slots, NEW l, loops' = [loops EXCEPT ![a][s] = l],
         InHeartbeat(l) => l.gen # 0 /\ l.next # 0,
         Holding(l) => l.tries \in 1..Retries,
         l.pc = "backoff" => l.tries < Retries
  PROVE  Tried(loops')
<1>1. \A b \in Agents, t \in Slots : loops'[b][t] = IF b = a /\ t = s THEN l ELSE loops[b][t]
  OBVIOUS
<1> QED BY <1>1 DEF Tried

LEMMA TriedKept == ASSUME Tried(loops), Kept(loops) PROVE Tried(loops')
BY DEF Tried, Kept, Holding, InHeartbeat

LEMMA TriedLoop ==
  ASSUME IInv, Ledger, Tried(loops), NEW a \in Agents, NEW s \in Slots, LoopStep(a, s)
  PROVE  Tried(loops')
<1>0. /\ loops \in [Agents -> [Slots -> LoopRecord]] /\ loops[a][s] \in LoopRecord
      /\ Retries \in Nat /\ Retries > 0
  BY SchedulerAssumption DEF IInv, Sound
<1>1. CASE Rests(a, s)
  <2>1. PICK l \in {Idle, Asleep} : loops' = [loops EXCEPT ![a][s] = l]
    BY <1>1 DEF Rests
  <2>2. ~Holding(l) /\ ~InHeartbeat(l) /\ l.pc # "backoff"
    BY RestFacts DEF Holding
  <2> QED BY <1>0, <2>1, <2>2, TriedReplaced
<1>2. CASE Queues(a, s)
  <2>1. PICK l \in LoopRecord : /\ l.pc = "queued" /\ l.gen = gen /\ l.next # 0
                                /\ loops' = [loops EXCEPT ![a][s] = l]
    BY <1>2 DEF Queues
  <2>2. gen # 0
    <3>1. loops[a][s].pc # "idle"
      BY DEF LoopStep, Wake, Admit, CallAnswered, CallFail, BackoffDone, DeliverCancel, Holding
    <3> QED BY <3>1 DEF Ledger, Numbered
  <2>3. ~Holding(l) /\ l.pc # "backoff"
    BY <2>1 DEF Holding
  <2> QED BY <1>0, <2>1, <2>2, <2>3, TriedReplaced
<1>3. CASE Enters(a, s)
  <2>1. PICK l \in LoopRecord : /\ l.pc = "calling" /\ l.tries = 1 /\ l.gen \in 1..gen
                                /\ l.next \in 1..Cap /\ loops' = [loops EXCEPT ![a][s] = l]
    BY <1>3 DEF Enters
  <2>2. l.gen # 0 /\ l.next # 0 /\ l.tries \in 1..Retries /\ l.pc # "backoff"
    BY <1>0, <2>1
  <2> QED BY <1>0, <2>1, <2>2, TriedReplaced
<1>4. CASE BacksOff(a, s)
  <2> DEFINE l == [loops[a][s] EXCEPT !.pc = "backoff"]
  <2>1. /\ l.gen = loops[a][s].gen /\ l.next = loops[a][s].next /\ l.tries = loops[a][s].tries
        /\ loops[a][s].tries < Retries /\ Holding(loops[a][s]) /\ InHeartbeat(loops[a][s])
        /\ loops' = [loops EXCEPT ![a][s] = l]
    BY <1>0, <1>4 DEF BacksOff, LoopRecord, Holding, InHeartbeat
  <2> HIDE DEF l
  <2>2. l.gen # 0 /\ l.next # 0 /\ l.tries \in 1..Retries /\ l.tries < Retries
    BY <2>1 DEF Tried
  <2> QED BY <1>0, <2>1, <2>2, TriedReplaced
<1>5. CASE Repeats(a, s)
  <2> DEFINE l == [loops[a][s] EXCEPT !.pc = "calling", !.tries = loops[a][s].tries + 1]
  <2>1. /\ l.gen = loops[a][s].gen /\ l.next = loops[a][s].next
        /\ l.tries = loops[a][s].tries + 1 /\ l.pc = "calling"
        /\ loops[a][s].pc = "backoff" /\ Holding(loops[a][s]) /\ InHeartbeat(loops[a][s])
        /\ loops' = [loops EXCEPT ![a][s] = l]
    BY <1>0, <1>5 DEF Repeats, LoopRecord, Holding, InHeartbeat
  <2> HIDE DEF l
  <2>2. /\ l.gen # 0 /\ l.next # 0
        /\ loops[a][s].tries \in 1..Retries /\ loops[a][s].tries < Retries
    BY <2>1 DEF Tried
  <2>3. l.tries \in 1..Retries /\ l.pc # "backoff"
    BY <1>0, <2>1, <2>2
  <2> QED BY <1>0, <2>1, <2>2, <2>3, TriedReplaced
<1> QED BY <1>1, <1>2, <1>3, <1>4, <1>5, LoopForms

LEMMA TriedNext == IInv /\ Ledger /\ Tried(loops) /\ [Next]_vars => Tried(loops)'
<1> SUFFICES ASSUME IInv, Ledger, Tried(loops), [Next]_vars PROVE Tried(loops')
  OBVIOUS
<1>1. ASSUME NEW a \in Agents, NEW s \in Slots, LoopStep(a, s) PROVE Tried(loops')
  BY <1>1, TriedLoop
<1>2. CASE SyncTurn \/ SyncExit \/ ResumeSync
  BY <1>2, SyncForms, TriedKept
<1>3. CASE \/ Start \/ Resume \/ Pause
           \/ BeginStop \/ EndStop \/ BeginRestart \/ EndRestart
  BY <1>3, ControlForms, TriedKept
<1>4. CASE ChangeDirectories \/ UNCHANGED vars
  BY <1>4 DEF ChangeDirectories, vars
<1> QED BY <1>1, <1>2, <1>3, <1>4 DEF Next

LEMMA OpenReplaced ==
  ASSUME loops \in [Agents -> [Slots -> LoopRecord]],
         NEW a \in Agents, NEW s \in Slots, NEW l, loops' = [loops EXCEPT ![a][s] = l]
  PROVE  Open' = [Open EXCEPT ![<<a, s>>] = Seen(l)]
<1>1. \A x \in Agents \X Slots :
         loops'[x[1]][x[2]] = IF x = <<a, s>> THEN l ELSE loops[x[1]][x[2]]
  <2>1. \A b \in Agents, t \in Slots : loops'[b][t] = IF b = a /\ t = s THEN l ELSE loops[b][t]
    OBVIOUS
  <2> QED BY <2>1
<1>2. \A x \in Agents \X Slots :
         Seen(loops'[x[1]][x[2]]) = IF x = <<a, s>> THEN Seen(l) ELSE Seen(loops[x[1]][x[2]])
  BY <1>1
<1> QED BY <1>2 DEF Open

LEMMA OpenKept == ASSUME Kept(loops) PROVE Open' = Open
<1>1. \A a \in Agents, s \in Slots : Seen(loops'[a][s]) = Seen(loops[a][s])
  BY DEF Kept, Seen, Holding, InHeartbeat
<1>2. \A x \in Agents \X Slots : Seen(loops'[x[1]][x[2]]) = Seen(loops[x[1]][x[2]])
  BY <1>1
<1> QED BY <1>2 DEF Open

(* What the service sees of a loop.                                        *)
LEMMA OpenFacts ==
  ASSUME Tried(loops)
  PROVE  /\ \A a \in Agents, s \in Slots :
               /\ Open[<<a, s>>] = Seen(loops[a][s])
               /\ Open[<<a, s>>] # NoHeartbeat <=> Holding(loops[a][s])
         /\ \A e : Service!UnderWay(e) = HeldIn(loops, e)
         /\ HoldersIn(loops) = {} => \A x \in Agents \X Slots : Open[x] = NoHeartbeat
<1>1. ASSUME NEW a \in Agents, NEW s \in Slots
      PROVE  /\ Open[<<a, s>>] = Seen(loops[a][s])
             /\ Seen(loops[a][s]) # NoHeartbeat <=> Holding(loops[a][s])
             /\ Holding(loops[a][s]) => Seen(loops[a][s]).epoch = loops[a][s].gen
  <2>1. Holding(loops[a][s]) => loops[a][s].tries # 0
    BY SchedulerAssumption DEF Tried
  <2> QED BY <2>1 DEF Open, Seen, NoHeartbeat
<1>2. \A x \in Agents \X Slots :
         /\ Open[x] = Seen(loops[x[1]][x[2]])
         /\ Open[x] # NoHeartbeat <=> Holding(loops[x[1]][x[2]])
         /\ Holding(loops[x[1]][x[2]]) => Open[x].epoch = loops[x[1]][x[2]].gen
  BY <1>1
<1>3. \A e : Service!UnderWay(e) = HeldIn(loops, e)
  BY <1>2 DEF Service!UnderWay, Service!None, NoHeartbeat, HeldIn, HoldersIn
<1>4. HoldersIn(loops) = {} => \A x \in Agents \X Slots : Open[x] = NoHeartbeat
  BY <1>2 DEF HoldersIn
<1> QED BY <1>1, <1>3, <1>4

(* A stop of its own is one the service may make: the counter is exact in  *)
(* the first epoch.                                                        *)
LEMMA StoppingIsAllowed ==
  ASSUME Ledger', Tried(loops'), Stopping, gen' = gen
  PROVE  UNCHANGED state \/ Service!StopsItself
<1>1. SUFFICES ASSUME state = "running", state' = "stopped", inFlight' = 0, gen = 1
               PROVE  \A x \in Agents \X Slots : Open'[x] = NoHeartbeat
  BY DEF Stopping, Service!StopsItself, Service!None, NoHeartbeat
<1>2. Cardinality(HoldersIn(loops')) = 0
  BY <1>1 DEF Ledger, Balanced
<1>3. HoldersIn(loops') = {}
  BY <1>2, HoldersFinite, FS_EmptySet
<1>4. ASSUME NEW a \in Agents, NEW s \in Slots PROVE Seen(loops'[a][s]) = NoHeartbeat
  <2>1. <<a, s>> \notin HoldersIn(loops')
    BY <1>3
  <2>2. ~Holding(loops'[a][s])
    BY <2>1 DEF HoldersIn
  <2> QED BY <2>2 DEF Seen
<1>5. \A x \in Agents \X Slots : Seen(loops'[x[1]][x[2]]) = NoHeartbeat
  BY <1>4
<1> QED BY <1>5 DEF Open

LEMMA SameCardinality == \A S : Service!Cardinality(S) = Cardinality(S)
BY DEF Service!Cardinality, Cardinality

LEMMA LoopKeepsService ==
  ASSUME IInv, Ledger, Tried(loops), Ledger', Tried(loops'),
         NEW a \in Agents, NEW s \in Slots, LoopStep(a, s)
  PROVE  [Service!Next]_(Service!vars)
<1> DEFINE x == <<a, s>>
           h == loops[a][s]
<1>l. loops \in [Agents -> [Slots -> LoopRecord]] /\ h \in LoopRecord
  BY DEF IInv, Sound
<1>g. gen' = gen
  BY DEF LoopStep, Wake, Admit, CallAnswered, CallFail, BackoffDone, DeliverCancel
<1>x. /\ x \in Agents \X Slots /\ Open[x] = Seen(h)
      /\ Open[x] # NoHeartbeat <=> Holding(h)
  BY OpenFacts
<1>o. ASSUME NEW l, loops' = [loops EXCEPT ![a][s] = l]
      PROVE  Open' = [Open EXCEPT ![x] = Seen(l)]
  BY <1>l, <1>o, OpenReplaced
<1>k. [Open EXCEPT ![x] = Open[x]] = Open
  BY DEF Open
<1> HIDE DEF x
<1>1. CASE Rests(a, s)
  <2>1. PICK l \in {Idle, Asleep} : loops' = [loops EXCEPT ![a][s] = l]
    BY <1>1 DEF Rests
  <2>2. Open' = [Open EXCEPT ![x] = NoHeartbeat]
    <3>1. Seen(l) = NoHeartbeat
      BY RestFacts DEF Seen
    <3> QED BY <1>o, <2>1, <3>1
  <2>3. UNCHANGED state \/ Service!StopsItself
    BY <1>g, <1>1, StoppingIsAllowed DEF Rests
  <2>4. CASE Holding(h)
    <3>1. Service!End(x)
      BY <1>g, <1>x, <2>2, <2>3, <2>4 DEF Service!End, Service!None, NoHeartbeat
    <3> QED BY <1>x, <3>1 DEF Service!Next
  <2>5. CASE ~Holding(h)
    <3>1. Open' = Open
      BY <1>k, <1>x, <2>2, <2>5
    <3> QED BY <1>g, <2>3, <3>1 DEF Service!AutoStop, Service!Next, Service!vars
  <2> QED BY <2>4, <2>5
<1>2. CASE Queues(a, s)
  <2>1. PICK l \in LoopRecord : l.pc = "queued" /\ loops' = [loops EXCEPT ![a][s] = l]
    BY <1>2 DEF Queues
  <2>2. Seen(l) = NoHeartbeat /\ Open[x] = NoHeartbeat
    BY <1>x, <1>2, <2>1 DEF Seen, Holding, Queues
  <2>3. Open' = [Open EXCEPT ![x] = NoHeartbeat]
    BY <1>o, <2>1, <2>2
  <2> QED BY <1>g, <1>k, <1>2, <2>2, <2>3 DEF Queues, Service!vars
<1>3. CASE Enters(a, s)
  <2>1. PICK l \in LoopRecord :
           /\ l.pc = "calling" /\ l.tries = 1 /\ l.gen \in 1..gen /\ l.next \in 1..Cap
           /\ permits[l.gen] > 0 /\ loops' = [loops EXCEPT ![a][s] = l]
    BY <1>3 DEF Enters
  <2>2. Open' = [Open EXCEPT ![x] = [epoch |-> l.gen, index |-> l.next, attempts |-> 1]]
    <3>1. Seen(l) = [epoch |-> l.gen, index |-> l.next, attempts |-> 1]
      BY <2>1 DEF Seen, Holding
    <3> QED BY <1>o, <2>1, <3>1
  <2>3. Service!Cardinality(Service!UnderWay(l.gen)) < MaxParallel
    <3>1. permits[l.gen] + Cardinality(HeldIn(loops, l.gen)) = MaxParallel
      BY <2>1 DEF Ledger, Balanced
    <3>2. permits[l.gen] \in Nat /\ Cardinality(HeldIn(loops, l.gen)) \in Nat
      BY <2>1, HoldersFinite DEF IInv, Scalars, LoopRecord
    <3>3. Cardinality(HeldIn(loops, l.gen)) < MaxParallel
      BY <2>1, <3>1, <3>2
    <3> QED BY <3>3, OpenFacts, SameCardinality
  <2>4. state = "running" /\ state' = state /\ Open[x] = NoHeartbeat
    BY <1>x, <1>3 DEF Enters
  <2>5. Service!Send(x)
    <3>1. \E e \in 1..gen, i \in 1..Cap :
             /\ Service!Cardinality(Service!UnderWay(e)) < MaxParallel
             /\ Open' = [Open EXCEPT ![x] = [epoch |-> e, index |-> i, attempts |-> 1]]
      BY <2>1, <2>2, <2>3
    <3>2. Open[x] = Service!None
      BY <2>4 DEF Service!None, NoHeartbeat
    <3> QED BY <1>g, <2>4, <3>1, <3>2 DEF Service!Send
  <2> QED BY <1>x, <2>5 DEF Service!Next
<1>4. CASE BacksOff(a, s)
  <2> DEFINE l == [h EXCEPT !.pc = "backoff"]
  <2>1. Seen(l) = Seen(h)
    <3>1. /\ l.pc = "backoff" /\ h.pc = "calling" /\ l.gen = h.gen
          /\ l.next = h.next /\ l.tries = h.tries
      BY <1>l, <1>4 DEF BacksOff, LoopRecord
    <3> HIDE DEF l, h
    <3> QED BY <3>1 DEF Seen, Holding
  <2>2. Open' = [Open EXCEPT ![x] = Seen(l)]
    <3>1. loops' = [loops EXCEPT ![a][s] = l]
      BY <1>4 DEF BacksOff
    <3> HIDE DEF l
    <3> QED BY <1>o, <3>1
  <2>3. Open' = Open
    BY <1>k, <1>x, <2>1, <2>2
  <2> QED BY <1>g, <1>4, <2>3 DEF BacksOff, Service!vars
<1>5. CASE Repeats(a, s)
  <2> DEFINE l == [h EXCEPT !.pc = "calling", !.tries = h.tries + 1]
  <2>1. /\ Seen(h) = [epoch |-> h.gen, index |-> h.next, attempts |-> h.tries]
        /\ Seen(l) = [epoch |-> h.gen, index |-> h.next, attempts |-> h.tries + 1]
        /\ Holding(h) /\ h.tries < Retries
    BY <1>l, <1>5 DEF Repeats, LoopRecord, Seen, Holding, Tried
  <2>2. Open' = [Open EXCEPT ![x] = Seen(l)]
    <3>1. loops' = [loops EXCEPT ![a][s] = l]
      BY <1>5 DEF Repeats
    <3> HIDE DEF l
    <3> QED BY <1>o, <3>1
  <2> HIDE DEF l
  <2>3. Seen(l) = [Open[x] EXCEPT !.attempts = Open[x].attempts + 1]
    BY <1>x, <2>1
  <2>4. Service!Retry(x)
    <3>1. Open' = [Open EXCEPT ![x].attempts = @ + 1]
      BY <1>x, <2>2, <2>3
    <3>2. Open[x].attempts < Retries /\ Open[x] # NoHeartbeat
      BY <1>x, <2>1
    <3> QED BY <1>g, <1>5, <3>1, <3>2 DEF Repeats, Service!Retry, Service!None, NoHeartbeat
  <2> QED BY <1>x, <2>4 DEF Service!Next
<1> QED BY <1>1, <1>2, <1>3, <1>4, <1>5, LoopForms

LEMMA ServiceNext ==
  ASSUME IInv, Ledger, Tried(loops), Ledger', Tried(loops'), [Next]_vars
  PROVE  [Service!Next]_(Service!vars)
<1>1. ASSUME NEW a \in Agents, NEW s \in Slots, LoopStep(a, s)
      PROVE  [Service!Next]_(Service!vars)
  BY <1>1, LoopKeepsService
<1>2. CASE SyncTurn \/ SyncExit \/ ResumeSync
  <2>1. Open' = Open /\ gen' = gen /\ Stopping
    BY <1>2, SyncForms, OpenKept
  <2>2. UNCHANGED state \/ Service!StopsItself
    BY <2>1, StoppingIsAllowed
  <2> QED BY <2>1, <2>2 DEF Service!AutoStop, Service!Next, Service!vars
<1>3. CASE \/ Start \/ Resume \/ Pause
           \/ BeginStop \/ EndStop \/ BeginRestart \/ EndRestart
  <2>1. /\ Open' = Open
        /\ \/ UNCHANGED <<state, gen>>
           \/ state' = "running" /\ gen' = gen + 1
           \/ state' = "stopped" /\ gen' = gen
           \/ state = "running" /\ state' = "paused" /\ gen' = gen
           \/ state = "paused" /\ state' = "running" /\ gen' = gen
    BY <1>3, ControlForms, OpenKept
  <2> QED BY <2>1 DEF Service!Start, Service!Stop, Service!Pause, Service!Resume, Service!Next,
                       Service!vars
<1>4. CASE ChangeDirectories \/ UNCHANGED vars
  BY <1>4 DEF ChangeDirectories, vars, Open, Service!vars
<1> QED BY <1>1, <1>2, <1>3, <1>4 DEF Next

(* The scheduler implements HeartbeatService: initial states map to        *)
(* initial states, each step of a loop to a send, a repetition, an end or  *)
(* nothing, each request to the change of state it asks for, now or later, *)
(* and each stop of its own to one that the service may make.              *)
THEOREM ImplementsHeartbeatService == Spec => KeepsService
<1>1. Init => Service!Init /\ Tried(loops)
  <2> SUFFICES ASSUME Init PROVE Service!Init /\ Tried(loops)
    OBVIOUS
  <2>1. \A a \in Agents, s \in Slots : loops[a][s].pc = "idle"
    BY DEF Init, Idle
  <2>2. Tried(loops)
    BY <2>1 DEF Tried, Holding, InHeartbeat
  <2>3. \A x \in Agents \X Slots : Seen(loops[x[1]][x[2]]) = NoHeartbeat
    BY <2>1 DEF Seen, Holding
  <2>4. Open = [x \in Agents \X Slots |-> Service!None]
    BY <2>3 DEF Open, Service!None, NoHeartbeat
  <2>5. state = "stopped" /\ gen = 0
    BY DEF Init
  <2> QED BY <2>2, <2>4, <2>5 DEF Service!Init
<1>2. IInv /\ Ledger /\ Tried(loops) /\ [Next]_vars => Tried(loops)'
  BY TriedNext
<1>3. Spec => [](IInv /\ Ledger /\ Tried(loops))
  BY <1>1, <1>2, LedgerInvariance, PTL DEF Spec
<1>4. IInv /\ Ledger /\ Tried(loops) /\ Ledger' /\ Tried(loops)' /\ [Next]_vars
        => [Service!Next]_(Service!vars)
  BY ServiceNext
<1> QED BY <1>1, <1>3, <1>4, PTL DEF Spec, KeepsService, Service!Spec
=============================================================================
