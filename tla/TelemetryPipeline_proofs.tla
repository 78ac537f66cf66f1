----------------------- MODULE TelemetryPipeline_proofs -----------------------
(***************************************************************************)
(* Proofs about TelemetryPipeline, for any events, tasks, sizes and number *)
(* of starts and restarts.                                                 *)
(***************************************************************************)
EXTENDS TelemetryPipeline, SequenceTheorems, TLAPS

(* A coroutine that returns holds no batch.                                *)
LEMMA AfterFlushType ==
    ASSUME NEW t
    PROVE  AfterFlush(t) \in Task /\ AfterFlush(t).batch = {} /\ AfterFlush(t).pc = "ready"
BY DEF AfterFlush, Task, Ready, NoTask

LEMMA TaskFacts ==
    ASSUME NEW k \in Task
    PROVE  /\ k.batch \in SUBSET Events
           /\ k.pc # "ready" => k.batch \in Batch /\ k.kind \in {"periodic", "once", "stop"}
           /\ k.pc = "ready" => k.batch = {}
           /\ k.pc \in {"ready", "redis", "http", "posted"}
           /\ k.kind \in {"none", "periodic", "once", "stop"}
           /\ k.kind = "none" => k.batch = {} /\ k.pc = "ready"
BY DEF Task, Ready, NoTask, Batch

LEMMA WorkerFacts ==
    ASSUME NEW w \in Worker
    PROVE  /\ w.held \in SUBSET Events
           /\ w.pc = "waiting" => w = Waiting
           /\ w.pc # "waiting" => w \in [pc: {"taking", "persisting"}, taken: 1..QueueBatch, held: Batch]
BY DEF Worker, Waiting, Batch

LEMMA ReturnTypes ==
    ASSUME TypeOK, NEW t \in Tasks, Return(t)
    PROVE  /\ tasks' \in [Tasks -> Task] /\ owned' \in Tasks \cup {NoOwned}
           /\ session' \in BOOLEAN /\ starts' \in 0..MaxStarts /\ running' \in BOOLEAN
           /\ buffer' \subseteq Events /\ overdue' \in BOOLEAN
           /\ added' \subseteq Events /\ id' \in [Events -> Events]
BY AfterFlushType DEF TypeOK, Return

LEMMA GoesTypes ==
    ASSUME TypeOK, NEW t \in Tasks, NEW pc \in {"http", "posted"}, Goes(t, pc), tasks[t].pc # "ready"
    PROVE  /\ tasks' \in [Tasks -> Task] /\ owned' \in Tasks \cup {NoOwned}
           /\ session' \in BOOLEAN /\ starts' \in 0..MaxStarts /\ running' \in BOOLEAN
           /\ buffer' \subseteq Events /\ overdue' \in BOOLEAN
           /\ added' \subseteq Events /\ id' \in [Events -> Events]
           /\ UNCHANGED tally
<1>1. tasks[t] \in [kind: {"periodic", "once", "stop"}, pc: {"redis", "http", "posted"}, batch: Batch]
  BY DEF TypeOK, Task, Ready, NoTask
<1>2. [tasks[t] EXCEPT !.pc = pc] \in Task
  BY <1>1 DEF Task
<1>3. tasks' = [tasks EXCEPT ![t] = [tasks[t] EXCEPT !.pc = pc]]
  BY DEF Goes, TypeOK
<1> QED BY <1>2, <1>3 DEF TypeOK, Goes

LEMMA FlushTypes ==
    ASSUME TypeOK, NEW t \in Tasks, tasks[t].kind # "none", Flush(t)
    PROVE  /\ tasks' \in [Tasks -> Task] /\ owned' \in Tasks \cup {NoOwned}
           /\ session' \in BOOLEAN /\ starts' \in 0..MaxStarts /\ running' \in BOOLEAN
           /\ buffer' \subseteq Events /\ overdue' \in BOOLEAN
           /\ added' \subseteq Events /\ id' \in [Events -> Events]
<1>1. CASE buffer = {} /\ Return(t)
  BY <1>1, ReturnTypes
<1>2. CASE /\ buffer # {}
           /\ tasks' = [tasks EXCEPT ![t] = [kind |-> tasks[t].kind, pc |-> "redis", batch |-> buffer]]
           /\ buffer' = {} /\ overdue' = FALSE
           /\ UNCHANGED <<session, starts, running, owned, added, id>>
  <2>1. tasks[t].kind \in {"periodic", "once", "stop"}
    BY TaskFacts DEF TypeOK
  <2>2. [kind |-> tasks[t].kind, pc |-> "redis", batch |-> buffer] \in Task
    BY <1>2, <2>1 DEF Task, Batch, TypeOK
  <2> QED BY <1>2, <2>2 DEF TypeOK
<1> QED BY <1>1, <1>2 DEF Flush

LEMMA InsertTypes ==
    ASSUME TypeOK, NEW chunk \in SUBSET Events, Accepted(chunk) \/ Rejected(chunk) \/ UNCHANGED store
    PROVE  rows' \subseteq Events /\ legacy' \in [Events -> Nat] /\ runExists' \in BOOLEAN
BY DEF TypeOK, Accepted, Rejected, Insert, store

-----------------------------------------------------------------------------
LEMMA TypeInit == Init => TypeOK
<1> SUFFICES ASSUME Init PROVE TypeOK
  OBVIOUS
<1>1. NoTask \in Task
  BY DEF Task, Ready, NoTask
<1>2. Waiting \in Worker
  BY DEF Worker
<1>3. queue \in Seq(Batch)
  BY EmptySeq DEF Init
<1>4. owned \in Tasks \cup {NoOwned} /\ tasks \in [Tasks -> Task] /\ id \in [Events -> Events]
  BY <1>1 DEF Init
<1>5. legacy \in [Events -> Nat] /\ starts \in 0..MaxStarts /\ crashes \in 0..MaxCrashes
  BY PipelineAssumption DEF Init
<1> QED BY <1>2, <1>3, <1>4, <1>5 DEF Init, TypeOK

LEMMA TypeNext == TypeOK /\ [Next]_vars => TypeOK'
<1> SUFFICES ASSUME TypeOK, [Next]_vars PROVE TypeOK'
  OBVIOUS
<1> USE PipelineAssumption
<1>r. \A kind \in {"none", "periodic", "once", "stop"} : Ready(kind) \in Task
  BY DEF Task
<1>n. NoTask \in Task
  BY <1>r DEF Ready, NoTask
<1>1. CASE Start
  BY <1>1, <1>r DEF Start, TypeOK, Free, tally, store, server
<1>2. CASE AutoStop
  BY <1>2 DEF AutoStop, TypeOK, tally, store, server
<1>3. CASE BeginStop
  <2> DEFINE gone == IF owned = NoOwned THEN NoTask ELSE tasks[owned]
  <2>1. gone \in Task
    BY <1>n DEF TypeOK
  <2>2. gone.batch \in SUBSET Events /\ (gone.pc # "ready" => gone.batch \in Batch)
    BY <2>1, TaskFacts
  <2>3. queue' \in Seq(Batch) /\ posts' \subseteq Batch
    <3>1. gone.pc = "redis" => Append(queue, gone.batch) \in Seq(Batch)
      BY <2>2, AppendProperties DEF TypeOK
    <3>2. \/ UNCHANGED <<queue, posts>>
          \/ gone.pc = "redis" /\ queue' = Append(queue, gone.batch) /\ UNCHANGED posts
          \/ gone.pc = "http" /\ posts' = posts \cup {gone.batch} /\ UNCHANGED queue
      BY <1>3 DEF BeginStop
    <3> QED BY <2>2, <3>1, <3>2 DEF TypeOK
  <2>4. tasks' \in [Tasks -> Task]
    BY <1>3, <1>r, <1>n DEF BeginStop, TypeOK, Free
  <2> QED BY <1>3, <2>2, <2>3, <2>4 DEF BeginStop, TypeOK, store, server
<1>4. CASE Elapse
  BY <1>4 DEF Elapse, TypeOK, tally, store, server
<1>5. ASSUME NEW e \in Events, AddEvent(e) PROVE TypeOK'
  <2>1. id' \in [Events -> Events]
    BY <1>5 DEF AddEvent, TypeOK
  <2>2. tasks' \in [Tasks -> Task]
    <3>1. UNCHANGED tasks \/ \E t \in Free : tasks' = [tasks EXCEPT ![t] = Ready("once")]
      BY <1>5 DEF AddEvent
    <3> QED BY <3>1, <1>r DEF TypeOK, Free
  <2> QED BY <1>5, <2>1, <2>2 DEF AddEvent, TypeOK, tally, store, server
<1>6. ASSUME NEW t \in Tasks, Run(t) PROVE TypeOK'
  <2>1. /\ tasks' \in [Tasks -> Task] /\ owned' \in Tasks \cup {NoOwned}
        /\ session' \in BOOLEAN /\ starts' \in 0..MaxStarts /\ running' \in BOOLEAN
        /\ buffer' \subseteq Events /\ overdue' \in BOOLEAN
        /\ added' \subseteq Events /\ id' \in [Events -> Events]
    BY <1>6, ReturnTypes, FlushTypes DEF Run
  <2> QED BY <1>6, <2>1 DEF Run, TypeOK, tally, store, server
<1>7. ASSUME NEW t \in Tasks, Push(t) PROVE TypeOK'
  <2>1. tasks[t].batch \in Batch /\ tasks[t].pc # "ready"
    BY <1>7, TaskFacts DEF Push, TypeOK
  <2>2. queue' \in Seq(Batch)
    <3>1. Append(queue, tasks[t].batch) \in Seq(Batch)
      BY <2>1, AppendProperties DEF TypeOK
    <3> QED BY <1>7, <3>1 DEF Push, TypeOK
  <2>3. CASE Sent(t) /\ UNCHANGED disturbed
    <3>1. sent' \subseteq Events
      BY <2>1, <2>3 DEF Sent, TypeOK, Batch
    <3>2. /\ tasks' \in [Tasks -> Task] /\ owned' \in Tasks \cup {NoOwned}
          /\ session' \in BOOLEAN /\ starts' \in 0..MaxStarts /\ running' \in BOOLEAN
          /\ buffer' \subseteq Events /\ overdue' \in BOOLEAN
          /\ added' \subseteq Events /\ id' \in [Events -> Events]
      BY <2>3, ReturnTypes DEF Sent
    <3> QED BY <1>7, <2>2, <2>3, <3>1, <3>2 DEF Push, Sent, TypeOK, store, server
  <2>4. CASE Goes(t, "http") /\ disturbed' \in BOOLEAN
    <3>1. /\ tasks' \in [Tasks -> Task] /\ owned' \in Tasks \cup {NoOwned}
          /\ session' \in BOOLEAN /\ starts' \in 0..MaxStarts /\ running' \in BOOLEAN
          /\ buffer' \subseteq Events /\ overdue' \in BOOLEAN
          /\ added' \subseteq Events /\ id' \in [Events -> Events]
          /\ UNCHANGED tally
      BY <2>1, <2>4, GoesTypes
    <3> QED BY <1>7, <2>2, <2>4, <3>1 DEF Push, TypeOK, tally, store, server
  <2> QED BY <1>7, <2>3, <2>4 DEF Push, TypeOK
<1>8. ASSUME NEW t \in Tasks, Post(t) PROVE TypeOK'
  <2>1. tasks[t].batch \in Batch /\ tasks[t].pc # "ready"
    BY <1>8, TaskFacts DEF Post, TypeOK
  <2>2. CASE Dropped(t) /\ UNCHANGED posts
    <3>1. dropped' \subseteq Events
      BY <2>1, <2>2 DEF Dropped, TypeOK, Batch
    <3>2. /\ tasks' \in [Tasks -> Task] /\ owned' \in Tasks \cup {NoOwned}
          /\ session' \in BOOLEAN /\ starts' \in 0..MaxStarts /\ running' \in BOOLEAN
          /\ buffer' \subseteq Events /\ overdue' \in BOOLEAN
          /\ added' \subseteq Events /\ id' \in [Events -> Events]
      BY <2>2, ReturnTypes DEF Dropped
    <3> QED BY <1>8, <2>2, <3>1, <3>2 DEF Post, Dropped, TypeOK, store, server
  <2>3. CASE posts' = posts \cup {tasks[t].batch} /\ Goes(t, "posted")
    <3>1. /\ tasks' \in [Tasks -> Task] /\ owned' \in Tasks \cup {NoOwned}
          /\ session' \in BOOLEAN /\ starts' \in 0..MaxStarts /\ running' \in BOOLEAN
          /\ buffer' \subseteq Events /\ overdue' \in BOOLEAN
          /\ added' \subseteq Events /\ id' \in [Events -> Events]
          /\ UNCHANGED tally
      BY <2>1, <2>3, GoesTypes
    <3> QED BY <1>8, <2>1, <2>3, <3>1 DEF Post, TypeOK, tally, store, server
  <2> QED BY <1>8, <2>2, <2>3 DEF Post
<1>9. ASSUME NEW t \in Tasks, TimeOut(t) PROVE TypeOK'
  <2>1. tasks[t].batch \in SUBSET Events
    BY <1>9, TaskFacts DEF TypeOK
  <2>2. /\ tasks' \in [Tasks -> Task] /\ owned' \in Tasks \cup {NoOwned}
        /\ session' \in BOOLEAN /\ starts' \in 0..MaxStarts /\ running' \in BOOLEAN
        /\ buffer' \subseteq Events /\ overdue' \in BOOLEAN
        /\ added' \subseteq Events /\ id' \in [Events -> Events]
    BY <1>9, ReturnTypes DEF TimeOut, Dropped
  <2> QED BY <1>9, <2>1, <2>2 DEF TimeOut, Dropped, TypeOK, store, server
<1>10. ASSUME NEW batch \in posts, HandlePost(batch) PROVE TypeOK'
  <2>1. batch \in SUBSET Events
    BY DEF TypeOK, Batch
  <2>2. rows' \subseteq Events /\ legacy' \in [Events -> Nat] /\ runExists' \in BOOLEAN
    BY <1>10, <2>1, InsertTypes DEF HandlePost
  <2>3. CASE UNCHANGED <<client, tally>>
    BY <1>10, <2>2, <2>3 DEF HandlePost, TypeOK, client, tally, server
  <2>4. ASSUME NEW t \in Tasks, tasks[t].batch = batch, Sent(t) \/ Dropped(t) PROVE TypeOK'
    <3>1. /\ tasks' \in [Tasks -> Task] /\ owned' \in Tasks \cup {NoOwned}
          /\ session' \in BOOLEAN /\ starts' \in 0..MaxStarts /\ running' \in BOOLEAN
          /\ buffer' \subseteq Events /\ overdue' \in BOOLEAN
          /\ added' \subseteq Events /\ id' \in [Events -> Events]
      BY <2>4, ReturnTypes DEF Sent, Dropped
    <3>2. sent' \subseteq Events /\ dropped' \subseteq Events /\ abandoned' \subseteq Events
      BY <2>1, <2>4 DEF Sent, Dropped, TypeOK
    <3> QED BY <1>10, <2>2, <3>1, <3>2 DEF HandlePost, TypeOK, server
  <2> QED BY <1>10, <2>3, <2>4 DEF HandlePost
<1>11. CASE Pop
  <2>1. Head(queue) \in Batch /\ Tail(queue) \in Seq(Batch)
    BY <1>11, HeadTailProperties DEF Pop, TypeOK
  <2>2. worker.taken \in 0..QueueBatch /\ worker.held \in SUBSET Events
    BY WorkerFacts DEF TypeOK, Waiting, Worker
  <2>3. [pc |-> "taking", taken |-> worker.taken + 1, held |-> worker.held \cup Head(queue)] \in Worker
    BY <1>11, <2>1, <2>2 DEF Pop, Worker, Batch
  <2>4. worker.pc # "waiting" => [worker EXCEPT !.pc = "persisting"] \in Worker
    BY WorkerFacts DEF TypeOK, Worker
  <2> QED BY <1>11, <2>1, <2>3, <2>4 DEF Pop, TypeOK, client, tally, store, server
<1>12. CASE EndPop
  <2>1. [worker EXCEPT !.pc = "persisting"] \in Worker
    BY <1>12, WorkerFacts DEF EndPop, TypeOK, Worker
  <2> QED BY <1>12, <2>1 DEF EndPop, TypeOK, client, tally, store, server
<1>13. CASE Persist
  <2>1. PICK chunk \in Chunks(worker.held) :
          /\ worker' = Remainder(chunk)
          /\ Accepted(chunk) \/ Rejected(chunk) \/ UNCHANGED store
          /\ disturbed' \in BOOLEAN
    BY <1>13 DEF Persist, TypeOK
  <2>2. worker \in [pc: {"taking", "persisting"}, taken: 1..QueueBatch, held: Batch]
    BY <1>13, WorkerFacts DEF Persist, TypeOK
  <2>3. chunk \in SUBSET worker.held /\ worker.held \in SUBSET Events
    BY <2>2 DEF Chunks, Batch
  <2>4. Remainder(chunk) \in Worker
    BY <2>2, <2>3 DEF Remainder, Worker, Batch, Waiting
  <2>5. rows' \subseteq Events /\ legacy' \in [Events -> Nat] /\ runExists' \in BOOLEAN
    BY <2>1, <2>3, InsertTypes
  <2> QED BY <1>13, <2>1, <2>4, <2>5 DEF Persist, TypeOK, client, tally, server
<1>14. CASE DeleteRun
  BY <1>14 DEF DeleteRun, TypeOK, client, tally, server
<1>15. CASE Crash
  <2>1. Waiting \in Worker
    BY DEF Worker
  <2>2. crashes' \in 0..MaxCrashes
    BY <1>15 DEF Crash, TypeOK
  <2> QED BY <1>15, <2>1, <2>2 DEF Crash, TypeOK, client, tally, store
<1>16. CASE Boot
  BY <1>16 DEF Boot, TypeOK, client, tally, store
<1>17. CASE UNCHANGED vars
  BY <1>17 DEF vars, client, tally, store, server, TypeOK
<1> QED
  BY <1>1, <1>2, <1>3, <1>4, <1>5, <1>6, <1>7, <1>8, <1>9, <1>10, <1>11, <1>12,
     <1>13, <1>14, <1>15, <1>16, <1>17 DEF Next, FlushStep, WorkerStep

(* TelemetryPipeline's variables keep their types.                         *)
THEOREM TypeCorrect == Spec => []TypeOK
<1> QED BY TypeInit, TypeNext, PTL DEF Spec

-----------------------------------------------------------------------------
(* StoredOnce.                                                             *)

(* A chunk gets into both tables or into none.                             *)
LEMMA InsertStoresOnce ==
    ASSUME TypeOK, StoredOnce, NEW chunk \in SUBSET Events,
           Accepted(chunk) \/ Rejected(chunk) \/ UNCHANGED store
    PROVE  StoredOnce'
<1>1. CASE Accepted(chunk)
  <2>1. chunk \cap rows = {}
    BY <1>1 DEF Accepted, Insert, Conflict
  <2>2. rows' = rows \cup chunk
        /\ legacy' = [e \in Events |-> IF e \in chunk THEN legacy[e] + 1 ELSE legacy[e]]
    BY <1>1 DEF Accepted, Insert
  <2> QED BY <2>1, <2>2 DEF StoredOnce
<1>2. CASE Rejected(chunk) \/ UNCHANGED store
  BY <1>2 DEF Rejected, store, StoredOnce
<1> QED BY <1>1, <1>2

LEMMA StoredOnceNext == TypeOK /\ StoredOnce /\ [Next]_vars => StoredOnce'
<1> SUFFICES ASSUME TypeOK, StoredOnce, [Next]_vars PROVE StoredOnce'
  OBVIOUS
<1>1. ASSUME NEW batch \in posts, HandlePost(batch) PROVE StoredOnce'
  <2>1. batch \in SUBSET Events
    BY DEF TypeOK, Batch
  <2> QED BY <1>1, <2>1, InsertStoresOnce DEF HandlePost
<1>2. CASE Persist
  <2>1. worker.held \in SUBSET Events
    BY WorkerFacts DEF TypeOK
  <2> QED BY <1>2, <2>1, InsertStoresOnce DEF Persist, Chunks
<1>3. CASE DeleteRun
  BY <1>3 DEF DeleteRun, StoredOnce
<1>4. CASE UNCHANGED store
  BY <1>4 DEF store, StoredOnce
<1> QED
  BY <1>1, <1>2, <1>3, <1>4 DEF Next, FlushStep, WorkerStep, Start, AutoStop, BeginStop, Elapse,
     AddEvent, Run, Push, Post, TimeOut, Pop, EndPop, Crash, Boot, vars

(* The two tables hold each event at most once, and agree.                 *)
THEOREM EventsStoredOnce == Spec => []StoredOnce
<1>1. Init => StoredOnce
  BY DEF Init, StoredOnce
<1> QED BY <1>1, TypeInit, TypeNext, StoredOnceNext, PTL DEF Spec

-----------------------------------------------------------------------------
(* InOnePlace.                                                             *)

(* A flush that ends hands its batch over to one of the three accounts.    *)
LEMMA HandOver ==
    ASSUME TypeOK, InOnePlace, NEW t \in Tasks,
           tasks' \in [Tasks -> Task], tasks'[t].batch = {},
           \A u \in Tasks \ {t} : tasks'[u].batch = tasks[u].batch,
           UNCHANGED <<buffer, added>>,
           \/ sent' = sent \cup tasks[t].batch /\ UNCHANGED <<dropped, abandoned>>
           \/ dropped' = dropped \cup tasks[t].batch /\ UNCHANGED <<sent, abandoned>>
           \/ abandoned' = abandoned \cup tasks[t].batch /\ UNCHANGED <<sent, dropped>>
    PROVE  InOnePlace'
<1>1. UNION {tasks[u].batch : u \in Tasks} = tasks[t].batch \cup UNION {tasks'[u].batch : u \in Tasks}
  OBVIOUS
<1>2. added' = buffer' \cup sent' \cup dropped' \cup abandoned'
                 \cup UNION {tasks'[u].batch : u \in Tasks}
  BY <1>1 DEF InOnePlace
<1>3. \A u, v \in Tasks : u # v => tasks'[u].batch \cap tasks'[v].batch = {}
  BY DEF InOnePlace
<1>4. \A u \in Tasks :
        tasks'[u].batch \cap (buffer' \cup sent' \cup dropped' \cup abandoned') = {}
  BY DEF InOnePlace
<1>5. /\ buffer' \cap (sent' \cup dropped' \cup abandoned') = {}
      /\ sent' \cap (dropped' \cup abandoned') = {}
      /\ dropped' \cap abandoned' = {}
  BY DEF InOnePlace
<1> QED BY <1>2, <1>3, <1>4, <1>5 DEF InOnePlace

(* A step that leaves the batches, the buffer and the accounts alone.      *)
LEMMA SamePlaces ==
    ASSUME InOnePlace, \A u \in Tasks : tasks'[u].batch = tasks[u].batch,
           UNCHANGED <<buffer, added, tally>>
    PROVE  InOnePlace'
<1>1. {tasks'[u].batch : u \in Tasks} = {tasks[u].batch : u \in Tasks}
  OBVIOUS
<1> QED BY <1>1 DEF InOnePlace, tally

LEMMA ReturnHandsOver ==
    ASSUME TypeOK, InOnePlace, NEW t \in Tasks,
           \/ Sent(t) \/ Dropped(t)
           \/ Return(t) /\ tasks[t].batch = {} /\ UNCHANGED tally
    PROVE  InOnePlace'
<1>1. Return(t)
  BY DEF Sent, Dropped
<1>2. tasks' \in [Tasks -> Task]
  BY <1>1, ReturnTypes
<1>3. tasks'[t].batch = {} /\ \A u \in Tasks \ {t} : tasks'[u].batch = tasks[u].batch
  BY <1>1, AfterFlushType DEF Return, TypeOK
<1>4. UNCHANGED <<buffer, added>>
  BY <1>1 DEF Return
<1>5. \/ sent' = sent \cup tasks[t].batch /\ UNCHANGED <<dropped, abandoned>>
      \/ dropped' = dropped \cup tasks[t].batch /\ UNCHANGED <<sent, abandoned>>
  BY DEF Sent, Dropped, tally
<1> QED BY <1>2, <1>3, <1>4, <1>5, HandOver

(* Taking the buffer.                                                      *)
LEMMA FlushPlaces ==
    ASSUME TypeOK, InOnePlace, NEW t \in Tasks, tasks[t].pc = "ready",
           Flush(t), UNCHANGED tally
    PROVE  InOnePlace'
<1>0. tasks[t].batch = {}
  BY TaskFacts DEF TypeOK
<1>1. CASE Return(t)
  BY <1>0, <1>1, ReturnHandsOver
<1>2. CASE ~Return(t)
  <2>1. /\ tasks' = [tasks EXCEPT ![t] = [kind |-> tasks[t].kind, pc |-> "redis", batch |-> buffer]]
        /\ buffer' = {} /\ UNCHANGED added
    BY <1>2 DEF Flush
  <2>2. tasks'[t].batch = buffer /\ \A u \in Tasks \ {t} : tasks'[u].batch = tasks[u].batch
    BY <2>1 DEF TypeOK
  <2>3. UNION {tasks'[u].batch : u \in Tasks} = buffer \cup UNION {tasks[u].batch : u \in Tasks}
    BY <1>0, <2>2
  <2>4. UNCHANGED <<sent, dropped, abandoned>>
    BY DEF tally
  <2>5. added' = buffer' \cup sent' \cup dropped' \cup abandoned'
                   \cup UNION {tasks'[u].batch : u \in Tasks}
    BY <2>1, <2>3, <2>4 DEF InOnePlace
  <2>6. \A u, v \in Tasks : u # v => tasks'[u].batch \cap tasks'[v].batch = {}
    BY <2>2 DEF InOnePlace
  <2>7. \A u \in Tasks :
          tasks'[u].batch \cap (buffer' \cup sent' \cup dropped' \cup abandoned') = {}
    BY <2>1, <2>2, <2>4 DEF InOnePlace
  <2> QED BY <2>1, <2>4, <2>5, <2>6, <2>7 DEF InOnePlace
<1> QED BY <1>1, <1>2

LEMMA InOnePlaceNext == TypeOK /\ InOnePlace /\ [Next]_vars => InOnePlace'
<1> SUFFICES ASSUME TypeOK, InOnePlace, [Next]_vars PROVE InOnePlace'
  OBVIOUS
<1>f. \A t \in Tasks : tasks[t].kind = "none" => tasks[t].batch = {}
  BY TaskFacts DEF TypeOK
<1>1. CASE Start
  <2>1. PICK t \in Free : tasks' = [tasks EXCEPT ![t] = Ready("periodic")]
    BY <1>1 DEF Start
  <2>2. \A u \in Tasks : tasks'[u].batch = tasks[u].batch
    BY <1>f, <2>1 DEF Free, Ready, NoTask, TypeOK
  <2> QED BY <1>1, <2>2, SamePlaces DEF Start
<1>2. CASE BeginStop
  <2> DEFINE gone == IF owned = NoOwned THEN NoTask ELSE tasks[owned]
  <2>1. PICK t \in Free :
          tasks' = [u \in Tasks |-> IF u = t THEN Ready("stop")
                                    ELSE IF u = owned THEN NoTask ELSE tasks[u]]
    BY <1>2 DEF BeginStop
  <2>2. tasks' \in [Tasks -> Task]
    BY <1>2, TypeNext DEF TypeOK
  <2>3. abandoned' = abandoned \cup gone.batch /\ UNCHANGED <<buffer, added, sent, dropped>>
    BY <1>2 DEF BeginStop
  <2>4. tasks[t].batch = {}
    BY <1>f DEF Free
  <2>5. CASE owned = NoOwned \/ owned = t
    <3>1. gone.batch = {}
      BY <2>4, <2>5 DEF NoTask
    <3>2. \A u \in Tasks : u = owned => tasks[u].batch = {}
      BY <2>4, <2>5, PipelineAssumption
    <3>3. \A u \in Tasks : tasks'[u].batch = tasks[u].batch
      BY <2>1, <2>4, <3>1, <3>2 DEF Ready, NoTask
    <3> QED BY <2>3, <3>1, <3>3, SamePlaces DEF tally
  <2>6. CASE owned # NoOwned /\ owned # t
    <3>1. owned \in Tasks /\ gone = tasks[owned]
      BY <2>6 DEF TypeOK
    <3>2. tasks'[owned].batch = {} /\ \A u \in Tasks \ {owned} : tasks'[u].batch = tasks[u].batch
      BY <2>1, <2>4, <2>6, <3>1 DEF Ready, NoTask
    <3> QED BY <2>2, <2>3, <3>1, <3>2, HandOver
  <2> QED BY <2>5, <2>6
<1>3. ASSUME NEW e \in Events, AddEvent(e) PROVE InOnePlace'
  <2>1. \A u \in Tasks : tasks'[u].batch = tasks[u].batch
    <3>1. CASE UNCHANGED tasks
      BY <3>1
    <3>2. ASSUME NEW t \in Free, tasks' = [tasks EXCEPT ![t] = Ready("once")]
          PROVE  \A u \in Tasks : tasks'[u].batch = tasks[u].batch
      BY <1>f, <3>2 DEF Free, Ready, NoTask, TypeOK
    <3> QED BY <1>3, <3>1, <3>2 DEF AddEvent
  <2>2. {tasks'[u].batch : u \in Tasks} = {tasks[u].batch : u \in Tasks}
    BY <2>1
  <2>3. /\ e \notin added /\ added' = added \cup {e} /\ buffer' = buffer \cup {e}
        /\ UNCHANGED <<sent, dropped, abandoned>>
    BY <1>3 DEF AddEvent, tally
  <2>4. \A u \in Tasks : e \notin tasks[u].batch
    BY <2>3 DEF InOnePlace
  <2>5. \A u \in Tasks :
          tasks'[u].batch \cap (buffer' \cup sent' \cup dropped' \cup abandoned') = {}
    BY <2>1, <2>3, <2>4 DEF InOnePlace
  <2> QED BY <2>1, <2>2, <2>3, <2>5 DEF InOnePlace
<1>4. ASSUME NEW t \in Tasks, Run(t) PROVE InOnePlace'
  <2>1. tasks[t].batch = {}
    BY <1>4, TaskFacts DEF Run, TypeOK
  <2> QED BY <1>4, <2>1, ReturnHandsOver, FlushPlaces DEF Run
<1>5. ASSUME NEW t \in Tasks, NEW pc \in {"http", "posted"}, Goes(t, pc) PROVE InOnePlace'
  <2>1. tasks' = [tasks EXCEPT ![t] = [tasks[t] EXCEPT !.pc = pc]]
    BY <1>5 DEF Goes
  <2>2. [tasks[t] EXCEPT !.pc = pc].batch = tasks[t].batch
    BY TaskFacts DEF TypeOK, Task, Ready, NoTask
  <2>3. \A u \in Tasks : tasks'[u].batch = tasks[u].batch
    BY <2>1, <2>2 DEF TypeOK
  <2> QED BY <1>5, <2>3, SamePlaces DEF Goes, tally
<1>6. ASSUME NEW t \in Tasks, Push(t) \/ Post(t) \/ TimeOut(t) PROVE InOnePlace'
  BY <1>5, <1>6, ReturnHandsOver DEF Push, Post, TimeOut
<1>7. ASSUME NEW batch \in posts, HandlePost(batch) PROVE InOnePlace'
  <2>1. CASE UNCHANGED <<client, tally>>
    BY <2>1, SamePlaces DEF client
  <2>2. ASSUME NEW t \in Tasks, Sent(t) \/ Dropped(t) PROVE InOnePlace'
    BY <2>2, ReturnHandsOver
  <2> QED BY <1>7, <2>1, <2>2 DEF HandlePost
<1>8. CASE UNCHANGED <<buffer, added, tasks, tally>>
  BY <1>8, SamePlaces
<1> QED
  BY <1>1, <1>2, <1>3, <1>4, <1>6, <1>7, <1>8 DEF Next, FlushStep, WorkerStep, AutoStop, Elapse,
     Pop, EndPop, Persist, DeleteRun, Crash, Boot, vars, client

(* No flush duplicates an event or forgets one.                            *)
THEOREM EventsInOnePlace == Spec => []InOnePlace
<1>1. Init => InOnePlace
  BY DEF Init, InOnePlace, NoTask
<1> QED BY <1>1, TypeInit, TypeNext, InOnePlaceNext, PTL DEF Spec

-----------------------------------------------------------------------------
(* SentIsSafe.  The invariant it rests on: while nothing has failed, the   *)
(* copies of an event are never in two places, and what is still to be     *)
(* sent has not been delivered.  So no chunk ever meets a duplicate.       *)

Posted == UNION posts

Delivered == Queued \cup worker.held \cup Posted \cup rows

InHand(task) == task.pc \in {"redis", "http"}

Unsent == buffer \cup UNION {tasks[t].batch : t \in {u \in Tasks : InHand(tasks[u])}}

Apart ==
    /\ Delivered \subseteq added \ Unsent
    /\ \A i, j \in DOMAIN queue : i # j => queue[i] \cap queue[j] = {}
    /\ Queued \cap (worker.held \cup Posted \cup rows) = {}
    /\ worker.held \cap (Posted \cup rows) = {}
    /\ Posted \cap rows = {}
    /\ \A p, q \in posts : p # q => p \cap q = {}

SInv == Undisturbed => Apart /\ sent \subseteq Queued \cup worker.held \cup rows

(* Appending to the queue and popping from it, as sets.                    *)
LEMMA QueueAppend ==
    ASSUME queue \in Seq(Batch), NEW b \in Batch, queue' = Append(queue, b)
    PROVE  /\ Queued' = Queued \cup b
           /\ \A i, j \in DOMAIN queue' : i # j =>
                \/ i \in DOMAIN queue /\ j \in DOMAIN queue
                     /\ queue'[i] = queue[i] /\ queue'[j] = queue[j]
                \/ queue'[i] = b /\ queue'[j] \subseteq Queued
                \/ queue'[j] = b /\ queue'[i] \subseteq Queued
<1>1. /\ queue' \in Seq(Batch) /\ Len(queue') = Len(queue) + 1
      /\ \A i \in 1..Len(queue) : queue'[i] = queue[i]
      /\ queue'[Len(queue) + 1] = b
      /\ Len(queue) \in Nat
  BY AppendProperties, LenProperties
<1>2. DOMAIN queue = 1..Len(queue) /\ DOMAIN queue' = 1..(Len(queue) + 1)
  BY <1>1, LenProperties
<1>3. \A i \in DOMAIN queue : queue[i] \subseteq Queued
  BY DEF Queued
<1>4. \A i \in DOMAIN queue' :
        \/ i \in DOMAIN queue /\ queue'[i] = queue[i]
        \/ i = Len(queue) + 1 /\ queue'[i] = b
  BY <1>1, <1>2
<1>5. \A i \in DOMAIN queue : i \in DOMAIN queue' /\ queue'[i] = queue[i]
  BY <1>1, <1>2
<1>6. Len(queue) + 1 \in DOMAIN queue'
  BY <1>1, <1>2
<1>7. \A e : e \in Queued' <=> e \in Queued \cup b
  <2>1. ASSUME NEW e, e \in Queued' PROVE e \in Queued \cup b
    BY <1>4, <2>1 DEF Queued
  <2>2. ASSUME NEW e \in Queued PROVE e \in Queued'
    BY <1>5, <2>2 DEF Queued
  <2>3. ASSUME NEW e \in b PROVE e \in Queued'
    BY <1>1, <1>6, <2>3 DEF Queued
  <2> QED BY <2>1, <2>2, <2>3
<1>8. Queued' = Queued \cup b
  BY <1>7
<1> QED BY <1>3, <1>4, <1>8

LEMMA QueueTail ==
    ASSUME queue \in Seq(Batch), queue # << >>, queue' = Tail(queue),
           \A i, j \in DOMAIN queue : i # j => queue[i] \cap queue[j] = {}
    PROVE  /\ Queued = Queued' \cup Head(queue)
           /\ Head(queue) \cap Queued' = {}
           /\ \A i, j \in DOMAIN queue' : i # j => queue'[i] \cap queue'[j] = {}
<1>1. /\ queue' \in Seq(Batch) /\ Len(queue') = Len(queue) - 1
      /\ \A i \in 1..Len(queue') : queue'[i] = queue[i + 1]
      /\ Len(queue) \in Nat \ {0}
  BY HeadTailProperties, EmptySeq
<1>2. DOMAIN queue = 1..Len(queue) /\ DOMAIN queue' = 1..(Len(queue) - 1) /\ Head(queue) = queue[1]
  BY <1>1, LenProperties
<1>3. \A i \in DOMAIN queue' : i + 1 \in DOMAIN queue /\ i + 1 # 1 /\ queue'[i] = queue[i + 1]
  BY <1>1, <1>2
<1>4. \A i \in DOMAIN queue : i = 1 \/ (i - 1 \in DOMAIN queue' /\ queue'[i - 1] = queue[i])
  BY <1>1, <1>2
<1>5. 1 \in DOMAIN queue
  BY <1>1, <1>2
<1>6. Head(queue) \cap Queued' = {}
  BY <1>2, <1>3, <1>5 DEF Queued
<1>7. \A e : e \in Queued <=> e \in Queued' \/ e \in Head(queue)
  <2>1. ASSUME NEW e, e \in Queued PROVE e \in Queued' \/ e \in Head(queue)
    BY <1>2, <1>4, <2>1 DEF Queued
  <2>2. ASSUME NEW e, e \in Queued' \/ e \in Head(queue) PROVE e \in Queued
    BY <1>2, <1>3, <1>5, <2>2 DEF Queued
  <2> QED BY <2>1, <2>2
<1>8. \A i, j \in DOMAIN queue' : i # j => queue'[i] \cap queue'[j] = {}
  <2> SUFFICES ASSUME NEW i \in DOMAIN queue', NEW j \in DOMAIN queue', i # j
               PROVE  queue'[i] \cap queue'[j] = {}
    OBVIOUS
  <2>1. i + 1 # j + 1
    BY <1>1, <1>2
  <2> QED BY <1>3, <2>1
<1> QED BY <1>6, <1>7, <1>8

(* What disturbs a behaviour disturbs it for good.                         *)
LEMMA UndisturbedBefore ==
    ASSUME TypeOK, [Next]_vars, Undisturbed'
    PROVE  Undisturbed
<1>1. ~disturbed
  <2>1. disturbed => disturbed'
    BY DEF Next, FlushStep, WorkerStep, Start, AutoStop, BeginStop, Elapse, AddEvent, Run, Push,
       Post, TimeOut, HandlePost, Pop, EndPop, Persist, DeleteRun, Crash, Boot, vars
  <2> QED BY <2>1 DEF Undisturbed
<1>2. runExists
  <2>1. runExists' => runExists
    BY DEF Next, FlushStep, WorkerStep, Start, AutoStop, BeginStop, Elapse, AddEvent, Run, Push,
       Post, TimeOut, HandlePost, Pop, EndPop, Persist, DeleteRun, Crash, Boot, vars, store,
       Accepted, Rejected
  <2> QED BY <2>1 DEF Undisturbed
<1>3. added \subseteq added' /\ \A e \in added : id'[e] = id[e]
  <2>1. ASSUME NEW e \in Events, AddEvent(e) PROVE added \subseteq added' /\ \A f \in added : id'[f] = id[f]
    BY <2>1 DEF AddEvent, TypeOK
  <2>2. CASE UNCHANGED <<added, id>>
    BY <2>2
  <2> QED
    BY <2>1, <2>2 DEF Next, FlushStep, WorkerStep, Start, AutoStop, BeginStop, Elapse, Run, Flush, Return,
       Push, Sent, Dropped, Goes, Post, TimeOut, HandlePost, Pop, EndPop, Persist, DeleteRun, Crash,
       Boot, vars, client
<1>4. \A e, f \in added : e # f => id[e] # id[f]
  BY <1>3 DEF Undisturbed
<1> QED BY <1>1, <1>2, <1>4 DEF Undisturbed

(* Nothing moves behind the launcher but for a lost request, and the       *)
(* launcher takes nothing back.                                            *)
LEMMA Calm ==
    ASSUME Apart, UNCHANGED <<queue, rows>>, worker'.held = worker.held,
           posts' \subseteq posts, added \subseteq added',
           Unsent' \cap added \subseteq Unsent
    PROVE  Apart'
<1>1. Queued' = Queued
  BY DEF Queued
<1>2. Delivered' \subseteq Delivered
  BY <1>1 DEF Delivered, Posted
<1>3. Delivered' \subseteq added' \ Unsent'
  BY <1>2 DEF Apart
<1>4. Posted' \subseteq Posted
  BY DEF Posted
<1> QED BY <1>1, <1>3, <1>4 DEF Apart

(* A task in hand that goes on, ends or is cancelled.                      *)
LEMMA NoMoreUnsent ==
    ASSUME buffer' \subseteq buffer,
           \A u \in Tasks : \/ tasks'[u] = tasks[u]
                            \/ ~InHand(tasks'[u])
                            \/ InHand(tasks[u]) /\ tasks'[u].batch = tasks[u].batch
    PROVE  Unsent' \subseteq Unsent
BY DEF Unsent, InHand

(* Nothing of what has been delivered conflicts with what is stored.       *)
LEMMA NoConflict ==
    ASSUME Apart, Undisturbed, NEW chunk, chunk \subseteq Delivered, chunk \cap rows = {}
    PROVE  ~Conflict(chunk)
<1>1. chunk \cup rows \subseteq added
  <2>1. \A e \in Delivered : e \in added
    BY DEF Apart
  <2>2. rows \subseteq Delivered
    BY DEF Delivered
  <2> QED BY <2>1, <2>2
<1>2. \A e \in chunk, f \in chunk \cup rows : e # f => id[e] # id[f]
  BY <1>1 DEF Undisturbed
<1> QED BY <1>2 DEF Conflict

(* A batch in hand is pushed or posted, and is in hand no more.            *)
LEMMA Delivery ==
    ASSUME TypeOK, InOnePlace, Apart, NEW t \in Tasks, InHand(tasks[t]), ~InHand(tasks'[t]),
           \A u \in Tasks \ {t} : tasks'[u] = tasks[u] \/ ~InHand(tasks'[u]),
           UNCHANGED <<buffer, added, rows, worker>>,
           \/ queue' = Append(queue, tasks[t].batch) /\ UNCHANGED posts
           \/ posts' = posts \cup {tasks[t].batch} /\ UNCHANGED queue
    PROVE  Apart'
<1> DEFINE b == tasks[t].batch
<1>1. b \in Batch
  BY TaskFacts DEF TypeOK, InHand
<1>2. b \cap Delivered = {}
  BY DEF Apart, Unsent
<1>3. Delivered \cup b \subseteq added' \ Unsent'
  <2>1. \A u \in Tasks \ {t} : InHand(tasks'[u]) => InHand(tasks[u]) /\ tasks'[u].batch = tasks[u].batch
    BY DEF InHand
  <2>2. ASSUME NEW e \in Unsent' PROVE e \in Unsent /\ e \notin b
    <3>1. CASE e \in buffer
      BY <3>1 DEF Unsent, InOnePlace
    <3>2. ASSUME NEW u \in Tasks, InHand(tasks'[u]), e \in tasks'[u].batch PROVE e \in Unsent /\ e \notin b
      BY <2>1, <3>2 DEF Unsent, InOnePlace
    <3> QED BY <2>2, <3>1, <3>2 DEF Unsent
  <2>3. b \subseteq added
    BY DEF InOnePlace
  <2> QED BY <2>2, <2>3 DEF Apart
<1>4. CASE queue' = Append(queue, b) /\ UNCHANGED posts
  <2>0. Posted' = Posted
    BY <1>4 DEF Posted
  <2>1. /\ Queued' = Queued \cup b
        /\ \A i, j \in DOMAIN queue' : i # j =>
              \/ i \in DOMAIN queue /\ j \in DOMAIN queue
                   /\ queue'[i] = queue[i] /\ queue'[j] = queue[j]
              \/ queue'[i] = b /\ queue'[j] \subseteq Queued
              \/ queue'[j] = b /\ queue'[i] \subseteq Queued
    BY <1>1, <1>4, QueueAppend DEF TypeOK
  <2>2. \A e \in Delivered' : e \in Delivered \cup b
    BY <1>4, <2>0, <2>1 DEF Delivered
  <2>3. \A i, j \in DOMAIN queue' : i # j => queue'[i] \cap queue'[j] = {}
    BY <1>2, <2>1 DEF Apart, Delivered
  <2>4. Queued' \cap (worker'.held \cup Posted' \cup rows') = {}
    BY <1>2, <1>4, <2>0, <2>1 DEF Apart, Delivered
  <2> QED BY <1>3, <1>4, <2>0, <2>2, <2>3, <2>4 DEF Apart
<1>5. CASE posts' = posts \cup {b} /\ UNCHANGED queue
  <2>1. Posted' = b \cup Posted /\ Queued' = Queued
    BY <1>5 DEF Queued, Posted
  <2>2. \A e \in Delivered' : e \in Delivered \cup b
    BY <2>1 DEF Delivered
  <2>3. \A p, q \in posts' : p # q => p \cap q = {}
    <3>1. \A p \in posts : p \subseteq Delivered
      BY DEF Delivered, Posted
    <3>2. \A p \in posts : p \cap b = {} /\ b \cap p = {}
      BY <1>2, <3>1
    <3>3. \A p, q \in posts : p # q => p \cap q = {}
      BY DEF Apart
    <3> QED BY <1>5, <3>2, <3>3
  <2>4. b \cap (Queued \cup worker.held \cup rows) = {}
    BY <1>2 DEF Delivered
  <2>5. /\ Queued' \cap (worker'.held \cup Posted' \cup rows') = {}
        /\ worker'.held \cap (Posted' \cup rows') = {}
        /\ Posted' \cap rows' = {}
    BY <2>1, <2>4 DEF Apart
  <2>6. \A i, j \in DOMAIN queue' : i # j => queue'[i] \cap queue'[j] = {}
    BY <1>5 DEF Apart
  <2> QED BY <1>3, <2>2, <2>3, <2>5, <2>6 DEF Apart
<1> QED BY <1>4, <1>5

LEMMA SInvNext == TypeOK /\ InOnePlace /\ SInv /\ [Next]_vars => SInv'
<1> SUFFICES ASSUME TypeOK, InOnePlace, SInv, [Next]_vars, Undisturbed'
             PROVE  Apart' /\ sent' \subseteq Queued' \cup worker'.held \cup rows'
  BY DEF SInv
<1> DEFINE Goal == Apart' /\ sent' \subseteq Queued' \cup worker'.held \cup rows'
<1>u. Undisturbed /\ Apart /\ sent \subseteq Queued \cup worker.held \cup rows
  BY UndisturbedBefore DEF SInv
<1>d. ~disturbed' /\ runExists'
  BY DEF Undisturbed
<1>c. ASSUME UNCHANGED <<queue, rows, sent>>, worker'.held = worker.held,
             posts' \subseteq posts, added \subseteq added',
             Unsent' \cap added \subseteq Unsent
      PROVE  Goal
  <2>1. Apart'
    BY <1>c, <1>u, Calm
  <2>2. Queued' = Queued
    BY <1>c DEF Queued
  <2> QED BY <1>c, <1>u, <2>1, <2>2
<1>1. CASE Start
  <2>1. PICK t \in Free : tasks' = [tasks EXCEPT ![t] = Ready("periodic")]
    BY <1>1 DEF Start
  <2>2. t \in Tasks /\ ~InHand(tasks'[t]) /\ \A u \in Tasks \ {t} : tasks'[u] = tasks[u]
    BY <2>1 DEF Free, InHand, Ready, NoTask, TypeOK
  <2>3. UNCHANGED <<buffer, queue, rows, sent, worker, posts, added>>
    BY <1>1 DEF Start, tally, store
  <2>4. Unsent' \subseteq Unsent
    BY <2>2, <2>3, NoMoreUnsent
  <2> QED BY <1>c, <2>3, <2>4
<1>2. CASE BeginStop
  <2> DEFINE gone == IF owned = NoOwned THEN NoTask ELSE tasks[owned]
  <2>1. PICK t \in Free :
          tasks' = [u \in Tasks |-> IF u = t THEN Ready("stop")
                                    ELSE IF u = owned THEN NoTask ELSE tasks[u]]
    BY <1>2 DEF BeginStop
  <2>2. \A u \in Tasks : tasks'[u] = tasks[u] \/ ~InHand(tasks'[u])
    BY <2>1 DEF InHand, Ready, NoTask
  <2>3. UNCHANGED <<buffer, rows, sent, worker, added>>
    BY <1>2 DEF BeginStop, store
  <2>4. CASE UNCHANGED <<queue, posts>>
    <3>1. Unsent' \subseteq Unsent
      BY <2>1, <2>2, <2>3, NoMoreUnsent DEF Free
    <3> QED BY <1>c, <2>3, <2>4, <3>1
  <2>5. ASSUME gone.pc \in {"redis", "http"},
               \/ queue' = Append(queue, gone.batch) /\ UNCHANGED posts
               \/ posts' = posts \cup {gone.batch} /\ UNCHANGED queue
        PROVE  Goal
    <3>1. owned \in Tasks /\ gone = tasks[owned] /\ InHand(tasks[owned])
      BY <2>5 DEF TypeOK, NoTask, InHand
    <3>2. ~InHand(tasks'[owned])
      BY <2>1, <3>1 DEF InHand, Ready, NoTask
    <3>3. Apart'
      BY <1>u, <2>2, <2>3, <2>5, <3>1, <3>2, Delivery
    <3>4. Queued \subseteq Queued'
      <4>1. CASE UNCHANGED queue
        BY <4>1 DEF Queued
      <4>2. CASE queue' = Append(queue, gone.batch)
        <5>1. gone.batch \in Batch
          BY <3>1, TaskFacts DEF TypeOK, InHand
        <5> QED BY <4>2, <5>1, QueueAppend DEF TypeOK
      <4> QED BY <2>5, <4>1, <4>2
    <3> QED BY <1>u, <2>3, <3>3, <3>4
  <2> QED BY <1>2, <2>4, <2>5 DEF BeginStop
<1>3. ASSUME NEW e \in Events, AddEvent(e) PROVE Goal
  <2>1. \A u \in Tasks : tasks'[u] = tasks[u] \/ ~InHand(tasks'[u])
    <3>1. UNCHANGED tasks \/ \E t \in Free : tasks' = [tasks EXCEPT ![t] = Ready("once")]
      BY <1>3 DEF AddEvent
    <3> QED BY <3>1 DEF InHand, Ready, NoTask, TypeOK, Free
  <2>2. /\ e \notin added /\ added' = added \cup {e} /\ buffer' = buffer \cup {e}
        /\ UNCHANGED <<queue, rows, sent, worker, posts>>
    BY <1>3 DEF AddEvent, tally, store
  <2>3. Unsent' \cap added \subseteq Unsent
    BY <2>1, <2>2 DEF Unsent, InHand
  <2> QED BY <1>c, <2>2, <2>3
<1>4. ASSUME NEW t \in Tasks, Run(t) PROVE Goal
  <2>1. UNCHANGED <<queue, rows, sent, worker, posts>>
    BY <1>4 DEF Run, tally, store
  <2>2. added' = added
    BY <1>4 DEF Run, Flush, Return
  <2>3. Unsent' \cap added \subseteq Unsent
    <3>1. CASE Return(t)
      <4>1. ~InHand(tasks'[t]) /\ buffer' = buffer /\ \A u \in Tasks \ {t} : tasks'[u] = tasks[u]
        BY <3>1, AfterFlushType DEF Return, InHand, TypeOK
      <4> QED BY <4>1, NoMoreUnsent
    <3>2. CASE ~Return(t)
      <4>1. /\ tasks' = [tasks EXCEPT ![t] = [kind |-> tasks[t].kind, pc |-> "redis", batch |-> buffer]]
            /\ buffer' = {}
        BY <1>4, <3>2 DEF Run, Flush
      <4>2. tasks'[t].batch = buffer /\ \A u \in Tasks \ {t} : tasks'[u] = tasks[u]
        BY <4>1 DEF TypeOK
      <4> QED BY <4>1, <4>2 DEF Unsent, InHand
    <3> QED BY <3>1, <3>2
  <2> QED BY <1>c, <2>1, <2>2, <2>3
<1>5. ASSUME NEW t \in Tasks, Dropped(t) \/ (Return(t) /\ UNCHANGED tally),
             UNCHANGED <<queue, rows, worker>>, posts' \subseteq posts
      PROVE  Goal
  <2>1. ~InHand(tasks'[t]) /\ buffer' = buffer /\ \A u \in Tasks \ {t} : tasks'[u] = tasks[u]
    BY <1>5, AfterFlushType DEF Dropped, Return, InHand, TypeOK
  <2>2. added' = added /\ sent' = sent
    BY <1>5 DEF Dropped, Return, tally
  <2>3. Unsent' \subseteq Unsent
    BY <2>1, NoMoreUnsent
  <2> QED BY <1>c, <1>5, <2>2, <2>3
<1>6. ASSUME NEW t \in Tasks, Push(t) PROVE Goal
  <2>1. InHand(tasks[t]) /\ tasks[t].batch \in Batch
    BY <1>6, TaskFacts DEF Push, InHand, TypeOK
  <2>2. UNCHANGED <<rows, worker, posts>>
    BY <1>6 DEF Push, store
  <2>3. CASE queue' = Append(queue, tasks[t].batch) /\ Sent(t)
    <3>1. ~InHand(tasks'[t]) /\ \A u \in Tasks \ {t} : tasks'[u] = tasks[u]
      BY <2>3, AfterFlushType DEF Sent, Return, InHand, TypeOK
    <3>2. UNCHANGED <<buffer, added>> /\ sent' = sent \cup tasks[t].batch
      BY <2>3 DEF Sent, Return
    <3>3. Apart'
      BY <1>u, <2>1, <2>2, <2>3, <3>1, <3>2, Delivery
    <3>4. Queued' = Queued \cup tasks[t].batch
      BY <2>1, <2>3, QueueAppend DEF TypeOK
    <3> QED BY <1>u, <2>2, <3>2, <3>3, <3>4
  <2>4. CASE Goes(t, "http") /\ UNCHANGED queue
    <3>1. tasks' = [tasks EXCEPT ![t] = [tasks[t] EXCEPT !.pc = "http"]]
      BY <2>4 DEF Goes
    <3>2. [tasks[t] EXCEPT !.pc = "http"].batch = tasks[t].batch
      BY <2>1, TaskFacts DEF TypeOK, Task, Ready, NoTask
    <3>3. /\ InHand(tasks[t]) /\ tasks'[t].batch = tasks[t].batch
          /\ \A u \in Tasks \ {t} : tasks'[u] = tasks[u]
      BY <2>1, <3>1, <3>2 DEF TypeOK
    <3>4. UNCHANGED <<buffer, added, sent>>
      BY <2>4 DEF Goes, tally
    <3>5. Unsent' \subseteq Unsent
      BY <3>3, <3>4, NoMoreUnsent
    <3> QED BY <1>c, <2>2, <2>4, <3>4, <3>5
  <2> QED BY <1>6, <1>d, <2>3, <2>4 DEF Push
<1>7. ASSUME NEW t \in Tasks, Post(t) PROVE Goal
  <2>1. InHand(tasks[t]) /\ UNCHANGED <<queue, rows, worker>>
    BY <1>7 DEF Post, InHand, store
  <2>2. CASE Dropped(t) /\ UNCHANGED posts
    BY <1>5, <2>1, <2>2
  <2>3. CASE posts' = posts \cup {tasks[t].batch} /\ Goes(t, "posted")
    <3>1. tasks' = [tasks EXCEPT ![t].pc = "posted"] /\ UNCHANGED <<buffer, added, sent>>
      BY <2>3 DEF Goes, tally
    <3>2. ~InHand(tasks'[t]) /\ \A u \in Tasks \ {t} : tasks'[u] = tasks[u]
      <4>1. tasks[t] \in Task
        BY DEF TypeOK
      <4>2. [tasks[t] EXCEPT !.pc = "posted"].pc = "posted"
        BY <4>1 DEF Task, Ready, NoTask
      <4> QED BY <3>1, <4>2 DEF TypeOK, InHand
    <3>3. Apart'
      BY <1>u, <2>1, <2>3, <3>1, <3>2, Delivery
    <3>4. Queued' = Queued
      BY <2>1 DEF Queued
    <3> QED BY <1>u, <2>1, <3>1, <3>3, <3>4
  <2> QED BY <1>7, <2>2, <2>3 DEF Post
<1>8. ASSUME NEW t \in Tasks, TimeOut(t) PROVE Goal
  BY <1>5, <1>8 DEF TimeOut, store
<1>9. ASSUME NEW batch \in posts, HandlePost(batch) PROVE Goal
  <2>1. posts' = posts \ {batch} /\ UNCHANGED <<queue, worker>>
    BY <1>9 DEF HandlePost
  <2>2. CASE UNCHANGED store
    <3>1. UNCHANGED <<rows, queue, worker>> /\ posts' \subseteq posts
      BY <2>1, <2>2 DEF store
    <3>2. CASE UNCHANGED <<client, tally>>
      BY <1>c, <3>1, <3>2 DEF client, tally, Unsent, InHand
    <3>3. ASSUME NEW t \in Tasks, Dropped(t) PROVE Goal
      BY <1>5, <3>1, <3>3
    <3>4. CASE Accepted(batch) /\ batch = {}
      BY <3>4 DEF TypeOK, Batch
    <3> QED BY <1>9, <2>2, <3>2, <3>3, <3>4 DEF HandlePost, Accepted, Insert, store, Conflict
  <2>3. CASE rows' = rows \cup batch
    <3>1. \A p \in posts' : p \cap batch = {}
      BY <1>u, <2>1 DEF Apart
    <3>2. Queued' = Queued /\ Posted' \subseteq Posted /\ batch \subseteq Posted /\ Posted' \cap batch = {}
      BY <2>1, <3>1 DEF Queued, Posted
    <3>3. Delivered' \subseteq Delivered
      BY <2>1, <2>3, <3>2 DEF Delivered
    <3>4. ASSUME added' = added, Unsent' \subseteq Unsent PROVE Apart'
      <4>1. Delivered' \subseteq added' \ Unsent'
        BY <1>u, <3>3, <3>4 DEF Apart
      <4>2. /\ Queued' \cap (worker'.held \cup Posted' \cup rows') = {}
            /\ worker'.held \cap (Posted' \cup rows') = {}
            /\ Posted' \cap rows' = {}
        BY <1>u, <2>1, <2>3, <3>2 DEF Apart
      <4>3. /\ \A i, j \in DOMAIN queue' : i # j => queue'[i] \cap queue'[j] = {}
            /\ \A p, q \in posts' : p # q => p \cap q = {}
        BY <1>u, <2>1 DEF Apart
      <4> QED BY <4>1, <4>2, <4>3 DEF Apart
    <3>5. CASE UNCHANGED <<client, tally>>
      <4>1. Apart'
        BY <3>4, <3>5 DEF client, Unsent, InHand
      <4> QED BY <1>u, <2>1, <2>3, <3>2, <3>5, <4>1 DEF tally
    <3>6. ASSUME NEW t \in Tasks, Sent(t), tasks[t].batch = batch PROVE Goal
      <4>1. ~InHand(tasks'[t]) /\ buffer' = buffer /\ \A u \in Tasks \ {t} : tasks'[u] = tasks[u]
        BY <3>6, AfterFlushType DEF Sent, Return, InHand, TypeOK
      <4>2. added' = added /\ sent' = sent \cup batch
        BY <3>6 DEF Sent, Return
      <4>3. Unsent' \subseteq Unsent
        BY <4>1, NoMoreUnsent
      <4>4. Apart'
        BY <3>4, <4>2, <4>3
      <4> QED BY <1>u, <2>1, <2>3, <3>2, <4>2, <4>4
    <3>7. ASSUME NEW t \in Tasks, Dropped(t) PROVE Goal
      <4>1. ~InHand(tasks'[t]) /\ buffer' = buffer /\ \A u \in Tasks \ {t} : tasks'[u] = tasks[u]
        BY <3>7, AfterFlushType DEF Dropped, Return, InHand, TypeOK
      <4>2. added' = added /\ sent' = sent
        BY <3>7 DEF Dropped, Return
      <4>3. Unsent' \subseteq Unsent
        BY <4>1, NoMoreUnsent
      <4>4. Apart'
        BY <3>4, <4>2, <4>3
      <4> QED BY <1>u, <2>1, <2>3, <3>2, <4>2, <4>4
    <3> QED BY <1>9, <2>3, <3>5, <3>6, <3>7 DEF HandlePost
  <2> QED BY <1>9, <2>2, <2>3 DEF HandlePost, Accepted, Insert, Rejected
<1>10. CASE Pop
  <2>1. queue' = Tail(queue) /\ queue # << >> /\ UNCHANGED <<client, tally, posts, store>>
    BY <1>10 DEF Pop
  <2>2. worker'.held = worker.held \cup Head(queue)
    BY <1>10, <1>d DEF Pop
  <2>3. /\ Queued = Queued' \cup Head(queue)
        /\ Head(queue) \cap Queued' = {}
        /\ \A i, j \in DOMAIN queue' : i # j => queue'[i] \cap queue'[j] = {}
    BY <1>u, <2>1, QueueTail DEF Apart, TypeOK
  <2>4. UNCHANGED <<buffer, tasks, added, sent, posts, rows, Posted>>
    BY <2>1 DEF client, tally, store, Posted
  <2>5. Delivered' = Delivered
    BY <2>2, <2>3, <2>4 DEF Delivered
  <2>6. Delivered' \subseteq added' \ Unsent'
    BY <1>u, <2>4, <2>5 DEF Apart, Unsent, InHand
  <2>7. /\ Queued' \cap (worker'.held \cup Posted' \cup rows') = {}
        /\ worker'.held \cap (Posted' \cup rows') = {}
        /\ Posted' \cap rows' = {}
    BY <1>u, <2>2, <2>3, <2>4 DEF Apart
  <2>8. \A p, q \in posts' : p # q => p \cap q = {}
    BY <1>u, <2>4 DEF Apart
  <2> QED BY <1>u, <2>2, <2>3, <2>4, <2>6, <2>7, <2>8 DEF Apart
<1>11. CASE EndPop
  <2>1. worker'.held = worker.held
    <3>1. worker \in [pc: {"taking", "persisting"}, taken: 1..QueueBatch, held: Batch]
      BY <1>11, WorkerFacts DEF EndPop, TypeOK
    <3> QED BY <1>11, <3>1 DEF EndPop
  <2> QED BY <1>c, <1>11, <2>1 DEF EndPop, client, tally, store, Unsent, InHand
<1>12. CASE Persist
  <2>1. PICK chunk \in Chunks(worker.held) :
          /\ worker' = Remainder(chunk)
          /\ Accepted(chunk) \/ Rejected(chunk)
    BY <1>12, <1>d DEF Persist
  <2>2. UNCHANGED <<client, tally, queue, posts>>
    BY <1>12 DEF Persist
  <2>3. UNCHANGED <<buffer, tasks, added, sent, queue, posts, Queued, Posted>>
    BY <2>2 DEF client, tally, Queued, Posted
  <2>4. chunk \subseteq worker.held
    BY DEF Chunks
  <2>5. ~Conflict(chunk)
    <3>1. chunk \cap rows = {} /\ chunk \subseteq Delivered
      BY <1>u, <2>4 DEF Apart, Delivered
    <3> QED BY <1>u, <3>1, NoConflict
  <2>6. rows' = rows \cup chunk
    BY <1>u, <2>1, <2>5 DEF Accepted, Rejected, Insert, Undisturbed
  <2>7. worker'.held = worker.held \ chunk
    <3>1. worker \in [pc: {"taking", "persisting"}, taken: 1..QueueBatch, held: Batch]
      BY <1>12, WorkerFacts DEF Persist, TypeOK
    <3> QED BY <2>1, <3>1 DEF Remainder, Waiting
  <2>8. Delivered' = Delivered
    BY <2>3, <2>4, <2>6, <2>7 DEF Delivered
  <2>9. Delivered' \subseteq added' \ Unsent'
    BY <1>u, <2>3, <2>8 DEF Apart, Unsent, InHand
  <2>10. /\ Queued' \cap (worker'.held \cup Posted' \cup rows') = {}
         /\ worker'.held \cap (Posted' \cup rows') = {}
         /\ Posted' \cap rows' = {}
    BY <1>u, <2>3, <2>4, <2>6, <2>7 DEF Apart
  <2>11. /\ \A p, q \in posts' : p # q => p \cap q = {}
         /\ \A i, j \in DOMAIN queue' : i # j => queue'[i] \cap queue'[j] = {}
    BY <1>u, <2>3 DEF Apart
  <2>12. Apart'
    BY <2>9, <2>10, <2>11 DEF Apart
  <2>13. sent' \subseteq Queued' \cup worker'.held \cup rows'
    BY <1>u, <2>3, <2>4, <2>6, <2>7
  <2> QED BY <2>12, <2>13
<1>13. CASE DeleteRun
  BY <1>13, <1>d DEF DeleteRun
<1>14. CASE Crash
  <2>1. worker.held = {} /\ worker'.held = {}
    BY <1>14, <1>d DEF Crash, Waiting
  <2>2. UNCHANGED <<queue, rows, sent, added, buffer, tasks>> /\ posts' = {}
    BY <1>14 DEF Crash, client, tally, store
  <2> QED BY <1>c, <2>1, <2>2 DEF Unsent, InHand
<1>15. CASE UNCHANGED <<queue, rows, sent, worker, posts, added, buffer, tasks>>
  BY <1>c, <1>15 DEF Unsent, InHand
<1> QED
  BY <1>1, <1>2, <1>3, <1>4, <1>6, <1>7, <1>8, <1>9, <1>10, <1>11, <1>12, <1>13, <1>14, <1>15
     DEF Next, FlushStep, WorkerStep, AutoStop, Elapse, Boot, vars, client, tally, store

(* An event counted as sent is stored or on its way, whatever the order of *)
(* flushes, fallbacks, answers and chunks.                                 *)
THEOREM SentEventsAreSafe == Spec => []SentIsSafe
<1>1. Init => SInv
  BY DEF Init, SInv, Apart, Delivered, Queued, Posted, Waiting
<1>2. SInv => SentIsSafe
  BY DEF SInv, SentIsSafe
<1> QED BY <1>1, <1>2, TypeInit, TypeNext, TypeCorrect, EventsInOnePlace, SInvNext, PTL DEF Spec

-----------------------------------------------------------------------------
(* FlusherAlive.                                                           *)

LEMMA ReturnKeepsFlusher ==
    ASSUME TypeOK, FlusherAlive, NEW t \in Tasks, Return(t)
    PROVE  FlusherAlive'
<1> SUFFICES ASSUME running'
             PROVE  owned' \in Tasks /\ tasks'[owned'].kind = "periodic"
  BY DEF FlusherAlive
<1>1. running /\ owned \in Tasks /\ tasks[owned].kind = "periodic"
  BY DEF Return, FlusherAlive
<1>2. owned = t => AfterFlush(t) = Ready("periodic")
  BY <1>1 DEF AfterFlush
<1>3. Ready("periodic") # NoTask /\ Ready("periodic").kind = "periodic"
  BY DEF Ready, NoTask
<1>4. owned' = owned
  BY <1>2, <1>3 DEF Return
<1>5. tasks'[owned] = IF owned = t THEN AfterFlush(t) ELSE tasks[owned]
  BY <1>1 DEF Return, TypeOK
<1> QED BY <1>1, <1>2, <1>3, <1>4, <1>5

LEMMA FlusherNext == TypeOK /\ FlusherAlive /\ [Next]_vars => FlusherAlive'
<1> SUFFICES ASSUME TypeOK, FlusherAlive, [Next]_vars PROVE FlusherAlive'
  OBVIOUS
<1>0. running => owned \in Tasks /\ owned \notin Free
  BY DEF FlusherAlive, Free
<1>1. CASE Start
  <2>1. PICK t \in Free : owned' = t /\ tasks' = [tasks EXCEPT ![t] = Ready("periodic")]
    BY <1>1 DEF Start
  <2>2. t \in Tasks /\ tasks'[t] = Ready("periodic")
    BY <2>1 DEF Free, TypeOK
  <2> QED BY <2>1, <2>2 DEF FlusherAlive, Ready, NoTask
<1>2. CASE BeginStop
  BY <1>2 DEF BeginStop, FlusherAlive
<1>3. ASSUME NEW e \in Events, AddEvent(e) PROVE FlusherAlive'
  BY <1>0, <1>3 DEF AddEvent, FlusherAlive, TypeOK, Free
<1>4. ASSUME NEW t \in Tasks, NEW task, tasks' = [tasks EXCEPT ![t] = task], task.kind = tasks[t].kind,
             UNCHANGED <<running, owned>>
      PROVE  FlusherAlive'
  BY <1>4 DEF FlusherAlive, TypeOK
<1>5. ASSUME NEW t \in Tasks, NEW pc, Goes(t, pc) PROVE FlusherAlive'
  <2>1. [tasks[t] EXCEPT !.pc = pc].kind = tasks[t].kind
    BY TaskFacts DEF TypeOK, Task, Ready, NoTask
  <2> QED BY <1>4, <1>5, <2>1 DEF Goes
<1>6. ASSUME NEW t \in Tasks, Run(t) PROVE FlusherAlive'
  <2>1. CASE Return(t)
    BY <2>1, ReturnKeepsFlusher
  <2>2. CASE ~Return(t)
    <3>1. /\ tasks' = [tasks EXCEPT ![t] = [kind |-> tasks[t].kind, pc |-> "redis", batch |-> buffer]]
          /\ UNCHANGED <<running, owned>>
      BY <1>6, <2>2 DEF Run, Flush
    <3> QED BY <1>4, <3>1
  <2> QED BY <2>1, <2>2
<1>7. ASSUME NEW t \in Tasks, Push(t) \/ Post(t) \/ TimeOut(t) PROVE FlusherAlive'
  BY <1>5, <1>7, ReturnKeepsFlusher DEF Push, Post, TimeOut, Sent, Dropped
<1>8. CASE UNCHANGED <<running, owned, tasks>>
  BY <1>8 DEF FlusherAlive
<1>9. ASSUME NEW batch \in posts, HandlePost(batch) PROVE FlusherAlive'
  BY <1>8, <1>9, ReturnKeepsFlusher DEF HandlePost, Sent, Dropped, client
<1> QED
  BY <1>1, <1>2, <1>3, <1>6, <1>7, <1>8, <1>9 DEF Next, FlushStep, WorkerStep, AutoStop, Elapse,
     Pop, EndPop, Persist, DeleteRun, Crash, Boot, vars, client

(* A running buffer has its periodic task.                                 *)
THEOREM BufferHasItsFlusher == Spec => []FlusherAlive
<1>1. Init => FlusherAlive
  BY DEF Init, FlusherAlive
<1> QED BY <1>1, TypeInit, TypeNext, FlusherNext, PTL DEF Spec

-----------------------------------------------------------------------------
(* The pipeline implements EventDelivery.  What the refinement rests on:   *)
(* whatever is carried or stored has left the buffer, and does not get     *)
(* back there.                                                             *)

Batches == {tasks[t].batch : t \in Tasks} \ {{}}

Gone == added \ buffer

OnlyGoneCarried == Delivered \subseteq Gone

DInv == InOnePlace /\ OnlyGoneCarried

LEMMA BatchesGone ==
    ASSUME InOnePlace, NEW t \in Tasks
    PROVE  tasks[t].batch \subseteq Gone
BY DEF InOnePlace, Gone

LEMMA GoneStaysGone ==
    ASSUME TypeOK, InOnePlace, [Next]_vars
    PROVE  Gone \subseteq Gone'
<1>1. ASSUME NEW e \in Events, AddEvent(e) PROVE Gone \subseteq Gone'
  BY <1>1 DEF AddEvent, Gone
<1>2. ASSUME buffer' \subseteq buffer, added' = added PROVE Gone \subseteq Gone'
  BY <1>2 DEF Gone
<1>3. ASSUME NEW t \in Tasks, Return(t) \/ (\E pc : Goes(t, pc)) \/ Run(t) PROVE Gone \subseteq Gone'
  BY <1>2, <1>3 DEF Return, Goes, Run, Flush
<1>4. ASSUME NEW t \in Tasks, Push(t) \/ Post(t) \/ TimeOut(t) PROVE Gone \subseteq Gone'
  BY <1>3, <1>4 DEF Push, Post, TimeOut, Sent, Dropped
<1>5. ASSUME NEW batch \in posts, HandlePost(batch) PROVE Gone \subseteq Gone'
  BY <1>2, <1>3, <1>5 DEF HandlePost, Sent, Dropped, client
<1> QED
  BY <1>1, <1>2, <1>3, <1>4, <1>5 DEF Next, FlushStep, WorkerStep, Start, AutoStop, BeginStop,
     Elapse, Pop, EndPop, Persist, DeleteRun, Crash, Boot, vars, client

LEMMA QueueRest ==
    ASSUME queue \in Seq(Batch), queue # << >>, queue' = Tail(queue)
    PROVE  Queued' \subseteq Queued /\ Head(queue) \subseteq Queued
<1>1. /\ queue' \in Seq(Batch) /\ Len(queue') = Len(queue) - 1
      /\ \A i \in 1..Len(queue') : queue'[i] = queue[i + 1]
      /\ Len(queue) \in Nat \ {0}
  BY HeadTailProperties, EmptySeq
<1>2. DOMAIN queue = 1..Len(queue) /\ DOMAIN queue' = 1..(Len(queue) - 1) /\ Head(queue) = queue[1]
  BY <1>1, LenProperties
<1>3. \A i \in DOMAIN queue' : i + 1 \in DOMAIN queue /\ queue'[i] = queue[i + 1]
  BY <1>1, <1>2
<1>4. 1 \in DOMAIN queue
  BY <1>1, <1>2
<1> QED BY <1>2, <1>3, <1>4 DEF Queued

LEMMA OnlyGoneNext ==
    ASSUME TypeOK, DInv, [Next]_vars
    PROVE  OnlyGoneCarried'
<1> USE DEF DInv
<1>g. Gone \subseteq Gone'
  BY GoneStaysGone
<1>s. ASSUME NEW X, X \subseteq Gone, Delivered' \subseteq Delivered \cup X
      PROVE  OnlyGoneCarried'
  BY <1>g, <1>s DEF OnlyGoneCarried
<1>o. ASSUME Delivered' \subseteq Delivered PROVE OnlyGoneCarried'
  BY <1>g, <1>o DEF OnlyGoneCarried
<1>q. ASSUME UNCHANGED queue PROVE Queued' = Queued
  BY <1>q DEF Queued
<1>p. posts' \subseteq posts => Posted' \subseteq Posted
  BY DEF Posted
<1>a. ASSUME NEW b \in Batch, queue' = Append(queue, b) PROVE Queued' = Queued \cup b
  BY <1>a, QueueAppend DEF TypeOK
<1>b. ASSUME NEW t \in Tasks, NEW b, b = tasks[t].batch,
             UNCHANGED <<worker, rows>>,
             \/ UNCHANGED <<queue, posts>>
             \/ b \in Batch /\ queue' = Append(queue, b) /\ UNCHANGED posts
             \/ posts' = posts \cup {b} /\ UNCHANGED queue
      PROVE  OnlyGoneCarried'
  <2>1. b \subseteq Gone
    BY <1>b, BatchesGone
  <2>2. Queued' \subseteq Queued \cup b /\ Posted' \subseteq Posted \cup b
    BY <1>a, <1>b, <1>q DEF Posted
  <2>3. Delivered' \subseteq Delivered \cup b
    BY <1>b, <2>2 DEF Delivered
  <2> QED BY <1>s, <2>1, <2>3
<1>1. CASE UNCHANGED <<queue, posts, worker, store>>
  <2>1. Delivered' = Delivered
    BY <1>1, <1>q DEF Delivered, Posted, store
  <2> QED BY <1>o, <2>1
<1>2. CASE BeginStop
  <2>1. CASE owned = NoOwned
    <3>1. UNCHANGED <<queue, posts, worker, store>>
      BY <1>2, <2>1 DEF BeginStop, NoTask
    <3> QED BY <1>1, <3>1
  <2>2. CASE owned # NoOwned
    <3>1. owned \in Tasks /\ (tasks[owned].pc # "ready" => tasks[owned].batch \in Batch)
      BY <2>2, TaskFacts DEF TypeOK
    <3>2. /\ UNCHANGED <<worker, rows>>
          /\ \/ UNCHANGED <<queue, posts>>
             \/ tasks[owned].pc = "redis" /\ queue' = Append(queue, tasks[owned].batch) /\ UNCHANGED posts
             \/ posts' = posts \cup {tasks[owned].batch} /\ UNCHANGED queue
      BY <1>2, <2>2 DEF BeginStop, store
    <3> QED BY <1>b, <3>1, <3>2
  <2> QED BY <2>1, <2>2
<1>3. ASSUME NEW t \in Tasks, Push(t) \/ Post(t) PROVE OnlyGoneCarried'
  <2>1. tasks[t].batch \in Batch
    BY <1>3, TaskFacts DEF Push, Post, TypeOK
  <2>2. /\ UNCHANGED <<worker, rows>>
        /\ \/ UNCHANGED <<queue, posts>>
           \/ queue' = Append(queue, tasks[t].batch) /\ UNCHANGED posts
           \/ posts' = posts \cup {tasks[t].batch} /\ UNCHANGED queue
    BY <1>3 DEF Push, Post, store
  <2> QED BY <1>b, <2>1, <2>2
<1>4. ASSUME NEW batch \in posts, HandlePost(batch) PROVE OnlyGoneCarried'
  <2>1. rows' \subseteq rows \cup batch /\ posts' \subseteq posts /\ UNCHANGED <<queue, worker>>
    BY <1>4 DEF HandlePost, Accepted, Rejected, Insert, store
  <2>2. batch \subseteq Posted
    BY DEF Posted
  <2>3. Delivered' \subseteq Delivered
    BY <1>p, <1>q, <2>1, <2>2 DEF Delivered
  <2> QED BY <1>o, <2>3
<1>5. CASE Pop
  <2>1. Queued' \subseteq Queued /\ Head(queue) \subseteq Queued
    BY <1>5, QueueRest DEF Pop, TypeOK
  <2>2. worker'.held \subseteq worker.held \cup Head(queue)
    <3>1. worker.pc # "waiting" =>
            worker \in [pc: {"taking", "persisting"}, taken: 1..QueueBatch, held: Batch]
      BY WorkerFacts DEF TypeOK
    <3> QED BY <1>5, <3>1 DEF Pop
  <2>3. Posted' = Posted /\ rows' = rows
    BY <1>5 DEF Pop, Posted, store
  <2>4. Delivered' \subseteq Delivered
    BY <2>1, <2>2, <2>3 DEF Delivered
  <2> QED BY <1>o, <2>4
<1>6. CASE EndPop
  <2>1. worker'.held = worker.held
    <3>1. worker \in [pc: {"taking", "persisting"}, taken: 1..QueueBatch, held: Batch]
      BY <1>6, WorkerFacts DEF EndPop, TypeOK
    <3> QED BY <1>6, <3>1 DEF EndPop
  <2>2. Posted' = Posted /\ rows' = rows /\ Queued' = Queued
    BY <1>6, <1>q DEF EndPop, Posted, store
  <2>3. Delivered' \subseteq Delivered
    BY <2>1, <2>2 DEF Delivered
  <2> QED BY <1>o, <2>3
<1>7. CASE Persist
  <2>1. PICK chunk \in Chunks(worker.held) :
          /\ worker' = Remainder(chunk)
          /\ Accepted(chunk) \/ Rejected(chunk) \/ UNCHANGED store
    BY <1>7 DEF Persist
  <2>2. chunk \subseteq worker.held
    BY DEF Chunks
  <2>3. rows' \subseteq rows \cup chunk
    BY <2>1 DEF Accepted, Rejected, Insert, store
  <2>4. worker'.held \subseteq worker.held
    <3>1. worker \in [pc: {"taking", "persisting"}, taken: 1..QueueBatch, held: Batch]
      BY <1>7, WorkerFacts DEF Persist, TypeOK
    <3> QED BY <2>1, <3>1 DEF Remainder, Waiting
  <2>5. Posted' = Posted /\ Queued' = Queued
    BY <1>7, <1>q DEF Persist, Posted
  <2>6. Delivered' \subseteq Delivered
    BY <2>2, <2>3, <2>4, <2>5 DEF Delivered
  <2> QED BY <1>o, <2>6
<1>8. CASE DeleteRun \/ Crash
  <2>1. /\ Queued' = Queued /\ Posted' \subseteq Posted /\ rows' \subseteq rows
        /\ worker'.held \subseteq worker.held
    BY <1>8, <1>p, <1>q DEF DeleteRun, Crash, Waiting, store
  <2>2. Delivered' \subseteq Delivered
    BY <2>1 DEF Delivered
  <2> QED BY <1>o, <2>2
<1> QED
  BY <1>1, <1>2, <1>3, <1>4, <1>5, <1>6, <1>7, <1>8 DEF Next, FlushStep, WorkerStep, Start, AutoStop,
     Elapse, AddEvent, Run, TimeOut, Boot, vars

LEMMA CarriedInvariance == Spec => [](TypeOK /\ DInv)
<1>1. Init => DInv
  BY DEF Init, DInv, OnlyGoneCarried, InOnePlace, Delivered, Queued, Posted, Waiting, NoTask
<1>2. TypeOK /\ DInv /\ [Next]_vars => DInv'
  BY InOnePlaceNext, OnlyGoneNext DEF DInv
<1> QED BY <1>1, <1>2, TypeInit, TypeNext, PTL DEF Spec

(* The batches of the tasks, as flights.                                   *)
LEMMA SameBatches ==
    ASSUME \A u \in Tasks : tasks'[u].batch = tasks[u].batch
    PROVE  Batches' = Batches
<1>1. {tasks'[u].batch : u \in Tasks} = {tasks[u].batch : u \in Tasks}
  OBVIOUS
<1> QED BY <1>1 DEF Batches

LEMMA Departs ==
    ASSUME NEW t \in Tasks, tasks[t].batch = {}, buffer # {}, tasks'[t].batch = buffer,
           \A u \in Tasks \ {t} : tasks'[u].batch = tasks[u].batch
    PROVE  Batches' = Batches \cup {buffer}
<1>1. ASSUME NEW b, b \in Batches' PROVE b \in Batches \cup {buffer}
  BY <1>1 DEF Batches
<1>2. ASSUME NEW b \in Batches PROVE b \in Batches'
  BY DEF Batches
<1>3. buffer \in Batches'
  BY DEF Batches
<1> QED BY <1>1, <1>2, <1>3

(* No two tasks hold the same batch: one that lands is gone.               *)
LEMMA Lands ==
    ASSUME InOnePlace, NEW t \in Tasks, tasks[t].batch # {}, tasks'[t].batch = {},
           \A u \in Tasks \ {t} : tasks'[u].batch = tasks[u].batch
    PROVE  tasks[t].batch \in Batches /\ Batches' = Batches \ {tasks[t].batch}
<1> DEFINE b == tasks[t].batch
<1>1. b \in Batches
  BY DEF Batches
<1>2. \A u \in Tasks \ {t} : tasks[u].batch # b
  BY DEF InOnePlace
<1>3. ASSUME NEW c, c \in Batches' PROVE c \in Batches /\ c # b
  BY <1>2, <1>3 DEF Batches
<1>4. ASSUME NEW c \in Batches, c # b PROVE c \in Batches'
  BY <1>4 DEF Batches
<1> QED BY <1>1, <1>3, <1>4

LEMMA Accounted ==
    ASSUME NEW b
    PROVE  /\ sent' = sent \cup b /\ UNCHANGED <<dropped, abandoned>>
                => Account' = [Account EXCEPT !["sent"] = @ \cup b]
           /\ dropped' = dropped \cup b /\ UNCHANGED <<sent, abandoned>>
                => Account' = [Account EXCEPT !["dropped"] = @ \cup b]
           /\ abandoned' = abandoned \cup b /\ UNCHANGED <<sent, dropped>>
                => Account' = [Account EXCEPT !["abandoned"] = @ \cup b]
           /\ UNCHANGED tally => Account' = Account
BY DEF Account, tally

LEMMA DepartedIsGone ==
    ASSUME InOnePlace
    PROVE  Promised!Departed = Gone
<1>1. UNION Batches = UNION {tasks[t].batch : t \in Tasks}
  BY DEF Batches
<1>2. UNION {Account[outcome] : outcome \in Promised!Outcomes} = sent \cup dropped \cup abandoned
  <2>1. ASSUME NEW e
        PROVE  e \in UNION {Account[outcome] : outcome \in Promised!Outcomes}
                 <=> \E outcome \in {"sent", "dropped", "abandoned"} : e \in Account[outcome]
    BY DEF Promised!Outcomes
  <2>2. Account["sent"] = sent /\ Account["dropped"] = dropped /\ Account["abandoned"] = abandoned
    BY DEF Account
  <2> QED BY <2>1, <2>2
<1>3. Promised!Departed = (UNION Batches) \cup (UNION {Account[outcome] : outcome \in Promised!Outcomes})
  BY DEF Promised!Departed, Batches
<1>4. (UNION {tasks[t].batch : t \in Tasks}) \cup (sent \cup dropped \cup abandoned) = Gone
  BY DEF InOnePlace, Gone
<1> QED BY <1>1, <1>2, <1>3, <1>4

(* A flush that ends, or is cancelled, settles its batch.                  *)
LEMMA Settling ==
    ASSUME TypeOK, InOnePlace, NEW t \in Tasks, NEW b, b = tasks[t].batch, tasks[t].pc # "ready",
           Sent(t) \/ Dropped(t)
    PROVE  /\ b \in Batches /\ UNCHANGED buffer
           /\ Sent(t) => Promised!Settles(b, "sent")
           /\ Dropped(t) => Promised!Settles(b, "dropped")
<1>1. Return(t)
  BY DEF Sent, Dropped
<1>2. tasks[t].batch # {}
  BY TaskFacts DEF TypeOK, Batch
<1>3. tasks'[t].batch = {} /\ \A u \in Tasks \ {t} : tasks'[u].batch = tasks[u].batch
  BY <1>1, AfterFlushType DEF Return, TypeOK
<1>4. b \in Batches /\ Batches' = Batches \ {b}
  BY <1>2, <1>3, Lands
<1>5. /\ Sent(t) => Account' = [Account EXCEPT !["sent"] = @ \cup b]
      /\ Dropped(t) => Account' = [Account EXCEPT !["dropped"] = @ \cup b]
  BY Accounted DEF Sent, Dropped
<1> QED BY <1>1, <1>4, <1>5 DEF Promised!Settles, Batches, Return

(* A chunk that is accepted is stored, and nothing else changes the rows.  *)
LEMMA Storing ==
    ASSUME InOnePlace, OnlyGoneCarried, NEW chunk, chunk \subseteq Delivered,
           Accepted(chunk)
    PROVE  Promised!Stores(chunk) /\ UNCHANGED runExists
<1>1. runExists /\ rows' = rows \cup chunk /\ chunk \cap rows = {} /\ UNCHANGED runExists
  BY DEF Accepted, Insert, Conflict
<1>2. chunk \subseteq Promised!Departed \ rows
  BY <1>1, DepartedIsGone DEF OnlyGoneCarried
<1> QED BY <1>1, <1>2 DEF Promised!Stores

LEMMA DeliversNext ==
    ASSUME TypeOK, DInv, [Next]_vars
    PROVE  [Promised!Next]_(Promised!vars)
<1> DEFINE Goal == Promised!Next \/ UNCHANGED Promised!vars
<1> SUFFICES Goal
  OBVIOUS
<1> USE DEF DInv
<1>f. \A t \in Tasks : tasks[t].pc = "ready" \/ tasks[t].kind = "none" => tasks[t].batch = {}
  BY TaskFacts DEF TypeOK
<1>s. ASSUME Batches' = Batches, UNCHANGED <<buffer, tally, rows, runExists>>
      PROVE  Goal
  <2>1. Account' = Account
    BY <1>s, Accounted
  <2> QED BY <1>s, <2>1 DEF Promised!vars, Batches
<1>b. ASSUME \A u \in Tasks : tasks'[u].batch = tasks[u].batch, UNCHANGED <<buffer, tally, rows, runExists>>
      PROVE  Goal
  BY <1>b, <1>s, SameBatches
<1>d. ASSUME NEW b \in Batches, NEW outcome \in {"sent", "dropped", "abandoned"},
             Promised!Settle(b, outcome)
      PROVE  Goal
  BY <1>d DEF Promised!Next, Promised!Outcomes, Batches
<1>e. ASSUME NEW t \in Tasks, tasks[t].pc # "ready", Sent(t) \/ Dropped(t), UNCHANGED <<rows, runExists>>
      PROVE  Goal
  <2>1. PICK b : b = tasks[t].batch
    OBVIOUS
  <2>2. /\ b \in Batches /\ UNCHANGED buffer
        /\ Sent(t) => Promised!Settles(b, "sent")
        /\ Dropped(t) => Promised!Settles(b, "dropped")
    BY <1>e, <2>1, Settling
  <2>3. Promised!Settle(b, "sent") \/ Promised!Settle(b, "dropped")
    BY <1>e, <2>2 DEF Promised!Settle
  <2> QED BY <1>d, <2>2, <2>3
<1>c. ASSUME NEW chunk, chunk \subseteq Delivered, Accepted(chunk), UNCHANGED <<buffer, tally, tasks>>
      PROVE  Goal
  <2>1. Promised!Stores(chunk) /\ UNCHANGED runExists
    BY <1>c, Storing
  <2>2. Batches' = Batches /\ Account' = Account
    BY <1>c, SameBatches, Accounted
  <2>3. Promised!Store(chunk)
    BY <1>c, <2>1, <2>2 DEF Promised!Store, Batches
  <2>4. chunk \in SUBSET Promised!Departed
    BY <2>1 DEF Promised!Stores
  <2> QED BY <2>3, <2>4 DEF Promised!Next
<1>1. CASE Start
  <2>1. PICK t \in Free : tasks' = [tasks EXCEPT ![t] = Ready("periodic")]
    BY <1>1 DEF Start
  <2>2. \A u \in Tasks : tasks'[u].batch = tasks[u].batch
    BY <1>f, <2>1 DEF Free, Ready, NoTask, TypeOK
  <2> QED BY <1>1, <1>b, <2>2 DEF Start, store
<1>2. CASE BeginStop
  <2> DEFINE gone == IF owned = NoOwned THEN NoTask ELSE tasks[owned]
  <2>1. PICK t \in Free :
          tasks' = [u \in Tasks |-> IF u = t THEN Ready("stop")
                                    ELSE IF u = owned THEN NoTask ELSE tasks[u]]
    BY <1>2 DEF BeginStop
  <2>2. /\ abandoned' = abandoned \cup gone.batch
        /\ UNCHANGED <<buffer, sent, dropped, rows, runExists>>
    BY <1>2 DEF BeginStop, store
  <2>3. tasks[t].batch = {}
    BY <1>f DEF Free
  <2>4. CASE gone.batch = {}
    <3>1. \A u \in Tasks : u = owned => tasks[u].batch = {}
      BY <2>4, PipelineAssumption
    <3>2. \A u \in Tasks : tasks'[u].batch = tasks[u].batch
      BY <2>1, <2>3, <3>1 DEF Ready, NoTask
    <3> QED BY <1>b, <2>2, <2>4, <3>2 DEF tally
  <2>5. CASE gone.batch # {}
    <3>1. owned \in Tasks /\ gone = tasks[owned] /\ owned # t
      BY <2>3, <2>5 DEF TypeOK, NoTask
    <3>2. tasks'[owned].batch = {} /\ \A u \in Tasks \ {owned} : tasks'[u].batch = tasks[u].batch
      BY <2>1, <2>3, <3>1 DEF Ready, NoTask
    <3>3. PICK b : b = tasks[owned].batch
      OBVIOUS
    <3>4. b \in Batches /\ Batches' = Batches \ {b}
      BY <2>5, <3>1, <3>2, <3>3, Lands
    <3>5. Account' = [Account EXCEPT !["abandoned"] = @ \cup b]
      BY <2>2, <3>1, <3>3, Accounted
    <3>6. Promised!Settle(b, "abandoned")
      BY <2>2, <3>4, <3>5 DEF Promised!Settle, Promised!Settles, Batches
    <3> QED BY <1>d, <3>4, <3>6
  <2> QED BY <2>4, <2>5
<1>3. ASSUME NEW e \in Events, AddEvent(e) PROVE Goal
  <2>1. \A u \in Tasks : tasks'[u].batch = tasks[u].batch
    <3>1. ASSUME NEW t \in Free, tasks' = [tasks EXCEPT ![t] = Ready("once")]
          PROVE  \A u \in Tasks : tasks'[u].batch = tasks[u].batch
      BY <1>f, <3>1 DEF Free, Ready, NoTask, TypeOK
    <3> QED BY <1>3, <3>1 DEF AddEvent
  <2>2. Batches' = Batches /\ Account' = Account
    BY <1>3, <2>1, SameBatches, Accounted DEF AddEvent
  <2>3. e \notin buffer \cup Promised!Departed
    BY <1>3, DepartedIsGone DEF AddEvent, InOnePlace, Gone
  <2>4. Promised!Record(e)
    BY <1>3, <2>2, <2>3 DEF AddEvent, Promised!Record, Batches, store
  <2> QED BY <2>4 DEF Promised!Next
<1>4. ASSUME NEW t \in Tasks, Run(t) PROVE Goal
  <2>1. tasks[t].batch = {} /\ UNCHANGED <<tally, rows, runExists>>
    BY <1>4, <1>f DEF Run, store
  <2>2. CASE Return(t)
    <3>1. \A u \in Tasks : tasks'[u].batch = tasks[u].batch
      BY <2>1, <2>2, AfterFlushType DEF Return, TypeOK
    <3> QED BY <1>b, <2>1, <2>2, <3>1 DEF Return
  <2>3. CASE ~Return(t)
    <3>1. /\ buffer # {} /\ buffer' = {}
          /\ tasks' = [tasks EXCEPT ![t] = [kind |-> tasks[t].kind, pc |-> "redis", batch |-> buffer]]
      BY <1>4, <2>3 DEF Run, Flush
    <3>2. tasks'[t].batch = buffer /\ \A u \in Tasks \ {t} : tasks'[u].batch = tasks[u].batch
      BY <3>1 DEF TypeOK
    <3>3. Batches' = Batches \cup {buffer}
      BY <2>1, <3>1, <3>2, Departs
    <3>4. Account' = Account
      BY <2>1, Accounted
    <3>5. Promised!Depart
      BY <2>1, <3>1, <3>3, <3>4 DEF Promised!Depart, Batches
    <3> QED BY <3>5 DEF Promised!Next
  <2> QED BY <2>2, <2>3
<1>5. ASSUME NEW t \in Tasks, NEW pc \in {"http", "posted"}, Goes(t, pc), UNCHANGED store PROVE Goal
  <2>1. tasks' = [tasks EXCEPT ![t] = [tasks[t] EXCEPT !.pc = pc]]
    BY <1>5 DEF Goes
  <2>2. [tasks[t] EXCEPT !.pc = pc].batch = tasks[t].batch
    BY TaskFacts DEF TypeOK, Task, Ready, NoTask
  <2>3. \A u \in Tasks : tasks'[u].batch = tasks[u].batch
    BY <2>1, <2>2 DEF TypeOK
  <2> QED BY <1>5, <1>b, <2>3 DEF Goes, store
<1>6. ASSUME NEW t \in Tasks, Push(t) \/ Post(t) \/ TimeOut(t) PROVE Goal
  <2>1. tasks[t].pc # "ready" /\ UNCHANGED store
    BY <1>6 DEF Push, Post, TimeOut
  <2>2. Sent(t) \/ Dropped(t) \/ \E pc \in {"http", "posted"} : Goes(t, pc)
    BY <1>6 DEF Push, Post, TimeOut
  <2> QED BY <1>5, <1>e, <2>1, <2>2 DEF store
<1>7. ASSUME NEW batch \in posts, HandlePost(batch) PROVE Goal
  <2>0. batch \subseteq Delivered
    BY DEF Delivered, Posted
  <2>1. CASE UNCHANGED <<client, tally>>
    <3>1. CASE Accepted(batch)
      BY <1>c, <2>0, <2>1, <3>1 DEF client
    <3>2. CASE UNCHANGED store
      BY <1>b, <2>1, <3>2 DEF client, store
    <3> QED BY <1>7, <3>1, <3>2 DEF HandlePost, Rejected
  <2>2. ASSUME NEW t \in Tasks, tasks[t].pc = "posted", tasks[t].batch = batch, Accepted(batch), Sent(t)
        PROVE  Goal
    <3>1. tasks[t].pc # "ready"
      BY <2>2
    <3>2. batch \in Batches /\ Promised!Settles(batch, "sent") /\ UNCHANGED buffer
      BY <2>2, <3>1, Settling
    <3>3. Promised!Stores(batch) /\ UNCHANGED runExists
      BY <2>0, <2>2, Storing
    <3>4. Promised!Acknowledge(batch)
      BY <3>2, <3>3 DEF Promised!Acknowledge
    <3> QED BY <3>2, <3>4 DEF Promised!Next, Batches
  <2>3. ASSUME NEW t \in Tasks, tasks[t].pc = "posted", UNCHANGED store, Dropped(t)
        PROVE  Goal
    BY <1>e, <2>3 DEF store
  <2> QED BY <1>7, <2>1, <2>2, <2>3 DEF HandlePost, Rejected
<1>8. CASE Persist
  <2>1. PICK chunk \in Chunks(worker.held) : Accepted(chunk) \/ UNCHANGED store
    BY <1>8 DEF Persist, Rejected
  <2>2. chunk \subseteq Delivered /\ UNCHANGED <<client, tally>>
    BY <1>8 DEF Chunks, Delivered, Persist
  <2>3. CASE Accepted(chunk)
    BY <1>c, <2>2, <2>3 DEF client
  <2>4. CASE UNCHANGED store
    BY <1>b, <2>2, <2>4 DEF client, store
  <2> QED BY <2>1, <2>3, <2>4
<1>9. CASE DeleteRun
  <2>1. runExists /\ ~runExists' /\ rows' = {} /\ UNCHANGED <<client, tally>>
    BY <1>9 DEF DeleteRun
  <2>2. Batches' = Batches /\ Account' = Account
    BY <2>1, SameBatches, Accounted DEF client
  <2>3. ~(~runExists) /\ (~runExists') = TRUE
    BY <2>1
  <2>4. Promised!Delete
    BY <2>1, <2>2, <2>3 DEF Promised!Delete, Batches, client
  <2> QED BY <2>4 DEF Promised!Next
<1>10. CASE UNCHANGED <<buffer, tasks, tally, store>>
  BY <1>10, <1>b DEF store
<1> QED
  BY <1>1, <1>2, <1>3, <1>4, <1>6, <1>7, <1>8, <1>9, <1>10 DEF Next, FlushStep, WorkerStep, AutoStop,
     Elapse, Pop, EndPop, Crash, Boot, vars, client

LEMMA DeliversInit == Init => Promised!Init
<1> SUFFICES ASSUME Init PROVE Promised!Init
  OBVIOUS
<1>1. buffer = {} /\ rows = {} /\ (~runExists) = FALSE
  BY DEF Init
<1>2. {tasks[t].batch : t \in Tasks} \ {{}} = {}
  BY DEF Init, NoTask
<1>3. Account = [outcome \in Promised!Outcomes |-> {}]
  BY DEF Init, Account, Promised!Outcomes
<1> QED BY <1>1, <1>2, <1>3 DEF Promised!Init

(* However flushes, requests, late answers and the worker's chunks         *)
(* interleave: batches are settled once and as a whole, and events are     *)
(* stored once, after they left the buffer and while their run exists.     *)
THEOREM ImplementsDelivery == Spec => Delivers
<1>1. TypeOK /\ DInv /\ [Next]_vars => [Promised!Next]_(Promised!vars)
  BY DeliversNext
<1> QED BY <1>1, DeliversInit, CarriedInvariance, PTL DEF Spec, Delivers, Promised!Spec
=============================================================================
