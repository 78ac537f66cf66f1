--------------------------- MODULE TelemetryPipeline ---------------------------
(***************************************************************************)
(* The way of one run's telemetry events: the TelemetryBuffer of its agent *)
(* launcher (services/agent-launcher/app/telemetry_client.py), the Redis   *)
(* list or the HTTP request that carries a batch (ingest_queue.py), and    *)
(* the controller that stores it, in its ingest worker                     *)
(* (services/controller/app/ingest_workers.py, redis_client.py) or in the  *)
(* request handler (routes/telemetry.py).                                  *)
(*                                                                         *)
(* Both processes are asyncio loops.  The buffer's lock is never held over *)
(* an await, so taking the buffer is atomic; what interleaves is the       *)
(* sending, for which every flush is a coroutine of its own: the periodic  *)
(* task, a task for a full buffer or a critical event, or a stop request.  *)
(* Inserting a chunk is one transaction.                                   *)
(***************************************************************************)
EXTENDS Integers, FiniteSets, Sequences

CONSTANTS
    Events,      \* the events recorded in a behaviour
    Tasks,       \* bound: coroutines that can be flushing or waiting to, at a time
    MaxSize,     \* TELEMETRY_BUFFER_SIZE
    QueueBatch,  \* TELEMETRY_QUEUE_BATCH_SIZE
    ChunkSize,   \* TELEMETRY_EVENT_BATCH_LIMIT
    MaxStarts,   \* bound: scheduler starts
    MaxCrashes   \* bound: restarts of the controller

NoOwned == "no task"

ASSUME PipelineAssumption ==
    /\ IsFiniteSet(Events)
    /\ NoOwned \notin Tasks
    /\ MaxSize \in Nat \ {0} /\ QueueBatch \in Nat \ {0} /\ ChunkSize \in Nat \ {0}
    /\ MaxStarts \in Nat /\ MaxCrashes \in Nat

VARIABLES
    session,    \* the scheduler, which starts and stops the buffer, is on
    starts,     \* scheduler starts so far
    running,    \* _running
    buffer,     \* _buffer
    overdue,    \* the flush interval has passed since _last_flush
    tasks,      \* the coroutines that flush
    owned,      \* the task _flush_task refers to, if it is alive
    added,      \* every event recorded
    id,         \* its event_id
    sent,       \* the events counted in events_sent
    dropped,    \* the events counted in events_dropped
    abandoned,  \* history: the events of flushes that were cancelled
    queue,      \* the Redis list of batches
    posts,      \* batches that have reached the controller by HTTP
    worker,     \* the ingest worker
    rows,       \* agent_action_events, by event
    legacy,     \* how many rows of the events table an event has
    runExists,  \* the run's row
    up, crashes,
    disturbed   \* history: a fault that may lose events counted as sent

client  == <<session, starts, running, buffer, overdue, tasks, owned, added, id>>
tally   == <<sent, dropped, abandoned>>
store   == <<rows, legacy, runExists>>
server  == <<up, crashes>>
vars == <<client, tally, queue, posts, worker, store, server, disturbed>>

Batch   == (SUBSET Events) \ {{}}
NoTask  == [kind |-> "none", pc |-> "ready", batch |-> {}]
Ready(kind) == [NoTask EXCEPT !.kind = kind]
Task    == {Ready(kind) : kind \in {"none", "periodic", "once", "stop"}}
             \cup [kind: {"periodic", "once", "stop"}, pc: {"redis", "http", "posted"}, batch: Batch]

Waiting == [pc |-> "waiting", taken |-> 0, held |-> {}]
Worker  == {Waiting} \cup [pc: {"taking", "persisting"}, taken: 1..QueueBatch, held: Batch]

Free == {t \in Tasks : tasks[t].kind = "none"}

-----------------------------------------------------------------------------
(* The end of a flush.                                                     *)

(* Mutants, here and below: what the operator that follows would be with a *)
(* plausible bug.  No action uses them.                                    *)
AfterFlushOnce(t) == NoTask

(* What is left of the coroutine: the periodic task goes back to sleep     *)
(* while the buffer runs.                                                  *)
AfterFlush(t) ==
    IF tasks[t].kind = "periodic" /\ running THEN Ready("periodic") ELSE NoTask

(* A stop request that is through turns the scheduler off.                 *)
Return(t) ==
    /\ tasks' = [tasks EXCEPT ![t] = AfterFlush(t)]
    /\ owned' = IF owned = t /\ AfterFlush(t) = NoTask THEN NoOwned ELSE owned
    /\ session' = (session /\ tasks[t].kind # "stop")
    /\ UNCHANGED <<starts, running, buffer, overdue, added, id>>

Sent(t)    == sent' = sent \cup tasks[t].batch /\ Return(t) /\ UNCHANGED <<dropped, abandoned>>
(* No action uses this one; see AfterFlushOnce.                            *)
DroppedPutBack(t) ==
    /\ tasks' = [tasks EXCEPT ![t] = AfterFlush(t)]
    /\ buffer' = buffer \cup tasks[t].batch
    /\ owned' = IF owned = t /\ AfterFlush(t) = NoTask THEN NoOwned ELSE owned
    /\ session' = (session /\ tasks[t].kind # "stop")
    /\ UNCHANGED <<starts, running, overdue, added, id, tally>>

Dropped(t) == dropped' = dropped \cup tasks[t].batch /\ Return(t) /\ UNCHANGED <<sent, abandoned>>

Goes(t, pc) ==
    /\ tasks' = [tasks EXCEPT ![t].pc = pc]
    /\ UNCHANGED <<session, starts, running, buffer, overdue, owned, added, id, tally>>

-----------------------------------------------------------------------------
(* The telemetry buffer.                                                   *)

(* HeartbeatScheduler.start: a new periodic task, also when the buffer is  *)
(* still running because the scheduler had stopped by itself.              *)
Start ==
    /\ ~session /\ session' = TRUE
    /\ starts < MaxStarts /\ starts' = starts + 1
    /\ running' = TRUE
    /\ \E t \in Free : owned' = t /\ tasks' = [tasks EXCEPT ![t] = Ready("periodic")]
    /\ UNCHANGED <<buffer, overdue, added, id, tally, queue, posts, worker, store, server, disturbed>>

(* The scheduler stops by itself and leaves the buffer as it is.           *)
AutoStop ==
    /\ session /\ session' = FALSE
    /\ UNCHANGED <<starts, running, buffer, overdue, tasks, owned, added, id,
                   tally, queue, posts, worker, store, server, disturbed>>

(* add_event: a full buffer or a critical event gets a task that flushes.  *)
(* The id of an event is the time of day, which another event may share.   *)
AddEvent(e) ==
    /\ e \notin added /\ added' = added \cup {e}
    /\ \E f \in added \cup {e} : id' = [id EXCEPT ![e] = id[f]]
    /\ buffer' = buffer \cup {e}
    /\ \/ Cardinality(buffer') < MaxSize /\ UNCHANGED tasks
       \/ \E t \in Free : tasks' = [tasks EXCEPT ![t] = Ready("once")]
    /\ UNCHANGED <<session, starts, running, overdue, owned,
                   tally, queue, posts, worker, store, server, disturbed>>

(* stop(), up to its own flush.  The periodic task is cancelled and awaited *)
(* at once; a batch it was sending is neither sent nor dropped for the      *)
(* buffer, and may or may not have got through.                             *)
BeginStop ==
    LET gone == IF owned = NoOwned THEN NoTask ELSE tasks[owned]
    IN  /\ session
        /\ running' = FALSE
        /\ owned' = NoOwned
        /\ \E t \in Free :
              tasks' = [u \in Tasks |-> IF u = t THEN Ready("stop")
                                        ELSE IF u = owned THEN NoTask
                                        ELSE tasks[u]]
        /\ abandoned' = abandoned \cup gone.batch
        /\ \/ UNCHANGED <<queue, posts>>
           \/ gone.pc = "redis" /\ queue' = Append(queue, gone.batch) /\ UNCHANGED posts
           \/ gone.pc = "http" /\ up /\ posts' = posts \cup {gone.batch} /\ UNCHANGED queue
    /\ UNCHANGED <<session, starts, buffer, overdue, added, id, sent, dropped,
                   worker, store, server, disturbed>>

Elapse ==
    /\ ~overdue /\ overdue' = TRUE
    /\ UNCHANGED <<session, starts, running, buffer, tasks, owned, added, id,
                   tally, queue, posts, worker, store, server, disturbed>>

FlushKeepingBuffer(t) ==
    \/ /\ buffer = {} /\ Return(t)
    \/ /\ buffer # {}
       /\ tasks' = [tasks EXCEPT ![t] = [kind |-> @.kind, pc |-> "redis", batch |-> buffer]]
       /\ overdue' = FALSE
       /\ UNCHANGED <<session, starts, running, buffer, owned, added, id>>

(* flush(), up to the sending.                                             *)
Flush(t) ==
    \/ /\ buffer = {} /\ Return(t)
    \/ /\ buffer # {}
       /\ tasks' = [tasks EXCEPT ![t] = [kind |-> @.kind, pc |-> "redis", batch |-> buffer]]
       /\ buffer' = {}
       /\ overdue' = FALSE
       /\ UNCHANGED <<session, starts, running, owned, added, id>>

(* The periodic task wakes up and flushes when the time has come; a task   *)
(* that was left behind by an earlier start sees only now that the buffer  *)
(* has been stopped.  The other tasks flush as soon as they run.           *)
Run(t) ==
    /\ tasks[t].kind # "none" /\ tasks[t].pc = "ready"
    /\ \/ tasks[t].kind = "periodic" /\ ~overdue /\ Return(t)
       \/ /\ tasks[t].kind = "periodic" => overdue
          /\ Flush(t)
    /\ UNCHANGED <<tally, queue, posts, worker, store, server, disturbed>>

-----------------------------------------------------------------------------
(* _send_events.                                                           *)

(* The Redis list gets the batch, or the HTTP endpoint does when Redis     *)
(* seems to have refused it, which a lost acknowledgement looks like.      *)
Push(t) ==
    /\ tasks[t].pc = "redis"
    /\ \/ /\ queue' = Append(queue, tasks[t].batch)
          /\ Sent(t)
          /\ UNCHANGED disturbed
       \/ /\ queue' = Append(queue, tasks[t].batch)
          /\ Goes(t, "http")
          /\ disturbed' = TRUE
       \/ /\ Goes(t, "http")
          /\ UNCHANGED <<queue, disturbed>>
    /\ UNCHANGED <<posts, worker, store, server>>

Post(t) ==
    /\ tasks[t].pc = "http"
    /\ \/ up /\ posts' = posts \cup {tasks[t].batch} /\ Goes(t, "posted")
       \/ Dropped(t) /\ UNCHANGED posts
    /\ UNCHANGED <<queue, worker, store, server, disturbed>>

(* The HTTP timeout; the controller may still be at it.                    *)
TimeOut(t) ==
    /\ tasks[t].pc = "posted"
    /\ Dropped(t)
    /\ UNCHANGED <<queue, posts, worker, store, server, disturbed>>

-----------------------------------------------------------------------------
(* The controller.                                                         *)

Conflict(chunk) ==
    \/ chunk \cap rows # {}
    \/ \E e \in chunk, f \in chunk \cup rows : e # f /\ id[e] = id[f]

InsertPerTable(chunk) ==
    /\ legacy' = [e \in Events |-> IF e \in chunk THEN legacy[e] + 1 ELSE legacy[e]]
    /\ rows' = IF Conflict(chunk) THEN rows ELSE rows \cup chunk

(* The transaction of a chunk: the rows of both tables, or none.           *)
Insert(chunk) ==
    /\ ~Conflict(chunk)
    /\ rows' = rows \cup chunk
    /\ legacy' = [e \in Events |-> IF e \in chunk THEN legacy[e] + 1 ELSE legacy[e]]

(* persist_batch_events: events of a run that does not exist are rejected  *)
(* one by one; a duplicate id or a database error rejects the chunk.       *)
Accepted(chunk) == runExists /\ Insert(chunk) /\ UNCHANGED runExists
Rejected(chunk) ==
    /\ ~runExists \/ Conflict(chunk)
    /\ UNCHANGED store

(* The request handler, whose answer may be too late or get lost.          *)
HandlePost(batch) ==
    /\ up /\ batch \in posts
    /\ posts' = posts \ {batch}
    /\ \/ /\ Accepted(batch)
          /\ \/ \E t \in Tasks : tasks[t].pc = "posted" /\ tasks[t].batch = batch /\ Sent(t)
             \/ UNCHANGED <<client, tally>>
       \/ /\ Rejected(batch) \/ UNCHANGED store       \* a database error
          /\ \/ \E t \in Tasks : tasks[t].pc = "posted" /\ tasks[t].batch = batch /\ Dropped(t)
             \/ UNCHANGED <<client, tally>>
    /\ UNCHANGED <<queue, worker, server, disturbed>>

(* The worker pops one batch, then more without blocking.  A reply of      *)
(* Redis that gets lost takes a batch with it.                             *)
Pop ==
    /\ up /\ worker.pc # "persisting" /\ worker.taken < QueueBatch /\ queue # << >>
    /\ queue' = Tail(queue)
    /\ \/ /\ worker' = [pc |-> "taking", taken |-> worker.taken + 1,
                        held |-> worker.held \cup Head(queue)]
          /\ UNCHANGED disturbed
       \/ /\ worker' = IF worker.pc = "waiting" THEN worker ELSE [worker EXCEPT !.pc = "persisting"]
          /\ disturbed' = TRUE
    /\ UNCHANGED <<client, tally, posts, store, server>>

EndPopWhenFull ==
    /\ up /\ worker.pc = "taking" /\ worker.taken = QueueBatch
    /\ worker' = [worker EXCEPT !.pc = "persisting"]
    /\ UNCHANGED <<client, tally, queue, posts, store, server, disturbed>>

(* The queue is empty, enough was popped, or Redis does not answer.        *)
EndPop ==
    /\ up /\ worker.pc = "taking"
    /\ worker' = [worker EXCEPT !.pc = "persisting"]
    /\ UNCHANGED <<client, tally, queue, posts, store, server, disturbed>>

Chunks(held) == {c \in SUBSET held : /\ Cardinality(c) <= ChunkSize
                                     /\ Cardinality(c) = ChunkSize \/ c = held}

RemainderDropped(chunk) == Waiting

Remainder(chunk) ==
    IF worker.held = chunk THEN Waiting ELSE [worker EXCEPT !.held = @ \ chunk]

(* One chunk after the other; one that is rejected is logged and lost.     *)
Persist ==
    /\ up /\ worker.pc = "persisting"
    /\ \E chunk \in Chunks(worker.held) :
          /\ worker' = Remainder(chunk)
          /\ \/ Accepted(chunk) /\ UNCHANGED disturbed
             \/ Rejected(chunk) /\ UNCHANGED disturbed
             \/ UNCHANGED store /\ disturbed' = TRUE
    /\ UNCHANGED <<client, tally, queue, posts, server>>

(* The run is deleted, and its events with it.                             *)
DeleteRun ==
    /\ runExists /\ runExists' = FALSE
    /\ rows' = {} /\ legacy' = [e \in Events |-> 0]
    /\ UNCHANGED <<client, tally, queue, posts, worker, server, disturbed>>

(* The controller goes down with what its worker had popped.               *)
Crash ==
    /\ up /\ crashes < MaxCrashes
    /\ up' = FALSE /\ crashes' = crashes + 1
    /\ posts' = {} /\ worker' = Waiting
    /\ disturbed' = (disturbed \/ worker.held # {})
    /\ UNCHANGED <<client, tally, queue, store>>

Boot ==
    /\ ~up /\ up' = TRUE
    /\ UNCHANGED <<client, tally, queue, posts, worker, store, crashes, disturbed>>

-----------------------------------------------------------------------------
Init ==
    /\ session = FALSE /\ starts = 0
    /\ running = FALSE /\ buffer = {} /\ overdue = FALSE
    /\ tasks = [t \in Tasks |-> NoTask] /\ owned = NoOwned
    /\ added = {} /\ id = [e \in Events |-> e]
    /\ sent = {} /\ dropped = {} /\ abandoned = {}
    /\ queue = << >> /\ posts = {} /\ worker = Waiting
    /\ rows = {} /\ legacy = [e \in Events |-> 0] /\ runExists = TRUE
    /\ up = TRUE /\ crashes = 0 /\ disturbed = FALSE

FlushStep(t) == Run(t) \/ Push(t) \/ Post(t) \/ TimeOut(t)

WorkerStep == Pop \/ EndPop \/ Persist

Next ==
    \/ Start \/ AutoStop \/ BeginStop \/ Elapse
    \/ \E e \in Events : AddEvent(e)
    \/ \E t \in Tasks : FlushStep(t)
    \/ \E batch \in posts : HandlePost(batch)
    \/ WorkerStep
    \/ DeleteRun \/ Crash \/ Boot

Spec == Init /\ [][Next]_vars

(***************************************************************************)
(* Fairness.  The event loops run what is ready, every request has a       *)
(* timeout, time passes, and the controller is started again.              *)
(***************************************************************************)
FairSpec ==
    /\ Spec
    /\ \A t \in Tasks : WF_vars(FlushStep(t))
    /\ WF_vars(Elapse) /\ WF_vars(WorkerStep) /\ WF_vars(Boot)

-----------------------------------------------------------------------------
(* Properties.                                                             *)

TypeOK ==
    /\ session \in BOOLEAN /\ starts \in 0..MaxStarts /\ running \in BOOLEAN
    /\ buffer \subseteq Events /\ overdue \in BOOLEAN
    /\ tasks \in [Tasks -> Task] /\ owned \in Tasks \cup {NoOwned}
    /\ added \subseteq Events /\ id \in [Events -> Events]
    /\ sent \subseteq Events /\ dropped \subseteq Events /\ abandoned \subseteq Events
    /\ queue \in Seq(Batch) /\ posts \subseteq Batch
    /\ worker \in Worker
    /\ rows \subseteq Events /\ legacy \in [Events -> Nat] /\ runExists \in BOOLEAN
    /\ up \in BOOLEAN /\ crashes \in 0..MaxCrashes
    /\ disturbed \in BOOLEAN

(* Every event recorded is in exactly one place for the launcher: in the   *)
(* buffer, in one flush, or accounted for.  Concurrent flushes, of which   *)
(* one may be cancelled, neither duplicate an event nor forget one.        *)
InOnePlace ==
    /\ added = buffer \cup sent \cup dropped \cup abandoned
                 \cup UNION {tasks[t].batch : t \in Tasks}
    /\ \A t, u \in Tasks : t # u => tasks[t].batch \cap tasks[u].batch = {}
    /\ \A t \in Tasks :
          tasks[t].batch \cap (buffer \cup sent \cup dropped \cup abandoned) = {}
    /\ buffer \cap (sent \cup dropped \cup abandoned) = {}
    /\ sent \cap (dropped \cup abandoned) = {}
    /\ dropped \cap abandoned = {}

(* However often a batch reaches the controller, by Redis, by HTTP or by   *)
(* both, the two tables hold each event at most once and agree on it.      *)
StoredOnce ==
    \A e \in Events : legacy[e] = IF e \in rows THEN 1 ELSE 0

Queued == UNION {queue[i] : i \in DOMAIN queue}

(* No id was given twice, nothing failed that can lose what was sent, and  *)
(* the run still exists.                                                   *)
Undisturbed ==
    /\ ~disturbed /\ runExists
    /\ \A e, f \in added : e # f => id[e] # id[f]

(* An event counted as sent is stored or on its way: no order of flushes,  *)
(* fallbacks, late answers and merged chunks loses it or rejects its chunk *)
(* for a duplicate.                                                        *)
SentIsSafe ==
    Undisturbed => sent \subseteq Queued \cup worker.held \cup rows

(* While the buffer runs its periodic task is alive, and _flush_task is    *)
(* that one, whatever tasks an earlier start has left behind and whichever *)
(* of them end: without it nothing sends a buffer that never gets full,    *)
(* and stop() cancels it.                                                  *)
FlusherAlive ==
    running => owned \in Tasks /\ tasks[owned].kind = "periodic"

(* What became of the events that a flush is done with.                    *)
Account == [outcome \in {"sent", "dropped", "abandoned"} |->
               IF outcome = "sent" THEN sent ELSE IF outcome = "dropped" THEN dropped ELSE abandoned]

Promised == INSTANCE EventDelivery WITH
    buffered <- buffer,
    flights  <- {tasks[t].batch : t \in Tasks} \ {{}},
    settled  <- Account,
    stored   <- rows,
    deleted  <- ~runExists

(* The pipeline implements EventDelivery: however flushes, requests, late  *)
(* answers and the worker's chunks interleave, batches are settled once    *)
(* and as a whole, and events are stored once, after they left the buffer  *)
(* and never after the deletion of their run.                              *)
Delivers == Promised!Spec

(* While the buffer runs no event stays in it, however often the scheduler *)
(* that owns it was stopped, by itself or not, and started again.          *)
BufferDrains ==
    \A e \in Events : e \in buffer /\ running ~> e \notin buffer \/ ~running

(* An event counted as sent gets stored in the end.                        *)
SentIsStored ==
    \A e \in Events : e \in sent ~> e \in rows \/ ~Undisturbed

(* stop() promises to "flush remaining events": those it finds in the hands *)
(* of the periodic task have got through.  Refuted: cancelling that task    *)
(* cancels its request, and the batch is not put back.                      *)
StopFlushes ==
    Undisturbed => abandoned \subseteq Queued \cup worker.held \cup rows \cup UNION posts
=============================================================================
