--------------------------- MODULE HeartbeatService ---------------------------
(***************************************************************************)
(* What the scheduler promises to those who control it and to the agents   *)
(* it calls, without loops, queues and permits: heartbeats begin and are   *)
(* repeated only while it runs, in epochs from one start to the next, each *)
(* with its own limit of concurrency; no request cuts a heartbeat off; the *)
(* state is what the last request made it, or the scheduler has stopped by *)
(* itself.  HeartbeatScheduler implements it.                              *)
(***************************************************************************)
EXTENDS Naturals, FiniteSets

CONSTANTS
    Senders,      \* who can have a heartbeat under way
    MaxParallel,  \* heartbeats of an epoch under way at a time
    Retries,      \* attempts of one heartbeat
    Cap           \* the highest number of an agent's heartbeat

VARIABLES
    state,  \* what the status page says
    epoch,  \* starts so far
    open    \* the heartbeat a sender has under way

vars == <<state, epoch, open>>

None == [epoch |-> 0, index |-> 0, attempts |-> 0]

UnderWay(e) == {x \in Senders : open[x] # None /\ open[x].epoch = e}

(* A heartbeat that waited through a restart belongs to its old epoch.     *)
Send(x) ==
    /\ state = "running" /\ open[x] = None
    /\ \E e \in 1..epoch, i \in 1..Cap :
          /\ Cardinality(UnderWay(e)) < MaxParallel
          /\ open' = [open EXCEPT ![x] = [epoch |-> e, index |-> i, attempts |-> 1]]
    /\ UNCHANGED <<state, epoch>>

Retry(x) ==
    /\ state = "running" /\ open[x] # None
    /\ open[x].attempts < Retries
    /\ open' = [open EXCEPT ![x].attempts = @ + 1]
    /\ UNCHANGED <<state, epoch>>

(* In its first epoch it stops by itself only with nothing under way.      *)
StopsItself ==
    /\ state = "running" /\ state' = "stopped"
    /\ epoch = 1 => \A x \in Senders : open'[x] = None

End(x) ==
    /\ open[x] # None
    /\ open' = [open EXCEPT ![x] = None]
    /\ UNCHANGED state \/ StopsItself
    /\ UNCHANGED epoch

AutoStop == StopsItself /\ UNCHANGED <<epoch, open>>

(* A start with a configuration is a restart, whatever the state was.      *)
Start  == state' = "running" /\ epoch' = epoch + 1 /\ UNCHANGED open
Pause  == state = "running" /\ state' = "paused" /\ UNCHANGED <<epoch, open>>
Resume == state = "paused" /\ state' = "running" /\ UNCHANGED <<epoch, open>>
Stop   == state' = "stopped" /\ UNCHANGED <<epoch, open>>

Init ==
    /\ state = "stopped" /\ epoch = 0
    /\ open = [x \in Senders |-> None]

Next ==
    \/ \E x \in Senders : Send(x) \/ Retry(x) \/ End(x)
    \/ AutoStop
    \/ Start \/ Pause \/ Resume \/ Stop

Spec == Init /\ [][Next]_vars
=============================================================================
