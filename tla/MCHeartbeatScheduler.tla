------------------------ MODULE MCHeartbeatScheduler ------------------------
(* Model checking of HeartbeatScheduler: agents are interchangeable.       *)
EXTENDS HeartbeatScheduler, TLC

CONSTANTS a1, a2

AgentSymmetry == Permutations(Agents)
=============================================================================
