---------------------------- MODULE MCAgentActions ----------------------------
(* Model checking of AgentActions, with what AgentBootstrap does before and *)
(* meanwhile.  The turns are interchangeable; the agents are not, as one of *)
(* them has the turns.                                                      *)
EXTENDS AgentActions, TLC

CONSTANTS a1, a2, t1, t2

TurnSymmetry == Permutations(Turns)
=============================================================================
