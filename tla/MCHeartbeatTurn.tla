---------------------------- MODULE MCHeartbeatTurn ----------------------------
(* Two turns of one agent, each limited in one way or the other, and what   *)
(* ModelAnswers says of all answers of a few pieces.                        *)
EXTENDS HeartbeatTurn

MCPolicies ==
    {[calls |-> 2, round |-> 2, tick |-> 2, timed |-> FALSE],
     [calls |-> NoLimit, round |-> 1, tick |-> NoLimit, timed |-> TRUE]}

(* The calls of tools in an answer of a provider are performed one and all, *)
(* in their order, or none of them is: one that cannot be used takes the    *)
(* others with it, and what is in the text beside them is never performed.  *)
Asked(calls) == SelectSeq(Says(calls), LAMBDA says : says # "ok")

ASSUME AllCallsOrNone ==
    \A answer \in Answers :
        answer.calls # << >> =>
            Actionable(answer) =
                IF \A i \in DOMAIN answer.calls : answer.calls[i].says \notin {"unknown", "raises"}
                THEN Asked(answer.calls)
                ELSE << >>

(* An answer comes to no more actions than it has pieces.                   *)
ASSUME NoMoreThanAsked == Counts \subseteq 0..MaxReply

(* The dummy provider is always understood: it says HEARTBEAT_OK, or what   *)
(* it asks for is performed.                                                *)
ASSUME DummyIsUnderstood ==
    \A answer \in DummyAnswers :
        LET piece == answer.text[1]
        IN  Actionable(answer) = IF piece.says = "ok" THEN << >> ELSE <<piece.says>>
=============================================================================
