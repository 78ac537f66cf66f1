------------------------------ MODULE ModelAnswers ------------------------------
(***************************************************************************)
(* From the answer of a model to the actions of a round: what each         *)
(* provider's answer is rendered as (llm_client.py), and what              *)
(* ActionParser.parse_multiple finds in it (action_parser.py).             *)
(*                                                                         *)
(* The text of an answer is a sequence of pieces.  A piece has a form, a   *)
(* direct call as request({...}), the JSON of an action in a fenced block, *)
(* in running prose or as an item of an array that is the whole answer,    *)
(* the literal HEARTBEAT_OK, or just prose, and says what is to be done.   *)
(***************************************************************************)
EXTENDS Naturals, Sequences, SequencesExt

CONSTANTS
    Doings,     \* things the model can ask for
    MaxReply    \* bound: pieces of an answer

ASSUME AnswersAssumption ==
    /\ {"ok", "unknown", "raises"} \cap Doings = {}
    /\ MaxReply \in Nat \ {0}

(* Besides: that nothing needs attention, what no tool does, and what      *)
(* converting its arguments raises an exception for, as a method that is   *)
(* none in the JSON of an action or a limit that is no number.             *)
Sayings == Doings \cup {"ok", "unknown", "raises"}

Forms == {"call", "fenced", "inline", "item", "literal", "prose"}
Piece == [form: Forms, says: Sayings]
Literal == [form |-> "literal", says |-> "ok"]
Prose == [form |-> "prose", says |-> "unknown"]

UpTo(set) == UNION {[1..n -> set] : n \in 0..MaxReply}
InForm(form) == {piece \in Piece : piece.form = form}
AllIn(pieces, form) == pieces # << >> /\ \A i \in DOMAIN pieces : pieces[i].form = form

(* The text a model can write: an array, or anything else.                 *)
Texts ==
    UpTo(InForm("item"))
    \cup UpTo(InForm("call") \cup InForm("fenced") \cup InForm("inline") \cup {Literal, Prose})

(* What OpenAI, OpenRouter and Anthropic answer: calls of tools, and text. *)
Answers == [calls: UpTo(InForm("call")), text: Texts]

(* The dummy provider: one call, or the literal, whatever the conversation. *)
DummyAnswers ==
    {[calls |-> << >>, text |-> <<piece>>] :
        piece \in {Literal} \cup {p \in InForm("call") : p.says \in Doings \cup {"ok"}}}

(* Calls of tools become direct calls, one a line, and the text beside     *)
(* them is dropped.                                                        *)
Rendered(answer) == IF answer.calls # << >> THEN answer.calls ELSE answer.text

-----------------------------------------------------------------------------
(* parse_multiple.                                                         *)

Says(pieces) == [i \in DOMAIN pieces |-> pieces[i].says]

(* _parse_direct_tool_calls goes from call to call and stops at the first  *)
(* that it cannot use: then there are no direct calls at all.              *)
Stops(pieces) == {i \in DOMAIN pieces : pieces[i].form # "call" \/ pieces[i].says \in {"unknown", "raises"}}
StopsFirst(pieces, i) == i \in Stops(pieces) /\ \A j \in Stops(pieces) : i <= j

DirectRaises(pieces) ==
    \E i \in DOMAIN pieces : StopsFirst(pieces, i) /\ pieces[i].form = "call" /\ pieces[i].says = "raises"

Direct(pieces) == IF Stops(pieces) = {} THEN Says(pieces) ELSE << >>

(* _dict_to_action: an item that is no action is left out.                 *)
Items(pieces) == SelectSeq(Says(pieces), LAMBDA says : says \notin {"unknown", "raises"})

(* parse: the fenced blocks, and the JSON in the prose that says something *)
(* else.  What no tool does is an action too, that fails when performed.   *)
In(pieces, form) == SelectSeq(pieces, LAMBDA piece : piece.form = form)
WithNew(said, says) == IF Contains(said, says) THEN said ELSE Append(said, says)
Scanned(pieces) == FoldLeft(WithNew, Says(In(pieces, "fenced")), Says(In(pieces, "inline")))

ScanRaises(pieces) ==
    \E i \in DOMAIN pieces : pieces[i].form \in {"fenced", "inline"} /\ pieces[i].says = "raises"

Raises(pieces) == DirectRaises(pieces) \/ ScanRaises(pieces)

Parsed(pieces) ==
    IF pieces = <<Literal>> THEN <<"ok">>
    ELSE IF Direct(pieces) # << >> THEN Direct(pieces)
    ELSE IF AllIn(pieces, "item") THEN Items(pieces)
    ELSE Scanned(pieces)

(* TurnOrchestrator.run: what is left to perform.  An exception of the     *)
(* parser is caught and leaves nothing.                                    *)
Actionable(answer) ==
    IF Raises(Rendered(answer))
    THEN << >>
    ELSE SelectSeq(Parsed(Rendered(answer)), LAMBDA says : says # "ok")

(* How many actions an answer can come to, if it comes to any.             *)
Counts == {Len(Actionable(answer)) : answer \in Answers \cup DummyAnswers}
Askable == (1..MaxReply) \cap Counts
=============================================================================
