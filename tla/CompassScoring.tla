---------------------------- MODULE CompassScoring ----------------------------
(***************************************************************************)
(* The instrument of the compass gate (compass/instrument_registry.py): the *)
(* questionnaire that a run's params name, which answers to it are taken    *)
(* and what they score.                                                     *)
(*                                                                          *)
(* A file that defines an instrument is a record: the answers allowed, the  *)
(* scoring method, the axes and the questions in their order.  A question   *)
(* has the axes it has an effect on.  What may be left out is a set of at   *)
(* most one value.  Weights and effects are integers here.                  *)
(***************************************************************************)
EXTENDS Integers, Sequences, SequencesExt, FiniteSetsExt

Given(option, default) == IF option = {} THEN default ELSE CHOOSE x \in option : TRUE
Magnitude(n) == IF n < 0 THEN -n ELSE n

Ids(entries) == [i \in DOMAIN entries |-> entries[i].id]
AxisIds(file) == ToSet(Ids(file.axes))
QuestionIds(file) == ToSet(Ids(file.questions))
Scale(file) == ToSet(file.scale)

-----------------------------------------------------------------------------
(* _normalize_instrument.                                                   *)

\* The largest answer, unless the file gives another number to divide by.
Largest(file) == Max({Magnitude(v) : v \in Scale(file)})
AnswerMaxAbs(file) == Given(file.maxAbs, Largest(file))

NormalizedRange(file) ==
    IF Magnitude(Given(file.range, 10)) = 0 THEN 10 ELSE Magnitude(Given(file.range, 10))

\* The axes of the compass point: those the file names, filled up with axes that
\* are marked, then with any.
Filled(ids, more) ==
    IF Len(ids) >= 2 THEN ids ELSE ids \o SelectSeq(more, LAMBDA id : ~Contains(ids, id))

Named(file) == SelectSeq(file.primary, LAMBDA id : id \in AxisIds(file))
Once(ids) == FoldLeft(LAMBDA seen, id : IF Contains(seen, id) THEN seen ELSE Append(seen, id),
                      << >>, ids)
Marked(file) == Ids(SelectSeq(file.axes, LAMBDA axis : axis.primary))

AllPrimary(file) == Filled(Filled(Once(Named(file)), Marked(file)), Ids(file.axes))
PrimaryAxes(file) == SubSeq(AllPrimary(file), 1, Min({2, Len(AllPrimary(file))}))

Unique(entries) == IsInjective(Ids(entries))

WellFormedAxes(file) ==
    /\ file.axes # << >> /\ Unique(file.axes)
    /\ \A i \in DOMAIN file.questions :
          LET on == DOMAIN file.questions[i].effects
          IN  on # {} /\ on \subseteq AxisIds(file)
    /\ AnswerMaxAbs(file) > 0
    /\ Len(PrimaryAxes(file)) = 2

\* Any other file is refused with an InstrumentValidationError.
ValidInstrument(file) ==
    /\ file.scale # << >>
    /\ file.questions # << >> /\ Unique(file.questions)
    /\ file.method \in {"weighted_sum", "weighted_axes"}
    /\ file.method = "weighted_axes" => WellFormedAxes(file)

-----------------------------------------------------------------------------
(* validate_submission_answers.  The answers given are a function of keys, a *)
(* question and whether there are spaces around it; a value is a number (or  *)
(* its text, or a fraction, by what int() makes of it), infinite, or nothing *)
(* that int() takes.                                                         *)
Nothing == [form |-> "nothing", n |-> 0]
AnswerTo(raw, q) == IF <<q, "exact">> \in DOMAIN raw THEN raw[<<q, "exact">>] ELSE Nothing

\* The keys are compared without the spaces; the answers are looked up with them.
KeysMatch(file, raw) == {key[1] : key \in DOMAIN raw} = QuestionIds(file)

Unusable(file, raw) ==
    {i \in DOMAIN file.questions :
        LET value == AnswerTo(raw, file.questions[i].id)
        IN  value.form # "number" \/ value.n \notin Scale(file)}

Taken(file, raw) == KeysMatch(file, raw) /\ Unusable(file, raw) = {}

\* int() of an infinite number raises an exception that is not caught, unless
\* an earlier question has refused the submission.
RaisesOn(file, raw) ==
    /\ KeysMatch(file, raw)
    /\ Unusable(file, raw) # {}
    /\ LET first == file.questions[Min(Unusable(file, raw))]
       IN  AnswerTo(raw, first.id).form = "infinite"

Answers(file, raw) == [q \in QuestionIds(file) |-> AnswerTo(raw, q).n]

-----------------------------------------------------------------------------
(* Scores.  round() of a quotient of floats: at a tie the quotient in binary *)
(* may be on either side, so that there are up to two results.               *)
Nearest(n, d) == {k \in {n \div d, n \div d + 1} : 2 * Magnitude(k * d - n) <= d}

\* _score_weighted_sum.  A question without a weight has 1.
Weight(file, q) == IF q \in DOMAIN file.weights THEN file.weights[q] ELSE 1
Total(file, answers) ==
    MapThenSumSet(LAMBDA q : answers[q] * Weight(file, q), QuestionIds(file))
MeanScore(file, answers) == Nearest(1000 * Total(file, answers), Len(file.questions))
Classification(total) ==
    IF total > 0 THEN "positive" ELSE IF total < 0 THEN "negative" ELSE "zero"

\* _score_weighted_axes: hundredths on each axis.
Effect(file, i, axis) ==
    LET effects == file.questions[i].effects
    IN  IF axis \in DOMAIN effects THEN effects[axis] ELSE 0

AxisTotal(file, answers, axis) ==
    MapThenSumSet(LAMBDA i : answers[file.questions[i].id] * Effect(file, i, axis),
                  DOMAIN file.questions)
AxisMaximum(file, axis) ==
    MapThenSumSet(LAMBDA i : Magnitude(Effect(file, i, axis)), DOMAIN file.questions)

AxisScore(file, answers, axis) ==
    IF AxisMaximum(file, axis) = 0 THEN {0}
    ELSE Nearest(100 * NormalizedRange(file) * AxisTotal(file, answers, axis),
                 AnswerMaxAbs(file) * AxisMaximum(file, axis))

Quadrant(x, y) ==
    IF Magnitude(x) < 75 /\ Magnitude(y) < 75 THEN "centrist"
    ELSE IF y >= 0 THEN (IF x < 0 THEN "authoritarian_left" ELSE "authoritarian_right")
    ELSE (IF x < 0 THEN "libertarian_left" ELSE "libertarian_right")

Quadrants(file, answers) ==
    {Quadrant(x, y) : x \in AxisScore(file, answers, PrimaryAxes(file)[1]),
                      y \in AxisScore(file, answers, PrimaryAxes(file)[2])}

\* score_submission, by what the agent's result shows of it.
Scored(file, answers) ==
    IF file.method = "weighted_axes" THEN Quadrants(file, answers)
    ELSE {Classification(Total(file, answers))}

-----------------------------------------------------------------------------
(* What makes a score fair.  Answers count both ways: who gives every answer  *)
(* the other way gets the opposite score on every axis.                       *)
Against(answers) == [q \in DOMAIN answers |-> -answers[q]]
Negated(S) == {-k : k \in S}

OppositeOn(file, answers, axis) ==
    AxisScore(file, Against(answers), axis) = Negated(AxisScore(file, answers, axis))

(* No answers score beyond the range of an axis.                              *)
InRangeOn(file, answers, axis) ==
    \A k \in AxisScore(file, answers, axis) : Magnitude(k) <= 100 * NormalizedRange(file)

(* The end of an axis is where the strongest answers lead, each in the        *)
(* direction of its effect.                                                   *)
AtTheEnd(file, answers, axis) ==
    AxisScore(file, answers, axis) = {100 * NormalizedRange(file)}

(* The opposite quadrant; the center has none but itself.                     *)
Opposite(quadrant) ==
    CASE quadrant = "centrist" -> "centrist"
      [] quadrant = "authoritarian_left" -> "libertarian_right"
      [] quadrant = "authoritarian_right" -> "libertarian_left"
      [] quadrant = "libertarian_left" -> "authoritarian_right"
      [] quadrant = "libertarian_right" -> "authoritarian_left"

OppositeQuadrant(file, answers) ==
    Quadrants(file, Against(answers)) = {Opposite(q) : q \in Quadrants(file, answers)}

(* The mean of a weighted sum is on the side its classification says.         *)
MeanAgrees(file, answers) ==
    \A k \in MeanScore(file, answers) : Classification(k) = Classification(Total(file, answers))

(* What is taken answers each question, with a value of the scale and under   *)
(* the key that is looked up.                                                 *)
Complete(file, raw) ==
    /\ Answers(file, raw) \in [QuestionIds(file) -> Scale(file)]
    /\ \A q \in QuestionIds(file) : <<q, "exact">> \in DOMAIN raw
=============================================================================
