-------------------------- MODULE MCMoltbookPlatform --------------------------
\* Model-checking instance of MoltbookPlatform: threads, agents and tokens are
\* interchangeable; the hash of the jitter gives 0 or -1.  And what
\* CompassScoring says of all small instruments and answers to them.
EXTENDS MoltbookPlatform, CompassScoring, TLC

MCJitter == [t \in Times |-> IF t % 2 = 0 THEN -1 ELSE 0]
Symmetry == Permutations(Agents) \cup Permutations(Tokens) \cup Permutations(Requests)

-----------------------------------------------------------------------------
\* Two questions with effects on up to two of three axes, in every way.
Axis(id, primary) == [id |-> id, primary |-> primary]
Effects == UNION {[S -> {-1, 0, 2}] : S \in {{"e"}, {"a"}, {"e", "a"}, {"x"}, {}}}
Weightings == UNION {[S -> {-1, 0, 2}] : S \in SUBSET {"q1", "q2"}}

Files ==
    [scale : {<<-2, -1, 1, 2>>, <<1, 1, 0, -1>>, <<0, 2>>, << >>},
     method : {"weighted_axes"},
     axes : {<<Axis("e", TRUE), Axis("s", FALSE), Axis("a", TRUE)>>},
     questions : {<<[id |-> "q1", effects |-> f], [id |-> "q2", effects |-> g]>> :
                     f \in Effects, g \in Effects},
     weights : {<< >>}, maxAbs : {{}, {1}, {0}}, range : {{}, {-7}},
     primary : {<<"e", "a">>}]

SumFiles ==
    [scale : {<<-2, -1, 1, 2>>, <<0, 2>>}, method : {"weighted_sum"}, axes : {<< >>},
     questions : {<<[id |-> "q1", effects |-> << >>], [id |-> q, effects |-> << >>]>> :
                     q \in {"q1", "q2"}},
     weights : Weightings, maxAbs : {{}}, range : {{}}, primary : {<< >>}]

\* The same question, and axes named, marked and listed in every way.
UpTo(S, m) == UNION {[1..n -> S] : n \in 0..m}
AxisFiles ==
    [scale : {<<0, 1>>}, method : {"weighted_axes", "unheard_of"},
     axes : UpTo([id : {"e", "s", "a"}, primary : BOOLEAN], 3),
     questions : {<<[id |-> "q1", effects |-> [axis \in {"e"} |-> 1]]>>},
     weights : {<< >>}, maxAbs : {{}}, range : {{}},
     primary : UpTo({"e", "s", "x"}, 3)]

AnswersTo(file) == [QuestionIds(file) -> Scale(file)]
ValidFiles == {file \in Files : ValidInstrument(file)}

(* The point of an instrument is on two axes of it that differ, those the file *)
(* names and knows coming first, those it marks second; two axes are enough.   *)
ASSUME PointHasTwoAxes ==
    \A file \in {f \in AxisFiles : f.method = "weighted_axes" /\ Unique(f.axes)} :
        LET axes == PrimaryAxes(file)
            named == Once(Named(file))
        IN  /\ ValidInstrument(file) <=> Len(file.axes) >= 2 /\ "e" \in AxisIds(file)
            /\ Len(file.axes) >= 2 =>
                  /\ axes[1] # axes[2] /\ ToSet(axes) \subseteq AxisIds(file)
                  /\ IsPrefix(SubSeq(named, 1, Min({2, Len(named)})), axes)
                  /\ ToSet(Marked(file)) \subseteq ToSet(axes)
                     \/ ToSet(axes) \subseteq ToSet(named) \cup ToSet(Marked(file))

(* No answers score beyond the range of an axis, unless the file divides by    *)
(* less than the largest answer it allows.                                     *)
ASSUME ScoresInRange ==
    \A file \in ValidFiles : AnswerMaxAbs(file) >= Largest(file) =>
        \A answers \in AnswersTo(file), axis \in AxisIds(file) :
            InRangeOn(file, answers, axis)

(* The end of an axis can be reached, whatever the effects: by the strongest   *)
(* answers, each in the direction of its effect.                               *)
ASSUME EndsAreReached ==
    \A file \in {f \in ValidFiles : f.maxAbs = {} /\ Scale(f) = Negated(Scale(f))} :
        \A axis \in {x \in AxisIds(file) : AxisMaximum(file, x) > 0} :
            \E answers \in AnswersTo(file) : AtTheEnd(file, answers, axis)

(* Whoever answers every question the other way is at the opposite point.      *)
ASSUME OppositeAnswers ==
    \A file \in {f \in ValidFiles : Scale(f) = Negated(Scale(f))} :
        \A answers \in AnswersTo(file), axis \in AxisIds(file) :
            OppositeOn(file, answers, axis)

(* ... and in the opposite quadrant, unless the point is on a line between two *)
(* of them, or centrist.                                                       *)
ASSUME OppositeQuadrants ==
    \A file \in {f \in ValidFiles : Scale(f) = Negated(Scale(f))} : \A answers \in AnswersTo(file) :
        \/ OppositeQuadrant(file, answers)
        \/ /\ \E i \in {1, 2} : 0 \in AxisScore(file, answers, PrimaryAxes(file)[i])
           /\ "centrist" \notin Quadrants(file, Against(answers)) \cup Quadrants(file, answers)

(* The mean of a weighted sum is on the side its classification says, and so   *)
(* the opposite answers are on the other, where they can be given.             *)
ASSUME MeanMatchesClass ==
    \A file \in {f \in SumFiles : ValidInstrument(f)} : \A answers \in AnswersTo(file) :
        /\ Scale(file) = Negated(Scale(file)) =>
              (Scored(file, answers) = Scored(file, Against(answers))
                 <=> Scored(file, answers) = {"zero"})
        /\ MeanAgrees(file, answers)

Numbers == [form : {"number"}, n : {0, 1, 3}] \cup {Nothing, [form |-> "infinite", n |-> 0]}
Keys == {"q1", "q2"} \X {"exact", "padded"}
RawAnswers == UNION {[S -> Numbers] : S \in {T \in SUBSET Keys : Cardinality(T) <= 3}}

(* What is taken answers each question with a value of the scale; a key with   *)
(* spaces, which the comparison of keys lets pass, never stands for an answer. *)
ASSUME TakenIsComplete ==
    \A file \in {f \in SumFiles : ValidInstrument(f) /\ f.weights = << >>}, raw \in RawAnswers :
        /\ Taken(file, raw) => Complete(file, raw)
        /\ ~(Taken(file, raw) /\ RaisesOn(file, raw))
=============================================================================
