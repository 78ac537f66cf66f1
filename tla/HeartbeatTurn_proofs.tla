------------------------- MODULE HeartbeatTurn_proofs -------------------------
(***************************************************************************)
(* Proofs about HeartbeatTurn, for any turns, policies and bounds.         *)
(***************************************************************************)
EXTENDS HeartbeatTurn, SequenceTheorems, TLAPS

(* A model is never asked to do more than an answer has pieces.            *)
LEMMA AskableBound == \A asked \in Askable : asked \in 1..MaxReply /\ asked \in Nat
BY AnswersAssumption DEF Askable

LEMMA FreshType == ASSUME NEW policy \in Policies PROVE Fresh(policy) \in Turn
BY DEF Fresh, Turn, PCs

(* The text a turn is going to write.                                      *)
LEMMA TrimmedFacts ==
    ASSUME NEW S, NEW s \in Seq(S), NEW e \in S, NEW x \in Trimmed(Append(s, e))
    PROVE  /\ x \in Seq(S) /\ Len(x) <= MaxEntries
           /\ Len(x) > 0 /\ x[Len(x)] = e
<1> DEFINE a == Append(s, e)
<1>1. a \in Seq(S) /\ Len(a) = Len(s) + 1 /\ a[Len(a)] = e
  BY AppendProperties
<1>2. PICK k \in 1..Len(a) : x = SubSeq(a, k, Len(a)) /\ Len(a) - k < MaxEntries
  BY DEF Trimmed
<1>3. Len(a) \in Nat /\ Len(s) \in Nat
  BY <1>1, LenProperties
<1> HIDE DEF a
<1>4. k \in Int /\ 1 <= k /\ k <= Len(a)
  BY <1>2, <1>3
<1>5. \A i \in k..Len(a) : a[i] \in S
  BY <1>1, <1>4, ElementOfSeq
<1>6. x \in Seq(S) /\ Len(x) = Len(a) - k + 1 /\ x[Len(a) - k + 1] = a[Len(a)]
  <2>1. /\ SubSeq(a, k, Len(a)) \in Seq(S)
        /\ Len(SubSeq(a, k, Len(a))) = Len(a) - k + 1
        /\ \A i \in 1..(Len(a) - k + 1) : SubSeq(a, k, Len(a))[i] = a[k + i - 1]
    BY <1>3, <1>4, <1>5, SubSeqProperties
  <2>2. Len(a) - k + 1 \in 1..(Len(a) - k + 1) /\ k + (Len(a) - k + 1) - 1 = Len(a)
    BY <1>3, <1>4
  <2> QED BY <1>2, <2>1, <2>2
<1>7. Len(x) <= MaxEntries /\ Len(x) > 0
  BY <1>2, <1>3, <1>4, <1>6, TurnAssumption
<1> QED BY <1>1, <1>6, <1>7

LEMMA OverType == ASSUME NEW text PROVE \A rest \in Over(text) : rest \in Seq(Entry)
<1>1. Rest \in Entry
  BY DEF Entry
<1>2. << >> \in Seq(Entry) /\ <<Rest>> \in Seq(Entry)
  BY <1>1
<1> QED BY <1>2 DEF Over

-----------------------------------------------------------------------------
(* Type correctness.                                                       *)

(* What a step does to the record of its turn, seen from the others.       *)
LEMMA BecomesTypes ==
    ASSUME TypeOK, NEW t \in Turns, NEW turn \in Turn, Len(turn.copy) <= MaxEntries, Becomes(t, turn)
    PROVE  turns' \in [Turns -> Turn] /\ \A u \in Turns : Len(turns'[u].copy) <= MaxEntries
BY DEF TypeOK, Becomes

LEMMA ClosingType ==
    ASSUME NEW turn \in Turn
    PROVE  Closing(turn) \in Turn /\ Closing(turn).copy = turn.copy
BY DEF Closing, Turn, PCs

LEMMA ClosedTypes ==
    ASSUME NEW turn \in Turn, NEW status \in {"completed", "error", "skipped", "paused"}
    PROVE  /\ ClosedAtOnce(turn, status) \in Turn /\ ClosedAtOnce(turn, status).copy = turn.copy
           /\ ClosedBy(turn, status) \in Turn /\ ClosedBy(turn, status).copy = turn.copy
<1>1. ClosedAtOnce(turn, status) \in Turn /\ ClosedAtOnce(turn, status).copy = turn.copy
  BY ClosingType DEF ClosedAtOnce, Turn
<1> DEFINE closed == ClosedAtOnce(turn, status)
<1>2. closed.records + 1 \in Nat
  BY <1>1 DEF Turn
<1>3. ClosedBy(turn, status) = [closed EXCEPT !.records = closed.records + 1]
  BY DEF ClosedBy
<1> HIDE DEF closed
<1>4. closed \in Turn /\ closed.copy = turn.copy
  BY <1>1 DEF closed
<1>5. ClosedBy(turn, status) \in Turn /\ ClosedBy(turn, status).copy = turn.copy
  BY <1>2, <1>3, <1>4 DEF Turn
<1> QED BY <1>1, <1>5

LEMMA AfterRoundType ==
    ASSUME NEW turn \in Turn
    PROVE  AfterRound(turn) \in Turn /\ AfterRound(turn).copy = turn.copy
<1> DEFINE next == [turn EXCEPT !.rounds = turn.rounds + 1]
<1>1. turn.rounds + 1 \in Nat
  BY DEF Turn
<1>2. next \in Turn /\ next.copy = turn.copy
  BY <1>1 DEF Turn
<1>3. [turn EXCEPT !.rounds = turn.rounds + 1, !.pc = "top"] \in Turn
  BY <1>1 DEF Turn, PCs
<1>4. AfterRound(turn) \in {Closing(turn), Closing(next), [turn EXCEPT !.rounds = turn.rounds + 1, !.pc = "top"]}
  BY DEF AfterRound
<1>5. [turn EXCEPT !.rounds = turn.rounds + 1, !.pc = "top"].copy = turn.copy
  BY DEF Turn
<1> HIDE DEF next
<1> QED BY <1>2, <1>3, <1>4, <1>5, ClosingType

LEMMA CountedType ==
    ASSUME NEW turn \in Turn, NEW results \in Nat
    PROVE  Left(Counted(turn, results)) \in Turn /\ Left(Counted(turn, results)).copy = turn.copy
<1>1. turn.total + results \in Nat /\ turn.records + 1 \in Nat
  BY DEF Turn
<1>2. Counted(turn, results) \in Turn /\ Counted(turn, results).copy = turn.copy
  BY <1>1 DEF Turn, Counted
<1>3. \A u \in Turn : Left(u) \in Turn /\ Left(u).copy = u.copy
  <2> SUFFICES ASSUME NEW u \in Turn PROVE Left(u) \in Turn /\ Left(u).copy = u.copy OBVIOUS
  <2>1. 0 \in Nat /\ 0 \in Int
    OBVIOUS
  <2> QED BY <2>1 DEF Left, Turn
<1> QED BY <1>2, <1>3

LEMMA EndRoundTypes ==
    ASSUME TypeOK, NEW t \in Turns, NEW results \in Nat, EndRound(t, results)
    PROVE  TypeOK'
<1> DEFINE turn == Left(Counted(turns[t], results))
<1>1. turn \in Turn /\ turn.copy = turns[t].copy
  BY CountedType DEF TypeOK
<1>2. \E end \in {Closing(turn), AfterRound(turn)} : Becomes(t, end)
  BY DEF EndRound
<1> HIDE DEF turn
<1>3. turns' \in [Turns -> Turn] /\ \A u \in Turns : Len(turns'[u].copy) <= MaxEntries
  BY <1>1, <1>2, AfterRoundType, ClosingType, BecomesTypes DEF TypeOK
<1> QED BY <1>3 DEF TypeOK, EndRound, files

LEMMA CapType ==
    ASSUME NEW turn \in Turn, NEW asked \in Nat
    PROVE  Cap(turn, asked) \in Int
BY TurnAssumption DEF Cap, Least, Turn, Policy, NoLimit

LEMMA TypeStep == TypeOK /\ [Next]_vars => TypeOK'
<1> SUFFICES ASSUME TypeOK, [Next]_vars PROVE TypeOK' OBVIOUS
<1> USE TurnAssumption
<1>1. CASE UNCHANGED vars
  BY <1>1 DEF TypeOK, vars, files
<1>2. CASE Pause \/ Resume
  <2>1. pauses' \in 0..MaxPauses
    BY <1>2 DEF TypeOK, Pause, Resume
  <2> QED BY <1>2, <2>1 DEF TypeOK, Pause, Resume, files
<1>3. ASSUME NEW t \in Turns, Start(t) PROVE TypeOK'
  <2>1. \E status \in {"paused", "skipped", "error"} :
           \/ Becomes(t, ClosedAtOnce(turns[t], status))
           \/ Becomes(t, [turns[t] EXCEPT !.pc = "top"])
    BY <1>3 DEF Start
  <2>2. turns[t] \in Turn /\ Len(turns[t].copy) <= MaxEntries
    BY DEF TypeOK
  <2>3. turns' \in [Turns -> Turn] /\ \A u \in Turns : Len(turns'[u].copy) <= MaxEntries
    BY <2>1, <2>2, BecomesTypes DEF ClosedAtOnce, Closing, Turn, PCs
  <2> QED BY <1>3, <2>3 DEF TypeOK, Start, files
<1>4. ASSUME NEW t \in Turns, Top(t) PROVE TypeOK'
  <2>1. turns[t] \in Turn /\ Len(turns[t].copy) <= MaxEntries
    BY DEF TypeOK
  <2>2. turns' \in [Turns -> Turn] /\ \A u \in Turns : Len(turns'[u].copy) <= MaxEntries
    <3>1. CASE Becomes(t, Closing(turns[t]))
      BY <2>1, <3>1, ClosingType, BecomesTypes
    <3>2. CASE Becomes(t, [turns[t] EXCEPT !.pc = "calling", !.calls = @ + 1])
      <4>1. turns[t].calls + 1 \in Nat
        BY <2>1 DEF Turn
      <4>2. [turns[t] EXCEPT !.pc = "calling", !.calls = @ + 1] \in Turn
        BY <2>1, <4>1 DEF Turn, PCs
      <4>3. [turns[t] EXCEPT !.pc = "calling", !.calls = @ + 1].copy = turns[t].copy
        BY <2>1 DEF Turn
      <4> QED BY <2>1, <3>2, <4>2, <4>3, BecomesTypes
    <3> QED BY <1>4, <3>1, <3>2 DEF Top
  <2> QED BY <1>4, <2>2 DEF TypeOK, Top, files
<1>5. ASSUME NEW t \in Turns, Reply(t) PROVE TypeOK'
  <2>1. turns[t] \in Turn /\ Len(turns[t].copy) <= MaxEntries
    BY DEF TypeOK
  <2>2. CASE \E status \in {"error", "completed"} : Becomes(t, ClosedBy(turns[t], status))
    <3>1. turns' \in [Turns -> Turn] /\ \A u \in Turns : Len(turns'[u].copy) <= MaxEntries
      BY <2>1, <2>2, ClosedTypes, BecomesTypes
    <3> QED BY <1>5, <3>1 DEF TypeOK, Reply, files
  <2>3. CASE \E asked \in Askable :
                Becomes(t, [turns[t] EXCEPT !.pc = "acting", !.asked = asked, !.done = 0,
                                            !.cap = Cap(turns[t], asked)])
    <3>1. PICK asked \in Askable :
                Becomes(t, [turns[t] EXCEPT !.pc = "acting", !.asked = asked, !.done = 0,
                                            !.cap = Cap(turns[t], asked)])
      BY <2>3
    <3>2. asked \in Nat /\ Cap(turns[t], asked) \in Int
      BY <2>1, AskableBound, CapType
    <3>3. turns' \in [Turns -> Turn] /\ \A u \in Turns : Len(turns'[u].copy) <= MaxEntries
      BY <2>1, <3>1, <3>2, BecomesTypes DEF Turn, PCs
    <3> QED BY <1>5, <3>3 DEF TypeOK, Reply, files
  <2> QED BY <1>5, <2>2, <2>3 DEF Reply
<1>6. ASSUME NEW t \in Turns, Act(t) PROVE TypeOK'
  <2>1. turns[t] \in Turn /\ Len(turns[t].copy) <= MaxEntries /\ turns[t].done \in Nat
    BY DEF TypeOK, Turn
  <2>2. CASE EndRound(t, turns[t].done) \/ EndRound(t, turns[t].done + 1)
    BY <2>1, <2>2, EndRoundTypes
  <2>3. CASE Perform(t)
    <3>1. turns[t].done + 1 \in Nat /\ turns[t].acted + 1 \in Nat
      BY <2>1 DEF Turn
    <3>2. [turns[t] EXCEPT !.done = @ + 1, !.acted = @ + 1, !.pc = "reading"] \in Turn
      BY <2>1, <3>1 DEF Turn, PCs
    <3>3. [turns[t] EXCEPT !.done = @ + 1, !.acted = @ + 1, !.pc = "reading"].copy = turns[t].copy
      BY <2>1 DEF Turn
    <3>4. turns' \in [Turns -> Turn] /\ \A u \in Turns : Len(turns'[u].copy) <= MaxEntries
      BY <2>1, <2>3, <3>2, <3>3, BecomesTypes DEF Perform
    <3> QED BY <2>3, <3>4 DEF TypeOK, Perform, files
  <2> QED BY <1>6, <2>2, <2>3 DEF Act
<1>7. ASSUME NEW t \in Turns, ReadLog(t) PROVE TypeOK'
  <2>1. turns[t] \in Turn /\ turns[t].entries + 1 \in Nat /\ log \in Seq(Entry)
    BY DEF TypeOK, Turn
  <2>2. PICK entries \in Trimmed(Append(log, <<t, turns[t].entries + 1>>)) :
           Becomes(t, [turns[t] EXCEPT !.pc = "opening", !.copy = entries, !.entries = @ + 1])
    BY <1>7 DEF ReadLog
  <2>3. <<t, turns[t].entries + 1>> \in Entry
    BY <2>1 DEF Entry
  <2>4. entries \in Seq(Entry) /\ Len(entries) <= MaxEntries
    BY <2>1, <2>3, TrimmedFacts
  <2>5. turns' \in [Turns -> Turn] /\ \A u \in Turns : Len(turns'[u].copy) <= MaxEntries
    BY <2>1, <2>2, <2>4, BecomesTypes DEF Turn, PCs
  <2> QED BY <1>7, <2>5 DEF TypeOK, ReadLog
<1>8. ASSUME NEW t \in Turns, OpenLog(t) PROVE TypeOK'
  <2>1. turns[t] \in Turn /\ Len(turns[t].copy) <= MaxEntries
    BY DEF TypeOK
  <2>2. turns' \in [Turns -> Turn] /\ \A u \in Turns : Len(turns'[u].copy) <= MaxEntries
    BY <1>8, <2>1, BecomesTypes DEF OpenLog, Turn, PCs
  <2> QED BY <1>8, <2>2 DEF TypeOK, OpenLog
<1>9. ASSUME NEW t \in Turns, WriteLog(t) PROVE TypeOK'
  <2>1. turns[t] \in Turn /\ turns[t].copy \in Seq(Entry) /\ turns[t].entries \in Nat
    BY DEF TypeOK, Turn
  <2>2. [turns[t] EXCEPT !.pc = turns[t].next, !.copy = << >>] \in Turn
    <3>1. turns[t].next \in PCs
      BY <2>1 DEF Turn, PCs
    <3>2. << >> \in Seq(Entry)
      OBVIOUS
    <3> QED BY <2>1, <3>1, <3>2 DEF Turn
  <2>3. turns' \in [Turns -> Turn] /\ \A u \in Turns : Len(turns'[u].copy) <= MaxEntries
    <3>1. Len([turns[t] EXCEPT !.pc = turns[t].next, !.copy = << >>].copy) <= MaxEntries
      BY <2>1 DEF Turn
    <3>2. Becomes(t, [turns[t] EXCEPT !.pc = turns[t].next, !.copy = << >>])
      BY <1>9 DEF WriteLog
    <3> HIDE DEF WriteLog
    <3> QED BY <2>2, <3>1, <3>2, BecomesTypes
  <2>4. log' \in Seq(Entry)
    BY <1>9, <2>1, OverType, ConcatProperties DEF WriteLog
  <2>5. last' \in Entry
    BY <1>9, <2>1 DEF WriteLog, Entry
  <2> QED BY <1>9, <2>3, <2>4, <2>5 DEF TypeOK, WriteLog
<1>10. ASSUME NEW t \in Turns, Close(t) PROVE TypeOK'
  <2>1. turns[t] \in Turn /\ Len(turns[t].copy) <= MaxEntries
    BY DEF TypeOK
  <2>2. turns' \in [Turns -> Turn] /\ \A u \in Turns : Len(turns'[u].copy) <= MaxEntries
    BY <1>10, <2>1, BecomesTypes DEF Close, Turn, PCs
  <2> QED BY <1>10, <2>2 DEF TypeOK, Close
<1> QED
  BY <1>1, <1>2, <1>3, <1>4, <1>5, <1>6, <1>7, <1>8, <1>9, <1>10 DEF Next, Round, Write

LEMMA InitType == Init => TypeOK
<1> SUFFICES ASSUME Init PROVE TypeOK OBVIOUS
<1>1. PICK policy \in Policies : turns = [t \in Turns |-> Fresh(policy)]
  BY DEF Init
<1>2. Fresh(policy) \in Turn /\ Len(Fresh(policy).copy) = 0
  BY FreshType DEF Fresh
<1>3. turns \in [Turns -> Turn] /\ \A t \in Turns : Len(turns[t].copy) <= MaxEntries
  BY <1>1, <1>2, TurnAssumption
<1>4. pauses \in 0..MaxPauses
  BY TurnAssumption DEF Init
<1>5. log \in Seq(Entry) /\ last \in Entry \cup {<< >>}
  BY DEF Init
<1>6. paused \in BOOLEAN /\ bootstrap \in BOOLEAN /\ torn \in BOOLEAN
  BY Zenon DEF Init
<1> QED BY <1>3, <1>4, <1>5, <1>6 DEF TypeOK

(* Every reachable state of the turns of an agent has the types the module *)
(* gives them, and no turn writes a longer log than the limit.             *)
THEOREM TypeCorrect == Spec => []TypeOK
BY InitType, TypeStep, PTL DEF Spec

-----------------------------------------------------------------------------
(* The budget.                                                             *)

(* What holds of a turn that counts its rounds, and of one whose rounds    *)
(* are over.                                                               *)
Counting(turn) ==
    /\ turn.records = turn.rounds
    /\ turn.policy.calls # NoLimit => turn.rounds < turn.policy.calls
    /\ turn.policy.tick # NoLimit => turn.total < turn.policy.tick
    /\ turn.acted <= turn.total + turn.done
    /\ turn.total + turn.done <= turn.acted + turn.rounds
    /\ turn.pc \in {"idle", "top"} => turn.calls = turn.rounds
    /\ turn.pc \notin {"idle", "top"} => turn.calls = turn.rounds + 1
    /\ turn.pc \in {"idle", "top", "calling"} => turn.done = 0
    /\ turn.pc \notin {"idle", "top", "calling"} =>
          /\ turn.done <= turn.cap
          /\ turn.policy.round # NoLimit => turn.cap <= turn.policy.round
          /\ turn.policy.tick # NoLimit => turn.total + turn.cap <= turn.policy.tick

Finished(turn) ==
    /\ turn.records = turn.calls
    /\ turn.acted <= turn.total
    /\ turn.total <= turn.acted + turn.calls
    /\ turn.done = 0
    /\ turn.policy.calls # NoLimit => turn.calls <= turn.policy.calls
    /\ turn.policy.tick # NoLimit => turn.total <= turn.policy.tick + 1 /\ turn.acted <= turn.policy.tick

Budget(turn) ==
    /\ turn.next = "acting" => Counting(turn) /\ turn.pc \notin {"closing", "ended"}
    /\ turn.next = "closing" => Finished(turn) /\ turn.pc \in {"reading", "opening", "writing", "closing", "ended"}

BInv == \A t \in Turns : Budget(turns[t])

(* The fields of a turn are numbers, and so are its limits.                *)
LEMMA TurnFacts ==
    ASSUME NEW turn \in Turn
    PROVE  /\ turn.rounds \in Nat /\ turn.calls \in Nat /\ turn.records \in Nat
           /\ turn.done \in Nat /\ turn.asked \in Nat /\ turn.cap \in Int
           /\ turn.total \in Nat /\ turn.acted \in Nat
           /\ turn.policy.calls \in Nat /\ turn.policy.round \in Nat /\ turn.policy.tick \in Nat
           /\ turn.next \in {"acting", "closing"} /\ turn.pc \in PCs
<1>1. turn.policy \in Policy
  BY TurnAssumption DEF Turn
<1> QED BY <1>1 DEF Turn, Policy

(* Only the record of the turn that takes the step matters.                *)
LEMMA BecomesBudget ==
    ASSUME TypeOK, BInv, NEW t \in Turns, NEW turn, Budget(turn), Becomes(t, turn)
    PROVE  BInv'
<1>1. \A u \in Turns : turns'[u] = IF u = t THEN turn ELSE turns[u]
  BY DEF TypeOK, Becomes
<1>2. \A u \in Turns : Budget(turns'[u])
  BY <1>1 DEF BInv
<1> QED BY <1>2 DEF BInv

LEMMA ClosingBudget ==
    ASSUME NEW turn \in Turn, turn.records = turn.calls, turn.acted <= turn.total,
           turn.total <= turn.acted + turn.calls, turn.done = 0,
           turn.policy.calls # NoLimit => turn.calls <= turn.policy.calls,
           turn.policy.tick # NoLimit => turn.total <= turn.policy.tick + 1 /\ turn.acted <= turn.policy.tick
    PROVE  Budget(Closing(turn))
BY DEF Budget, Finished, Closing, Turn

LEMMA StartBudget ==
    ASSUME NEW turn \in Turn, Budget(turn), turn.pc = "idle",
           NEW status \in {"paused", "skipped", "error"}
    PROVE  Budget(ClosedAtOnce(turn, status)) /\ Budget([turn EXCEPT !.pc = "top"])
<1>1. turn.next = "acting" /\ Counting(turn)
  BY TurnFacts DEF Budget
<1>2. Budget(Closing(turn))
  BY <1>1, TurnFacts, ClosingBudget DEF Counting, NoLimit
<1>3. Budget(ClosedAtOnce(turn, status))
  BY <1>2 DEF Budget, Finished, Counting, ClosedAtOnce, Closing, Turn
<1>4. Budget([turn EXCEPT !.pc = "top"])
  BY <1>1 DEF Budget, Counting, Turn
<1> QED BY <1>3, <1>4

LEMMA TopBudget ==
    ASSUME NEW turn \in Turn, Budget(turn), turn.pc = "top"
    PROVE  Budget(Closing(turn)) /\ Budget([turn EXCEPT !.pc = "calling", !.calls = @ + 1])
<1>1. turn.next = "acting" /\ Counting(turn)
  BY TurnFacts DEF Budget
<1>2. Budget(Closing(turn))
  BY <1>1, TurnFacts, ClosingBudget DEF Counting, NoLimit
<1>3. turn.calls + 1 = turn.rounds + 1
  BY <1>1 DEF Counting
<1>4. Budget([turn EXCEPT !.pc = "calling", !.calls = @ + 1])
  BY <1>1, <1>3 DEF Budget, Counting, Turn
<1> QED BY <1>2, <1>4

LEMMA ReplyBudget ==
    ASSUME NEW turn \in Turn, Budget(turn), turn.pc = "calling",
           NEW status \in {"error", "completed"}, NEW asked \in 1..MaxReply
    PROVE  /\ Budget(ClosedBy(turn, status))
           /\ Budget([turn EXCEPT !.pc = "acting", !.asked = asked, !.done = 0,
                                  !.cap = Cap(turn, asked)])
<1>1. turn.next = "acting" /\ Counting(turn)
  BY TurnFacts DEF Budget
<1>2. Budget(ClosedBy(turn, status))
  <2> DEFINE closed == ClosedBy(turn, status)
  <2>1. /\ closed.records = turn.records + 1 /\ closed.calls = turn.calls /\ closed.acted = turn.acted
        /\ closed.total = turn.total /\ closed.done = turn.done /\ closed.policy = turn.policy
        /\ closed.next = "closing" /\ closed.pc = "reading"
    BY DEF ClosedBy, ClosedAtOnce, Closing, Turn
  <2> HIDE DEF closed
  <2>2. Finished(closed)
    BY <1>1, <2>1, TurnFacts DEF Counting, Finished, NoLimit
  <2> QED BY <2>1, <2>2 DEF Budget, closed
<1>3. Budget([turn EXCEPT !.pc = "acting", !.asked = asked, !.done = 0, !.cap = Cap(turn, asked)])
  <2> DEFINE cap == Cap(turn, asked)
             next == [turn EXCEPT !.pc = "acting", !.asked = asked, !.done = 0, !.cap = cap]
  <2>1. /\ next.records = turn.records /\ next.calls = turn.calls /\ next.acted = turn.acted
        /\ next.total = turn.total /\ next.done = 0 /\ next.policy = turn.policy
        /\ next.next = "acting" /\ next.pc = "acting" /\ next.cap = cap /\ next.rounds = turn.rounds
    BY <1>1 DEF Turn
  <2>2. /\ 0 <= cap
        /\ turn.policy.round # NoLimit => cap <= turn.policy.round
        /\ turn.policy.tick # NoLimit => turn.total + cap <= turn.policy.tick
    BY <1>1, TurnFacts DEF Cap, Least, Counting, NoLimit
  <2> HIDE DEF next, cap
  <2>3. Counting(next)
    BY <1>1, <2>1, <2>2, TurnFacts DEF Counting
  <2> QED BY <2>1, <2>3 DEF Budget, next, cap
<1> QED BY <1>2, <1>3
LEMMA EndRoundBudget ==
    ASSUME NEW turn \in Turn, Budget(turn), turn.pc = "acting",
           NEW results \in Nat, results <= turn.done + 1,
           results >= turn.done,
           results > turn.done => turn.done >= turn.cap
    PROVE  LET left == Left(Counted(turn, results))
           IN  Budget(Closing(left)) /\ Budget(AfterRound(left))
<1> DEFINE left == Left(Counted(turn, results))
<1>1. turn.next = "acting" /\ Counting(turn)
  BY TurnFacts DEF Budget
<1>2. left \in Turn
  BY CountedType
<1>3. /\ left.records = turn.records + 1 /\ left.calls = turn.calls /\ left.acted = turn.acted
      /\ left.total = turn.total + results /\ left.done = 0 /\ left.policy = turn.policy
      /\ left.next = "acting" /\ left.rounds = turn.rounds
  BY <1>1 DEF Left, Counted, Turn
<1> HIDE DEF left
<1>4. /\ left.records = left.calls /\ left.calls = left.rounds + 1
      /\ left.acted <= left.total /\ left.total <= left.acted + left.calls
      /\ left.policy.calls # NoLimit => left.rounds < left.policy.calls
      /\ left.policy.tick # NoLimit => left.total <= left.policy.tick + 1 /\ left.acted <= left.policy.tick
  BY <1>1, <1>3, TurnFacts DEF Counting, NoLimit
<1>5. Budget(Closing(left))
  BY <1>2, <1>3, <1>4, TurnFacts, ClosingBudget DEF NoLimit
<1>6. CASE left.policy.tick # NoLimit /\ left.total >= left.policy.tick
  BY <1>5, <1>6 DEF AfterRound, left
<1>7. CASE ~(left.policy.tick # NoLimit /\ left.total >= left.policy.tick)
  <2> DEFINE next == [left EXCEPT !.rounds = left.rounds + 1]
  <2>1. left.rounds + 1 \in Nat
    BY <1>2, TurnFacts
  <2>2. next \in Turn /\ next.rounds = left.rounds + 1
    BY <1>2, <2>1 DEF Turn
  <2>3. /\ next.records = left.records /\ next.calls = left.calls /\ next.acted = left.acted
        /\ next.total = left.total /\ next.done = left.done /\ next.policy = left.policy
        /\ next.next = left.next
    BY <1>2 DEF Turn
  <2> HIDE DEF next
  <2>4. Budget(Closing(next))
    BY <1>2, <1>3, <1>4, <2>2, <2>3, TurnFacts, ClosingBudget DEF NoLimit
  <2>5. CASE left.policy.calls # NoLimit /\ left.rounds + 1 >= left.policy.calls
    <3>1. AfterRound(left) = Closing(next)
      BY <1>7, <2>5 DEF AfterRound, next
    <3> QED BY <1>5, <2>4, <3>1 DEF left
  <2>6. CASE ~(left.policy.calls # NoLimit /\ left.rounds + 1 >= left.policy.calls)
    <3> DEFINE top == [left EXCEPT !.rounds = left.rounds + 1, !.pc = "top"]
    <3>1. AfterRound(left) = top
      BY <1>7, <2>6 DEF AfterRound
    <3>2. /\ top.records = left.records /\ top.calls = left.calls /\ top.acted = left.acted
          /\ top.total = left.total /\ top.done = left.done /\ top.policy = left.policy
          /\ top.next = left.next /\ top.rounds = left.rounds + 1 /\ top.pc = "top"
      BY <1>2, <2>1 DEF Turn
    <3> HIDE DEF top
    <3>3. Counting(top)
      <4>1. /\ left.rounds \in Nat /\ left.total \in Nat /\ left.acted \in Nat
            /\ left.policy.tick \in Nat /\ left.policy.calls \in Nat
        BY <1>2, TurnFacts
      <4>2. /\ top.policy.calls # NoLimit => top.rounds < top.policy.calls
            /\ top.policy.tick # NoLimit => top.total < top.policy.tick
        BY <1>7, <2>6, <3>2, <4>1 DEF NoLimit
      <4>3. top.acted <= top.total + top.done /\ top.total + top.done <= top.acted + top.rounds
        BY <1>3, <1>4, <3>2, <4>1
      <4>4. top.records = top.rounds /\ top.calls = top.rounds /\ top.done = 0
        BY <1>3, <1>4, <3>2
      <4> QED BY <3>2, <4>2, <4>3, <4>4 DEF Counting
    <3>4. Budget(top)
      BY <1>3, <3>2, <3>3 DEF Budget
    <3> QED BY <1>5, <3>1, <3>4 DEF left
  <2> QED BY <2>5, <2>6
<1> QED BY <1>6, <1>7

LEMMA PerformBudget ==
    ASSUME NEW turn \in Turn, Budget(turn), turn.pc = "acting", turn.done < turn.cap
    PROVE  Budget([turn EXCEPT !.done = @ + 1, !.acted = @ + 1, !.pc = "reading"])
<1> DEFINE next == [turn EXCEPT !.done = @ + 1, !.acted = @ + 1, !.pc = "reading"]
<1>1. turn.next = "acting" /\ Counting(turn)
  BY TurnFacts DEF Budget
<1>2. /\ next.records = turn.records /\ next.calls = turn.calls /\ next.acted = turn.acted + 1
      /\ next.total = turn.total /\ next.done = turn.done + 1 /\ next.policy = turn.policy
      /\ next.next = "acting" /\ next.pc = "reading" /\ next.cap = turn.cap /\ next.rounds = turn.rounds
  BY <1>1 DEF Turn
<1> HIDE DEF next
<1>3. Counting(next)
  BY <1>1, <1>2, TurnFacts DEF Counting
<1> QED BY <1>2, <1>3 DEF Budget, next

(* Steps that leave the counters alone.                                    *)
LEMMA SameBudget ==
    ASSUME NEW turn \in Turn, Budget(turn), turn.pc \in {"reading", "opening", "writing", "closing"},
           NEW next \in Turn,
           next.policy = turn.policy, next.rounds = turn.rounds, next.calls = turn.calls,
           next.records = turn.records, next.cap = turn.cap, next.done = turn.done,
           next.total = turn.total, next.acted = turn.acted, next.next = turn.next,
           \/ next.pc \in {"opening", "writing"}
           \/ next.pc = turn.next /\ turn.pc = "writing"
           \/ next.pc = "ended" /\ turn.pc = "closing"
    PROVE  Budget(next)
<1>1. CASE turn.next = "acting"
  BY <1>1 DEF Budget, Counting
<1>2. CASE turn.next = "closing"
  BY <1>2 DEF Budget, Finished
<1> QED BY <1>1, <1>2, TurnFacts

LEMMA BudgetStep == TypeOK /\ TypeOK' /\ BInv /\ [Next]_vars => BInv'
<1> SUFFICES ASSUME TypeOK, TypeOK', BInv, [Next]_vars PROVE BInv' OBVIOUS
<1>1. CASE UNCHANGED vars \/ Pause \/ Resume
  BY <1>1 DEF BInv, vars, Pause, Resume
<1>2. ASSUME NEW t \in Turns PROVE turns[t] \in Turn /\ Budget(turns[t])
  BY DEF TypeOK, BInv
<1>3. ASSUME NEW t \in Turns, Start(t) PROVE BInv'
  BY <1>2, <1>3, StartBudget, BecomesBudget DEF Start, Now
<1>4. ASSUME NEW t \in Turns, Top(t) PROVE BInv'
  BY <1>2, <1>4, TopBudget, BecomesBudget DEF Top, Now
<1>5. ASSUME NEW t \in Turns, Reply(t) PROVE BInv'
  <2>1. turns[t] \in Turn /\ Budget(turns[t]) /\ turns[t].pc = "calling"
    BY <1>2, <1>5 DEF Reply, Now
  <2>4. 1 \in 1..MaxReply
    BY AnswersAssumption
  <2>2. CASE \E status \in {"error", "completed"} : Becomes(t, ClosedBy(turns[t], status))
    BY <2>1, <2>2, <2>4, ReplyBudget, BecomesBudget
  <2>3. CASE \E asked \in Askable :
                Becomes(t, [turns[t] EXCEPT !.pc = "acting", !.asked = asked, !.done = 0,
                                            !.cap = Cap(turns[t], asked)])
    <3>1. PICK asked \in Askable :
                Becomes(t, [turns[t] EXCEPT !.pc = "acting", !.asked = asked, !.done = 0,
                                            !.cap = Cap(turns[t], asked)])
      BY <2>3
    <3>2. asked \in 1..MaxReply
      BY AskableBound
    <3> QED BY <2>1, <3>1, <3>2, ReplyBudget, BecomesBudget
  <2> QED BY <1>5, <2>2, <2>3 DEF Reply
<1>6. ASSUME NEW t \in Turns, Act(t) PROVE BInv'
  <2>1. turns[t] \in Turn /\ Budget(turns[t]) /\ turns[t].pc = "acting"
    BY <1>2, <1>6 DEF Act, Now
  <2>2. turns[t].done \in Nat /\ turns[t].cap \in Int
    BY <2>1, TurnFacts
  <2>3. ASSUME NEW results \in {turns[t].done, turns[t].done + 1},
               results > turns[t].done => turns[t].done >= turns[t].cap,
               EndRound(t, results)
        PROVE  BInv'
    <3> DEFINE left == Left(Counted(turns[t], results))
    <3>1. Budget(Closing(left)) /\ Budget(AfterRound(left))
      BY <2>1, <2>2, <2>3, EndRoundBudget
    <3>2. Becomes(t, Closing(left)) \/ Becomes(t, AfterRound(left))
      BY <2>3 DEF EndRound
    <3> HIDE DEF left
    <3> QED BY <3>1, <3>2, BecomesBudget
  <2>4. CASE EndRound(t, turns[t].done)
    BY <2>2, <2>3, <2>4
  <2>5. CASE turns[t].done >= turns[t].cap /\ EndRound(t, turns[t].done + 1)
    BY <2>2, <2>3, <2>5
  <2>6. CASE turns[t].done < turns[t].cap /\ Perform(t)
    BY <2>1, <2>6, PerformBudget, BecomesBudget DEF Perform
  <2> QED BY <1>6, <2>4, <2>5, <2>6 DEF Act
<1>7. ASSUME NEW t \in Turns, ReadLog(t) \/ OpenLog(t) \/ WriteLog(t) \/ Close(t) PROVE BInv'
  <2>1. turns[t] \in Turn /\ Budget(turns[t]) /\ turns'[t] \in Turn
    BY <1>2 DEF TypeOK
  <2>2. /\ turns' = [turns EXCEPT ![t] = turns'[t]]
        /\ turns[t].pc \in {"reading", "opening", "writing", "closing"}
        /\ turns'[t].policy = turns[t].policy /\ turns'[t].rounds = turns[t].rounds
        /\ turns'[t].calls = turns[t].calls /\ turns'[t].records = turns[t].records
        /\ turns'[t].cap = turns[t].cap /\ turns'[t].done = turns[t].done
        /\ turns'[t].total = turns[t].total /\ turns'[t].acted = turns[t].acted
        /\ turns'[t].next = turns[t].next
        /\ \/ turns'[t].pc \in {"opening", "writing"}
           \/ turns'[t].pc = turns[t].next /\ turns[t].pc = "writing"
           \/ turns'[t].pc = "ended" /\ turns[t].pc = "closing"
    <3>1. CASE ReadLog(t)
      BY <3>1, <2>1 DEF ReadLog, Becomes, Now, Turn, TypeOK
    <3>2. CASE OpenLog(t)
      BY <3>2, <2>1 DEF OpenLog, Becomes, Now, Turn, TypeOK
    <3>3. CASE WriteLog(t)
      BY <3>3, <2>1 DEF WriteLog, Becomes, Now, Turn, TypeOK
    <3>4. CASE Close(t)
      BY <3>4, <2>1 DEF Close, Becomes, Now, Turn, TypeOK
    <3> QED BY <1>7, <3>1, <3>2, <3>3, <3>4
  <2>3. Budget(turns'[t])
    BY <2>1, <2>2, SameBudget
  <2> QED BY <2>2, <2>3, BecomesBudget DEF Becomes
<1> QED
  BY <1>1, <1>3, <1>4, <1>5, <1>6, <1>7 DEF Next, Round, Write

(* However turns are paused, resumed, or overlap, each keeps within the    *)
(* limits of its policy and accounts for its model calls and actions.      *)
THEOREM TurnsStayWithinBudget == Spec => []WithinBudget
<1>1. Init => TypeOK /\ BInv
  <2> SUFFICES ASSUME Init PROVE BInv
    BY InitType
  <2>1. PICK policy \in Policies : turns = [t \in Turns |-> Fresh(policy)]
    BY DEF Init
  <2>2. Fresh(policy) \in Turn
    BY FreshType
  <2>3. Counting(Fresh(policy))
    BY <2>2, TurnFacts DEF Counting, Fresh, NoLimit
  <2>4. Budget(Fresh(policy))
    BY <2>3 DEF Budget, Fresh
  <2> QED BY <2>1, <2>4 DEF BInv
<1>2. TypeOK /\ BInv /\ [Next]_vars => TypeOK' /\ BInv'
  BY TypeStep, BudgetStep
<1>3. TypeOK /\ BInv => WithinBudget
  <2> SUFFICES ASSUME TypeOK, BInv, NEW t \in Turns
               PROVE  LET turn == turns[t]
                      IN  /\ turn.policy.calls # NoLimit => turn.calls <= turn.policy.calls
                          /\ turn.policy.round # NoLimit => turn.done <= turn.policy.round
                          /\ turn.policy.tick # NoLimit =>
                                /\ turn.acted <= turn.policy.tick
                                /\ turn.total <= turn.policy.tick + 1
                          /\ turn.next = "closing" =>
                                /\ turn.records = turn.calls
                                /\ turn.acted <= turn.total
                                /\ turn.total <= turn.acted + turn.calls
    BY DEF WithinBudget
  <2>1. turns[t] \in Turn /\ Budget(turns[t])
    BY DEF TypeOK, BInv
  <2>2. CASE turns[t].next = "acting"
    BY <2>1, <2>2, TurnFacts DEF Budget, Counting, NoLimit
  <2>3. CASE turns[t].next = "closing"
    BY <2>1, <2>3, TurnFacts DEF Budget, Finished, NoLimit
  <2> QED BY <2>1, <2>2, <2>3, TurnFacts
<1> QED BY <1>1, <1>2, <1>3, PTL DEF Spec
-----------------------------------------------------------------------------
(* The heartbeat log.                                                      *)

(* A turn holds a text that ends with its own entry; while appends do not  *)
(* overlap only one turn does, and it finds the log as it left it.         *)
EndsWith(text, entry) == text # << >> /\ text[Len(text)] = entry

Holds(t) == Appending(t) => EndsWith(turns[t].copy, <<t, turns[t].entries>>)

LInv ==
    /\ \A t \in Turns : Holds(t)
    /\ ~torn => /\ \A t, u \in Turns : Appending(t) /\ Appending(u) => t = u
                /\ \A t \in Turns : turns[t].pc = "writing" => log = << >>
    /\ LogEndsWithLast

(* Steps that have nothing to do with the log.                             *)
LEMMA LogAside ==
    ASSUME TypeOK, LInv, NEW t \in Turns, ~Appending(t), NEW turn, Becomes(t, turn),
           turn.pc \notin {"opening", "writing"},
           UNCHANGED <<log, last, torn>>
    PROVE  LInv'
<1>1. \A u \in Turns : turns'[u] = IF u = t THEN turn ELSE turns[u]
  BY DEF TypeOK, Becomes
<1>2. \A u \in Turns : turns'[u].pc \in {"opening", "writing"} => u # t /\ turns'[u] = turns[u]
  BY <1>1
<1>3. \A u \in Turns : turns[u].pc \in {"opening", "writing"} => turns'[u] = turns[u]
  BY <1>1 DEF Appending
<1> QED BY <1>2, <1>3 DEF LInv, Holds, Appending, LogEndsWithLast, EndsWith

(* None of the other steps begins to append: see where they leave a turn.  *)
LEMMA LeftAt ==
    ASSUME NEW turn \in Turn
    PROVE  /\ Closing(turn).pc = "reading"
           /\ \A status : ClosedAtOnce(turn, status).pc = "reading"
           /\ \A status : ClosedBy(turn, status).pc = "reading"
           /\ AfterRound(turn).pc \in {"reading", "top"}
<1>1. Closing(turn).pc = "reading"
  BY DEF Closing, Turn
<1>2. \A status : ClosedAtOnce(turn, status).pc = "reading"
  BY DEF ClosedAtOnce, Closing, Turn
<1>3. \A status : ClosedBy(turn, status).pc = "reading"
  BY DEF ClosedBy, ClosedAtOnce, Closing, Turn
<1>4. AfterRound(turn).pc \in {"reading", "top"}
  BY DEF AfterRound, Closing, Turn
<1> QED BY <1>1, <1>2, <1>3, <1>4

LEMMA LogStep == TypeOK /\ LInv /\ [Next]_vars => LInv'
<1> SUFFICES ASSUME TypeOK, LInv, [Next]_vars PROVE LInv' OBVIOUS
<1>1. CASE UNCHANGED vars \/ Pause \/ Resume
  BY <1>1 DEF LInv, Holds, Appending, LogEndsWithLast, vars, files, Pause, Resume
<1>2. ASSUME NEW t \in Turns PROVE turns[t] \in Turn
  BY DEF TypeOK
<1>3. ASSUME NEW t \in Turns, NEW turn, Becomes(t, turn), ~Appending(t),
             turn.pc \notin {"opening", "writing"}, UNCHANGED <<log, last, torn>>
      PROVE  LInv'
  BY <1>3, LogAside
<1>4. ASSUME NEW t \in Turns, Start(t) \/ Round(t) \/ Close(t) PROVE LInv'
  <2>1. ~Appending(t) /\ UNCHANGED <<log, last, torn>>
    BY <1>4 DEF Start, Round, Top, Reply, Act, EndRound, Perform, Close, Now, Appending, files
  <2>2. \E turn : Becomes(t, turn) /\ turn.pc \notin {"opening", "writing"}
    <3>1. turns[t] \in Turn
      BY <1>2
    <3>2. \A turn \in Turn : Closing(turn).pc = "reading" /\ AfterRound(turn).pc \in {"reading", "top"}
      BY LeftAt
    <3>3. CASE Start(t)
      <4>1. [turns[t] EXCEPT !.pc = "top"].pc = "top"
        BY <3>1 DEF Turn
      <4> QED BY <3>1, <3>3, <4>1, LeftAt DEF Start
    <3>4. CASE Top(t)
      <4>1. [turns[t] EXCEPT !.pc = "calling", !.calls = @ + 1].pc = "calling"
        BY <3>1 DEF Turn
      <4> QED BY <3>1, <3>4, <4>1, LeftAt DEF Top
    <3>5. CASE Reply(t)
      <4>1. \A asked : [turns[t] EXCEPT !.pc = "acting", !.asked = asked, !.done = 0,
                                         !.cap = Cap(turns[t], asked)].pc = "acting"
        BY <3>1 DEF Turn
      <4> QED BY <3>1, <3>5, <4>1, LeftAt DEF Reply
    <3>6. CASE Act(t)
      <4>1. turns[t].done \in Nat /\ turns[t].done + 1 \in Nat
        BY <3>1, TurnFacts
      <4>2. \A results \in Nat : Left(Counted(turns[t], results)) \in Turn
        BY <3>1, CountedType
      <4>3. CASE Perform(t)
        <5>1. [turns[t] EXCEPT !.done = @ + 1, !.acted = @ + 1, !.pc = "reading"].pc = "reading"
          BY <3>1 DEF Turn
        <5> QED BY <4>3, <5>1 DEF Perform
      <4>4. ASSUME NEW results \in Nat, EndRound(t, results)
            PROVE  \E turn : Becomes(t, turn) /\ turn.pc \notin {"opening", "writing"}
        BY <3>2, <4>2, <4>4 DEF EndRound
      <4> QED BY <3>6, <4>1, <4>3, <4>4 DEF Act
    <3>7. CASE Close(t)
      BY <3>1, <3>7 DEF Close, Turn
    <3> QED BY <1>4, <3>3, <3>4, <3>5, <3>6, <3>7 DEF Round
  <2> QED BY <2>1, <2>2, LogAside
<1>5. ASSUME NEW t \in Turns, ReadLog(t) PROVE LInv'
  <2>1. PICK entries \in Trimmed(Append(log, <<t, turns[t].entries + 1>>)) :
           Becomes(t, [turns[t] EXCEPT !.pc = "opening", !.copy = entries, !.entries = @ + 1])
    BY <1>5 DEF ReadLog
  <2>2. turns[t].entries + 1 \in Nat /\ log \in Seq(Entry)
    BY <1>2 DEF TypeOK, Turn
  <2>3. EndsWith(entries, <<t, turns[t].entries + 1>>)
    <3>1. <<t, turns[t].entries + 1>> \in Entry
      BY <2>2 DEF Entry
    <3>2. Len(entries) > 0 /\ entries[Len(entries)] = <<t, turns[t].entries + 1>> /\ entries \in Seq(Entry)
      BY <2>2, <3>1, TrimmedFacts
    <3> QED BY <3>2, EmptySeq DEF EndsWith
  <2>4. /\ turns'[t].pc = "opening" /\ turns'[t].copy = entries
        /\ turns'[t].entries = turns[t].entries + 1
        /\ \A u \in Turns : u # t => turns'[u] = turns[u]
    BY <1>2, <2>1 DEF Becomes, TypeOK, Turn
  <2>5. \A u \in Turns : Holds(u)'
    BY <2>3, <2>4 DEF LInv, Holds, Appending, EndsWith
  <2>6. torn' = (\E u \in Turns : Appending(u)) /\ log' = log /\ last' = last
    BY <1>5 DEF ReadLog
  <2>7. Appending(t)'
    BY <2>4 DEF Appending
  <2>8. ~torn' => \A u \in Turns : Appending(u)' => u = t
    BY <2>4, <2>6 DEF Appending
  <2>9. ~torn' => \A u \in Turns : turns'[u].pc # "writing"
    BY <2>4, <2>6 DEF Appending
  <2> QED BY <2>5, <2>7, <2>8, <2>9 DEF LInv, LogEndsWithLast
<1>6. ASSUME NEW t \in Turns, OpenLog(t) PROVE LInv'
  <2>1. /\ turns[t].pc = "opening" /\ turns'[t].pc = "writing" /\ turns'[t].copy = turns[t].copy
        /\ turns'[t].entries = turns[t].entries
        /\ \A u \in Turns : u # t => turns'[u] = turns[u]
        /\ log' = << >> /\ torn' = torn
    BY <1>2, <1>6 DEF OpenLog, Now, Becomes, TypeOK, Turn
  <2>2. \A u \in Turns : Holds(u)'
    BY <2>1 DEF LInv, Holds, Appending, EndsWith
  <2>3. \A u \in Turns : Appending(u)' <=> Appending(u)
    BY <2>1 DEF Appending
  <2>4. Appending(t)'
    BY <2>1 DEF Appending
  <2> QED BY <2>1, <2>2, <2>3, <2>4 DEF LInv, LogEndsWithLast
<1>7. ASSUME NEW t \in Turns, WriteLog(t) PROVE LInv'
  <2>1. /\ turns[t].pc = "writing" /\ turns'[t].pc = turns[t].next /\ turns[t].next \in {"acting", "closing"}
        /\ \A u \in Turns : u # t => turns'[u] = turns[u]
        /\ last' = <<t, turns[t].entries>> /\ torn' = torn
    BY <1>2, <1>7 DEF WriteLog, Now, Becomes, TypeOK, Turn
  <2>2. \A u \in Turns : Appending(u)' => u # t /\ Appending(u) /\ turns'[u] = turns[u]
    BY <2>1 DEF Appending
  <2>3. \A u \in Turns : Holds(u)'
    BY <2>2 DEF LInv, Holds
  <2>4. Appending(t)
    BY <2>1 DEF Appending
  <2>5. ~torn' => \A u \in Turns : ~Appending(u)'
    BY <2>1, <2>2, <2>4 DEF LInv
  <2>6. ~torn' => log' # << >> /\ log'[Len(log')] = last'
    <3> SUFFICES ASSUME ~torn' PROVE EndsWith(log', last')
      BY DEF EndsWith
    <3>1. log = << >>
      BY <2>1 DEF LInv
    <3>2. log' = turns[t].copy \o << >>
      BY <1>7, <3>1 DEF WriteLog, Over
    <3>3. turns[t].copy \in Seq(Entry)
      BY <1>2 DEF Turn
    <3>4. log' = turns[t].copy
      BY <3>2, <3>3, ConcatEmptySeq
    <3>5. EndsWith(turns[t].copy, <<t, turns[t].entries>>)
      BY <2>4 DEF LInv, Holds
    <3> QED BY <2>1, <3>4, <3>5
  <2>7. ~torn' => \A u \in Turns : turns'[u].pc # "writing"
    BY <2>5 DEF Appending
  <2> QED BY <2>3, <2>5, <2>6, <2>7 DEF LInv, LogEndsWithLast
<1> QED
  BY <1>1, <1>4, <1>5, <1>6, <1>7 DEF Next, Write

(* What overlapping turns do to the log does not last: once it is at rest  *)
(* and the last append had it for itself, it ends with that append.        *)
THEOREM LogRecovers == Spec => []LogEndsWithLast
<1>1. Init => LInv
  <2> SUFFICES ASSUME Init PROVE LInv OBVIOUS
  <2>1. \A t \in Turns : turns[t].pc = "idle"
    <3>1. PICK policy \in Policies : turns = [t \in Turns |-> Fresh(policy)]
      BY DEF Init
    <3>2. Fresh(policy).pc = "idle"
      BY DEF Fresh
    <3> QED BY <3>1, <3>2
  <2>2. \A t \in Turns : ~Appending(t) /\ turns[t].pc # "writing"
    BY <2>1 DEF Appending
  <2>3. last = << >>
    BY DEF Init
  <2> QED BY <2>2, <2>3 DEF LInv, Holds, LogEndsWithLast
<1>2. LInv => LogEndsWithLast
  BY DEF LInv
<1> QED BY <1>1, <1>2, InitType, TypeStep, LogStep, PTL DEF Spec

-----------------------------------------------------------------------------
(* TurnsWindDown.  What the steps a turn has left are counted from: so     *)
(* many rounds and, in a round, so many actions.                           *)

InRound == {"acting", "reading", "opening", "writing"}

Bounded(turn) ==
    /\ turn.next = "acting" =>
          /\ turn.pc \in {"idle", "top", "calling"} \cup InRound
          /\ turn.rounds <= MaxRounds
          /\ turn.pc \in InRound =>
                turn.rounds < MaxRounds /\ turn.done <= turn.asked /\ turn.asked <= MaxReply
    /\ turn.next = "closing" => turn.pc \in {"reading", "opening", "writing", "closing", "ended"}

WInv == \A t \in Turns : Bounded(turns[t])

LEMMA FromTopFacts ==
    ASSUME NEW n \in Nat
    PROVE  FromTop(n) \in Nat /\ FromTop(n) >= 6 /\ FromTop(n + 1) = FromTop(n) + 4 * MaxReply + 3
<1> DEFINE k == 4 * MaxReply + 3
<1>1. k \in Nat
  BY AnswersAssumption
<1> HIDE DEF k
<1>2. n * k \in Nat /\ (n + 1) * k = n * k + k
  BY <1>1
<1>3. FromTop(n) = n * k + 6 /\ FromTop(n + 1) = (n + 1) * k + 6
  BY DEF FromTop, k
<1>4. FromTop(n) \in Nat /\ FromTop(n) >= 6 /\ FromTop(n + 1) = FromTop(n) + k
  BY <1>1, <1>2, <1>3
<1> QED BY <1>4, AnswersAssumption DEF k

(* The number, by what the turn is at.                                     *)
LEMMA StepsLeftIs ==
    ASSUME NEW turn \in Turn, Bounded(turn)
    PROVE  /\ turn.pc = "ended" => StepsLeft(turn) = 0
           /\ turn.pc # "ended" /\ turn.next = "closing" => StepsLeft(turn) = AppendSteps(turn.pc) + 1
           /\ turn.next = "acting" =>
                 /\ turn.pc = "idle" => StepsLeft(turn) = FromTop(MaxRounds - turn.rounds) + 1
                 /\ turn.pc = "top" => StepsLeft(turn) = FromTop(MaxRounds - turn.rounds)
                 /\ turn.pc = "calling" => StepsLeft(turn) = FromTop(MaxRounds - turn.rounds) - 1
                 /\ turn.pc \in InRound =>
                       StepsLeft(turn) = FromTop(MaxRounds - turn.rounds - 1) + 1
                                           + 4 * (turn.asked - turn.done) + AppendSteps(turn.pc)
BY DEF StepsLeft, InRound

LEMMA AppendIs ==
    /\ AppendSteps("reading") = 3 /\ AppendSteps("opening") = 2 /\ AppendSteps("writing") = 1
    /\ AppendSteps("acting") = 0 /\ AppendSteps("closing") = 0
BY DEF AppendSteps

(* A turn on which there is something left to do has more steps left than  *)
(* one whose rounds are over.                                              *)
LEMMA StepsLeftBounds ==
    ASSUME NEW turn \in Turn, Bounded(turn)
    PROVE  /\ StepsLeft(turn) \in Nat
           /\ turn.next = "acting" => StepsLeft(turn) >= 5
<1>1. /\ turn.rounds \in Nat /\ turn.asked \in Nat /\ turn.done \in Nat
      /\ turn.next \in {"acting", "closing"}
  BY TurnFacts
<1>2. MaxRounds \in Nat /\ MaxReply \in Nat
  BY TurnAssumption, AnswersAssumption
<1>3. CASE turn.next = "closing"
  BY <1>3, AppendIs, StepsLeftIs DEF Bounded
<1>4. CASE turn.next = "acting" /\ turn.pc \in {"idle", "top", "calling"}
  <2> DEFINE n == MaxRounds - turn.rounds
  <2>1. n \in Nat
    BY <1>1, <1>2, <1>4 DEF Bounded
  <2>2. FromTop(n) \in Nat /\ FromTop(n) >= 6
    BY <2>1, FromTopFacts
  <2>3. StepsLeft(turn) \in {FromTop(n) + 1, FromTop(n), FromTop(n) - 1}
    BY <1>4, StepsLeftIs
  <2> HIDE DEF n
  <2> QED BY <2>2, <2>3
<1>5. CASE turn.next = "acting" /\ turn.pc \in InRound
  <2> DEFINE n == MaxRounds - turn.rounds - 1
  <2>1. n \in Nat /\ turn.asked - turn.done \in Nat
    BY <1>1, <1>2, <1>5 DEF Bounded
  <2>2. FromTop(n) \in Nat /\ FromTop(n) >= 6
    BY <2>1, FromTopFacts
  <2>3. StepsLeft(turn) = FromTop(n) + 1 + 4 * (turn.asked - turn.done) + AppendSteps(turn.pc)
    BY <1>5, StepsLeftIs
  <2>4. AppendSteps(turn.pc) \in Nat
    BY <1>5, AppendIs DEF InRound
  <2> HIDE DEF n
  <2> QED BY <2>1, <2>2, <2>3, <2>4
<1> QED BY <1>1, <1>3, <1>4, <1>5 DEF Bounded

(* The steps of a turn, by what they do to it.                             *)
Same(turn, next) == next.next = turn.next /\ next.rounds = turn.rounds
InSameRound(turn, next) == Same(turn, next) /\ next.asked = turn.asked /\ next.done = turn.done

GoesOn(turn, next) ==
    \/ turn.next = "acting" /\ next.next = "closing" /\ next.pc = "reading"
    \/ turn.next = "acting" /\ Same(turn, next) /\ turn.pc = "idle" /\ next.pc = "top"
    \/ turn.next = "acting" /\ Same(turn, next) /\ turn.pc = "top" /\ next.pc = "calling"
    \/ turn.next = "acting" /\ Same(turn, next) /\ turn.pc = "calling" /\ next.pc = "acting"
    \/ /\ turn.next = "acting" /\ next.next = "acting" /\ next.rounds = turn.rounds + 1
       /\ turn.pc = "acting" /\ next.pc = "top"
    \/ /\ turn.next = "acting" /\ Same(turn, next) /\ turn.pc = "acting" /\ next.pc = "reading"
       /\ next.asked = turn.asked /\ next.done = turn.done + 1
    \/ InSameRound(turn, next) /\ turn.pc = "reading" /\ next.pc = "opening"
    \/ InSameRound(turn, next) /\ turn.pc = "opening" /\ next.pc = "writing"
    \/ InSameRound(turn, next) /\ turn.pc = "writing" /\ next.pc = turn.next
    \/ turn.next = "closing" /\ Same(turn, next) /\ turn.pc = "closing" /\ next.pc = "ended"

LEMMA WindsDown ==
    ASSUME NEW turn \in Turn, NEW next \in Turn, Bounded(turn), Bounded(next), GoesOn(turn, next)
    PROVE  0 <= StepsLeft(next) /\ StepsLeft(next) < StepsLeft(turn)
<1>1. StepsLeft(turn) \in Nat /\ StepsLeft(next) \in Nat
  BY StepsLeftBounds
<1>2. /\ turn.rounds \in Nat /\ turn.asked \in Nat /\ turn.done \in Nat
      /\ next.rounds \in Nat /\ next.asked \in Nat /\ next.done \in Nat
      /\ turn.next \in {"acting", "closing"} /\ next.next \in {"acting", "closing"}
      /\ MaxRounds \in Nat /\ MaxReply \in Nat
  BY TurnFacts, TurnAssumption, AnswersAssumption
<1>3. CASE turn.next = "acting" /\ next.next = "closing" /\ next.pc = "reading"
  <2>1. StepsLeft(next) = 4
    BY <1>3, AppendIs, StepsLeftIs
  <2>2. StepsLeft(turn) >= 5
    BY <1>3, StepsLeftBounds
  <2> QED BY <1>1, <2>1, <2>2
<1>4. CASE /\ turn.next = "acting" /\ Same(turn, next)
           /\ \/ turn.pc = "idle" /\ next.pc = "top"
              \/ turn.pc = "top" /\ next.pc = "calling"
  <2>1. FromTop(MaxRounds - turn.rounds) \in Nat
    <3>1. MaxRounds - turn.rounds \in Nat
      BY <1>2, <1>4 DEF Bounded
    <3> QED BY <3>1, FromTopFacts
  <2>2. \/ /\ StepsLeft(turn) = FromTop(MaxRounds - turn.rounds) + 1
           /\ StepsLeft(next) = FromTop(MaxRounds - turn.rounds)
        \/ /\ StepsLeft(turn) = FromTop(MaxRounds - turn.rounds)
           /\ StepsLeft(next) = FromTop(MaxRounds - turn.rounds) - 1
    BY <1>4, StepsLeftIs DEF Same
  <2> QED BY <1>1, <2>1, <2>2
<1>5. CASE turn.next = "acting" /\ Same(turn, next) /\ turn.pc = "calling" /\ next.pc = "acting"
  <2> DEFINE n == MaxRounds - turn.rounds - 1
  <2>1. /\ next.rounds = turn.rounds /\ next.next = "acting"
        /\ n \in Nat /\ n + 1 = MaxRounds - turn.rounds
        /\ next.asked - next.done <= MaxReply /\ next.asked - next.done \in Nat
    BY <1>2, <1>5 DEF Bounded, Same, InRound
  <2>2. FromTop(n) \in Nat /\ FromTop(n + 1) = FromTop(n) + 4 * MaxReply + 3
    BY <2>1, FromTopFacts
  <2>3. /\ StepsLeft(turn) = FromTop(n + 1) - 1
        /\ StepsLeft(next) = FromTop(n) + 1 + 4 * (next.asked - next.done)
    <3>1. StepsLeft(next) = FromTop(n) + 1 + 4 * (next.asked - next.done) + AppendSteps("acting")
      BY <1>5, <2>1, StepsLeftIs DEF InRound
    <3>2. FromTop(n) + 1 + 4 * (next.asked - next.done) + 0 = FromTop(n) + 1 + 4 * (next.asked - next.done)
      BY <2>1, <2>2
    <3> QED BY <1>5, <2>1, <3>1, <3>2, AppendIs, StepsLeftIs
  <2> HIDE DEF n
  <2> QED BY <1>1, <1>2, <2>1, <2>2, <2>3
<1>6. CASE /\ turn.next = "acting" /\ next.next = "acting" /\ next.rounds = turn.rounds + 1
           /\ turn.pc = "acting" /\ next.pc = "top"
  <2> DEFINE n == MaxRounds - turn.rounds - 1
  <2>1. n \in Nat /\ MaxRounds - next.rounds = n /\ turn.asked - turn.done \in Nat
    BY <1>2, <1>6 DEF Bounded, InRound
  <2>2. FromTop(n) \in Nat
    BY <2>1, FromTopFacts
  <2>3. /\ StepsLeft(next) = FromTop(n)
        /\ StepsLeft(turn) = FromTop(n) + 1 + 4 * (turn.asked - turn.done) + AppendSteps("acting")
    BY <1>6, <2>1, StepsLeftIs DEF InRound
  <2> HIDE DEF n
  <2> QED BY <1>1, <2>1, <2>2, <2>3, AppendIs
<1>7. CASE /\ turn.next = "acting" /\ Same(turn, next) /\ turn.pc \in InRound /\ next.pc \in InRound
           /\ next.asked = turn.asked
           /\ \/ turn.pc = "acting" /\ next.pc = "reading" /\ next.done = turn.done + 1
              \/ turn.pc = "reading" /\ next.pc = "opening" /\ next.done = turn.done
              \/ turn.pc = "opening" /\ next.pc = "writing" /\ next.done = turn.done
              \/ turn.pc = "writing" /\ next.pc = "acting" /\ next.done = turn.done
  <2> DEFINE f == FromTop(MaxRounds - turn.rounds - 1)
  <2>1. f \in Nat
    <3>1. MaxRounds - turn.rounds - 1 \in Nat
      BY <1>2, <1>7 DEF Bounded
    <3> QED BY <3>1, FromTopFacts
  <2>2. /\ StepsLeft(turn) = f + 1 + 4 * (turn.asked - turn.done) + AppendSteps(turn.pc)
        /\ StepsLeft(next) = f + 1 + 4 * (turn.asked - next.done) + AppendSteps(next.pc)
    BY <1>7, StepsLeftIs DEF Same
  <2> HIDE DEF f
  <2> QED BY <1>1, <1>2, <1>7, <2>1, <2>2, AppendIs
<1>8. CASE /\ turn.next = "closing" /\ next.next = "closing"
           /\ \/ turn.pc = "reading" /\ next.pc = "opening"
              \/ turn.pc = "opening" /\ next.pc = "writing"
              \/ turn.pc = "writing" /\ next.pc = "closing"
              \/ turn.pc = "closing" /\ next.pc = "ended"
  BY <1>1, <1>8, AppendIs, StepsLeftIs
<1> QED BY <1>2, <1>3, <1>4, <1>5, <1>6, <1>7, <1>8 DEF GoesOn, Same, InSameRound, InRound

(* What each step of a turn does to it.                                    *)
Goes(turn, next) == next \in Turn /\ Bounded(next) /\ GoesOn(turn, next)

LEMMA ClosingGoes ==
    ASSUME NEW turn \in Turn, turn.next = "acting", NEW next \in Turn,
           next.next = "closing", next.pc = "reading"
    PROVE  Goes(turn, next)
BY DEF Goes, Bounded, GoesOn

LEMMA StartGoes ==
    ASSUME TypeOK, TypeOK', WInv, NEW t \in Turns, Start(t)
    PROVE  Goes(turns[t], turns'[t])
<1> DEFINE turn == turns[t]
           next == turns'[t]
<1>1. turn \in Turn /\ next \in Turn /\ Bounded(turn) /\ turn.pc = "idle"
  BY DEF TypeOK, WInv, Start, Now
<1>2. turn.next = "acting"
  BY <1>1, TurnFacts DEF Bounded
<1>3. \/ next.next = "closing" /\ next.pc = "reading"
      \/ Same(turn, next) /\ next.pc = "top"
  <2>1. ASSUME NEW status, Becomes(t, ClosedAtOnce(turn, status))
        PROVE  next.next = "closing" /\ next.pc = "reading"
    BY <1>1, <2>1 DEF Becomes, ClosedAtOnce, Closing, Turn, TypeOK
  <2>2. ASSUME Becomes(t, [turn EXCEPT !.pc = "top"])
        PROVE  Same(turn, next) /\ next.pc = "top"
    BY <1>1, <2>2 DEF Becomes, Same, Turn, TypeOK
  <2> QED BY <2>1, <2>2 DEF Start
<1> HIDE DEF turn, next
<1>4. CASE next.next = "closing" /\ next.pc = "reading"
  BY <1>1, <1>2, <1>4, ClosingGoes DEF turn, next
<1>5. CASE Same(turn, next) /\ next.pc = "top"
  BY <1>1, <1>2, <1>5 DEF Goes, Bounded, GoesOn, Same, InRound, turn, next
<1> QED BY <1>3, <1>4, <1>5

LEMMA TopGoes ==
    ASSUME TypeOK, TypeOK', WInv, NEW t \in Turns, Top(t)
    PROVE  Goes(turns[t], turns'[t])
<1> DEFINE turn == turns[t]
           next == turns'[t]
<1>1. turn \in Turn /\ next \in Turn /\ Bounded(turn) /\ turn.pc = "top"
  BY DEF TypeOK, WInv, Top, Now
<1>2. turn.next = "acting"
  BY <1>1, TurnFacts DEF Bounded
<1>3. \/ next.next = "closing" /\ next.pc = "reading"
      \/ Same(turn, next) /\ next.pc = "calling"
  <2>1. ASSUME Becomes(t, Closing(turn))
        PROVE  next.next = "closing" /\ next.pc = "reading"
    BY <1>1, <2>1 DEF Becomes, Closing, Turn, TypeOK
  <2>2. ASSUME Becomes(t, [turn EXCEPT !.pc = "calling", !.calls = @ + 1])
        PROVE  Same(turn, next) /\ next.pc = "calling"
    BY <1>1, <2>2 DEF Becomes, Same, Turn, TypeOK
  <2> QED BY <2>1, <2>2 DEF Top
<1> HIDE DEF turn, next
<1>4. CASE next.next = "closing" /\ next.pc = "reading"
  BY <1>1, <1>2, <1>4, ClosingGoes DEF turn, next
<1>5. CASE Same(turn, next) /\ next.pc = "calling"
  BY <1>1, <1>2, <1>5 DEF Goes, Bounded, GoesOn, Same, InRound, turn, next
<1> QED BY <1>3, <1>4, <1>5

LEMMA ReplyGoes ==
    ASSUME TypeOK, TypeOK', WInv, NEW t \in Turns, Reply(t)
    PROVE  Goes(turns[t], turns'[t])
<1> DEFINE turn == turns[t]
           next == turns'[t]
<1>1. turn \in Turn /\ next \in Turn /\ Bounded(turn) /\ turn.pc = "calling"
  BY DEF TypeOK, WInv, Reply, Now
<1>2. turn.next = "acting"
  BY <1>1, TurnFacts DEF Bounded
<1>3. \/ next.next = "closing" /\ next.pc = "reading"
      \/ /\ Same(turn, next) /\ next.pc = "acting" /\ turn.rounds < MaxRounds
         /\ next.done = 0 /\ next.asked \in 0..MaxReply
  <2>1. ASSUME NEW status, Becomes(t, ClosedBy(turn, status))
        PROVE  next.next = "closing" /\ next.pc = "reading"
    BY <1>1, <2>1 DEF Becomes, ClosedBy, ClosedAtOnce, Closing, Turn, TypeOK
  <2>2. ASSUME turn.rounds < MaxRounds, NEW asked \in Askable,
               Becomes(t, [turn EXCEPT !.pc = "acting", !.asked = asked, !.done = 0,
                                       !.cap = Cap(turn, asked)])
        PROVE  /\ Same(turn, next) /\ next.pc = "acting" /\ turn.rounds < MaxRounds
               /\ next.done = 0 /\ next.asked \in 0..MaxReply
    <3>1. asked \in 0..MaxReply
      BY AskableBound, AnswersAssumption
    <3> QED BY <1>1, <2>2, <3>1 DEF Becomes, Same, Turn, TypeOK
  <2> QED BY <2>1, <2>2 DEF Reply
<1> HIDE DEF turn, next
<1>4. CASE next.next = "closing" /\ next.pc = "reading"
  BY <1>1, <1>2, <1>4, ClosingGoes DEF turn, next
<1>5. CASE /\ Same(turn, next) /\ next.pc = "acting" /\ turn.rounds < MaxRounds
           /\ next.done = 0 /\ next.asked \in 0..MaxReply
  <2>1. next.done <= next.asked /\ next.asked <= MaxReply
    BY <1>5, AnswersAssumption
  <2> QED BY <1>1, <1>2, <1>5, <2>1 DEF Goes, Bounded, GoesOn, Same, InRound, turn, next
<1> QED BY <1>3, <1>4, <1>5

LEMMA ActGoes ==
    ASSUME TypeOK, TypeOK', WInv, NEW t \in Turns, Act(t)
    PROVE  Goes(turns[t], turns'[t])
<1> DEFINE turn == turns[t]
           next == turns'[t]
<1>1. turn \in Turn /\ next \in Turn /\ Bounded(turn) /\ turn.pc = "acting"
  BY DEF TypeOK, WInv, Act, Now
<1>2. /\ turn.next = "acting" /\ turn.rounds < MaxRounds /\ turn.done <= turn.asked
      /\ turn.asked <= MaxReply
  BY <1>1, TurnFacts DEF Bounded, InRound
<1>3. \/ next.next = "closing" /\ next.pc = "reading"
      \/ next.next = "acting" /\ next.rounds = turn.rounds + 1 /\ next.pc = "top"
      \/ /\ Same(turn, next) /\ next.pc = "reading" /\ next.asked = turn.asked
         /\ turn.done # turn.asked /\ next.done = turn.done + 1
  <2>1. ASSUME NEW results \in Nat, EndRound(t, results)
        PROVE  \/ next.next = "closing" /\ next.pc = "reading"
               \/ next.next = "acting" /\ next.rounds = turn.rounds + 1 /\ next.pc = "top"
    <3> DEFINE left == Left(Counted(turn, results))
    <3>1. left \in Turn
      BY <1>1, CountedType
    <3>2. left.rounds = turn.rounds /\ left.next = "acting"
      BY <1>1, <1>2 DEF Left, Counted, Turn
    <3>3. next = Closing(left) \/ next = AfterRound(left)
      BY <2>1 DEF EndRound, Becomes, TypeOK
    <3> HIDE DEF left, next
    <3>4. \A u \in Turn : Closing(u).next = "closing" /\ Closing(u).pc = "reading"
      BY DEF Closing, Turn
    <3>5. CASE next = Closing(left)
      BY <3>1, <3>4, <3>5
    <3>6. CASE next = AfterRound(left)
      <4>1. left.rounds + 1 \in Nat
        BY <3>1, TurnFacts
      <4>2. [left EXCEPT !.rounds = left.rounds + 1] \in Turn
        BY <3>1, <4>1 DEF Turn
      <4>3. \/ \E u \in Turn : next = Closing(u)
            \/ next = [left EXCEPT !.rounds = left.rounds + 1, !.pc = "top"]
        BY <3>1, <3>6, <4>2 DEF AfterRound
      <4>4. CASE next = [left EXCEPT !.rounds = left.rounds + 1, !.pc = "top"]
        BY <3>1, <3>2, <4>4 DEF Turn
      <4> QED BY <3>4, <4>3, <4>4
    <3> QED BY <3>3, <3>5, <3>6
  <2>2. ASSUME turn.done < turn.asked, Perform(t)
        PROVE  /\ Same(turn, next) /\ next.pc = "reading" /\ next.asked = turn.asked
               /\ turn.done # turn.asked /\ next.done = turn.done + 1
    <3>1. turn.done # turn.asked
      BY <1>1, <2>2, TurnFacts
    <3> QED BY <1>1, <2>2, <3>1 DEF Perform, Becomes, Same, Turn, TypeOK
  <2>3. turn.done \in Nat /\ turn.done + 1 \in Nat
    BY <1>1, TurnFacts
  <2>4. \/ EndRound(t, turn.done) \/ EndRound(t, turn.done + 1)
        \/ turn.done < turn.asked /\ Perform(t)
    BY DEF Act
  <2> QED BY <2>1, <2>2, <2>3, <2>4
<1>6. MaxRounds \in Nat /\ turn.rounds \in Nat /\ turn.done \in Nat /\ turn.asked \in Nat
  BY <1>1, TurnFacts, TurnAssumption
<1> HIDE DEF turn, next
<1>4. CASE next.next = "closing" /\ next.pc = "reading"
  BY <1>1, <1>2, <1>4, ClosingGoes DEF turn, next
<1>5. CASE next.next = "acting" /\ next.rounds = turn.rounds + 1 /\ next.pc = "top"
  BY <1>1, <1>2, <1>5, <1>6 DEF Goes, Bounded, GoesOn, InRound, turn, next
<1>7. CASE /\ Same(turn, next) /\ next.pc = "reading" /\ next.asked = turn.asked
           /\ turn.done # turn.asked /\ next.done = turn.done + 1
  BY <1>1, <1>2, <1>6, <1>7 DEF Goes, Bounded, GoesOn, InRound, Same, turn, next
<1> QED BY <1>3, <1>4, <1>5, <1>7

LEMMA WriteGoes ==
    ASSUME TypeOK, TypeOK', WInv, NEW t \in Turns, Write(t) \/ Close(t)
    PROVE  Goes(turns[t], turns'[t])
<1> DEFINE turn == turns[t]
           next == turns'[t]
<1>1. turn \in Turn /\ next \in Turn /\ Bounded(turn)
  BY DEF TypeOK, WInv
<1>2. /\ InSameRound(turn, next)
      /\ \/ turn.pc = "reading" /\ next.pc = "opening"
         \/ turn.pc = "opening" /\ next.pc = "writing"
         \/ turn.pc = "writing" /\ next.pc = turn.next
         \/ turn.pc = "closing" /\ next.pc = "ended"
  <2>1. CASE ReadLog(t)
    BY <1>1, <2>1 DEF ReadLog, Becomes, Now, Turn, TypeOK, InSameRound, Same
  <2>2. CASE OpenLog(t)
    BY <1>1, <2>2 DEF OpenLog, Becomes, Now, Turn, TypeOK, InSameRound, Same
  <2>3. CASE WriteLog(t)
    BY <1>1, <2>3 DEF WriteLog, Becomes, Now, Turn, TypeOK, InSameRound, Same
  <2>4. CASE Close(t)
    BY <1>1, <2>4 DEF Close, Becomes, Now, Turn, TypeOK, InSameRound, Same
  <2> QED BY <2>1, <2>2, <2>3, <2>4 DEF Write
<1>3. turn.next \in {"acting", "closing"}
  BY <1>1, TurnFacts
<1> HIDE DEF turn, next
<1>4. Bounded(next)
  BY <1>1, <1>2, <1>3 DEF Bounded, InSameRound, Same, InRound
<1>5. GoesOn(turn, next)
  BY <1>1, <1>2, <1>3 DEF Bounded, GoesOn, InSameRound, InRound
<1> QED BY <1>1, <1>4, <1>5 DEF Goes, turn, next

(* A step is a step of one turn, which goes on, or leaves the turns alone. *)
LEMMA OneTurnGoes ==
    ASSUME TypeOK, TypeOK', WInv, [Next]_vars
    PROVE  \/ turns' = turns
           \/ \E t \in Turns :
                 /\ Goes(turns[t], turns'[t])
                 /\ \A u \in Turns : u # t => turns'[u] = turns[u]
<1>1. CASE Pause \/ Resume \/ UNCHANGED vars
  BY <1>1 DEF Pause, Resume, vars
<1>2. CASE \E t \in Turns : Start(t) \/ Round(t) \/ Write(t) \/ Close(t)
  <2>1. PICK t \in Turns : Start(t) \/ Round(t) \/ Write(t) \/ Close(t)
    BY <1>2
  <2>2. Goes(turns[t], turns'[t])
    BY <2>1, StartGoes, TopGoes, ReplyGoes, ActGoes, WriteGoes DEF Round
  <2>3. \E turn : Becomes(t, turn)
    BY <2>1 DEF Start, Round, Top, Reply, Act, EndRound, Perform,
                Write, ReadLog, OpenLog, WriteLog, Close
  <2>4. \A u \in Turns : u # t => turns'[u] = turns[u]
    BY <2>3 DEF Becomes, TypeOK
  <2> QED BY <2>2, <2>4
<1> QED BY <1>1, <1>2 DEF Next

WindStep == \A t \in Turns : turns'[t] # turns[t] =>
               0 <= StepsLeft(turns'[t]) /\ StepsLeft(turns'[t]) < StepsLeft(turns[t])

LEMMA WindsDownStep ==
    ASSUME TypeOK, TypeOK', WInv, [Next]_vars
    PROVE  WInv' /\ WindStep
<1>1. CASE turns' = turns
  BY <1>1 DEF WInv, WindStep
<1>2. CASE \E t \in Turns : /\ Goes(turns[t], turns'[t])
                           /\ \A u \in Turns : u # t => turns'[u] = turns[u]
  <2>1. PICK t \in Turns : /\ Goes(turns[t], turns'[t])
                          /\ \A u \in Turns : u # t => turns'[u] = turns[u]
    BY <1>2
  <2>2. turns[t] \in Turn /\ turns'[t] \in Turn
    BY DEF TypeOK
  <2>3. Bounded(turns[t]) /\ Bounded(turns'[t]) /\ GoesOn(turns[t], turns'[t])
    BY <2>1 DEF WInv, Goes
  <2>4. 0 <= StepsLeft(turns'[t]) /\ StepsLeft(turns'[t]) < StepsLeft(turns[t])
    BY <2>2, <2>3, WindsDown
  <2>5. \A u \in Turns : Bounded(turns'[u])
    BY <2>1, <2>3 DEF WInv
  <2> QED BY <2>1, <2>4, <2>5 DEF WInv, WindStep
<1> QED BY <1>1, <1>2, OneTurnGoes

(* Whatever its policy, and however turns and pauses interleave, each step *)
(* of a turn leaves it fewer steps than it had.                            *)
THEOREM EveryTurnWindsDown == Spec => TurnsWindDown
<1>1. Init => WInv
  <2> SUFFICES ASSUME Init, NEW t \in Turns PROVE Bounded(turns[t])
    BY DEF WInv
  <2>1. PICK policy \in Policies : turns = [u \in Turns |-> Fresh(policy)]
    BY DEF Init
  <2>2. turns[t].pc = "idle" /\ turns[t].next = "acting" /\ turns[t].rounds = 0
    BY <2>1 DEF Fresh
  <2>3. MaxRounds >= 0
    BY TurnAssumption
  <2> QED BY <2>2, <2>3 DEF Bounded, InRound
<1>2. TypeOK /\ TypeOK' /\ WInv /\ [Next]_vars => WInv' /\ [WindStep]_vars
  BY WindsDownStep
<1>3. [][WindStep]_vars <=> TurnsWindDown
  BY DEF TurnsWindDown, WindStep
<1> QED BY <1>1, <1>2, <1>3, InitType, TypeStep, PTL DEF Spec
=============================================================================
