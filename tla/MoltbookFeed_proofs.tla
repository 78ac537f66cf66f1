-------------------------- MODULE MoltbookFeed_proofs --------------------------
(***************************************************************************)
(* Theorems about the feed of the moltbook environment, for any agents,    *)
(* items, vote rows and threads.                                           *)
(***************************************************************************)
EXTENDS MoltbookFeed, FiniteSetTheorems, TLAPS

-----------------------------------------------------------------------------
(* The inductive invariant: besides what is claimed, how the rows hang     *)
(* together, and what a session has in hand that nothing overtook.         *)
RowsInv ==
    /\ IsFiniteSet(votes)
    /\ \A v, w \in votes : v.id = w.id => v = w
    /\ \A v \in votes : items[v.item].kind # "free"
    /\ \A i \in Items : Live(i) => items[i].author \in Agents
    /\ \A i \in Items : IsPost(i) => (items[i].parent = NoItem /\ items[i].post = NoItem)

OpOK(s) ==
    /\ s.st \in {"opened", "found"} => s.op = "vote"
    /\ s.st = "idle" => s.op = "none"
    /\ s.op = "comment" => (s.agent \in Agents /\ s.item \in Items)

(* What a deletion has loaded holds all the rows it will take away.        *)
DeleteOK(s) ==
    s.op = "delete" =>
        /\ s.item \in s.loaded
        /\ \A i \in s.loaded : items[i].kind # "free"
        /\ \A i \in s.loaded : i # s.item => ~ IsPost(i)
        /\ \A v \in votes : v.id \in s.rows => v.item \in s.loaded

(* The row that a voter has on an item, as a vote session found it.        *)
FoundRow(s) ==
    \/ s.row = NoRow /\ \A v \in votes : ~ (v.agent = s.agent /\ v.item = s.item)
    \/ \E v \in votes : v.id = s.row /\ (s.was <=> v.type = s.type)

(* The vote session knows the counters and the row, and the karma, unless  *)
(* another vote overtook it.                                               *)
KnowsItem(s) ==
    (~ s.itemOld /\ s.item \notin drifted /\ Live(s.item)) =>
        /\ s.up = items[s.item].up /\ s.down = items[s.item].down
        /\ s.st # "opened" => FoundRow(s)
KnowsKarma(s) ==
    (s.st = "ready" /\ ~ s.karmaOld /\ IsPost(s.item)) => s.karma = karma[items[s.item].author]

VoteOK(s) ==
    s.op = "vote" =>
        /\ s.item \in Items /\ s.agent \in Agents
        /\ items[s.item].kind # "free"
        /\ s.st = "opened" => s.row = NoRow
        /\ s.row = NoRow => ~ s.was
        /\ \A v \in votes : v.id = s.row => (v.item = s.item /\ v.agent = s.agent)
        /\ KnowsItem(s) /\ KnowsKarma(s)

SessionsInv == \A q \in Requests : OpOK(req[q]) /\ DeleteOK(req[q]) /\ VoteOK(req[q])

FInv == TypeOK /\ RowsInv /\ SessionsInv /\ CountersAgree /\ KarmaAccounted

-----------------------------------------------------------------------------
(* Counting rows.                                                          *)
Count(V, X) == Cardinality(V \cap X)

LEMMA CountType ==
  ASSUME NEW V, IsFiniteSet(V), NEW X
  PROVE  Count(V, X) \in Nat /\ IsFiniteSet(V \cap X)
<1>1. IsFiniteSet(V \cap X)
  BY FS_Subset
<1> QED BY <1>1, FS_CardinalityType DEF Count

LEMMA CountAdd ==
  ASSUME NEW V, IsFiniteSet(V), NEW X, NEW w, w \notin V
  PROVE  Count(V \cup {w}, X) = Count(V, X) + (IF w \in X THEN 1 ELSE 0)
<1>1. IsFiniteSet(V \cap X) /\ Count(V, X) \in Nat
  BY CountType
<1>2. CASE w \in X
  <2>1. (V \cup {w}) \cap X = (V \cap X) \cup {w}
    BY <1>2
  <2>2. w \notin V \cap X
    OBVIOUS
  <2>3. Cardinality((V \cap X) \cup {w}) = Cardinality(V \cap X) + 1
    BY <1>1, <2>2, FS_AddElement
  <2>4. Count(V \cup {w}, X) = Count(V, X) + 1
    BY <2>1, <2>3 DEF Count
  <2> QED BY <1>2, <2>4
<1>3. CASE w \notin X
  <2>1. (V \cup {w}) \cap X = V \cap X
    BY <1>3
  <2>2. Count(V \cup {w}, X) = Count(V, X)
    BY <2>1 DEF Count
  <2> QED BY <1>1, <1>3, <2>2
<1> QED BY <1>2, <1>3

LEMMA CountRemove ==
  ASSUME NEW V, IsFiniteSet(V), NEW X, NEW v \in V
  PROVE  Count(V \ {v}, X) = Count(V, X) - (IF v \in X THEN 1 ELSE 0)
<1>1. IsFiniteSet(V \cap X) /\ Count(V, X) \in Nat
  BY CountType
<1>2. CASE v \in X
  <2>1. (V \ {v}) \cap X = (V \cap X) \ {v}
    OBVIOUS
  <2>2. v \in V \cap X
    BY <1>2
  <2>3. Cardinality((V \cap X) \ {v}) = Cardinality(V \cap X) - 1
    BY <1>1, <2>2, FS_RemoveElement
  <2> QED BY <1>2, <2>1, <2>3 DEF Count
<1>3. CASE v \notin X
  <2>1. (V \ {v}) \cap X = V \cap X
    BY <1>3
  <2> QED BY <1>1, <1>3, <2>1 DEF Count
<1> QED BY <1>2, <1>3

-----------------------------------------------------------------------------
(* What a vote writes: a row more, a row less, or a row of the other type. *)
VoteWritten(r) ==
    \/ r.row = NoRow /\ \E w \in VoteRows :
          /\ w \notin votes /\ votes' = votes \cup {w} /\ w.id \in FreshIds
          /\ w.item = r.item /\ w.agent = r.agent /\ w.type = r.type
    \/ r.row # NoRow /\ r.was /\ \E v \in votes :
          v.id = r.row /\ votes' = votes \ {v}
    \/ /\ r.row # NoRow /\ r.was /\ votes' = votes
       /\ \A v \in votes : v.id # r.row
    \/ r.row # NoRow /\ ~ r.was /\ \E v \in votes, w \in VoteRows :
          /\ v.id = r.row /\ votes' = (votes \ {v}) \cup {w}
          /\ w = [v EXCEPT !.type = r.type]

LEMMA VoteIsWritten ==
  ASSUME FInv, NEW q \in Requests, req[q].op = "vote", ~ RowLost(req[q]),
         votes' \in VoteRowsAfter(req[q])
  PROVE  VoteWritten(req[q])
<1> DEFINE r == req[q]
<1>1. /\ r \in Sessions /\ r.item \in Items /\ r.agent \in Agents /\ votes \subseteq VoteRows
      /\ \A v, w \in votes : v.id = w.id => v = w
  BY DEF FInv, TypeOK, SessionsInv, VoteOK, RowsInv
<1>2. r.type \in VoteTypes
  BY <1>1 DEF Sessions
<1>3. CASE r.row = NoRow
  <2>1. PICK n \in FreshIds : votes' = votes \cup {[id |-> n, agent |-> r.agent, item |-> r.item,
                                                  type |-> r.type]}
    BY <1>3 DEF VoteRowsAfter
  <2> DEFINE w == [id |-> n, agent |-> r.agent, item |-> r.item, type |-> r.type]
  <2>2. n \in RowIds /\ \A v \in votes : v.id # n
    BY DEF FreshIds
  <2>3. w \in VoteRows /\ w.id = n /\ w.item = r.item /\ w.agent = r.agent /\ w.type = r.type
    BY <1>1, <1>2, <2>2 DEF VoteRows
  <2>4. w \notin votes
    BY <2>2, <2>3
  <2> QED BY <1>3, <2>1, <2>3, <2>4 DEF VoteWritten
<1>4. CASE r.row # NoRow /\ r.was
  <2>1. votes' = {v \in votes : v.id # r.row}
    BY <1>4 DEF VoteRowsAfter
  <2>2. CASE \E v \in votes : v.id = r.row
    <3>1. PICK v \in votes : v.id = r.row
      BY <2>2
    <3>2. votes' = votes \ {v}
      BY <1>1, <2>1, <3>1
    <3> QED BY <1>4, <3>1, <3>2 DEF VoteWritten
  <2>3. CASE \A v \in votes : v.id # r.row
    <3>1. votes' = votes
      BY <2>1, <2>3
    <3> QED BY <1>4, <2>3, <3>1 DEF VoteWritten
  <2> QED BY <2>2, <2>3
<1>5. CASE r.row # NoRow /\ ~ r.was
  <2>1. votes' = {IF v.id = r.row THEN [v EXCEPT !.type = r.type] ELSE v : v \in votes}
    BY <1>5 DEF VoteRowsAfter
  <2>2. PICK v \in votes : v.id = r.row
    BY <1>5 DEF RowLost
  <2> DEFINE w == [v EXCEPT !.type = r.type]
  <2>3. w \in VoteRows
    BY <1>1, <1>2, <2>2 DEF VoteRows
  <2>4. \A u \in votes : u.id = r.row <=> u = v
    BY <1>1, <2>2
  <2>5. votes' = (votes \ {v}) \cup {w}
    <3>1. \A u \in votes : (IF u.id = r.row THEN [u EXCEPT !.type = r.type] ELSE u)
                              = IF u = v THEN w ELSE u
      BY <2>4
    <3>2. votes' = {IF u = v THEN w ELSE u : u \in votes}
      BY <2>1, <3>1
    <3> HIDE DEF w
    <3> QED BY <3>2
  <2> QED BY <1>5, <2>2, <2>3, <2>5 DEF VoteWritten
<1> QED BY <1>3, <1>4, <1>5

(* The rows of the other items stay as they are.                           *)
LEMMA OthersUncounted ==
  ASSUME FInv, NEW q \in Requests, req[q].op = "vote", VoteWritten(req[q]),
         NEW X, \A u \in X : u.item # req[q].item
  PROVE  votes' \cap X = votes \cap X
<1> DEFINE r == req[q]
<1>1. \A v \in votes : v.id = r.row => v.item = r.item
  BY DEF FInv, SessionsInv, VoteOK
<1>2. votes \subseteq VoteRows
  BY DEF FInv, TypeOK
<1>3. ASSUME NEW w \in VoteRows, votes' = votes \cup {w}, w.item = r.item
      PROVE  votes' \cap X = votes \cap X
  BY <1>3
<1>4. ASSUME NEW v \in votes, v.id = r.row, votes' = votes \ {v}
      PROVE  votes' \cap X = votes \cap X
  BY <1>1, <1>4
<1>5. ASSUME NEW v \in votes, v.id = r.row, NEW w \in VoteRows,
             votes' = (votes \ {v}) \cup {w}, w = [v EXCEPT !.type = r.type]
      PROVE  votes' \cap X = votes \cap X
  <2>1. w.item = r.item /\ v.item = r.item
    BY <1>1, <1>2, <1>5 DEF VoteRows
  <2> QED BY <1>5, <2>1
<1> QED BY <1>3, <1>4, <1>5 DEF VoteWritten

(* What rows there are after a vote.                                       *)
LEMMA RowsAfterVote ==
  ASSUME FInv, NEW q \in Requests, req[q].op = "vote", VoteWritten(req[q])
  PROVE  /\ votes' \subseteq VoteRows /\ IsFiniteSet(votes')
         /\ \A v, w \in votes' : v.id = w.id => v = w
         /\ \A w \in votes' : \/ \E v \in votes : v.id = w.id /\ v.item = w.item /\ v.agent = w.agent
                              \/ /\ w.item = req[q].item /\ w.agent = req[q].agent
                                 /\ w.id \in FreshIds /\ req[q].row = NoRow
         /\ \A v, w \in votes' : (v.id \in FreshIds /\ w.id \in FreshIds) => v = w
<1> DEFINE r == req[q]
<1>0. votes \subseteq VoteRows /\ IsFiniteSet(votes) /\ \A v, w \in votes : v.id = w.id => v = w
  BY DEF FInv, TypeOK, RowsInv
<1>4. \A v \in votes : v.id \notin FreshIds
  BY DEF FreshIds
<1>1. ASSUME NEW w \in VoteRows, votes' = votes \cup {w}, w.id \in FreshIds,
             w.item = r.item, w.agent = r.agent, r.row = NoRow, w \notin votes
      PROVE  /\ votes' \subseteq VoteRows /\ IsFiniteSet(votes')
             /\ \A v, x \in votes' : v.id = x.id => v = x
             /\ \A x \in votes' : \/ \E v \in votes : v.id = x.id /\ v.item = x.item /\ v.agent = x.agent
                                  \/ /\ x.item = r.item /\ x.agent = r.agent
                                     /\ x.id \in FreshIds /\ r.row = NoRow
             /\ \A v, x \in votes' : (v.id \in FreshIds /\ x.id \in FreshIds) => v = x
  <2>1. \A v \in votes : v.id # w.id
    BY <1>1 DEF FreshIds
  <2>2. IsFiniteSet(votes \cup {w})
    BY <1>0, FS_AddElement
  <2> QED BY <1>0, <1>1, <1>4, <2>1, <2>2
<1>2. ASSUME NEW v \in votes, votes' = votes \ {v}
      PROVE  /\ votes' \subseteq VoteRows /\ IsFiniteSet(votes')
             /\ \A w, x \in votes' : w.id = x.id => w = x
             /\ \A x \in votes' : x \in votes
  <2>1. IsFiniteSet(votes \ {v})
    BY <1>0, FS_RemoveElement
  <2> QED BY <1>0, <1>2, <2>1
<1>3. ASSUME NEW v \in votes, NEW w \in VoteRows,
             votes' = (votes \ {v}) \cup {w}, w = [v EXCEPT !.type = r.type]
      PROVE  /\ votes' \subseteq VoteRows /\ IsFiniteSet(votes')
             /\ \A u, x \in votes' : u.id = x.id => u = x
             /\ \A x \in votes' : \E u \in votes : u.id = x.id /\ u.item = x.item /\ u.agent = x.agent
  <2>1. w.id = v.id /\ w.item = v.item /\ w.agent = v.agent
    BY <1>0, <1>3 DEF VoteRows
  <2>2. IsFiniteSet((votes \ {v}) \cup {w})
    BY <1>0, FS_RemoveElement, FS_AddElement
  <2>3. \A u \in votes \ {v} : u.id # w.id
    BY <1>0, <2>1
  <2> QED BY <1>0, <1>3, <2>1, <2>2, <2>3
<1> QED BY <1>0, <1>1, <1>2, <1>3, <1>4 DEF VoteWritten

(* The rows on the item are counted as the counters are stepped, when the  *)
(* row found is still what the session knows of it.                        *)
LEMMA VoteCounted ==
  ASSUME FInv, NEW q \in Requests, req[q].op = "vote", VoteWritten(req[q]), FoundRow(req[q]),
         NEW t \in VoteTypes, NEW X,
         \A u \in VoteRows : u.item = req[q].item => (u \in X <=> u.type = t)
  PROVE  Count(votes', X) = Count(votes, X) + (IF t = "upvote" THEN UpStep(req[q]) ELSE DownStep(req[q]))
<1> DEFINE r == req[q]
           step == IF t = "upvote" THEN UpStep(r) ELSE DownStep(r)
<1>0. /\ votes \subseteq VoteRows /\ IsFiniteSet(votes) /\ \A v, w \in votes : v.id = w.id => v = w
      /\ \A v \in votes : v.id = r.row => v.item = r.item
      /\ r \in Sessions
  BY DEF FInv, TypeOK, RowsInv, SessionsInv, VoteOK
<1>1. /\ t \in {"upvote", "downvote"} /\ r.type \in {"upvote", "downvote"} /\ r.was \in BOOLEAN
      /\ \A v \in votes : v.id \in RowIds /\ v.type \in {"upvote", "downvote"}
  BY <1>0 DEF VoteTypes, Sessions, VoteRows
<1>2. Count(votes, X) \in Nat
  BY <1>0, CountType
<1>3. CASE r.row = NoRow
  <2>1. PICK w \in VoteRows : w \notin votes /\ votes' = votes \cup {w} /\ w.item = r.item /\ w.type = r.type
    BY <1>3 DEF VoteWritten
  <2>2. Count(votes', X) = Count(votes, X) + (IF r.type = t THEN 1 ELSE 0)
    BY <1>0, <2>1, CountAdd
  <2>3. step = IF r.type = t THEN 1 ELSE 0
    BY <1>1, <1>3 DEF UpStep, DownStep
  <2> QED BY <2>2, <2>3
<1>4. CASE r.row # NoRow
  <2>1. PICK v \in votes : v.id = r.row /\ (r.was <=> v.type = r.type)
    BY <1>4 DEF FoundRow
  <2>2. v \in X <=> v.type = t
    BY <1>0, <2>1
  <2>3. CASE r.was
    <3>1. votes' = votes \ {v}
      BY <1>0, <1>4, <2>1, <2>3 DEF VoteWritten
    <3>2. Count(votes', X) = Count(votes, X) - (IF r.type = t THEN 1 ELSE 0)
      BY <1>0, <2>1, <2>2, <2>3, <3>1, CountRemove
    <3>3. step = IF r.type = t THEN -1 ELSE 0
      BY <1>1, <1>4, <2>3 DEF UpStep, DownStep
    <3> QED BY <1>2, <3>2, <3>3
  <2>4. CASE ~ r.was
    <3>1. PICK w \in VoteRows : votes' = (votes \ {v}) \cup {w} /\ w = [v EXCEPT !.type = r.type]
      BY <1>0, <1>4, <2>1, <2>4 DEF VoteWritten
    <3>2. w.item = r.item /\ w.type = r.type /\ w.id = v.id
      BY <1>0, <2>1, <3>1 DEF VoteRows
    <3>3. w \notin votes \ {v}
      BY <1>0, <3>2
    <3>4. IsFiniteSet(votes \ {v})
      BY <1>0, FS_RemoveElement
    <3>5. Count(votes', X) = Count(votes \ {v}, X) + (IF r.type = t THEN 1 ELSE 0)
      BY <3>1, <3>2, <3>3, <3>4, CountAdd
    <3>6. Count(votes \ {v}, X) = Count(votes, X) - (IF v.type = t THEN 1 ELSE 0)
      BY <1>0, <2>2, CountRemove
    <3>7. v.type # r.type
      BY <2>1, <2>4
    <3>8. step = (IF r.type = t THEN 1 ELSE 0) - (IF v.type = t THEN 1 ELSE 0)
      BY <1>1, <1>4, <2>4, <3>7 DEF UpStep, DownStep
    <3> QED BY <1>2, <3>5, <3>6, <3>8
  <2> QED BY <2>3, <2>4
<1> QED BY <1>3, <1>4

-----------------------------------------------------------------------------
(* Steps that change nothing but what one session has in hand.             *)

LEMMA IdleIsSession == /\ Idle \in Sessions /\ Idle.st = "idle" /\ Idle.op = "none"
                       /\ Idle.row = NoRow /\ Idle.rows = {} /\ Idle.was = FALSE
                       /\ Idle.itemOld = FALSE /\ Idle.karmaOld = FALSE
BY DEF Idle, Sessions, VoteTypes

LEMMA IdleIsOK == OpOK(Idle) /\ DeleteOK(Idle) /\ VoteOK(Idle)
BY IdleIsSession DEF OpOK, DeleteOK, VoteOK

LEMMA QuietStep ==
  ASSUME FInv, UNCHANGED <<items, votes, karma, oneVote, drifted, residue, overlaps>>,
         NEW q \in Requests, NEW s \in Sessions, Serve(q, s),
         OpOK(s), DeleteOK(s), VoteOK(s)
  PROVE  FInv'
<1>1. req \in [Requests -> Sessions]
  BY DEF FInv, TypeOK
<1>2. req' \in [Requests -> Sessions] /\ \A p \in Requests : req'[p] = IF p = q THEN s ELSE req[p]
  BY <1>1 DEF Serve
<1>3. TypeOK'
  BY <1>2 DEF FInv, TypeOK
<1>4. RowsInv'
  BY DEF FInv, RowsInv, Live, IsPost
<1>5. SessionsInv'
  <2> SUFFICES ASSUME NEW p \in Requests
               PROVE  OpOK(req[p])' /\ DeleteOK(req[p])' /\ VoteOK(req[p])'
    BY DEF SessionsInv
  <2> DEFINE x == IF p = q THEN s ELSE req[p]
  <2>1. OpOK(x) /\ DeleteOK(x) /\ VoteOK(x)
    BY DEF FInv, SessionsInv
  <2>2. req'[p] = x
    BY <1>2
  <2> HIDE DEF x
  <2>3. OpOK(req[p])'
    BY <2>1, <2>2 DEF OpOK
  <2>4. DeleteOK(req[p])'
    BY <2>1, <2>2 DEF DeleteOK, IsPost
  <2>5. VoteOK(req[p])'
    BY <2>1, <2>2 DEF VoteOK, KnowsItem, KnowsKarma, FoundRow, Live, IsPost
  <2> QED BY <2>3, <2>4, <2>5
<1>6. CountersAgree'
  BY DEF FInv, CountersAgree, Live, RowsOf
<1>7. KarmaAccounted'
  BY DEF FInv, KarmaAccounted, SumNet, RowsFor, IsPost
<1> QED BY <1>3, <1>4, <1>5, <1>6, <1>7 DEF FInv

LEMMA AnswerStep ==
  ASSUME FInv, NEW q \in Requests, Answer(q),
         UNCHANGED <<items, votes, karma, oneVote, drifted, residue, overlaps>>
  PROVE  FInv'
BY IdleIsSession, IdleIsOK, QuietStep DEF Answer

LEMMA VoteOpenStep ==
  ASSUME FInv, NEW q \in Requests, NEW a \in Agents, NEW i \in Items, NEW t \in VoteTypes,
         VoteOpen(q, a, i, t)
  PROVE  FInv'
<1> DEFINE s == [Idle EXCEPT !.st = "opened", !.op = "vote", !.agent = a,
                             !.item = i, !.type = t,
                             !.up = items[i].up, !.down = items[i].down]
<1>1. /\ Serve(q, s) /\ Live(i)
      /\ UNCHANGED <<items, votes, karma, oneVote, drifted, residue, overlaps>>
  BY DEF VoteOpen, data, history
<1>2. items[i] \in ItemRows /\ votes \subseteq VoteRows
  BY DEF FInv, TypeOK
<1>3. /\ s \in Sessions /\ s.st = "opened" /\ s.op = "vote" /\ s.item = i /\ s.agent = a /\ s.row = NoRow
      /\ s.up = items[i].up /\ s.down = items[i].down /\ ~ s.was
  BY <1>2, IdleIsSession DEF Sessions, ItemRows
<1> HIDE DEF s
<1>4. OpOK(s) /\ DeleteOK(s)
  BY <1>3 DEF OpOK, DeleteOK
<1>5. \A v \in votes : v.id # NoRow
  BY <1>2, NothingIsNone DEF VoteRows
<1>6. VoteOK(s)
  BY <1>1, <1>3, <1>5 DEF VoteOK, KnowsItem, KnowsKarma, Live
<1> QED BY <1>1, <1>3, <1>4, <1>6, QuietStep

LEMMA VoteFindStep ==
  ASSUME FInv, NEW q \in Requests, VoteFind(q)
  PROVE  FInv'
<1> DEFINE r == req[q]
           mine == {v \in votes : v.agent = r.agent /\ v.item = r.item}
<1>1. /\ UNCHANGED <<items, votes, karma, oneVote, drifted, residue, overlaps>>
      /\ r.st = "opened" /\ r \in Sessions /\ r.op = "vote"
      /\ VoteOK(r) /\ r.row = NoRow /\ ~ r.was
      /\ votes \subseteq VoteRows /\ \A v, w \in votes : v.id = w.id => v = w
  BY DEF VoteFind, FInv, TypeOK, SessionsInv, OpOK, VoteOK, data, history, RowsInv
<1>2. ASSUME NEW s \in Sessions, Serve(q, s), s.st = "found", s.op = "vote", s.item = r.item, s.agent = r.agent,
             s.up = r.up, s.down = r.down, s.itemOld = r.itemOld, FoundRow(s),
             s.row = NoRow => ~ s.was,
             \A v \in votes : v.id = s.row => (v.item = r.item /\ v.agent = r.agent)
      PROVE  FInv'
  <2>1. OpOK(s) /\ DeleteOK(s)
    BY <1>2 DEF OpOK, DeleteOK
  <2>2. VoteOK(s)
    BY <1>1, <1>2 DEF VoteOK, KnowsItem, KnowsKarma
  <2> QED BY <1>1, <1>2, <2>1, <2>2, QuietStep
<1>3. CASE mine = {} /\ Serve(q, [r EXCEPT !.st = "found"])
  <2> DEFINE s == [r EXCEPT !.st = "found"]
  <2>1. /\ s \in Sessions /\ s.st = "found" /\ s.op = "vote" /\ s.item = r.item /\ s.agent = r.agent
        /\ s.up = r.up /\ s.down = r.down /\ s.itemOld = r.itemOld /\ s.row = NoRow /\ ~ s.was
    BY <1>1 DEF Sessions
  <2>2. Serve(q, s)
    BY <1>3
  <2> HIDE DEF s
  <2>3. FoundRow(s)
    BY <1>3, <2>1 DEF FoundRow
  <2>4. \A v \in votes : v.id # NoRow
    BY <1>1, NothingIsNone DEF VoteRows
  <2> QED BY <1>2, <2>1, <2>2, <2>3, <2>4
<1>4. ASSUME NEW v \in mine, Serve(q, [r EXCEPT !.st = "found", !.row = v.id, !.was = v.type = r.type])
      PROVE  FInv'
  <2> DEFINE s == [r EXCEPT !.st = "found", !.row = v.id, !.was = v.type = r.type]
  <2>0. v \in votes /\ v.id \in RowIds /\ v.agent = r.agent /\ v.item = r.item
    BY <1>1 DEF VoteRows
  <2>1. /\ s \in Sessions /\ s.st = "found" /\ s.op = "vote" /\ s.item = r.item /\ s.agent = r.agent
        /\ s.up = r.up /\ s.down = r.down /\ s.itemOld = r.itemOld /\ s.row = v.id
        /\ s.was = (v.type = s.type)
    BY <1>1, <2>0 DEF Sessions
  <2>2. Serve(q, s)
    BY <1>4
  <2> HIDE DEF s
  <2>3. FoundRow(s)
    BY <2>0, <2>1 DEF FoundRow
  <2>4. \A u \in votes : u.id = s.row => (u.item = r.item /\ u.agent = r.agent)
    BY <1>1, <2>0, <2>1
  <2>5. s.row # NoRow
    BY <2>0, <2>1, NothingIsNone
  <2> QED BY <1>2, <2>1, <2>2, <2>3, <2>4, <2>5
<1>5. CASE Answer(q)
  BY <1>1, <1>5, AnswerStep
<1> QED BY <1>3, <1>4, <1>5 DEF VoteFind

LEMMA VoteRecheckStep ==
  ASSUME FInv, NEW q \in Requests, VoteRecheck(q)
  PROVE  FInv'
<1> DEFINE r == req[q]
           k == IF IsPost(r.item) THEN karma[items[r.item].author] ELSE 0
           s == [r EXCEPT !.st = "ready", !.karma = k]
<1>1. /\ UNCHANGED <<items, votes, karma, oneVote, drifted, residue, overlaps>>
      /\ r.st = "found" /\ r \in Sessions /\ r.op = "vote" /\ VoteOK(r)
  BY DEF VoteRecheck, FInv, TypeOK, SessionsInv, OpOK, data, history
<1>2. CASE Live(r.item)
  <2>1. Serve(q, s)
    BY <1>2 DEF VoteRecheck
  <2>2. items[r.item].author \in Agents /\ karma \in [Agents -> Int]
    BY <1>1, <1>2 DEF FInv, TypeOK, RowsInv, VoteOK
  <2>3. k \in Int
    BY <2>2
  <2>4. /\ s \in Sessions /\ s.st = "ready" /\ s.op = "vote" /\ s.item = r.item /\ s.agent = r.agent
        /\ s.up = r.up /\ s.down = r.down /\ s.itemOld = r.itemOld /\ s.row = r.row /\ s.was = r.was
        /\ s.type = r.type /\ s.karma = k
    <3> HIDE DEF k
    <3> QED BY <1>1, <2>3 DEF Sessions
  <2> HIDE DEF s
  <2>5. OpOK(s) /\ DeleteOK(s)
    BY <2>4 DEF OpOK, DeleteOK
  <2>6. KnowsItem(s)
    BY <1>1, <2>4 DEF VoteOK, KnowsItem, FoundRow
  <2>7. KnowsKarma(s)
    BY <2>4 DEF KnowsKarma
  <2>8. VoteOK(s)
    BY <1>1, <2>4, <2>6, <2>7 DEF VoteOK
  <2> QED BY <1>1, <2>1, <2>4, <2>5, <2>8, QuietStep
<1>3. CASE ~ Live(r.item)
  BY <1>1, <1>3, AnswerStep DEF VoteRecheck
<1> QED BY <1>2, <1>3

LEMMA CommentOpenStep ==
  ASSUME FInv, NEW q \in Requests, NEW a \in Agents, NEW p \in Items, NEW parent \in Items \cup {NoItem},
         CommentOpen(q, a, p, parent)
  PROVE  FInv'
<1> DEFINE s == [Idle EXCEPT !.st = "ready", !.op = "comment", !.agent = a,
                             !.item = p, !.loaded = {parent} \ {NoItem}]
<1>1. /\ Serve(q, s)
      /\ UNCHANGED <<items, votes, karma, oneVote, drifted, residue, overlaps>>
  BY DEF CommentOpen, data, history
<1>2. {parent} \ {NoItem} \in SUBSET Items
  OBVIOUS
<1>3. s \in Sessions /\ s.st = "ready" /\ s.op = "comment" /\ s.agent = a /\ s.item = p
  BY <1>2, IdleIsSession DEF Sessions
<1> HIDE DEF s
<1>4. OpOK(s) /\ DeleteOK(s) /\ VoteOK(s)
  BY <1>3 DEF OpOK, DeleteOK, VoteOK
<1> QED BY <1>1, <1>3, <1>4, QuietStep

(* A cascade goes through comments only.                                   *)
LEMMA CascadeLoads ==
  ASSUME FInv, NEW i \in Items, Live(i)
  PROVE  /\ Under(i) \subseteq Items /\ i \in Under(i)
         /\ \A c \in Under(i) : Live(c) /\ (c # i => ~ IsPost(c))
<1>1. Under(i) \subseteq Items /\ i \in Under(i)
  BY DEF Under
<1> DEFINE S == {i} \cup {c \in Items : items[c].kind = "comment"}
<1>2. S \in SUBSET Items /\ i \in S
  OBVIOUS
<1>3. \A x \in Items : (Live(x) /\ (items[x].parent \in S \/ items[x].post \in S)) => x \in S
  <2> SUFFICES ASSUME NEW x \in Items, Live(x), items[x].parent \in S \/ items[x].post \in S
               PROVE  x \in S
    OBVIOUS
  <2>1. CASE IsPost(x)
    <3>1. items[x].parent = NoItem /\ items[x].post = NoItem
      BY <2>1 DEF FInv, RowsInv
    <3> QED BY <1>2, <3>1, NothingIsNone
  <2>2. CASE ~ IsPost(x)
    BY <2>2 DEF Live, IsPost
  <2> QED BY <2>1, <2>2
<1> HIDE DEF S
<1>4. Under(i) \subseteq S
  BY <1>2, <1>3 DEF Under
<1> QED BY <1>1, <1>4 DEF S, Live, IsPost

LEMMA DeleteOpenStep ==
  ASSUME FInv, NEW q \in Requests, NEW a \in Agents, NEW i \in Items, DeleteOpen(q, a, i)
  PROVE  FInv'
<1> DEFINE s == [Idle EXCEPT !.st = "ready", !.op = "delete", !.agent = a,
                             !.item = i, !.loaded = Under(i), !.rows = Loaded(i)]
<1>1. /\ Serve(q, s) /\ Live(i)
      /\ UNCHANGED <<items, votes, karma, oneVote, drifted, residue, overlaps>>
  BY DEF DeleteOpen, data, history
<1>2. votes \subseteq VoteRows /\ \A v, w \in votes : v.id = w.id => v = w
  BY DEF FInv, TypeOK, RowsInv
<1>3. Loaded(i) \subseteq RowIds
  BY <1>2 DEF Loaded, VoteRows
<1>4. /\ s \in Sessions /\ s.st = "ready" /\ s.op = "delete" /\ s.item = i
      /\ s.loaded = Under(i) /\ s.rows = Loaded(i)
  BY <1>1, <1>3, CascadeLoads, IdleIsSession DEF Sessions
<1> HIDE DEF s
<1>5. OpOK(s) /\ VoteOK(s)
  BY <1>4 DEF OpOK, VoteOK
<1>6. \A v \in votes : v.id \in Loaded(i) => v.item \in Under(i)
  BY <1>2 DEF Loaded
<1>7. DeleteOK(s)
  BY <1>1, <1>4, <1>6, CascadeLoads DEF DeleteOK, Live
<1> QED BY <1>1, <1>4, <1>5, <1>7, QuietStep

-----------------------------------------------------------------------------
(* A new post or comment.                                                  *)
LEMMA CreatedStep ==
  ASSUME FInv, UNCHANGED <<votes, karma, oneVote, drifted, residue, overlaps>>,
         NEW i \in Items, items[i].kind = "free", NEW row \in ItemRows,
         items' = [items EXCEPT ![i] = row],
         row.kind \in {"post", "comment"}, row.author \in Agents, row.up = 0, row.down = 0,
         row.kind = "post" => (row.parent = NoItem /\ row.post = NoItem),
         req' \in [Requests -> Sessions],
         \A p \in Requests : req'[p] = req[p] \/ req'[p] = Idle
  PROVE  FInv'
<1>0. items \in [Items -> ItemRows] /\ votes \subseteq VoteRows
  BY DEF FInv, TypeOK
<1>1. items' \in [Items -> ItemRows] /\ \A j \in Items : items'[j] = IF j = i THEN row ELSE items[j]
  BY <1>0
<1>2. TypeOK'
  BY <1>1 DEF FInv, TypeOK
<1>3. \A v \in votes : v.item \in Items /\ v.item # i
  BY <1>0 DEF FInv, RowsInv, VoteRows
<1>4. RowsInv'
  BY <1>1, <1>3 DEF FInv, RowsInv, Live, IsPost
<1>5. SessionsInv'
  <2> SUFFICES ASSUME NEW p \in Requests
               PROVE  OpOK(req[p])' /\ DeleteOK(req[p])' /\ VoteOK(req[p])'
    BY DEF SessionsInv
  <2> DEFINE x == req'[p]
  <2>1. OpOK(x) /\ DeleteOK(x) /\ VoteOK(x) /\ x \in Sessions
    BY IdleIsOK DEF FInv, SessionsInv
  <2>3. OpOK(req[p])'
    BY <2>1 DEF OpOK
  <2>4. DeleteOK(req[p])'
    <3>1. \A j \in x.loaded : j \in Items
      BY <2>1 DEF Sessions
    <3>2. ASSUME x.op = "delete" PROVE \A j \in x.loaded : items'[j] = items[j]
      BY <1>1, <2>1, <3>1, <3>2 DEF DeleteOK
    <3> QED BY <2>1, <3>2 DEF DeleteOK, IsPost
  <2>5. VoteOK(req[p])'
    <3>1. ASSUME x.op = "vote" PROVE x.item \in Items /\ items'[x.item] = items[x.item]
      BY <1>1, <2>1, <3>1 DEF VoteOK
    <3> QED BY <2>1, <3>1 DEF VoteOK, KnowsItem, KnowsKarma, FoundRow, Live, IsPost
  <2> QED BY <2>3, <2>4, <2>5
<1>6. CountersAgree'
  <2> SUFFICES ASSUME NEW j \in Items \ drifted, Live(j)'
               PROVE  /\ items'[j].up = Cardinality(RowsOf(j, "upvote")')
                      /\ items'[j].down = Cardinality(RowsOf(j, "downvote")')
                      /\ \A v, w \in votes : (v.item = j /\ w.item = j /\ v.agent = w.agent) => v = w
    BY DEF CountersAgree
  <2>1. RowsOf(j, "upvote")' = RowsOf(j, "upvote") /\ RowsOf(j, "downvote")' = RowsOf(j, "downvote")
    BY DEF RowsOf
  <2>2. CASE j = i
    <3>1. RowsOf(j, "upvote") = {} /\ RowsOf(j, "downvote") = {}
      BY <1>3, <2>2 DEF RowsOf
    <3>2. items'[j].up = 0 /\ items'[j].down = 0
      BY <1>1, <2>2
    <3> QED BY <1>3, <2>1, <2>2, <3>1, <3>2, FS_EmptySet
  <2>3. CASE j # i
    BY <1>1, <2>1, <2>3 DEF FInv, CountersAgree, Live
  <2> QED BY <2>2, <2>3
<1>7. KarmaAccounted'
  <2>1. \A v \in votes : items'[v.item] = items[v.item]
    BY <1>1, <1>3
  <2>2. \A a \in Agents, t \in VoteTypes : RowsFor(a, t)' = RowsFor(a, t)
    BY <2>1 DEF RowsFor, IsPost
  <2>3. \A a \in Agents : SumNet(a)' = SumNet(a)
    BY <2>2 DEF SumNet, VoteTypes
  <2> QED BY <2>3 DEF FInv, KarmaAccounted
<1> QED BY <1>2, <1>4, <1>5, <1>6, <1>7 DEF FInv

LEMMA FreeItemIsRow == /\ FreeItem \in ItemRows /\ FreeItem.up = 0 /\ FreeItem.down = 0
                       /\ FreeItem.parent = NoItem /\ FreeItem.post = NoItem
BY DEF FreeItem, ItemRows, Kinds

LEMMA CreatePostStep ==
  ASSUME FInv, NEW a \in Agents, NEW i \in Items, CreatePost(a, i)
  PROVE  FInv'
<1> DEFINE row == [FreeItem EXCEPT !.kind = "post", !.author = a]
<1>1. /\ items[i].kind = "free" /\ items' = [items EXCEPT ![i] = row]
      /\ UNCHANGED <<votes, karma, oneVote, drifted, residue, overlaps>> /\ req' = req
  BY DEF CreatePost, history
<1>2. /\ row \in ItemRows /\ row.kind = "post" /\ row.author = a /\ row.up = 0 /\ row.down = 0
      /\ row.parent = NoItem /\ row.post = NoItem
  BY FreeItemIsRow DEF ItemRows, Kinds
<1> HIDE DEF row
<1>3. req' \in [Requests -> Sessions]
  BY <1>1 DEF FInv, TypeOK
<1> QED BY <1>1, <1>2, <1>3, CreatedStep

LEMMA CommentCommitStep ==
  ASSUME FInv, NEW q \in Requests, NEW i \in Items, CommentCommit(q, i)
  PROVE  FInv'
<1> DEFINE r == req[q]
           parent == IF r.loaded = {} THEN NoItem ELSE CHOOSE c \in r.loaded : TRUE
           row == [FreeItem EXCEPT !.kind = "comment", !.author = r.agent,
                                   !.post = r.item, !.parent = parent]
<1>1. /\ items[i].kind = "free" /\ items' = [items EXCEPT ![i] = row]
      /\ UNCHANGED <<votes, karma, oneVote, drifted, residue, overlaps>> /\ Serve(q, Idle)
      /\ r \in Sessions /\ r.agent \in Agents /\ r.item \in Items
  BY DEF CommentCommit, history, Answer, FInv, TypeOK, SessionsInv, OpOK
<1>2. parent \in Items \cup {NoItem}
  BY <1>1 DEF Sessions
<1>3. /\ row \in ItemRows /\ row.kind = "comment" /\ row.author = r.agent /\ row.up = 0 /\ row.down = 0
  <2> HIDE DEF parent
  <2> QED BY <1>1, <1>2, FreeItemIsRow DEF ItemRows, Kinds
<1> HIDE DEF row
<1>4. req \in [Requests -> Sessions]
  BY DEF FInv, TypeOK
<1>5. req' \in [Requests -> Sessions] /\ \A p \in Requests : req'[p] = req[p] \/ req'[p] = Idle
  BY <1>1, <1>4, IdleIsSession DEF Serve
<1> QED BY <1>1, <1>3, <1>5, CreatedStep

-----------------------------------------------------------------------------
(* The commit of a vote.                                                   *)

LEMMA StepsAreInt ==
  ASSUME NEW r
  PROVE  UpStep(r) \in Int /\ DownStep(r) \in Int /\ KarmaStep(r) \in Int
BY DEF UpStep, DownStep, KarmaStep

LEMMA ColumnIsInt ==
  ASSUME NEW now \in Int, NEW read \in Int, NEW step \in Int
  PROVE  Column(now, read, step) \in Int /\ (read = now => Column(now, read, step) = now + step)
BY DEF Column

(* Items keep all but their counters.                                      *)
LEMMA ItemsAfterVote ==
  ASSUME FInv, NEW q \in Requests, req[q].op = "vote", VoteWrite(q)
  PROVE  /\ items' \in [Items -> ItemRows]
         /\ \A j \in Items :
               /\ items'[j].kind = items[j].kind /\ items'[j].author = items[j].author
               /\ items'[j].post = items[j].post /\ items'[j].parent = items[j].parent
               /\ j # req[q].item => items'[j] = items[j]
         /\ LET i == req[q].item
            IN  /\ items'[i].up = Column(items[i].up, req[q].up, UpStep(req[q]))
                /\ items'[i].down = Column(items[i].down, req[q].down, DownStep(req[q]))
<1> DEFINE r == req[q]
           u == Column(items[r.item].up, r.up, UpStep(r))
           d == Column(items[r.item].down, r.down, DownStep(r))
           row == [items[r.item] EXCEPT !.up = u, !.down = d]
<1>1. items \in [Items -> ItemRows] /\ r \in Sessions /\ r.item \in Items
  BY DEF FInv, TypeOK, SessionsInv, VoteOK
<1>2. items[r.item] \in ItemRows /\ \A j \in Items : items[j] \in ItemRows
  BY <1>1
<1>3. u \in Int /\ d \in Int
  BY <1>1, <1>2, StepsAreInt, ColumnIsInt DEF ItemRows, Sessions
<1>4. items' = [items EXCEPT ![r.item] = row]
  BY <1>1 DEF VoteWrite
<1> HIDE DEF u, d
<1>5. /\ row \in ItemRows /\ row.kind = items[r.item].kind /\ row.author = items[r.item].author
      /\ row.post = items[r.item].post /\ row.parent = items[r.item].parent
      /\ row.up = u /\ row.down = d
  BY <1>2, <1>3 DEF ItemRows
<1> HIDE DEF row
<1>6. \A j \in Items : items'[j] = IF j = r.item THEN row ELSE items[j]
  BY <1>1, <1>4
<1> QED BY <1>1, <1>4, <1>5, <1>6 DEF u, d

(* The sessions after a write.                                             *)
LEMMA SessionsAfterWrite ==
  ASSUME FInv, NEW q \in Requests, NEW S, NEW T, Wrote(q, S, T)
  PROVE  /\ req' \in [Requests -> Sessions] /\ overlaps' \in 0..MaxOverlaps
         /\ req'[q] = Idle
         /\ \A p \in Requests \ {q} :
               /\ req'[p].st = req[p].st /\ req'[p].op = req[p].op /\ req'[p].agent = req[p].agent
               /\ req'[p].item = req[p].item /\ req'[p].type = req[p].type
               /\ req'[p].up = req[p].up /\ req'[p].down = req[p].down /\ req'[p].karma = req[p].karma
               /\ req'[p].row = req[p].row /\ req'[p].was = req[p].was
               /\ req'[p].loaded = req[p].loaded /\ req'[p].rows = req[p].rows
               /\ req'[p].itemOld = (req[p].itemOld \/ p \in S)
               /\ req'[p].karmaOld = (req[p].karmaOld \/ p \in T)
<1>1. /\ req' = [p \in Requests |-> IF p = q THEN Idle
                        ELSE [req[p] EXCEPT !.itemOld = @ \/ p \in S \ {q},
                                            !.karmaOld = @ \/ p \in T \ {q}]]
      /\ overlaps' = overlaps \/ (overlaps < MaxOverlaps /\ overlaps' = overlaps + 1)
  BY DEF Wrote, Overtake
<1>2. overlaps' \in 0..MaxOverlaps
  <2>1. overlaps \in 0..MaxOverlaps /\ MaxOverlaps \in Nat
    BY LimitsAreNat DEF FInv, TypeOK
  <2>2. overlaps' = overlaps \/ (overlaps < MaxOverlaps /\ overlaps' = overlaps + 1)
    BY <1>1
  <2> QED BY <2>1, <2>2
<1>3. req'[q] = Idle
  BY <1>1
<1>4. \A p \in Requests \ {q} :
        /\ req'[p] \in Sessions
        /\ req'[p].st = req[p].st /\ req'[p].op = req[p].op /\ req'[p].agent = req[p].agent
        /\ req'[p].item = req[p].item /\ req'[p].type = req[p].type
        /\ req'[p].up = req[p].up /\ req'[p].down = req[p].down /\ req'[p].karma = req[p].karma
        /\ req'[p].row = req[p].row /\ req'[p].was = req[p].was
        /\ req'[p].loaded = req[p].loaded /\ req'[p].rows = req[p].rows
        /\ req'[p].itemOld = (req[p].itemOld \/ p \in S)
        /\ req'[p].karmaOld = (req[p].karmaOld \/ p \in T)
  <2> TAKE p \in Requests \ {q}
  <2> DEFINE n == req'[p]
             x == req[p]
             io == x.itemOld \/ p \in S
             ko == x.karmaOld \/ p \in T
  <2>1. n = [x EXCEPT !.itemOld = io, !.karmaOld = ko] /\ io \in BOOLEAN /\ ko \in BOOLEAN
    BY <1>1
  <2>2. x \in Sessions
    BY DEF FInv, TypeOK
  <2> HIDE DEF x, n, io, ko
  <2>3. n \in Sessions
    BY <2>1, <2>2 DEF Sessions
  <2>4. n.itemOld = io /\ n.karmaOld = ko
    BY <2>1, <2>2 DEF Sessions
  <2>5. /\ n.st = x.st /\ n.op = x.op /\ n.agent = x.agent /\ n.item = x.item /\ n.type = x.type
        /\ n.up = x.up /\ n.down = x.down /\ n.karma = x.karma
        /\ n.row = x.row /\ n.was = x.was /\ n.loaded = x.loaded /\ n.rows = x.rows
    BY <2>1, <2>2 DEF Sessions
  <2> QED BY <2>3, <2>4, <2>5 DEF x, n, io, ko
<1>5. req' \in [Requests -> Sessions]
  <2>1. \A p \in Requests : req'[p] \in Sessions
    BY <1>3, <1>4, IdleIsSession
  <2> QED BY <1>1, <2>1
<1> QED BY <1>2, <1>3, <1>4, <1>5

(* What both kinds of vote leave, save for the karma.                      *)
LEMMA VoteEffects ==
  ASSUME FInv, NEW q \in Requests, req[q].st = "ready", req[q].op = "vote", ~ RowLost(req[q]),
         VoteWrite(q), NEW T, Wrote(q, VotersOn(req[q].item), T),
         drifted \subseteq drifted', req[q].itemOld => req[q].item \in drifted',
         \A p \in Requests \ {q} : req[p].op = "vote" => KnowsKarma(req[p])'
  PROVE  RowsInv' /\ SessionsInv' /\ CountersAgree'
<1> DEFINE r == req[q]
           i == req[q].item
<1>0. /\ VoteWritten(r) /\ votes \subseteq VoteRows /\ i \in Items
      /\ \A v, w \in votes : v.id = w.id => v = w
      /\ VoteOK(r) /\ r \in Sessions /\ items[i] \in ItemRows
  BY VoteIsWritten DEF VoteWrite, FInv, TypeOK, SessionsInv, VoteOK, RowsInv
<1>1. /\ votes' \subseteq VoteRows /\ IsFiniteSet(votes')
      /\ \A v, w \in votes' : v.id = w.id => v = w
      /\ \A w \in votes' : \/ \E v \in votes : v.id = w.id /\ v.item = w.item /\ v.agent = w.agent
                           \/ /\ w.item = i /\ w.agent = r.agent
                              /\ w.id \in FreshIds /\ r.row = NoRow
      /\ \A v, w \in votes' : (v.id \in FreshIds /\ w.id \in FreshIds) => v = w
  BY <1>0, RowsAfterVote
<1>2. \A j \in Items :
        /\ items'[j].kind = items[j].kind /\ items'[j].author = items[j].author
        /\ items'[j].post = items[j].post /\ items'[j].parent = items[j].parent
        /\ j # i => items'[j] = items[j]
  BY ItemsAfterVote
<1>3. RowsInv'
  <2>1. \A w \in votes' : items'[w.item].kind # "free"
    <3> SUFFICES ASSUME NEW w \in votes' PROVE items'[w.item].kind # "free"
      OBVIOUS
    <3>1. w.item \in Items
      BY <1>1 DEF VoteRows
    <3>2. items[w.item].kind # "free"
      BY <1>0, <1>1 DEF FInv, RowsInv, VoteOK
    <3> QED BY <1>2, <3>1, <3>2
  <2>2. \A j \in Items : Live(j)' => items'[j].author \in Agents
    BY <1>2 DEF FInv, RowsInv, Live
  <2>3. \A j \in Items : IsPost(j)' => (items'[j].parent = NoItem /\ items'[j].post = NoItem)
    BY <1>2 DEF FInv, RowsInv, IsPost
  <2> QED BY <1>1, <2>1, <2>2, <2>3 DEF RowsInv
<1>4. SessionsInv'
  <2> SUFFICES ASSUME NEW p \in Requests
               PROVE  OpOK(req[p])' /\ DeleteOK(req[p])' /\ VoteOK(req[p])'
    BY DEF SessionsInv
  <2>1. CASE p = q
    <3>1. req'[p] = Idle
      BY <2>1, SessionsAfterWrite
    <3> QED BY <3>1, IdleIsSession DEF OpOK, DeleteOK, VoteOK
  <2>2. CASE p # q
    <3> DEFINE s == req[p]
               n == req'[p]
    <3>1. /\ n.st = s.st /\ n.op = s.op /\ n.agent = s.agent
          /\ n.item = s.item /\ n.type = s.type
          /\ n.up = s.up /\ n.down = s.down
          /\ n.row = s.row /\ n.was = s.was
          /\ n.loaded = s.loaded /\ n.rows = s.rows
          /\ n.itemOld = (s.itemOld \/ p \in VotersOn(i))
      BY <2>2, SessionsAfterWrite
    <3>2. OpOK(s) /\ DeleteOK(s) /\ VoteOK(s) /\ s \in Sessions
      BY DEF FInv, TypeOK, SessionsInv
    <3>3. \A w \in votes' : w.id \in FreshIds => (w.id \notin s.rows /\ w.id # s.row)
      BY DEF FreshIds
    <3>4. OpOK(req[p])'
      BY <3>1, <3>2 DEF OpOK
    <3>5. DeleteOK(req[p])'
      <4> SUFFICES ASSUME s.op = "delete"
                   PROVE  /\ s.item \in s.loaded
                          /\ \A j \in s.loaded : items'[j].kind # "free"
                          /\ \A j \in s.loaded : j # s.item => ~ (items'[j].kind = "post")
                          /\ \A v \in votes' : v.id \in s.rows => v.item \in s.loaded
        BY <3>1 DEF DeleteOK, IsPost
      <4>1. s.loaded \subseteq Items
        BY <3>2 DEF Sessions
      <4>2. \A j \in s.loaded : items'[j].kind = items[j].kind
        BY <1>2, <4>1
      <4>3. \A v \in votes' : v.id \in s.rows => v.item \in s.loaded
        BY <1>1, <3>2, <3>3 DEF DeleteOK
      <4> QED BY <3>2, <4>2, <4>3 DEF DeleteOK, IsPost
    <3>6. VoteOK(req[p])'
      <4> SUFFICES ASSUME s.op = "vote" PROVE VoteOK(req[p])'
        BY <3>1 DEF VoteOK
      <4>1. s.item \in Items /\ items'[s.item].kind # "free"
        BY <1>2, <3>2 DEF VoteOK
      <4>2. \A v \in votes' : v.id = s.row => (v.item = s.item /\ v.agent = s.agent)
        BY <1>1, <3>2, <3>3 DEF VoteOK
      <4>3. KnowsItem(req[p])'
        <5> SUFFICES ASSUME ~ n.itemOld, n.item \notin drifted',
                            items'[n.item].kind \in {"post", "comment"}
                     PROVE  /\ n.up = items'[n.item].up /\ n.down = items'[n.item].down
                            /\ n.st # "opened" => FoundRow(req[p])'
          BY DEF KnowsItem, Live
        <5>1. s.item # i /\ ~ s.itemOld
          BY <3>1 DEF VotersOn
        <5>2. items'[s.item] = items[s.item] /\ s.item \notin drifted
          BY <1>2, <3>1, <4>1, <5>1
        <5>3. Live(s.item)
          BY <3>1, <5>2 DEF Live
        <5>4. /\ s.up = items[s.item].up /\ s.down = items[s.item].down
              /\ s.st # "opened" => FoundRow(s)
          BY <3>2, <5>1, <5>2, <5>3 DEF VoteOK, KnowsItem
        <5> DEFINE X == {u \in VoteRows : u.item = s.item}
        <5>5. votes' \cap X = votes \cap X
          <6>1. \A u \in X : u.item # i
            BY <5>1
          <6> HIDE DEF X
          <6> QED BY <1>0, <6>1, OthersUncounted
        <5>6. FoundRow(s) => FoundRow(req[p])'
          <6>1. \A v \in votes' : v.item = s.item => v \in votes
            BY <1>1, <5>5
          <6>2. \A v \in votes : v.item = s.item => v \in votes'
            BY <1>0, <5>5
          <6>3. \A v \in votes : v.id = s.row => v.item = s.item
            BY <3>2 DEF VoteOK
          <6>4. CASE s.row = NoRow /\ \A v \in votes : ~ (v.agent = s.agent /\ v.item = s.item)
            BY <3>1, <6>1, <6>4 DEF FoundRow
          <6>5. CASE \E v \in votes : v.id = s.row /\ (s.was <=> v.type = s.type)
            BY <3>1, <6>2, <6>3, <6>5 DEF FoundRow
          <6> QED BY <6>4, <6>5 DEF FoundRow
        <5> QED BY <3>1, <5>2, <5>4, <5>6
      <4>4. KnowsKarma(req[p])'
        BY <2>2
      <4> QED BY <3>1, <3>2, <4>1, <4>2, <4>3, <4>4 DEF VoteOK
    <3> QED BY <3>4, <3>5, <3>6
  <2> QED BY <2>1, <2>2
<1>5. CountersAgree'
  <2> SUFFICES ASSUME NEW j \in Items, j \notin drifted', Live(j)'
               PROVE  /\ items'[j].up = Cardinality(RowsOf(j, "upvote")')
                      /\ items'[j].down = Cardinality(RowsOf(j, "downvote")')
                      /\ \A v, w \in votes' : (v.item = j /\ w.item = j /\ v.agent = w.agent) => v = w
    BY DEF CountersAgree
  <2> DEFINE X(t) == {u \in VoteRows : u.item = j /\ u.type = t}
  <2>1. \A t : RowsOf(j, t) = votes \cap X(t) /\ RowsOf(j, t)' = votes' \cap X(t)
    BY <1>0, <1>1 DEF RowsOf
  <2>2. Live(j) /\ j \notin drifted
    BY <1>2 DEF Live
  <2>3. /\ items[j].up = Count(votes, X("upvote")) /\ items[j].down = Count(votes, X("downvote"))
        /\ \A v, w \in votes : (v.item = j /\ w.item = j /\ v.agent = w.agent) => v = w
    <3>1. /\ items[j].up = Cardinality(RowsOf(j, "upvote")) /\ items[j].down = Cardinality(RowsOf(j, "downvote"))
          /\ \A v, w \in votes : (v.item = j /\ w.item = j /\ v.agent = w.agent) => v = w
      BY <2>2 DEF FInv, CountersAgree
    <3>2. RowsOf(j, "upvote") = votes \cap X("upvote") /\ RowsOf(j, "downvote") = votes \cap X("downvote")
      BY <2>1
    <3> HIDE DEF X
    <3> QED BY <3>1, <3>2 DEF Count
  <2>4. CASE j = i
    <3>1. FoundRow(r) /\ r.up = items[i].up /\ r.down = items[i].down
      BY <1>0, <2>2, <2>4 DEF VoteOK, KnowsItem
    <3>2. /\ \A u \in VoteRows : u.item = i => (u \in X("upvote") <=> u.type = "upvote")
          /\ \A u \in VoteRows : u.item = i => (u \in X("downvote") <=> u.type = "downvote")
      BY <2>4
    <3> HIDE DEF X
    <3>3. /\ Count(votes', X("upvote")) = Count(votes, X("upvote")) + UpStep(r)
          /\ Count(votes', X("downvote")) = Count(votes, X("downvote")) + DownStep(r)
      BY <1>0, <3>1, <3>2, VoteCounted DEF VoteTypes
    <3>4. items[i].up \in Int /\ items[i].down \in Int
      BY <1>0 DEF ItemRows
    <3>5. /\ items'[i].up = Column(items[i].up, r.up, UpStep(r))
          /\ items'[i].down = Column(items[i].down, r.down, DownStep(r))
      BY ItemsAfterVote
    <3>6. items'[i].up = items[i].up + UpStep(r) /\ items'[i].down = items[i].down + DownStep(r)
      <4> DEFINE U == UpStep(r)
                 D == DownStep(r)
                 u == items[i].up
                 d == items[i].down
      <4>1. U \in Int /\ D \in Int /\ u \in Int /\ d \in Int
        BY <3>4, StepsAreInt
      <4>2. items'[i].up = Column(u, u, U) /\ items'[i].down = Column(d, d, D)
        BY <3>1, <3>5
      <4> HIDE DEF U, D, u, d
      <4>3. items'[i].up = u + U /\ items'[i].down = d + D
        BY <4>1, <4>2 DEF Column
      <4> QED BY <4>3 DEF U, D, u, d
    <3>7. ASSUME NEW v \in votes', NEW w \in votes', v.item = i, w.item = i, v.agent = w.agent
          PROVE  v = w
      <4>1. CASE /\ \E x \in votes : x.id = v.id /\ x.item = v.item /\ x.agent = v.agent
                 /\ \E x \in votes : x.id = w.id /\ x.item = w.item /\ x.agent = w.agent
        BY <1>1, <2>3, <2>4, <3>7, <4>1
      <4>2. CASE v.id \in FreshIds /\ w.id \in FreshIds
        BY <1>1, <4>2
      <4>3. ASSUME NEW x \in votes, x.item = i, x.agent = r.agent, r.row = NoRow
            PROVE  FALSE
        <5>1. \A y \in votes : y.id # NoRow
          BY <1>0, NothingIsNone DEF VoteRows
        <5> QED BY <3>1, <4>3, <5>1 DEF FoundRow
      <4> QED BY <1>1, <3>7, <4>1, <4>2, <4>3
    <3> QED BY <2>1, <2>3, <2>4, <3>3, <3>6, <3>7 DEF Count
  <2>5. CASE j # i
    <3>1. \A t : votes' \cap X(t) = votes \cap X(t)
      <4> SUFFICES ASSUME NEW t PROVE votes' \cap X(t) = votes \cap X(t)
        OBVIOUS
      <4>1. \A u \in X(t) : u.item # i
        BY <2>5
      <4> HIDE DEF X
      <4> QED BY <1>0, <4>1, OthersUncounted
    <3>2. items'[j] = items[j]
      BY <1>2, <2>5
    <3>3. ASSUME NEW v \in votes', NEW w \in votes', v.item = j, w.item = j, v.agent = w.agent
          PROVE  v = w
      <4>1. v \in X(v.type) /\ w \in X(w.type)
        BY <1>1, <3>3
      <4>2. v \in votes /\ w \in votes
        BY <3>1, <4>1
      <4> QED BY <2>3, <3>3, <4>2
    <3> QED BY <2>1, <2>3, <3>1, <3>2, <3>3 DEF Count
  <2> QED BY <2>4, <2>5
<1> QED BY <1>3, <1>4, <1>5

(* Votes for an author's posts, counted.                                   *)
LEMMA SumsCounted ==
  ASSUME FInv, NEW q \in Requests, req[q].op = "vote", VoteWrite(q), VoteWritten(req[q]),
         NEW a \in Agents
  PROVE  /\ SumNet(a) \in Int
         /\ ~ (IsPost(req[q].item) /\ items[req[q].item].author = a) => SumNet(a)' = SumNet(a)
         /\ (IsPost(req[q].item) /\ items[req[q].item].author = a /\ FoundRow(req[q])) =>
               SumNet(a)' = SumNet(a) + UpStep(req[q]) - DownStep(req[q])
<1> DEFINE r == req[q]
           i == req[q].item
           X(t) == {u \in VoteRows : (IsPost(u.item) /\ items[u.item].author = a) /\ u.type = t}
<1>1. votes \subseteq VoteRows /\ votes' \subseteq VoteRows /\ IsFiniteSet(votes)
  BY RowsAfterVote DEF FInv, TypeOK, RowsInv
<1>2. \A u \in VoteRows : u.item \in Items
  BY DEF VoteRows
<1>3. \A t : RowsFor(a, t) = votes \cap X(t) /\ RowsFor(a, t)' = votes' \cap X(t)
  <2>1. \A t : RowsFor(a, t) = votes \cap X(t)
    BY <1>1 DEF RowsFor
  <2>2. \A u \in VoteRows : /\ items'[u.item].kind = items[u.item].kind
                            /\ items'[u.item].author = items[u.item].author
    BY <1>2, ItemsAfterVote
  <2>3. \A t : RowsFor(a, t)' = votes' \cap X(t)
    BY <1>1, <2>2 DEF RowsFor, IsPost
  <2> QED BY <2>1, <2>3
<1>4. /\ SumNet(a) = Count(votes, X("upvote")) - Count(votes, X("downvote"))
      /\ SumNet(a)' = Count(votes', X("upvote")) - Count(votes', X("downvote"))
  BY <1>3 DEF SumNet, Count
<1>5. Count(votes, X("upvote")) \in Nat /\ Count(votes, X("downvote")) \in Nat
  BY <1>1, CountType
<1>6. ASSUME ~ (IsPost(i) /\ items[i].author = a) PROVE SumNet(a)' = SumNet(a)
  <2>1. \A t : \A u \in X(t) : u.item # i
    BY <1>6
  <2> HIDE DEF X
  <2>2. \A t : votes' \cap X(t) = votes \cap X(t)
    BY <2>1, OthersUncounted
  <2> QED BY <1>4, <2>2 DEF Count
<1>7. ASSUME IsPost(i) /\ items[i].author = a, FoundRow(r)
      PROVE  SumNet(a)' = SumNet(a) + UpStep(r) - DownStep(r)
  <2>1. \A t : \A u \in VoteRows : u.item = i => (u \in X(t) <=> u.type = t)
    BY <1>7
  <2> HIDE DEF X
  <2>2. /\ Count(votes', X("upvote")) = Count(votes, X("upvote")) + UpStep(r)
        /\ Count(votes', X("downvote")) = Count(votes, X("downvote")) + DownStep(r)
    BY <1>7, <2>1, VoteCounted DEF VoteTypes
  <2>3. UpStep(r) \in Int /\ DownStep(r) \in Int
    BY StepsAreInt
  <2> QED BY <1>4, <1>5, <2>2, <2>3
<1>8. SumNet(a) \in Int
  BY <1>4, <1>5
<1> QED BY <1>6, <1>7, <1>8

LEMMA PostVoteStep ==
  ASSUME FInv, NEW q \in Requests, PostVoteCommit(q)
  PROVE  FInv'
<1> DEFINE r == req[q]
           i == r.item
           b == items[i].author
           back == r.was /\ r.type = "downvote"
           k == Column(karma[b], r.karma, KarmaStep(r))
<1>1. /\ r.st = "ready" /\ r.op = "vote" /\ IsPost(i) /\ ~ RowLost(r) /\ VoteWrite(q)
      /\ karma' = [karma EXCEPT ![b] = k]
      /\ Wrote(q, VotersOn(i), ReadersOf(b))
      /\ drifted' = drifted \cup (IF r.itemOld THEN {i} ELSE {}) \cup (IF r.karmaOld THEN {b} ELSE {})
      /\ residue' = IF back THEN [residue EXCEPT ![b] = @ - 1] ELSE residue
      /\ oneVote' = oneVote
  BY DEF PostVoteCommit
<1>2. /\ r \in Sessions /\ i \in Items /\ b \in Agents /\ VoteOK(r) /\ VoteWritten(r)
      /\ karma \in [Agents -> Int] /\ residue \in [Agents -> Int]
  BY <1>1, VoteIsWritten DEF FInv, TypeOK, SessionsInv, VoteOK, RowsInv, Live, IsPost, VoteWrite
<1>3. k \in Int /\ karma' \in [Agents -> Int]
  <2>1. k \in Int
    BY <1>2, StepsAreInt, ColumnIsInt DEF Sessions
  <2> QED BY <1>1, <1>2, <2>1
<1>4. residue' \in [Agents -> Int]
  BY <1>1, <1>2
<1>5. drifted' \subseteq Items \cup Agents /\ drifted \subseteq drifted'
      /\ (r.itemOld => i \in drifted') /\ (r.karmaOld => b \in drifted')
  BY <1>1, <1>2 DEF FInv, TypeOK
<1>6. \A p \in Requests \ {q} : req[p].op = "vote" => KnowsKarma(req[p])'
  <2> SUFFICES ASSUME NEW p \in Requests \ {q}, req[p].op = "vote", req'[p].st = "ready", ~ req'[p].karmaOld,
                      items'[req'[p].item].kind = "post"
               PROVE  req'[p].karma = karma'[items'[req'[p].item].author]
    BY DEF KnowsKarma, IsPost
  <2>1. /\ req'[p].item = req[p].item /\ req'[p].karma = req[p].karma /\ req'[p].st = req[p].st
        /\ ~ req[p].karmaOld /\ p \notin ReadersOf(b)
    <3>1. /\ req'[p].item = req[p].item /\ req'[p].karma = req[p].karma /\ req'[p].st = req[p].st
          /\ req'[p].karmaOld = (req[p].karmaOld \/ p \in ReadersOf(b))
      BY <1>1, SessionsAfterWrite
    <3> QED BY <3>1
  <2>2. /\ items'[req[p].item].kind = items[req[p].item].kind
        /\ items'[req[p].item].author = items[req[p].item].author
        /\ req[p].item \in Items
    <3>1. req[p].item \in Items
      BY DEF FInv, SessionsInv, VoteOK
    <3> QED BY <1>1, <3>1, ItemsAfterVote
  <2>3. IsPost(req[p].item) /\ items[req[p].item].author # b
    BY <2>1, <2>2 DEF ReadersOf, IsPost
  <2>4. req[p].karma = karma[items[req[p].item].author]
    BY <2>1, <2>3 DEF FInv, SessionsInv, VoteOK, KnowsKarma
  <2>5. items[req[p].item].author \in Agents
    BY <2>2, <2>3 DEF FInv, RowsInv, Live, IsPost
  <2> QED BY <1>1, <1>2, <2>1, <2>2, <2>3, <2>4, <2>5
<1>7. RowsInv' /\ SessionsInv' /\ CountersAgree'
  BY <1>1, <1>5, <1>6, VoteEffects
<1>8. TypeOK'
  <2>1. items' \in [Items -> ItemRows]
    BY <1>1, ItemsAfterVote
  <2>2. votes' \subseteq VoteRows
    BY <1>1, <1>2, RowsAfterVote
  <2>3. req' \in [Requests -> Sessions] /\ overlaps' \in 0..MaxOverlaps
    BY <1>1, SessionsAfterWrite
  <2> QED BY <1>1, <1>3, <1>4, <1>5, <2>1, <2>2, <2>3 DEF FInv, TypeOK
<1>9. KarmaAccounted'
  <2> SUFFICES ASSUME NEW a \in Agents, a \notin drifted', drifted' \cap Items = {}
               PROVE  karma'[a] = SumNet(a)' + residue'[a]
    BY DEF KarmaAccounted
  <2>1. karma[a] = SumNet(a) + residue[a] /\ SumNet(a) \in Int
    BY <1>1, <1>2, <1>5, SumsCounted DEF FInv, KarmaAccounted
  <2>2. CASE a # b
    <3>1. SumNet(a)' = SumNet(a)
      BY <1>1, <1>2, <2>2, SumsCounted
    <3>2. karma'[a] = karma[a] /\ residue'[a] = residue[a]
      BY <1>1, <1>2, <2>2
    <3> QED BY <2>1, <3>1, <3>2
  <2>3. CASE a = b
    <3>1. ~ r.itemOld /\ i \notin drifted /\ ~ r.karmaOld
      BY <1>2, <1>5, <2>3
    <3>2. FoundRow(r) /\ r.karma = karma[b]
      BY <1>1, <1>2, <3>1 DEF VoteOK, KnowsItem, KnowsKarma, Live, IsPost
    <3>3. SumNet(a)' = SumNet(a) + UpStep(r) - DownStep(r)
      BY <1>1, <1>2, <2>3, <3>2, SumsCounted
    <3>4. karma'[a] = k /\ k = karma[a] + KarmaStep(r)
      BY <1>1, <1>2, <2>3, <3>2, StepsAreInt, ColumnIsInt
    <3>5. UpStep(r) \in Int /\ DownStep(r) \in Int
      BY StepsAreInt
    <3>6. CASE back
      <4>1. KarmaStep(r) = 0 /\ UpStep(r) = 0 /\ DownStep(r) = -1
        BY <1>1, <1>2, <3>6 DEF KarmaStep, UpStep, DownStep, VoteOK
      <4>2. residue'[a] = residue[a] - 1 /\ residue[a] \in Int
        BY <1>1, <1>2, <2>3, <3>6
      <4> QED BY <2>1, <3>3, <3>4, <4>1, <4>2
    <3>7. CASE ~ back
      <4>1. KarmaStep(r) = UpStep(r) - DownStep(r)
        BY <3>7 DEF KarmaStep
      <4>2. residue'[a] = residue[a] /\ residue[a] \in Int
        BY <1>1, <1>2, <3>7
      <4> QED BY <2>1, <3>3, <3>4, <3>5, <4>1, <4>2
    <3> QED BY <3>6, <3>7
  <2> QED BY <2>2, <2>3
<1> QED BY <1>7, <1>8, <1>9 DEF FInv

LEMMA CommentVoteStep ==
  ASSUME FInv, NEW q \in Requests, CommentVoteCommit(q)
  PROVE  FInv'
<1> DEFINE r == req[q]
           i == r.item
<1>1. /\ r.st = "ready" /\ r.op = "vote" /\ ~ IsPost(i) /\ ~ RowLost(r) /\ VoteWrite(q)
      /\ Wrote(q, VotersOn(i), {})
      /\ drifted' = drifted \cup (IF r.itemOld THEN {i} ELSE {})
      /\ UNCHANGED <<karma, oneVote, residue>>
  BY DEF CommentVoteCommit, IsPost
<1>2. /\ i \in Items /\ VoteWritten(r)
  BY <1>1, VoteIsWritten DEF FInv, SessionsInv, VoteOK, VoteWrite
<1>5. drifted' \subseteq Items \cup Agents /\ drifted \subseteq drifted' /\ (r.itemOld => i \in drifted')
  BY <1>1, <1>2 DEF FInv, TypeOK
<1>6. \A p \in Requests \ {q} : req[p].op = "vote" => KnowsKarma(req[p])'
  <2> SUFFICES ASSUME NEW p \in Requests \ {q}, req[p].op = "vote", req'[p].st = "ready", ~ req'[p].karmaOld,
                      items'[req'[p].item].kind = "post"
               PROVE  req'[p].karma = karma'[items'[req'[p].item].author]
    BY DEF KnowsKarma, IsPost
  <2>1. /\ req'[p].item = req[p].item /\ req'[p].karma = req[p].karma /\ req'[p].st = req[p].st
        /\ ~ req[p].karmaOld
    <3>1. /\ req'[p].item = req[p].item /\ req'[p].karma = req[p].karma /\ req'[p].st = req[p].st
          /\ req'[p].karmaOld = (req[p].karmaOld \/ p \in {})
      BY <1>1, SessionsAfterWrite
    <3> QED BY <3>1
  <2>2. req[p].item \in Items
    BY DEF FInv, SessionsInv, VoteOK
  <2>3. /\ items'[req[p].item].kind = items[req[p].item].kind
        /\ items'[req[p].item].author = items[req[p].item].author
    BY <1>1, <2>2, ItemsAfterVote
  <2>4. req[p].karma = karma[items[req[p].item].author]
    BY <2>1, <2>3 DEF FInv, SessionsInv, VoteOK, KnowsKarma, IsPost
  <2> QED BY <1>1, <2>1, <2>3, <2>4
<1>7. RowsInv' /\ SessionsInv' /\ CountersAgree'
  BY <1>1, <1>5, <1>6, VoteEffects
<1>8. TypeOK'
  <2>1. items' \in [Items -> ItemRows]
    BY <1>1, ItemsAfterVote
  <2>2. votes' \subseteq VoteRows
    BY <1>1, <1>2, RowsAfterVote
  <2>3. req' \in [Requests -> Sessions] /\ overlaps' \in 0..MaxOverlaps
    BY <1>1, SessionsAfterWrite
  <2> QED BY <1>1, <1>5, <2>1, <2>2, <2>3 DEF FInv, TypeOK
<1>9. KarmaAccounted'
  <2>1. \A a \in Agents : SumNet(a)' = SumNet(a)
    BY <1>1, <1>2, SumsCounted
  <2> QED BY <1>1, <1>5, <2>1 DEF FInv, KarmaAccounted
<1> QED BY <1>7, <1>8, <1>9 DEF FInv

-----------------------------------------------------------------------------
(* A deletion takes the rows of what it loaded, and no others.             *)
LEMMA DeleteCommitStep ==
  ASSUME FInv, NEW q \in Requests, DeleteCommit(q)
  PROVE  FInv'
<1> DEFINE r == req[q]
           i == r.item
           b == items[i].author
           gone == [FreeItem EXCEPT !.kind = "gone"]
<1>1. /\ r.st = "ready" /\ r.op = "delete"
      /\ residue' = IF IsPost(i) THEN [residue EXCEPT ![b] = @ + Net(i)] ELSE residue
      /\ items' = [j \in Items |-> IF j \in r.loaded THEN gone ELSE items[j]]
      /\ votes' = {v \in votes : v.id \notin r.rows}
      /\ Serve(q, Idle)
      /\ UNCHANGED <<karma, oneVote, drifted, overlaps>>
  BY DEF DeleteCommit, Answer
<1>2. /\ r \in Sessions /\ DeleteOK(r) /\ votes \subseteq VoteRows /\ IsFiniteSet(votes)
      /\ items \in [Items -> ItemRows] /\ residue \in [Agents -> Int] /\ req \in [Requests -> Sessions]
  BY DEF FInv, TypeOK, SessionsInv, RowsInv
<1>3. r.loaded \subseteq Items /\ i \in r.loaded /\ i \in Items
  BY <1>1, <1>2 DEF DeleteOK, Sessions
<1>4. gone \in ItemRows /\ gone.kind = "gone"
  BY FreeItemIsRow DEF ItemRows, Kinds
<1> HIDE DEF gone
<1>5. /\ items' \in [Items -> ItemRows]
      /\ \A j \in r.loaded : items'[j].kind = "gone"
      /\ \A j \in Items \ r.loaded : items'[j] = items[j]
  BY <1>1, <1>2, <1>3, <1>4
<1>6. /\ votes' \subseteq votes /\ IsFiniteSet(votes')
      /\ \A v \in votes : v.item \notin r.loaded => v \in votes'
  <2>1. votes' \subseteq votes
    BY <1>1
  <2>2. IsFiniteSet(votes')
    BY <1>2, <2>1, FS_Subset
  <2> QED BY <1>1, <1>2, <2>1, <2>2 DEF DeleteOK
<1>7. req' \in [Requests -> Sessions] /\ \A p \in Requests : req'[p] = IF p = q THEN Idle ELSE req[p]
  BY <1>1, <1>2, IdleIsSession DEF Serve
<1>8. \A j \in Items : Cardinality(RowsOf(j, "upvote")) \in Nat /\ Cardinality(RowsOf(j, "downvote")) \in Nat
                      /\ IsFiniteSet(RowsOf(j, "upvote")) /\ IsFiniteSet(RowsOf(j, "downvote"))
  <2> TAKE j \in Items
  <2>1. RowsOf(j, "upvote") \subseteq votes /\ RowsOf(j, "downvote") \subseteq votes
    BY DEF RowsOf
  <2> QED BY <1>2, <2>1, FS_Subset, FS_CardinalityType
<1>9. TypeOK'
  <2>1. Net(i) \in Int
    BY <1>3, <1>8 DEF Net
  <2>2. IsPost(i) => b \in Agents
    BY <1>3 DEF FInv, RowsInv, Live, IsPost
  <2>3. residue' \in [Agents -> Int]
    <3> HIDE DEF b
    <3>1. CASE IsPost(i)
      <4>1. residue[b] + Net(i) \in Int
        BY <1>2, <2>1, <2>2, <3>1
      <4>2. residue' = [residue EXCEPT ![b] = @ + Net(i)]
        BY <1>1, <3>1
      <4> QED BY <1>2, <4>1, <4>2
    <3>2. CASE ~ IsPost(i)
      BY <1>1, <1>2, <3>2
    <3> QED BY <3>1, <3>2
  <2> QED BY <1>1, <1>2, <1>5, <1>6, <1>7, <2>3 DEF FInv, TypeOK
<1>10. \A j \in Items :
         /\ IsPost(j)' => (j \notin r.loaded /\ IsPost(j))
         /\ Live(j)' => (j \notin r.loaded /\ Live(j))
  BY <1>5 DEF IsPost, Live
<1>11. RowsInv'
  <2>1. \A v \in votes' : items'[v.item].kind # "free"
    <3> SUFFICES ASSUME NEW v \in votes' PROVE items'[v.item].kind # "free"
      OBVIOUS
    <3>1. v.item \in Items /\ items[v.item].kind # "free"
      BY <1>2, <1>6 DEF FInv, RowsInv, VoteRows
    <3> QED BY <1>5, <3>1
  <2>2. \A v, w \in votes' : v.id = w.id => v = w
    BY <1>6 DEF FInv, RowsInv
  <2>3. \A j \in Items : Live(j)' => items'[j].author \in Agents
    BY <1>5, <1>10 DEF FInv, RowsInv
  <2>4. \A j \in Items : IsPost(j)' => (items'[j].parent = NoItem /\ items'[j].post = NoItem)
    BY <1>5, <1>10 DEF FInv, RowsInv
  <2> QED BY <1>6, <2>1, <2>2, <2>3, <2>4 DEF RowsInv
<1>12. SessionsInv'
  <2> SUFFICES ASSUME NEW p \in Requests
               PROVE  OpOK(req[p])' /\ DeleteOK(req[p])' /\ VoteOK(req[p])'
    BY DEF SessionsInv
  <2> DEFINE x == req'[p]
  <2>1. OpOK(x) /\ DeleteOK(x) /\ VoteOK(x) /\ x \in Sessions
    BY <1>7, IdleIsOK DEF FInv, TypeOK, SessionsInv
  <2>2. OpOK(req[p])'
    BY <2>1 DEF OpOK
  <2>3. DeleteOK(req[p])'
    <3> SUFFICES ASSUME x.op = "delete"
                 PROVE  /\ x.item \in x.loaded
                        /\ \A j \in x.loaded : items'[j].kind # "free"
                        /\ \A j \in x.loaded : j # x.item => ~ IsPost(j)'
                        /\ \A v \in votes' : v.id \in x.rows => v.item \in x.loaded
      BY DEF DeleteOK, IsPost
    <3>1. x.loaded \subseteq Items
      BY <2>1 DEF Sessions
    <3>2. \A j \in x.loaded : items'[j].kind # "free"
      BY <1>5, <2>1, <3>1 DEF DeleteOK
    <3>3. \A j \in x.loaded : j # x.item => ~ IsPost(j)'
      BY <1>10, <2>1, <3>1 DEF DeleteOK
    <3> QED BY <1>6, <2>1, <3>2, <3>3 DEF DeleteOK
  <2>4. VoteOK(req[p])'
    <3> SUFFICES ASSUME x.op = "vote" PROVE VoteOK(req[p])'
      BY DEF VoteOK
    <3>1. x.item \in Items /\ items'[x.item].kind # "free"
      BY <1>5, <2>1 DEF VoteOK
    <3>2. KnowsItem(req[p])'
      <4> SUFFICES ASSUME ~ x.itemOld, x.item \notin drifted, Live(x.item), x.item \notin r.loaded
                   PROVE  /\ x.up = items'[x.item].up /\ x.down = items'[x.item].down
                          /\ x.st # "opened" => FoundRow(req[p])'
        BY <1>1, <1>5, <3>1 DEF KnowsItem, Live
      <4>1. /\ x.up = items[x.item].up /\ x.down = items[x.item].down
            /\ x.st # "opened" => FoundRow(x)
        BY <2>1 DEF VoteOK, KnowsItem
      <4>2. FoundRow(x) => FoundRow(req[p])'
        <5>1. \A v \in votes : v.id = x.row => v.item = x.item
          BY <2>1 DEF VoteOK
        <5> QED BY <1>6, <5>1 DEF FoundRow
      <4> QED BY <1>5, <3>1, <4>1, <4>2
    <3>3. KnowsKarma(req[p])'
      BY <1>1, <1>5, <2>1, <3>1 DEF VoteOK, KnowsKarma, IsPost
    <3> QED BY <1>6, <2>1, <3>1, <3>2, <3>3 DEF VoteOK
  <2> QED BY <2>2, <2>3, <2>4
<1>13. CountersAgree'
  <2> SUFFICES ASSUME NEW j \in Items, j \notin drifted, Live(j)'
               PROVE  /\ items'[j].up = Cardinality(RowsOf(j, "upvote")')
                      /\ items'[j].down = Cardinality(RowsOf(j, "downvote")')
                      /\ \A v, w \in votes' : (v.item = j /\ w.item = j /\ v.agent = w.agent) => v = w
    BY <1>1 DEF CountersAgree
  <2>1. j \notin r.loaded /\ Live(j) /\ items'[j] = items[j]
    BY <1>5, <1>10
  <2>2. RowsOf(j, "upvote")' = RowsOf(j, "upvote") /\ RowsOf(j, "downvote")' = RowsOf(j, "downvote")
    BY <1>6, <2>1 DEF RowsOf
  <2> QED BY <1>6, <2>1, <2>2 DEF FInv, CountersAgree
<1>14. KarmaAccounted'
  <2> SUFFICES ASSUME NEW a \in Agents, a \notin drifted, drifted \cap Items = {}
               PROVE  karma[a] = SumNet(a)' + residue'[a]
    BY <1>1 DEF KarmaAccounted
  <2>1. karma[a] = SumNet(a) + residue[a]
    BY DEF FInv, KarmaAccounted
  <2>2. \A v \in votes : v.item \in Items
    BY <1>2 DEF VoteRows
  <2>3. \A j \in r.loaded : j # i => ~ IsPost(j)
    BY <1>1, <1>2 DEF DeleteOK
  <2>4. CASE ~ (IsPost(i) /\ a = b)
    <3>1. \A t : RowsFor(a, t)' = RowsFor(a, t)
      <4> SUFFICES ASSUME NEW t PROVE RowsFor(a, t)' = RowsFor(a, t)
        OBVIOUS
      <4>1. ASSUME NEW v \in RowsFor(a, t) PROVE v \in RowsFor(a, t)'
        <5>1. v \in votes /\ IsPost(v.item) /\ items[v.item].author = a /\ v.type = t
          BY DEF RowsFor
        <5>2. v.item \notin r.loaded
          BY <2>3, <2>4, <5>1
        <5>3. v \in votes' /\ items'[v.item] = items[v.item]
          BY <1>5, <1>6, <2>2, <5>1, <5>2
        <5> QED BY <5>1, <5>3 DEF RowsFor, IsPost
      <4>2. ASSUME NEW v \in RowsFor(a, t)' PROVE v \in RowsFor(a, t)
        <5>1. v \in votes' /\ IsPost(v.item)' /\ items'[v.item].author = a /\ v.type = t
          BY DEF RowsFor
        <5>2. v \in votes /\ v.item \in Items
          BY <1>6, <2>2, <5>1
        <5>3. IsPost(v.item) /\ items'[v.item] = items[v.item]
          BY <1>5, <1>10, <5>1, <5>2
        <5> QED BY <5>1, <5>2, <5>3 DEF RowsFor
      <4> QED BY <4>1, <4>2
    <3>2. SumNet(a)' = SumNet(a)
      BY <3>1 DEF SumNet
    <3>3. residue'[a] = residue[a]
      BY <1>1, <1>2, <2>4
    <3> QED BY <2>1, <3>2, <3>3
  <2>5. CASE IsPost(i) /\ a = b
    <3>1. ASSUME NEW t
          PROVE  /\ RowsFor(a, t) = RowsFor(a, t)' \cup RowsOf(i, t)
                 /\ RowsFor(a, t)' \cap RowsOf(i, t) = {}
      <4>1. ASSUME NEW v \in RowsFor(a, t), v.item # i PROVE v \in RowsFor(a, t)'
        <5>1. v \in votes /\ IsPost(v.item) /\ items[v.item].author = a /\ v.type = t
          BY DEF RowsFor
        <5>2. v.item \notin r.loaded
          BY <2>3, <4>1, <5>1
        <5>3. v \in votes' /\ items'[v.item] = items[v.item]
          BY <1>5, <1>6, <2>2, <5>1, <5>2
        <5> QED BY <5>1, <5>3 DEF RowsFor, IsPost
      <4>2. ASSUME NEW v \in RowsFor(a, t), v.item = i PROVE v \in RowsOf(i, t)
        BY <4>2 DEF RowsFor, RowsOf
      <4>3. ASSUME NEW v \in RowsFor(a, t)' PROVE v \in RowsFor(a, t) /\ v.item # i
        <5>1. v \in votes' /\ IsPost(v.item)' /\ items'[v.item].author = a /\ v.type = t
          BY DEF RowsFor
        <5>2. v \in votes /\ v.item \in Items
          BY <1>6, <2>2, <5>1
        <5>3. IsPost(v.item) /\ items'[v.item] = items[v.item] /\ v.item # i
          BY <1>3, <1>5, <1>10, <5>1, <5>2
        <5> QED BY <5>1, <5>2, <5>3 DEF RowsFor
      <4>4. ASSUME NEW v \in RowsOf(i, t) PROVE v \in RowsFor(a, t) /\ v.item = i
        BY <2>5 DEF RowsOf, RowsFor
      <4>5. RowsFor(a, t) \subseteq RowsFor(a, t)' \cup RowsOf(i, t)
        BY <4>1, <4>2
      <4>6. RowsFor(a, t)' \cup RowsOf(i, t) \subseteq RowsFor(a, t)
        BY <4>3, <4>4
      <4>7. RowsFor(a, t)' \cap RowsOf(i, t) = {}
        BY <4>3, <4>4
      <4> QED BY <4>5, <4>6, <4>7
    <3>2. ASSUME NEW t \in {"upvote", "downvote"}
          PROVE  /\ Cardinality(RowsFor(a, t)) = Cardinality(RowsFor(a, t)') + Cardinality(RowsOf(i, t))
                 /\ Cardinality(RowsFor(a, t)') \in Nat /\ Cardinality(RowsOf(i, t)) \in Nat
      <4> DEFINE A == RowsFor(a, t)'
                 B == RowsOf(i, t)
      <4>1. RowsFor(a, t) = A \cup B /\ A \cap B = {}
        BY <3>1
      <4>2. A \subseteq votes' /\ B \subseteq votes
        BY DEF RowsFor, RowsOf
      <4>3. IsFiniteSet(A) /\ IsFiniteSet(B)
        BY <1>2, <1>6, <4>2, FS_Subset
      <4> HIDE DEF A, B
      <4>4. Cardinality(A \cup B) = Cardinality(A) + Cardinality(B) - Cardinality(A \cap B)
        BY <4>3, FS_Union
      <4>5. Cardinality(A) \in Nat /\ Cardinality(B) \in Nat /\ Cardinality(A \cap B) = 0
        BY <4>1, <4>3, FS_CardinalityType, FS_EmptySet
      <4>6. Cardinality(A \cup B) = Cardinality(A) + Cardinality(B)
        BY <4>4, <4>5
      <4> QED BY <4>1, <4>5, <4>6 DEF A, B
    <3>3. SumNet(a) = SumNet(a)' + Net(i) /\ SumNet(a)' \in Int /\ Net(i) \in Int
      <4> DEFINE u == Cardinality(RowsFor(a, "upvote"))
                 d == Cardinality(RowsFor(a, "downvote"))
                 v == Cardinality(RowsFor(a, "upvote")')
                 e == Cardinality(RowsFor(a, "downvote")')
                 w == Cardinality(RowsOf(i, "upvote"))
                 f == Cardinality(RowsOf(i, "downvote"))
      <4>1. u = v + w /\ d = e + f /\ v \in Nat /\ e \in Nat /\ w \in Nat /\ f \in Nat
        BY <3>2
      <4>2. SumNet(a) = u - d /\ SumNet(a)' = v - e /\ Net(i) = w - f
        BY DEF SumNet, Net
      <4> HIDE DEF u, d, v, e, w, f
      <4> QED BY <4>1, <4>2
    <3>4. residue'[a] = residue[a] + Net(i) /\ residue[a] \in Int
      BY <1>1, <1>2, <2>5
    <3> QED BY <2>1, <3>3, <3>4
  <2> QED BY <2>4, <2>5
<1> QED BY <1>9, <1>11, <1>12, <1>13, <1>14 DEF FInv

-----------------------------------------------------------------------------
LEMMA InitFInv == Init => FInv
<1> SUFFICES ASSUME Init PROVE FInv
  OBVIOUS
<1>1. /\ votes = {} /\ karma = [a \in Agents |-> 0] /\ residue = [a \in Agents |-> 0]
      /\ items = [i \in Items |-> FreeItem] /\ req = [q \in Requests |-> Idle]
  BY DEF Init
<1>2. TypeOK
  BY FreeItemIsRow, IdleIsSession, LimitsAreNat DEF Init, TypeOK
<1>3. \A i \in Items : ~ Live(i) /\ ~ IsPost(i)
  BY <1>1 DEF Live, IsPost, FreeItem
<1>4. RowsInv
  BY <1>1, <1>3, FS_EmptySet DEF RowsInv
<1>5. SessionsInv
  BY <1>1, IdleIsOK DEF SessionsInv
<1>6. CountersAgree
  BY <1>3 DEF CountersAgree
<1>7. KarmaAccounted
  <2>1. \A a, t : RowsFor(a, t) = {}
    BY <1>1 DEF RowsFor
  <2>2. \A a : SumNet(a) = 0
    BY <2>1, FS_EmptySet DEF SumNet
  <2> QED BY <1>1, <2>2 DEF KarmaAccounted
<1> QED BY <1>2, <1>4, <1>5, <1>6, <1>7 DEF FInv

LEMMA StutterStep ==
  ASSUME FInv, UNCHANGED vars
  PROVE  FInv'
<1>1. UNCHANGED <<items, votes, karma, oneVote, drifted, residue, overlaps>> /\ req' = req
  BY DEF vars, data, history
<1>2. PICK q \in Requests : TRUE
  BY RequestsAssumption
<1>3. req \in [Requests -> Sessions]
  BY DEF FInv, TypeOK
<1>4. Serve(q, req[q])
  BY <1>1, <1>3 DEF Serve
<1>5. req[q] \in Sessions /\ OpOK(req[q]) /\ DeleteOK(req[q]) /\ VoteOK(req[q])
  BY <1>3 DEF FInv, SessionsInv
<1> QED BY <1>1, <1>4, <1>5, QuietStep

LEMMA Invariance == Spec => []FInv
<1>1. FInv /\ [Next]_vars => FInv'
  <2> SUFFICES ASSUME FInv, [Next]_vars PROVE FInv'
    OBVIOUS
  <2>1. ASSUME NEW q \in Requests, NEW a \in Agents, NEW i \in Items,
               \/ UpvotePost(q, a, i) \/ DownvotePost(q, a, i) \/ UpvoteComment(q, a, i)
        PROVE  FInv'
    BY <2>1, VoteOpenStep DEF UpvotePost, DownvotePost, UpvoteComment, VoteTypes
  <2>2. ASSUME NEW q \in Requests, NEW a \in Agents, NEW i \in Items,
               \/ \E parent \in Items \cup {NoItem} : CommentOpen(q, a, i, parent)
               \/ DeleteOpen(q, a, i)
        PROVE  FInv'
    BY <2>2, CommentOpenStep, DeleteOpenStep
  <2>3. ASSUME NEW q \in Requests,
               \/ VoteFind(q) \/ VoteRecheck(q)
               \/ PostVoteCommit(q) \/ CommentVoteCommit(q) \/ DeleteCommit(q)
               \/ \E i \in Items : CommentCommit(q, i)
        PROVE  FInv'
    BY <2>3, VoteFindStep, VoteRecheckStep, PostVoteStep, CommentVoteStep, DeleteCommitStep,
       CommentCommitStep
  <2>4. ASSUME NEW q \in Requests, VoteConflict(q) \/ Fail(q)
        PROVE  FInv'
    <3>1. Answer(q) /\ UNCHANGED <<items, votes, karma, oneVote, drifted, residue, overlaps>>
      BY <2>4 DEF VoteConflict, Fail, data, history
    <3> QED BY <3>1, AnswerStep
  <2>5. ASSUME NEW a \in Agents, NEW i \in Items, CreatePost(a, i)
        PROVE  FInv'
    BY <2>5, CreatePostStep
  <2>6. CASE UNCHANGED vars
    BY <2>6, StutterStep
  <2> QED BY <2>1, <2>2, <2>3, <2>4, <2>5, <2>6 DEF Next
<1> QED BY <1>1, InitFInv, PTL DEF Spec

(* The rows and the sessions keep their types.                             *)
THEOREM TypeCorrect == Spec => []TypeOK
<1>1. FInv => TypeOK
  BY DEF FInv
<1> QED BY <1>1, Invariance, PTL

(* Outside of votes written from overtaken reads (votes.py:31 has no lock) *)
(* the counters of an item are those of its vote rows, one per agent.      *)
THEOREM CountersAgreeWithRows == Spec => []CountersAgree
<1>1. FInv => CountersAgree
  BY DEF FInv
<1> QED BY <1>1, Invariance, PTL

(* The karma of an author is the votes on its posts and those that are     *)
(* gone without being taken off it: of posts deleted, and downvotes taken  *)
(* back (votes.py:45).                                                     *)
THEOREM KarmaIsAccounted == Spec => []KarmaAccounted
<1>1. FInv => KarmaAccounted
  BY DEF FInv
<1> QED BY <1>1, Invariance, PTL
=============================================================================
