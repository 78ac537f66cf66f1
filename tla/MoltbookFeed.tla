---------------------------- MODULE MoltbookFeed ----------------------------
(***************************************************************************)
(* The feed of the moltbook environment: posts and comments of one submolt, *)
(* their votes and the karma of their authors.  The handlers of             *)
(* api/votes.py, posts.py, comments.py run in a thread pool, each with a    *)
(* session of its own over one SQLite file.  A session reads in autocommit  *)
(* and writes when it commits: the rows it writes get the values computed   *)
(* from what it READ, whatever was committed in between, and only the       *)
(* columns that it changed are written.  An UPDATE of a row that is gone    *)
(* fails the whole commit, a DELETE of one only warns.                      *)
(***************************************************************************)
EXTENDS Integers, FiniteSets

CONSTANTS
    Agents,         \* registered agents
    Owner,          \* the agent that owns the submolt
    Items,          \* slots for posts and comments; a slot is used once
    RowIds,         \* ids of vote rows
    Requests,       \* threads of the pool
    DailyComments,  \* 50 in create_comment
    MaxOverlaps,    \* bound: writes that overtake what another session read
    MaxResidue,     \* bound: downvotes on one author's posts taken back
    NoAgent, NoItem, NoRow

ASSUME OwnerIsAgent == Owner \in Agents
ASSUME LimitsAreNat == /\ DailyComments \in Nat \ {0}
                       /\ MaxOverlaps \in Nat
                       /\ MaxResidue \in Nat
ASSUME RequestsAssumption == Requests # {} /\ IsFiniteSet(Requests)
ASSUME NothingIsNone == NoAgent \notin Agents /\ NoItem \notin Items /\ NoRow \notin RowIds

VARIABLES
    items,       \* rows of tables posts and comments
    votes,       \* rows of tables votes and comment_votes
    karma,       \* column karma of table agents
    oneVote,     \* feed.one_vote_per_post of the run's params
    req,         \* the request that each thread serves
    drifted,     \* history: items and authors voted on from overtaken reads
    residue,     \* history: votes that karma still counts, their rows gone
    overlaps     \* history: number of writes that overtook a session

data == <<items, votes, karma>>
history == <<drifted, residue, overlaps>>
vars == <<items, votes, karma, oneVote, req, history>>

Kinds == {"free", "post", "comment", "gone"}
VoteTypes == {"upvote", "downvote"}

ItemRows == [kind : Kinds, author : Agents \cup {NoAgent},
             post : Items \cup {NoItem}, parent : Items \cup {NoItem},
             up : Int, down : Int]
VoteRows == [id : RowIds, agent : Agents, item : Items, type : VoteTypes]
Sessions == [st : {"idle", "opened", "found", "ready"},
             op : {"none", "vote", "comment", "delete"},
             agent : Agents \cup {NoAgent}, item : Items \cup {NoItem},
             type : VoteTypes,
             up : Int, down : Int, karma : Int,   \* values read
             row : RowIds \cup {NoRow}, was : BOOLEAN,
             loaded : SUBSET Items, rows : SUBSET RowIds,
             itemOld : BOOLEAN, karmaOld : BOOLEAN]   \* overtaken since read

FreeItem == [kind |-> "free", author |-> NoAgent, post |-> NoItem,
             parent |-> NoItem, up |-> 0, down |-> 0]
Idle == [st |-> "idle", op |-> "none", agent |-> NoAgent, item |-> NoItem,
         type |-> "upvote", up |-> 0, down |-> 0, karma |-> 0, row |-> NoRow,
         was |-> FALSE, loaded |-> {}, rows |-> {},
         itemOld |-> FALSE, karmaOld |-> FALSE]

TypeOK == /\ items \in [Items -> ItemRows]
          /\ votes \subseteq VoteRows
          /\ karma \in [Agents -> Int]
          /\ oneVote \in BOOLEAN
          /\ req \in [Requests -> Sessions]
          /\ drifted \subseteq Items \cup Agents
          /\ residue \in [Agents -> Int]
          /\ overlaps \in 0..MaxOverlaps

Init == /\ items = [i \in Items |-> FreeItem]
        /\ votes = {}
        /\ karma = [a \in Agents |-> 0]
        /\ oneVote \in BOOLEAN
        /\ req = [q \in Requests |-> Idle]
        /\ drifted = {}
        /\ residue = [a \in Agents |-> 0]
        /\ overlaps = 0

-----------------------------------------------------------------------------
Live(i) == items[i].kind \in {"post", "comment"}
IsPost(i) == items[i].kind = "post"
RowsOf(i, t) == {v \in votes : v.item = i /\ v.type = t}
Net(i) == Cardinality(RowsOf(i, "upvote")) - Cardinality(RowsOf(i, "downvote"))
CommentsBy(a) == {i \in Items : items[i].kind = "comment" /\ items[i].author = a}

\* An id that no row has and no session remembers.
FreshIds == RowIds \ ({v.id : v \in votes} \cup {req[q].row : q \in Requests}
                      \cup UNION {req[q].rows : q \in Requests})

\* What the delete cascade loads with an item: the comments of a post, the
\* replies under a comment.
Under(i) == {c \in Items :
    \A S \in SUBSET Items :
       (/\ i \in S
        /\ \A x \in Items : (Live(x) /\ (items[x].parent \in S \/ items[x].post \in S))
                                => x \in S)
       => c \in S}

\* The sessions after q wrote: those in S had read what it wrote to, those in T
\* the karma it wrote.
Overtake(q, S, T) ==
    [p \in Requests |-> IF p = q THEN Idle
                        ELSE [req[p] EXCEPT !.itemOld = @ \/ p \in S,
                                            !.karmaOld = @ \/ p \in T]]
Fresh(S, T) == \E p \in Requests : \/ p \in S /\ ~req[p].itemOld
                                   \/ p \in T /\ ~req[p].karmaOld

Wrote(q, S, T) ==
    /\ req' = Overtake(q, S \ {q}, T \ {q})
    /\ IF Fresh(S \ {q}, T \ {q})
       THEN overlaps < MaxOverlaps /\ overlaps' = overlaps + 1
       ELSE overlaps' = overlaps

Serve(q, r) == req' = [req EXCEPT ![q] = r]
Answer(q) == Serve(q, Idle)

-----------------------------------------------------------------------------
(* Votes.  The item is read; an author may not vote on an item of its own.  *)
VoteOpen(q, a, i, t) ==
    /\ req[q].st = "idle"
    /\ Live(i)
    /\ items[i].author # a
    /\ Serve(q, [Idle EXCEPT !.st = "opened", !.op = "vote", !.agent = a,
                             !.item = i, !.type = t,
                             !.up = items[i].up, !.down = items[i].down])
    /\ UNCHANGED <<data, oneVote, history>>

UpvotePost(q, a, i) == IsPost(i) /\ VoteOpen(q, a, i, "upvote")
DownvotePost(q, a, i) == IsPost(i) /\ VoteOpen(q, a, i, "downvote")
UpvoteComment(q, a, i) == ~IsPost(i) /\ VoteOpen(q, a, i, "upvote")

OnePerPost(i) == oneVote /\ IsPost(i)

\* The voter's row is looked up; under the one-vote policy a post's voter who
\* has one is answered at once.
VoteFind(q) ==
    /\ req[q].st = "opened"
    /\ LET i == req[q].item
           mine == {v \in votes : v.agent = req[q].agent /\ v.item = i}
       IN  \/ /\ mine = {}
              /\ Serve(q, [req[q] EXCEPT !.st = "found"])
           \/ \E v \in mine :
                IF OnePerPost(i)
                THEN Answer(q)
                ELSE Serve(q, [req[q] EXCEPT !.st = "found", !.row = v.id,
                                             !.was = v.type = req[q].type])
    /\ UNCHANGED <<data, oneVote, history>>

\* The item is queried again (its values stay those first read) and the author
\* of a post is read; an item that is gone fails the request.
VoteRecheck(q) ==
    /\ req[q].st = "found"
    /\ IF Live(req[q].item)
       THEN Serve(q, [req[q] EXCEPT !.st = "ready",
                                    !.karma = IF IsPost(req[q].item)
                                              THEN karma[items[req[q].item].author]
                                              ELSE 0])
       ELSE Answer(q)
    /\ UNCHANGED <<data, oneVote, history>>

\* Change of the up and down counters: the vote is new, taken back (the row
\* found has the same type) or changed.
UpStep(r) == IF r.row = NoRow THEN (IF r.type = "upvote" THEN 1 ELSE 0)
             ELSE IF r.was THEN (IF r.type = "upvote" THEN -1 ELSE 0)
             ELSE (IF r.type = "upvote" THEN 1 ELSE -1)
DownStep(r) == IF r.row = NoRow THEN (IF r.type = "downvote" THEN 1 ELSE 0)
               ELSE IF r.was THEN (IF r.type = "downvote" THEN -1 ELSE 0)
               ELSE (IF r.type = "downvote" THEN 1 ELSE -1)

(* Mutants, here and below: what the operator that follows would be with a    *)
(* plausible bug.  No action uses them.                                       *)
KarmaStep_HalfChange(r) == UpStep(r) - (IF r.row # NoRow THEN 0 ELSE DownStep(r))

\* Taking back a downvote leaves the author's karma as it is.
KarmaStep(r) == IF r.was /\ r.type = "downvote" THEN 0
                ELSE UpStep(r) - DownStep(r)

VoteRowsAfter_KeepsTakenBack(r) ==
    IF r.row = NoRow
    THEN {votes \cup {[id |-> n, agent |-> r.agent, item |-> r.item,
                       type |-> r.type]} : n \in FreshIds}
    ELSE {{IF v.id = r.row THEN [v EXCEPT !.type = r.type] ELSE v : v \in votes}}

VoteRowsAfter(r) ==
    IF r.row = NoRow
    THEN {votes \cup {[id |-> n, agent |-> r.agent, item |-> r.item,
                       type |-> r.type]} : n \in FreshIds}
    ELSE IF r.was THEN {{v \in votes : v.id # r.row}}
    ELSE {{IF v.id = r.row THEN [v EXCEPT !.type = r.type] ELSE v : v \in votes}}

\* The row to be changed was deleted by another session.
RowLost(r) == r.row # NoRow /\ ~r.was /\ \A v \in votes : v.id # r.row

\* The sessions that have read item i, or the karma of b, to vote.
VotersOn(i) == {p \in Requests : req[p].op = "vote" /\ req[p].item = i}
ReadersOf(b) == {p \in Requests : /\ req[p].op = "vote" /\ req[p].st = "ready"
                                  /\ IsPost(req[p].item)
                                  /\ items[req[p].item].author = b}

\* A column that the request does not change is not in its UPDATE.
Column(now, read, step) == IF step = 0 THEN now ELSE read + step

\* db.commit of a vote: a counter gets what was read plus the step.
VoteWrite(q) ==
    LET r == req[q]
    IN  /\ votes' \in VoteRowsAfter(r)
        /\ items' = [items EXCEPT ![r.item].up = Column(@, r.up, UpStep(r)),
                                  ![r.item].down = Column(@, r.down, DownStep(r))]

\* A vote on a post writes the karma of its author in the same way.
PostVoteCommit(q) ==
    LET r == req[q]
        b == items[r.item].author
        back == r.was /\ r.type = "downvote"
    IN  /\ r.st = "ready" /\ r.op = "vote"
        /\ IsPost(r.item) /\ ~RowLost(r)
        /\ back => residue[b] > -MaxResidue
        /\ VoteWrite(q)
        /\ karma' = [karma EXCEPT ![b] = Column(@, r.karma, KarmaStep(r))]
        /\ Wrote(q, VotersOn(r.item), ReadersOf(b))
        /\ drifted' = drifted \cup (IF r.itemOld THEN {r.item} ELSE {})
                              \cup (IF r.karmaOld THEN {b} ELSE {})
        /\ residue' = IF back THEN [residue EXCEPT ![b] = @ - 1] ELSE residue
        /\ UNCHANGED oneVote

CommentVoteCommit(q) ==
    LET r == req[q]
    IN  /\ r.st = "ready" /\ r.op = "vote"
        /\ items[r.item].kind = "comment" /\ ~RowLost(r)
        /\ VoteWrite(q)
        /\ Wrote(q, VotersOn(r.item), {})
        /\ drifted' = drifted \cup (IF r.itemOld THEN {r.item} ELSE {})
        /\ UNCHANGED <<karma, oneVote, residue>>

\* The item, or the row to be changed, is gone: the commit fails as a whole.
VoteConflict(q) ==
    /\ req[q].st = "ready" /\ req[q].op = "vote"
    /\ ~Live(req[q].item) \/ RowLost(req[q])
    /\ Answer(q)
    /\ UNCHANGED <<data, oneVote, history>>

-----------------------------------------------------------------------------
(* Posts and comments.  The cooldowns of create_post and create_comment only *)
(* refuse a request, which then changes nothing.                             *)
CreatePost(a, i) ==
    /\ items[i].kind = "free"
    /\ items' = [items EXCEPT ![i] = [FreeItem EXCEPT !.kind = "post",
                                                      !.author = a]]
    /\ UNCHANGED <<votes, karma, oneVote, req, history>>

MayComment(a) == Cardinality(CommentsBy(a)) < DailyComments

CommentOpen(q, a, p, parent) ==
    /\ req[q].st = "idle"
    /\ MayComment(a)
    /\ IsPost(p)
    /\ \/ parent = NoItem
       \/ parent \in Items /\ items[parent].kind = "comment" /\ items[parent].post = p
    /\ Serve(q, [Idle EXCEPT !.st = "ready", !.op = "comment", !.agent = a,
                             !.item = p, !.loaded = {parent} \ {NoItem}])
    /\ UNCHANGED <<data, oneVote, history>>

\* No foreign key is enforced: the row is inserted, its post there or not.
CommentCommit(q, i) ==
    /\ req[q].st = "ready" /\ req[q].op = "comment"
    /\ items[i].kind = "free"
    /\ items' = [items EXCEPT ![i] =
         [FreeItem EXCEPT !.kind = "comment", !.author = req[q].agent,
                          !.post = req[q].item,
                          !.parent = IF req[q].loaded = {} THEN NoItem
                                     ELSE CHOOSE c \in req[q].loaded : TRUE]]
    /\ Answer(q)
    /\ UNCHANGED <<votes, karma, oneVote, history>>

\* The ids of the vote rows that the cascade loads.
Loaded(i) == {v.id : v \in {w \in votes : w.item \in Under(i)}}

\* delete_post, delete_comment: by the author or the owner of the submolt;
\* the owner's right to a comment is looked up through its post.
DeleteOpen(q, a, i) ==
    /\ req[q].st = "idle"
    /\ Live(i)
    /\ \/ a = items[i].author
       \/ a = Owner /\ (items[i].kind = "comment" => IsPost(items[i].post))
    /\ Serve(q, [Idle EXCEPT !.st = "ready", !.op = "delete", !.agent = a,
                             !.item = i, !.loaded = Under(i),
                             !.rows = Loaded(i)])
    /\ UNCHANGED <<data, oneVote, history>>

\* What was loaded is deleted.  The author of a post keeps its karma.
DeleteCommit(q) ==
    /\ req[q].st = "ready" /\ req[q].op = "delete"
    /\ LET i == req[q].item
           b == items[i].author
       IN  residue' = IF IsPost(i) THEN [residue EXCEPT ![b] = @ + Net(i)] ELSE residue
    /\ items' = [i \in Items |-> IF i \in req[q].loaded
                                 THEN [FreeItem EXCEPT !.kind = "gone"]
                                 ELSE items[i]]
    /\ votes' = {v \in votes : v.id \notin req[q].rows}
    /\ Answer(q)
    /\ UNCHANGED <<karma, oneVote, drifted, overlaps>>

-----------------------------------------------------------------------------
\* Any session may fail before it commits (the file is locked for too long, a
\* dependency raises): nothing of it is written and the answer is a 500.
Fail(q) ==
    /\ req[q].st # "idle"
    /\ Answer(q)
    /\ UNCHANGED <<data, oneVote, history>>

Next ==
    \/ \E q \in Requests, a \in Agents, i \in Items :
         \/ UpvotePost(q, a, i) \/ DownvotePost(q, a, i) \/ UpvoteComment(q, a, i)
         \/ \E parent \in Items \cup {NoItem} : CommentOpen(q, a, i, parent)
         \/ DeleteOpen(q, a, i)
    \/ \E q \in Requests :
         \/ VoteFind(q) \/ VoteRecheck(q)
         \/ PostVoteCommit(q) \/ CommentVoteCommit(q) \/ VoteConflict(q)
         \/ Fail(q) \/ DeleteCommit(q)
         \/ \E i \in Items : CommentCommit(q, i)
    \/ \E a \in Agents, i \in Items : CreatePost(a, i)

Spec == Init /\ [][Next]_vars

-----------------------------------------------------------------------------
(* The counters shown with an item are those of its vote rows, and no agent  *)
(* has two rows on it, unless a vote on the item was written from reads that *)
(* another vote had overtaken (get_or_create_vote has no lock and table      *)
(* votes no unique constraint).                                              *)
CountersAgree ==
    \A i \in Items \ drifted :
      Live(i) => /\ items[i].up = Cardinality(RowsOf(i, "upvote"))
                 /\ items[i].down = Cardinality(RowsOf(i, "downvote"))
                 /\ \A v, w \in votes : (v.item = i /\ w.item = i /\ v.agent = w.agent)
                                           => v = w

\* The votes on the posts of an author.
RowsFor(a, t) == {v \in votes : /\ IsPost(v.item) /\ items[v.item].author = a
                                /\ v.type = t}
SumNet(a) == Cardinality(RowsFor(a, "upvote")) - Cardinality(RowsFor(a, "downvote"))

(* An author's karma is the sum of the votes on its posts and of the votes   *)
(* that are gone without being taken off it: those of deleted posts, and     *)
(* downvotes taken back; again unless a write was overtaken.                 *)
KarmaAccounted ==
    \A a \in Agents : (a \notin drifted /\ drifted \cap Items = {})
                         => karma[a] = SumNet(a) + residue[a]

(* The author of posts of which none was deleted has the karma of their      *)
(* votes: "+1 for removing downvote" (votes.py:57).  Refuted: that one is    *)
(* given when the vote is changed, not when it is taken back.                *)
KarmaMatchesVotes ==
    \A a \in Agents :
       (drifted = {} /\ \A i \in Items : items[i].kind # "gone") => karma[a] = SumNet(a)
==============================================================================
