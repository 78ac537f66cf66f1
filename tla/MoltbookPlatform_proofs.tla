------------------------ MODULE MoltbookPlatform_proofs ------------------------
(***************************************************************************)
(* Theorems about the platform side of the moltbook environment, for any   *)
(* runs, agents, tokens, threads and policy of the gate.                   *)
(***************************************************************************)
EXTENDS MoltbookPlatform, CompassScoring, FiniteSetTheorems, WellFoundedInduction, TLAPS

-----------------------------------------------------------------------------
(* The inductive invariant: besides what is claimed, what a request has in *)
(* hand.  An init that found the row of its run can count on it.           *)
SessionInv ==
    \A q \in Requests :
        /\ req[q].st = "switching" => req[q].op \in {"init", "reset"} /\ req[q].run \in Runs
        /\ req[q].st = "ready" =>
              /\ req[q].op \in {"init", "register", "submit"}
              /\ req[q].db \in Databases
              /\ req[q].op \in {"init", "submit"} => req[q].run \in Runs
        /\ req[q].st = "written" => req[q].op = "register" /\ req[q].db \in Databases
        /\ req[q].st = "ready" /\ req[q].op = "init" /\ req[q].hadRow =>
              db[req[q].db].context[req[q].run].there

(* An init has the database of its run, or something switched the pointer. *)
InitsFollow ==
    \A q \in Requests :
        req[q].op = "init" =>
            /\ req[q].st = "switching" => active = req[q].run \/ req[q].run \in strayed
            /\ req[q].st = "ready" => req[q].db = req[q].run \/ req[q].run \in strayed

PInv == TypeOK /\ SessionInv /\ InitsFollow /\ ContextsAtHome /\ LastTokenWorks

-----------------------------------------------------------------------------
(* Least and greatest numbers.                                             *)

LEMMA NatMin ==
  ASSUME NEW T \in SUBSET Nat, T # {}
  PROVE  \E x \in T : \A y \in T : x <= y
<1> DEFINE R == OpToRel(<, Nat)
<1>1. IsWellFoundedOn(R, Nat)
  BY NatLessThanWellFounded
<1>2. \A x, y \in Nat : y < x => <<y, x>> \in R
  BY DEF OpToRel
<1> HIDE DEF R
<1>3. PICK x \in T : \A y \in T : ~ (<<y, x>> \in R)
  BY <1>1, WFMin
<1>4. \A y \in T : ~ (y < x)
  BY <1>2, <1>3
<1>5. \A y \in T : y \in Nat /\ x \in Nat
  OBVIOUS
<1> QED BY <1>4, <1>5

LEMMA NatMax ==
  ASSUME NEW T \in SUBSET Nat, T # {}, NEW n \in Nat, \A x \in T : x <= n
  PROVE  \E x \in T : \A y \in T : y <= x
<1> DEFINE U == {n - x : x \in T}
<1>6. \A x \in T : n - x \in Nat
  <2> TAKE x \in T
  <2>1. x \in Nat /\ x <= n
    OBVIOUS
  <2> QED BY <2>1
<1>1. U \in SUBSET Nat /\ U # {}
  BY <1>6, Zenon
<1>2. PICK u \in U : \A v \in U : u <= v
  BY <1>1, NatMin
<1>3. PICK x \in T : u = n - x
  OBVIOUS
<1>4. \A y \in T : n - x <= n - y
  BY <1>2, <1>3
<1>5. \A y \in T : y \in Nat /\ x \in Nat
  OBVIOUS
<1> QED BY <1>4, <1>5

-----------------------------------------------------------------------------
(* Induction over numbers and over the subsets of a finite set, the claim  *)
(* given as the set of what it holds of.                                   *)
LEMMA CountUp ==
  ASSUME NEW G, 0 \in G, \A n \in Nat : n \in G => n + 1 \in G
  PROVE  Nat \subseteq G
<1> DEFINE Bad == Nat \ G
<1> SUFFICES ASSUME Bad # {} PROVE FALSE
  OBVIOUS
<1>1. PICK m \in Bad : \A k \in Bad : m <= k
  BY NatMin
<1>2. m \in Nat /\ m # 0
  OBVIOUS
<1>3. m - 1 \in Nat /\ ~ (m <= m - 1)
  BY <1>2
<1>4. m - 1 \in G
  BY <1>1, <1>3
<1>5. (m - 1) + 1 \in G
  BY <1>3, <1>4
<1> QED BY <1>2, <1>5

LEMMA Subsets ==
  ASSUME NEW S, IsFiniteSet(S), NEW T \in SUBSET S
  PROVE  /\ IsFiniteSet(T) /\ Cardinality(T) \in Nat
         /\ Cardinality(T) = 0 <=> T = {}
         /\ \A x \in T : Cardinality(T \ {x}) = Cardinality(T) - 1
<1>1. IsFiniteSet(T)
  BY FS_Subset
<1>2. Cardinality(T) \in Nat
  BY <1>1, FS_CardinalityType
<1>3. Cardinality(T) = 0 <=> T = {}
  BY <1>1, FS_EmptySet
<1>4. ASSUME NEW x \in T
      PROVE  Cardinality(T \ {x}) = Cardinality(T) - 1
  BY <1>1, FS_RemoveElement
<1> QED BY <1>1, <1>2, <1>3, <1>4

LEMMA BuildUp ==
  ASSUME NEW S, IsFiniteSet(S), NEW G,
         {} \in G,
         \A T \in SUBSET S : \A x \in S \ T : T \in G => T \cup {x} \in G
  PROVE  \A T \in SUBSET S : T \in G
<1> DEFINE N == {n \in Nat : \A T \in SUBSET S : Cardinality(T) = n => T \in G}
<1>1. \A T \in SUBSET S : IsFiniteSet(T) /\ Cardinality(T) \in Nat
  BY Subsets
<1>2. 0 \in N
  BY Subsets
<1>3. ASSUME NEW n \in Nat, n \in N
      PROVE  n + 1 \in N
  <2> SUFFICES ASSUME NEW T \in SUBSET S, Cardinality(T) = n + 1
               PROVE  T \in G
    OBVIOUS
  <2>1. T # {}
    BY Subsets
  <2>2. PICK x \in T : TRUE
    BY <2>1
  <2>3. Cardinality(T \ {x}) = n
    BY Subsets
  <2>4. T \ {x} \in SUBSET S /\ x \in S \ (T \ {x}) /\ (T \ {x}) \cup {x} = T
    OBVIOUS
  <2>5. T \ {x} \in G
    BY <1>3, <2>3, <2>4
  <2> QED BY <2>4, <2>5
<1> HIDE DEF N
<1>4. Nat \subseteq N
  BY <1>2, <1>3, CountUp
<1> QED BY <1>1, <1>4 DEF N

-----------------------------------------------------------------------------
(* Sums over a finite set: MapThenSumSet takes the elements one by one, in *)
(* whatever order CHOOSE gives; any element can be taken off first.        *)
SumOf(f, S) == MapThenSumSet(LAMBDA x : f[x], S)
Pick(T) == CHOOSE x \in T : TRUE
Sums(h, f, S) ==
    h = [T \in SUBSET S |-> IF T = {} THEN 0 ELSE f[Pick(T)] + h[T \ {Pick(T)}]]

LEMMA PickIn == ASSUME NEW T, T # {} PROVE Pick(T) \in T
  BY DEF Pick

LEMMA SumIsIterated ==
  ASSUME NEW f, NEW S
  PROVE  SumOf(f, S) = (CHOOSE h : Sums(h, f, S))[S]
  BY DEF SumOf, MapThenSumSet, MapThenFoldSet, Sums, Pick

LEMMA SumsExist ==
  ASSUME NEW f, NEW S, IsFiniteSet(S)
  PROVE  \E h : Sums(h, f, S)
<1> DEFINE D(n) == {T \in SUBSET S : Cardinality(T) <= n}
           Part(h, n) == h = [T \in D(n) |-> IF T = {} THEN 0 ELSE f[Pick(T)] + h[T \ {Pick(T)}]]
           N == {n \in Nat : \E h : Part(h, n)}
<1>1. \A T \in SUBSET S : IsFiniteSet(T) /\ Cardinality(T) \in Nat
  BY Subsets
<1>2. 0 \in N
  <2>1. D(0) = {{}}
    BY Subsets
  <2>2. [T \in D(0) |-> IF T = {} THEN 0 ELSE f[Pick(T)] + [U \in D(0) |-> 0][T \ {Pick(T)}]]
          = [T \in D(0) |-> 0]
    BY <2>1
  <2>3. Part([T \in D(0) |-> 0], 0)
    BY <2>2, Zenon
  <2> QED BY <2>3
<1>3. ASSUME NEW n \in Nat, n \in N
      PROVE  n + 1 \in N
  <2>1. PICK h : Part(h, n)
    BY <1>3
  <2> DEFINE k == [T \in D(n + 1) |-> IF T = {} THEN 0 ELSE f[Pick(T)] + h[T \ {Pick(T)}]]
  <2>2. \A T \in D(n) : T \in D(n + 1)
    BY <1>1
  <2>3. \A T \in D(n) : k[T] = h[T]
    BY <2>1, <2>2
  <2>4. ASSUME NEW T \in D(n + 1), T # {}
        PROVE  T \ {Pick(T)} \in D(n)
    BY <2>4, PickIn, Subsets
  <2>5. \A T \in D(n + 1) : k[T] = IF T = {} THEN 0 ELSE f[Pick(T)] + k[T \ {Pick(T)}]
    BY <2>3, <2>4
  <2> HIDE DEF D
  <2>6. k = [T \in D(n + 1) |-> k[T]]
    OBVIOUS
  <2>7. [T \in D(n + 1) |-> k[T]] = [T \in D(n + 1) |-> IF T = {} THEN 0 ELSE f[Pick(T)] + k[T \ {Pick(T)}]]
    BY <2>5
  <2>8. Part(k, n + 1)
    BY <2>6, <2>7, Zenon
  <2> HIDE DEF k, Part
  <2> QED BY <2>8
<1>4. Cardinality(S) \in N
  <2> HIDE DEF N
  <2> QED BY <1>1, <1>2, <1>3, CountUp
<1>5. D(Cardinality(S)) = SUBSET S
  BY <1>1, FS_Subset
<1> QED BY <1>4, <1>5 DEF Sums

(* What h gives for every part of S is the sum over it.                    *)
SumTable(h, f, S) ==
    /\ h \in [SUBSET S -> Int]
    /\ h[{}] = 0
    /\ \A T \in SUBSET S : \A x \in S \ T : h[T \cup {x}] = f[x] + h[T]

LEMMA SumsUnfold ==
  ASSUME NEW f, NEW S, IsFiniteSet(S), f \in [S -> Int]
  PROVE  \E h : SumTable(h, f, S) /\ SumOf(f, S) = h[S]
<1> DEFINE h == CHOOSE g : Sums(g, f, S)
<1>1. Sums(h, f, S) /\ SumOf(f, S) = h[S]
  BY SumsExist, SumIsIterated
<1> HIDE DEF h
<1>2. h[{}] = 0 /\ \A T \in SUBSET S : T # {} => h[T] = f[Pick(T)] + h[T \ {Pick(T)}]
  BY <1>1 DEF Sums
<1>3. \A T \in SUBSET S : T # {} => Pick(T) \in T
  BY PickIn
(* By induction: a sum is a number, and any element can be taken off first. *)
<1> DEFINE G == {T \in SUBSET S : /\ h[T] \in Int
                                 /\ \A x \in T : h[T] = f[x] + h[T \ {x}]}
           N == {n \in Nat : \A T \in SUBSET S : Cardinality(T) <= n => T \in G}
<1>4. \A T \in SUBSET S : IsFiniteSet(T) /\ Cardinality(T) \in Nat
  BY Subsets
<1>5. 0 \in N
  <2> SUFFICES ASSUME NEW T \in SUBSET S, Cardinality(T) <= 0
               PROVE  T \in G
    OBVIOUS
  <2>1. T = {}
    BY Subsets
  <2> QED BY <1>2, <2>1
<1>6. ASSUME NEW n \in Nat, n \in N
      PROVE  n + 1 \in N
  <2> SUFFICES ASSUME NEW T \in SUBSET S, Cardinality(T) <= n + 1
               PROVE  T \in G
    OBVIOUS
  <2>0. T = {} => T \in G
    BY <1>2
  <2> SUFFICES ASSUME T # {}
               PROVE  T \in G
    BY <2>0
  <2> DEFINE y == Pick(T)
  <2>1. y \in T /\ f[y] \in Int /\ h[T] = f[y] + h[T \ {y}]
    BY <1>2, <1>3
  <2> HIDE DEF y
  <2>2. \A x \in T : T \ {x} \in SUBSET S /\ Cardinality(T \ {x}) <= n
    BY Subsets
  <2>3. \A x \in T : T \ {x} \in G
    BY <1>6, <2>2
  <2>4. h[T] \in Int
    BY <2>1, <2>3
  <2>5. ASSUME NEW x \in T, x # y
        PROVE  h[T] = f[x] + h[T \ {x}]
    <3>1. x \in T \ {y} /\ y \in T \ {x} /\ (T \ {y}) \ {x} = (T \ {x}) \ {y}
      BY <2>1, <2>5
    <3>2. h[T \ {y}] = f[x] + h[(T \ {y}) \ {x}] /\ h[T \ {x}] = f[y] + h[(T \ {x}) \ {y}]
      BY <2>1, <2>3, <3>1
    <3>3. (T \ {x}) \ {y} \in SUBSET S /\ Cardinality((T \ {x}) \ {y}) <= n
      <4>1. T \ {x} \in SUBSET S /\ IsFiniteSet(T \ {x}) /\ Cardinality(T \ {x}) \in Nat
        BY <1>4, <2>2
      <4>2. Cardinality((T \ {x}) \ {y}) <= Cardinality(T \ {x})
        BY <4>1, FS_Subset
      <4>3. Cardinality((T \ {x}) \ {y}) \in Nat
        BY <1>4
      <4> QED BY <2>2, <4>1, <4>2, <4>3
    <3>4. h[(T \ {x}) \ {y}] \in Int /\ f[x] \in Int
      BY <1>6, <3>3
    <3> DEFINE a == h[T]
               b == h[T \ {y}]
               c == h[T \ {x}]
               d == h[(T \ {x}) \ {y}]
    <3>5. a = f[y] + b /\ b = f[x] + d /\ c = f[y] + d
      BY <2>1, <3>1, <3>2
    <3>6. d \in Int /\ f[x] \in Int /\ f[y] \in Int
      BY <2>1, <3>4
    <3> HIDE DEF a, b, c, d
    <3>7. a = f[x] + c
      BY <3>5, <3>6
    <3> QED BY <3>7 DEF a, c
  <2> QED BY <2>1, <2>4, <2>5
<1>7. \A T \in SUBSET S : T \in G
  <2> HIDE DEF N
  <2>1. Nat \subseteq N
    BY <1>5, <1>6, CountUp
  <2> QED BY <1>4, <2>1 DEF N
<1>8. h \in [SUBSET S -> Int]
  <2>1. h = [T \in SUBSET S |-> h[T]]
    BY <1>1 DEF Sums
  <2> QED BY <1>7, <2>1
<1>9. ASSUME NEW T \in SUBSET S, NEW x \in S \ T
      PROVE  h[T \cup {x}] = f[x] + h[T]
  <2>1. T \cup {x} \in G /\ (T \cup {x}) \ {x} = T
    BY <1>7
  <2> QED BY <2>1
<1> QED BY <1>1, <1>2, <1>8, <1>9 DEF SumTable

-----------------------------------------------------------------------------
(* There is always a name that no other agent has.                         *)
LEMMA NameIsName ==
  ASSUME NEW S \in SUBSET Agents, NEW names, NEW a \in Agents
  PROVE  Name(S, names, a) \in Names
<1> DEFINE others == S \ {a}
           taken == {names[b] : b \in others}
           free == {n \in Names : \A b \in others : names[b] # n}
<1>1. Cardinality(Agents) \in Nat /\ IsFiniteSet(others)
  BY AgentsFinite, FS_CardinalityType, FS_Subset
<1>2. Cardinality(others) <= Cardinality(Agents) /\ Cardinality(others) \in Nat
  BY <1>1, AgentsFinite, FS_Subset, FS_CardinalityType
<1>3. IsFiniteSet(taken) /\ Cardinality(taken) <= Cardinality(others)
  <2> DEFINE f == [b \in others |-> names[b]]
  <2>1. f \in Surjection(others, taken)
    BY DEF Surjection
  <2> QED BY <1>1, <2>1, FS_Surjection
<1>4. Cardinality(taken) \in Nat
  BY <1>3, FS_CardinalityType
<1>5. IsFiniteSet(Names) /\ Cardinality(Names) = Cardinality(Agents) + 1
  BY <1>1, FS_Interval DEF Names
<1>6. free # {}
  <2> SUFFICES ASSUME free = {} PROVE FALSE
    OBVIOUS
  <2>1. Names \subseteq taken
    OBVIOUS
  <2>2. Cardinality(Names) <= Cardinality(taken)
    BY <1>3, <2>1, FS_Subset
  <2> HIDE DEF others, taken, free
  <2> QED BY <1>1, <1>2, <1>3, <1>4, <1>5, <2>2
<1>7. free \in SUBSET Nat
  BY <1>1 DEF Names
<1>8. \E x \in free : \A y \in free : x <= y
  BY <1>6, <1>7, NatMin
<1>9. Name(S, names, a) = CHOOSE x \in free : \A y \in free : x <= y
  BY DEF Name, Min
<1>10. Name(S, names, a) \in free
  BY <1>8, <1>9
<1> QED BY <1>10

-----------------------------------------------------------------------------
(* The pointer to the active run.                                          *)

LEMMA Served ==
  ASSUME req \in [Requests -> Sessions], NEW q \in Requests, NEW r \in Sessions, Serve(q, r)
  PROVE  req' \in [Requests -> Sessions] /\ \A p \in Requests : req'[p] = IF p = q THEN r ELSE req[p]
BY DEF Serve

LEMMA IdleIsSession == Idle \in Sessions /\ Idle.st = "idle" /\ Idle.op = "none"
<1>1. 0 \in Names
  BY AgentsFinite, FS_CardinalityType DEF Names
<1> QED BY <1>1 DEF Idle, Sessions

LEMMA Switched ==
  ASSUME PInv, NEW q, NEW d \in Databases, Activate(q, d)
  PROVE  /\ active' \in Databases
         /\ strayed \subseteq strayed' /\ strayed' \subseteq Runs
         /\ active' = d
         /\ \A p \in Requests \ {q} : req[p].op = "init" /\ req[p].st = "switching" =>
               active' = req[p].run \/ req[p].run \in strayed'
<1>1. Straying(q) \subseteq Runs
  BY DEF Straying, PInv, SessionInv
<1>2. CASE d = active
  BY <1>2 DEF Activate, PInv, TypeOK, InitsFollow
<1>3. CASE d # active
  BY <1>1, <1>3 DEF Activate, PInv, TypeOK, Straying
<1> QED BY <1>2, <1>3

(* Steps that change no row and no session but one, which holds no token.  *)
LEMMA PointerStep ==
  ASSUME PInv, UNCHANGED <<db, now, unused, told>>,
         NEW q, NEW d \in Databases, Activate(q, d),
         \/ q \notin Requests /\ UNCHANGED req
         \/ q \in Requests /\ req[q].st # "written" /\ \E r \in Sessions :
               /\ Serve(q, r)
               /\ \/ r = Idle
                  \/ r.st = "switching" /\ r.op \in {"init", "reset"} /\ r.run \in Runs
                     /\ (r.op = "init" => r.run = d)
  PROVE  PInv'
<1>1. /\ active' = d /\ strayed \subseteq strayed' /\ strayed' \subseteq Runs
      /\ \A p \in Requests \ {q} : req[p].op = "init" /\ req[p].st = "switching" =>
               active' = req[p].run \/ req[p].run \in strayed'
  BY Switched
<1>2. CASE q \notin Requests /\ UNCHANGED req
  <2>1. TypeOK'
    BY <1>1, <1>2 DEF PInv, TypeOK
  <2>2. SessionInv'
    BY <1>2 DEF PInv, SessionInv
  <2>3. InitsFollow'
    BY <1>1, <1>2 DEF PInv, InitsFollow
  <2>4. ContextsAtHome' /\ LastTokenWorks'
    BY <1>1, <1>2 DEF PInv, ContextsAtHome, LastTokenWorks
  <2> QED BY <2>1, <2>2, <2>3, <2>4 DEF PInv
<1>3. ASSUME q \in Requests, req[q].st # "written", NEW r \in Sessions, Serve(q, r),
             \/ r = Idle
             \/ r.st = "switching" /\ r.op \in {"init", "reset"} /\ r.run \in Runs
                /\ (r.op = "init" => r.run = d)
      PROVE  PInv'
  <2>1. req' \in [Requests -> Sessions] /\ \A p \in Requests : req'[p] = IF p = q THEN r ELSE req[p]
    BY <1>3, Served DEF PInv, TypeOK
  <2>2. TypeOK'
    BY <1>1, <2>1 DEF PInv, TypeOK
  <2>3. SessionInv'
    BY <1>3, <2>1, IdleIsSession DEF PInv, SessionInv
  <2>4. InitsFollow'
    <3> SUFFICES ASSUME NEW p \in Requests, req'[p].op = "init"
                 PROVE  /\ req'[p].st = "switching" => active' = req'[p].run \/ req'[p].run \in strayed'
                        /\ req'[p].st = "ready" => req'[p].db = req'[p].run \/ req'[p].run \in strayed'
      BY DEF InitsFollow
    <3>1. CASE p = q
      BY <1>1, <1>3, <2>1, <3>1, IdleIsSession
    <3>2. CASE p # q
      BY <1>1, <2>1, <3>2 DEF PInv, InitsFollow
    <3> QED BY <3>1, <3>2
  <2>5. ContextsAtHome'
    BY <1>1 DEF PInv, ContextsAtHome
  <2>6. LastTokenWorks'
    BY <1>3, <2>1 DEF PInv, LastTokenWorks
  <2> QED BY <2>2, <2>3, <2>4, <2>5, <2>6 DEF PInv
<1> QED BY <1>2, <1>3

LEMMA RunInitStep ==
  ASSUME PInv, NEW q \in Requests, NEW r \in Runs, RunInit(q, r) \/ RunReset(q, r) \/ ResetActivate(q)
  PROVE  PInv'
<1>0. Default \in Databases /\ r \in Databases
  BY DEF Databases
<1> DEFINE init == [Idle EXCEPT !.st = "switching", !.op = "init", !.run = r]
           reset == [Idle EXCEPT !.st = "switching", !.op = "reset", !.run = r]
<1>1. init \in Sessions /\ init.st = "switching" /\ init.op = "init" /\ init.run = r
  BY IdleIsSession DEF Sessions
<1>2. reset \in Sessions /\ reset.st = "switching" /\ reset.op = "reset" /\ reset.run = r
  BY IdleIsSession DEF Sessions
<1>3. CASE RunInit(q, r)
  <2>1. Serve(q, init) /\ Activate(q, r) /\ req[q].st = "idle" /\ UNCHANGED <<db, now, unused, told>>
    BY <1>3 DEF RunInit
  <2> HIDE DEF init
  <2> QED BY <1>0, <1>1, <2>1, PointerStep
<1>4. CASE RunReset(q, r)
  <2>1. Serve(q, reset) /\ Activate(q, Default) /\ req[q].st = "idle" /\ UNCHANGED <<db, now, unused, told>>
    BY <1>4 DEF RunReset
  <2> HIDE DEF reset
  <2> QED BY <1>0, <1>2, <2>1, PointerStep
<1>5. CASE ResetActivate(q)
  <2>1. Serve(q, Idle) /\ Activate(q, req[q].run) /\ req[q].st = "switching" /\ UNCHANGED <<db, now, unused, told>>
    BY <1>5 DEF ResetActivate, Answer
  <2>2. req[q].run \in Databases
    BY <2>1 DEF PInv, SessionInv, Databases
  <2> QED BY <2>1, <2>2, IdleIsSession, PointerStep
<1> QED BY <1>3, <1>4, <1>5

LEMMA RunStopStep == PInv /\ RunStop => PInv'
<1> SUFFICES ASSUME PInv, RunStop PROVE PInv'
  OBVIOUS
<1>1. Activate(NoRequest, Default) /\ UNCHANGED req /\ UNCHANGED <<db, now, unused, told>>
  BY DEF RunStop
<1>2. Default \in Databases /\ NoRequest \notin Requests
  BY NothingIsNone DEF Databases
<1> QED BY <1>1, <1>2, PointerStep

-----------------------------------------------------------------------------
(* Steps on the rows.                                                      *)

(* What a session has to be when a request is left with it.                *)
Sound(s) ==
    /\ s \in Sessions
    /\ \/ s = Idle
       \/ /\ s.st = "ready" /\ s.op \in {"init", "register", "submit"} /\ s.db \in Databases
          /\ s.op \in {"init", "submit"} => s.run \in Runs
          /\ s.op = "init" => /\ s.db = s.run \/ s.run \in strayed
                              /\ s.hadRow => db'[s.db].context[s.run].there
       \/ s.st = "written" /\ s.op = "register" /\ s.db \in Databases

LEMMA RowStep ==
  ASSUME PInv, NEW q \in Requests, NEW s, Serve(q, s), Sound(s),
         UNCHANGED <<active, now, strayed>>,
         db' \in [Databases -> DatabaseRows], unused' \subseteq Tokens,
         told' \in [Databases -> [Agents -> Tokens \cup {NoToken}]],
         \A d \in Databases, r \in Runs :
            /\ db[d].context[r].there => db'[d].context[r].there
            /\ db'[d].context[r].there =>
                  db[d].context[r].there \/ d = r \/ r \in strayed,
         LastTokenWorks'
  PROVE  PInv'
<1>1. req' \in [Requests -> Sessions] /\ \A p \in Requests : req'[p] = IF p = q THEN s ELSE req[p]
  BY Served DEF PInv, TypeOK, Sound
<1>2. TypeOK'
  BY <1>1 DEF PInv, TypeOK
<1>3. SessionInv'
  <2> SUFFICES ASSUME NEW p \in Requests
               PROVE  /\ req'[p].st = "switching" => req'[p].op \in {"init", "reset"} /\ req'[p].run \in Runs
                      /\ req'[p].st = "ready" =>
                            /\ req'[p].op \in {"init", "register", "submit"}
                            /\ req'[p].db \in Databases
                            /\ req'[p].op \in {"init", "submit"} => req'[p].run \in Runs
                      /\ req'[p].st = "written" => req'[p].op = "register" /\ req'[p].db \in Databases
                      /\ req'[p].st = "ready" /\ req'[p].op = "init" /\ req'[p].hadRow =>
                            db'[req'[p].db].context[req'[p].run].there
    BY DEF SessionInv
  <2>1. CASE p = q
    BY <1>1, <2>1, IdleIsSession DEF Sound
  <2>2. CASE p # q
    BY <1>1, <2>2 DEF PInv, SessionInv
  <2> QED BY <2>1, <2>2
<1>4. InitsFollow'
  <2> SUFFICES ASSUME NEW p \in Requests, req'[p].op = "init"
               PROVE  /\ req'[p].st = "switching" => active' = req'[p].run \/ req'[p].run \in strayed'
                      /\ req'[p].st = "ready" => req'[p].db = req'[p].run \/ req'[p].run \in strayed'
    BY DEF InitsFollow
  <2>1. CASE p = q
    BY <1>1, <2>1, IdleIsSession DEF Sound
  <2>2. CASE p # q
    BY <1>1, <2>2 DEF PInv, InitsFollow
  <2> QED BY <2>1, <2>2
<1>5. ContextsAtHome'
  BY DEF PInv, ContextsAtHome
<1> QED BY <1>2, <1>3, <1>4, <1>5 DEF PInv

(* Every client keeps a token that works while the tokens are left alone.  *)
LEMMA TokensKept ==
  ASSUME PInv, NEW q \in Requests, NEW s, Serve(q, s), s \in Sessions,
         req[q].st # "written", UNCHANGED told,
         \A d \in Databases, a \in Agents : db'[d].agents[a].token = db[d].agents[a].token
  PROVE  LastTokenWorks'
<1>1. \A p \in Requests : req'[p] = IF p = q THEN s ELSE req[p]
  BY Served DEF PInv, TypeOK
<1> SUFFICES ASSUME NEW d \in Databases, NEW a \in Agents
             PROVE  \/ told'[d][a] \in {NoToken, db'[d].agents[a].token}
                    \/ \E p \in Requests : req'[p].st = "written" /\ req'[p].db = d /\ a \in req'[p].agents
  BY DEF LastTokenWorks
<1>2. CASE told[d][a] \in {NoToken, db[d].agents[a].token}
  BY <1>2
<1>3. CASE \E p \in Requests : req[p].st = "written" /\ req[p].db = d /\ a \in req[p].agents
  BY <1>1, <1>3
<1> QED BY <1>2, <1>3 DEF PInv, LastTokenWorks

LEMMA InitOpenStep ==
  ASSUME PInv, NEW q \in Requests, InitOpen(q)
  PROVE  PInv'
<1> DEFINE s == [req[q] EXCEPT !.st = "ready", !.db = active,
                   !.hadRow = db[active].context[req[q].run].there]
<1>1. /\ Serve(q, s) /\ UNCHANGED <<active, db, now, history>>
      /\ req[q].st = "switching" /\ req[q].op = "init" /\ req[q] \in Sessions
  BY DEF InitOpen, PInv, TypeOK
<1>2. active \in Databases /\ req[q].run \in Runs
  BY <1>1 DEF PInv, TypeOK, SessionInv
<1>3. active = req[q].run \/ req[q].run \in strayed
  BY <1>1 DEF PInv, InitsFollow
<1>4. db[active].context[req[q].run].there \in BOOLEAN
  BY <1>2 DEF PInv, TypeOK, DatabaseRows, Contexts
<1>5. /\ s \in Sessions /\ s.st = "ready" /\ s.op = "init" /\ s.db = active /\ s.run = req[q].run
      /\ s.hadRow = db[active].context[req[q].run].there
  BY <1>1, <1>2, <1>4 DEF Sessions
<1>6. db' = db /\ told' = told /\ unused' = unused /\ UNCHANGED <<active, now, strayed>>
  BY <1>1 DEF history
<1> HIDE DEF s
<1>7. Sound(s)
  BY <1>2, <1>3, <1>5, <1>6 DEF Sound
<1>8. LastTokenWorks'
  BY <1>1, <1>5, <1>6, TokensKept
<1> QED BY <1>1, <1>6, <1>7, <1>8, RowStep DEF PInv, TypeOK

LEMMA InitCommitStep ==
  ASSUME PInv, NEW q \in Requests, InitCommit(q)
  PROVE  PInv'
<1> DEFINE s == req[q]
           c == [there |-> TRUE,
                 created |-> IF s.hadRow THEN db[s.db].context[s.run].created ELSE now]
           row == [db[s.db] EXCEPT !.context = [@ EXCEPT ![s.run] = c]]
<1>1. /\ Serve(q, Idle) /\ UNCHANGED <<active, now, unused, told, strayed>>
      /\ s.st = "ready" /\ s.op = "init" /\ s.db \in Databases /\ s.run \in Runs
  BY DEF InitCommit, Answer, history, PInv, SessionInv
<1>2. s.db = s.run \/ s.run \in strayed
  BY <1>1 DEF PInv, InitsFollow
<1>3. db' = db \/ db' = [db EXCEPT ![s.db] = row]
  BY DEF InitCommit
<1>4. Sound(Idle) /\ Idle \in Sessions
  BY IdleIsSession DEF Sound
<1>5. CASE db' = db
  <2>1. LastTokenWorks'
    BY <1>1, <1>4, <1>5, TokensKept
  <2> QED BY <1>1, <1>4, <1>5, <2>1, RowStep DEF PInv, TypeOK
<1>6. CASE db' = [db EXCEPT ![s.db] = row]
  <2>0. db \in [Databases -> DatabaseRows] /\ db[s.db] \in DatabaseRows /\ now \in Times
    BY <1>1 DEF PInv, TypeOK
  <2>1. c \in Contexts /\ c.there
    BY <1>1, <2>0 DEF Contexts, DatabaseRows
  <2>2. row \in DatabaseRows /\ row.agents = db[s.db].agents
        /\ row.context = [db[s.db].context EXCEPT ![s.run] = c]
    BY <2>0, <2>1, <1>1 DEF DatabaseRows
  <2>3. \A r \in Runs : row.context[r] = IF r = s.run THEN c ELSE db[s.db].context[r]
    BY <2>0, <2>2 DEF DatabaseRows
  <2> HIDE DEF row, c
  <2>4. db' \in [Databases -> DatabaseRows]
        /\ \A d \in Databases : db'[d] = IF d = s.db THEN row ELSE db[d]
    BY <2>0, <2>2, <1>1, <1>6
  <2>5. LastTokenWorks'
    BY <1>1, <1>4, <2>2, <2>4, TokensKept
  <2>6. \A d \in Databases, r \in Runs :
            /\ db[d].context[r].there => db'[d].context[r].there
            /\ db'[d].context[r].there =>
                  db[d].context[r].there \/ d = r \/ r \in strayed
    BY <1>2, <2>1, <2>3, <2>4
  <2> QED BY <1>1, <1>4, <2>4, <2>5, <2>6, RowStep DEF PInv, TypeOK
<1> QED BY <1>3, <1>5, <1>6

-----------------------------------------------------------------------------
(* A row that changes hands: nothing but its lock changes.                 *)
LEMMA LockStep ==
  ASSUME PInv, NEW q \in Requests, NEW s, Serve(q, s), Sound(s), req[q].st # "written",
         UNCHANGED <<active, now, unused, told, strayed>>,
         NEW d \in Databases, NEW w \in Requests \cup {NoRequest},
         \/ db' = db
         \/ db' = [db EXCEPT ![d].writer = w]
  PROVE  PInv'
<1>1. db \in [Databases -> DatabaseRows] /\ s \in Sessions
  BY DEF PInv, TypeOK, Sound
<1>2. \A e \in Databases : /\ db'[e] \in DatabaseRows
                            /\ db'[e].agents = db[e].agents /\ db'[e].context = db[e].context
  <2>1. CASE db' = db
    BY <1>1, <2>1
  <2>2. CASE db' = [db EXCEPT ![d].writer = w]
    <3>1. \A e \in Databases : db[e] \in DatabaseRows
      BY <1>1
    <3>2. \A e \in Databases : db'[e] = IF e = d THEN [db[e] EXCEPT !.writer = w] ELSE db[e]
      BY <1>1, <2>2
    <3> QED BY <3>1, <3>2 DEF DatabaseRows
  <2> QED BY <2>1, <2>2
<1>3. db' \in [Databases -> DatabaseRows]
  BY <1>1, <1>2
<1>4. LastTokenWorks'
  BY <1>1, <1>2, TokensKept
<1> QED BY <1>2, <1>3, <1>4, RowStep DEF PInv, TypeOK

LEMMA RegisterStep ==
  ASSUME PInv, NEW q \in Requests, NEW S \in SUBSET Agents, Register(q, S)
  PROVE  PInv'
<1> DEFINE there == {a \in Agents : Registered(active, a)}
           known == [a \in Agents |-> db[active].agents[a].name]
           name(first) == Name(there, known, first)
           flushed(first) == IF db[active].general THEN {} ELSE {first}
           view(first) == [known EXCEPT ![first] = IF flushed(first) = {} THEN @ ELSE name(first)]
           names(first) == [a \in Agents |-> IF a \in S
                              THEN Name(there \cup flushed(first), view(first), a) ELSE 0]
           s(first) == [Idle EXCEPT !.st = "ready", !.op = "register",
                          !.db = active, !.agents = S, !.seen = there \cap S,
                          !.hadRow = db[active].general, !.names = names(first)]
<1>1. PICK first \in S : Serve(q, s(first))
  BY DEF Register
<1>2. /\ req[q].st = "idle" /\ UNCHANGED <<active, now, unused, told, strayed>>
      /\ db' = db \/ db' = [db EXCEPT ![active].writer = q]
  BY DEF Register, history
<1>3. active \in Databases /\ db[active] \in DatabaseRows
  BY DEF PInv, TypeOK
<1>4. names(first) \in [Agents -> Names]
  <2>1. 0 \in Names
    BY AgentsFinite, FS_CardinalityType DEF Names
  <2>2. there \cup flushed(first) \in SUBSET Agents
    BY <1>1
  <2>3. \A a \in Agents : Name(there \cup flushed(first), view(first), a) \in Names
    BY <2>2, NameIsName
  <2> QED BY <2>1, <2>3
<1>5. db[active].general \in BOOLEAN /\ there \cap S \in SUBSET Agents
  BY <1>3 DEF DatabaseRows
<1> DEFINE t == s(first)
<1>6. t \in Sessions /\ t.st = "ready" /\ t.op = "register" /\ t.db = active
  <2> HIDE DEF names, there
  <2> QED BY <1>3, <1>4, <1>5, IdleIsSession DEF Sessions
<1>7. Serve(q, t)
  BY <1>1
<1> HIDE DEF t
<1>8. Sound(t)
  BY <1>3, <1>6 DEF Sound
<1> QED BY <1>2, <1>3, <1>7, <1>8, LockStep

LEMMA RegisterFailStep ==
  ASSUME PInv, NEW q \in Requests, RegisterFail(q)
  PROVE  PInv'
<1>1. /\ Serve(q, Idle) /\ req[q].st = "ready" /\ req[q].db \in Databases
      /\ UNCHANGED <<active, now, unused, told, strayed>>
      /\ db' = [db EXCEPT ![req[q].db].writer = Unlocked(req[q].db, q)]
  BY DEF RegisterFail, Answer, history, PInv, SessionInv
<1>2. Unlocked(req[q].db, q) \in Requests \cup {NoRequest}
  BY <1>1 DEF Unlocked, PInv, TypeOK, DatabaseRows
<1>3. Sound(Idle)
  BY IdleIsSession DEF Sound
<1> QED BY <1>1, <1>2, <1>3, LockStep

LEMMA SubmitStep ==
  ASSUME PInv, NEW q \in Requests, NEW r \in Runs, Submit(q, r)
  PROVE  PInv'
<1>1. PICK d \in Databases, a \in Agents :
        Serve(q, [Idle EXCEPT !.st = "ready", !.op = "submit", !.db = active,
                         !.run = r, !.agents = Principals(active, told[d][a])])
  BY DEF Submit
<1> DEFINE s == [Idle EXCEPT !.st = "ready", !.op = "submit", !.db = active,
                         !.run = r, !.agents = Principals(active, told[d][a])]
<1>2. req[q].st = "idle" /\ UNCHANGED <<active, db, now, unused, told, strayed>>
  BY DEF Submit, history
<1>3. Principals(active, told[d][a]) \subseteq Agents
  BY DEF Principals
<1>4. active \in Databases
  BY DEF PInv, TypeOK
<1>5. s \in Sessions /\ s.st = "ready" /\ s.op = "submit" /\ s.db = active /\ s.run = r
  BY <1>3, <1>4, IdleIsSession DEF Sessions
<1>6. Serve(q, s)
  BY <1>1
<1> HIDE DEF s
<1>7. Sound(s)
  BY <1>4, <1>5 DEF Sound
<1> QED BY <1>2, <1>4, <1>6, <1>7, LockStep

LEMMA SubmitCommitStep ==
  ASSUME PInv, NEW q \in Requests, SubmitCommit(q)
  PROVE  PInv'
<1> DEFINE d == req[q].db
<1>1. /\ Serve(q, Idle) /\ req[q].st = "ready" /\ req[q].op = "submit"
      /\ UNCHANGED <<active, now, unused, told, strayed>>
      /\ d \in Databases /\ req[q].run \in Runs
  BY DEF SubmitCommit, Answer, history, PInv, SessionInv
<1>2. PICK a \in req[q].agents, acc \in BOOLEAN, t \in Times :
        db' = [db EXCEPT ![d].subs = Append(@,
                  [run |-> req[q].run, agent |-> a, accepted |-> acc, at |-> t])]
  BY DEF SubmitCommit, SubmissionDb
<1> DEFINE x == [run |-> req[q].run, agent |-> a, accepted |-> acc, at |-> t]
<1>3. db \in [Databases -> DatabaseRows] /\ req[q] \in Sessions
  BY DEF PInv, TypeOK
<1>4. x \in Submissions
  BY <1>1, <1>2, <1>3 DEF Submissions, Sessions
<1> HIDE DEF x
<1>5. \A e \in Databases : db'[e] = IF e = d THEN [db[e] EXCEPT !.subs = Append(@, x)] ELSE db[e]
  BY <1>1, <1>2, <1>3 DEF x
<1>6. \A e \in Databases : /\ db'[e] \in DatabaseRows
                            /\ db'[e].agents = db[e].agents /\ db'[e].context = db[e].context
  <2>1. \A e \in Databases : db[e] \in DatabaseRows /\ Append(db[e].subs, x) \in Seq(Submissions)
    BY <1>3, <1>4 DEF DatabaseRows
  <2> QED BY <1>5, <2>1 DEF DatabaseRows
<1>7. db' \in [Databases -> DatabaseRows]
  <2>1. DOMAIN db' = Databases /\ db' = [e \in Databases |-> db'[e]]
    BY <1>2, <1>3
  <2> QED BY <1>6, <2>1
<1>8. Sound(Idle) /\ Idle \in Sessions
  BY IdleIsSession DEF Sound
<1>9. LastTokenWorks'
  BY <1>1, <1>6, <1>8, TokensKept
<1> QED BY <1>1, <1>6, <1>7, <1>8, <1>9, RowStep DEF PInv, TypeOK

-----------------------------------------------------------------------------
(* The commit of a registration, its answer, and what becomes of an answer *)
(* that is never given.                                                    *)
LEMMA RegisterCommitStep ==
  ASSUME PInv, NEW q \in Requests, RegisterCommit(q)
  PROVE  PInv'
<1> DEFINE d == req[q].db
           S == req[q].agents
<1>1. /\ req[q].st = "ready" /\ req[q].op = "register" /\ d \in Databases
      /\ UNCHANGED <<active, now, told, strayed>>
  BY DEF RegisterCommit, PInv, SessionInv
<1>2. PICK tok \in [S -> unused] :
        /\ unused' = unused \ {tok[a] : a \in S}
        /\ Serve(q, [Idle EXCEPT !.st = "written", !.op = "register",
                            !.db = d, !.agents = S,
                            !.tokens = [a \in Agents |-> IF a \in S THEN tok[a]
                                                         ELSE NoToken]])
        /\ db' = [db EXCEPT ![d].agents = [a \in Agents |->
                          IF a \notin S THEN @[a]
                          ELSE [token |-> tok[a], name |-> req[q].names[a]]],
                                 ![d].general = TRUE,
                                 ![d].writer = NoRequest]
  BY DEF RegisterCommit
<1> DEFINE tokens == [a \in Agents |-> IF a \in S THEN tok[a] ELSE NoToken]
           s == [Idle EXCEPT !.st = "written", !.op = "register", !.db = d,
                             !.agents = S, !.tokens = tokens]
           rows == [a \in Agents |-> IF a \notin S THEN db[d].agents[a]
                                     ELSE [token |-> tok[a], name |-> req[q].names[a]]]
           row == [db[d] EXCEPT !.agents = rows, !.general = TRUE, !.writer = NoRequest]
<1>3. req[q] \in Sessions /\ db \in [Databases -> DatabaseRows] /\ unused \subseteq Tokens
  BY DEF PInv, TypeOK
<1>4. S \in SUBSET Agents /\ req[q].names \in [Agents -> Names]
  BY <1>3 DEF Sessions
<1>5. \A a \in S : tok[a] \in Tokens
  BY <1>2, <1>3
<1>6. tokens \in [Agents -> Tokens \cup {NoToken}]
  BY <1>5
<1>7. s \in Sessions /\ s.st = "written" /\ s.op = "register" /\ s.db = d /\ s.agents = S
  <2> HIDE DEF tokens
  <2> QED BY <1>1, <1>4, <1>6, IdleIsSession DEF Sessions
<1>8. db[d] \in DatabaseRows
  BY <1>1, <1>3
<1>9. rows \in [Agents -> AgentRows]
  <2>1. db[d].agents \in [Agents -> AgentRows]
    BY <1>8 DEF DatabaseRows
  <2>2. ASSUME NEW a \in Agents PROVE rows[a] \in AgentRows
    <3>1. CASE a \in S
      BY <1>4, <1>5, <3>1 DEF AgentRows
    <3>2. CASE a \notin S
      BY <2>1, <3>2
    <3> QED BY <3>1, <3>2
  <2> QED BY <2>2
<1>10. /\ row \in DatabaseRows /\ row.context = db[d].context
       /\ row.agents = rows
  <2> HIDE DEF rows
  <2> QED BY <1>8, <1>9 DEF DatabaseRows
<1>11. db' = [db EXCEPT ![d] = row]
  BY <1>1, <1>2, <1>3
<1>12. Serve(q, s)
  BY <1>2
<1>13. \A a \in Agents \ S : rows[a] = db[d].agents[a]
  OBVIOUS
<1> HIDE DEF s, row, rows
<1>14. \A e \in Databases : db'[e] = IF e = d THEN row ELSE db[e]
  BY <1>3, <1>11
<1>15. db' \in [Databases -> DatabaseRows]
  BY <1>3, <1>10, <1>11
<1>16. Sound(s)
  BY <1>1, <1>7 DEF Sound
<1>17. req' \in [Requests -> Sessions] /\ \A p \in Requests : req'[p] = IF p = q THEN s ELSE req[p]
  BY <1>7, <1>12, Served DEF PInv, TypeOK
<1>18. LastTokenWorks'
  <2> SUFFICES ASSUME NEW e \in Databases, NEW a \in Agents
               PROVE  \/ told'[e][a] \in {NoToken, db'[e].agents[a].token}
                      \/ \E p \in Requests : req'[p].st = "written" /\ req'[p].db = e /\ a \in req'[p].agents
    BY DEF LastTokenWorks
  <2>1. CASE e = d /\ a \in S
    BY <1>7, <1>17, <2>1
  <2>2. CASE ~ (e = d /\ a \in S)
    <3>1. db'[e].agents[a] = db[e].agents[a]
      BY <1>10, <1>13, <1>14, <2>2
    <3>2. CASE told[e][a] \in {NoToken, db[e].agents[a].token}
      BY <1>1, <3>1, <3>2
    <3>3. CASE \E p \in Requests : req[p].st = "written" /\ req[p].db = e /\ a \in req[p].agents
      BY <1>1, <1>17, <3>3
    <3> QED BY <3>2, <3>3 DEF PInv, LastTokenWorks
  <2> QED BY <2>1, <2>2
<1>19. unused' \subseteq Tokens
  BY <1>2, <1>3
<1> QED BY <1>1, <1>10, <1>12, <1>14, <1>15, <1>16, <1>18, <1>19, RowStep DEF PInv, TypeOK

LEMMA RegisterReplyStep ==
  ASSUME PInv, NEW q \in Requests, RegisterReply(q)
  PROVE  PInv'
<1> DEFINE d == req[q].db
           S == req[q].agents
           tokens == [a \in Agents |-> IF a \in S THEN db[d].agents[a].token ELSE told[d][a]]
<1>1. /\ req[q].st = "written" /\ d \in Databases /\ Serve(q, Idle)
      /\ UNCHANGED <<active, db, now, unused, strayed>>
      /\ told' = [told EXCEPT ![d] = tokens]
  BY DEF RegisterReply, Answer, PInv, SessionInv
<1>2. /\ db \in [Databases -> DatabaseRows]
      /\ told \in [Databases -> [Agents -> Tokens \cup {NoToken}]]
  BY DEF PInv, TypeOK
<1>3. tokens \in [Agents -> Tokens \cup {NoToken}]
  <2>1. db[d].agents \in [Agents -> AgentRows]
    BY <1>1, <1>2 DEF DatabaseRows
  <2>2. \A a \in Agents : db[d].agents[a].token \in Tokens \cup {NoToken}
    BY <2>1 DEF AgentRows
  <2>3. \A a \in Agents : told[d][a] \in Tokens \cup {NoToken}
    BY <1>1, <1>2
  <2> QED BY <2>2, <2>3
<1>4. \A a \in Agents : tokens[a] = IF a \in S THEN db[d].agents[a].token ELSE told[d][a]
  OBVIOUS
<1> HIDE DEF tokens
<1>5. told' \in [Databases -> [Agents -> Tokens \cup {NoToken}]]
      /\ \A e \in Databases : told'[e] = IF e = d THEN tokens ELSE told[e]
  BY <1>1, <1>2, <1>3
<1>6. Sound(Idle) /\ Idle \in Sessions
  BY IdleIsSession DEF Sound
<1>7. req' \in [Requests -> Sessions] /\ \A p \in Requests : req'[p] = IF p = q THEN Idle ELSE req[p]
  BY <1>1, <1>6, Served DEF PInv, TypeOK
<1>8. LastTokenWorks'
  <2> SUFFICES ASSUME NEW e \in Databases, NEW a \in Agents
               PROVE  \/ told'[e][a] \in {NoToken, db'[e].agents[a].token}
                      \/ \E p \in Requests : req'[p].st = "written" /\ req'[p].db = e /\ a \in req'[p].agents
    BY DEF LastTokenWorks
  <2>1. CASE e = d /\ a \in S
    BY <1>1, <1>4, <1>5, <2>1
  <2>2. CASE ~ (e = d /\ a \in S)
    <3>1. told'[e][a] = told[e][a]
      BY <1>4, <1>5, <2>2
    <3>2. CASE told[e][a] \in {NoToken, db[e].agents[a].token}
      BY <1>1, <3>1, <3>2
    <3>3. CASE \E p \in Requests : req[p].st = "written" /\ req[p].db = e /\ a \in req[p].agents
      BY <1>7, <2>2, <3>3
    <3> QED BY <3>2, <3>3 DEF PInv, LastTokenWorks
  <2> QED BY <2>1, <2>2
<1> QED BY <1>1, <1>2, <1>5, <1>6, <1>8, RowStep DEF PInv, TypeOK

(* Agents whose registration is not answered get no promise.               *)
LEMMA ForgottenOK ==
  ASSUME PInv, NEW lost, told' = Forgotten(lost),
         \A d \in Databases, a \in Agents : db'[d].agents[a].token = db[d].agents[a].token,
         \A p \in Requests : req[p].st = "written" =>
            \/ {req[p].db} \X req[p].agents \subseteq lost
            \/ req'[p] = req[p]
  PROVE  /\ told' \in [Databases -> [Agents -> Tokens \cup {NoToken}]]
         /\ LastTokenWorks'
<1>1. told \in [Databases -> [Agents -> Tokens \cup {NoToken}]]
  BY DEF PInv, TypeOK
<1>2. \A d \in Databases, a \in Agents :
         told'[d][a] = IF <<d, a>> \in lost THEN NoToken ELSE told[d][a]
  BY DEF Forgotten
<1>3. told' \in [Databases -> [Agents -> Tokens \cup {NoToken}]]
  BY <1>1 DEF Forgotten
<1>4. ASSUME NEW d \in Databases, NEW a \in Agents
      PROVE  \/ told'[d][a] \in {NoToken, db'[d].agents[a].token}
             \/ \E p \in Requests : req'[p].st = "written" /\ req'[p].db = d /\ a \in req'[p].agents
  <2>1. CASE told[d][a] \in {NoToken, db[d].agents[a].token}
    BY <1>2, <2>1
  <2>2. CASE \E p \in Requests : req[p].st = "written" /\ req[p].db = d /\ a \in req[p].agents
    <3>1. PICK p \in Requests : req[p].st = "written" /\ req[p].db = d /\ a \in req[p].agents
      BY <2>2
    <3>2. CASE {req[p].db} \X req[p].agents \subseteq lost
      <4>1. <<d, a>> \in lost
        BY <3>1, <3>2
      <4> QED BY <1>2, <4>1
    <3>3. CASE req'[p] = req[p]
      BY <3>1, <3>3
    <3> QED BY <3>1, <3>2, <3>3
  <2> QED BY <2>1, <2>2 DEF PInv, LastTokenWorks
<1> QED BY <1>3, <1>4 DEF LastTokenWorks

LEMMA FailStep ==
  ASSUME PInv, NEW q \in Requests, Fail(q)
  PROVE  PInv'
<1>1. /\ Serve(q, Idle) /\ UNCHANGED <<active, now, unused, strayed>>
      /\ told' = Forgotten(Unanswered(q))
      /\ db' = [d \in Databases |-> [db[d] EXCEPT !.writer = Unlocked(d, q)]]
  BY DEF Fail, Answer
<1>2. \A d \in Databases : Unlocked(d, q) \in Requests \cup {NoRequest}
  BY DEF Unlocked, PInv, TypeOK, DatabaseRows
<1>3. /\ db' \in [Databases -> DatabaseRows]
      /\ \A d \in Databases : /\ db'[d].agents = db[d].agents
                              /\ db'[d].context = db[d].context
  <2>1. \A d \in Databases : db[d] \in DatabaseRows
    BY DEF PInv, TypeOK
  <2> QED BY <1>1, <1>2, <2>1 DEF DatabaseRows
<1>4. Sound(Idle) /\ Idle \in Sessions
  BY IdleIsSession DEF Sound
<1>5. \A p \in Requests : req'[p] = IF p = q THEN Idle ELSE req[p]
  BY <1>1, <1>4, Served DEF PInv, TypeOK
<1>6. \A p \in Requests : req[p].st = "written" =>
            \/ {req[p].db} \X req[p].agents \subseteq Unanswered(q)
            \/ req'[p] = req[p]
  BY <1>5 DEF Unanswered
<1>7. /\ told' \in [Databases -> [Agents -> Tokens \cup {NoToken}]]
      /\ LastTokenWorks'
  BY <1>1, <1>3, <1>6, ForgottenOK
<1> QED BY <1>1, <1>3, <1>4, <1>7, RowStep DEF PInv, TypeOK

LEMMA RestartStep == PInv /\ Restart => PInv'
<1> SUFFICES ASSUME PInv, Restart PROVE PInv'
  OBVIOUS
<1> DEFINE lost == UNION {Unanswered(q) : q \in Requests}
<1>1. /\ active' = Default /\ UNCHANGED <<now, unused, strayed>>
      /\ req' = [q \in Requests |-> Idle]
      /\ told' = Forgotten(lost)
      /\ db' = [d \in Databases |-> [db[d] EXCEPT !.writer = NoRequest]]
  BY DEF Restart
<1>2. /\ db' \in [Databases -> DatabaseRows]
      /\ \A d \in Databases : /\ db'[d].agents = db[d].agents
                              /\ db'[d].context = db[d].context
  <2>1. \A d \in Databases : db[d] \in DatabaseRows
    BY DEF PInv, TypeOK
  <2> QED BY <1>1, <2>1 DEF DatabaseRows
<1>3. \A p \in Requests : req[p].st = "written" => {req[p].db} \X req[p].agents \subseteq lost
  <2> TAKE p \in Requests
  <2> HAVE req[p].st = "written"
  <2>1. Unanswered(p) = {req[p].db} \X req[p].agents
    BY DEF Unanswered
  <2>2. Unanswered(p) \subseteq lost
    OBVIOUS
  <2> QED BY <2>1, <2>2
<1> HIDE DEF lost
<1>4. /\ told' \in [Databases -> [Agents -> Tokens \cup {NoToken}]]
      /\ LastTokenWorks'
  BY <1>1, <1>2, <1>3, ForgottenOK
<1>5. TypeOK'
  BY <1>1, <1>2, <1>4, IdleIsSession DEF PInv, TypeOK, Databases
<1>6. SessionInv' /\ InitsFollow'
  BY <1>1, IdleIsSession DEF SessionInv, InitsFollow
<1>7. ContextsAtHome'
  BY <1>1, <1>2 DEF PInv, ContextsAtHome
<1> QED BY <1>4, <1>5, <1>6, <1>7 DEF PInv

LEMMA TickStep == PInv /\ Tick => PInv'
<1> SUFFICES ASSUME PInv, Tick PROVE PInv'
  OBVIOUS
<1>1. UNCHANGED <<active, db, req, unused, told, strayed>>
  BY DEF Tick, history
<1>2. now' \in Times
  BY PolicyIsNat DEF Tick, PInv, TypeOK, Times
<1>3. TypeOK'
  BY <1>1, <1>2 DEF PInv, TypeOK
<1> QED BY <1>1, <1>3 DEF PInv, SessionInv, InitsFollow, ContextsAtHome, LastTokenWorks

LEMMA StutterStep == PInv /\ UNCHANGED vars => PInv'
BY DEF vars, history, PInv, TypeOK, SessionInv, InitsFollow, ContextsAtHome, LastTokenWorks

LEMMA InitPInv == Init => PInv
<1> SUFFICES ASSUME Init PROVE PInv
  OBVIOUS
<1>1. 0 \in Times /\ 0 \in Names /\ Default \in Databases
  BY PolicyIsNat, AgentsFinite, FS_CardinalityType DEF Times, Names, Databases
<1>2. NoAgentRow \in AgentRows /\ NoContext \in Contexts
  BY <1>1 DEF NoAgentRow, AgentRows, NoContext, Contexts
<1>3. EmptyDatabase \in DatabaseRows
  BY <1>2 DEF EmptyDatabase, DatabaseRows
<1>4. TypeOK
  BY <1>1, <1>3, IdleIsSession DEF Init, TypeOK
<1>5. SessionInv /\ InitsFollow
  BY IdleIsSession DEF Init, SessionInv, InitsFollow
<1>6. ContextsAtHome /\ LastTokenWorks
  BY DEF Init, ContextsAtHome, LastTokenWorks, EmptyDatabase, NoContext
<1> QED BY <1>4, <1>5, <1>6 DEF PInv

-----------------------------------------------------------------------------
LEMMA Invariance == Spec => []PInv
<1>1. PInv /\ [Next]_vars => PInv'
  <2> SUFFICES ASSUME PInv, [Next]_vars PROVE PInv'
    OBVIOUS
  <2>1. CASE RunStop
    BY <2>1, RunStopStep
  <2>2. CASE Tick
    BY <2>2, TickStep
  <2>3. CASE Restart
    BY <2>3, RestartStep
  <2>4. ASSUME NEW q \in Requests,
               \/ InitOpen(q) \/ InitCommit(q)
               \/ RegisterFail(q) \/ RegisterCommit(q) \/ RegisterReply(q)
               \/ SubmitCommit(q) \/ Fail(q)
        PROVE  PInv'
    BY <2>4, InitOpenStep, InitCommitStep, RegisterFailStep, RegisterCommitStep,
       RegisterReplyStep, SubmitCommitStep, FailStep
  <2>5. ASSUME NEW q \in Requests, NEW S \in SUBSET Agents \ {{}}, Register(q, S)
        PROVE  PInv'
    BY <2>5, RegisterStep
  <2>6. ASSUME NEW q \in Requests, ResetActivate(q)
        PROVE  PInv'
    <3>1. req[q].run \in Runs
      BY <2>6 DEF ResetActivate, PInv, SessionInv
    <3> QED BY <2>6, <3>1, RunInitStep
  <2>7. ASSUME NEW q \in Requests, NEW r \in Runs, RunInit(q, r) \/ RunReset(q, r) \/ Submit(q, r)
        PROVE  PInv'
    BY <2>7, RunInitStep, SubmitStep
  <2>8. CASE UNCHANGED vars
    BY <2>8, StutterStep
  <2> QED BY <2>1, <2>2, <2>3, <2>4, <2>5, <2>6, <2>7, <2>8 DEF Next
<1> QED BY <1>1, InitPInv, PTL DEF Spec

(* The rows, the sessions and what clients hold keep their types.          *)
THEOREM TypeCorrect == Spec => []TypeOK
<1>1. PInv => TypeOK
  BY DEF PInv
<1> QED BY <1>1, Invariance, PTL

(* The context of a run is in its own database, unless something switched  *)
(* the pointer between its init's activation and session (platform.py:1526).*)
THEOREM ContextsStayHome == Spec => []ContextsAtHome
<1>1. PInv => ContextsAtHome
  BY DEF PInv
<1> QED BY <1>1, Invariance, PTL

(* No client is left with a token that a later registration replaced       *)
(* (platform.py:1001, 1044), save for registrations not answered.          *)
THEOREM LastTokensWork == Spec => []LastTokenWorks
<1>1. PInv => LastTokenWorks
  BY DEF PInv
<1> QED BY <1>1, Invariance, PTL

-----------------------------------------------------------------------------
(* The gate.  What a submission is due from depends on the submissions and *)
(* on the date of the context.                                             *)
AcceptedIn(subs, r, a) ==
    {i \in DOMAIN subs : (subs[i].run = r /\ subs[i].agent = a) /\ subs[i].accepted}
LatestIn(subs, I) == CHOOSE i \in I : \A j \in I :
    \/ subs[j].at < subs[i].at
    \/ subs[j].at = subs[i].at /\ j <= i
AnchorIn(subs, c, r, a) ==
    IF AcceptedIn(subs, r, a) = {} THEN c ELSE subs[LatestIn(subs, AcceptedIn(subs, r, a))].at

LEMMA AnchorOfRow ==
  ASSUME NEW d, NEW r, NEW a
  PROVE  /\ Anchor(d, r, a) = AnchorIn(db[d].subs, db[d].context[r].created, r, a)
         /\ Anchor(d, r, a)' = AnchorIn(db'[d].subs, db'[d].context[r].created, r, a)
<1>1. Anchor(d, r, a) = AnchorIn(db[d].subs, db[d].context[r].created, r, a)
  BY DEF Anchor, AnchorIn, AcceptedIn, LatestIn, Latest, Of
<1>2. Anchor(d, r, a)' = AnchorIn(db'[d].subs, db'[d].context[r].created, r, a)
  BY DEF Anchor, AnchorIn, AcceptedIn, LatestIn, Latest, Of
<1> QED BY <1>1, <1>2

(* The latest of some submissions is one of them.                          *)
LEMMA LatestIsOne ==
  ASSUME NEW subs \in Seq(Submissions), NEW I \in SUBSET (DOMAIN subs), I # {}
  PROVE  LatestIn(subs, I) \in I
<1>0. /\ \A i \in I : i \in Nat /\ i <= Len(subs) /\ subs[i] \in Submissions
      /\ Len(subs) \in Nat
  OBVIOUS
<1>1. \A i \in I : subs[i].at \in Nat /\ subs[i].at <= MaxClock
  BY <1>0, PolicyIsNat DEF Submissions, Times
<1> DEFINE dates == {subs[i].at : i \in I}
<1>2. PICK t \in dates : \A u \in dates : u <= t
  <2>1. dates \in SUBSET Nat /\ dates # {} /\ \A u \in dates : u <= MaxClock
    BY <1>1
  <2> HIDE DEF dates
  <2> QED BY <2>1, PolicyIsNat, NatMax
<1> DEFINE J == {i \in I : subs[i].at = t}
<1>3. PICK i \in J : \A j \in J : j <= i
  <2>1. J \in SUBSET Nat /\ J # {} /\ \A j \in J : j <= Len(subs)
    BY <1>0, <1>2
  <2> HIDE DEF J
  <2> QED BY <1>0, <2>1, NatMax
<1>4. i \in I /\ \A j \in I : subs[j].at < subs[i].at \/ (subs[j].at = subs[i].at /\ j <= i)
  <2> SUFFICES ASSUME NEW j \in I
               PROVE  subs[j].at < subs[i].at \/ (subs[j].at = subs[i].at /\ j <= i)
    BY <1>3
  <2>1. subs[j].at <= t /\ subs[i].at = t
    BY <1>2, <1>3
  <2>2. CASE subs[j].at = t
    BY <1>3, <2>1, <2>2
  <2>3. CASE subs[j].at # t
    BY <1>1, <1>3, <2>1, <2>3
  <2> QED BY <2>2, <2>3
<1> QED BY <1>4 DEF LatestIn

LEMMA AnchorIsTime ==
  ASSUME TypeOK, NEW d \in Databases, NEW r \in Runs, NEW a \in Agents
  PROVE  Anchor(d, r, a) \in Times
<1>1. db[d].subs \in Seq(Submissions) /\ db[d].context[r].created \in Times
  BY DEF TypeOK, DatabaseRows, Contexts
<1> DEFINE I == AcceptedIn(db[d].subs, r, a)
<1>2. CASE I = {}
  BY <1>1, <1>2, AnchorOfRow DEF AnchorIn
<1>3. CASE I # {}
  <2>1. LatestIn(db[d].subs, I) \in DOMAIN db[d].subs
    <3>1. I \in SUBSET (DOMAIN db[d].subs)
      BY DEF AcceptedIn
    <3> HIDE DEF I
    <3> QED BY <1>1, <1>3, <3>1, LatestIsOne
  <2>2. db[d].subs[LatestIn(db[d].subs, I)] \in Submissions
    BY <1>1, <2>1
  <2>3. db[d].subs[LatestIn(db[d].subs, I)].at \in Times
    BY <2>2 DEF Submissions
  <2> QED BY <1>3, <2>3, AnchorOfRow DEF AnchorIn
<1> QED BY <1>2, <1>3

(* A submission that is not an accepted one of this agent moves nothing.   *)
LEMMA AnchorIgnores ==
  ASSUME NEW subs \in Seq(Submissions), NEW x \in Submissions, NEW c, NEW r, NEW a,
         ~ (x.run = r /\ x.agent = a /\ x.accepted)
  PROVE  AnchorIn(Append(subs, x), c, r, a) = AnchorIn(subs, c, r, a)
<1> DEFINE more == Append(subs, x)
           I == AcceptedIn(subs, r, a)
<1>1. /\ DOMAIN subs = 1..Len(subs) /\ DOMAIN more = 1..(Len(subs) + 1) /\ Len(subs) \in Nat
      /\ \A i \in DOMAIN subs : more[i] = subs[i]
      /\ more[Len(subs) + 1] = x
  OBVIOUS
<1> HIDE DEF more
<1>2. AcceptedIn(more, r, a) = AcceptedIn(subs, r, a)
  BY <1>1 DEF AcceptedIn
<1>3. I \in SUBSET (DOMAIN subs)
  BY DEF AcceptedIn
<1>4. /\ AnchorIn(more, c, r, a) = IF I = {} THEN c ELSE more[LatestIn(more, I)].at
      /\ AnchorIn(subs, c, r, a) = IF I = {} THEN c ELSE subs[LatestIn(subs, I)].at
  BY <1>2 DEF AnchorIn
<1> HIDE DEF I
<1>5. \A i \in I : more[i] = subs[i]
  BY <1>1, <1>3
<1>6. LatestIn(more, I) = LatestIn(subs, I)
  BY <1>5 DEF LatestIn
<1>7. I # {} => LatestIn(subs, I) \in I
  BY <1>3, LatestIsOne
<1>8. AnchorIn(more, c, r, a) = AnchorIn(subs, c, r, a)
  BY <1>4, <1>5, <1>6, <1>7
<1> QED BY <1>8 DEF more

(* Time does not clear a blocked agent.                                    *)
LEMMA StaysBlocked ==
  ASSUME TypeOK, NEW d \in Databases, NEW r \in Runs, NEW a \in Agents,
         Blocked(d, r, a), db'[d].context[r].there,
         Anchor(d, r, a)' = Anchor(d, r, a), now' = now \/ now' = now + 1
  PROVE  Blocked(d, r, a)'
<1> DEFINE t == Anchor(d, r, a)
           due == t + Interval + Jitter[t]
<1>1. t \in Times
  BY AnchorIsTime
<1>2. t \in Int /\ Jitter[t] \in Int
  BY <1>1, JitterIsInt DEF Times
<1>3. due \in Int /\ now \in Int /\ Grace \in Nat
  BY <1>2, PolicyIsNat DEF TypeOK, Times
<1>4. DueAt(d, r, a) = due /\ DueAt(d, r, a)' = due
  BY DEF DueAt
<1> HIDE DEF due
<1>5. ~ (now <= due) /\ ~ (now <= due + Grace)
  BY <1>4 DEF Blocked, GateState
<1>6. ~ (now' <= due) /\ ~ (now' <= due + Grace)
  BY <1>3, <1>5
<1> QED BY <1>4, <1>6 DEF Blocked, GateState

(* What a step leaves of the submissions and contexts.                     *)
GateKept ==
    /\ \A d \in Databases :
          /\ db'[d].subs = db[d].subs
          /\ \A r \in Runs : db[d].context[r].there => db'[d].context[r] = db[d].context[r]
    /\ now' = now \/ now' = now + 1

LEMMA GateKeptSteps ==
  ASSUME PInv, NEW q \in Requests,
         \/ RunStop \/ Tick \/ Restart \/ UNCHANGED <<db, now>>
         \/ InitOpen(q) \/ InitCommit(q) \/ ResetActivate(q)
         \/ RegisterFail(q) \/ RegisterCommit(q) \/ RegisterReply(q) \/ Fail(q)
         \/ \E S \in SUBSET Agents : Register(q, S)
         \/ \E r \in Runs : RunInit(q, r) \/ RunReset(q, r) \/ Submit(q, r)
  PROVE  GateKept
<1>1. db \in [Databases -> DatabaseRows] /\ \A d \in Databases : db[d] \in DatabaseRows
  BY DEF PInv, TypeOK
<1>2. CASE \/ RunStop \/ Tick \/ InitOpen(q) \/ ResetActivate(q) \/ RegisterReply(q)
           \/ UNCHANGED <<db, now>>
           \/ \E r \in Runs : RunInit(q, r) \/ RunReset(q, r) \/ Submit(q, r)
  <2>1. db' = db /\ (now' = now \/ now' = now + 1)
    BY <1>2 DEF RunStop, Tick, InitOpen, ResetActivate, RegisterReply, RunInit, RunReset, Submit
  <2> QED BY <2>1 DEF GateKept
<1>3. CASE Restart
  <2>1. /\ now' = now
        /\ \A d \in Databases : db'[d] = [db[d] EXCEPT !.writer = NoRequest]
    BY <1>3 DEF Restart
  <2> QED BY <1>1, <2>1 DEF GateKept, DatabaseRows
<1>4. CASE Fail(q)
  <2>1. /\ now' = now
        /\ \A d \in Databases : db'[d] = [db[d] EXCEPT !.writer = Unlocked(d, q)]
    BY <1>4 DEF Fail
  <2> QED BY <1>1, <2>1 DEF GateKept, DatabaseRows
<1>5. CASE \E S \in SUBSET Agents : Register(q, S)
  <2>1. now' = now /\ (db' = db \/ db' = [db EXCEPT ![active].writer = q])
    BY <1>5 DEF Register
  <2>2. \A d \in Databases : db'[d] = db[d] \/ db'[d] = [db[d] EXCEPT !.writer = q]
    BY <1>1, <2>1
  <2>3. \A d \in Databases : db'[d].subs = db[d].subs /\ db'[d].context = db[d].context
    BY <1>1, <2>2 DEF DatabaseRows
  <2> QED BY <2>1, <2>3 DEF GateKept
<1>6. CASE RegisterFail(q)
  <2>1. now' = now /\ db' = [db EXCEPT ![req[q].db].writer = Unlocked(req[q].db, q)]
    BY <1>6 DEF RegisterFail
  <2>2. \A d \in Databases :
          db'[d] = db[d] \/ db'[d] = [db[d] EXCEPT !.writer = Unlocked(req[q].db, q)]
    BY <1>1, <2>1
  <2> QED BY <1>1, <2>1, <2>2 DEF GateKept, DatabaseRows
<1>7. CASE RegisterCommit(q)
  <2>1. PICK tok \in [req[q].agents -> unused] :
          db' = [db EXCEPT ![req[q].db].agents = [a \in Agents |->
                          IF a \notin req[q].agents THEN @[a]
                          ELSE [token |-> tok[a], name |-> req[q].names[a]]],
                                 ![req[q].db].general = TRUE,
                                 ![req[q].db].writer = NoRequest]
    BY <1>7 DEF RegisterCommit
  <2>2. \A d \in Databases : \/ db'[d] = db[d]
                            \/ \E rows : db'[d] = [db[d] EXCEPT !.agents = rows,
                                  !.general = TRUE, !.writer = NoRequest]
    BY <1>1, <2>1
  <2>3. now' = now
    BY <1>7 DEF RegisterCommit
  <2>4. \A d \in Databases : db'[d].subs = db[d].subs /\ db'[d].context = db[d].context
    <3> TAKE d \in Databases
    <3>1. db[d] \in DatabaseRows
      BY <1>1
    <3>2. \A rows : LET e == [db[d] EXCEPT !.agents = rows, !.general = TRUE, !.writer = NoRequest]
                    IN  e.subs = db[d].subs /\ e.context = db[d].context
      BY <3>1 DEF DatabaseRows
    <3> QED BY <2>2, <3>2
  <2> QED BY <2>3, <2>4 DEF GateKept
<1>8. CASE InitCommit(q)
  <2> DEFINE s == req[q]
             c == [there |-> TRUE,
                   created |-> IF s.hadRow THEN db[s.db].context[s.run].created ELSE now]
             row == [db[s.db] EXCEPT !.context = [@ EXCEPT ![s.run] = c]]
  <2>1. /\ now' = now /\ s.st = "ready" /\ s.op = "init" /\ s.db \in Databases /\ s.run \in Runs
        /\ s.hadRow => db[s.db].context[s.run].there
    BY <1>8 DEF InitCommit, PInv, SessionInv
  <2>2. CASE db' = db
    BY <2>1, <2>2 DEF GateKept
  <2>3. CASE /\ ~ (~ s.hadRow /\ db[s.db].context[s.run].there)
             /\ db' = [db EXCEPT ![s.db] = row]
    <3>1. \A d \in Databases : db'[d] = IF d = s.db THEN row ELSE db[d]
      BY <1>1, <2>1, <2>3
    <3>2. row.subs = db[s.db].subs /\ row.context = [db[s.db].context EXCEPT ![s.run] = c]
          /\ db[s.db].context \in [Runs -> Contexts]
      BY <1>1, <2>1 DEF DatabaseRows
    <3>3. db[s.db].context[s.run].there => c = db[s.db].context[s.run]
      <4>1. db[s.db].context[s.run] \in Contexts
        BY <2>1, <3>2
      <4> QED BY <2>3, <4>1 DEF Contexts
    <3> HIDE DEF row, c
    <3>4. \A r \in Runs : db[s.db].context[r].there => row.context[r] = db[s.db].context[r]
      BY <3>2, <3>3
    <3> QED BY <2>1, <3>1, <3>2, <3>4 DEF GateKept
  <2> QED BY <1>8, <2>2, <2>3 DEF InitCommit
<1> QED BY <1>2, <1>3, <1>4, <1>5, <1>6, <1>7, <1>8

LEMMA GateKeptOrSubmission ==
  ASSUME PInv, [Next]_vars
  PROVE  GateKept \/ \E q \in Requests : SubmitCommit(q)
<1>1. CASE Requests = {}
  <2>1. RunStop \/ Tick \/ Restart \/ UNCHANGED vars
    BY <1>1 DEF Next
  <2>2. db' = db \/ Restart
    BY <2>1 DEF RunStop, Tick, vars
  <2>3. now' = now \/ now' = now + 1
    BY <2>1 DEF RunStop, Tick, Restart, vars
  <2>4. \A e \in Databases : db[e] \in DatabaseRows
    BY DEF PInv, TypeOK
  <2>5. CASE db' = db
    BY <2>3, <2>5 DEF GateKept
  <2>6. CASE Restart
    <3>1. \A e \in Databases : db'[e] = [db[e] EXCEPT !.writer = NoRequest]
      BY <2>6 DEF Restart
    <3> QED BY <2>3, <2>4, <3>1 DEF GateKept, DatabaseRows
  <2> QED BY <2>2, <2>5, <2>6
<1>2. CASE Requests # {}
  <2> SUFFICES ASSUME ~ \E q \in Requests : SubmitCommit(q) PROVE GateKept
    OBVIOUS
  <2>1. PICK q \in Requests :
          \/ RunStop \/ Tick \/ Restart \/ UNCHANGED vars
          \/ InitOpen(q) \/ InitCommit(q) \/ ResetActivate(q)
          \/ RegisterFail(q) \/ RegisterCommit(q) \/ RegisterReply(q) \/ Fail(q)
          \/ \E S \in SUBSET Agents : Register(q, S)
          \/ \E e \in Runs : RunInit(q, e) \/ RunReset(q, e) \/ Submit(q, e)
    BY <1>2, Zenon DEF Next
  <2>2. UNCHANGED vars => UNCHANGED <<db, now>>
    BY DEF vars
  <2> QED BY <2>1, <2>2, GateKeptSteps
<1> QED BY <1>1, <1>2

(* Only an accepted submission of the agent itself clears it, for the run  *)
(* and in the database where it is blocked ("block_until_submit",          *)
(* platform.py:212).                                                       *)
THEOREM OnlySubmissionUnblocks == Spec => BlockedUntilSubmit
<1> DEFINE Unblocked(d, r, a) ==
             /\ Len(db[d].subs') = Len(db[d].subs) + 1
             /\ LET x == Last(db[d].subs')
                IN  x.run = r /\ x.agent = a /\ x.accepted
<1>1. ASSUME PInv, [Next]_vars, NEW d \in Databases, NEW r \in Runs, NEW a \in Agents,
             Blocked(d, r, a), ~ Blocked(d, r, a)'
      PROVE  Unblocked(d, r, a)
  <2>1. TypeOK /\ db[d].context[r].there /\ db[d].subs \in Seq(Submissions)
    BY <1>1 DEF PInv, TypeOK, DatabaseRows, Blocked
  <2>2. ~ GateKept
    <3> SUFFICES ASSUME GateKept PROVE FALSE
      OBVIOUS
    <3>1. /\ db'[d].subs = db[d].subs /\ db'[d].context[r] = db[d].context[r]
          /\ now' = now \/ now' = now + 1
      BY <2>1 DEF GateKept
    <3>2. Anchor(d, r, a)' = Anchor(d, r, a)
      BY <3>1, AnchorOfRow
    <3> QED BY <1>1, <2>1, <3>1, <3>2, StaysBlocked
  <2>3. PICK q \in Requests : SubmitCommit(q)
    BY <1>1, <2>2, GateKeptOrSubmission
  <2> DEFINE e == req[q].db
  <2>4. PICK b \in req[q].agents, acc \in BOOLEAN, t \in Times :
          db' = [db EXCEPT ![e].subs = Append(@,
                    [run |-> req[q].run, agent |-> b, accepted |-> acc, at |-> t])]
    BY <2>3 DEF SubmitCommit, SubmissionDb
  <2> DEFINE x == [run |-> req[q].run, agent |-> b, accepted |-> acc, at |-> t]
  <2>5. x \in Submissions
    <3>1. req[q] \in Sessions /\ req[q].run \in Runs
      BY <1>1, <2>3 DEF SubmitCommit, PInv, TypeOK, SessionInv
    <3> QED BY <2>4, <3>1 DEF Submissions, Sessions
  <2>6. /\ db'[d].subs = IF d = e THEN Append(db[d].subs, x) ELSE db[d].subs
        /\ db'[d].context = db[d].context
        /\ now' = now
    <3>1. db \in [Databases -> DatabaseRows] /\ db[d] \in DatabaseRows
      BY <2>1 DEF TypeOK
    <3> HIDE DEF x
    <3>2. db'[d] = IF d = e THEN [db[d] EXCEPT !.subs = Append(@, x)] ELSE db[d]
      BY <2>4, <3>1 DEF x
    <3>3. now' = now
      BY <2>3 DEF SubmitCommit
    <3> QED BY <3>1, <3>2, <3>3 DEF DatabaseRows
  <2> HIDE DEF x
  <2>7. CASE d = e /\ x.run = r /\ x.agent = a /\ x.accepted
    <3>1. db[d].subs' = Append(db[d].subs, x)
      BY <2>6, <2>7
    <3>2. Len(Append(db[d].subs, x)) = Len(db[d].subs) + 1 /\ Last(Append(db[d].subs, x)) = x
      BY <2>1, <2>5 DEF Last
    <3> QED BY <2>7, <3>1, <3>2
  <2>8. CASE ~ (d = e /\ x.run = r /\ x.agent = a /\ x.accepted)
    <3>1. Anchor(d, r, a)' = Anchor(d, r, a)
      <4>1. CASE d # e
        BY <2>6, <4>1, AnchorOfRow
      <4>2. CASE d = e
        <5>1. AnchorIn(Append(db[d].subs, x), db[d].context[r].created, r, a)
                = AnchorIn(db[d].subs, db[d].context[r].created, r, a)
          BY <2>1, <2>5, <2>8, <4>2, AnchorIgnores
        <5>2. db'[d].subs = Append(db[d].subs, x) /\ db'[d].context = db[d].context
          BY <2>6, <4>2
        <5>3. /\ Anchor(d, r, a)' = AnchorIn(db'[d].subs, db'[d].context[r].created, r, a)
              /\ Anchor(d, r, a) = AnchorIn(db[d].subs, db[d].context[r].created, r, a)
          BY AnchorOfRow
        <5>4. Anchor(d, r, a)' = AnchorIn(Append(db[d].subs, x), db[d].context[r].created, r, a)
          BY <5>2, <5>3
        <5> QED BY <5>1, <5>3, <5>4
      <4> QED BY <4>1, <4>2
    <3> QED BY <1>1, <2>1, <2>6, <3>1, StaysBlocked
  <2> QED BY <2>7, <2>8
<1>2. PInv /\ [Next]_vars =>
        [\A d \in Databases, r \in Runs, a \in Agents :
           (Blocked(d, r, a) /\ ~ Blocked(d, r, a)') => Unblocked(d, r, a)]_<<db, now>>
  BY <1>1
<1> QED BY <1>2, Invariance, PTL DEF Spec, BlockedUntilSubmit

-----------------------------------------------------------------------------
(* The review of the gate.  The agents of the submissions have a row, and  *)
(* the runs of the submissions a context, in the database they are in; so  *)
(* have those a submission on its way is for, and neither ever goes.       *)
Accountable ==
    /\ \A d \in Databases : \A i \in DOMAIN db[d].subs :
          /\ Registered(d, db[d].subs[i].agent)
          /\ db[d].context[db[d].subs[i].run].there
    /\ \A q \in Requests :
          req[q].st = "ready" /\ req[q].op = "submit" =>
             /\ db[req[q].db].context[req[q].run].there
             /\ \A a \in req[q].agents : Registered(req[q].db, a)

RowsStay ==
    \A d \in Databases :
       /\ \A a \in Agents : db[d].agents[a].token # NoToken => db'[d].agents[a].token # NoToken
       /\ \A r \in Runs : db[d].context[r].there => db'[d].context[r].there

(* No step takes an agent's row or a context away.                         *)
LEMMA RowsStayStep ==
  ASSUME PInv, [Next]_vars
  PROVE  RowsStay
<1>1. db \in [Databases -> DatabaseRows] /\ \A d \in Databases : db[d] \in DatabaseRows
  BY DEF PInv, TypeOK
<1>2. ASSUME \A d \in Databases : db'[d].agents = db[d].agents /\ db'[d].context = db[d].context
      PROVE  RowsStay
  BY <1>2 DEF RowsStay
<1>3. CASE UNCHANGED db
  BY <1>2, <1>3
<1>4. CASE RunStop \/ Tick \/ UNCHANGED vars
  BY <1>3, <1>4 DEF RunStop, Tick, vars
<1>5. CASE Restart
  <2>1. \A d \in Databases : db'[d] = [db[d] EXCEPT !.writer = NoRequest]
    BY <1>5 DEF Restart
  <2> QED BY <1>1, <1>2, <2>1 DEF DatabaseRows
<1>6. ASSUME NEW q \in Requests,
             \/ InitOpen(q) \/ ResetActivate(q) \/ RegisterReply(q)
             \/ \E r \in Runs : RunInit(q, r) \/ RunReset(q, r) \/ Submit(q, r)
      PROVE  RowsStay
  BY <1>3, <1>6 DEF InitOpen, ResetActivate, RegisterReply, RunInit, RunReset, Submit
<1>7. ASSUME NEW q \in Requests, Fail(q) PROVE RowsStay
  <2>1. \A d \in Databases : db'[d] = [db[d] EXCEPT !.writer = Unlocked(d, q)]
    BY <1>7 DEF Fail
  <2> QED BY <1>1, <1>2, <2>1 DEF DatabaseRows
<1>8. ASSUME NEW d, NEW w, db' = db \/ db' = [db EXCEPT ![d].writer = w]
      PROVE  RowsStay
  <2>1. \A e \in Databases : db'[e] = db[e] \/ db'[e] = [db[e] EXCEPT !.writer = w]
    BY <1>1, <1>8
  <2> QED BY <1>1, <1>2, <2>1 DEF DatabaseRows
<1>9. ASSUME NEW q \in Requests, NEW S \in SUBSET Agents, Register(q, S) PROVE RowsStay
  <2>1. db' = db \/ db' = [db EXCEPT ![active].writer = q]
    BY <1>9 DEF Register
  <2> QED BY <1>8, <2>1
<1>10. ASSUME NEW q \in Requests, RegisterFail(q) PROVE RowsStay
  <2>1. db' = [db EXCEPT ![req[q].db].writer = Unlocked(req[q].db, q)]
    BY <1>10 DEF RegisterFail
  <2> QED BY <1>8, <2>1
<1>11. ASSUME NEW q \in Requests, InitCommit(q) PROVE RowsStay
  <2>1. GateKept
    BY <1>11, GateKeptSteps
  <2>2. PICK c : db' = db \/ db' = [db EXCEPT ![req[q].db].context[req[q].run] = c]
    BY <1>11 DEF InitCommit
  <2>3. \A e \in Databases : db'[e].agents = db[e].agents
    <3>1. \A e \in Databases : \/ db'[e] = db[e]
                              \/ db'[e] = [db[e] EXCEPT !.context = [@ EXCEPT ![req[q].run] = c]]
      BY <1>1, <2>2
    <3> QED BY <1>1, <3>1 DEF DatabaseRows
  <2> QED BY <2>1, <2>3 DEF RowsStay, GateKept
<1>12. ASSUME NEW q \in Requests, SubmitCommit(q) PROVE RowsStay
  <2>1. PICK x : db' = [db EXCEPT ![req[q].db].subs = Append(@, x)]
    BY <1>12 DEF SubmitCommit, SubmissionDb
  <2>2. \A e \in Databases : db'[e] = db[e] \/ db'[e] = [db[e] EXCEPT !.subs = Append(@, x)]
    BY <1>1, <2>1
  <2> QED BY <1>1, <1>2, <2>2 DEF DatabaseRows
<1>13. ASSUME NEW q \in Requests, RegisterCommit(q) PROVE RowsStay
  <2> DEFINE S == req[q].agents
  <2>1. PICK tok \in [S -> unused] :
          db' = [db EXCEPT ![req[q].db].agents = [a \in Agents |->
                          IF a \notin S THEN @[a]
                          ELSE [token |-> tok[a], name |-> req[q].names[a]]],
                                 ![req[q].db].general = TRUE,
                                 ![req[q].db].writer = NoRequest]
    BY <1>13 DEF RegisterCommit
  <2>2. \A a \in S : tok[a] # NoToken
    BY NothingIsNone DEF PInv, TypeOK
  <2>3. GateKept
    BY <1>13, GateKeptSteps
  <2>4. \A d \in Databases, a \in Agents :
          db'[d].agents[a] = db[d].agents[a] \/ db'[d].agents[a].token # NoToken
    <3> SUFFICES ASSUME NEW d \in Databases, NEW a \in Agents
                 PROVE  db'[d].agents[a] = db[d].agents[a] \/ db'[d].agents[a].token # NoToken
      OBVIOUS
    <3> DEFINE rows == [b \in Agents |-> IF b \notin S THEN db[d].agents[b]
                                         ELSE [token |-> tok[b], name |-> req[q].names[b]]]
    <3>1. db'[d] = db[d] \/ db'[d] = [db[d] EXCEPT !.agents = rows, !.general = TRUE, !.writer = NoRequest]
      BY <1>1, <2>1
    <3>2. rows[a] = db[d].agents[a] \/ rows[a].token # NoToken
      BY <2>2
    <3> HIDE DEF rows
    <3>3. db'[d] = db[d] \/ db'[d].agents = rows
      BY <1>1, <3>1 DEF DatabaseRows
    <3> QED BY <3>2, <3>3
  <2> QED BY <2>3, <2>4 DEF RowsStay, GateKept
<1> QED BY <1>4, <1>5, <1>6, <1>7, <1>9, <1>10, <1>11, <1>12, <1>13 DEF Next

(* The only submissions under way are those that were, and new ones        *)
(* (Submit) that keep to what Accountable says of them.                    *)
LEMMA SubmissionsUnderWay ==
  ASSUME PInv, [Next]_vars, NEW p \in Requests,
         req'[p].st = "ready", req'[p].op = "submit"
  PROVE  \/ req'[p] = req[p]
         \/ /\ db' = db
            /\ db[req'[p].db].context[req'[p].run].there
            /\ \A a \in req'[p].agents : Registered(req'[p].db, a)
<1>0. req \in [Requests -> Sessions]
  BY DEF PInv, TypeOK
<1>1. CASE RunStop \/ Tick \/ UNCHANGED vars
  BY <1>1 DEF RunStop, Tick, vars
<1>2. CASE Restart
  BY <1>2, IdleIsSession DEF Restart
<1>3. ASSUME NEW q \in Requests, NEW s, Serve(q, s), s.op # "submit"
      PROVE  req'[p] = req[p]
  BY <1>0, <1>3 DEF Serve
<1>4. ASSUME NEW q \in Requests,
             \/ InitCommit(q) \/ ResetActivate(q) \/ RegisterFail(q) \/ RegisterReply(q)
             \/ SubmitCommit(q) \/ Fail(q)
      PROVE  req'[p] = req[p]
  <2>1. Serve(q, Idle)
    BY <1>4 DEF InitCommit, ResetActivate, RegisterFail, RegisterReply, SubmitCommit, Fail, Answer
  <2> QED BY <1>3, <2>1, IdleIsSession
<1>5. ASSUME NEW q \in Requests, InitOpen(q) PROVE req'[p] = req[p]
  <2> DEFINE s == [req[q] EXCEPT !.st = "ready", !.db = active,
                   !.hadRow = db[active].context[req[q].run].there]
  <2>1. Serve(q, s) /\ req[q].op = "init" /\ req[q] \in Sessions
    BY <1>0, <1>5 DEF InitOpen
  <2>2. s.op = "init"
    BY <2>1 DEF Sessions
  <2> HIDE DEF s
  <2> QED BY <1>3, <2>1, <2>2
<1>6. ASSUME NEW q \in Requests, NEW r \in Runs, RunInit(q, r) \/ RunReset(q, r)
      PROVE  req'[p] = req[p]
  <2>1. \/ Serve(q, [Idle EXCEPT !.st = "switching", !.op = "init", !.run = r])
        \/ Serve(q, [Idle EXCEPT !.st = "switching", !.op = "reset", !.run = r])
    BY <1>6 DEF RunInit, RunReset
  <2>2. /\ [Idle EXCEPT !.st = "switching", !.op = "init", !.run = r].op = "init"
        /\ [Idle EXCEPT !.st = "switching", !.op = "reset", !.run = r].op = "reset"
    BY DEF Idle
  <2> QED BY <1>3, <2>1, <2>2
<1>7. ASSUME NEW q \in Requests, NEW S \in SUBSET Agents, Register(q, S)
      PROVE  req'[p] = req[p]
  <2>1. PICK seen, had, names : Serve(q, [Idle EXCEPT !.st = "ready", !.op = "register",
                   !.db = active, !.agents = S, !.seen = seen, !.hadRow = had, !.names = names])
    BY <1>7 DEF Register
  <2>2. [Idle EXCEPT !.st = "ready", !.op = "register", !.db = active, !.agents = S,
                     !.seen = seen, !.hadRow = had, !.names = names].op = "register"
    BY DEF Idle
  <2> QED BY <1>3, <2>1, <2>2
<1>8. ASSUME NEW q \in Requests, RegisterCommit(q)
      PROVE  req'[p] = req[p]
  <2>1. PICK tokens : Serve(q, [Idle EXCEPT !.st = "written", !.op = "register",
                            !.db = req[q].db, !.agents = req[q].agents, !.tokens = tokens])
    BY <1>8 DEF RegisterCommit
  <2>2. [Idle EXCEPT !.st = "written", !.op = "register", !.db = req[q].db,
                     !.agents = req[q].agents, !.tokens = tokens].op = "register"
    BY DEF Idle
  <2> QED BY <1>3, <2>1, <2>2
<1>9. ASSUME NEW q \in Requests, NEW r \in Runs, Submit(q, r)
      PROVE  \/ req'[p] = req[p]
             \/ /\ db' = db
                /\ db[req'[p].db].context[req'[p].run].there
                /\ \A a \in req'[p].agents : Registered(req'[p].db, a)
  <2>1. PICK d \in Databases, a \in Agents :
          /\ told[d][a] # NoToken
          /\ Serve(q, [Idle EXCEPT !.st = "ready", !.op = "submit", !.db = active,
                         !.run = r, !.agents = Principals(active, told[d][a])])
    BY <1>9 DEF Submit
  <2> DEFINE who == Principals(active, told[d][a])
             s == [Idle EXCEPT !.st = "ready", !.op = "submit", !.db = active,
                         !.run = r, !.agents = who]
  <2>2. \A b \in who : Registered(active, b)
    BY <2>1 DEF Principals, Registered
  <2> HIDE DEF who
  <2>3. s.db = active /\ s.run = r /\ s.agents = who
    BY DEF Idle
  <2>4. Serve(q, s)
    BY <2>1 DEF who
  <2> HIDE DEF s
  <2>5. req'[p] = req[p] \/ req'[p] = s
    BY <1>0, <2>4 DEF Serve
  <2>6. db' = db /\ db[active].context[r].there
    BY <1>9 DEF Submit
  <2> QED BY <2>2, <2>3, <2>5, <2>6
<1> QED BY <1>1, <1>2, <1>4, <1>5, <1>6, <1>7, <1>8, <1>9 DEF Next

LEMMA AccountableStep ==
  ASSUME PInv, Accountable, [Next]_vars
  PROVE  Accountable'
<1>1. RowsStay
  BY RowsStayStep
<1>2. \A d \in Databases : db[d] \in DatabaseRows
  BY DEF PInv, TypeOK
<1>3. ASSUME NEW p \in Requests, req'[p].st = "ready", req'[p].op = "submit"
      PROVE  /\ db'[req'[p].db].context[req'[p].run].there
             /\ \A a \in req'[p].agents : db'[req'[p].db].agents[a].token # NoToken
  <2>1. CASE req'[p] = req[p]
    <3>1. req[p].db \in Databases /\ req[p].run \in Runs /\ req[p].agents \subseteq Agents
      BY <1>3, <2>1 DEF PInv, TypeOK, SessionInv, Sessions
    <3>2. /\ db[req[p].db].context[req[p].run].there
          /\ \A a \in req[p].agents : db[req[p].db].agents[a].token # NoToken
      BY <1>3, <2>1 DEF Accountable, Registered
    <3> QED BY <1>1, <2>1, <3>1, <3>2 DEF RowsStay
  <2>2. CASE /\ db' = db
             /\ db[req'[p].db].context[req'[p].run].there
             /\ \A a \in req'[p].agents : Registered(req'[p].db, a)
    BY <2>2 DEF Registered
  <2> QED BY <1>3, <2>1, <2>2, SubmissionsUnderWay
<1>4. ASSUME NEW d \in Databases, db'[d].subs = db[d].subs,
             NEW i \in DOMAIN db'[d].subs
      PROVE  /\ db'[d].agents[db'[d].subs[i].agent].token # NoToken
             /\ db'[d].context[db'[d].subs[i].run].there
  <2>1. db[d].subs[i] \in Submissions
    BY <1>2, <1>4 DEF DatabaseRows
  <2>2. db[d].subs[i].agent \in Agents /\ db[d].subs[i].run \in Runs
    BY <2>1 DEF Submissions
  <2>3. db[d].agents[db[d].subs[i].agent].token # NoToken /\ db[d].context[db[d].subs[i].run].there
    BY <1>4 DEF Accountable, Registered
  <2> QED BY <1>1, <1>4, <2>2, <2>3 DEF RowsStay
<1>5. ASSUME NEW q \in Requests, SubmitCommit(q),
             NEW d \in Databases, NEW i \in DOMAIN db'[d].subs
      PROVE  /\ db'[d].agents[db'[d].subs[i].agent].token # NoToken
             /\ db'[d].context[db'[d].subs[i].run].there
  <2> DEFINE e == req[q].db
  <2>1. PICK b \in req[q].agents, acc \in BOOLEAN, t \in Times :
          db' = [db EXCEPT ![e].subs = Append(@,
                    [run |-> req[q].run, agent |-> b, accepted |-> acc, at |-> t])]
    BY <1>5 DEF SubmitCommit, SubmissionDb
  <2> DEFINE x == [run |-> req[q].run, agent |-> b, accepted |-> acc, at |-> t]
  <2>2. req[q].st = "ready" /\ req[q].op = "submit"
    BY <1>5 DEF SubmitCommit
  <2>3. /\ req[q].run \in Runs /\ b \in Agents
        /\ db[e].context[req[q].run].there /\ db[e].agents[b].token # NoToken
    BY <2>1, <2>2 DEF PInv, TypeOK, SessionInv, Sessions, Accountable, Registered
  <2>4. x.run = req[q].run /\ x.agent = b
    OBVIOUS
  <2> HIDE DEF x
  <2>5. db'[d] = IF d = e THEN [db[d] EXCEPT !.subs = Append(@, x)] ELSE db[d]
    BY <2>1 DEF x, PInv, TypeOK
  <2>6. CASE d # e
    BY <1>4, <2>5, <2>6
  <2>7. CASE d = e
    <3>1. db'[d].subs = Append(db[d].subs, x) /\ db[d].subs \in Seq(Submissions)
      BY <1>2, <2>5, <2>7 DEF DatabaseRows
    <3>2. \/ i \in DOMAIN db[d].subs /\ db'[d].subs[i] = db[d].subs[i]
          \/ db'[d].subs[i] = x
      BY <1>5, <3>1
    <3>3. CASE db'[d].subs[i] = x
      BY <1>1, <2>3, <2>4, <2>7, <3>3 DEF RowsStay
    <3>4. CASE i \in DOMAIN db[d].subs /\ db'[d].subs[i] = db[d].subs[i]
      <4>1. db[d].subs[i] \in Submissions
        BY <3>1, <3>4
      <4>2. db[d].subs[i].agent \in Agents /\ db[d].subs[i].run \in Runs
        BY <4>1 DEF Submissions
      <4>3. db[d].agents[db[d].subs[i].agent].token # NoToken /\ db[d].context[db[d].subs[i].run].there
        BY <3>4 DEF Accountable, Registered
      <4> QED BY <1>1, <3>4, <4>2, <4>3 DEF RowsStay
    <3> QED BY <3>2, <3>3, <3>4
  <2> QED BY <2>6, <2>7
<1>6. GateKept \/ \E q \in Requests : SubmitCommit(q)
  BY GateKeptOrSubmission
<1>7. ASSUME NEW d \in Databases, NEW i \in DOMAIN db'[d].subs
      PROVE  /\ db'[d].agents[db'[d].subs[i].agent].token # NoToken
             /\ db'[d].context[db'[d].subs[i].run].there
  BY <1>4, <1>5, <1>6, <1>7 DEF GateKept
<1> QED BY <1>3, <1>7 DEF Accountable, Registered

LEMMA AccountableAlways == Spec => []Accountable
<1>1. Init => Accountable
  BY IdleIsSession DEF Init, Accountable, EmptyDatabase
<1>2. PInv /\ Accountable /\ [Next]_vars => Accountable'
  BY AccountableStep
<1> QED BY <1>1, <1>2, Invariance, PTL DEF Spec

LEMMA CountIsSumOf ==
  ASSUME NEW rows, NEW S, NEW f, f = [a \in S |-> rows[a].count]
  PROVE  MapThenSumSet(LAMBDA a : rows[a].count, S) = SumOf(f, S)
<1> DEFINE P(h) == h = [T \in SUBSET S |-> IF T = {} THEN 0
                          ELSE rows[CHOOSE x \in T : TRUE].count + h[T \ {CHOOSE x \in T : TRUE}]]
<1>1. MapThenSumSet(LAMBDA a : rows[a].count, S) = (CHOOSE h : P(h))[S]
  BY DEF MapThenSumSet, MapThenFoldSet
<1>2. SumOf(f, S) = (CHOOSE h : Sums(h, f, S))[S]
  BY SumIsIterated
<1>3. ASSUME NEW h PROVE P(h) <=> Sums(h, f, S)
  <2>1. \A T \in SUBSET S : T # {} => rows[Pick(T)].count = f[Pick(T)]
    BY PickIn
  <2> QED BY <2>1 DEF Sums, Pick
<1> HIDE DEF P
<1>4. (CHOOSE h : P(h)) = (CHOOSE h : Sums(h, f, S))
  BY <1>3, Zenon
<1> QED BY <1>1, <1>2, <1>4

LEMMA DomainIsFinite ==
  ASSUME NEW X, NEW s \in Seq(X)
  PROVE  IsFiniteSet(DOMAIN s)
<1>1. DOMAIN s = 1..Len(s) /\ Len(s) \in Nat
  OBVIOUS
<1> QED BY <1>1, FS_Interval

(* Whatever the submissions are, those of a run by the agents of a set add *)
(* up over the agents.                                                     *)
CountedBy(f, subs, r, S) ==
    /\ f \in [S -> Int]
    /\ \A a \in S : f[a] = Cardinality({i \in DOMAIN subs : subs[i].run = r /\ subs[i].agent = a})

LEMMA CountsAddUp ==
  ASSUME NEW subs \in Seq(Submissions), NEW r, NEW S \in SUBSET Agents,
         NEW f, CountedBy(f, subs, r, S)
  PROVE  SumOf(f, S) = Cardinality({i \in DOMAIN subs : subs[i].run = r /\ subs[i].agent \in S})
<1> DEFINE By(T) == {i \in DOMAIN subs : subs[i].run = r /\ subs[i].agent \in T}
           One(a) == {i \in DOMAIN subs : subs[i].run = r /\ subs[i].agent = a}
<1>1. IsFiniteSet(DOMAIN subs)
  BY DomainIsFinite
<1>2. \A I \in SUBSET (DOMAIN subs) : IsFiniteSet(I) /\ Cardinality(I) \in Nat
  BY <1>1, Subsets
<1>3. \A a \in S : One(a) \in SUBSET (DOMAIN subs)
  OBVIOUS
<1>4. \A T \in SUBSET S : By(T) \in SUBSET (DOMAIN subs)
  OBVIOUS
<1>5. IsFiniteSet(S)
  BY AgentsFinite, FS_Subset
<1>6. f \in [S -> Int] /\ \A a \in S : f[a] = Cardinality(One(a))
  BY DEF CountedBy
<1>7. ASSUME NEW T \in SUBSET S, NEW a \in S \ T
      PROVE  Cardinality(By(T \cup {a})) = Cardinality(One(a)) + Cardinality(By(T))
  <2>1. By(T \cup {a}) = One(a) \cup By(T) /\ One(a) \cap By(T) = {}
    OBVIOUS
  <2>2. IsFiniteSet(One(a)) /\ IsFiniteSet(By(T))
    BY <1>2, <1>3, <1>4
  <2>3. Cardinality(One(a)) \in Nat /\ Cardinality(By(T)) \in Nat
    BY <2>2, FS_CardinalityType
  <2>4. Cardinality(One(a) \cap By(T)) = 0
    BY <2>1, FS_EmptySet
  <2> DEFINE A == One(a)
             B == By(T)
             C == By(T \cup {a})
  <2>5. C = A \cup B
    BY <2>1
  <2>6. IsFiniteSet(A) /\ IsFiniteSet(B) /\ Cardinality(A \cap B) = 0
        /\ Cardinality(A) \in Nat /\ Cardinality(B) \in Nat
    BY <2>2, <2>3, <2>4
  <2> HIDE DEF A, B, C
  <2>7. Cardinality(C) = Cardinality(A) + Cardinality(B)
    <3>1. Cardinality(A \cup B) = Cardinality(A) + Cardinality(B) - Cardinality(A \cap B)
      BY <2>6, FS_Union
    <3> QED BY <2>5, <2>6, <3>1
  <2> QED BY <2>7 DEF A, B, C
<1>8. By({}) = {} /\ By(S) = {i \in DOMAIN subs : subs[i].run = r /\ subs[i].agent \in S}
  OBVIOUS
<1>9. Cardinality(By({})) = 0
  BY <1>8, FS_EmptySet
<1> HIDE DEF By, One
<1>10. PICK h : SumTable(h, f, S) /\ SumOf(f, S) = h[S]
  BY <1>5, <1>6, SumsUnfold
<1> DEFINE G == {T \in SUBSET S : h[T] = Cardinality(By(T))}
<1>11. {} \in G
  BY <1>9, <1>10 DEF SumTable
<1>12. ASSUME NEW T \in SUBSET S, NEW a \in S \ T, T \in G
       PROVE  T \cup {a} \in G
  <2>1. T \cup {a} \in SUBSET S /\ a \in S
    OBVIOUS
  <2>2. h[T \cup {a}] = Cardinality(One(a)) + Cardinality(By(T))
    BY <1>6, <1>10, <1>12 DEF SumTable
  <2> QED BY <1>7, <2>1, <2>2
<1> HIDE DEF G
<1>13. \A T \in SUBSET S : T \in G
  BY <1>5, <1>11, <1>12, BuildUp
<1>14. S \in G
  BY <1>13
<1> QED BY <1>8, <1>10, <1>14 DEF G

(* The rows of a review add up to its total: no submission is by an agent  *)
(* without a row, and no run with submissions is without a context         *)
(* (_build_compass_review_payload, platform.py:412).                       *)
THEOREM ReviewsAddUp == Spec => []ReviewAddsUp
<1>1. ASSUME PInv, Accountable, NEW d \in Databases, NEW r \in Runs
      PROVE  /\ MapThenSumSet(LAMBDA a : ReviewRows(d, r)[a].count, DOMAIN ReviewRows(d, r))
                  = ReviewTotal(d, r)
             /\ ReviewTotal(d, r) > 0 => db[d].context[r].there
  <2> DEFINE subs == db[d].subs
             S == {a \in Agents : Registered(d, a)}
             rows == ReviewRows(d, r)
             f == [a \in S |-> Cardinality({i \in DOMAIN subs : subs[i].run = r /\ subs[i].agent = a})]
             Mine == {i \in DOMAIN subs : subs[i].run = r}
  <2>1. subs \in Seq(Submissions)
    BY <1>1 DEF PInv, TypeOK, DatabaseRows
  <2>2. DOMAIN rows = S /\ f = [a \in S |-> rows[a].count]
    BY DEF ReviewRows, SubsOf, Of
  <2>3. MapThenSumSet(LAMBDA a : rows[a].count, S) = SumOf(f, S)
    <3> HIDE DEF S, f, rows
    <3> QED BY <2>2, CountIsSumOf
  <2>4. SumOf(f, S) = Cardinality({i \in DOMAIN subs : subs[i].run = r /\ subs[i].agent \in S})
    <3>1. S \in SUBSET Agents
      OBVIOUS
    <3>2. CountedBy(f, subs, r, S)
      <4>1. IsFiniteSet(DOMAIN subs)
        BY <2>1, DomainIsFinite
      <4>2. \A a \in S : {i \in DOMAIN subs : subs[i].run = r /\ subs[i].agent = a} \in SUBSET (DOMAIN subs)
        OBVIOUS
      <4>3. \A I \in SUBSET (DOMAIN subs) : Cardinality(I) \in Nat
        BY <4>1, Subsets
      <4> QED BY <4>2, <4>3 DEF CountedBy
    <3> HIDE DEF S, subs, f
    <3> QED BY <2>1, <3>1, <3>2, CountsAddUp
  <2>5. \A i \in DOMAIN subs : subs[i].agent \in S /\ db[d].context[subs[i].run].there
    <3>1. \A i \in DOMAIN subs : subs[i] \in Submissions
      BY <2>1
    <3> QED BY <1>1, <3>1 DEF Accountable, Submissions
  <2>6. {i \in DOMAIN subs : subs[i].run = r /\ subs[i].agent \in S} = Mine
    BY <2>5
  <2>7. ReviewTotal(d, r) = Cardinality(Mine)
    BY DEF ReviewTotal
  <2>8. ReviewTotal(d, r) > 0 => db[d].context[r].there
    <3>1. Mine = {} => Cardinality(Mine) = 0
      BY FS_EmptySet
    <3> QED BY <2>5, <2>7, <3>1
  <2> QED BY <2>2, <2>3, <2>4, <2>6, <2>7, <2>8
<1>2. PInv /\ Accountable => ReviewAddsUp
  BY <1>1, Zenon DEF ReviewAddsUp
<1> QED BY <1>2, Invariance, AccountableAlways, PTL

-----------------------------------------------------------------------------
(* The scoring of the compass gate: for any instrument whose numbers are   *)
(* whole and any answers.                                                  *)
(* An instrument with whole numbers, as all of the repository's are.       *)
WholeNumbers(file) ==
    /\ file.scale \in Seq(Int) /\ file.maxAbs \subseteq Int /\ file.range \subseteq Int
    /\ \E Questions : file.questions \in Seq(Questions)
    /\ \A i \in DOMAIN file.questions : LET effects == file.questions[i].effects
                                        IN  \A x \in DOMAIN effects : effects[x] \in Int
    /\ \A q \in DOMAIN file.weights : file.weights[q] \in Int

OnAxes(file) == WholeNumbers(file) /\ ValidInstrument(file) /\ file.method = "weighted_axes"

LEMMA Multiplied ==
  ASSUME NEW a \in Int, NEW b \in Int, NEW c \in Int
  PROVE  /\ a * b \in Int
         /\ a * (b + c) = a * b + a * c
         /\ (-a) * b = -(a * b)
         /\ (a * b) * c = a * (b * c)
         /\ c > 0 /\ a * c < b * c => a < b
<1>1. a * (b + c) = a * b + a * c
  OBVIOUS
<1>2. (-a) * b = -(a * b)
  OBVIOUS
<1>3. (a * b) * c = a * (b * c)
  OBVIOUS
<1>4. c > 0 /\ a * c < b * c => a < b
  OBVIOUS
<1> QED BY <1>1, <1>2, <1>3, <1>4

LEMMA Strongest ==
  ASSUME NEW a \in Int, NEW e \in Int, NEW m \in Int, Magnitude(a) <= m
  PROVE  a * e <= m * Magnitude(e) /\ -(m * Magnitude(e)) <= a * e
BY DEF Magnitude

(* Rounding gives the numbers that are not further off than a half.        *)
LEMMA NearestIs ==
  ASSUME NEW n \in Int, NEW d \in Int, d > 0
  PROVE  Nearest(n, d) = {k \in Int : 2 * Magnitude(k * d - n) <= d}
<1> DEFINE q == n \div d
<1>1. q \in Int
  OBVIOUS
<1>2. d * q <= n /\ n < d * q + d
  OBVIOUS
<1> HIDE DEF q
<1>3. ASSUME NEW k \in Int, 2 * Magnitude(k * d - n) <= d
      PROVE  k = q \/ k = q + 1
  <2>1. k * d \in Int /\ d * q \in Int /\ q * d = d * q
    BY <1>1
  <2>2. (q - 1) * d = q * d - d /\ (q + 2) * d = q * d + 2 * d
    BY <1>1
  <2>3. (q - 1) * d < k * d /\ k * d < (q + 2) * d
    BY <1>2, <1>3, <2>1, <2>2 DEF Magnitude
  <2>4. q - 1 < k /\ k < q + 2
    BY <1>1, <2>3, Multiplied
  <2> QED BY <1>1, <2>4
<1>4. Nearest(n, d) = {k \in {q, q + 1} : 2 * Magnitude(k * d - n) <= d}
  BY DEF Nearest, q
<1>5. q + 1 \in Int
  BY <1>1
<1> QED BY <1>1, <1>3, <1>4, <1>5

LEMMA NearestInRange ==
  ASSUME NEW n \in Int, NEW d \in Int, d > 0, NEW b \in Int,
         n <= b * d, -(b * d) <= n, NEW k \in Nearest(n, d)
  PROVE  k \in Int /\ Magnitude(k) <= b
<1>1. k \in {j \in Int : 2 * Magnitude(j * d - n) <= d}
  BY NearestIs
<1>2. k \in Int /\ 2 * Magnitude(k * d - n) <= d
  BY <1>1
<1>3. k * d \in Int /\ b * d \in Int /\ (b + 1) * d = b * d + d /\ (-k) * d = -(k * d)
  BY <1>2
<1>4. k * d < (b + 1) * d /\ (-k) * d < (b + 1) * d
  BY <1>2, <1>3 DEF Magnitude
<1>5. k < b + 1 /\ -k < b + 1
  BY <1>2, <1>4, Multiplied
<1> QED BY <1>2, <1>5 DEF Magnitude

LEMMA NearestOpposite ==
  ASSUME NEW n \in Int, NEW d \in Int, d > 0
  PROVE  Nearest(-n, d) = {-k : k \in Nearest(n, d)}
<1>1. \A k \in Int : Magnitude((-k) * d - (-n)) = Magnitude(k * d - n)
  <2> TAKE k \in Int
  <2>1. (-k) * d = -(k * d) /\ k * d \in Int
    OBVIOUS
  <2> QED BY <2>1 DEF Magnitude
<1>2. -n \in Int
  OBVIOUS
<1> DEFINE m == -n
<1>3. /\ Nearest(n, d) = {k \in Int : 2 * Magnitude(k * d - n) <= d}
      /\ Nearest(m, d) = {k \in Int : 2 * Magnitude(k * d - m) <= d}
  <2>1. m \in Int
    BY <1>2
  <2> HIDE DEF m
  <2> QED BY <2>1, NearestIs
<1>4. ASSUME NEW k \in Nearest(n, d) PROVE -k \in Nearest(m, d) /\ k \in Int
  <2>1. k \in Int /\ -k \in Int
    BY <1>3
  <2>2. Magnitude((-k) * d - m) = Magnitude(k * d - n)
    BY <1>1, <2>1
  <2> QED BY <1>3, <2>1, <2>2
<1>5. ASSUME NEW k \in Nearest(m, d) PROVE -k \in Nearest(n, d) /\ k = -(-k) /\ k \in Int
  <2>1. k \in Int /\ -k \in Int /\ -(-k) = k
    BY <1>3
  <2>2. Magnitude(k * d - m) = Magnitude((-k) * d - n)
    BY <1>1, <2>1
  <2> QED BY <1>3, <2>1, <2>2
<1> QED BY <1>4, <1>5

LEMMA NearestExact ==
  ASSUME NEW b \in Int, NEW d \in Int, d > 0
  PROVE  Nearest(b * d, d) = {b}
<1>1. b * d \in Int
  OBVIOUS
<1>2. Nearest(b * d, d) = {k \in Int : 2 * Magnitude(k * d - b * d) <= d}
  BY <1>1, NearestIs
<1>3. Magnitude(b * d - b * d) = 0
  BY <1>1 DEF Magnitude
<1>4. ASSUME NEW k \in Int, 2 * Magnitude(k * d - b * d) <= d PROVE k = b
  <2>1. k * d \in Int /\ (b - 1) * d = b * d - d /\ (b + 1) * d = b * d + d
    OBVIOUS
  <2>2. (b - 1) * d < k * d /\ k * d < (b + 1) * d
    BY <1>1, <1>4, <2>1 DEF Magnitude
  <2>3. b - 1 < k /\ k < b + 1
    BY <2>2, Multiplied
  <2> QED BY <2>3
<1> QED BY <1>2, <1>3, <1>4

-----------------------------------------------------------------------------
LEMMA SumType ==
  ASSUME NEW S, IsFiniteSet(S), NEW f \in [S -> Int]
  PROVE  SumOf(f, S) \in Int
<1>1. PICK h : SumTable(h, f, S) /\ SumOf(f, S) = h[S]
  BY SumsUnfold
<1> QED BY <1>1 DEF SumTable

LEMMA SumBelow ==
  ASSUME NEW S, IsFiniteSet(S), NEW f \in [S -> Int], NEW g \in [S -> Int], NEW m \in Int,
         \A x \in S : f[x] <= m * g[x]
  PROVE  SumOf(f, S) <= m * SumOf(g, S)
<1>1. PICK h : SumTable(h, f, S) /\ SumOf(f, S) = h[S]
  BY SumsUnfold
<1>2. PICK k : SumTable(k, g, S) /\ SumOf(g, S) = k[S]
  BY SumsUnfold
<1> DEFINE G == {T \in SUBSET S : h[T] <= m * k[T]}
<1>3. {} \in G
  BY <1>1, <1>2 DEF SumTable
<1>4. ASSUME NEW T \in SUBSET S, NEW x \in S \ T, T \in G
      PROVE  T \cup {x} \in G
  <2>1. f[x] \in Int /\ g[x] \in Int /\ h[T] \in Int /\ k[T] \in Int /\ f[x] <= m * g[x]
    BY <1>1, <1>2 DEF SumTable
  <2>2. h[T \cup {x}] = f[x] + h[T] /\ k[T \cup {x}] = g[x] + k[T]
    BY <1>1, <1>2 DEF SumTable
  <2>3. m * (g[x] + k[T]) = m * g[x] + m * k[T] /\ m * g[x] \in Int /\ m * k[T] \in Int
    BY <2>1, Multiplied
  <2>4. h[T] <= m * k[T]
    BY <1>4
  <2>5. f[x] + h[T] <= m * (g[x] + k[T])
    BY <2>1, <2>3, <2>4
  <2>6. T \cup {x} \in SUBSET S
    OBVIOUS
  <2> QED BY <2>2, <2>5, <2>6
<1>5. \A T \in SUBSET S : T \in G
  <2> HIDE DEF G
  <2> QED BY <1>3, <1>4, BuildUp
<1> QED BY <1>1, <1>2, <1>5

LEMMA SumOfMultiples ==
  ASSUME NEW S, IsFiniteSet(S), NEW f \in [S -> Int], NEW g \in [S -> Int], NEW m \in Int,
         \A x \in S : f[x] = m * g[x]
  PROVE  SumOf(f, S) = m * SumOf(g, S)
<1>1. PICK h : SumTable(h, f, S) /\ SumOf(f, S) = h[S]
  BY SumsUnfold
<1>2. PICK k : SumTable(k, g, S) /\ SumOf(g, S) = k[S]
  BY SumsUnfold
<1> DEFINE G == {T \in SUBSET S : h[T] = m * k[T]}
<1>3. {} \in G
  BY <1>1, <1>2 DEF SumTable
<1>4. ASSUME NEW T \in SUBSET S, NEW x \in S \ T, T \in G
      PROVE  T \cup {x} \in G
  <2>1. g[x] \in Int /\ k[T] \in Int /\ f[x] = m * g[x]
    BY <1>2 DEF SumTable
  <2>2. h[T \cup {x}] = f[x] + h[T] /\ k[T \cup {x}] = g[x] + k[T]
    BY <1>1, <1>2 DEF SumTable
  <2>3. m * (g[x] + k[T]) = m * g[x] + m * k[T]
    BY <2>1, Multiplied
  <2>4. h[T] = m * k[T]
    BY <1>4
  <2>5. f[x] + h[T] = m * (g[x] + k[T])
    BY <2>1, <2>3, <2>4
  <2>6. T \cup {x} \in SUBSET S
    OBVIOUS
  <2> QED BY <2>2, <2>5, <2>6
<1>5. \A T \in SUBSET S : T \in G
  <2> HIDE DEF G
  <2> QED BY <1>3, <1>4, BuildUp
<1> QED BY <1>1, <1>2, <1>5

LEMMA GreatestExists ==
  ASSUME NEW S \in SUBSET Int, IsFiniteSet(S), S # {}
  PROVE  Max(S) \in S /\ \A x \in S : x <= Max(S)
<1> DEFINE G == {T \in SUBSET S : T = {} \/ \E m \in T : \A x \in T : x <= m}
<1>1. {} \in G
  OBVIOUS
<1>2. ASSUME NEW T \in SUBSET S, NEW y \in S \ T, T \in G
      PROVE  T \cup {y} \in G
  <2> SUFFICES \E m \in T \cup {y} : \A x \in T \cup {y} : x <= m
    OBVIOUS
  <2>1. CASE T = {}
    BY <2>1
  <2>2. CASE T # {}
    <3>1. PICK m \in T : \A x \in T : x <= m
      BY <1>2, <2>2
    <3>2. m \in Int /\ y \in Int /\ \A x \in T : x \in Int
      OBVIOUS
    <3>3. CASE m <= y
      <4>1. \A x \in T : x <= y
        BY <3>1, <3>2, <3>3
      <4> QED BY <3>2, <4>1
    <3>4. CASE ~ (m <= y)
      BY <3>1, <3>2, <3>4
    <3> QED BY <3>3, <3>4
  <2> QED BY <2>1, <2>2
<1>3. \A T \in SUBSET S : T \in G
  <2> HIDE DEF G
  <2> QED BY <1>1, <1>2, BuildUp
<1>4. \E m \in S : \A x \in S : m >= x
  BY <1>3
<1>5. Max(S) \in S /\ \A x \in S : Max(S) >= x
  BY <1>4 DEF Max
<1> QED BY <1>5

-----------------------------------------------------------------------------
(* The sums of CompassScoring.                                             *)
Contribution(file, answers, axis) ==
    [i \in DOMAIN file.questions |-> answers[file.questions[i].id] * Effect(file, i, axis)]
Reach(file, axis) == [i \in DOMAIN file.questions |-> Magnitude(Effect(file, i, axis))]
Weighted(file, answers) == [q \in QuestionIds(file) |-> answers[q] * Weight(file, q)]

LEMMA AxisTotalIsSum ==
  ASSUME NEW file, NEW answers, NEW axis
  PROVE  AxisTotal(file, answers, axis) = SumOf(Contribution(file, answers, axis), DOMAIN file.questions)
<1> DEFINE S == DOMAIN file.questions
           f == Contribution(file, answers, axis)
           P(h) == h = [T \in SUBSET S |-> IF T = {} THEN 0
              ELSE (answers[file.questions[CHOOSE x \in T : TRUE].id] * Effect(file, CHOOSE x \in T : TRUE, axis))
                     + h[T \ {CHOOSE x \in T : TRUE}]]
<1>1. AxisTotal(file, answers, axis) = (CHOOSE h : P(h))[S]
  BY DEF AxisTotal, MapThenSumSet, MapThenFoldSet
<1>2. SumOf(f, S) = (CHOOSE h : Sums(h, f, S))[S]
  BY SumIsIterated
<1>3. ASSUME NEW h PROVE P(h) <=> Sums(h, f, S)
  <2>1. \A T \in SUBSET S : T # {} =>
           f[Pick(T)] = answers[file.questions[Pick(T)].id] * Effect(file, Pick(T), axis)
    BY PickIn DEF Contribution
  <2> QED BY <2>1 DEF Sums, Pick
<1> HIDE DEF P
<1>4. (CHOOSE h : P(h)) = (CHOOSE h : Sums(h, f, S))
  BY <1>3, Zenon
<1> QED BY <1>1, <1>2, <1>4

LEMMA AxisMaximumIsSum ==
  ASSUME NEW file, NEW axis
  PROVE  AxisMaximum(file, axis) = SumOf(Reach(file, axis), DOMAIN file.questions)
<1> DEFINE S == DOMAIN file.questions
           f == Reach(file, axis)
           P(h) == h = [T \in SUBSET S |-> IF T = {} THEN 0
              ELSE Magnitude(Effect(file, CHOOSE x \in T : TRUE, axis)) + h[T \ {CHOOSE x \in T : TRUE}]]
<1>1. AxisMaximum(file, axis) = (CHOOSE h : P(h))[S]
  BY DEF AxisMaximum, MapThenSumSet, MapThenFoldSet
<1>2. SumOf(f, S) = (CHOOSE h : Sums(h, f, S))[S]
  BY SumIsIterated
<1>3. ASSUME NEW h PROVE P(h) <=> Sums(h, f, S)
  <2>1. \A T \in SUBSET S : T # {} => f[Pick(T)] = Magnitude(Effect(file, Pick(T), axis))
    BY PickIn DEF Reach
  <2> QED BY <2>1 DEF Sums, Pick
<1> HIDE DEF P
<1>4. (CHOOSE h : P(h)) = (CHOOSE h : Sums(h, f, S))
  BY <1>3, Zenon
<1> QED BY <1>1, <1>2, <1>4

LEMMA TotalIsSum ==
  ASSUME NEW file, NEW answers
  PROVE  Total(file, answers) = SumOf(Weighted(file, answers), QuestionIds(file))
<1> DEFINE S == QuestionIds(file)
           f == Weighted(file, answers)
           P(h) == h = [T \in SUBSET S |-> IF T = {} THEN 0
              ELSE (answers[CHOOSE x \in T : TRUE] * Weight(file, CHOOSE x \in T : TRUE))
                     + h[T \ {CHOOSE x \in T : TRUE}]]
<1>1. Total(file, answers) = (CHOOSE h : P(h))[S]
  BY DEF Total, MapThenSumSet, MapThenFoldSet
<1>2. SumOf(f, S) = (CHOOSE h : Sums(h, f, S))[S]
  BY SumIsIterated
<1>3. ASSUME NEW h PROVE P(h) <=> Sums(h, f, S)
  <2>1. \A T \in SUBSET S : T # {} => f[Pick(T)] = answers[Pick(T)] * Weight(file, Pick(T))
    BY PickIn DEF Weighted
  <2> QED BY <2>1 DEF Sums, Pick
<1> HIDE DEF P
<1>4. (CHOOSE h : P(h)) = (CHOOSE h : Sums(h, f, S))
  BY <1>3, Zenon
<1> QED BY <1>1, <1>2, <1>4

LEMMA SequenceFacts ==
  ASSUME NEW X, NEW s \in Seq(X)
  PROVE  /\ IsFiniteSet(DOMAIN s) /\ DOMAIN s = 1..Len(s) /\ Len(s) \in Nat
         /\ ToSet(s) = {s[i] : i \in DOMAIN s} /\ IsFiniteSet(ToSet(s)) /\ ToSet(s) \subseteq X
         /\ s # << >> => ToSet(s) # {} /\ Len(s) > 0
<1>1. DOMAIN s = 1..Len(s) /\ Len(s) \in Nat
  OBVIOUS
<1>2. IsFiniteSet(DOMAIN s)
  BY <1>1, FS_Interval
<1>3. ToSet(s) = {s[i] : i \in DOMAIN s}
  BY DEF ToSet
<1>4. IsFiniteSet(ToSet(s))
  <2> DEFINE f == [i \in DOMAIN s |-> s[i]]
  <2>1. f \in Surjection(DOMAIN s, ToSet(s))
    BY <1>3 DEF Surjection
  <2> QED BY <1>2, <2>1, FS_Surjection
<1>5. ToSet(s) \subseteq X
  BY <1>1, <1>3
<1>6. s # << >> => Len(s) > 0
  BY <1>1
<1>7. s # << >> => ToSet(s) # {}
  BY <1>1, <1>3, <1>6
<1> QED BY <1>1, <1>2, <1>3, <1>4, <1>5, <1>6, <1>7

LEMMA ScaleFacts ==
  ASSUME NEW file, WholeNumbers(file), ValidInstrument(file)
  PROVE  /\ Largest(file) \in Nat
         /\ \A v \in Scale(file) : v \in Int /\ Magnitude(v) <= Largest(file)
         /\ \E v \in Scale(file) : Magnitude(v) = Largest(file)
<1> DEFINE V == Scale(file)
           M == {Magnitude(v) : v \in V}
<1>1. V \subseteq Int /\ IsFiniteSet(V) /\ V # {}
  BY SequenceFacts DEF WholeNumbers, ValidInstrument, Scale
<1>2. M \in SUBSET Int /\ M # {} /\ \A m \in M : m >= 0
  BY <1>1 DEF Magnitude
<1>3. IsFiniteSet(M)
  <2> DEFINE f == [v \in V |-> Magnitude(v)]
  <2>1. f \in Surjection(V, M)
    BY DEF Surjection
  <2> QED BY <1>1, <2>1, FS_Surjection
<1>4. Max(M) \in M /\ \A m \in M : m <= Max(M)
  <2> HIDE DEF M
  <2> QED BY <1>2, <1>3, GreatestExists
<1>5. Largest(file) = Max(M)
  BY DEF Largest
<1>6. \E v \in V : Magnitude(v) = Largest(file)
  BY <1>4, <1>5
<1>7. Largest(file) \in Nat
  BY <1>2, <1>4, <1>5
<1>8. \A v \in V : v \in Int /\ Magnitude(v) <= Largest(file)
  BY <1>1, <1>4, <1>5
<1> QED BY <1>6, <1>7, <1>8

LEMMA QuestionFacts ==
  ASSUME NEW file, WholeNumbers(file), ValidInstrument(file)
  PROVE  /\ IsFiniteSet(DOMAIN file.questions) /\ IsFiniteSet(QuestionIds(file))
         /\ Len(file.questions) \in Nat /\ Len(file.questions) > 0
         /\ QuestionIds(file) = {file.questions[i].id : i \in DOMAIN file.questions}
         /\ \A i, j \in DOMAIN file.questions :
               file.questions[i].id = file.questions[j].id => i = j
         /\ \A i \in DOMAIN file.questions : \A axis : Effect(file, i, axis) \in Int
         /\ \A q : Weight(file, q) \in Int
<1>1. PICK Q : file.questions \in Seq(Q)
  BY DEF WholeNumbers
<1>2. /\ IsFiniteSet(DOMAIN file.questions)
      /\ Len(file.questions) \in Nat /\ Len(file.questions) > 0
  BY <1>1, SequenceFacts DEF ValidInstrument
<1>3. QuestionIds(file) = {file.questions[i].id : i \in DOMAIN file.questions}
  BY DEF QuestionIds, ToSet, Ids
<1>4. IsFiniteSet(QuestionIds(file))
  <2> DEFINE f == [i \in DOMAIN file.questions |-> file.questions[i].id]
  <2>1. f \in Surjection(DOMAIN file.questions, QuestionIds(file))
    BY <1>3 DEF Surjection
  <2> QED BY <1>2, <2>1, FS_Surjection
<1>5. \A i, j \in DOMAIN file.questions : file.questions[i].id = file.questions[j].id => i = j
  BY DEF ValidInstrument, Unique, IsInjective, Ids
<1>6. \A i \in DOMAIN file.questions : \A axis : Effect(file, i, axis) \in Int
  BY DEF WholeNumbers, Effect
<1>7. \A q : Weight(file, q) \in Int
  BY DEF WholeNumbers, Weight
<1> QED BY <1>2, <1>3, <1>4, <1>5, <1>6, <1>7

LEMMA AxisFacts ==
  ASSUME NEW file, OnAxes(file)
  PROVE  /\ AnswerMaxAbs(file) \in Int /\ AnswerMaxAbs(file) > 0
         /\ NormalizedRange(file) \in Int /\ NormalizedRange(file) > 0
         /\ file.maxAbs = {} => AnswerMaxAbs(file) = Largest(file)
<1>1. WholeNumbers(file) /\ ValidInstrument(file) /\ WellFormedAxes(file)
  BY DEF OnAxes, ValidInstrument
<1>2. Largest(file) \in Int
  BY <1>1, ScaleFacts
<1>3. AnswerMaxAbs(file) \in Int /\ AnswerMaxAbs(file) > 0
  BY <1>1, <1>2 DEF AnswerMaxAbs, Given, WholeNumbers, WellFormedAxes
<1>4. Given(file.range, 10) \in Int
  BY <1>1 DEF Given, WholeNumbers
<1>5. NormalizedRange(file) \in Int /\ NormalizedRange(file) > 0
  BY <1>4 DEF NormalizedRange, Magnitude
<1>6. file.maxAbs = {} => AnswerMaxAbs(file) = Largest(file)
  BY DEF AnswerMaxAbs, Given
<1> QED BY <1>3, <1>5, <1>6

LEMMA TotalsTyped ==
  ASSUME NEW file, OnAxes(file), NEW axis, NEW answers \in [QuestionIds(file) -> Int]
  PROVE  /\ Contribution(file, answers, axis) \in [DOMAIN file.questions -> Int]
         /\ Reach(file, axis) \in [DOMAIN file.questions -> Int]
         /\ AxisTotal(file, answers, axis) \in Int
         /\ AxisMaximum(file, axis) \in Int /\ AxisMaximum(file, axis) >= 0
<1> DEFINE D == DOMAIN file.questions
           f == Contribution(file, answers, axis)
           g == Reach(file, axis)
           z == [i \in D |-> 0]
<1>0. WholeNumbers(file) /\ ValidInstrument(file)
  BY DEF OnAxes
<1>1. /\ IsFiniteSet(D) /\ \A i \in D : Effect(file, i, axis) \in Int
      /\ \A i \in D : file.questions[i].id \in QuestionIds(file)
  BY <1>0, QuestionFacts
<1>2. f \in [D -> Int]
  BY <1>1 DEF Contribution
<1>3. g \in [D -> Int] /\ \A i \in D : g[i] >= 0
  BY <1>1 DEF Reach, Magnitude
<1>4. AxisTotal(file, answers, axis) \in Int /\ AxisMaximum(file, axis) = SumOf(g, D)
      /\ SumOf(g, D) \in Int
  <2> HIDE DEF f, g
  <2>1. SumOf(f, D) \in Int /\ SumOf(g, D) \in Int
    BY <1>1, <1>2, <1>3, SumType
  <2>2. AxisTotal(file, answers, axis) = SumOf(f, D)
    BY AxisTotalIsSum DEF f
  <2>3. AxisMaximum(file, axis) = SumOf(g, D)
    BY AxisMaximumIsSum DEF g
  <2> QED BY <2>1, <2>2, <2>3
<1>5. SumOf(g, D) >= 0
  <2>1. z \in [D -> Int] /\ \A i \in D : z[i] = 0
    OBVIOUS
  <2> HIDE DEF z, g
  <2>2. SumOf(z, D) = 0 * SumOf(g, D)
    BY <1>1, <1>3, <2>1, SumOfMultiples
  <2>3. SumOf(z, D) <= 1 * SumOf(g, D)
    <3>1. \A i \in D : z[i] <= 1 * g[i]
      BY <1>3, <2>1
    <3> QED BY <1>1, <1>3, <2>1, <3>1, SumBelow
  <2> QED BY <1>4, <2>2, <2>3
<1> QED BY <1>2, <1>3, <1>4, <1>5

(* No answers score beyond the range of an axis, whatever the effects,     *)
(* unless the file divides by less than the largest answer it allows       *)
(* (_score_weighted_axes, instrument_registry.py:334).                     *)
THEOREM ScoresInRange ==
  ASSUME NEW file, OnAxes(file), AnswerMaxAbs(file) >= Largest(file),
         NEW answers \in [QuestionIds(file) -> Scale(file)], NEW axis
  PROVE  InRangeOn(file, answers, axis)
<1> DEFINE D == DOMAIN file.questions
           f == Contribution(file, answers, axis)
           g == Reach(file, axis)
           a == AnswerMaxAbs(file)
           t == AxisTotal(file, answers, axis)
           m == AxisMaximum(file, axis)
           r == 100 * NormalizedRange(file)
<1>0. WholeNumbers(file) /\ ValidInstrument(file)
  BY DEF OnAxes
<1>1. answers \in [QuestionIds(file) -> Int] /\ \A q \in QuestionIds(file) : Magnitude(answers[q]) <= a
  <2>1. \A v \in Scale(file) : v \in Int /\ Magnitude(v) \in Int /\ Magnitude(v) <= Largest(file)
    BY <1>0, ScaleFacts DEF Magnitude
  <2>2. Largest(file) \in Int /\ a \in Int
    BY <1>0, ScaleFacts, AxisFacts
  <2>3. \A q \in QuestionIds(file) : answers[q] \in Scale(file)
    OBVIOUS
  <2> QED BY <2>1, <2>2, <2>3
<1>2. IsFiniteSet(D) /\ a \in Int /\ a > 0 /\ r \in Int /\ r > 0
  BY <1>0, QuestionFacts, AxisFacts
<1>3. f \in [D -> Int] /\ g \in [D -> Int] /\ t \in Int /\ m \in Int /\ m >= 0
  BY <1>1, TotalsTyped
<1>4. \A i \in D : f[i] <= a * g[i] /\ -f[i] <= a * g[i]
  <2> SUFFICES ASSUME NEW i \in D PROVE f[i] <= a * g[i] /\ -f[i] <= a * g[i]
    OBVIOUS
  <2> DEFINE n == answers[file.questions[i].id]
             e == Effect(file, i, axis)
  <2>1. n \in Int /\ Magnitude(n) <= a /\ e \in Int
    BY <1>0, <1>1, QuestionFacts
  <2>2. f[i] = n * e /\ g[i] = Magnitude(e) /\ Magnitude(e) \in Int
    BY <2>1 DEF Contribution, Reach, Magnitude
  <2> HIDE DEF n, e, f, g, a
  <2>3. n * e <= a * Magnitude(e) /\ -(a * Magnitude(e)) <= n * e
    BY <1>2, <2>1, Strongest
  <2>4. n * e \in Int /\ a * Magnitude(e) \in Int
    BY <1>2, <2>1, <2>2
  <2> QED BY <2>2, <2>3, <2>4
<1>5. t = SumOf(f, D) /\ m = SumOf(g, D)
  BY AxisTotalIsSum, AxisMaximumIsSum
<1>6. t <= a * m
  <2> HIDE DEF f, g, a, D
  <2> QED BY <1>2, <1>3, <1>4, <1>5, SumBelow
<1>7. -t <= a * m
  <2> DEFINE u == [i \in D |-> -f[i]]
  <2>1. u \in [D -> Int] /\ \A i \in D : u[i] = (-1) * f[i] /\ u[i] <= a * g[i]
    BY <1>3, <1>4
  <2> HIDE DEF f, g, a, D, u
  <2>2. SumOf(u, D) = (-1) * SumOf(f, D)
    BY <1>2, <1>3, <2>1, SumOfMultiples
  <2>3. SumOf(u, D) <= a * SumOf(g, D)
    BY <1>2, <1>3, <2>1, SumBelow
  <2> QED BY <1>3, <1>5, <2>2, <2>3
<1>8. CASE m = 0
  BY <1>2, <1>8 DEF InRangeOn, AxisScore, Magnitude
<1>9. CASE m # 0
  <2> DEFINE d == a * m
             n == r * t
  <2> HIDE DEF a, m, t, r
  <2>1. d \in Int /\ d > 0 /\ n \in Int
    BY <1>2, <1>3, <1>9
  <2>2. n <= r * d /\ -(r * d) <= n
    <3>1. t <= d /\ -d <= t
      BY <1>3, <1>6, <1>7, <2>1
    <3> HIDE DEF d
    <3>2. r * t <= r * d /\ r * (-d) <= r * t
      BY <1>2, <1>3, <2>1, <3>1
    <3>3. r * (-d) = -(r * d)
      BY <1>2, <2>1
    <3> QED BY <3>2, <3>3
  <2>3. AxisScore(file, answers, axis) = Nearest(n, d)
    BY <1>9 DEF AxisScore, a, m, t, r
  <2> HIDE DEF n, d
  <2>4. \A k \in Nearest(n, d) : Magnitude(k) <= r
    BY <1>2, <2>1, <2>2, NearestInRange
  <2> QED BY <2>3, <2>4 DEF InRangeOn, r
<1> QED BY <1>8, <1>9

(* Answers to the opposite of one another score the opposite, on every     *)
(* axis and with the rounding (_score_weighted_axes).                      *)
THEOREM OppositeAnswers ==
  ASSUME NEW file, OnAxes(file), NEW answers \in [QuestionIds(file) -> Int], NEW axis
  PROVE  OppositeOn(file, answers, axis)
<1> DEFINE D == DOMAIN file.questions
           f == Contribution(file, answers, axis)
           u == Contribution(file, Against(answers), axis)
           a == AnswerMaxAbs(file)
           t == AxisTotal(file, answers, axis)
           v == AxisTotal(file, Against(answers), axis)
           m == AxisMaximum(file, axis)
           r == 100 * NormalizedRange(file)
<1>0. WholeNumbers(file) /\ ValidInstrument(file)
  BY DEF OnAxes
<1>1. Against(answers) \in [QuestionIds(file) -> Int]
  BY DEF Against
<1>2. IsFiniteSet(D) /\ a \in Int /\ a > 0 /\ r \in Int
  BY <1>0, QuestionFacts, AxisFacts
<1>3. f \in [D -> Int] /\ u \in [D -> Int] /\ t \in Int /\ m \in Int /\ m >= 0
  BY <1>1, TotalsTyped
<1>4. \A i \in D : u[i] = (-1) * f[i]
  <2> SUFFICES ASSUME NEW i \in D PROVE u[i] = (-1) * f[i]
    OBVIOUS
  <2> DEFINE q == file.questions[i].id
             e == Effect(file, i, axis)
  <2>1. q \in QuestionIds(file) /\ e \in Int
    BY <1>0, QuestionFacts
  <2>2. answers[q] \in Int /\ Against(answers)[q] = -answers[q]
    BY <2>1 DEF Against
  <2>3. f[i] = answers[q] * e /\ u[i] = (-answers[q]) * e
    BY <2>2 DEF Contribution
  <2> HIDE DEF q, e, f, u
  <2> QED BY <2>1, <2>2, <2>3
<1>5. v = -t
  <2>1. t = SumOf(f, D) /\ v = SumOf(u, D)
    BY AxisTotalIsSum
  <2> HIDE DEF f, u, D
  <2>2. SumOf(u, D) = (-1) * SumOf(f, D)
    BY <1>2, <1>3, <1>4, SumOfMultiples
  <2> QED BY <1>3, <2>1, <2>2
<1>6. CASE m = 0
  BY <1>6 DEF OppositeOn, AxisScore, Negated
<1>7. CASE m # 0
  <2> DEFINE d == a * m
             n == r * t
  <2> HIDE DEF a, m, t, r, v
  <2>1. d \in Int /\ d > 0 /\ n \in Int
    BY <1>2, <1>3, <1>7
  <2>2. r * v = -n
    BY <1>2, <1>3, <1>5
  <2>3. /\ AxisScore(file, answers, axis) = Nearest(n, d)
        /\ AxisScore(file, Against(answers), axis) = Nearest(-n, d)
    BY <1>7, <2>2 DEF AxisScore, a, m, t, r, v
  <2> HIDE DEF n, d
  <2>4. Nearest(-n, d) = {-k : k \in Nearest(n, d)}
    BY <2>1, NearestOpposite
  <2> QED BY <2>3, <2>4 DEF OppositeOn, Negated
<1> QED BY <1>6, <1>7

LEMMA ScoresAreNumbers ==
  ASSUME NEW file, OnAxes(file), NEW answers \in [QuestionIds(file) -> Int], NEW axis
  PROVE  AxisScore(file, answers, axis) \subseteq Int
<1> DEFINE n == 100 * NormalizedRange(file) * AxisTotal(file, answers, axis)
           d == AnswerMaxAbs(file) * AxisMaximum(file, axis)
<1>1. /\ AnswerMaxAbs(file) \in Int /\ AnswerMaxAbs(file) > 0
      /\ NormalizedRange(file) \in Int
      /\ AxisTotal(file, answers, axis) \in Int
      /\ AxisMaximum(file, axis) \in Int /\ AxisMaximum(file, axis) >= 0
  BY AxisFacts, TotalsTyped
<1>2. CASE AxisMaximum(file, axis) = 0
  BY <1>2 DEF AxisScore
<1>3. CASE AxisMaximum(file, axis) # 0
  <2>1. n \in Int /\ d \in Int /\ d > 0
    BY <1>1, <1>3
  <2>2. AxisScore(file, answers, axis) = Nearest(n, d)
    BY <1>3 DEF AxisScore
  <2> HIDE DEF n, d
  <2> QED BY <2>1, <2>2, NearestIs
<1> QED BY <1>2, <1>3

LEMMA QuadrantAcross ==
  ASSUME NEW x \in Int, NEW y \in Int, x # 0, y # 0
  PROVE  Quadrant(-x, -y) = Opposite(Quadrant(x, y))
<1>1. Magnitude(-x) = Magnitude(x) /\ Magnitude(-y) = Magnitude(y)
  BY DEF Magnitude
<1>2. CASE Magnitude(x) < 75 /\ Magnitude(y) < 75
  BY <1>1, <1>2 DEF Quadrant, Opposite
<1>3. CASE ~ (Magnitude(x) < 75 /\ Magnitude(y) < 75)
  <2>1. (-y >= 0) = (~ (y >= 0)) /\ (-x < 0) = (~ (x < 0))
    OBVIOUS
  <2>2. /\ Quadrant(x, y) = IF y >= 0 THEN (IF x < 0 THEN "authoritarian_left" ELSE "authoritarian_right")
                            ELSE (IF x < 0 THEN "libertarian_left" ELSE "libertarian_right")
        /\ Quadrant(-x, -y) = IF -y >= 0 THEN (IF -x < 0 THEN "authoritarian_left" ELSE "authoritarian_right")
                              ELSE (IF -x < 0 THEN "libertarian_left" ELSE "libertarian_right")
    BY <1>1, <1>3 DEF Quadrant
  <2> QED BY <2>1, <2>2 DEF Opposite
<1> QED BY <1>2, <1>3

(* ... and fall in the opposite quadrant, unless the point may be on a     *)
(* line between two of them (_resolve_quadrant).                           *)
THEOREM OppositeQuadrants ==
  ASSUME NEW file, OnAxes(file), NEW answers \in [QuestionIds(file) -> Int],
         \A i \in {1, 2} : 0 \notin AxisScore(file, answers, PrimaryAxes(file)[i])
  PROVE  OppositeQuadrant(file, answers)
<1> DEFINE A == PrimaryAxes(file)[1]
           B == PrimaryAxes(file)[2]
           X == AxisScore(file, answers, A)
           Y == AxisScore(file, answers, B)
           here == Quadrants(file, answers)
           across == Quadrants(file, Against(answers))
<1>1. X \subseteq Int /\ Y \subseteq Int /\ 0 \notin X /\ 0 \notin Y
  BY ScoresAreNumbers
<1>2. /\ AxisScore(file, Against(answers), A) = {-k : k \in X}
      /\ AxisScore(file, Against(answers), B) = {-k : k \in Y}
  BY OppositeAnswers DEF OppositeOn, Negated
<1>3. /\ \A q : q \in here <=> \E x \in X, y \in Y : q = Quadrant(x, y)
      /\ \A q : q \in across <=> \E x \in {-k : k \in X}, y \in {-k : k \in Y} : q = Quadrant(x, y)
  BY <1>2 DEF Quadrants
<1> HIDE DEF X, Y, here, across
<1>4. \A x \in X, y \in Y : Quadrant(-x, -y) = Opposite(Quadrant(x, y))
  <2> SUFFICES ASSUME NEW x \in X, NEW y \in Y
               PROVE  Quadrant(-x, -y) = Opposite(Quadrant(x, y))
    OBVIOUS
  <2>1. x \in Int /\ y \in Int /\ x # 0 /\ y # 0
    BY <1>1
  <2> QED BY <2>1, QuadrantAcross
<1>5. across \subseteq {Opposite(q) : q \in here}
  <2> SUFFICES ASSUME NEW p \in across
               PROVE  \E q \in here : p = Opposite(q)
    OBVIOUS
  <2>1. PICK x \in X, y \in Y : p = Quadrant(-x, -y)
    BY <1>3
  <2>2. Quadrant(x, y) \in here
    BY <1>3
  <2> QED BY <1>4, <2>1, <2>2
<1>6. {Opposite(q) : q \in here} \subseteq across
  <2> SUFFICES ASSUME NEW q \in here
               PROVE  Opposite(q) \in across
    OBVIOUS
  <2>1. PICK x \in X, y \in Y : q = Quadrant(x, y)
    BY <1>3
  <2>2. -x \in {-k : k \in X} /\ -y \in {-k : k \in Y}
    OBVIOUS
  <2>3. Quadrant(-x, -y) \in across
    BY <1>3, <2>2
  <2> QED BY <1>4, <2>1, <2>3
<1>7. across = {Opposite(q) : q \in here}
  BY <1>5, <1>6
<1> QED BY <1>7 DEF OppositeQuadrant, across, here

(* The end of an axis that some question has an effect on can be reached,  *)
(* by the strongest answers, each in the direction of its effect           *)
(* (_score_weighted_axes); provided the scale has both signs and the file  *)
(* gives no number of its own to divide by.                                *)
THEOREM EndsAreReached ==
  ASSUME NEW file, OnAxes(file), file.maxAbs = {}, Scale(file) = Negated(Scale(file)),
         NEW axis, AxisMaximum(file, axis) > 0
  PROVE  \E answers \in [QuestionIds(file) -> Scale(file)] : AtTheEnd(file, answers, axis)
<1> DEFINE D == DOMAIN file.questions
           L == Largest(file)
           At(q) == CHOOSE i \in D : file.questions[i].id = q
           answers == [q \in QuestionIds(file) |->
                          IF Effect(file, At(q), axis) < 0 THEN -L ELSE L]
           f == Contribution(file, answers, axis)
           g == Reach(file, axis)
           m == AxisMaximum(file, axis)
           r == 100 * NormalizedRange(file)
<1>0. WholeNumbers(file) /\ ValidInstrument(file)
  BY DEF OnAxes
<1>1. L \in Int /\ AnswerMaxAbs(file) = L /\ L > 0 /\ r \in Int
  BY <1>0, ScaleFacts, AxisFacts
<1>2. L \in Scale(file) /\ -L \in Scale(file)
  <2>1. PICK v \in Scale(file) : v \in Int /\ Magnitude(v) = L
    BY <1>0, ScaleFacts
  <2>2. -v \in Scale(file)
    BY <2>1 DEF Negated
  <2>3. v = L \/ v = -L
    BY <2>1 DEF Magnitude
  <2>4. -(-L) = L
    BY <1>1
  <2> QED BY <2>1, <2>2, <2>3, <2>4
<1>3. answers \in [QuestionIds(file) -> Scale(file)]
  BY <1>2
<1>4. \A i \in D : /\ file.questions[i].id \in QuestionIds(file)
                   /\ At(file.questions[i].id) = i
                   /\ Effect(file, i, axis) \in Int
  BY <1>0, QuestionFacts
<1>5. answers \in [QuestionIds(file) -> Int]
  BY <1>1
<1>6. f \in [D -> Int] /\ g \in [D -> Int] /\ m \in Int /\ IsFiniteSet(D)
  <2> HIDE DEF answers
  <2> QED BY <1>0, <1>5, TotalsTyped, QuestionFacts
<1>7. \A i \in D : f[i] = L * g[i]
  <2> SUFFICES ASSUME NEW i \in D PROVE f[i] = L * g[i]
    OBVIOUS
  <2> DEFINE e == Effect(file, i, axis)
  <2>1. answers[file.questions[i].id] = IF e < 0 THEN -L ELSE L
    BY <1>4
  <2>2. f[i] = (IF e < 0 THEN -L ELSE L) * e /\ g[i] = IF e < 0 THEN -e ELSE e
    <3> HIDE DEF answers
    <3> QED BY <2>1 DEF Contribution, Reach, Magnitude
  <2>3. e \in Int
    BY <1>4
  <2> HIDE DEF e, f, g, L
  <2>4. (-L) * e = L * (-e)
    BY <1>1, <2>3
  <2> QED BY <2>2, <2>4
<1>8. AxisTotal(file, answers, axis) = L * m
  <2>1. AxisTotal(file, answers, axis) = SumOf(f, D) /\ m = SumOf(g, D)
    BY AxisTotalIsSum, AxisMaximumIsSum
  <2> HIDE DEF f, g, D, L, answers
  <2> QED BY <1>1, <1>6, <1>7, <2>1, SumOfMultiples
<1>9. AxisScore(file, answers, axis) = {r}
  <2> DEFINE d == L * m
  <2>1. d \in Int /\ d > 0
    BY <1>1, <1>6
  <2>2. AxisScore(file, answers, axis) = Nearest(r * d, d)
    <3> HIDE DEF answers, L
    <3> QED BY <1>1, <1>8 DEF AxisScore
  <2> HIDE DEF d, r
  <2> QED BY <1>1, <2>1, <2>2, NearestExact
<1> HIDE DEF answers
<1> QED BY <1>3, <1>9 DEF AtTheEnd

(* The mean of a weighted sum is on the side its classification says: no   *)
(* rounding to three digits turns a total into zero, with fewer than two   *)
(* thousand questions (_score_weighted_sum).                               *)
THEOREM MeanMatchesClass ==
  ASSUME NEW file, WholeNumbers(file), ValidInstrument(file), Len(file.questions) < 2000,
         NEW answers \in [QuestionIds(file) -> Int]
  PROVE  MeanAgrees(file, answers)
<1> DEFINE t == Total(file, answers)
           d == Len(file.questions)
<1>1. d \in Int /\ d > 0 /\ IsFiniteSet(QuestionIds(file)) /\ \A q : Weight(file, q) \in Int
  BY QuestionFacts
<1>2. t \in Int
  <2>1. Weighted(file, answers) \in [QuestionIds(file) -> Int]
    BY <1>1 DEF Weighted
  <2> QED BY <1>1, <2>1, TotalIsSum, SumType
<1> SUFFICES ASSUME NEW k \in Nearest(1000 * t, d)
             PROVE  Classification(k) = Classification(t)
  BY DEF MeanAgrees, MeanScore
<1> HIDE DEF t, d
<1>3. k \in Int /\ 2 * Magnitude(k * d - 1000 * t) <= d
  BY <1>1, <1>2, NearestIs
<1>4. k * d \in Int /\ (k > 0 => k * d >= d) /\ (k < 0 => k * d <= -d) /\ (k = 0 => k * d = 0)
  BY <1>1, <1>3
<1>5. d < 2000
  BY DEF d
<1>6. (t > 0 => k > 0) /\ (t < 0 => k < 0) /\ (t = 0 => k = 0)
  BY <1>1, <1>2, <1>3, <1>4, <1>5 DEF Magnitude
<1> QED BY <1>2, <1>3, <1>6 DEF Classification

(* What is taken answers every question, with a value of the scale and     *)
(* under the key that is looked up; and is never a submission that raises  *)
(* an exception (validate_submission_answers, instrument_registry.py:255). *)
THEOREM TakenIsComplete ==
  ASSUME NEW file, NEW raw, Taken(file, raw)
  PROVE  Complete(file, raw) /\ ~ RaisesOn(file, raw)
<1>1. ~ RaisesOn(file, raw)
  BY DEF Taken, RaisesOn
<1>2. ASSUME NEW q \in QuestionIds(file)
      PROVE  AnswerTo(raw, q).form = "number" /\ AnswerTo(raw, q).n \in Scale(file)
  <2>1. PICK i \in DOMAIN file.questions : file.questions[i].id = q
    BY DEF QuestionIds, ToSet, Ids
  <2>2. i \notin Unusable(file, raw)
    BY DEF Taken
  <2> QED BY <2>1, <2>2 DEF Unusable
<1>3. \A q \in QuestionIds(file) : <<q, "exact">> \in DOMAIN raw
  BY <1>2 DEF AnswerTo, Nothing
<1>4. Answers(file, raw) \in [QuestionIds(file) -> Scale(file)]
  BY <1>2 DEF Answers
<1> QED BY <1>1, <1>3, <1>4 DEF Complete
================================================================================
