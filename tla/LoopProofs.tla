----------------------------- MODULE LoopProofs -----------------------------
(***************************************************************************)
(* What the loops of the code compute, for input of any length: the static *)
(* verdict on a harness specification, the chaos and the scenarios of a    *)
(* load test, the decoder and the mock streams, and the alias tables of    *)
(* the rewrite.                                                            *)
(*                                                                         *)
(* The loops are folds.  A fold is first shown to have a trace: the value  *)
(* after each of the elements, from which induction over the length (a     *)
(* set of naturals that is closed under successor) proves what it is.      *)
(***************************************************************************)
EXTENDS Kraken, DeadlockProbe, WireFormat, ModelRewrite, WellFoundedInduction, FiniteSetTheorems,
        TLAPS

-----------------------------------------------------------------------------
(* Induction, and folds in general. *)

\* A set that holds 0 and with every natural its successor holds all of them.
LEMMA SetInduction ==
  ASSUME NEW T, 0 \in T, \A n \in Nat : n \in T => n + 1 \in T
  PROVE  Nat \subseteq T
<1> DEFINE U == {n \in Nat : n \notin T}
           R == OpToRel(<, Nat)
<1>1. IsWellFoundedOn(R, Nat)
  BY NatLessThanWellFounded
<1>2. \A x, y \in Nat : y < x => <<y, x>> \in R
  BY DEF OpToRel
<1> HIDE DEF R
<1>3. U # {} => \E x \in U : \A y \in U : ~(<<y, x>> \in R)
  BY <1>1, WFMin, U \subseteq Nat
<1> SUFFICES ASSUME U # {} PROVE FALSE
  OBVIOUS
<1>4. PICK x \in U : \A y \in U : ~(<<y, x>> \in R)
  BY <1>3
<1>5. x \in Nat /\ x # 0 /\ x - 1 \in Nat
  OBVIOUS
<1>6. x - 1 \in T
  <2>1. <<x - 1, x>> \in R
    BY <1>2, <1>5
  <2>2. x - 1 \notin U
    BY <2>1, <1>4
  <2> QED BY <2>2, <1>5
<1> QED BY <1>5, <1>6

\* What holds of 0 and goes from one index to the next holds up to the last.
LEMMA RangeInduction ==
  ASSUME NEW n \in Nat, NEW T, 0 \in T, \A k \in 1..n : k - 1 \in T => k \in T
  PROVE  0..n \subseteq T
<1> DEFINE U == {k \in Nat : k <= n => k \in T}
<1>1. 0 \in U
  OBVIOUS
<1>2. \A k \in Nat : k \in U => k + 1 \in U
  <2> SUFFICES ASSUME NEW k \in U, k + 1 <= n PROVE k + 1 \in T
    OBVIOUS
  <2>1. k + 1 \in 1..n /\ (k + 1) - 1 = k /\ k \in T
    OBVIOUS
  <2> QED BY <2>1
<1> HIDE DEF U
<1>3. Nat \subseteq U
  BY <1>1, <1>2, SetInduction
<1> QED BY <1>3 DEF U

\* A sequence of values keeps a type that its first has and every step keeps.
LEMMA StepsStay ==
  ASSUME NEW n \in Nat, NEW S, NEW h, h[0] \in S, \A k \in 1..n : h[k - 1] \in S => h[k] \in S
  PROVE  \A k \in 0..n : h[k] \in S
<1> DEFINE T == {k \in 0..n : h[k] \in S}
<1>1. 0 \in T /\ \A k \in 1..n : k - 1 \in T => k \in T
  OBVIOUS
<1> HIDE DEF T
<1>2. 0..n \subseteq T
  BY <1>1, RangeInduction
<1> QED BY <1>2 DEF T

\* Two that start alike and whose steps keep them alike end alike.
LEMMA StepsAgree ==
  ASSUME NEW n \in Nat, NEW g, NEW h, g[0] = h[0],
         \A k \in 1..n : g[k - 1] = h[k - 1] => g[k] = h[k]
  PROVE  g[n] = h[n]
<1> DEFINE T == {k \in 0..n : g[k] = h[k]}
<1>1. 0 \in T /\ \A k \in 1..n : k - 1 \in T => k \in T
  OBVIOUS
<1> HIDE DEF T
<1>2. 0..n \subseteq T
  BY <1>1, RangeInduction
<1> QED BY <1>2 DEF T

\* The fold of the library takes the indices of a sequence from the last.
LEMMA MaxOf ==
  ASSUME NEW n \in Nat, NEW s \in SUBSET (1..n), n \in s
  PROVE  Max(s) = n
<1>1. n \in s /\ \A y \in s : n >= y
  OBVIOUS
<1>2. \A x \in s : (\A y \in s : x >= y) => x = n
  OBVIOUS
<1> QED BY <1>1, <1>2 DEF Max

\* it goes through the indices as the library's fold does.
SolvesFold(it, a, op, len) ==
  \A s \in SUBSET (1..len) : it[s] = IF s = {} THEN a ELSE op[<<it[s \ {Max(s)}], Max(s)>>]

\* The recursion of the library's fold has a solution, whatever one step does.
LEMMA FoldExists ==
  ASSUME NEW S, NEW a \in S, NEW op, NEW len \in Nat, op \in [S \X (1..len) -> S]
  PROVE  \E it \in [SUBSET (1..len) -> S] : SolvesFold(it, a, op, len)
<1> DEFINE Solves(n, it) == \A s \in SUBSET (1..n) :
               it[s] = IF s = {} THEN a ELSE op[<<it[s \ {Max(s)}], Max(s)>>]
           T == {n \in 0..len : \E it \in [SUBSET (1..n) -> S] : Solves(n, it)}
<1>1. 0 \in T
  <2>1. SUBSET (1..0) = {{}}
    OBVIOUS
  <2> DEFINE it == [s \in {{}} |-> a]
  <2>2. it \in [SUBSET (1..0) -> S] /\ Solves(0, it)
    BY <2>1
  <2> HIDE DEF it, Solves
  <2>3. \E jt \in [SUBSET (1..0) -> S] : Solves(0, jt)
    BY <2>2
  <2>4. 0 \in 0..len
    OBVIOUS
  <2> QED BY <2>3, <2>4
<1>2. ASSUME NEW m \in 1..len, m - 1 \in T PROVE m \in T
  <2>1. PICK g \in [SUBSET (1..m - 1) -> S] : Solves(m - 1, g)
    BY <1>2
  <2> DEFINE it == [s \in SUBSET (1..m) |-> IF m \in s THEN op[<<g[s \ {m}], m>>] ELSE g[s]]
  <2>2. \A s \in SUBSET (1..m) : /\ s \ {m} \in SUBSET (1..m - 1)
                                 /\ m \notin s => s \in SUBSET (1..m - 1)
    OBVIOUS
  <2>3. it \in [SUBSET (1..m) -> S]
    BY <2>2
  <2>4. ASSUME NEW s \in SUBSET (1..m)
        PROVE  it[s] = IF s = {} THEN a ELSE op[<<it[s \ {Max(s)}], Max(s)>>]
    <3>1. CASE m \in s
      <4>1. Max(s) = m
        BY <3>1, MaxOf
      <4>2. s \ {m} \in SUBSET (1..m) /\ m \notin s \ {m}
        OBVIOUS
      <4>3. it[s \ {m}] = g[s \ {m}]
        BY <4>2
      <4> QED BY <3>1, <4>1, <4>3
    <3>2. CASE m \notin s
      <4>1. s \in SUBSET (1..m - 1) /\ it[s] = g[s]
        BY <2>2, <3>2
      <4>2. CASE s = {}
        BY <2>1, <4>1, <4>2
      <4>3. CASE s # {}
        <5>1. s \ {Max(s)} \in SUBSET (1..m - 1) /\ m \notin s \ {Max(s)}
          BY <3>2, <4>1
        <5>2. it[s \ {Max(s)}] = g[s \ {Max(s)}]
          BY <5>1
        <5>3. g[s] = op[<<g[s \ {Max(s)}], Max(s)>>]
          BY <2>1, <4>1, <4>3
        <5> QED BY <4>1, <4>3, <5>2, <5>3
      <4> QED BY <4>2, <4>3
    <3> QED BY <3>1, <3>2
  <2>5. Solves(m, it)
    BY <2>4
  <2> HIDE DEF it, Solves
  <2> QED BY <2>3, <2>5
<1> HIDE DEF T
<1>3. 0..len \subseteq T
  BY <1>1, <1>2, RangeInduction
<1>4. len \in T
  BY <1>3
<1> QED BY <1>4 DEF T, SolvesFold

\* The greatest member of a set of indices is one of them, and the others are
\* not greater.
LEMMA MaxIn ==
  ASSUME NEW n \in Nat, NEW s \in SUBSET (1..n), s # {}
  PROVE  Max(s) \in s /\ \A x \in s : x <= Max(s)
<1> DEFINE Greatest(u) == Max(u) \in u /\ \A x \in u : x <= Max(u)
           T == {m \in 0..n : \A u \in SUBSET (1..m) : u # {} => Greatest(u)}
<1>1. 0 \in T
  <2>1. \A u \in SUBSET (1..0) : u = {}
    OBVIOUS
  <2>2. 0 \in 0..n
    OBVIOUS
  <2>3. \A u \in SUBSET (1..0) : u # {} => Greatest(u)
    BY <2>1
  <2> QED BY <2>2, <2>3
<1>2. ASSUME NEW m \in 1..n, m - 1 \in T PROVE m \in T
  <2> SUFFICES ASSUME NEW u \in SUBSET (1..m), u # {} PROVE Greatest(u)
    OBVIOUS
  <2>1. CASE m \in u
    <3>1. Max(u) = m /\ \A x \in u : x <= m
      BY <2>1, MaxOf
    <3> QED BY <2>1, <3>1
  <2>2. CASE m \notin u
    <3>1. u \in SUBSET (1..m - 1)
      BY <2>2
    <3> QED BY <3>1, <1>2
  <2> QED BY <2>1, <2>2
<1> HIDE DEF T
<1>3. 0..n \subseteq T
  BY <1>1, <1>2, RangeInduction
<1>4. n \in T
  BY <1>3
<1> QED BY <1>4 DEF T

\* The prefixes of the indices, which the fold goes through.
LEMMA IndexPrefixes ==
  ASSUME NEW n \in Nat, NEW k \in 1..n
  PROVE  /\ 1..k \in SUBSET (1..n)
         /\ 1..k # {}
         /\ 1..(k - 1) \in SUBSET (1..n)
         /\ Max(1..k) = k
         /\ (1..k) \ {k} = 1..(k - 1)
<1>1. (1..k) \in SUBSET (1..n) /\ (1..k) # {} /\ (1..(k - 1)) \in SUBSET (1..n)
  OBVIOUS
<1>2. Max(1..k) = k
  BY MaxOf, 1..k \in SUBSET (1..k), k \in 1..k, k \in Nat
<1>3. (1..k) \ {k} = 1..(k - 1)
  OBVIOUS
<1> QED BY <1>1, <1>2, <1>3

-----------------------------------------------------------------------------
(* Harness specifications. *)

\* The actions of a thread, and the threads the builder makes of them.
ThreadAct == Acts \cup {Finish}
Threads == {Append(s, Finish) : s \in Seq(Acts)}

\* What a thread holds after k actions, said without a loop: what it acquired
\* and has not released since.
Unreleased(actions, j, k) == \A m \in j..k : actions[m] # Releases(actions[j].id)
HeldAt(actions, k) ==
  {actions[j].id : j \in {j \in 1..k : actions[j].act = "Acquire" /\ Unreleased(actions, j, k)}}

\* The pairs it took in that order, the first still held.
PairsAt(actions, k) ==
  {<<actions[q[1]].id, actions[q[2]].id>> : q \in
     {q \in (1..k) \X (1..k) :
        /\ q[1] < q[2] /\ actions[q[1]].act = "Acquire" /\ actions[q[2]].act = "Acquire"
        /\ Unreleased(actions, q[1], q[2])}}

\* What the loop carries.
ResourceIn == {a.id : a \in ThreadAct}
HeldSet == [held : SUBSET ResourceIn, pairs : SUBSET (ResourceIn \X ResourceIn)]

\* A release is what Releases says.
LEMMA ActsTyped ==
  ASSUME NEW a \in ThreadAct
  PROVE  a.id \in ResourceIn /\ (a.act = "Release" => a = Releases(a.id))
<1>1. CASE a \in Acts
  <2>1. a \in [act : {"Acquire", "Release", "Gate", "ReleaseGate"}, id : STRING]
    BY <1>1, ProbeActs
  <2> QED BY <2>1 DEF Releases, ResourceIn
<1>2. CASE a = Finish
  <2>1. a.act = "Finish"
    BY <1>2 DEF Finish
  <2> QED BY <2>1 DEF ResourceIn
<1> QED BY <1>1, <1>2 DEF ThreadAct

\* One action of the loop of held_acquisition_pairs keeps its types.
LEMMA HeldAfterTyped ==
  ASSUME NEW p \in HeldSet, NEW a \in ThreadAct
  PROVE  HeldAfter(p, a) \in HeldSet
<1> USE ActsTyped DEF HeldSet
<1>1. CASE a.act = "Acquire"
  BY <1>1 DEF HeldAfter
<1>2. CASE a.act = "Release"
  BY <1>2 DEF HeldAfter
<1>3. CASE a.act \notin {"Acquire", "Release"}
  BY <1>3 DEF HeldAfter
<1> QED BY <1>1, <1>2, <1>3

\* The loop of held_acquisition_pairs has a trace.
LEMMA HeldTrace ==
  ASSUME NEW actions \in Seq(ThreadAct)
  PROVE  \E h : /\ h[0] = [held |-> {}, pairs |-> {}]
                /\ \A k \in 1..Len(actions) : h[k] = HeldAfter(h[k - 1], actions[k])
                /\ HeldAcquisitionPairs(actions) = h[Len(actions)].pairs
<1> DEFINE n == Len(actions)
           a == [held |-> {}, pairs |-> {}]
           Eq(it) == it = [s \in SUBSET (1..n) |->
                             IF s = {} THEN a ELSE HeldAfter(it[s \ {Max(s)}], actions[Max(s)])]
           iter == CHOOSE it : Eq(it)
           op == [q \in HeldSet \X (1..n) |-> HeldAfter(q[1], actions[q[2]])]
<1>0. n \in Nat /\ DOMAIN actions = 1..n /\ \A k \in 1..n : actions[k] \in ThreadAct
  OBVIOUS
<1>1. HeldAcquisitionPairs(actions) = iter[1..n].pairs
  BY <1>0 DEF HeldAcquisitionPairs, FoldLeft, MapThenFoldSet
<1>2. a \in HeldSet /\ op \in [HeldSet \X (1..n) -> HeldSet]
  <2>1. a \in HeldSet
    BY DEF HeldSet
  <2>2. op \in [HeldSet \X (1..n) -> HeldSet]
    <3> HIDE DEF n
    <3> QED BY <1>0, HeldAfterTyped
  <2> QED BY <2>1, <2>2
<1>3. PICK it \in [SUBSET (1..n) -> HeldSet] : SolvesFold(it, a, op, n)
  <2> HIDE DEF op, n, a
  <2> QED BY <1>2, <1>0, FoldExists
<1>4. ASSUME NEW s \in SUBSET (1..n), s # {}
      PROVE  op[<<it[s \ {Max(s)}], Max(s)>>] = HeldAfter(it[s \ {Max(s)}], actions[Max(s)])
  <2>1. Max(s) \in 1..n /\ s \ {Max(s)} \in SUBSET (1..n)
    <3> HIDE DEF n
    <3> QED BY <1>0, <1>4, MaxIn
  <2>2. <<it[s \ {Max(s)}], Max(s)>> \in HeldSet \X (1..n)
    BY <2>1
  <2> QED BY <2>2
<1>5. Eq(it)
  <2> HIDE DEF op, n, a
  <2> QED BY <1>3, <1>4 DEF SolvesFold
<1>6. Eq(iter)
  <2> HIDE DEF Eq
  <2> QED BY <1>5
<1> DEFINE h == [k \in 0..n |-> iter[1..k]]
<1> HIDE DEF iter, n
<1>7. h[0] = a
  BY <1>0, <1>6, 1..0 = {}
<1>8. ASSUME NEW k \in 1..n PROVE h[k] = HeldAfter(h[k - 1], actions[k])
  <2>1. 1..k \in SUBSET (1..n) /\ 1..k # {} /\ Max(1..k) = k /\ (1..k) \ {k} = 1..(k - 1)
    BY <1>0, IndexPrefixes
  <2>2. h[k] = iter[1..k] /\ h[k - 1] = iter[1..(k - 1)]
    BY <1>0
  <2> HIDE DEF h
  <2> QED BY <2>1, <2>2, <1>6, ZenonT(60)
<1>9. h[n] = iter[1..n]
  BY <1>0
<1> HIDE DEF h, a
<1> QED BY <1>1, <1>7, <1>8, <1>9 DEF n, a

\* What a thread holds after one more action.
LEMMA HeldAtNext ==
  ASSUME NEW actions \in Seq(ThreadAct), NEW k \in 1..Len(actions)
  PROVE  HeldAt(actions, k) =
           CASE actions[k].act = "Acquire" -> HeldAt(actions, k - 1) \cup {actions[k].id}
             [] actions[k].act = "Release" -> HeldAt(actions, k - 1) \ {actions[k].id}
             [] OTHER -> HeldAt(actions, k - 1)
<1> DEFINE a == actions[k]
           Old(j) == j \in 1..(k - 1) /\ actions[j].act = "Acquire" /\ Unreleased(actions, j, k - 1)
           New(j) == j \in 1..k /\ actions[j].act = "Acquire" /\ Unreleased(actions, j, k)
<1>0. k \in Nat /\ a \in ThreadAct /\ (a.act = "Release" => a = Releases(a.id))
      /\ (a.act # "Release" => \A r : a # Releases(r))
  BY ActsTyped DEF Releases
<1>1. HeldAt(actions, k) = {actions[j].id : j \in {j \in 1..k : New(j)}}
      /\ HeldAt(actions, k - 1) = {actions[j].id : j \in {j \in 1..(k - 1) : Old(j)}}
  BY DEF HeldAt
<1>2. ASSUME NEW j \in 1..(k - 1)
      PROVE  New(j) <=> Old(j) /\ a # Releases(actions[j].id)
  BY <1>0 DEF Unreleased
<1>3. New(k) <=> a.act = "Acquire"
  <2>1. \A m \in k..k : m = k
    BY <1>0
  <2> QED BY <1>0, <2>1 DEF Unreleased
<1>4. \A j \in 1..k : j = k \/ j \in 1..(k - 1)
  BY <1>0
<1>5. 1..(k - 1) \subseteq 1..k /\ k \in 1..k
  BY <1>0
<1>6. \A r, q : Releases(r) = Releases(q) => r = q
  BY DEF Releases
<1> HIDE DEF New, Old
<1>7. CASE a.act = "Acquire"
  <2>1. HeldAt(actions, k) = HeldAt(actions, k - 1) \cup {a.id}
    BY <1>0, <1>1, <1>2, <1>3, <1>4, <1>5, <1>7
  <2> QED BY <2>1, <1>7
<1>8. CASE a.act = "Release"
  <2>1. HeldAt(actions, k) = HeldAt(actions, k - 1) \ {a.id}
    BY <1>0, <1>1, <1>2, <1>3, <1>4, <1>5, <1>6, <1>8
  <2> QED BY <2>1, <1>8
<1>9. CASE a.act \notin {"Acquire", "Release"}
  <2>1. HeldAt(actions, k) = HeldAt(actions, k - 1)
    BY <1>0, <1>1, <1>2, <1>3, <1>4, <1>5, <1>9
  <2> QED BY <2>1, <1>9
<1> QED BY <1>7, <1>8, <1>9

\* The pairs by the places of their two actions.
LEMMA PairsByPlace ==
  ASSUME NEW actions, NEW k \in Nat, NEW x
  PROVE  x \in PairsAt(actions, k) <=>
           \E i \in 1..k, j \in 1..k :
             /\ i < j /\ actions[i].act = "Acquire" /\ actions[j].act = "Acquire"
             /\ Unreleased(actions, i, j) /\ x = <<actions[i].id, actions[j].id>>
<1>1. ASSUME x \in PairsAt(actions, k)
      PROVE  \E i \in 1..k, j \in 1..k :
               /\ i < j /\ actions[i].act = "Acquire" /\ actions[j].act = "Acquire"
               /\ Unreleased(actions, i, j) /\ x = <<actions[i].id, actions[j].id>>
  <2>1. PICK q \in (1..k) \X (1..k) :
           /\ q[1] < q[2] /\ actions[q[1]].act = "Acquire" /\ actions[q[2]].act = "Acquire"
           /\ Unreleased(actions, q[1], q[2]) /\ x = <<actions[q[1]].id, actions[q[2]].id>>
    BY <1>1 DEF PairsAt
  <2>2. q[1] \in 1..k /\ q[2] \in 1..k
    OBVIOUS
  <2> QED BY <2>1, <2>2
<1>2. ASSUME NEW i \in 1..k, NEW j \in 1..k,
             i < j, actions[i].act = "Acquire", actions[j].act = "Acquire",
             Unreleased(actions, i, j), x = <<actions[i].id, actions[j].id>>
      PROVE  x \in PairsAt(actions, k)
  <2> DEFINE q == <<i, j>>
  <2>1. q \in (1..k) \X (1..k) /\ q[1] = i /\ q[2] = j
    OBVIOUS
  <2> HIDE DEF q
  <2> QED BY <1>2, <2>1 DEF PairsAt
<1> QED BY <1>1, <1>2

\* The pairs after one more action.
LEMMA PairsAtNext ==
  ASSUME NEW actions \in Seq(ThreadAct), NEW k \in 1..Len(actions)
  PROVE  PairsAt(actions, k) =
           IF actions[k].act = "Acquire"
           THEN PairsAt(actions, k - 1) \cup (HeldAt(actions, k - 1) \X {actions[k].id})
           ELSE PairsAt(actions, k - 1)
<1> DEFINE a == actions[k]
           Pair(i, j) == /\ i < j /\ actions[i].act = "Acquire" /\ actions[j].act = "Acquire"
                         /\ Unreleased(actions, i, j)
<1>0. k \in Nat /\ (a.act = "Acquire" => \A r : a # Releases(r))
  BY DEF Releases
<1>1. \A x : x \in PairsAt(actions, k) <=>
        \E i \in 1..k, j \in 1..k : Pair(i, j) /\ x = <<actions[i].id, actions[j].id>>
  BY <1>0, PairsByPlace
<1>2. \A x : x \in PairsAt(actions, k - 1) <=>
        \E i \in 1..(k - 1), j \in 1..(k - 1) : Pair(i, j) /\ x = <<actions[i].id, actions[j].id>>
  BY <1>0, k - 1 \in Nat, PairsByPlace
<1>3. \A i \in 1..(k - 1) : a.act = "Acquire" =>
         (Pair(i, k) <=> actions[i].act = "Acquire" /\ Unreleased(actions, i, k - 1))
  BY <1>0 DEF Unreleased
<1>4. \A r : r \in HeldAt(actions, k - 1) <=>
        \E i \in 1..(k - 1) : actions[i].act = "Acquire" /\ Unreleased(actions, i, k - 1) /\ r = actions[i].id
  BY DEF HeldAt
<1>5. \A i, j \in 1..k : Pair(i, j) => i \in 1..(k - 1) /\ (j \in 1..(k - 1) \/ j = k)
  BY <1>0
<1>6. \A i \in 1..k : Pair(i, k) => a.act = "Acquire"
  OBVIOUS
<1>7. 1..(k - 1) \subseteq 1..k /\ k \in 1..k
  BY <1>0
<1> HIDE DEF Pair
<1>8. CASE a.act = "Acquire"
  <2>1. ASSUME NEW x PROVE x \in PairsAt(actions, k) <=>
          x \in PairsAt(actions, k - 1) \cup (HeldAt(actions, k - 1) \X {a.id})
    <3>1. \A r : r \in HeldAt(actions, k - 1) <=> \E i \in 1..(k - 1) : Pair(i, k) /\ r = actions[i].id
      BY <1>3, <1>4, <1>8
    <3>2. x \in HeldAt(actions, k - 1) \X {a.id} <=>
            \E i \in 1..(k - 1) : Pair(i, k) /\ x = <<actions[i].id, a.id>>
      BY <3>1
    <3> QED BY <3>2, <1>1, <1>2, <1>5, <1>7
  <2> QED BY <2>1, <1>8
<1>9. CASE a.act # "Acquire"
  <2>1. ASSUME NEW x PROVE x \in PairsAt(actions, k) <=> x \in PairsAt(actions, k - 1)
    BY <1>1, <1>2, <1>5, <1>6, <1>7, <1>9
  <2> QED BY <2>1, <1>9
<1> QED BY <1>8, <1>9

\* held_acquisition_pairs collects the pairs taken in that order with no
\* release of the first between them (spec.rs), whatever the actions are.
LEMMA PairsCollected ==
  ASSUME NEW actions \in Seq(ThreadAct)
  PROVE  HeldAcquisitionPairs(actions) = PairsAt(actions, Len(actions))
<1> DEFINE n == Len(actions)
<1>0. n \in Nat
  OBVIOUS
<1>1. PICK h : /\ h[0] = [held |-> {}, pairs |-> {}]
               /\ \A k \in 1..Len(actions) : h[k] = HeldAfter(h[k - 1], actions[k])
               /\ HeldAcquisitionPairs(actions) = h[Len(actions)].pairs
  BY HeldTrace
<1> DEFINE T == {k \in 0..n : h[k] = [held |-> HeldAt(actions, k), pairs |-> PairsAt(actions, k)]}
<1>2. 0 \in T
  <2>1. HeldAt(actions, 0) = {} /\ PairsAt(actions, 0) = {}
    BY DEF HeldAt, PairsAt
  <2>2. 0 \in 0..n
    BY <1>0
  <2> QED BY <1>1, <2>1, <2>2
<1>3. ASSUME NEW k \in 1..n, k - 1 \in T PROVE k \in T
  <2> DEFINE a == actions[k]
             H == HeldAt(actions, k - 1)
             P == PairsAt(actions, k - 1)
  <2>1. h[k - 1] = [held |-> H, pairs |-> P]
    BY <1>3
  <2>2. h[k] = HeldAfter([held |-> H, pairs |-> P], a)
    BY <1>1, <2>1
  <2> HIDE DEF H, P
  <2>3. CASE a.act = "Acquire"
    <3>1. HeldAfter([held |-> H, pairs |-> P], a) = [held |-> H \cup {a.id}, pairs |-> P \cup (H \X {a.id})]
      BY <2>3 DEF HeldAfter
    <3>2. HeldAt(actions, k) = H \cup {a.id} /\ PairsAt(actions, k) = P \cup (H \X {a.id})
      BY <2>3, HeldAtNext, PairsAtNext DEF H, P
    <3> QED BY <2>2, <3>1, <3>2, k \in 0..n
  <2>4. CASE a.act = "Release"
    <3>1. HeldAfter([held |-> H, pairs |-> P], a) = [held |-> H \ {a.id}, pairs |-> P]
      BY <2>4 DEF HeldAfter
    <3>2. HeldAt(actions, k) = H \ {a.id} /\ PairsAt(actions, k) = P
      BY <2>4, HeldAtNext, PairsAtNext DEF H, P
    <3> QED BY <2>2, <3>1, <3>2, k \in 0..n
  <2>5. CASE a.act \notin {"Acquire", "Release"}
    <3>1. HeldAfter([held |-> H, pairs |-> P], a) = [held |-> H, pairs |-> P]
      BY <2>5 DEF HeldAfter
    <3>2. HeldAt(actions, k) = H /\ PairsAt(actions, k) = P
      BY <2>5, HeldAtNext, PairsAtNext DEF H, P
    <3> QED BY <2>2, <3>1, <3>2, k \in 0..n
  <2> QED BY <2>3, <2>4, <2>5
<1> HIDE DEF T, n
<1>4. 0..n \subseteq T
  BY <1>0, <1>2, <1>3, RangeInduction
<1>5. n \in T
  BY <1>0, <1>4
<1> QED BY <1>1, <1>5 DEF T, n

-----------------------------------------------------------------------------
\* The inductive invariant: a thread holds what its actions so far say, and
\* every thread is a list of actions that Finish ends.
DraftOk ==
  \/ draft = NoDraft
  \/ draft.kind = "thread" /\ draft = [kind |-> "thread", actions |-> draft.actions]
     /\ draft.actions \in Seq(Acts)
  \/ draft.kind = "gate"
     /\ draft = [kind |-> "gate", id |-> draft.id, wait_for |-> draft.wait_for, policy |-> draft.policy]

ProbeInv ==
  /\ DraftOk
  /\ probe = [threads |-> probe.threads, resources |-> probe.resources,
              sync_points |-> probe.sync_points]
  /\ probe.threads \in Seq(Threads)
  /\ spec \in Seq(Threads)
  /\ ran \in [DOMAIN spec -> Nat]
  /\ \A i \in DOMAIN spec : ran[i] <= Len(spec[i])
  /\ owns = [i \in DOMAIN spec |-> HeldAt(spec[i], ran[i])]

\* A thread is a list of actions, Finish at its end and only there.
LEMMA ThreadShape ==
  ASSUME NEW s \in Threads
  PROVE  /\ s \in Seq(ThreadAct) /\ Len(s) \in Nat /\ DOMAIN s = 1..Len(s)
         /\ \A k \in DOMAIN s : s[k] = Finish <=> k = Len(s)
<1>1. PICK t \in Seq(Acts) : s = Append(t, Finish)
  BY DEF Threads
<1>2. s \in Seq(ThreadAct) /\ Len(s) \in Nat /\ DOMAIN s = 1..Len(s)
  BY <1>1 DEF ThreadAct
<1>3. Len(s) = Len(t) + 1 /\ s[Len(s)] = Finish /\ \A k \in 1..Len(t) : s[k] = t[k] /\ t[k] \in Acts
  BY <1>1
<1>4. Finish \notin Acts
  BY ProbeActs DEF Finish
<1> QED BY <1>2, <1>3, <1>4

\* No specification is built yet.
LEMMA ProbeInitInv ==
  ProbeInit => ProbeInv
BY DEF ProbeInit, ProbeInv, DraftOk, EmptyProbe, NoSpec

\* The builder and the verdict keep it.
LEMMA ProbeNextInv ==
  ProbeInv /\ [ProbeNext]_probeVars => ProbeInv'
<1> SUFFICES ASSUME ProbeInv, [ProbeNext]_probeVars PROVE ProbeInv'
  OBVIOUS
<1>1. CASE BeginThread
  <2>1. DraftOk'
    BY <1>1 DEF BeginThread, DraftOk
  <2> QED BY <2>1, <1>1 DEF ProbeInv, BeginThread, Drafting
<1>2. CASE ThreadDone
  <2>1. draft.actions \in Seq(Acts)
    BY <1>2 DEF ThreadDone, ProbeInv, DraftOk, NoDraft
  <2>2. Append(draft.actions, Finish) \in Threads
    BY <2>1 DEF Threads
  <2>3. probe' = [threads |-> Append(probe.threads, Append(draft.actions, Finish)),
                  resources |-> probe.resources, sync_points |-> probe.sync_points]
    BY <1>2 DEF ThreadDone, ProbeInv
  <2>4. Append(probe.threads, Append(draft.actions, Finish)) \in Seq(Threads)
    BY <2>2 DEF ProbeInv
  <2>5. probe'.threads \in Seq(Threads)
    BY <2>3, <2>4
  <2>6. DraftOk'
    BY <1>2 DEF ThreadDone, DraftOk
  <2> QED BY <2>3, <2>5, <2>6, <1>2 DEF ProbeInv, ThreadDone, Drafting
<1>3. CASE Build
  <2>1. spec' \in Seq(Threads) /\ probe'.threads \in Seq(Threads)
    BY <1>3 DEF Build, ProbeInv, EmptyProbe
  <2>2. \A i \in DOMAIN spec' : Len(spec'[i]) \in Nat
    BY <2>1, ThreadShape
  <2>3. \A i \in DOMAIN spec' : HeldAt(spec'[i], 0) = {}
    BY DEF HeldAt
  <2>4. DraftOk'
    BY <1>3 DEF Build, ProbeInv, DraftOk
  <2>5. ran' = [i \in DOMAIN spec' |-> 0] /\ owns' = [i \in DOMAIN spec' |-> {}]
    BY <1>3 DEF Build
  <2>6. owns' = [i \in DOMAIN spec' |-> HeldAt(spec'[i], ran'[i])]
    BY <2>3, <2>5
  <2>7. probe' = EmptyProbe
    BY <1>3 DEF Build
  <2>8. ran' \in [DOMAIN spec' -> Nat] /\ \A i \in DOMAIN spec' : ran'[i] <= Len(spec'[i])
    BY <2>2, <2>5
  <2> QED BY <2>1, <2>4, <2>6, <2>7, <2>8 DEF ProbeInv, EmptyProbe
<1>4. CASE SetGate
  <2>1. DraftOk'
    BY <1>4 DEF SetGate, ProbeInv, DraftOk, NoDraft
  <2> QED BY <2>1, <1>4 DEF ProbeInv, SetGate, Drafting
<1>5. CASE GateDone
  <2>1. DraftOk'
    BY <1>5 DEF GateDone, DraftOk
  <2> QED BY <2>1, <1>5 DEF ProbeInv, GateDone, Drafting
<1>6. ASSUME NEW a \in Acts, AddAction(a) PROVE ProbeInv'
  <2>1. draft.kind = "thread" /\ draft = [kind |-> "thread", actions |-> draft.actions]
        /\ draft.actions \in Seq(Acts)
    BY <1>6 DEF AddAction, ProbeInv, DraftOk, NoDraft
  <2>2. draft' = [kind |-> "thread", actions |-> Append(draft.actions, a)]
    BY <1>6, <2>1 DEF AddAction
  <2>3. DraftOk'
    BY <2>1, <2>2 DEF DraftOk
  <2> QED BY <2>3, <1>6 DEF ProbeInv, AddAction, Drafting
<1>7. ASSUME NEW r, DeclareResource(r) PROVE ProbeInv'
  <2>1. DraftOk'
    BY <1>7 DEF DeclareResource, ProbeInv, DraftOk
  <2> QED BY <2>1, <1>7 DEF ProbeInv, DeclareResource, Drafting
<1>8. ASSUME NEW g, BeginGate(g) PROVE ProbeInv'
  <2>1. DraftOk'
    BY <1>8 DEF BeginGate, ProbeInv, DraftOk
  <2> QED BY <2>1, <1>8 DEF ProbeInv, BeginGate, Drafting
<1>9. ASSUME NEW i \in 1..MaxThreads, RunAct(i) PROVE ProbeInv'
  <2> DEFINE k == ran[i] + 1
  <2>1. i \in DOMAIN spec /\ spec[i] \in Threads /\ ran[i] \in Nat /\ k \in 1..Len(spec[i])
    <3>1. i \in DOMAIN spec /\ spec[i] \in Threads /\ ran[i] \in Nat /\ ran[i] < Len(spec[i])
      BY <1>9 DEF RunAct, Running, ProbeInv
    <3> QED BY <3>1, ThreadShape
  <2>2. spec[i] \in Seq(ThreadAct) /\ Len(spec[i]) \in Nat
    BY <2>1, ThreadShape
  <2>3. k - 1 = ran[i]
    BY <2>1
  <2>4. HeldAt(spec[i], k) =
           CASE NextAct(i).act = "Acquire" -> HeldAt(spec[i], ran[i]) \cup {NextAct(i).id}
             [] NextAct(i).act = "Release" -> HeldAt(spec[i], ran[i]) \ {NextAct(i).id}
             [] OTHER -> HeldAt(spec[i], ran[i])
    <3> HIDE DEF k
    <3>1. spec[i][k] = NextAct(i)
      BY DEF NextAct, k
    <3> QED BY <2>1, <2>2, <2>3, <3>1, HeldAtNext
  <2>5. ran' = [ran EXCEPT ![i] = k] /\ spec' = spec
    BY <1>9 DEF RunAct
  <2>6. owns[i] = HeldAt(spec[i], ran[i])
    BY <2>1 DEF ProbeInv
  <2>7. owns' = [owns EXCEPT ![i] = HeldAt(spec[i], k)]
    BY <1>9, <2>4, <2>6 DEF RunAct
  <2> HIDE DEF k
  <2>8. owns' = [j \in DOMAIN spec |-> HeldAt(spec[j], ran'[j])]
    BY <2>1, <2>5, <2>7 DEF ProbeInv
  <2>9. ran' \in [DOMAIN spec -> Nat] /\ \A j \in DOMAIN spec : ran'[j] <= Len(spec[j])
    BY <2>1, <2>2, <2>5 DEF ProbeInv
  <2> QED BY <1>9, <2>5, <2>8, <2>9, ZenonT(60) DEF ProbeInv, RunAct, DraftOk
<1>10. CASE UNCHANGED probeVars
  BY <1>10 DEF probeVars, ProbeInv, DraftOk
<1> QED BY <1>1, <1>2, <1>3, <1>4, <1>5, <1>6, <1>7, <1>8, <1>9, <1>10 DEF ProbeNext

\* What a state that keeps the invariant promises.
LEMMA ProbeInvSound ==
  ProbeInv => ProbesSound
<1> SUFFICES ASSUME ProbeInv PROVE ProbesSound
  OBVIOUS
<1>1. \A i \in DOMAIN spec : spec[i] \in Threads /\ spec[i] \in Seq(ThreadAct) /\ Len(spec[i]) \in Nat
  BY ThreadShape DEF ProbeInv
<1>2. ASSUME MutualWait PROVE DetectsAbbaDeadlock(spec)
  <2>1. PICK i \in DOMAIN spec, j \in DOMAIN spec :
          i # j /\ BlockedOn(i) \cap owns[j] # {} /\ BlockedOn(j) \cap owns[i] # {}
    BY <1>2 DEF MutualWait
  <2>2. ASSUME NEW t \in DOMAIN spec, NEW y \in owns[t], NEW x \in BlockedOn(t)
        PROVE  <<y, x>> \in HeldAcquisitionPairs(spec[t])
    <3> DEFINE k == ran[t] + 1
               s == spec[t]
    <3>1. k \in 1..Len(s) /\ s[k].act = "Acquire" /\ x = s[k].id /\ k - 1 = ran[t]
      BY <1>1 DEF BlockedOn, Running, NextAct, ProbeInv
    <3>2. y \in HeldAt(s, k - 1)
      BY <3>1 DEF ProbeInv
    <3> HIDE DEF k
    <3>3. PICK m \in 1..(k - 1) : s[m].act = "Acquire" /\ Unreleased(s, m, k - 1) /\ y = s[m].id
      BY <3>2 DEF HeldAt
    <3>4. Unreleased(s, m, k)
      <4>1. \A r : s[k] # Releases(r)
        BY <3>1 DEF Releases
      <4>2. \A z \in m..k : z = k \/ z \in m..(k - 1)
        BY <1>1, <3>1
      <4> QED BY <3>3, <4>1, <4>2 DEF Unreleased
    <3>5. m \in 1..Len(s) /\ m < k
      BY <1>1, <3>1
    <3>6. <<y, x>> \in PairsAt(s, Len(s))
      <4> HIDE DEF s
      <4>1. Len(s) \in Nat
        BY <1>1 DEF s
      <4> QED BY <3>1, <3>3, <3>4, <3>5, <4>1, PairsByPlace
    <3> QED BY <3>6, <1>1, PairsCollected
  <2>3. PICK x \in BlockedOn(i) : x \in owns[j]
    BY <2>1
  <2>4. PICK y \in BlockedOn(j) : y \in owns[i]
    BY <2>1
  <2>5. <<y, x>> \in HeldAcquisitionPairs(spec[i]) /\ <<x, y>> \in HeldAcquisitionPairs(spec[j])
    BY <2>2, <2>3, <2>4
  <2>6. AcquisitionPairsConflict(spec[i], spec[j]) /\ AcquisitionPairsConflict(spec[j], spec[i])
    <3>1. \A u, v, a, b : <<u, v>> \in HeldAcquisitionPairs(a) /\ <<v, u>> \in HeldAcquisitionPairs(b)
                           => AcquisitionPairsConflict(a, b)
      <4> SUFFICES ASSUME NEW u, NEW v, NEW a, NEW b, <<u, v>> \in HeldAcquisitionPairs(a),
                          <<v, u>> \in HeldAcquisitionPairs(b)
                   PROVE  AcquisitionPairsConflict(a, b)
        OBVIOUS
      <4> DEFINE p == <<u, v>>
      <4>1. p \in HeldAcquisitionPairs(a) /\ <<p[2], p[1]>> \in HeldAcquisitionPairs(b)
        OBVIOUS
      <4> HIDE DEF p
      <4> QED BY <4>1 DEF AcquisitionPairsConflict
    <3> QED BY <2>5, <3>1
  <2>7. i \in Nat /\ j \in Nat /\ (i < j \/ j < i)
    BY <2>1 DEF ProbeInv
  <2> QED BY <2>6, <2>7 DEF DetectsAbbaDeadlock
<1>3. \A i \in DOMAIN spec : \A k \in DOMAIN spec[i] : spec[i][k] = Finish <=> k = Len(spec[i])
  BY <1>1, ThreadShape
<1>4. \A i \in DOMAIN spec : HeldAcquisitionPairs(spec[i]) = PairsAt(spec[i], Len(spec[i]))
  BY <1>1, PairsCollected
<1> QED BY <1>2, <1>3, <1>4 DEF ProbesSound, PairsAt, Unreleased

\* A deadlock of two threads that any run of a harness specification reaches
\* is announced by detects_abba_deadlock, whose loop collects the pairs it
\* should, for threads and actions of any number (spec.rs, builder.rs).
THEOREM HarnessVerdicts ==
  ProbeSpec => []ProbesSound
<1>1. ProbeInit => ProbeInv
  BY ProbeInitInv
<1>2. ProbeInv /\ [ProbeNext]_probeVars => ProbeInv'
  BY ProbeNextInv
<1>3. ProbeInv => ProbesSound
  BY ProbeInvSound
<1> QED BY <1>1, <1>2, <1>3, PTL DEF ProbeSpec

-----------------------------------------------------------------------------
(* Load tests. *)

\* The sum of the probabilities of a branch.
Total(choices) == FoldLeft(LAMBDA a, p : a + p, 0, choices)

\* The sum of a list of numbers has a trace.
LEMMA TotalTrace ==
  ASSUME NEW choices \in Seq(Int)
  PROVE  \E h : /\ h[0] = 0
                /\ \A k \in 1..Len(choices) : h[k] = h[k - 1] + choices[k]
                /\ Total(choices) = h[Len(choices)]
<1> DEFINE n == Len(choices)
           S == Int
           a == 0
           Eq(it) == it = [s \in SUBSET (1..n) |->
                             IF s = {} THEN a
                             ELSE it[s \ {Max(s)}] + choices[Max(s)]]
           iter == CHOOSE it : Eq(it)
           op == [q \in S \X (1..n) |-> q[1] + choices[q[2]]]
<1>0. n \in Nat /\ DOMAIN choices = 1..n /\ \A k \in 1..n : choices[k] \in Int
  OBVIOUS
<1>1. Total(choices) = iter[1..n]
  BY <1>0 DEF Total, FoldLeft, MapThenFoldSet
<1>2. a \in S /\ op \in [S \X (1..n) -> S]
  <2> HIDE DEF n
  <2> QED BY <1>0
<1>3. PICK it \in [SUBSET (1..n) -> S] : SolvesFold(it, a, op, n)
  <2> HIDE DEF op, n, a, S
  <2> QED BY <1>2, <1>0, FoldExists
<1>4. ASSUME NEW s \in SUBSET (1..n), s # {}
      PROVE  op[<<it[s \ {Max(s)}], Max(s)>>] = it[s \ {Max(s)}] + choices[Max(s)]
  <2>1. Max(s) \in 1..n /\ s \ {Max(s)} \in SUBSET (1..n)
    <3> HIDE DEF n
    <3> QED BY <1>0, <1>4, MaxIn
  <2>2. <<it[s \ {Max(s)}], Max(s)>> \in S \X (1..n)
    <3> HIDE DEF S
    <3> QED BY <2>1
  <2> HIDE DEF S
  <2> QED BY <2>2
<1>5. Eq(it)
  <2> HIDE DEF op, n, a, S
  <2> QED BY <1>3, <1>4 DEF SolvesFold
<1>6. Eq(iter)
  <2> HIDE DEF Eq
  <2> QED BY <1>5
<1> DEFINE h == [k \in 0..n |-> iter[1..k]]
<1> HIDE DEF iter, n
<1>7. h[0] = a
  BY <1>0, <1>6, 1..0 = {}
<1>8. ASSUME NEW k \in 1..n PROVE h[k] = h[k - 1] + choices[k]
  <2>1. 1..k \in SUBSET (1..n) /\ 1..k # {} /\ Max(1..k) = k /\ (1..k) \ {k} = 1..(k - 1)
    BY <1>0, IndexPrefixes
  <2>2. h[k] = iter[1..k] /\ h[k - 1] = iter[1..(k - 1)]
    BY <1>0
  <2> HIDE DEF h, a
  <2> QED BY <2>1, <2>2, <1>6, ZenonT(60)
<1>9. h[n] = iter[1..n]
  BY <1>0
<1> HIDE DEF h
<1> QED BY <1>1, <1>7, <1>8, <1>9 DEF n

\* The probabilities of a branch, NaN aside, sum to a number.
LEMMA TotalIsNumber ==
  ASSUME NEW choices \in Seq(Int)
  PROVE  Total(choices) \in Int
<1> DEFINE n == Len(choices)
           N == Int
<1>0. n \in Nat /\ \A k \in 1..n : choices[k] \in N
  OBVIOUS
<1>1. PICK h : h[0] = 0 /\ (\A k \in 1..n : h[k] = h[k - 1] + choices[k]) /\ Total(choices) = h[n]
  BY TotalTrace
<1>2. h[0] \in N /\ \A k \in 1..n : h[k - 1] \in N => h[k] \in N
  BY <1>0, <1>1, SMTT(60)
<1> HIDE DEF N, n
<1>3. \A k \in 0..n : h[k] \in N
  BY <1>0, <1>2, StepsStay
<1> QED BY <1>0, <1>1, <1>3 DEF N

\* The probabilities of a branch, and what is promised of an accepted step.
Distribution(cs) == (\A k \in DOMAIN cs : cs[k] \in 0..1000) /\ SumOf(cs) \in 999..1001

StepSound(s) ==
  /\ s.kind = "Branch" => Distribution(s.choices)
  /\ s.kind = "Uniform" => s.min \in 0..s.max

\* The three tests of a branch leave distributions only.
LEMMA TestedBranch ==
  ASSUME NEW cs \in Seq(Int \cup {NaN}), ~Below(SumOf(cs), 999), ~Below(1001, SumOf(cs)),
         \A i \in DOMAIN cs : cs[i] # NaN /\ ~Below(cs[i], 0) /\ ~Below(1000, cs[i])
  PROVE  Distribution(cs)
<1>1. \A i \in DOMAIN cs : cs[i] \in Int
  OBVIOUS
<1>2. cs \in Seq(Int)
  BY <1>1
<1>3. SumOf(cs) = Total(cs)
  <2>1. NaN \notin {cs[i] : i \in DOMAIN cs}
    OBVIOUS
  <2> QED BY <2>1 DEF SumOf, Total, FoldLeft, MapThenFoldSet
<1>4. NaN \notin Int /\ Total(cs) \in Int
  BY <1>2, KrakenBounds, TotalIsNumber
<1>5. SumOf(cs) \in Int
  BY <1>3, <1>4
<1>6. 999 # NaN /\ 1001 # NaN /\ 0 # NaN /\ 1000 # NaN
  BY <1>4, SMT
<1>7. SumOf(cs) # NaN
  BY <1>4, <1>5
<1>8. SumOf(cs) \in 999..1001
  <2>1. ~(SumOf(cs) < 999) /\ ~(1001 < SumOf(cs))
    BY <1>6, <1>7, SMT DEF Below
  <2> QED BY <1>5, <2>1, SMT
<1>9. ASSUME NEW k \in DOMAIN cs PROVE cs[k] \in 0..1000
  <2> DEFINE c == cs[k]
  <2>1. c \in Int
    BY <1>1
  <2>2. ~Below(c, 0) /\ ~Below(1000, c) /\ c # NaN
    OBVIOUS
  <2> HIDE DEF c
  <2>3. ~(c < 0) /\ ~(1000 < c)
    BY <1>6, <2>2, SMT DEF Below
  <2>4. c \in 0..1000
    BY <2>1, <2>3, SMT
  <2> QED BY <2>4 DEF c
<1> QED BY <1>8, <1>9 DEF Distribution

\* An accepted step keeps the promise.
LEMMA AcceptedStep ==
  ASSUME NEW s \in ScenarioSteps, Validate(s)
  PROVE  StepSound(s)
<1>1. CASE s.kind = "Branch"
  <2>1. s.choices \in Seq(Int \cup {NaN})
    BY <1>1, KrakenInputs
  <2>2. /\ ~Below(SumOf(s.choices), 999) /\ ~Below(1001, SumOf(s.choices))
        /\ \A i \in DOMAIN s.choices :
             s.choices[i] # NaN /\ ~Below(s.choices[i], 0) /\ ~Below(1000, s.choices[i])
    BY <1>1 DEF Validate
  <2>3. Distribution(s.choices)
    <3> DEFINE cs == s.choices
    <3> HIDE DEF cs
    <3>1. /\ cs \in Seq(Int \cup {NaN}) /\ ~Below(SumOf(cs), 999) /\ ~Below(1001, SumOf(cs))
          /\ \A i \in DOMAIN cs : cs[i] # NaN /\ ~Below(cs[i], 0) /\ ~Below(1000, cs[i])
      BY <2>1, <2>2, SMT DEF cs
    <3>2. Distribution(cs)
      BY <3>1, TestedBranch, SMT
    <3> QED BY <3>2, SMT DEF cs
  <2> QED BY <1>1, <2>3, SMT DEF StepSound
<1>2. CASE s.kind = "Uniform"
  <2>1. s.min \in Nat /\ s.max \in Nat /\ s.min <= s.max
    BY <1>2, KrakenInputs DEF Validate
  <2> QED BY <1>2, <2>1 DEF StepSound
<1> QED BY <1>1, <1>2 DEF StepSound

\* One event of the loop of get_active_events, and of total_extra_latency_ms.
Keeps(ev, ms, vu) == IsActiveAtMs(ev, ms) /\ (ev.kind = "NetworkPartition" => AffectsVuId(ev, vu))
Kept(seq, ev, ms, vu) == IF Keeps(ev, ms, vu) THEN Append(seq, ev) ELSE seq
Slowed(sum, ev, ms) ==
  IF ev.kind = "LatencySpike" /\ IsActiveAtMs(ev, ms) THEN sum + ev.extra ELSE sum

\* get_active_events has a trace.
LEMMA ActiveTrace ==
  ASSUME NEW evs \in Seq(ChaosEvents), NEW ms, NEW vu
  PROVE  \E h : /\ h[0] = << >>
                /\ \A k \in 1..Len(evs) : h[k] = Kept(h[k - 1], evs[k], ms, vu)
                /\ GetActiveEvents(evs, ms, vu) = h[Len(evs)]
<1> DEFINE n == Len(evs)
           S == Seq(ChaosEvents)
           a == << >>
           Eq(it) == it = [s \in SUBSET (1..n) |->
                             IF s = {} THEN a
                             ELSE Kept(it[s \ {Max(s)}], evs[Max(s)], ms, vu)]
           iter == CHOOSE it : Eq(it)
           op == [q \in S \X (1..n) |-> Kept(q[1], evs[q[2]], ms, vu)]
<1>0. n \in Nat /\ DOMAIN evs = 1..n /\ \A k \in 1..n : evs[k] \in ChaosEvents
  OBVIOUS
<1>1. GetActiveEvents(evs, ms, vu) = iter[1..n]
  BY <1>0 DEF GetActiveEvents, Kept, Keeps, FoldLeft, MapThenFoldSet
<1>2. a \in S /\ op \in [S \X (1..n) -> S]
  <2>1. \A x \in S, k \in 1..n : Kept(x, evs[k], ms, vu) \in S
    <3> HIDE DEF n
    <3> QED BY <1>0 DEF Kept
  <2>2. a \in S
    OBVIOUS
  <2> HIDE DEF S, n
  <2> QED BY <2>1, <2>2
<1>3. PICK it \in [SUBSET (1..n) -> S] : SolvesFold(it, a, op, n)
  <2> HIDE DEF op, n, a, S
  <2> QED BY <1>2, <1>0, FoldExists
<1>4. ASSUME NEW s \in SUBSET (1..n), s # {}
      PROVE  op[<<it[s \ {Max(s)}], Max(s)>>] = Kept(it[s \ {Max(s)}], evs[Max(s)], ms, vu)
  <2>1. Max(s) \in 1..n /\ s \ {Max(s)} \in SUBSET (1..n)
    <3> HIDE DEF n
    <3> QED BY <1>0, <1>4, MaxIn
  <2>2. <<it[s \ {Max(s)}], Max(s)>> \in S \X (1..n)
    <3> HIDE DEF S
    <3> QED BY <2>1
  <2> HIDE DEF S
  <2> QED BY <2>2
<1>5. Eq(it)
  <2> HIDE DEF op, n, a, S
  <2> QED BY <1>3, <1>4 DEF SolvesFold
<1>6. Eq(iter)
  <2> HIDE DEF Eq
  <2> QED BY <1>5
<1> DEFINE h == [k \in 0..n |-> iter[1..k]]
<1> HIDE DEF iter, n
<1>7. h[0] = a
  BY <1>0, <1>6, 1..0 = {}
<1>8. ASSUME NEW k \in 1..n PROVE h[k] = Kept(h[k - 1], evs[k], ms, vu)
  <2>1. 1..k \in SUBSET (1..n) /\ 1..k # {} /\ Max(1..k) = k /\ (1..k) \ {k} = 1..(k - 1)
    BY <1>0, IndexPrefixes
  <2>2. h[k] = iter[1..k] /\ h[k - 1] = iter[1..(k - 1)]
    BY <1>0
  <2> HIDE DEF h, a
  <2> QED BY <2>1, <2>2, <1>6, ZenonT(60)
<1>9. h[n] = iter[1..n]
  BY <1>0
<1> HIDE DEF h
<1> QED BY <1>1, <1>7, <1>8, <1>9 DEF n

\* total_extra_latency_ms has a trace.
LEMMA LatencyTrace ==
  ASSUME NEW evs \in Seq(ChaosEvents), NEW ms
  PROVE  \E h : /\ h[0] = 0
                /\ \A k \in 1..Len(evs) : h[k] = Slowed(h[k - 1], evs[k], ms)
                /\ TotalExtraLatencyMs(evs, ms) = h[Len(evs)]
<1> DEFINE n == Len(evs)
           S == Nat
           a == 0
           Eq(it) == it = [s \in SUBSET (1..n) |->
                             IF s = {} THEN a
                             ELSE Slowed(it[s \ {Max(s)}], evs[Max(s)], ms)]
           iter == CHOOSE it : Eq(it)
           op == [q \in S \X (1..n) |-> Slowed(q[1], evs[q[2]], ms)]
<1>0. n \in Nat /\ DOMAIN evs = 1..n /\ \A k \in 1..n : evs[k] \in ChaosEvents
  OBVIOUS
<1>1. TotalExtraLatencyMs(evs, ms) = iter[1..n]
  BY <1>0 DEF TotalExtraLatencyMs, Slowed, FoldLeft, MapThenFoldSet
<1>2. a \in S /\ op \in [S \X (1..n) -> S]
  <2>1. \A x \in S, k \in 1..n : Slowed(x, evs[k], ms) \in S
    <3> HIDE DEF n
    <3> QED BY <1>0, KrakenInputs DEF Slowed
  <2>2. a \in S
    OBVIOUS
  <2> HIDE DEF S, n
  <2> QED BY <2>1, <2>2
<1>3. PICK it \in [SUBSET (1..n) -> S] : SolvesFold(it, a, op, n)
  <2> HIDE DEF op, n, a, S
  <2> QED BY <1>2, <1>0, FoldExists
<1>4. ASSUME NEW s \in SUBSET (1..n), s # {}
      PROVE  op[<<it[s \ {Max(s)}], Max(s)>>] = Slowed(it[s \ {Max(s)}], evs[Max(s)], ms)
  <2>1. Max(s) \in 1..n /\ s \ {Max(s)} \in SUBSET (1..n)
    <3> HIDE DEF n
    <3> QED BY <1>0, <1>4, MaxIn
  <2>2. <<it[s \ {Max(s)}], Max(s)>> \in S \X (1..n)
    <3> HIDE DEF S
    <3> QED BY <2>1
  <2> HIDE DEF S
  <2> QED BY <2>2
<1>5. Eq(it)
  <2> HIDE DEF op, n, a, S
  <2> QED BY <1>3, <1>4 DEF SolvesFold
<1>6. Eq(iter)
  <2> HIDE DEF Eq
  <2> QED BY <1>5
<1> DEFINE h == [k \in 0..n |-> iter[1..k]]
<1> HIDE DEF iter, n
<1>7. h[0] = a
  BY <1>0, <1>6, 1..0 = {}
<1>8. ASSUME NEW k \in 1..n PROVE h[k] = Slowed(h[k - 1], evs[k], ms)
  <2>1. 1..k \in SUBSET (1..n) /\ 1..k # {} /\ Max(1..k) = k /\ (1..k) \ {k} = 1..(k - 1)
    BY <1>0, IndexPrefixes
  <2>2. h[k] = iter[1..k] /\ h[k - 1] = iter[1..(k - 1)]
    BY <1>0
  <2> HIDE DEF h, a
  <2> QED BY <2>1, <2>2, <1>6, ZenonT(60)
<1>9. h[n] = iter[1..n]
  BY <1>0
<1> HIDE DEF h
<1> QED BY <1>1, <1>7, <1>8, <1>9 DEF n

\* One more event adds its own latency.
LEMMA LatencyOfOneMore ==
  ASSUME NEW evs \in Seq(ChaosEvents), NEW ev \in ChaosEvents, NEW ms
  PROVE  TotalExtraLatencyMs(Append(evs, ev), ms) = Slowed(TotalExtraLatencyMs(evs, ms), ev, ms)
<1> DEFINE longer == Append(evs, ev)
           n == Len(evs)
<1>0. n \in Nat /\ longer \in Seq(ChaosEvents) /\ Len(longer) = n + 1 /\ longer[n + 1] = ev
      /\ \A k \in 1..n : longer[k] = evs[k]
  OBVIOUS
<1>1. PICK h : /\ h[0] = 0 /\ \A k \in 1..Len(evs) : h[k] = Slowed(h[k - 1], evs[k], ms)
               /\ TotalExtraLatencyMs(evs, ms) = h[n]
  BY LatencyTrace
<1>2. PICK g : /\ g[0] = 0 /\ \A k \in 1..Len(longer) : g[k] = Slowed(g[k - 1], longer[k], ms)
               /\ TotalExtraLatencyMs(longer, ms) = g[Len(longer)]
  <2> HIDE DEF longer
  <2> QED BY <1>0, LatencyTrace
<1> HIDE DEF longer
<1>3. g[n] = h[n]
  <2>1. \A k \in 1..n : k \in 1..Len(longer)
    BY <1>0
  <2>2. \A k \in 1..n : g[k - 1] = h[k - 1] => g[k] = h[k]
    BY <1>0, <1>1, <1>2, <2>1
  <2> HIDE DEF n
  <2> QED BY <1>0, <1>1, <1>2, <2>2, StepsAgree
<1>4. n + 1 \in 1..Len(longer) /\ (n + 1) - 1 = n
  BY <1>0
<1>5. g[n + 1] = Slowed(g[n], ev, ms)
  BY <1>0, <1>2, <1>4
<1>6. TotalExtraLatencyMs(longer, ms) = Slowed(TotalExtraLatencyMs(evs, ms), ev, ms)
  BY <1>0, <1>1, <1>2, <1>3, <1>5
<1> QED BY <1>6 DEF longer

\* The three questions about chaos agree, for a schedule of any length.
LEMMA ChaosAgrees ==
  ASSUME NEW evs \in Seq(ChaosEvents), NEW ms, NEW vu
  PROVE  /\ IsPartitioned(evs, ms, vu) <=>
              \E i \in DOMAIN GetActiveEvents(evs, ms, vu) :
                GetActiveEvents(evs, ms, vu)[i].kind = "NetworkPartition"
         /\ TotalExtraLatencyMs(evs, ms) = TotalExtraLatencyMs(GetActiveEvents(evs, ms, vu), ms)
<1> DEFINE n == Len(evs)
           Cut(k) == \E i \in 1..k : /\ evs[i].kind = "NetworkPartition"
                                      /\ IsActiveAtMs(evs[i], ms) /\ AffectsVuId(evs[i], vu)
<1>0. n \in Nat /\ DOMAIN evs = 1..n /\ \A k \in 1..n : evs[k] \in ChaosEvents
  OBVIOUS
<1>1. PICK g : /\ g[0] = << >> /\ \A k \in 1..n : g[k] = Kept(g[k - 1], evs[k], ms, vu)
               /\ GetActiveEvents(evs, ms, vu) = g[n]
  BY ActiveTrace
<1>2. PICK h : /\ h[0] = 0 /\ \A k \in 1..n : h[k] = Slowed(h[k - 1], evs[k], ms)
               /\ TotalExtraLatencyMs(evs, ms) = h[n]
  BY LatencyTrace
<1> DEFINE Agree(k) == /\ g[k] \in Seq(ChaosEvents)
                       /\ Cut(k) <=> \E i \in DOMAIN g[k] : g[k][i].kind = "NetworkPartition"
                       /\ h[k] = TotalExtraLatencyMs(g[k], ms)
           T == {k \in 0..n : Agree(k)}
<1>3. 0 \in T
  <2>1. TotalExtraLatencyMs(<< >>, ms) = 0
    <3> DEFINE none == << >>
    <3>1. none \in Seq(ChaosEvents) /\ Len(none) = 0
      OBVIOUS
    <3>2. PICK f : f[0] = 0 /\ TotalExtraLatencyMs(none, ms) = f[Len(none)]
      <4> HIDE DEF none
      <4> QED BY <3>1, LatencyTrace
    <3> QED BY <3>1, <3>2
  <2>2. ~Cut(0) /\ g[0] \in Seq(ChaosEvents) /\ DOMAIN g[0] = {}
    BY <1>1
  <2>3. Agree(0)
    <3> HIDE DEF Cut
    <3> QED BY <2>1, <2>2, <1>1, <1>2
  <2> HIDE DEF Agree
  <2> QED BY <1>0, <2>3
<1>4. ASSUME NEW k \in 1..n, k - 1 \in T PROVE k \in T
  <2> DEFINE ev == evs[k]
             old == g[k - 1]
  <2>1. Agree(k - 1) /\ ev \in ChaosEvents /\ old \in Seq(ChaosEvents)
    BY <1>0, <1>4
  <2>2. g[k] = Kept(old, ev, ms, vu) /\ h[k] = Slowed(h[k - 1], ev, ms)
    BY <1>1, <1>2
  <2>3. Cut(k) <=> Cut(k - 1) \/ (/\ ev.kind = "NetworkPartition"
                                 /\ IsActiveAtMs(ev, ms) /\ AffectsVuId(ev, vu))
    <3>1. \A i \in 1..k : i = k \/ i \in 1..(k - 1)
      BY <1>0
    <3>2. 1..(k - 1) \subseteq 1..k /\ k \in 1..k
      BY <1>0
    <3> QED BY <3>1, <3>2
  <2> HIDE DEF Cut, ev, old
  <2>4. CASE Keeps(ev, ms, vu)
    <3>1. g[k] = Append(old, ev)
      BY <2>2, <2>4 DEF Kept
    <3>2. /\ g[k] \in Seq(ChaosEvents)
          /\ TotalExtraLatencyMs(g[k], ms) = Slowed(TotalExtraLatencyMs(old, ms), ev, ms)
      BY <3>1, <2>1, LatencyOfOneMore
    <3>3. h[k] = TotalExtraLatencyMs(g[k], ms)
      BY <3>2, <2>1, <2>2 DEF old
    <3>4. (\E i \in DOMAIN g[k] : g[k][i].kind = "NetworkPartition") <=>
            (\E i \in DOMAIN old : old[i].kind = "NetworkPartition") \/ ev.kind = "NetworkPartition"
      <4>1. DOMAIN g[k] = 1..(Len(old) + 1) /\ DOMAIN old = 1..Len(old) /\ Len(old) \in Nat
            /\ g[k][Len(old) + 1] = ev /\ \A i \in 1..Len(old) : g[k][i] = old[i]
        BY <3>1, <2>1
      <4>2. \A i \in 1..(Len(old) + 1) : i = Len(old) + 1 \/ i \in 1..Len(old)
        BY <4>1
      <4>3. 1..Len(old) \subseteq 1..(Len(old) + 1) /\ Len(old) + 1 \in 1..(Len(old) + 1)
        BY <4>1
      <4> QED BY <4>1, <4>2, <4>3
    <3>5. Cut(k) <=> Cut(k - 1) \/ ev.kind = "NetworkPartition"
      BY <2>3, <2>4 DEF Keeps
    <3>6. Agree(k)
      BY <2>1, <3>2, <3>3, <3>4, <3>5 DEF old
    <3> HIDE DEF Agree
    <3> QED BY <1>0, <3>6
  <2>5. CASE ~Keeps(ev, ms, vu)
    <3>1. g[k] = old
      BY <2>2, <2>5 DEF Kept
    <3>2. h[k] = h[k - 1]
      BY <2>2, <2>5 DEF Slowed, Keeps
    <3>3. Cut(k) <=> Cut(k - 1)
      BY <2>3, <2>5 DEF Keeps
    <3>4. Agree(k)
      BY <2>1, <3>1, <3>2, <3>3 DEF old
    <3> HIDE DEF Agree
    <3> QED BY <1>0, <3>4
  <2> QED BY <2>4, <2>5
<1> HIDE DEF T, n
<1>5. 0..n \subseteq T
  BY <1>0, <1>3, <1>4, RangeInduction
<1>6. Agree(n)
  BY <1>0, <1>5 DEF T
<1> HIDE DEF Cut
<1>7. IsPartitioned(evs, ms, vu) <=> Cut(n)
  BY <1>0 DEF IsPartitioned, Cut
<1> QED BY <1>1, <1>2, <1>6, <1>7

-----------------------------------------------------------------------------
\* Products and quotients, one step at a time.
LEMMA ProductGrows ==
  ASSUME NEW a \in Nat, NEW b \in Nat, NEW c \in Nat, a <= b
  PROVE  a * c <= b * c /\ a * c \in Nat
<1>1. b * c = a * c + (b - a) * c /\ (b - a) * c \in Nat /\ a * c \in Nat
  OBVIOUS
<1> QED BY <1>1

\* A quotient lies between the multiples of its divisor.
LEMMA QuotientBounds ==
  ASSUME NEW x \in Nat, NEW d \in Nat \ {0}
  PROVE  /\ x \div d \in Nat /\ (x \div d) * d <= x /\ x < ((x \div d) + 1) * d
<1>1. x = d * (x \div d) + (x % d) /\ x % d \in 0..(d - 1) /\ x \div d \in Int
  OBVIOUS
<1>2. x \div d \in Nat
  OBVIOUS
<1>3. d * (x \div d) = (x \div d) * d /\ ((x \div d) + 1) * d = (x \div d) * d + d
  BY <1>2
<1>4. (x \div d) * d \in Nat
  BY <1>2
<1> QED BY <1>1, <1>2, <1>3, <1>4

\* A quotient that reaches m + 1 has a dividend that reaches (m + 1) * d.
LEMMA QuotientBelow ==
  ASSUME NEW x \in Nat, NEW d \in Nat \ {0}, NEW m \in Nat, x < (m + 1) * d
  PROVE  x \div d <= m
<1> DEFINE q == x \div d
<1>1. q \in Nat /\ q * d <= x
  BY QuotientBounds
<1> HIDE DEF q
<1> SUFFICES ASSUME m + 1 <= q PROVE FALSE
  BY <1>1 DEF q
<1>2. (m + 1) * d <= q * d
  BY <1>1, m + 1 \in Nat, d \in Nat, ProductGrows
<1>3. (m + 1) * d \in Nat /\ q * d \in Nat
  BY <1>1
<1> QED BY <1>1, <1>2, <1>3

\* Quotients keep the order of their dividends.
LEMMA QuotientGrows ==
  ASSUME NEW x \in Nat, NEW y \in Nat, NEW d \in Nat \ {0}, x <= y
  PROVE  x \div d <= y \div d
<1> DEFINE q == y \div d
<1>1. q \in Nat /\ y < (q + 1) * d /\ (q + 1) * d \in Nat
  BY QuotientBounds
<1>2. x < (q + 1) * d
  BY <1>1
<1> HIDE DEF q
<1>3. x \div d <= q
  BY <1>1, <1>2, QuotientBelow
<1> QED BY <1>3 DEF q

\* The quotient a linear ramp takes, rounded up once too often or not.
LEMMA LinearQuotient ==
  ASSUME NEW t \in Nat \ {0}, NEW d \in Nat, NEW ms \in Nat \ {0}, ms < d
  PROVE  LET q == LinearVus(t, d, ms) IN
         /\ q \in Nat /\ q <= t
         /\ (ms * t + d - 1) \div d <= q /\ q <= (ms * t + d) \div d
<1> DEFINE x == ms * t + d
           low == (x - 1) \div d
           high == x \div d
<1>1. d \in Nat \ {0} /\ ms * t \in Nat /\ d * t \in Nat
  OBVIOUS
<1>2. d * t = ms * t + (d - ms) * t /\ (d - ms) * t = t + (d - ms - 1) * t /\ (d - ms - 1) * t \in Nat
  OBVIOUS
<1>3. ms * t < d * t
  BY <1>1, <1>2
<1>4. (t + 1) * d = d * t + d
  OBVIOUS
<1>5. x \in Nat /\ x - 1 \in Nat /\ x < (t + 1) * d /\ x - 1 <= x
  BY <1>1, <1>3, <1>4
<1>6. LinearVus(t, d, ms) = low \/ LinearVus(t, d, ms) = high
  <2>1. ~(ms >= d) /\ ~(ms < d /\ (ms = 0 \/ t = 0))
    OBVIOUS
  <2>2. LinearVus(t, d, ms) = (x - (IF <<ms, t, d>> \in RoundedUp THEN 0 ELSE 1)) \div d
    BY <2>1 DEF LinearVus
  <2>3. x - 0 = x
    BY <1>5
  <2> HIDE DEF x
  <2> QED BY <2>2, <2>3
<1> HIDE DEF x
<1>7. low \in Nat /\ high \in Nat /\ high <= t /\ low <= high
  BY <1>1, <1>5, QuotientBounds, QuotientBelow, QuotientGrows
<1>8. low <= t
  BY <1>7
<1> HIDE DEF low, high
<1>9. /\ LinearVus(t, d, ms) \in Nat /\ LinearVus(t, d, ms) <= t
      /\ low <= LinearVus(t, d, ms) /\ LinearVus(t, d, ms) <= high
  BY <1>6, <1>7, <1>8
<1> QED BY <1>9 DEF low, high, x

\* A linear ramp asks for a number of users that never passes its target.
LEMMA LinearBounded ==
  ASSUME NEW t \in Nat, NEW d \in Nat, NEW ms \in Nat
  PROVE  /\ LinearVus(t, d, ms) \in Nat /\ LinearVus(t, d, ms) <= t
         /\ ms >= d => LinearVus(t, d, ms) = t
         /\ ms < d /\ (ms = 0 \/ t = 0) => LinearVus(t, d, ms) = 0
<1>1. CASE ms >= d
  BY <1>1 DEF LinearVus
<1>2. CASE ms < d /\ (ms = 0 \/ t = 0)
  <2>1. ~(ms >= d) /\ LinearVus(t, d, ms) = 0
    BY <1>2 DEF LinearVus
  <2> QED BY <1>2, <2>1
<1>3. CASE ms < d /\ ms # 0 /\ t # 0
  BY <1>3, LinearQuotient
<1> QED BY <1>1, <1>2, <1>3

\* However it is rounded, it never goes down.
LEMMA LinearGrows ==
  ASSUME NEW t \in Nat, NEW d \in Nat, NEW ms \in Nat, NEW later \in Nat, ms <= later
  PROVE  LinearVus(t, d, ms) <= LinearVus(t, d, later)
<1>1. CASE later >= d
  BY <1>1, LinearBounded
<1>2. CASE later < d /\ (ms = 0 \/ t = 0)
  <2>1. ms < d
    BY <1>2
  <2>2. LinearVus(t, d, ms) = 0
    BY <1>2, <2>1, LinearBounded
  <2>3. LinearVus(t, d, later) \in Nat
    BY LinearBounded
  <2> QED BY <2>2, <2>3
<1>3. CASE ms = later
  BY <1>3, LinearBounded
<1>4. CASE later < d /\ ms # 0 /\ t # 0 /\ ms < later
  <2>1. /\ LinearVus(t, d, ms) \in Nat /\ LinearVus(t, d, ms) <= (ms * t + d) \div d
        /\ LinearVus(t, d, later) \in Nat /\ (later * t + d - 1) \div d <= LinearVus(t, d, later)
    BY <1>4, LinearQuotient
  <2>2. later * t = ms * t + (later - ms) * t /\ (later - ms) * t = t + (later - ms - 1) * t
        /\ (later - ms - 1) * t \in Nat /\ ms * t \in Nat
    BY <1>4
  <2>3. later * t \in Nat /\ ms * t + 1 <= later * t
    BY <1>4, <2>2
  <2> DEFINE x == ms * t + d
             y == later * t + d - 1
  <2>4. x \in Nat /\ y \in Nat /\ x <= y /\ d \in Nat \ {0}
    BY <1>4, <2>2, <2>3
  <2> HIDE DEF x, y
  <2>5. x \div d <= y \div d /\ x \div d \in Nat /\ y \div d \in Nat
    BY <2>4, QuotientGrows, QuotientBounds
  <2>6. LinearVus(t, d, ms) <= x \div d /\ y \div d <= LinearVus(t, d, later)
    BY <2>1 DEF x, y
  <2> QED BY <2>1, <2>5, <2>6
<1> QED BY <1>1, <1>2, <1>3, <1>4

\* A usize holds what fits in it, and something in any case.
LEMMA WordHolds ==
  ASSUME NEW x \in Nat
  PROVE  x % Word \in Nat /\ (x < Word => x % Word = x)
<1>1. Word \in Nat \ {0}
  BY KrakenBounds
<1> QED BY <1>1

\* A staircase at a moment: how high it is, and whether usize can tell.
Height(p, ms) == p.start + StepIndex(p, ms) * p.size
Climbs(p, ms) == p.kind = "Step" => p.secs > 0 /\ Height(p, ms) < Word

\* The numbers of a profile.
LEMMA ProfileNumbers ==
  ASSUME NEW p \in Profiles
  PROVE  /\ p.kind \in {"Linear", "Step", "Instant"}
         /\ p.kind = "Linear" => p.target \in Nat /\ p.secs \in Nat /\ 1000 * p.secs \in Nat
         /\ p.kind = "Step" => /\ p.start \in Nat /\ p.start < Word
                               /\ p.size \in Nat /\ p.size < Word /\ p.secs \in Nat
         /\ p.kind = "Instant" => p.target \in Nat
BY KrakenInputs, KrakenBounds

\* A staircase is a number of steps high, none at the start.
LEMMA StepHeight ==
  ASSUME NEW p \in Profiles, p.kind = "Step", NEW ms \in Nat
  PROVE  /\ StepIndex(p, ms) \in Nat /\ (ms = 0 => StepIndex(p, ms) = 0)
         /\ Height(p, ms) \in Nat /\ p.start <= Height(p, ms)
         /\ ms = 0 => Height(p, ms) = p.start
         /\ TargetVusAt(p, ms) = Height(p, ms) % Word
<1>1. p.start \in Nat /\ p.size \in Nat /\ p.secs \in Nat
  BY ProfileNumbers
<1>2. StepIndex(p, ms) \in Nat /\ (ms = 0 => StepIndex(p, ms) = 0)
  <2>1. CASE p.secs > 0
    <3>1. StepIndex(p, ms) = ms \div (1000 * p.secs) /\ 1000 * p.secs \in Nat \ {0}
      BY <1>1, <2>1 DEF StepIndex
    <3> QED BY <3>1, QuotientBounds
  <2>2. CASE p.secs = 0
    BY <2>2, KrakenBounds DEF StepIndex
  <2> QED BY <1>1, <2>1, <2>2
<1> DEFINE k == StepIndex(p, ms)
<1>3. Height(p, ms) = p.start + k * p.size
  BY DEF Height
<1>4. TargetVusAt(p, ms) = Height(p, ms) % Word
  BY DEF TargetVusAt, Height
<1> HIDE DEF k
<1>5. k \in Nat /\ (ms = 0 => k = 0)
  BY <1>2 DEF k
<1>6. k * p.size \in Nat /\ (k = 0 => k * p.size = 0)
  BY <1>1, <1>5
<1>7. /\ Height(p, ms) \in Nat /\ p.start <= Height(p, ms)
      /\ ms = 0 => Height(p, ms) = p.start
  BY <1>1, <1>3, <1>5, <1>6
<1> QED BY <1>2, <1>4, <1>7

\* Multiples of a word are lost in it.
LEMMA WordWraps ==
  ASSUME NEW a \in Nat, a < Word, NEW q \in Nat
  PROVE  (a + Word * q) % Word = a
<1>1. Word \in Nat \ {0}
  BY KrakenBounds
<1> DEFINE x == a + Word * q
           r == x % Word
           f == x \div Word
<1>2. Word * q \in Nat /\ x \in Nat
  BY <1>1
<1> HIDE DEF x
<1>3. f \in Int /\ r \in Nat /\ r < Word /\ x = Word * f + r
  BY <1>1, <1>2
<1> HIDE DEF r, f
<1> DEFINE e == q - f
<1>4. e \in Int /\ Word * e = Word * q - Word * f
  BY <1>1, <1>3
<1>5. Word * e = r - a
  BY <1>1, <1>2, <1>3, <1>4 DEF x
<1> HIDE DEF e
<1>6. e >= 1 => Word * e >= Word
  BY <1>1, <1>4
<1>7. e <= -1 => Word * e <= -Word
  BY <1>1, <1>4
<1>8. e = 0 => Word * e = 0
  BY <1>1
<1>9. r = a
  BY <1>1, <1>3, <1>4, <1>5, <1>6, <1>7, <1>8
<1> QED BY <1>9 DEF r, x

\* After the start, a staircase whose steps take no time is a step below it.
LEMMA TimelessSteps ==
  ASSUME NEW p \in Profiles, p.kind = "Step", p.secs = 0, NEW ms \in Nat, ms > 0
  PROVE  TargetVusAt(p, ms) = p.start - p.size + (IF p.size <= p.start THEN 0 ELSE Word)
<1>1. p.start \in Nat /\ p.start < Word /\ p.size \in Nat /\ p.size < Word /\ Word \in Nat \ {0}
  BY ProfileNumbers, KrakenBounds
<1>2. StepIndex(p, ms) = Word - 1
  BY DEF StepIndex
<1>3. TargetVusAt(p, ms) = (p.start + (Word - 1) * p.size) % Word
  BY <1>2, StepHeight DEF Height
<1>4. CASE p.size <= p.start
  <2>1. p.start + (Word - 1) * p.size = (p.start - p.size) + Word * p.size
    BY <1>1
  <2>2. p.start - p.size \in Nat /\ p.start - p.size < Word
    BY <1>1, <1>4
  <2>3. ((p.start - p.size) + Word * p.size) % Word = p.start - p.size
    BY <1>1, <2>2, WordWraps
  <2> QED BY <1>1, <1>3, <1>4, <2>1, <2>3
<1>5. CASE p.size > p.start
  <2> DEFINE a == p.start - p.size + Word
  <2>1. p.start + (Word - 1) * p.size = a + Word * (p.size - 1)
    BY <1>1
  <2>2. a \in Nat /\ a < Word /\ p.size - 1 \in Nat
    BY <1>1, <1>5
  <2> HIDE DEF a
  <2>3. (a + Word * (p.size - 1)) % Word = a
    BY <2>2, WordWraps
  <2>4. TargetVusAt(p, ms) = a
    BY <1>3, <2>1, <2>3
  <2> QED BY <1>1, <1>5, <2>4 DEF a
<1> QED BY <1>1, <1>4, <1>5

\* What target_vus_at answers is a number, from the start of a climbing
\* staircase up and below the target of the other profiles, which it reaches.
LEMMA TargetBounds ==
  ASSUME NEW p \in Profiles, NEW ms \in Nat
  PROVE  /\ TargetVusAt(p, ms) \in Nat
         /\ p.kind # "Step" =>
              /\ TargetVusAt(p, ms) <= p.target
              /\ ms >= TotalDuration(p) => TargetVusAt(p, ms) = p.target
         /\ p.kind = "Step" =>
              /\ p.start \in Nat
              /\ Climbs(p, ms) => TargetVusAt(p, ms) >= p.start
              /\ ms = 0 => TargetVusAt(p, ms) = p.start
<1>1. CASE p.kind = "Linear"
  <2> DEFINE d == 1000 * p.secs
  <2>1. p.target \in Nat /\ d \in Nat
    BY <1>1, ProfileNumbers
  <2>2. TargetVusAt(p, ms) = LinearVus(p.target, d, ms) /\ TotalDuration(p) = d
    BY <1>1 DEF TargetVusAt, TotalDuration
  <2> HIDE DEF d
  <2>3. /\ LinearVus(p.target, d, ms) \in Nat /\ LinearVus(p.target, d, ms) <= p.target
        /\ ms >= d => LinearVus(p.target, d, ms) = p.target
    BY <2>1, LinearBounded
  <2> QED BY <1>1, <2>2, <2>3
<1>2. CASE p.kind = "Step"
  <2>1. p.start \in Nat /\ p.start < Word
    BY <1>2, ProfileNumbers
  <2>2. /\ Height(p, ms) \in Nat /\ p.start <= Height(p, ms) /\ (ms = 0 => Height(p, ms) = p.start)
        /\ TargetVusAt(p, ms) = Height(p, ms) % Word
    BY <1>2, StepHeight
  <2>3. TargetVusAt(p, ms) \in Nat /\ (Height(p, ms) < Word => TargetVusAt(p, ms) = Height(p, ms))
    BY <2>2, WordHolds
  <2> QED BY <1>2, <2>1, <2>2, <2>3 DEF Climbs
<1>3. CASE p.kind = "Instant"
  <2>1. p.target \in Nat /\ TargetVusAt(p, ms) = p.target
    BY <1>3, ProfileNumbers DEF TargetVusAt
  <2> QED BY <1>3, <2>1
<1> QED BY <1>1, <1>2, <1>3, ProfileNumbers

\* As long as the profile climbs, target_vus_at never goes down, and what
\* climbs now has climbed before.
LEMMA TargetGrows ==
  ASSUME NEW p \in Profiles, NEW ms \in Nat, NEW later \in Nat, ms <= later, Climbs(p, later)
  PROVE  Climbs(p, ms) /\ TargetVusAt(p, ms) <= TargetVusAt(p, later)
<1>1. CASE p.kind = "Linear"
  <2> DEFINE d == 1000 * p.secs
  <2>1. p.target \in Nat /\ d \in Nat
    BY <1>1, ProfileNumbers
  <2>2. /\ TargetVusAt(p, ms) = LinearVus(p.target, d, ms)
        /\ TargetVusAt(p, later) = LinearVus(p.target, d, later)
    BY <1>1 DEF TargetVusAt
  <2> HIDE DEF d
  <2> QED BY <1>1, <2>1, <2>2, LinearGrows DEF Climbs
<1>2. CASE p.kind = "Step"
  <2> DEFINE d == 1000 * p.secs
             q == ms \div d
             r == later \div d
  <2>1. /\ p.start \in Nat /\ p.size \in Nat /\ p.secs \in Nat /\ p.secs > 0
        /\ Height(p, later) < Word
    BY <1>2, ProfileNumbers DEF Climbs
  <2>2. d \in Nat \ {0}
    BY <2>1
  <2>3. Height(p, ms) = p.start + q * p.size /\ Height(p, later) = p.start + r * p.size
    BY <2>1 DEF Height, StepIndex
  <2> HIDE DEF d
  <2>4. q \in Nat /\ r \in Nat /\ q <= r
    BY <2>2, QuotientBounds, QuotientGrows
  <2> HIDE DEF q, r
  <2>5. q * p.size <= r * p.size /\ q * p.size \in Nat /\ r * p.size \in Nat
    BY <2>1, <2>4, ProductGrows
  <2>6. Height(p, ms) \in Nat /\ Height(p, later) \in Nat /\ Height(p, ms) <= Height(p, later)
    BY <2>1, <2>3, <2>5
  <2>7. Word \in Nat /\ Height(p, ms) < Word
    BY <2>1, <2>6, KrakenBounds
  <2>8. /\ TargetVusAt(p, ms) = Height(p, ms) % Word
        /\ TargetVusAt(p, later) = Height(p, later) % Word
    BY <1>2, StepHeight
  <2>9. TargetVusAt(p, ms) = Height(p, ms) /\ TargetVusAt(p, later) = Height(p, later)
    BY <2>1, <2>6, <2>7, <2>8, WordHolds
  <2> QED BY <2>1, <2>6, <2>7, <2>9 DEF Climbs
<1>3. CASE p.kind = "Instant"
  <2>1. p.target \in Nat /\ TargetVusAt(p, ms) = p.target /\ TargetVusAt(p, later) = p.target
    BY <1>3, ProfileNumbers DEF TargetVusAt
  <2> QED BY <1>3, <2>1 DEF Climbs
<1> QED BY <1>1, <1>2, <1>3, ProfileNumbers

-----------------------------------------------------------------------------
\* The inductive invariant: what was accepted is acceptable, and no more users
\* were injected than are asked for now, while the profile climbs.
KrakenInv ==
  /\ (\A i \in DOMAIN scenario : scenario[i] \in ScenarioSteps) /\ profile \in Profiles
  /\ accepted = "yes" => Accepts(scenario)
  /\ schedule \in Seq(ChaosEvents)
  /\ millis \in Nat /\ injected \in Nat
  /\ Climbs(profile, millis) => injected <= TargetVusAt(profile, millis)
  /\ profile.kind = "Step" /\ millis = 0 => injected <= profile.start

\* A load test starts within its target.
LEMMA KrakenInitInv ==
  KrakenInit => KrakenInv
<1> SUFFICES ASSUME KrakenInit PROVE KrakenInv
  OBVIOUS
<1>1. TargetVusAt(profile, millis) \in Nat /\ (profile.kind = "Step" => profile.start \in Nat)
  BY TargetBounds DEF KrakenInit
<1>2. \A i \in DOMAIN scenario : scenario[i] \in ScenarioSteps
  BY DEF KrakenInit, SeqOf
<1> QED BY <1>1, <1>2 DEF KrakenInit, KrakenInv

\* Steps, chaos, time and users keep it.
LEMMA KrakenNextInv ==
  KrakenInv /\ [KrakenNext]_krakenVars => KrakenInv'
<1> SUFFICES ASSUME KrakenInv, [KrakenNext]_krakenVars PROVE KrakenInv'
  OBVIOUS
<1>1. CASE NewScenario
  <2>1. accepted' = "yes" => Accepts(scenario)
    BY <1>1 DEF NewScenario
  <2>2. UNCHANGED <<scenario, schedule, profile, millis, injected>>
    BY <1>1 DEF NewScenario
  <2> QED BY <2>1, <2>2 DEF KrakenInv, Accepts
<1>2. CASE Advance
  <2>1. UNCHANGED <<scenario, accepted, schedule, profile, injected>> /\ millis' = millis + Tick
    BY <1>2 DEF Advance
  <2>2. millis' \in Nat /\ millis <= millis' /\ millis' # 0
    BY <2>1, KrakenBounds DEF KrakenInv
  <2>3. Climbs(profile, millis') => /\ Climbs(profile, millis)
                                    /\ TargetVusAt(profile, millis) <= TargetVusAt(profile, millis')
    BY <2>2, TargetGrows DEF KrakenInv
  <2>4. TargetVusAt(profile, millis) \in Nat /\ TargetVusAt(profile, millis') \in Nat
    BY <2>2, TargetBounds DEF KrakenInv
  <2>5. Climbs(profile', millis') => injected' <= TargetVusAt(profile', millis')
    BY <2>1, <2>3, <2>4 DEF KrakenInv
  <2>6. accepted' = "yes" => Accepts(scenario')
    BY <2>1 DEF KrakenInv
  <2> QED BY <2>1, <2>2, <2>5, <2>6 DEF KrakenInv
<1>3. CASE Inject
  <2>1. UNCHANGED <<scenario, accepted, schedule, profile, millis>>
        /\ injected' = TargetVusAt(profile, millis)
    BY <1>3 DEF Inject
  <2>2. injected' \in Nat /\ (profile.kind = "Step" /\ millis = 0 => injected' <= profile.start)
    <3>1. profile \in Profiles /\ millis \in Nat
      BY DEF KrakenInv
    <3>2. /\ TargetVusAt(profile, millis) \in Nat
          /\ profile.kind = "Step" /\ millis = 0 => TargetVusAt(profile, millis) = profile.start
      BY <3>1, TargetBounds
    <3> QED BY <2>1, <3>2
  <2>3. injected' <= TargetVusAt(profile', millis')
    BY <2>1, <2>2
  <2>4. accepted' = "yes" => Accepts(scenario')
    BY <2>1 DEF KrakenInv
  <2> QED BY <2>1, <2>2, <2>3, <2>4 DEF KrakenInv
<1>4. ASSUME NEW ev \in ChaosEvents, AddEvent(ev) PROVE KrakenInv'
  <2>1. UNCHANGED <<scenario, accepted, profile, millis, injected>> /\ schedule' = Append(schedule, ev)
    BY <1>4 DEF AddEvent
  <2>2. schedule' \in Seq(ChaosEvents)
    BY <2>1 DEF KrakenInv
  <2>3. /\ Climbs(profile', millis') => injected' <= TargetVusAt(profile', millis')
        /\ accepted' = "yes" => Accepts(scenario')
    BY <2>1 DEF KrakenInv
  <2> QED BY <2>1, <2>2, <2>3 DEF KrakenInv
<1>5. CASE UNCHANGED krakenVars
  <2>1. UNCHANGED <<scenario, accepted, schedule, profile, millis, injected>>
    BY <1>5 DEF krakenVars
  <2>2. /\ Climbs(profile', millis') => injected' <= TargetVusAt(profile', millis')
        /\ accepted' = "yes" => Accepts(scenario')
    BY <2>1 DEF KrakenInv
  <2> QED BY <2>1, <2>2 DEF KrakenInv
<1> QED BY <1>1, <1>2, <1>3, <1>4, <1>5 DEF KrakenNext

\* The invariant says what the property says.
LEMMA KrakenInvSound ==
  KrakenInv => KrakenSound
<1> SUFFICES ASSUME KrakenInv PROVE KrakenSound
  OBVIOUS
<1>1. ScenariosSound
  <2> SUFFICES ASSUME accepted = "yes", NEW i \in DOMAIN scenario
               PROVE  StepSound(scenario[i])
    BY DEF ScenariosSound, StepSound, Distribution
  <2>1. scenario[i] \in ScenarioSteps /\ Validate(scenario[i])
    BY DEF KrakenInv, Accepts
  <2> QED BY <2>1, AcceptedStep
<1>2. ChaosConsistent
  BY ChaosAgrees DEF ChaosConsistent, KrakenInv
<1>3. RampUpSound
  <2>1. Climbing => Climbs(profile, millis)
    BY DEF Climbing, Climbs, Height
  <2>2. profile \in Profiles /\ millis \in Nat
    BY DEF KrakenInv
  <2>3. profile.kind = "Step" /\ profile.secs = 0 /\ millis > 0 =>
          TargetVusAt(profile, millis) =
            profile.start - profile.size + (IF profile.size <= profile.start THEN 0 ELSE Word)
    BY <2>2, TimelessSteps
  <2> QED BY <2>1, <2>3, TargetBounds DEF RampUpSound, RampUpMonotone, KrakenInv
<1> QED BY <1>1, <1>2, <1>3 DEF KrakenSound

\* Accepted scenarios are distributions and the questions about chaos agree, for
\* schedules of any length; a ramp-up never takes users back, however f64 rounds
\* it, as long as the steps of a staircase take time and fit in usize, and a
\* staircase of steps that take no time falls by one of them (kraken/types.rs).
THEOREM LoadTestsSound ==
  KrakenSpec => []KrakenSound
<1>1. KrakenInit => KrakenInv
  BY KrakenInitInv
<1>2. KrakenInv /\ [KrakenNext]_krakenVars => KrakenInv'
  BY KrakenNextInv
<1>3. KrakenInv => KrakenSound
  BY KrakenInvSound
<1> QED BY <1>1, <1>2, <1>3, PTL DEF KrakenSpec

-----------------------------------------------------------------------------
(* The wire. *)

Lock2 == {LockX, LockY}
Tid2  == {TidA, TidB}

\* Raw and decoded events, and the pictures they draw.
Raws == [event_type : Nat, tid : Nat, timestamp_ns : Nat, resource_id : Nat, latency_ns : Nat,
         parent_tid : Nat]
Decoded == [name : {ParsedTypes[i] : i \in DOMAIN ParsedTypes}, threads : [tid : Nat, other : Nat],
            timestamp_ns : Nat, addr : Nat, waited : Nat]
Pictures == [holder : [Lock2 -> Nat], waits : [Tid2 -> Nat], known : SUBSET Nat, passed : Nat,
             seen : Nat, last : Nat, sane : BOOLEAN]

\* decode answers an event.
LEMMA DecodeTyped ==
  ASSUME NEW raw \in Raws, KnownType(raw)
  PROVE  Decode(raw) \in Decoded
<1> DEFINE name == ParsedTypes[raw.event_type]
<1>1. name \in {ParsedTypes[i] : i \in DOMAIN ParsedTypes}
  BY DEF KnownType
<1>2. raw.parent_tid % Tid32 \in Nat
  BY WireConstants, MockThreadsFit DEF Raws, TidB
<1> HIDE DEF name
<1>3. DecodedThreads(name, raw) \in [tid : Nat, other : Nat]
  BY <1>2 DEF DecodedThreads, Raws
<1>4. Decode(raw) =
        [name |-> name, threads |-> DecodedThreads(name, raw), timestamp_ns |-> raw.timestamp_ns,
         addr |-> IF name \in {"SchedSwitch", "ThreadSpawn", "ThreadExit"} THEN 0 ELSE raw.resource_id,
         waited |-> IF name \in {"LockAcquire", "LockAcquired"} THEN raw.latency_ns ELSE 0]
  BY DEF Decode, name
<1> QED BY <1>1, <1>3, <1>4 DEF Decoded, Raws

\* The picture after an event, field by field.
Sequel(p, d) ==
  [p EXCEPT !.seen = @ + 1, !.last = d.timestamp_ns, !.sane = @ /\ d.timestamp_ns > p.last]

\* It is a picture.
LEMMA SequelTyped ==
  ASSUME NEW p \in Pictures, NEW d \in Decoded
  PROVE  Sequel(p, d) \in Pictures
<1> DEFINE ok == p.sane /\ d.timestamp_ns > p.last
<1>1. Sequel(p, d) = [p EXCEPT !.seen = @ + 1, !.last = d.timestamp_ns, !.sane = ok]
  BY DEF Sequel
<1>2. ok \in BOOLEAN
  OBVIOUS
<1>3. p.seen + 1 \in Nat /\ d.timestamp_ns \in Nat
  BY DEF Pictures, Decoded
<1> HIDE DEF ok
<1> QED BY <1>1, <1>2, <1>3 DEF Pictures

\* An event leaves a picture.
LEMMA DrawTyped ==
  ASSUME NEW p \in Pictures, NEW d \in Decoded
  PROVE  Draw(p, d) \in Pictures
<1> DEFINE q == Sequel(p, d)
           t == d.threads.tid
<1>0. q \in Pictures /\ t \in Nat /\ d.addr \in Nat
  BY SequelTyped DEF Decoded
<1>1. CASE d.name = "ThreadSpawn"
  <2> DEFINE ok == q.sane /\ t \notin p.known /\ d.threads.other \in p.known
  <2>1. Draw(p, d) = [q EXCEPT !.known = @ \cup {t}, !.sane = ok]
    BY <1>1 DEF Draw, Sequel
  <2>2. ok \in BOOLEAN
    OBVIOUS
  <2> HIDE DEF ok, q, t
  <2> QED BY <1>0, <2>1, <2>2, ZenonT(60) DEF Pictures
<1>2. CASE d.name = "SchedSwitch"
  <2> DEFINE ok == q.sane /\ {t, d.threads.other} \subseteq p.known /\ t # d.threads.other
  <2>1. Draw(p, d) = [q EXCEPT !.sane = ok]
    BY <1>2 DEF Draw, Sequel
  <2>2. ok \in BOOLEAN
    OBVIOUS
  <2> HIDE DEF ok, q, t
  <2> QED BY <1>0, <2>1, <2>2 DEF Pictures
<1>3. CASE d.name = "LockAcquire"
  <2>1. Draw(p, d) = [q EXCEPT !.waits[t] = d.addr]
    BY <1>3 DEF Draw, Sequel
  <2> HIDE DEF q, t
  <2> QED BY <1>0, <2>1 DEF Pictures
<1>4. CASE d.name = "LockAcquired"
  <2> DEFINE ok == q.sane /\ p.holder[d.addr] = 0 /\ p.waits[t] = d.addr
             more == IF \E u \in Tid2 \ {t} : p.waits[u] = d.addr THEN q.passed + 1 ELSE q.passed
             holder == [q.holder EXCEPT ![d.addr] = t]
             waits == [q.waits EXCEPT ![t] = 0]
  <2>1. Draw(p, d) = [q EXCEPT !.holder = holder, !.waits = waits, !.passed = more, !.sane = ok]
    BY <1>4 DEF Draw, Sequel, Tid2
  <2>2. ok \in BOOLEAN /\ more \in Nat
    BY <1>0 DEF Pictures
  <2> HIDE DEF q, t
  <2>3. holder \in [Lock2 -> Nat] /\ waits \in [Tid2 -> Nat]
    BY <1>0 DEF Pictures
  <2> HIDE DEF ok, more, holder, waits
  <2> QED BY <1>0, <2>1, <2>2, <2>3 DEF Pictures
<1>5. CASE d.name = "LockRelease"
  <2> DEFINE ok == q.sane /\ p.holder[d.addr] = t
             holder == [q.holder EXCEPT ![d.addr] = 0]
  <2>1. Draw(p, d) = [q EXCEPT !.holder = holder, !.sane = ok]
    BY <1>5 DEF Draw, Sequel
  <2>2. ok \in BOOLEAN
    OBVIOUS
  <2> HIDE DEF q, t
  <2>3. holder \in [Lock2 -> Nat]
    BY <1>0 DEF Pictures
  <2> HIDE DEF ok, holder
  <2> QED BY <1>0, <2>1, <2>2, <2>3 DEF Pictures
<1>6. CASE d.name = "LockContention"
  <2> DEFINE ok == q.sane /\ p.waits[t] = d.addr /\ p.holder[d.addr] # 0
  <2>1. Draw(p, d) = [q EXCEPT !.sane = ok]
    BY <1>6 DEF Draw, Sequel
  <2>2. ok \in BOOLEAN
    OBVIOUS
  <2> HIDE DEF ok, q, t
  <2> QED BY <1>0, <2>1, <2>2 DEF Pictures
<1>7. CASE d.name \notin {"ThreadSpawn", "SchedSwitch", "LockAcquire", "LockAcquired", "LockRelease",
                          "LockContention"}
  <2>1. Draw(p, d) = q
    BY <1>7 DEF Draw, Sequel
  <2> QED BY <1>0, <2>1
<1> QED BY <1>1, <1>2, <1>3, <1>4, <1>5, <1>6, <1>7

\* One record of decode_batch.
Read(out, raw) == IF KnownType(raw) THEN Append(out, Decode(raw)) ELSE out

\* decode_batch has a trace.
LEMMA BatchTrace ==
  ASSUME NEW raws \in Seq(Raws)
  PROVE  \E h : /\ h[0] = << >>
                /\ \A k \in 1..Len(raws) : h[k] = Read(h[k - 1], raws[k])
                /\ DecodeBatch(raws) = h[Len(raws)]
<1> DEFINE n == Len(raws)
           S == Seq(Decoded)
           a == << >>
           Eq(it) == it = [s \in SUBSET (1..n) |->
                             IF s = {} THEN a
                             ELSE Read(it[s \ {Max(s)}], raws[Max(s)])]
           iter == CHOOSE it : Eq(it)
           op == [q \in S \X (1..n) |-> Read(q[1], raws[q[2]])]
<1>0. n \in Nat /\ DOMAIN raws = 1..n /\ \A k \in 1..n : raws[k] \in Raws
  OBVIOUS
<1>1. DecodeBatch(raws) = iter[1..n]
  BY <1>0 DEF DecodeBatch, Read, FoldLeft, MapThenFoldSet
<1>2. a \in S /\ op \in [S \X (1..n) -> S]
  <2>1. \A x \in S, k \in 1..n : Read(x, raws[k]) \in S
    <3> HIDE DEF n
    <3> QED BY <1>0, DecodeTyped DEF Read
  <2>2. a \in S
    OBVIOUS
  <2> HIDE DEF S, n
  <2> QED BY <2>1, <2>2
<1>3. PICK it \in [SUBSET (1..n) -> S] : SolvesFold(it, a, op, n)
  <2> HIDE DEF op, n, a, S
  <2> QED BY <1>2, <1>0, FoldExists
<1>4. ASSUME NEW s \in SUBSET (1..n), s # {}
      PROVE  op[<<it[s \ {Max(s)}], Max(s)>>] = Read(it[s \ {Max(s)}], raws[Max(s)])
  <2>1. Max(s) \in 1..n /\ s \ {Max(s)} \in SUBSET (1..n)
    <3> HIDE DEF n
    <3> QED BY <1>0, <1>4, MaxIn
  <2>2. <<it[s \ {Max(s)}], Max(s)>> \in S \X (1..n)
    <3> HIDE DEF S
    <3> QED BY <2>1
  <2> HIDE DEF S
  <2> QED BY <2>2
<1>5. Eq(it)
  <2> HIDE DEF op, n, a, S
  <2> QED BY <1>3, <1>4 DEF SolvesFold
<1>6. Eq(iter)
  <2> HIDE DEF Eq
  <2> QED BY <1>5
<1> DEFINE h == [k \in 0..n |-> iter[1..k]]
<1> HIDE DEF iter, n
<1>7. h[0] = a
  BY <1>0, <1>6, 1..0 = {}
<1>8. ASSUME NEW k \in 1..n PROVE h[k] = Read(h[k - 1], raws[k])
  <2>1. 1..k \in SUBSET (1..n) /\ 1..k # {} /\ Max(1..k) = k /\ (1..k) \ {k} = 1..(k - 1)
    BY <1>0, IndexPrefixes
  <2>2. h[k] = iter[1..k] /\ h[k - 1] = iter[1..(k - 1)]
    BY <1>0
  <2> HIDE DEF h, a
  <2> QED BY <2>1, <2>2, <1>6, ZenonT(60)
<1>9. h[n] = iter[1..n]
  BY <1>0
<1> HIDE DEF h
<1> QED BY <1>1, <1>7, <1>8, <1>9 DEF n

\* One more record is decoded after the others, or left out.
LEMMA BatchOfOneMore ==
  ASSUME NEW raws \in Seq(Raws), NEW raw \in Raws
  PROVE  DecodeBatch(Append(raws, raw)) = Read(DecodeBatch(raws), raw)
<1> DEFINE longer == Append(raws, raw)
           n == Len(raws)
<1>0. n \in Nat /\ longer \in Seq(Raws) /\ Len(longer) = n + 1 /\ longer[n + 1] = raw
      /\ \A k \in 1..n : longer[k] = raws[k]
  OBVIOUS
<1>1. PICK h : /\ h[0] = << >> /\ \A k \in 1..Len(raws) : h[k] = Read(h[k - 1], raws[k])
               /\ DecodeBatch(raws) = h[n]
  BY BatchTrace
<1>2. PICK g : /\ g[0] = << >> /\ \A k \in 1..Len(longer) : g[k] = Read(g[k - 1], longer[k])
               /\ DecodeBatch(longer) = g[Len(longer)]
  <2> HIDE DEF longer
  <2> QED BY <1>0, BatchTrace
<1> HIDE DEF longer
<1>3. g[n] = h[n]
  <2>1. \A k \in 1..n : k \in 1..Len(longer)
    BY <1>0
  <2>2. \A k \in 1..n : g[k - 1] = h[k - 1] => g[k] = h[k]
    BY <1>0, <1>1, <1>2, <2>1
  <2> HIDE DEF n
  <2> QED BY <1>0, <1>1, <1>2, <2>2, StepsAgree
<1>4. n + 1 \in 1..Len(longer) /\ (n + 1) - 1 = n
  BY <1>0
<1>5. g[n + 1] = Read(g[n], raw)
  BY <1>0, <1>2, <1>4
<1>6. DecodeBatch(longer) = Read(DecodeBatch(raws), raw)
  BY <1>0, <1>1, <1>2, <1>3, <1>5
<1> QED BY <1>6 DEF longer

\* The picture a batch draws has a trace.
LEMMA DrawnTrace ==
  ASSUME NEW events \in Seq(Decoded), NEW p \in Pictures
  PROVE  \E h : /\ h[0] = p
                /\ \A k \in 1..Len(events) : h[k] = Draw(h[k - 1], events[k])
                /\ Drawn(p, events) = h[Len(events)]
<1> DEFINE n == Len(events)
           S == Pictures
           a == p
           Eq(it) == it = [s \in SUBSET (1..n) |->
                             IF s = {} THEN a
                             ELSE Draw(it[s \ {Max(s)}], events[Max(s)])]
           iter == CHOOSE it : Eq(it)
           op == [q \in S \X (1..n) |-> Draw(q[1], events[q[2]])]
<1>0. n \in Nat /\ DOMAIN events = 1..n /\ \A k \in 1..n : events[k] \in Decoded
  OBVIOUS
<1>1. Drawn(p, events) = iter[1..n]
  BY <1>0 DEF Drawn, FoldLeft, MapThenFoldSet
<1>2. a \in S /\ op \in [S \X (1..n) -> S]
  <2>1. \A x \in S, k \in 1..n : Draw(x, events[k]) \in S
    <3> HIDE DEF n
    <3> QED BY <1>0, DrawTyped
  <2> HIDE DEF S, n
  <2> QED BY <2>1 DEF S
<1>3. PICK it \in [SUBSET (1..n) -> S] : SolvesFold(it, a, op, n)
  <2> HIDE DEF op, n, a, S
  <2> QED BY <1>2, <1>0, FoldExists
<1>4. ASSUME NEW s \in SUBSET (1..n), s # {}
      PROVE  op[<<it[s \ {Max(s)}], Max(s)>>] = Draw(it[s \ {Max(s)}], events[Max(s)])
  <2>1. Max(s) \in 1..n /\ s \ {Max(s)} \in SUBSET (1..n)
    <3> HIDE DEF n
    <3> QED BY <1>0, <1>4, MaxIn
  <2>2. <<it[s \ {Max(s)}], Max(s)>> \in S \X (1..n)
    <3> HIDE DEF S
    <3> QED BY <2>1
  <2> HIDE DEF S
  <2> QED BY <2>2
<1>5. Eq(it)
  <2> HIDE DEF op, n, a, S
  <2> QED BY <1>3, <1>4 DEF SolvesFold
<1>6. Eq(iter)
  <2> HIDE DEF Eq
  <2> QED BY <1>5
<1> DEFINE h == [k \in 0..n |-> iter[1..k]]
<1> HIDE DEF iter, n
<1>7. h[0] = a
  BY <1>0, <1>6, 1..0 = {}
<1>8. ASSUME NEW k \in 1..n PROVE h[k] = Draw(h[k - 1], events[k])
  <2>1. 1..k \in SUBSET (1..n) /\ 1..k # {} /\ Max(1..k) = k /\ (1..k) \ {k} = 1..(k - 1)
    BY <1>0, IndexPrefixes
  <2>2. h[k] = iter[1..k] /\ h[k - 1] = iter[1..(k - 1)]
    BY <1>0
  <2> HIDE DEF h, a
  <2> QED BY <2>1, <2>2, <1>6, ZenonT(60)
<1>9. h[n] = iter[1..n]
  BY <1>0
<1> HIDE DEF h
<1> QED BY <1>1, <1>7, <1>8, <1>9 DEF n

\* One more event is drawn on top of the others.
LEMMA DrawnOfOneMore ==
  ASSUME NEW events \in Seq(Decoded), NEW d \in Decoded, NEW p \in Pictures
  PROVE  Drawn(p, Append(events, d)) = Draw(Drawn(p, events), d)
<1> DEFINE longer == Append(events, d)
           n == Len(events)
<1>0. n \in Nat /\ longer \in Seq(Decoded) /\ Len(longer) = n + 1 /\ longer[n + 1] = d
      /\ \A k \in 1..n : longer[k] = events[k]
  OBVIOUS
<1>1. PICK h : /\ h[0] = p /\ \A k \in 1..Len(events) : h[k] = Draw(h[k - 1], events[k])
               /\ Drawn(p, events) = h[n]
  BY DrawnTrace
<1>2. PICK g : /\ g[0] = p /\ \A k \in 1..Len(longer) : g[k] = Draw(g[k - 1], longer[k])
               /\ Drawn(p, longer) = g[Len(longer)]
  <2> HIDE DEF longer
  <2> QED BY <1>0, DrawnTrace
<1> HIDE DEF longer
<1>3. g[n] = h[n]
  <2>1. \A k \in 1..n : k \in 1..Len(longer)
    BY <1>0
  <2>2. \A k \in 1..n : g[k - 1] = h[k - 1] => g[k] = h[k]
    BY <1>0, <1>1, <1>2, <2>1
  <2> HIDE DEF n
  <2> QED BY <1>0, <1>1, <1>2, <2>2, StepsAgree
<1>4. n + 1 \in 1..Len(longer) /\ (n + 1) - 1 = n
  BY <1>0
<1>5. g[n + 1] = Draw(g[n], d)
  BY <1>0, <1>2, <1>4
<1>6. Drawn(p, longer) = Draw(Drawn(p, events), d)
  BY <1>0, <1>1, <1>2, <1>3, <1>5
<1> QED BY <1>6 DEF longer

\* A batch is a list of events, and no record is no event.
LEMMA BatchTyped ==
  ASSUME NEW raws \in Seq(Raws)
  PROVE  DecodeBatch(raws) \in Seq(Decoded) /\ (raws = << >> => DecodeBatch(raws) = << >>)
<1> DEFINE n == Len(raws)
           S == Seq(Decoded)
<1>0. n \in Nat /\ (\A k \in 1..n : raws[k] \in Raws) /\ (raws = << >> => n = 0)
  OBVIOUS
<1>1. PICK h : /\ h[0] = << >> /\ \A k \in 1..n : h[k] = Read(h[k - 1], raws[k])
               /\ DecodeBatch(raws) = h[n]
  BY BatchTrace
<1>2. h[0] \in S /\ \A k \in 1..n : h[k - 1] \in S => h[k] \in S
  <2>1. \A k \in 1..n, x \in S : Read(x, raws[k]) \in S
    <3> HIDE DEF n
    <3> QED BY <1>0, DecodeTyped DEF Read
  <2> HIDE DEF n
  <2> QED BY <1>1, <2>1
<1> HIDE DEF S, n
<1>3. \A k \in 0..n : h[k] \in S
  BY <1>0, <1>2, StepsStay
<1> QED BY <1>0, <1>1, <1>3 DEF S

\* Events draw a picture, and none leave it as it was.
LEMMA DrawnTyped ==
  ASSUME NEW events \in Seq(Decoded), NEW p \in Pictures
  PROVE  Drawn(p, events) \in Pictures /\ (events = << >> => Drawn(p, events) = p)
<1> DEFINE n == Len(events)
<1>0. n \in Nat /\ (\A k \in 1..n : events[k] \in Decoded) /\ (events = << >> => n = 0)
  OBVIOUS
<1>1. PICK h : /\ h[0] = p /\ \A k \in 1..n : h[k] = Draw(h[k - 1], events[k])
               /\ Drawn(p, events) = h[n]
  BY DrawnTrace
<1>2. h[0] \in Pictures /\ \A k \in 1..n : h[k - 1] \in Pictures => h[k] \in Pictures
  <2> HIDE DEF n
  <2> QED BY <1>0, <1>1, DrawTyped
<1> HIDE DEF n
<1>3. \A k \in 0..n : h[k] \in Pictures
  BY <1>0, <1>2, StepsStay
<1> QED BY <1>0, <1>1, <1>3

-----------------------------------------------------------------------------
(* The events of the mock streams. *)

MockNames == {"ThreadSpawn", "SchedSwitch", "LockAcquire", "LockAcquired", "LockRelease",
              "LockContention"}

\* The discriminant of a name is its place in the enum.
LEMMA DiscriminantOf ==
  ASSUME NEW name \in MockNames
  PROVE  /\ Discriminant(name) \in DOMAIN EventTypes /\ EventTypes[Discriminant(name)] = name
         /\ Discriminant(name) \in Nat
<1>1. \E n \in DOMAIN EventTypes : EventTypes[n] = name
  <2>0. DOMAIN EventTypes = 1..22
    BY DEF EventTypes
  <2>1. /\ EventTypes[8] = "ThreadSpawn" /\ EventTypes[7] = "SchedSwitch"
        /\ EventTypes[3] = "LockAcquire" /\ EventTypes[4] = "LockAcquired"
        /\ EventTypes[5] = "LockRelease" /\ EventTypes[6] = "LockContention"
    BY DEF EventTypes
  <2>2. {3, 4, 5, 6, 7, 8} \subseteq DOMAIN EventTypes
    BY <2>0
  <2> QED BY <2>1, <2>2 DEF MockNames
<1>2. Discriminant(name) \in DOMAIN EventTypes /\ EventTypes[Discriminant(name)] = name
  BY <1>1 DEF Discriminant
<1>3. DOMAIN EventTypes = 1..22
  BY DEF EventTypes
<1> QED BY <1>2, <1>3

\* What the ring holds of an event of a script, and what the decoder makes of it.
OnRing(e, ts) == [e.raw EXCEPT !.timestamp_ns = ts]

\* A raw event is read as this.
ReadsAs(raw, name, tid, addr, parent, ts) ==
  /\ raw \in Raws /\ KnownType(raw) /\ Decode(raw) \in Decoded
  /\ Decode(raw).name = name /\ Decode(raw).threads.tid = tid
  /\ Decode(raw).timestamp_ns = ts
  /\ name \in {"ThreadSpawn", "SchedSwitch"} => Decode(raw).threads.other = parent
  /\ name \notin {"ThreadSpawn", "SchedSwitch"} => Decode(raw).addr = addr

\* The events of the constructors are read as they were made.
LEMMA RawDecoded ==
  ASSUME NEW name \in MockNames, NEW tid \in Nat, NEW addr \in Nat, NEW parent \in Nat,
         parent < Tid32, NEW after, NEW ts \in Nat
  PROVE  ReadsAs(OnRing(Raw(name, tid, addr, parent, after), ts), name, tid, addr, parent, ts)
<1> DEFINE raw == OnRing(Raw(name, tid, addr, parent, after), ts)
           disc == Discriminant(name)
<1>1. disc \in DOMAIN EventTypes /\ EventTypes[disc] = name /\ disc \in Nat
  BY DiscriminantOf
<1>2. EventTypes = ParsedTypes
  BY DEF EventTypes, ParsedTypes
<1> HIDE DEF disc
<1>3. raw = [event_type |-> disc, tid |-> tid, timestamp_ns |-> ts, resource_id |-> addr,
             latency_ns |-> 0, parent_tid |-> parent]
  <2> DEFINE blank == [event_type |-> disc, tid |-> tid, timestamp_ns |-> 0, resource_id |-> addr,
                       latency_ns |-> 0, parent_tid |-> parent]
  <2>1. Raw(name, tid, addr, parent, after).raw = blank
    BY DEF Raw, disc
  <2>3. raw = [blank EXCEPT !.timestamp_ns = ts]
    BY <2>1 DEF OnRing
  <2> QED BY <2>3
<1> HIDE DEF raw
<1>4. raw \in Raws
  BY <1>1, <1>3 DEF Raws
<1>5. KnownType(raw) /\ ParsedTypes[raw.event_type] = name
  BY <1>1, <1>2, <1>3 DEF KnownType
<1>6. raw.parent_tid % Tid32 = parent
  BY <1>3, WireConstants
<1>7. Decode(raw) \in Decoded
  BY <1>4, <1>5, DecodeTyped
<1>8. /\ Decode(raw).name = name /\ Decode(raw).threads.tid = tid
      /\ Decode(raw).timestamp_ns = ts
      /\ name \in {"ThreadSpawn", "SchedSwitch"} => Decode(raw).threads.other = parent
      /\ name \notin {"ThreadSpawn", "SchedSwitch"} => Decode(raw).addr = addr
  BY <1>3, <1>5, <1>6 DEF Decode, DecodedThreads, MockNames
<1> QED BY <1>4, <1>5, <1>7, <1>8 DEF raw, ReadsAs

\* What an event of a script adds to a picture that fits it: everything
\* stays sane and one more event is seen.
Fits(p, ts) == p \in Pictures /\ p.sane /\ p.last < ts
Adds(p, q, ts) == q \in Pictures /\ q.sane /\ q.seen = p.seen + 1 /\ q.last = ts

Ready(e, ts) == /\ OnRing(e, ts) \in Raws /\ KnownType(OnRing(e, ts))
                /\ Decode(OnRing(e, ts)) \in Decoded /\ e.after \in Nat \ {0}
Became(q, known, holder, waits, passed) ==
  q.known = known /\ q.holder = holder /\ q.waits = waits /\ q.passed = passed

\* The events of the constructors, decoded.
Shown(p, e, ts) == Draw(p, Decode(OnRing(e, ts)))

\* A new thread, whose parent is known.
LEMMA SpawnShown ==
  ASSUME NEW p, NEW ts \in Nat, Fits(p, ts), NEW child \in Tid2, NEW parent \in {0, TidA},
         child \notin p.known, parent \in p.known
  PROVE  LET e == RawSpawn(child, parent)
             q == Shown(p, e, ts) IN
         Ready(e, ts) /\ Adds(p, q, ts)
         /\ Became(q, p.known \cup {child}, p.holder, p.waits, p.passed)
<1> DEFINE e == RawSpawn(child, parent)
           d == Decode(OnRing(e, ts))
           q == Shown(p, e, ts)
<1>0. child \in Nat /\ parent \in Nat /\ parent < Tid32 /\ 0 \in Nat
  BY WireConstants, MockThreadsFit DEF Tid2, Lock2, TidA, TidB, LockX, LockY
<1>1. /\ OnRing(e, ts) \in Raws /\ KnownType(OnRing(e, ts)) /\ d \in Decoded
      /\ d.name = "ThreadSpawn" /\ d.timestamp_ns = ts
      /\ d.threads.tid = child /\ d.threads.other = parent
  <2>1. "ThreadSpawn" \in MockNames
    BY DEF MockNames
  <2>2. ReadsAs(OnRing(e, ts), "ThreadSpawn", child, 0, parent, ts)
    BY <1>0, <2>1, RawDecoded DEF RawSpawn
  <2> QED BY <2>2 DEF ReadsAs
<1>2. e.after \in Nat \ {0}
  BY DEF RawSpawn, Raw
<1> HIDE DEF d
<1>3. q \in Pictures
  BY <1>1, DrawTyped DEF Fits, Shown, d
<1>4. Draw(p, d) = [p EXCEPT !.seen = @ + 1, !.last = ts, !.known = @ \cup {child},
               !.sane = p.sane /\ ts > p.last /\ child \notin p.known /\ parent \in p.known]
  BY <1>1 DEF Draw, Tid2
<1>5. q = Draw(p, d) /\ p \in Pictures
  BY DEF Shown, d, Fits
<1> HIDE DEF q, e
<1>6. Adds(p, q, ts)
  BY <1>3, <1>4, <1>5 DEF Adds, Fits, Pictures
<1>7. Became(q, p.known \cup {child}, p.holder, p.waits, p.passed)
  BY <1>0, <1>4, <1>5 DEF Pictures, Became
<1> QED BY <1>1, <1>2, <1>6, <1>7 DEF q, e, d, Ready

\* A switch between known threads.
LEMMA SwitchShown ==
  ASSUME NEW p, NEW ts \in Nat, Fits(p, ts), NEW t \in Tid2, NEW next \in Tid2,
         t # next, {t, next} \subseteq p.known
  PROVE  LET e == RawSwitch(t, next)
             q == Shown(p, e, ts) IN
         Ready(e, ts) /\ Adds(p, q, ts)
         /\ Became(q, p.known, p.holder, p.waits, p.passed)
<1> DEFINE e == RawSwitch(t, next)
           d == Decode(OnRing(e, ts))
           q == Shown(p, e, ts)
<1>0. t \in Nat /\ next \in Nat /\ next < Tid32 /\ 0 \in Nat
  BY WireConstants, MockThreadsFit DEF Tid2, Lock2, TidA, TidB, LockX, LockY
<1>1. /\ OnRing(e, ts) \in Raws /\ KnownType(OnRing(e, ts)) /\ d \in Decoded
      /\ d.name = "SchedSwitch" /\ d.timestamp_ns = ts
      /\ d.threads.tid = t /\ d.threads.other = next
  <2>1. "SchedSwitch" \in MockNames
    BY DEF MockNames
  <2>2. ReadsAs(OnRing(e, ts), "SchedSwitch", t, 0, next, ts)
    BY <1>0, <2>1, RawDecoded DEF RawSwitch
  <2> QED BY <2>2 DEF ReadsAs
<1>2. e.after \in Nat \ {0}
  BY DEF RawSwitch, Raw
<1> HIDE DEF d
<1>3. q \in Pictures
  BY <1>1, DrawTyped DEF Fits, Shown, d
<1>4. Draw(p, d) = [p EXCEPT !.seen = @ + 1, !.last = ts,
               !.sane = p.sane /\ ts > p.last /\ {t, next} \subseteq p.known /\ t # next]
  BY <1>1 DEF Draw, Tid2
<1>5. q = Draw(p, d) /\ p \in Pictures
  BY DEF Shown, d, Fits
<1> HIDE DEF q, e
<1>6. Adds(p, q, ts)
  BY <1>3, <1>4, <1>5 DEF Adds, Fits, Pictures
<1>7. Became(q, p.known, p.holder, p.waits, p.passed)
  BY <1>0, <1>4, <1>5 DEF Pictures, Became
<1> QED BY <1>1, <1>2, <1>6, <1>7 DEF q, e, d, Ready

\* A thread begins to wait.
LEMMA AcquireShown ==
  ASSUME NEW p, NEW ts \in Nat, Fits(p, ts), NEW t \in Tid2, NEW l \in Lock2, NEW after \in Nat \ {0}
  PROVE  LET e == RawAcquire(t, l, after)
             q == Shown(p, e, ts) IN
         Ready(e, ts) /\ Adds(p, q, ts)
         /\ Became(q, p.known, p.holder, [p.waits EXCEPT ![t] = l], p.passed)
<1> DEFINE e == RawAcquire(t, l, after)
           d == Decode(OnRing(e, ts))
           q == Shown(p, e, ts)
<1>0. t \in Nat /\ l \in Nat /\ 0 \in Nat /\ 0 < Tid32
  BY WireConstants, MockThreadsFit DEF Tid2, Lock2, TidA, TidB, LockX, LockY
<1>1. /\ OnRing(e, ts) \in Raws /\ KnownType(OnRing(e, ts)) /\ d \in Decoded
      /\ d.name = "LockAcquire" /\ d.timestamp_ns = ts
      /\ d.threads.tid = t /\ d.addr = l
  <2>1. "LockAcquire" \in MockNames
    BY DEF MockNames
  <2>2. ReadsAs(OnRing(e, ts), "LockAcquire", t, l, 0, ts)
    BY <1>0, <2>1, RawDecoded DEF RawAcquire
  <2> QED BY <2>2 DEF ReadsAs
<1>2. e.after \in Nat \ {0}
  BY DEF RawAcquire, Raw
<1> HIDE DEF d
<1>3. q \in Pictures
  BY <1>1, DrawTyped DEF Fits, Shown, d
<1>4. Draw(p, d) = [p EXCEPT !.seen = @ + 1, !.last = ts, !.sane = p.sane /\ ts > p.last,
               !.waits = [@ EXCEPT ![t] = l]]
  BY <1>1 DEF Draw, Tid2
<1>5. q = Draw(p, d) /\ p \in Pictures
  BY DEF Shown, d, Fits
<1> HIDE DEF q, e
<1>6. Adds(p, q, ts)
  BY <1>3, <1>4, <1>5 DEF Adds, Fits, Pictures
<1>7. Became(q, p.known, p.holder, [p.waits EXCEPT ![t] = l], p.passed)
  BY <1>0, <1>4, <1>5 DEF Pictures, Became
<1> QED BY <1>1, <1>2, <1>6, <1>7 DEF q, e, d, Ready

\* It gets the free lock it waits for.
LEMMA AcquiredShown ==
  ASSUME NEW p, NEW ts \in Nat, Fits(p, ts), NEW t \in Tid2, NEW l \in Lock2, NEW after \in Nat \ {0},
         p.holder[l] = 0, p.waits[t] = l
  PROVE  LET e == RawAcquired(t, l, after)
             q == Shown(p, e, ts) IN
         Ready(e, ts) /\ Adds(p, q, ts)
         /\ Became(q, p.known, [p.holder EXCEPT ![l] = t], [p.waits EXCEPT ![t] = 0],
                   IF \E u \in {TidA, TidB} \ {t} : p.waits[u] = l THEN p.passed + 1 ELSE p.passed)
<1> DEFINE e == RawAcquired(t, l, after)
           d == Decode(OnRing(e, ts))
           q == Shown(p, e, ts)
<1>0. t \in Nat /\ l \in Nat /\ 0 \in Nat /\ 0 < Tid32
  BY WireConstants, MockThreadsFit DEF Tid2, Lock2, TidA, TidB, LockX, LockY
<1>1. /\ OnRing(e, ts) \in Raws /\ KnownType(OnRing(e, ts)) /\ d \in Decoded
      /\ d.name = "LockAcquired" /\ d.timestamp_ns = ts
      /\ d.threads.tid = t /\ d.addr = l
  <2>1. "LockAcquired" \in MockNames
    BY DEF MockNames
  <2>2. ReadsAs(OnRing(e, ts), "LockAcquired", t, l, 0, ts)
    BY <1>0, <2>1, RawDecoded DEF RawAcquired
  <2> QED BY <2>2 DEF ReadsAs
<1>2. e.after \in Nat \ {0}
  BY DEF RawAcquired, Raw
<1> HIDE DEF d
<1>3. q \in Pictures
  BY <1>1, DrawTyped DEF Fits, Shown, d
<1>4. Draw(p, d) = [p EXCEPT !.seen = @ + 1, !.last = ts,
               !.sane = p.sane /\ ts > p.last /\ p.holder[l] = 0 /\ p.waits[t] = l,
               !.holder = [@ EXCEPT ![l] = t], !.waits = [@ EXCEPT ![t] = 0],
               !.passed = IF \E u \in {TidA, TidB} \ {t} : p.waits[u] = l THEN @ + 1 ELSE @]
  BY <1>1, ZenonT(60) DEF Draw, Tid2
<1>5. q = Draw(p, d) /\ p \in Pictures
  BY DEF Shown, d, Fits
<1> HIDE DEF q, e
<1>6. Adds(p, q, ts)
  BY <1>3, <1>4, <1>5 DEF Adds, Fits, Pictures
<1>7. Became(q, p.known, [p.holder EXCEPT ![l] = t], [p.waits EXCEPT ![t] = 0],
                   IF \E u \in {TidA, TidB} \ {t} : p.waits[u] = l THEN p.passed + 1 ELSE p.passed)
  BY <1>0, <1>4, <1>5 DEF Pictures, Became
<1> QED BY <1>1, <1>2, <1>6, <1>7 DEF q, e, d, Ready

\* The holder releases.
LEMMA ReleaseShown ==
  ASSUME NEW p, NEW ts \in Nat, Fits(p, ts), NEW t \in Tid2, NEW l \in Lock2, NEW after \in Nat \ {0},
         p.holder[l] = t
  PROVE  LET e == RawRelease(t, l, after)
             q == Shown(p, e, ts) IN
         Ready(e, ts) /\ Adds(p, q, ts)
         /\ Became(q, p.known, [p.holder EXCEPT ![l] = 0], p.waits, p.passed)
<1> DEFINE e == RawRelease(t, l, after)
           d == Decode(OnRing(e, ts))
           q == Shown(p, e, ts)
<1>0. t \in Nat /\ l \in Nat /\ 0 \in Nat /\ 0 < Tid32
  BY WireConstants, MockThreadsFit DEF Tid2, Lock2, TidA, TidB, LockX, LockY
<1>1. /\ OnRing(e, ts) \in Raws /\ KnownType(OnRing(e, ts)) /\ d \in Decoded
      /\ d.name = "LockRelease" /\ d.timestamp_ns = ts
      /\ d.threads.tid = t /\ d.addr = l
  <2>1. "LockRelease" \in MockNames
    BY DEF MockNames
  <2>2. ReadsAs(OnRing(e, ts), "LockRelease", t, l, 0, ts)
    BY <1>0, <2>1, RawDecoded DEF RawRelease
  <2> QED BY <2>2 DEF ReadsAs
<1>2. e.after \in Nat \ {0}
  BY DEF RawRelease, Raw
<1> HIDE DEF d
<1>3. q \in Pictures
  BY <1>1, DrawTyped DEF Fits, Shown, d
<1>4. Draw(p, d) = [p EXCEPT !.seen = @ + 1, !.last = ts, !.sane = p.sane /\ ts > p.last /\ p.holder[l] = t,
               !.holder = [@ EXCEPT ![l] = 0]]
  BY <1>1, ZenonT(60) DEF Draw, Tid2
<1>5. q = Draw(p, d) /\ p \in Pictures
  BY DEF Shown, d, Fits
<1> HIDE DEF q, e
<1>6. Adds(p, q, ts)
  BY <1>3, <1>4, <1>5 DEF Adds, Fits, Pictures
<1>7. Became(q, p.known, [p.holder EXCEPT ![l] = 0], p.waits, p.passed)
  BY <1>0, <1>4, <1>5 DEF Pictures, Became
<1> QED BY <1>1, <1>2, <1>6, <1>7 DEF q, e, d, Ready

\* A thread finds the lock it waits for taken.
LEMMA ContentionShown ==
  ASSUME NEW p, NEW ts \in Nat, Fits(p, ts), NEW t \in Tid2, NEW l \in Lock2, NEW after \in Nat \ {0},
         p.waits[t] = l, p.holder[l] # 0
  PROVE  LET e == RawContention(t, l, after)
             q == Shown(p, e, ts) IN
         Ready(e, ts) /\ Adds(p, q, ts)
         /\ Became(q, p.known, p.holder, p.waits, p.passed)
<1> DEFINE e == RawContention(t, l, after)
           d == Decode(OnRing(e, ts))
           q == Shown(p, e, ts)
<1>0. t \in Nat /\ l \in Nat /\ 0 \in Nat /\ 0 < Tid32
  BY WireConstants, MockThreadsFit DEF Tid2, Lock2, TidA, TidB, LockX, LockY
<1>1. /\ OnRing(e, ts) \in Raws /\ KnownType(OnRing(e, ts)) /\ d \in Decoded
      /\ d.name = "LockContention" /\ d.timestamp_ns = ts
      /\ d.threads.tid = t /\ d.addr = l
  <2>1. "LockContention" \in MockNames
    BY DEF MockNames
  <2>2. ReadsAs(OnRing(e, ts), "LockContention", t, l, 0, ts)
    BY <1>0, <2>1, RawDecoded DEF RawContention
  <2> QED BY <2>2 DEF ReadsAs
<1>2. e.after \in Nat \ {0}
  BY DEF RawContention, Raw
<1> HIDE DEF d
<1>3. q \in Pictures
  BY <1>1, DrawTyped DEF Fits, Shown, d
<1>4. Draw(p, d) = [p EXCEPT !.seen = @ + 1, !.last = ts,
               !.sane = p.sane /\ ts > p.last /\ p.waits[t] = l /\ p.holder[l] # 0]
  BY <1>1 DEF Draw, Tid2
<1>5. q = Draw(p, d) /\ p \in Pictures
  BY DEF Shown, d, Fits
<1> HIDE DEF q, e
<1>6. Adds(p, q, ts)
  BY <1>3, <1>4, <1>5 DEF Adds, Fits, Pictures
<1>7. Became(q, p.known, p.holder, p.waits, p.passed)
  BY <1>0, <1>4, <1>5 DEF Pictures, Became
<1> QED BY <1>1, <1>2, <1>6, <1>7 DEF q, e, d, Ready

-----------------------------------------------------------------------------
(* The scripts of the mock source, event by event. *)

\* Who is known, who holds and who waits for which lock.
Looks(p, known, holderX, holderY, waitA, waitB, passed) ==
  /\ p.known = known /\ p.passed = passed
  /\ p.holder[LockX] = holderX /\ p.holder[LockY] = holderY
  /\ p.waits[TidA] = waitA /\ p.waits[TidB] = waitB

\* The threads known after so many events of a script with two threads.
Known2(k) == IF k = 0 THEN {0} ELSE IF k = 1 THEN {0, TidA} ELSE {0, TidA, TidB}

\* The picture after so many events of each script.
CleanAt(p, k) ==
  Looks(p, IF k = 0 THEN {0} ELSE {0, TidA}, IF k = 3 THEN TidA ELSE 0, 0,
        IF k = 2 THEN LockX ELSE 0, 0, 0)

DeadlockAt(p, k) ==
  Looks(p, Known2(k), IF k >= 4 THEN TidA ELSE 0, IF k >= 6 THEN TidB ELSE 0,
        IF k >= 7 THEN LockY ELSE IF k = 3 THEN LockX ELSE 0,
        IF k >= 9 THEN LockX ELSE IF k = 5 THEN LockY ELSE 0, 0)

RaceAt(p, k) ==
  Looks(p, Known2(k), IF k >= 4 THEN TidA ELSE 0, 0,
        IF k >= 7 \/ k = 3 THEN LockX ELSE 0, IF k >= 5 THEN LockX ELSE 0, 0)

\* From the sixth event on A takes the lock again and again: the place in a
\* cycle, and the number of cycles done.
Place(k) == (k - 6) % 4
StarvedAt(p, k) ==
  IF k < 6
  THEN Looks(p, Known2(k), IF k >= 4 THEN TidA ELSE 0, 0, IF k = 3 THEN LockX ELSE 0,
             IF k >= 5 THEN LockX ELSE 0, 0)
  ELSE Looks(p, Known2(k), IF Place(k) \in {1, 2} THEN 0 ELSE TidA, 0,
             IF Place(k) = 2 THEN LockX ELSE 0, LockX,
             ((k - 6) \div 4) + (IF Place(k) = 3 THEN 1 ELSE 0))

\* The next event of a script finds a picture that fits it.
Follows(p, q, e, ts) == Ready(e, ts) /\ Adds(p, q, ts)

\* One entry of the holders or of the waits is replaced and the other kept.
LEMMA MapsAfter ==
  ASSUME NEW p \in Pictures, NEW v
  PROVE  /\ [p.holder EXCEPT ![LockX] = v][LockX] = v
         /\ [p.holder EXCEPT ![LockX] = v][LockY] = p.holder[LockY]
         /\ [p.holder EXCEPT ![LockY] = v][LockY] = v
         /\ [p.holder EXCEPT ![LockY] = v][LockX] = p.holder[LockX]
         /\ [p.waits EXCEPT ![TidA] = v][TidA] = v
         /\ [p.waits EXCEPT ![TidA] = v][TidB] = p.waits[TidB]
         /\ [p.waits EXCEPT ![TidB] = v][TidB] = v
         /\ [p.waits EXCEPT ![TidB] = v][TidA] = p.waits[TidA]
BY DEF Pictures, Lock2, Tid2, TidA, TidB, LockX, LockY

\* The same of a lock the other thread may be waiting for.
LEMMA PassedShown ==
  ASSUME NEW p, NEW ts \in Nat, Fits(p, ts), NEW t \in Tid2, NEW l \in Lock2,
         NEW after \in Nat \ {0}, p.holder[l] = 0, p.waits[t] = l, NEW u \in Tid2, u # t
  PROVE  LET e == RawAcquired(t, l, after)
             q == Shown(p, e, ts) IN
         /\ Ready(e, ts) /\ Adds(p, q, ts)
         /\ Became(q, p.known, [p.holder EXCEPT ![l] = t], [p.waits EXCEPT ![t] = 0],
                   p.passed + (IF p.waits[u] = l THEN 1 ELSE 0))
<1> DEFINE e == RawAcquired(t, l, after)
           q == Shown(p, e, ts)
<1>1. {TidA, TidB} \ {t} = {u}
  BY DEF Tid2
<1>2. (\E v \in {u} : p.waits[v] = l) <=> p.waits[u] = l
  OBVIOUS
<1>3. /\ Ready(e, ts) /\ Adds(p, q, ts)
      /\ Became(q, p.known, [p.holder EXCEPT ![l] = t], [p.waits EXCEPT ![t] = 0],
                IF \E v \in {TidA, TidB} \ {t} : p.waits[v] = l THEN p.passed + 1 ELSE p.passed)
  BY AcquiredShown
<1>4. p.passed \in Nat
  BY DEF Fits, Pictures
<1>5. (IF \E v \in {TidA, TidB} \ {t} : p.waits[v] = l THEN p.passed + 1 ELSE p.passed)
        = p.passed + (IF p.waits[u] = l THEN 1 ELSE 0)
  BY <1>1, <1>2, <1>4
<1> HIDE DEF e, q
<1>6. Became(q, p.known, [p.holder EXCEPT ![l] = t], [p.waits EXCEPT ![t] = 0],
             p.passed + (IF p.waits[u] = l THEN 1 ELSE 0))
  BY <1>3, <1>5
<1> QED BY <1>3, <1>6 DEF e, q

\* Every event of the clean script fits the picture before it.
LEMMA CleanStep ==
  ASSUME NEW k \in 0..3, NEW p, NEW ts \in Nat, Fits(p, ts), CleanAt(p, k)
  PROVE  LET e == CleanUncontested[k + 1]
             q == Shown(p, e, ts) IN
         Follows(p, q, e, ts) /\ CleanAt(q, k + 1)
<1> DEFINE e == CleanUncontested[k + 1]
           q == Shown(p, e, ts)
<1>0. p \in Pictures
  BY DEF Fits
<1>1. CASE k = 0
  <2>1. e = RawSpawn(TidA, 0)
    BY <1>1 DEF CleanUncontested
  <2>2. TidA \in Tid2 /\ 0 \in {0, TidA} /\ TidA \notin p.known /\ 0 \in p.known
    BY <1>1 DEF CleanAt, Looks, Tid2, Lock2, TidA, TidB, LockX, LockY
  <2>3. Follows(p, q, e, ts) /\ Became(q, p.known \cup {TidA}, p.holder, p.waits, p.passed)
    BY <2>1, <2>2, SpawnShown DEF Follows
  <2>4. CleanAt(q, k + 1)
    BY <1>1, <2>3 DEF Became, CleanAt, Looks, TidA, TidB, LockX, LockY
  <2> QED BY <2>3, <2>4
<1>2. CASE k = 1
  <2>1. e = RawAcquire(TidA, LockX, 100)
    BY <1>2 DEF CleanUncontested
  <2>2. TidA \in Tid2 /\ LockX \in Lock2 /\ 100 \in Nat \ {0}
    BY <1>2 DEF CleanAt, Looks, Tid2, Lock2, TidA, TidB, LockX, LockY
  <2>3. /\ Follows(p, q, e, ts)
        /\ Became(q, p.known, p.holder, [p.waits EXCEPT ![TidA] = LockX], p.passed)
    BY <2>1, <2>2, AcquireShown DEF Follows
  <2>4. /\ q.holder = p.holder /\ q.waits = [p.waits EXCEPT ![TidA] = LockX]
        /\ q.known = p.known /\ q.passed = p.passed
    BY <2>3 DEF Became
  <2> HIDE DEF q, e
  <2>5. /\ q.holder[LockX] = p.holder[LockX] /\ q.holder[LockY] = p.holder[LockY]
        /\ q.waits[TidA] = LockX /\ q.waits[TidB] = p.waits[TidB]
    BY <2>4, MapsAfter, <1>0
  <2>6. CleanAt(q, k + 1)
    BY <1>2, <2>2, <2>4, <2>5 DEF CleanAt, Looks, TidA, TidB, LockX, LockY
  <2> QED BY <2>3, <2>6 DEF q, e
<1>3. CASE k = 2
  <2>1. e = RawAcquired(TidA, LockX, 100)
    BY <1>3 DEF CleanUncontested
  <2>2. /\ TidA \in Tid2 /\ LockX \in Lock2 /\ 100 \in Nat \ {0}
        /\ p.holder[LockX] = 0 /\ p.waits[TidA] = LockX /\ TidB \in Tid2 /\ TidB # TidA
    BY <1>3 DEF CleanAt, Looks, Tid2, Lock2, TidA, TidB, LockX, LockY
  <2>3. /\ Follows(p, q, e, ts)
        /\ Became(q, p.known, [p.holder EXCEPT ![LockX] = TidA], [p.waits EXCEPT ![TidA] = 0],
                 p.passed + (IF p.waits[TidB] = LockX THEN 1 ELSE 0))
    BY <2>1, <2>2, PassedShown DEF Follows
  <2>4. /\ q.holder = [p.holder EXCEPT ![LockX] = TidA] /\ q.waits = [p.waits EXCEPT ![TidA] = 0]
        /\ q.known = p.known /\ q.passed = p.passed + (IF p.waits[TidB] = LockX THEN 1 ELSE 0)
    BY <2>3 DEF Became
  <2> HIDE DEF q, e
  <2>5. /\ q.holder[LockX] = TidA /\ q.holder[LockY] = p.holder[LockY]
        /\ q.waits[TidA] = 0 /\ q.waits[TidB] = p.waits[TidB]
    BY <2>4, MapsAfter, <1>0
  <2>6. CleanAt(q, k + 1)
    BY <1>3, <2>2, <2>4, <2>5 DEF CleanAt, Looks, TidA, TidB, LockX, LockY
  <2> QED BY <2>3, <2>6 DEF q, e
<1>4. CASE k = 3
  <2>1. e = RawRelease(TidA, LockX, 100)
    BY <1>4 DEF CleanUncontested
  <2>2. TidA \in Tid2 /\ LockX \in Lock2 /\ 100 \in Nat \ {0} /\ p.holder[LockX] = TidA
    BY <1>4 DEF CleanAt, Looks, Tid2, Lock2, TidA, TidB, LockX, LockY
  <2>3. /\ Follows(p, q, e, ts)
        /\ Became(q, p.known, [p.holder EXCEPT ![LockX] = 0], p.waits, p.passed)
    BY <2>1, <2>2, ReleaseShown DEF Follows
  <2>4. /\ q.holder = [p.holder EXCEPT ![LockX] = 0] /\ q.waits = p.waits
        /\ q.known = p.known /\ q.passed = p.passed
    BY <2>3 DEF Became
  <2> HIDE DEF q, e
  <2>5. /\ q.holder[LockX] = 0 /\ q.holder[LockY] = p.holder[LockY]
        /\ q.waits[TidA] = p.waits[TidA] /\ q.waits[TidB] = p.waits[TidB]
    BY <2>4, MapsAfter, <1>0
  <2>6. CleanAt(q, k + 1)
    BY <1>4, <2>2, <2>4, <2>5 DEF CleanAt, Looks, TidA, TidB, LockX, LockY
  <2> QED BY <2>3, <2>6 DEF q, e
<1>20. k = 0 \/ k = 1 \/ k = 2 \/ k = 3
  OBVIOUS
<1> QED BY <1>20, <1>1, <1>2, <1>3, <1>4

\* So does every event of the deadlock.
LEMMA DeadlockStep ==
  ASSUME NEW k \in 0..11, NEW p, NEW ts \in Nat, Fits(p, ts), DeadlockAt(p, k)
  PROVE  LET e == AbBaDeadlock[k + 1]
             q == Shown(p, e, ts) IN
         Follows(p, q, e, ts) /\ DeadlockAt(q, k + 1)
<1> DEFINE e == AbBaDeadlock[k + 1]
           q == Shown(p, e, ts)
<1>0. p \in Pictures
  BY DEF Fits
<1>1. CASE k = 0
  <2>1. e = RawSpawn(TidA, 0)
    BY <1>1 DEF AbBaDeadlock
  <2>2. TidA \in Tid2 /\ 0 \in {0, TidA} /\ TidA \notin p.known /\ 0 \in p.known
    BY <1>1 DEF DeadlockAt, Looks, Known2, Tid2, Lock2, TidA, TidB, LockX, LockY
  <2>3. Follows(p, q, e, ts) /\ Became(q, p.known \cup {TidA}, p.holder, p.waits, p.passed)
    BY <2>1, <2>2, SpawnShown DEF Follows
  <2>4. DeadlockAt(q, k + 1)
    BY <1>1, <2>3 DEF Became, DeadlockAt, Looks, Known2, TidA, TidB, LockX, LockY
  <2> QED BY <2>3, <2>4
<1>2. CASE k = 1
  <2>1. e = RawSpawn(TidB, TidA)
    BY <1>2 DEF AbBaDeadlock
  <2>2. TidB \in Tid2 /\ TidA \in {0, TidA} /\ TidB \notin p.known /\ TidA \in p.known
    BY <1>2 DEF DeadlockAt, Looks, Known2, Tid2, Lock2, TidA, TidB, LockX, LockY
  <2>3. Follows(p, q, e, ts) /\ Became(q, p.known \cup {TidB}, p.holder, p.waits, p.passed)
    BY <2>1, <2>2, SpawnShown DEF Follows
  <2>4. DeadlockAt(q, k + 1)
    BY <1>2, <2>3 DEF Became, DeadlockAt, Looks, Known2, TidA, TidB, LockX, LockY
  <2> QED BY <2>3, <2>4
<1>3. CASE k = 2
  <2>1. e = RawAcquire(TidA, LockX, 50)
    BY <1>3 DEF AbBaDeadlock
  <2>2. TidA \in Tid2 /\ LockX \in Lock2 /\ 50 \in Nat \ {0}
    BY <1>3 DEF DeadlockAt, Looks, Known2, Tid2, Lock2, TidA, TidB, LockX, LockY
  <2>3. /\ Follows(p, q, e, ts)
        /\ Became(q, p.known, p.holder, [p.waits EXCEPT ![TidA] = LockX], p.passed)
    BY <2>1, <2>2, AcquireShown DEF Follows
  <2>4. /\ q.holder = p.holder /\ q.waits = [p.waits EXCEPT ![TidA] = LockX]
        /\ q.known = p.known /\ q.passed = p.passed
    BY <2>3 DEF Became
  <2> HIDE DEF q, e
  <2>5. /\ q.holder[LockX] = p.holder[LockX] /\ q.holder[LockY] = p.holder[LockY]
        /\ q.waits[TidA] = LockX /\ q.waits[TidB] = p.waits[TidB]
    BY <2>4, MapsAfter, <1>0
  <2>6. DeadlockAt(q, k + 1)
    BY <1>3, <2>2, <2>4, <2>5 DEF DeadlockAt, Looks, Known2, TidA, TidB, LockX, LockY
  <2> QED BY <2>3, <2>6 DEF q, e
<1>4. CASE k = 3
  <2>1. e = RawAcquired(TidA, LockX, 50)
    BY <1>4 DEF AbBaDeadlock
  <2>2. /\ TidA \in Tid2 /\ LockX \in Lock2 /\ 50 \in Nat \ {0}
        /\ p.holder[LockX] = 0 /\ p.waits[TidA] = LockX /\ TidB \in Tid2 /\ TidB # TidA
    BY <1>4 DEF DeadlockAt, Looks, Known2, Tid2, Lock2, TidA, TidB, LockX, LockY
  <2>3. /\ Follows(p, q, e, ts)
        /\ Became(q, p.known, [p.holder EXCEPT ![LockX] = TidA], [p.waits EXCEPT ![TidA] = 0],
                 p.passed + (IF p.waits[TidB] = LockX THEN 1 ELSE 0))
    BY <2>1, <2>2, PassedShown DEF Follows
  <2>4. /\ q.holder = [p.holder EXCEPT ![LockX] = TidA] /\ q.waits = [p.waits EXCEPT ![TidA] = 0]
        /\ q.known = p.known /\ q.passed = p.passed + (IF p.waits[TidB] = LockX THEN 1 ELSE 0)
    BY <2>3 DEF Became
  <2> HIDE DEF q, e
  <2>5. /\ q.holder[LockX] = TidA /\ q.holder[LockY] = p.holder[LockY]
        /\ q.waits[TidA] = 0 /\ q.waits[TidB] = p.waits[TidB]
    BY <2>4, MapsAfter, <1>0
  <2>6. DeadlockAt(q, k + 1)
    BY <1>4, <2>2, <2>4, <2>5 DEF DeadlockAt, Looks, Known2, TidA, TidB, LockX, LockY
  <2> QED BY <2>3, <2>6 DEF q, e
<1>5. CASE k = 4
  <2>1. e = RawAcquire(TidB, LockY, 50)
    BY <1>5 DEF AbBaDeadlock
  <2>2. TidB \in Tid2 /\ LockY \in Lock2 /\ 50 \in Nat \ {0}
    BY <1>5 DEF DeadlockAt, Looks, Known2, Tid2, Lock2, TidA, TidB, LockX, LockY
  <2>3. /\ Follows(p, q, e, ts)
        /\ Became(q, p.known, p.holder, [p.waits EXCEPT ![TidB] = LockY], p.passed)
    BY <2>1, <2>2, AcquireShown DEF Follows
  <2>4. /\ q.holder = p.holder /\ q.waits = [p.waits EXCEPT ![TidB] = LockY]
        /\ q.known = p.known /\ q.passed = p.passed
    BY <2>3 DEF Became
  <2> HIDE DEF q, e
  <2>5. /\ q.holder[LockX] = p.holder[LockX] /\ q.holder[LockY] = p.holder[LockY]
        /\ q.waits[TidA] = p.waits[TidA] /\ q.waits[TidB] = LockY
    BY <2>4, MapsAfter, <1>0
  <2>6. DeadlockAt(q, k + 1)
    BY <1>5, <2>2, <2>4, <2>5 DEF DeadlockAt, Looks, Known2, TidA, TidB, LockX, LockY
  <2> QED BY <2>3, <2>6 DEF q, e
<1>6. CASE k = 5
  <2>1. e = RawAcquired(TidB, LockY, 50)
    BY <1>6 DEF AbBaDeadlock
  <2>2. /\ TidB \in Tid2 /\ LockY \in Lock2 /\ 50 \in Nat \ {0}
        /\ p.holder[LockY] = 0 /\ p.waits[TidB] = LockY /\ TidA \in Tid2 /\ TidA # TidB
    BY <1>6 DEF DeadlockAt, Looks, Known2, Tid2, Lock2, TidA, TidB, LockX, LockY
  <2>3. /\ Follows(p, q, e, ts)
        /\ Became(q, p.known, [p.holder EXCEPT ![LockY] = TidB], [p.waits EXCEPT ![TidB] = 0],
                 p.passed + (IF p.waits[TidA] = LockY THEN 1 ELSE 0))
    BY <2>1, <2>2, PassedShown DEF Follows
  <2>4. /\ q.holder = [p.holder EXCEPT ![LockY] = TidB] /\ q.waits = [p.waits EXCEPT ![TidB] = 0]
        /\ q.known = p.known /\ q.passed = p.passed + (IF p.waits[TidA] = LockY THEN 1 ELSE 0)
    BY <2>3 DEF Became
  <2> HIDE DEF q, e
  <2>5. /\ q.holder[LockX] = p.holder[LockX] /\ q.holder[LockY] = TidB
        /\ q.waits[TidA] = p.waits[TidA] /\ q.waits[TidB] = 0
    BY <2>4, MapsAfter, <1>0
  <2>6. DeadlockAt(q, k + 1)
    BY <1>6, <2>2, <2>4, <2>5 DEF DeadlockAt, Looks, Known2, TidA, TidB, LockX, LockY
  <2> QED BY <2>3, <2>6 DEF q, e
<1>7. CASE k = 6
  <2>1. e = RawAcquire(TidA, LockY, 100)
    BY <1>7 DEF AbBaDeadlock
  <2>2. TidA \in Tid2 /\ LockY \in Lock2 /\ 100 \in Nat \ {0}
    BY <1>7 DEF DeadlockAt, Looks, Known2, Tid2, Lock2, TidA, TidB, LockX, LockY
  <2>3. /\ Follows(p, q, e, ts)
        /\ Became(q, p.known, p.holder, [p.waits EXCEPT ![TidA] = LockY], p.passed)
    BY <2>1, <2>2, AcquireShown DEF Follows
  <2>4. /\ q.holder = p.holder /\ q.waits = [p.waits EXCEPT ![TidA] = LockY]
        /\ q.known = p.known /\ q.passed = p.passed
    BY <2>3 DEF Became
  <2> HIDE DEF q, e
  <2>5. /\ q.holder[LockX] = p.holder[LockX] /\ q.holder[LockY] = p.holder[LockY]
        /\ q.waits[TidA] = LockY /\ q.waits[TidB] = p.waits[TidB]
    BY <2>4, MapsAfter, <1>0
  <2>6. DeadlockAt(q, k + 1)
    BY <1>7, <2>2, <2>4, <2>5 DEF DeadlockAt, Looks, Known2, TidA, TidB, LockX, LockY
  <2> QED BY <2>3, <2>6 DEF q, e
<1>8. CASE k = 7
  <2>1. e = RawContention(TidA, LockY, 100)
    BY <1>8 DEF AbBaDeadlock
  <2>2. /\ TidA \in Tid2 /\ LockY \in Lock2 /\ 100 \in Nat \ {0}
        /\ p.waits[TidA] = LockY /\ p.holder[LockY] # 0
    BY <1>8 DEF DeadlockAt, Looks, Known2, Tid2, Lock2, TidA, TidB, LockX, LockY
  <2>3. Follows(p, q, e, ts) /\ Became(q, p.known, p.holder, p.waits, p.passed)
    BY <2>1, <2>2, ContentionShown DEF Follows
  <2>4. DeadlockAt(q, k + 1)
    BY <1>8, <2>3 DEF Became, DeadlockAt, Looks, Known2, TidA, TidB, LockX, LockY
  <2> QED BY <2>3, <2>4
<1>9. CASE k = 8
  <2>1. e = RawAcquire(TidB, LockX, 100)
    BY <1>9 DEF AbBaDeadlock
  <2>2. TidB \in Tid2 /\ LockX \in Lock2 /\ 100 \in Nat \ {0}
    BY <1>9 DEF DeadlockAt, Looks, Known2, Tid2, Lock2, TidA, TidB, LockX, LockY
  <2>3. /\ Follows(p, q, e, ts)
        /\ Became(q, p.known, p.holder, [p.waits EXCEPT ![TidB] = LockX], p.passed)
    BY <2>1, <2>2, AcquireShown DEF Follows
  <2>4. /\ q.holder = p.holder /\ q.waits = [p.waits EXCEPT ![TidB] = LockX]
        /\ q.known = p.known /\ q.passed = p.passed
    BY <2>3 DEF Became
  <2> HIDE DEF q, e
  <2>5. /\ q.holder[LockX] = p.holder[LockX] /\ q.holder[LockY] = p.holder[LockY]
        /\ q.waits[TidA] = p.waits[TidA] /\ q.waits[TidB] = LockX
    BY <2>4, MapsAfter, <1>0
  <2>6. DeadlockAt(q, k + 1)
    BY <1>9, <2>2, <2>4, <2>5 DEF DeadlockAt, Looks, Known2, TidA, TidB, LockX, LockY
  <2> QED BY <2>3, <2>6 DEF q, e
<1>10. CASE k = 9
  <2>1. e = RawContention(TidB, LockX, 100)
    BY <1>10 DEF AbBaDeadlock
  <2>2. /\ TidB \in Tid2 /\ LockX \in Lock2 /\ 100 \in Nat \ {0}
        /\ p.waits[TidB] = LockX /\ p.holder[LockX] # 0
    BY <1>10 DEF DeadlockAt, Looks, Known2, Tid2, Lock2, TidA, TidB, LockX, LockY
  <2>3. Follows(p, q, e, ts) /\ Became(q, p.known, p.holder, p.waits, p.passed)
    BY <2>1, <2>2, ContentionShown DEF Follows
  <2>4. DeadlockAt(q, k + 1)
    BY <1>10, <2>3 DEF Became, DeadlockAt, Looks, Known2, TidA, TidB, LockX, LockY
  <2> QED BY <2>3, <2>4
<1>11. CASE k = 10
  <2>1. e = RawSwitch(TidA, TidB)
    BY <1>11 DEF AbBaDeadlock
  <2>2. TidA \in Tid2 /\ TidB \in Tid2 /\ TidA # TidB /\ {TidA, TidB} \subseteq p.known
    BY <1>11 DEF DeadlockAt, Looks, Known2, Tid2, Lock2, TidA, TidB, LockX, LockY
  <2>3. Follows(p, q, e, ts) /\ Became(q, p.known, p.holder, p.waits, p.passed)
    BY <2>1, <2>2, SwitchShown DEF Follows
  <2>4. DeadlockAt(q, k + 1)
    BY <1>11, <2>3 DEF Became, DeadlockAt, Looks, Known2, TidA, TidB, LockX, LockY
  <2> QED BY <2>3, <2>4
<1>12. CASE k = 11
  <2>1. e = RawSwitch(TidB, TidA)
    BY <1>12 DEF AbBaDeadlock
  <2>2. TidB \in Tid2 /\ TidA \in Tid2 /\ TidB # TidA /\ {TidB, TidA} \subseteq p.known
    BY <1>12 DEF DeadlockAt, Looks, Known2, Tid2, Lock2, TidA, TidB, LockX, LockY
  <2>3. Follows(p, q, e, ts) /\ Became(q, p.known, p.holder, p.waits, p.passed)
    BY <2>1, <2>2, SwitchShown DEF Follows
  <2>4. DeadlockAt(q, k + 1)
    BY <1>12, <2>3 DEF Became, DeadlockAt, Looks, Known2, TidA, TidB, LockX, LockY
  <2> QED BY <2>3, <2>4
<1>20. \/ k = 0 \/ k = 1 \/ k = 2 \/ k = 3 \/ k = 4 \/ k = 5
       \/ k = 6 \/ k = 7 \/ k = 8 \/ k = 9 \/ k = 10 \/ k = 11
  OBVIOUS
<1> QED BY <1>20, <1>1, <1>2, <1>3, <1>4, <1>5, <1>6, <1>7, <1>8, <1>9, <1>10, <1>11, <1>12

\* And of the race.
LEMMA RaceStep ==
  ASSUME NEW k \in 0..9, NEW p, NEW ts \in Nat, Fits(p, ts), RaceAt(p, k)
  PROVE  LET e == DataRace[k + 1]
             q == Shown(p, e, ts) IN
         Follows(p, q, e, ts) /\ RaceAt(q, k + 1)
<1> DEFINE e == DataRace[k + 1]
           q == Shown(p, e, ts)
<1>0. p \in Pictures
  BY DEF Fits
<1>1. CASE k = 0
  <2>1. e = RawSpawn(TidA, 0)
    BY <1>1 DEF DataRace
  <2>2. TidA \in Tid2 /\ 0 \in {0, TidA} /\ TidA \notin p.known /\ 0 \in p.known
    BY <1>1 DEF RaceAt, Looks, Known2, Tid2, Lock2, TidA, TidB, LockX, LockY
  <2>3. Follows(p, q, e, ts) /\ Became(q, p.known \cup {TidA}, p.holder, p.waits, p.passed)
    BY <2>1, <2>2, SpawnShown DEF Follows
  <2>4. RaceAt(q, k + 1)
    BY <1>1, <2>3 DEF Became, RaceAt, Looks, Known2, TidA, TidB, LockX, LockY
  <2> QED BY <2>3, <2>4
<1>2. CASE k = 1
  <2>1. e = RawSpawn(TidB, TidA)
    BY <1>2 DEF DataRace
  <2>2. TidB \in Tid2 /\ TidA \in {0, TidA} /\ TidB \notin p.known /\ TidA \in p.known
    BY <1>2 DEF RaceAt, Looks, Known2, Tid2, Lock2, TidA, TidB, LockX, LockY
  <2>3. Follows(p, q, e, ts) /\ Became(q, p.known \cup {TidB}, p.holder, p.waits, p.passed)
    BY <2>1, <2>2, SpawnShown DEF Follows
  <2>4. RaceAt(q, k + 1)
    BY <1>2, <2>3 DEF Became, RaceAt, Looks, Known2, TidA, TidB, LockX, LockY
  <2> QED BY <2>3, <2>4
<1>3. CASE k = 2
  <2>1. e = RawAcquire(TidA, LockX, 50)
    BY <1>3 DEF DataRace
  <2>2. TidA \in Tid2 /\ LockX \in Lock2 /\ 50 \in Nat \ {0}
    BY <1>3 DEF RaceAt, Looks, Known2, Tid2, Lock2, TidA, TidB, LockX, LockY
  <2>3. /\ Follows(p, q, e, ts)
        /\ Became(q, p.known, p.holder, [p.waits EXCEPT ![TidA] = LockX], p.passed)
    BY <2>1, <2>2, AcquireShown DEF Follows
  <2>4. /\ q.holder = p.holder /\ q.waits = [p.waits EXCEPT ![TidA] = LockX]
        /\ q.known = p.known /\ q.passed = p.passed
    BY <2>3 DEF Became
  <2> HIDE DEF q, e
  <2>5. /\ q.holder[LockX] = p.holder[LockX] /\ q.holder[LockY] = p.holder[LockY]
        /\ q.waits[TidA] = LockX /\ q.waits[TidB] = p.waits[TidB]
    BY <2>4, MapsAfter, <1>0
  <2>6. RaceAt(q, k + 1)
    BY <1>3, <2>2, <2>4, <2>5 DEF RaceAt, Looks, Known2, TidA, TidB, LockX, LockY
  <2> QED BY <2>3, <2>6 DEF q, e
<1>4. CASE k = 3
  <2>1. e = RawAcquired(TidA, LockX, 50)
    BY <1>4 DEF DataRace
  <2>2. /\ TidA \in Tid2 /\ LockX \in Lock2 /\ 50 \in Nat \ {0}
        /\ p.holder[LockX] = 0 /\ p.waits[TidA] = LockX /\ TidB \in Tid2 /\ TidB # TidA
    BY <1>4 DEF RaceAt, Looks, Known2, Tid2, Lock2, TidA, TidB, LockX, LockY
  <2>3. /\ Follows(p, q, e, ts)
        /\ Became(q, p.known, [p.holder EXCEPT ![LockX] = TidA], [p.waits EXCEPT ![TidA] = 0],
                 p.passed + (IF p.waits[TidB] = LockX THEN 1 ELSE 0))
    BY <2>1, <2>2, PassedShown DEF Follows
  <2>4. /\ q.holder = [p.holder EXCEPT ![LockX] = TidA] /\ q.waits = [p.waits EXCEPT ![TidA] = 0]
        /\ q.known = p.known /\ q.passed = p.passed + (IF p.waits[TidB] = LockX THEN 1 ELSE 0)
    BY <2>3 DEF Became
  <2> HIDE DEF q, e
  <2>5. /\ q.holder[LockX] = TidA /\ q.holder[LockY] = p.holder[LockY]
        /\ q.waits[TidA] = 0 /\ q.waits[TidB] = p.waits[TidB]
    BY <2>4, MapsAfter, <1>0
  <2>6. RaceAt(q, k + 1)
    BY <1>4, <2>2, <2>4, <2>5 DEF RaceAt, Looks, Known2, TidA, TidB, LockX, LockY
  <2> QED BY <2>3, <2>6 DEF q, e
<1>5. CASE k = 4
  <2>1. e = RawAcquire(TidB, LockX, 100)
    BY <1>5 DEF DataRace
  <2>2. TidB \in Tid2 /\ LockX \in Lock2 /\ 100 \in Nat \ {0}
    BY <1>5 DEF RaceAt, Looks, Known2, Tid2, Lock2, TidA, TidB, LockX, LockY
  <2>3. /\ Follows(p, q, e, ts)
        /\ Became(q, p.known, p.holder, [p.waits EXCEPT ![TidB] = LockX], p.passed)
    BY <2>1, <2>2, AcquireShown DEF Follows
  <2>4. /\ q.holder = p.holder /\ q.waits = [p.waits EXCEPT ![TidB] = LockX]
        /\ q.known = p.known /\ q.passed = p.passed
    BY <2>3 DEF Became
  <2> HIDE DEF q, e
  <2>5. /\ q.holder[LockX] = p.holder[LockX] /\ q.holder[LockY] = p.holder[LockY]
        /\ q.waits[TidA] = p.waits[TidA] /\ q.waits[TidB] = LockX
    BY <2>4, MapsAfter, <1>0
  <2>6. RaceAt(q, k + 1)
    BY <1>5, <2>2, <2>4, <2>5 DEF RaceAt, Looks, Known2, TidA, TidB, LockX, LockY
  <2> QED BY <2>3, <2>6 DEF q, e
<1>6. CASE k = 5
  <2>1. e = RawContention(TidB, LockX, 100)
    BY <1>6 DEF DataRace
  <2>2. /\ TidB \in Tid2 /\ LockX \in Lock2 /\ 100 \in Nat \ {0}
        /\ p.waits[TidB] = LockX /\ p.holder[LockX] # 0
    BY <1>6 DEF RaceAt, Looks, Known2, Tid2, Lock2, TidA, TidB, LockX, LockY
  <2>3. Follows(p, q, e, ts) /\ Became(q, p.known, p.holder, p.waits, p.passed)
    BY <2>1, <2>2, ContentionShown DEF Follows
  <2>4. RaceAt(q, k + 1)
    BY <1>6, <2>3 DEF Became, RaceAt, Looks, Known2, TidA, TidB, LockX, LockY
  <2> QED BY <2>3, <2>4
<1>7. CASE k = 6
  <2>1. e = RawAcquire(TidA, LockX, 100)
    BY <1>7 DEF DataRace
  <2>2. TidA \in Tid2 /\ LockX \in Lock2 /\ 100 \in Nat \ {0}
    BY <1>7 DEF RaceAt, Looks, Known2, Tid2, Lock2, TidA, TidB, LockX, LockY
  <2>3. /\ Follows(p, q, e, ts)
        /\ Became(q, p.known, p.holder, [p.waits EXCEPT ![TidA] = LockX], p.passed)
    BY <2>1, <2>2, AcquireShown DEF Follows
  <2>4. /\ q.holder = p.holder /\ q.waits = [p.waits EXCEPT ![TidA] = LockX]
        /\ q.known = p.known /\ q.passed = p.passed
    BY <2>3 DEF Became
  <2> HIDE DEF q, e
  <2>5. /\ q.holder[LockX] = p.holder[LockX] /\ q.holder[LockY] = p.holder[LockY]
        /\ q.waits[TidA] = LockX /\ q.waits[TidB] = p.waits[TidB]
    BY <2>4, MapsAfter, <1>0
  <2>6. RaceAt(q, k + 1)
    BY <1>7, <2>2, <2>4, <2>5 DEF RaceAt, Looks, Known2, TidA, TidB, LockX, LockY
  <2> QED BY <2>3, <2>6 DEF q, e
<1>8. CASE k = 7
  <2>1. e = RawContention(TidA, LockX, 100)
    BY <1>8 DEF DataRace
  <2>2. /\ TidA \in Tid2 /\ LockX \in Lock2 /\ 100 \in Nat \ {0}
        /\ p.waits[TidA] = LockX /\ p.holder[LockX] # 0
    BY <1>8 DEF RaceAt, Looks, Known2, Tid2, Lock2, TidA, TidB, LockX, LockY
  <2>3. Follows(p, q, e, ts) /\ Became(q, p.known, p.holder, p.waits, p.passed)
    BY <2>1, <2>2, ContentionShown DEF Follows
  <2>4. RaceAt(q, k + 1)
    BY <1>8, <2>3 DEF Became, RaceAt, Looks, Known2, TidA, TidB, LockX, LockY
  <2> QED BY <2>3, <2>4
<1>9. CASE k = 8
  <2>1. e = RawSwitch(TidA, TidB)
    BY <1>9 DEF DataRace
  <2>2. TidA \in Tid2 /\ TidB \in Tid2 /\ TidA # TidB /\ {TidA, TidB} \subseteq p.known
    BY <1>9 DEF RaceAt, Looks, Known2, Tid2, Lock2, TidA, TidB, LockX, LockY
  <2>3. Follows(p, q, e, ts) /\ Became(q, p.known, p.holder, p.waits, p.passed)
    BY <2>1, <2>2, SwitchShown DEF Follows
  <2>4. RaceAt(q, k + 1)
    BY <1>9, <2>3 DEF Became, RaceAt, Looks, Known2, TidA, TidB, LockX, LockY
  <2> QED BY <2>3, <2>4
<1>10. CASE k = 9
  <2>1. e = RawSwitch(TidB, TidA)
    BY <1>10 DEF DataRace
  <2>2. TidB \in Tid2 /\ TidA \in Tid2 /\ TidB # TidA /\ {TidB, TidA} \subseteq p.known
    BY <1>10 DEF RaceAt, Looks, Known2, Tid2, Lock2, TidA, TidB, LockX, LockY
  <2>3. Follows(p, q, e, ts) /\ Became(q, p.known, p.holder, p.waits, p.passed)
    BY <2>1, <2>2, SwitchShown DEF Follows
  <2>4. RaceAt(q, k + 1)
    BY <1>10, <2>3 DEF Became, RaceAt, Looks, Known2, TidA, TidB, LockX, LockY
  <2> QED BY <2>3, <2>4
<1>20. k = 0 \/ k = 1 \/ k = 2 \/ k = 3 \/ k = 4 \/ k = 5 \/ k = 6 \/ k = 7 \/ k = 8 \/ k = 9
  OBVIOUS
<1> QED BY <1>20, <1>1, <1>2, <1>3, <1>4, <1>5, <1>6, <1>7, <1>8, <1>9, <1>10

\* An event of the starvation is one of the start or of a cycle.
LEMMA StarvingAt ==
  ASSUME NEW k \in 0..53
  PROVE  /\ k < 6 => LivelockStarvation[k + 1] = StarvationStart[k + 1]
         /\ k >= 6 => LivelockStarvation[k + 1] = StarvationCycle[Place(k) + 1]
         /\ k >= 6 => Place(k) \in 0..3
<1>1. k + 1 \in 1..(6 + 4 * 12) /\ ((k + 1) - 7) = k - 6
  OBVIOUS
<1> QED BY <1>1 DEF LivelockStarvation, Starving, Place

\* From one place of a cycle to the next.
LEMMA PlaceNext ==
  ASSUME NEW k \in 6..53
  PROVE  /\ Place(k) < 3 => Place(k + 1) = Place(k) + 1 /\ (k - 5) \div 4 = (k - 6) \div 4
         /\ Place(k) = 3 => Place(k + 1) = 0 /\ (k - 5) \div 4 = ((k - 6) \div 4) + 1
         /\ k + 1 >= 6 /\ (k + 1) - 6 = k - 5 /\ (k - 6) \div 4 \in Nat /\ Place(5 + 1) = 0
         /\ Known2(k + 1) = Known2(k) /\ TidB \in Known2(k) /\ TidA \in Known2(k)
BY DEF Place, Known2, TidA, TidB

\* And of the starvation.
LEMMA StarvationStep ==
  ASSUME NEW k \in 0..53, NEW p, NEW ts \in Nat, Fits(p, ts), StarvedAt(p, k)
  PROVE  LET e == LivelockStarvation[k + 1]
             q == Shown(p, e, ts) IN
         Follows(p, q, e, ts) /\ StarvedAt(q, k + 1)
<1> DEFINE e == LivelockStarvation[k + 1]
           q == Shown(p, e, ts)
<1>0. p \in Pictures
  BY DEF Fits
<1>1. CASE k = 0
  <2>1. e = RawSpawn(TidA, 0)
    BY <1>1, StarvingAt DEF StarvationStart
  <2>2. TidA \in Tid2 /\ 0 \in {0, TidA} /\ TidA \notin p.known /\ 0 \in p.known
    BY <1>1 DEF StarvedAt, Looks, Known2, Place, Tid2, Lock2, TidA, TidB, LockX, LockY
  <2>3. Follows(p, q, e, ts) /\ Became(q, p.known \cup {TidA}, p.holder, p.waits, p.passed)
    BY <2>1, <2>2, SpawnShown DEF Follows
  <2>4. StarvedAt(q, k + 1)
    BY <1>1, <2>3 DEF Became, StarvedAt, Looks, Known2, Place, TidA, TidB, LockX, LockY
  <2> QED BY <2>3, <2>4
<1>2. CASE k = 1
  <2>1. e = RawSpawn(TidB, TidA)
    BY <1>2, StarvingAt DEF StarvationStart
  <2>2. TidB \in Tid2 /\ TidA \in {0, TidA} /\ TidB \notin p.known /\ TidA \in p.known
    BY <1>2 DEF StarvedAt, Looks, Known2, Place, Tid2, Lock2, TidA, TidB, LockX, LockY
  <2>3. Follows(p, q, e, ts) /\ Became(q, p.known \cup {TidB}, p.holder, p.waits, p.passed)
    BY <2>1, <2>2, SpawnShown DEF Follows
  <2>4. StarvedAt(q, k + 1)
    BY <1>2, <2>3 DEF Became, StarvedAt, Looks, Known2, Place, TidA, TidB, LockX, LockY
  <2> QED BY <2>3, <2>4
<1>3. CASE k = 2
  <2>1. e = RawAcquire(TidA, LockX, 50)
    BY <1>3, StarvingAt DEF StarvationStart
  <2>2. TidA \in Tid2 /\ LockX \in Lock2 /\ 50 \in Nat \ {0}
    BY <1>3 DEF StarvedAt, Looks, Known2, Place, Tid2, Lock2, TidA, TidB, LockX, LockY
  <2>3. /\ Follows(p, q, e, ts)
        /\ Became(q, p.known, p.holder, [p.waits EXCEPT ![TidA] = LockX], p.passed)
    BY <2>1, <2>2, AcquireShown DEF Follows
  <2>4. /\ q.holder = p.holder /\ q.waits = [p.waits EXCEPT ![TidA] = LockX]
        /\ q.known = p.known /\ q.passed = p.passed
    BY <2>3 DEF Became
  <2> HIDE DEF q, e
  <2>5. /\ q.holder[LockX] = p.holder[LockX] /\ q.holder[LockY] = p.holder[LockY]
        /\ q.waits[TidA] = LockX /\ q.waits[TidB] = p.waits[TidB]
    BY <2>4, MapsAfter, <1>0
  <2>6. StarvedAt(q, k + 1)
    BY <1>3, <2>2, <2>4, <2>5 DEF StarvedAt, Looks, Known2, Place, TidA, TidB, LockX, LockY
  <2> QED BY <2>3, <2>6 DEF q, e
<1>4. CASE k = 3
  <2>1. e = RawAcquired(TidA, LockX, 50)
    BY <1>4, StarvingAt DEF StarvationStart
  <2>2. /\ TidA \in Tid2 /\ LockX \in Lock2 /\ 50 \in Nat \ {0}
        /\ p.holder[LockX] = 0 /\ p.waits[TidA] = LockX /\ TidB \in Tid2 /\ TidB # TidA
    BY <1>4 DEF StarvedAt, Looks, Known2, Place, Tid2, Lock2, TidA, TidB, LockX, LockY
  <2>3. /\ Follows(p, q, e, ts)
        /\ Became(q, p.known, [p.holder EXCEPT ![LockX] = TidA], [p.waits EXCEPT ![TidA] = 0],
                 p.passed + (IF p.waits[TidB] = LockX THEN 1 ELSE 0))
    BY <2>1, <2>2, PassedShown DEF Follows
  <2>4. /\ q.holder = [p.holder EXCEPT ![LockX] = TidA] /\ q.waits = [p.waits EXCEPT ![TidA] = 0]
        /\ q.known = p.known /\ q.passed = p.passed + (IF p.waits[TidB] = LockX THEN 1 ELSE 0)
    BY <2>3 DEF Became
  <2> HIDE DEF q, e
  <2>5. /\ q.holder[LockX] = TidA /\ q.holder[LockY] = p.holder[LockY]
        /\ q.waits[TidA] = 0 /\ q.waits[TidB] = p.waits[TidB]
    BY <2>4, MapsAfter, <1>0
  <2>6. StarvedAt(q, k + 1)
    BY <1>4, <2>2, <2>4, <2>5 DEF StarvedAt, Looks, Known2, Place, TidA, TidB, LockX, LockY
  <2> QED BY <2>3, <2>6 DEF q, e
<1>5. CASE k = 4
  <2>1. e = RawAcquire(TidB, LockX, 50)
    BY <1>5, StarvingAt DEF StarvationStart
  <2>2. TidB \in Tid2 /\ LockX \in Lock2 /\ 50 \in Nat \ {0}
    BY <1>5 DEF StarvedAt, Looks, Known2, Place, Tid2, Lock2, TidA, TidB, LockX, LockY
  <2>3. /\ Follows(p, q, e, ts)
        /\ Became(q, p.known, p.holder, [p.waits EXCEPT ![TidB] = LockX], p.passed)
    BY <2>1, <2>2, AcquireShown DEF Follows
  <2>4. /\ q.holder = p.holder /\ q.waits = [p.waits EXCEPT ![TidB] = LockX]
        /\ q.known = p.known /\ q.passed = p.passed
    BY <2>3 DEF Became
  <2> HIDE DEF q, e
  <2>5. /\ q.holder[LockX] = p.holder[LockX] /\ q.holder[LockY] = p.holder[LockY]
        /\ q.waits[TidA] = p.waits[TidA] /\ q.waits[TidB] = LockX
    BY <2>4, MapsAfter, <1>0
  <2>6. StarvedAt(q, k + 1)
    BY <1>5, <2>2, <2>4, <2>5 DEF StarvedAt, Looks, Known2, Place, TidA, TidB, LockX, LockY
  <2> QED BY <2>3, <2>6 DEF q, e
<1>6. CASE k = 5
  <2>1. e = RawContention(TidB, LockX, 50)
    BY <1>6, StarvingAt DEF StarvationStart
  <2>2. /\ TidB \in Tid2 /\ LockX \in Lock2 /\ 50 \in Nat \ {0}
        /\ p.waits[TidB] = LockX /\ p.holder[LockX] # 0
    BY <1>6 DEF StarvedAt, Looks, Known2, Place, Tid2, Lock2, TidA, TidB, LockX, LockY
  <2>3. Follows(p, q, e, ts) /\ Became(q, p.known, p.holder, p.waits, p.passed)
    BY <2>1, <2>2, ContentionShown DEF Follows
  <2>4. StarvedAt(q, k + 1)
    BY <1>6, <2>3 DEF Became, StarvedAt, Looks, Known2, Place, TidA, TidB, LockX, LockY
  <2> QED BY <2>3, <2>4
<1>7. CASE k >= 6 /\ Place(k) = 0
  <2>1. e = RawRelease(TidA, LockX, 50)
    BY <1>7, StarvingAt DEF StarvationCycle
  <2>2. TidA \in Tid2 /\ LockX \in Lock2 /\ 50 \in Nat \ {0} /\ p.holder[LockX] = TidA
    BY <1>7 DEF StarvedAt, Looks, Tid2, Lock2, TidA, TidB, LockX, LockY
  <2>3. /\ Follows(p, q, e, ts)
        /\ Became(q, p.known, [p.holder EXCEPT ![LockX] = 0], p.waits, p.passed)
    BY <2>1, <2>2, ReleaseShown DEF Follows
  <2>4. /\ q.holder = [p.holder EXCEPT ![LockX] = 0] /\ q.waits = p.waits
        /\ q.known = p.known /\ q.passed = p.passed
    BY <2>3 DEF Became
  <2> HIDE DEF q, e
  <2>5. /\ q.holder[LockX] = 0 /\ q.holder[LockY] = p.holder[LockY]
        /\ q.waits[TidA] = p.waits[TidA] /\ q.waits[TidB] = p.waits[TidB]
    BY <2>4, MapsAfter, <1>0
  <2>6. StarvedAt(q, k + 1)
    BY <1>7, PlaceNext, <2>2, <2>4, <2>5 DEF StarvedAt, Looks, TidA, TidB, LockX, LockY
  <2> QED BY <2>3, <2>6 DEF q, e
<1>8. CASE k >= 6 /\ Place(k) = 1
  <2>1. e = RawAcquire(TidA, LockX, 50)
    BY <1>8, StarvingAt DEF StarvationCycle
  <2>2. TidA \in Tid2 /\ LockX \in Lock2 /\ 50 \in Nat \ {0}
    BY <1>8 DEF StarvedAt, Looks, Tid2, Lock2, TidA, TidB, LockX, LockY
  <2>3. /\ Follows(p, q, e, ts)
        /\ Became(q, p.known, p.holder, [p.waits EXCEPT ![TidA] = LockX], p.passed)
    BY <2>1, <2>2, AcquireShown DEF Follows
  <2>4. /\ q.holder = p.holder /\ q.waits = [p.waits EXCEPT ![TidA] = LockX]
        /\ q.known = p.known /\ q.passed = p.passed
    BY <2>3 DEF Became
  <2> HIDE DEF q, e
  <2>5. /\ q.holder[LockX] = p.holder[LockX] /\ q.holder[LockY] = p.holder[LockY]
        /\ q.waits[TidA] = LockX /\ q.waits[TidB] = p.waits[TidB]
    BY <2>4, MapsAfter, <1>0
  <2>6. StarvedAt(q, k + 1)
    BY <1>8, PlaceNext, <2>2, <2>4, <2>5 DEF StarvedAt, Looks, TidA, TidB, LockX, LockY
  <2> QED BY <2>3, <2>6 DEF q, e
<1>9. CASE k >= 6 /\ Place(k) = 2
  <2>1. e = RawAcquired(TidA, LockX, 50)
    BY <1>9, StarvingAt DEF StarvationCycle
  <2>2. /\ TidA \in Tid2 /\ LockX \in Lock2 /\ 50 \in Nat \ {0}
        /\ p.holder[LockX] = 0 /\ p.waits[TidA] = LockX /\ TidB \in Tid2 /\ TidB # TidA
    BY <1>9 DEF StarvedAt, Looks, Tid2, Lock2, TidA, TidB, LockX, LockY
  <2>3. /\ Follows(p, q, e, ts)
        /\ Became(q, p.known, [p.holder EXCEPT ![LockX] = TidA], [p.waits EXCEPT ![TidA] = 0],
                 p.passed + (IF p.waits[TidB] = LockX THEN 1 ELSE 0))
    BY <2>1, <2>2, PassedShown DEF Follows
  <2>4. /\ q.holder = [p.holder EXCEPT ![LockX] = TidA] /\ q.waits = [p.waits EXCEPT ![TidA] = 0]
        /\ q.known = p.known /\ q.passed = p.passed + (IF p.waits[TidB] = LockX THEN 1 ELSE 0)
    BY <2>3 DEF Became
  <2> HIDE DEF q, e
  <2>5. /\ q.holder[LockX] = TidA /\ q.holder[LockY] = p.holder[LockY]
        /\ q.waits[TidA] = 0 /\ q.waits[TidB] = p.waits[TidB]
    BY <2>4, MapsAfter, <1>0
  <2>6. StarvedAt(q, k + 1)
    BY <1>9, PlaceNext, <2>2, <2>4, <2>5 DEF StarvedAt, Looks, TidA, TidB, LockX, LockY
  <2> QED BY <2>3, <2>6 DEF q, e
<1>10. CASE k >= 6 /\ Place(k) = 3
  <2>1. e = RawContention(TidB, LockX, 50)
    BY <1>10, StarvingAt DEF StarvationCycle
  <2>2. /\ TidB \in Tid2 /\ LockX \in Lock2 /\ 50 \in Nat \ {0}
        /\ p.waits[TidB] = LockX /\ p.holder[LockX] # 0
    BY <1>10 DEF StarvedAt, Looks, Tid2, Lock2, TidA, TidB, LockX, LockY
  <2>3. Follows(p, q, e, ts) /\ Became(q, p.known, p.holder, p.waits, p.passed)
    BY <2>1, <2>2, ContentionShown DEF Follows
  <2>4. StarvedAt(q, k + 1)
    BY <1>10, PlaceNext, <2>3 DEF Became, StarvedAt, Looks, TidA, TidB, LockX, LockY
  <2> QED BY <2>3, <2>4
<1>20. k = 0 \/ k = 1 \/ k = 2 \/ k = 3 \/ k = 4 \/ k = 5 \/ k >= 6
  OBVIOUS
<1>21. k >= 6 => Place(k) \in {0, 1, 2, 3}
  BY StarvingAt
<1> QED BY <1>20, <1>21, <1>1, <1>2, <1>3, <1>4, <1>5, <1>6, <1>7, <1>8, <1>9, <1>10

-----------------------------------------------------------------------------
(* The stream, however it is drained. *)

ScenarioNames == {"clean", "deadlock", "race", "livelock"}

\* The picture after so many events of a scenario.
StageOf(p, name, k) ==
  /\ name = "clean" => CleanAt(p, k)
  /\ name = "deadlock" => DeadlockAt(p, k)
  /\ name = "race" => RaceAt(p, k)
  /\ name = "livelock" => StarvedAt(p, k)

\* Functions on an initial stretch of the positive numbers are sequences.
LEMMA StretchIsSeq ==
  ASSUME NEW n \in Nat, NEW S, NEW f \in [1..n -> S]
  PROVE  f \in Seq(S) /\ Len(f) = n
OBVIOUS

\* The scripts and their lengths.
LEMMA Scripts ==
  /\ DOMAIN Scenario = ScenarioNames
  /\ Scenario["clean"] = CleanUncontested /\ Len(CleanUncontested) = 4
  /\ Scenario["deadlock"] = AbBaDeadlock /\ Len(AbBaDeadlock) = 12
  /\ Scenario["race"] = DataRace /\ Len(DataRace) = 10
  /\ Scenario["livelock"] = LivelockStarvation /\ Len(LivelockStarvation) = 54
<1>1. /\ DOMAIN Scenario = ScenarioNames
      /\ Scenario["clean"] = CleanUncontested /\ Scenario["deadlock"] = AbBaDeadlock
      /\ Scenario["race"] = DataRace /\ Scenario["livelock"] = LivelockStarvation
  BY DEF Scenario, ScenarioNames
<1>2. Len(CleanUncontested) = 4
  BY DEF CleanUncontested
<1>3. Len(AbBaDeadlock) = 12
  BY DEF AbBaDeadlock
<1>4. Len(DataRace) = 10
  BY DEF DataRace
<1>5. Len(LivelockStarvation) = 54
  <2> DEFINE S == {LivelockStarvation[k] : k \in 1..54}
  <2>1. LivelockStarvation = [k \in 1..54 |-> LivelockStarvation[k]]
    <3>1. 6 + 4 * 12 = 54
      OBVIOUS
    <3> QED BY <3>1 DEF LivelockStarvation, Starving
  <2>2. LivelockStarvation \in [1..54 -> S]
    BY <2>1
  <2> QED BY <2>2, StretchIsSeq
<1> QED BY <1>1, <1>2, <1>3, <1>4, <1>5

\* Every event of every script fits the picture before it.
LEMMA ScriptStep ==
  ASSUME NEW name \in ScenarioNames, NEW k \in Nat, k < Len(Scenario[name]),
         NEW p, NEW ts \in Nat, Fits(p, ts), StageOf(p, name, k)
  PROVE  LET e == Scenario[name][k + 1]
             q == Shown(p, e, ts) IN
         Follows(p, q, e, ts) /\ StageOf(q, name, k + 1)
<1>1. CASE name = "clean"
  <2>1. k \in 0..3 /\ CleanAt(p, k)
    BY <1>1, Scripts DEF StageOf
  <2> QED BY <1>1, <2>1, Scripts, CleanStep DEF StageOf
<1>2. CASE name = "deadlock"
  <2>1. k \in 0..11 /\ DeadlockAt(p, k)
    BY <1>2, Scripts DEF StageOf
  <2> QED BY <1>2, <2>1, Scripts, DeadlockStep DEF StageOf
<1>3. CASE name = "race"
  <2>1. k \in 0..9 /\ RaceAt(p, k)
    BY <1>3, Scripts DEF StageOf
  <2> QED BY <1>3, <2>1, Scripts, RaceStep DEF StageOf
<1>4. CASE name = "livelock"
  <2>1. k \in 0..53 /\ StarvedAt(p, k)
    BY <1>4, Scripts DEF StageOf
  <2> QED BY <1>4, <2>1, Scripts, StarvationStep DEF StageOf
<1> QED BY <1>1, <1>2, <1>3, <1>4 DEF ScenarioNames

\* The records of the ring the decoder knows.
KnownIn(r) == {i \in DOMAIN r : KnownType(r[i])}

\* The picture once the ring is drained.
Due(p, r) == Drawn(p, DecodeBatch(r))

\* The inductive invariant: whatever still lies in the ring, draining it now
\* gives the picture of as many events as were written.
WireInv ==
  /\ source \in [scenario : ScenarioNames, clock : Nat]
  /\ wrote \in 0..Len(Script)
  /\ ring \in Seq(Raws)
  /\ picture \in Pictures /\ picture.sane
  /\ picture.seen = wrote - Cardinality(KnownIn(ring))
  /\ Fits(Due(picture, ring), source.clock)
  /\ Due(picture, ring).seen = wrote
  /\ StageOf(Due(picture, ring), source.scenario, wrote)

\* The known records of an empty ring, and of one with one more record.
LEMMA KnownCount ==
  ASSUME NEW r \in Seq(Raws), NEW raw \in Raws
  PROVE  /\ Cardinality(KnownIn(<< >>)) = 0
         /\ Cardinality(KnownIn(Append(r, raw)))
              = Cardinality(KnownIn(r)) + (IF KnownType(raw) THEN 1 ELSE 0)
         /\ Cardinality(KnownIn(r)) \in Nat
<1> DEFINE n == Len(r)
           s == Append(r, raw)
<1>1. n \in Nat /\ DOMAIN r = 1..n /\ DOMAIN s = 1..(n + 1)
  OBVIOUS
<1>2. s[n + 1] = raw /\ \A i \in 1..n : s[i] = r[i]
  OBVIOUS
<1>3. IsFiniteSet(KnownIn(r))
  <2>1. IsFiniteSet(1..n)
    BY <1>1, FS_Interval
  <2> QED BY <1>1, <2>1, FS_Subset DEF KnownIn
<1>4. KnownIn(<< >>) = {}
  BY DEF KnownIn
<1>5. n + 1 \notin KnownIn(r)
  BY <1>1 DEF KnownIn
<1> HIDE DEF n, s
<1>6. KnownIn(s) = IF KnownType(raw) THEN KnownIn(r) \cup {n + 1} ELSE KnownIn(r)
  BY <1>1, <1>2 DEF KnownIn
<1>7. Cardinality(KnownIn(r) \cup {n + 1}) = Cardinality(KnownIn(r)) + 1
  BY <1>3, <1>5, FS_AddElement
<1>8. Cardinality(KnownIn(r)) \in Nat
  BY <1>3, FS_CardinalityType
<1>9. Cardinality(KnownIn(<< >>)) = 0
  BY <1>4, FS_EmptySet
<1> QED BY <1>6, <1>7, <1>8, <1>9 DEF s

\* One more record in the ring is one more event to draw, or none.
LEMMA DueOfOneMore ==
  ASSUME NEW p \in Pictures, NEW r \in Seq(Raws), NEW raw \in Raws
  PROVE  /\ KnownType(raw) => Due(p, Append(r, raw)) = Draw(Due(p, r), Decode(raw))
         /\ ~KnownType(raw) => Due(p, Append(r, raw)) = Due(p, r)
<1>1. DecodeBatch(Append(r, raw)) = Read(DecodeBatch(r), raw)
  BY BatchOfOneMore
<1>2. DecodeBatch(r) \in Seq(Decoded)
  BY BatchTyped
<1>3. CASE KnownType(raw)
  <2>1. Decode(raw) \in Decoded
    BY <1>3, DecodeTyped
  <2>2. DecodeBatch(Append(r, raw)) = Append(DecodeBatch(r), Decode(raw))
    BY <1>1, <1>3 DEF Read
  <2> QED BY <1>2, <1>3, <2>1, <2>2, DrawnOfOneMore DEF Due
<1>4. CASE ~KnownType(raw)
  BY <1>1, <1>4 DEF Read, Due
<1> QED BY <1>3, <1>4

\* The stream begins with nothing drawn.
LEMMA WireInitInv == WireInit => WireInv
<1> SUFFICES ASSUME WireInit PROVE WireInv
  OBVIOUS
<1>1. source.scenario \in ScenarioNames /\ source.clock \in Nat /\ source.clock > 0
      /\ source \in [scenario : ScenarioNames, clock : Nat]
  <2>1. PICK s \in Seeds : source.clock = BaseClock + (s % 1000000)
    BY Scripts, SMT DEF WireInit
  <2>2. s % 1000000 \in Nat
    BY WireConstants, SMT
  <2>3. source.clock \in Nat /\ source.clock > 0
    BY <2>1, <2>2, SMT DEF BaseClock
  <2> QED BY <2>3, Scripts, SMT DEF WireInit
<1>2. wrote = 0 /\ ring = << >> /\ ring \in Seq(Raws)
  BY DEF WireInit
<1>3. /\ picture \in Pictures /\ picture.sane /\ picture.seen = 0 /\ picture.last = 0
      /\ Looks(picture, {0}, 0, 0, 0, 0, 0)
  <2>1. picture = [holder |-> [l \in Lock2 |-> 0], waits |-> [t \in Tid2 |-> 0], known |-> {0},
                   passed |-> 0, seen |-> 0, last |-> 0, sane |-> TRUE]
    BY DEF WireInit, Lock2, Tid2
  <2>2. {0} \in SUBSET Nat /\ LockX \in Lock2 /\ LockY \in Lock2 /\ TidA \in Tid2 /\ TidB \in Tid2
    BY DEF Lock2, Tid2
  <2> QED BY <2>1, <2>2 DEF Pictures, Looks
<1>4. Due(picture, ring) = picture
  BY <1>2, <1>3, BatchTyped, DrawnTyped DEF Due
<1>5. Cardinality(KnownIn(ring)) = 0
  <2>1. KnownIn(ring) = {}
    BY <1>2 DEF KnownIn
  <2> QED BY <2>1, FS_EmptySet
<1>6. StageOf(picture, source.scenario, 0)
  BY <1>3 DEF StageOf, CleanAt, DeadlockAt, RaceAt, StarvedAt, Known2
<1>7. 0 \in 0..Len(Script)
  BY <1>1, Scripts DEF Script, ScenarioNames
<1> QED BY <1>1, <1>2, <1>3, <1>4, <1>5, <1>6, <1>7 DEF WireInv, Fits

\* Writing, an unknown record and draining keep the invariant.
LEMMA WireNextInv == WireInv /\ [WireNext]_wireVars => WireInv'
<1> SUFFICES ASSUME WireInv, [WireNext]_wireVars PROVE WireInv'
  OBVIOUS
<1> DEFINE P == Due(picture, ring)
           len == Len(Script)
<1>0. /\ source \in [scenario : ScenarioNames, clock : Nat] /\ source.clock \in Nat
      /\ source.scenario \in ScenarioNames /\ wrote \in 0..len /\ ring \in Seq(Raws)
      /\ picture \in Pictures /\ picture.sane /\ picture.seen = wrote - Cardinality(KnownIn(ring))
      /\ Fits(P, source.clock) /\ P.seen = wrote /\ StageOf(P, source.scenario, wrote)
  BY DEF WireInv
<1>9. len \in Nat /\ Script = Scenario[source.scenario]
  BY <1>0, Scripts DEF Script, ScenarioNames
<1>1. CASE WriteEvent
  <2> DEFINE e == Scenario[source.scenario][wrote + 1]
             raw == OnRing(e, source.clock)
             q == Shown(P, e, source.clock)
  <2>1. /\ wrote < len /\ ring' = Append(ring, raw) /\ wrote' = wrote + 1 /\ picture' = picture
        /\ source' = [source EXCEPT !.clock = @ + e.after]
    BY <1>1, <1>9 DEF WriteEvent, OnRing
  <2>2. wrote \in Nat /\ wrote < Len(Scenario[source.scenario])
    BY <1>0, <1>9, <2>1
  <2> HIDE DEF P, len
  <2>3. Follows(P, q, e, source.clock) /\ StageOf(q, source.scenario, wrote + 1)
    BY <1>0, <2>2, ScriptStep
  <2>4. /\ raw \in Raws /\ KnownType(raw) /\ e.after \in Nat \ {0}
        /\ q \in Pictures /\ q.sane /\ q.seen = P.seen + 1 /\ q.last = source.clock
    BY <2>3 DEF Follows, Ready, Adds
  <2>5. q = Draw(P, Decode(raw))
    BY DEF Shown
  <2> HIDE DEF q, e, raw
  <2>6. Due(picture', ring') = q
    BY <1>0, <2>1, <2>4, <2>5, DueOfOneMore DEF P
  <2>7. Cardinality(KnownIn(ring')) = Cardinality(KnownIn(ring)) + 1 /\ Cardinality(KnownIn(ring)) \in Nat
    BY <1>0, <2>1, <2>4, KnownCount
  <2>8. /\ source' \in [scenario : ScenarioNames, clock : Nat] /\ source'.scenario = source.scenario
        /\ source'.clock = source.clock + e.after
    BY <1>0, <2>1, <2>4
  <2>9. Script' = Script /\ wrote' \in 0..len
    BY <1>0, <1>9, <2>1, <2>8 DEF Script
  <2>10. Fits(Due(picture', ring'), source'.clock)
    BY <1>0, <2>4, <2>6, <2>8 DEF Fits
  <2>11. Due(picture', ring').seen = wrote' /\ StageOf(Due(picture', ring'), source'.scenario, wrote')
    BY <1>0, <2>1, <2>3, <2>4, <2>6, <2>8
  <2>12. picture'.seen = wrote' - Cardinality(KnownIn(ring'))
    BY <1>0, <2>1, <2>7
  <2>13. ring' \in Seq(Raws)
    BY <1>0, <2>1, <2>4
  <2>14. wrote' \in 0..Len(Script')
    BY <2>9 DEF len
  <2> QED BY <1>0, <2>1, <2>8, <2>10, <2>11, <2>12, <2>13, <2>14 DEF WireInv, KnownIn
<1>2. CASE WriteUnknown
  <2>1. PICK n \in {0, Len(EventTypes) + 1} : ring' = Append(ring, [Zeroed EXCEPT !.event_type = n])
    BY <1>2 DEF WriteUnknown
  <2>2. source' = source /\ wrote' = wrote /\ picture' = picture
    BY <1>2 DEF WriteUnknown
  <2> DEFINE raw == [Zeroed EXCEPT !.event_type = n]
  <2>3. n \in Nat /\ n \notin DOMAIN ParsedTypes
    <3>1. DOMAIN ParsedTypes = 1..22
      BY DEF ParsedTypes
    <3>2. Len(EventTypes) = 22
      BY DEF EventTypes
    <3> QED BY <3>1, <3>2
  <2>4. raw \in Raws /\ raw.event_type = n
    BY <2>3 DEF Zeroed, Raws
  <2>5. ~KnownType(raw)
    BY <2>3, <2>4 DEF KnownType
  <2> HIDE DEF raw, P
  <2>6. ring' = Append(ring, raw)
    BY <2>1 DEF raw
  <2>7. Due(picture', ring') = P /\ Cardinality(KnownIn(ring')) = Cardinality(KnownIn(ring))
    <3>1. Cardinality(KnownIn(ring')) = Cardinality(KnownIn(ring)) + 0 /\ Cardinality(KnownIn(ring)) \in Nat
      BY <1>0, <2>4, <2>5, <2>6, KnownCount
    <3>2. Due(picture', ring') = P
      BY <1>0, <2>2, <2>4, <2>5, <2>6, DueOfOneMore DEF P
    <3> QED BY <3>1, <3>2
  <2>8. Script' = Script
    BY <2>2 DEF Script
  <2>9. ring' \in Seq(Raws)
    BY <1>0, <2>4, <2>6
  <2> QED BY <1>0, <2>2, <2>7, <2>8, <2>9 DEF WireInv
<1>3. CASE DrainRing
  <2>1. ring' = << >> /\ picture' = P /\ source' = source /\ wrote' = wrote
    BY <1>3 DEF DrainRing, Due
  <2> HIDE DEF P
  <2>2. picture' \in Pictures /\ picture'.sane /\ picture'.seen = wrote /\ ring' \in Seq(Raws)
    BY <1>0, <2>1 DEF Fits
  <2>3. Due(picture', ring') = P
    BY <2>1, <2>2, BatchTyped, DrawnTyped DEF Due
  <2>4. Cardinality(KnownIn(ring')) = 0
    <3>1. KnownIn(ring') = {}
      BY <2>1 DEF KnownIn
    <3> QED BY <3>1, FS_EmptySet
  <2>5. Script' = Script
    BY <2>1 DEF Script
  <2> QED BY <1>0, <2>1, <2>2, <2>3, <2>4, <2>5 DEF WireInv
<1>4. CASE UNCHANGED wireVars
  BY <1>0, <1>4 DEF wireVars, WireInv, Script, KnownIn
<1> QED BY <1>1, <1>2, <1>3, <1>4 DEF WireNext

\* A drained stream ends in the situation its generator promises.
LEMMA PromiseKept ==
  ASSUME WireInv, wrote = Len(Script), ring = << >>
  PROVE  Promised
<1>1. Due(picture, ring) = picture /\ StageOf(picture, source.scenario, wrote)
  <2>1. Due(picture, ring) = picture
    BY BatchTyped, DrawnTyped DEF Due, WireInv
  <2> QED BY <2>1 DEF WireInv
<1>2. source.scenario \in ScenarioNames /\ Script = Scenario[source.scenario]
  BY DEF WireInv, Script
<1>3. CASE source.scenario = "clean"
  <2>1. CleanAt(picture, 4)
    BY <1>1, <1>2, <1>3, Scripts DEF StageOf
  <2> QED BY <1>3, <2>1 DEF Promised, CleanAt, Looks, LockX, LockY
<1>4. CASE source.scenario = "deadlock"
  <2>1. DeadlockAt(picture, 12)
    BY <1>1, <1>2, <1>4, Scripts DEF StageOf
  <2>2. /\ picture.holder[LockX] = TidA /\ picture.holder[LockY] = TidB
        /\ picture.waits[TidA] = LockY /\ picture.waits[TidB] = LockX
    BY <2>1 DEF DeadlockAt, Looks
  <2> QED BY <1>4, <2>2 DEF Promised, PictureBlocked, PictureWaitsFor, TidA, TidB, LockX, LockY
<1>5. CASE source.scenario = "race"
  <2>1. RaceAt(picture, 10)
    BY <1>1, <1>2, <1>5, Scripts DEF StageOf
  <2>2. /\ picture.holder[LockX] = TidA
        /\ picture.waits[TidA] = LockX /\ picture.waits[TidB] = LockX
    BY <2>1 DEF RaceAt, Looks
  <2> QED BY <1>5, <2>2 DEF Promised, PictureBlocked, PictureWaitsFor, TidA, TidB, LockX, LockY
<1>6. CASE source.scenario = "livelock"
  <2>1. StarvedAt(picture, 54)
    BY <1>1, <1>2, <1>6, Scripts DEF StageOf
  <2>2. Place(54) = 0 /\ (54 - 6) \div 4 = 12
    BY DEF Place
  <2>3. picture.holder[LockX] = TidA /\ picture.waits[TidB] = LockX /\ picture.passed = 12
    BY <2>1, <2>2 DEF StarvedAt, Looks
  <2> QED BY <1>6, <2>3 DEF Promised, PictureBlocked, TidA, TidB, LockX, LockY, StarvationLimit
<1> QED BY <1>2, <1>3, <1>4, <1>5, <1>6 DEF ScenarioNames

\* The enum and the decoder number the types alike, and an upload names its own thread.
LEMMA NumbersAlike == NumbersAgree
<1>1. EventTypes = ParsedTypes
  BY DEF EventTypes, ParsedTypes
<1>2. ASSUME NEW id \in ProbeIds, NEW k \in {4, 5, 6}, NEW raw \in ToRaw(k, id)
      PROVE  KnownType(raw) /\ Decode(raw).threads.tid = id
  <2>1. raw = [Zeroed EXCEPT !.event_type = k, !.tid = id]
    BY <1>2 DEF ToRaw
  <2>2. raw.event_type = k /\ raw.tid = id
    BY <2>1 DEF Zeroed
  <2>3. k \in DOMAIN ParsedTypes
    <3>1. DOMAIN ParsedTypes = 1..22
      BY DEF ParsedTypes
    <3> QED BY <3>1
  <2> QED BY <2>2, <2>3 DEF KnownType, Decode, DecodedThreads
<1> QED BY <1>1, <1>2 DEF NumbersAgree

\* The invariant says what the property says.
LEMMA WireInvSound == WireInv => WireSound
<1> SUFFICES ASSUME WireInv PROVE WireSound
  OBVIOUS
<1>1. picture.sane /\ picture.seen = wrote - Cardinality({i \in DOMAIN ring : KnownType(ring[i])})
  BY DEF WireInv, KnownIn
<1> QED BY <1>1, PromiseKept, NumbersAlike DEF WireSound

\* MockProbeSource and the decoder (mock.rs, decoder.rs): for every seed and
\* ring size, drained in whatever batches with unknown records between the
\* events, the stream of each of the four generators is a history locks can
\* have, loses no event, and ends in the situation its doc promises: the
\* deadlock is a cycle of two, the starved thread was passed more often than
\* MAX_STARVATION_LIMIT.
THEOREM StreamsSound == WireSpec => []WireSound
<1>1. WireInit => WireInv
  BY WireInitInv
<1>2. WireInv /\ [WireNext]_wireVars => WireInv'
  BY WireNextInv
<1>3. WireInv => WireSound
  BY WireInvSound
<1> QED BY <1>1, <1>2, <1>3, PTL DEF WireSpec

-----------------------------------------------------------------------------
(* Imports. *)

\* The names some scope imports and what they stand for, and the tables made
\* of them.
ScanNames(lists) == UNION {DOMAIN ScanUseAliases(lists[k]) : k \in DOMAIN lists}
ScanPaths(lists) ==
  UNION {{ScanUseAliases(lists[k])[x] : x \in DOMAIN ScanUseAliases(lists[k])} : k \in DOMAIN lists}
Tables(lists) == UNION {[D -> ScanPaths(lists)] : D \in SUBSET ScanNames(lists)}

\* merge_aliases keeps the type of a table.
LEMMA MergeTyped ==
  ASSUME NEW lists, NEW k \in DOMAIN lists, NEW t \in Tables(lists)
  PROVE  MergeAliases(t, ScanUseAliases(lists[k])) \in Tables(lists)
<1> DEFINE o == ScanUseAliases(lists[k])
           P == ScanPaths(lists)
           N == ScanNames(lists)
<1>1. PICK D \in SUBSET N : t \in [D -> P]
  BY DEF Tables
<1>2. DOMAIN o \subseteq N /\ \A x \in DOMAIN o : o[x] \in P
  <2>1. DOMAIN o \subseteq N
    BY DEF ScanNames
  <2>2. \A x \in DOMAIN o : o[x] \in P
    BY DEF ScanPaths
  <2> QED BY <2>1, <2>2
<1> HIDE DEF o, P, N
<1>3. DOMAIN t = D /\ D \cup DOMAIN o \in SUBSET N
  BY <1>1, <1>2
<1>4. MergeAliases(t, o) \in [D \cup DOMAIN o -> P]
  BY <1>1, <1>2, <1>3 DEF MergeAliases
<1> QED BY <1>3, <1>4 DEF Tables, o, P, N

\* The table of aliases has a trace.
LEMMA AliasTrace ==
  ASSUME NEW lists, Len(lists) \in Nat, DOMAIN lists = 1..Len(lists)
  PROVE  \E h : /\ h[0] = << >>
                /\ \A k \in 1..Len(lists) : h[k] = MergeAliases(h[k - 1], ScanUseAliases(lists[k]))
                /\ AliasesOf(lists) = h[Len(lists)]
<1> DEFINE n == Len(lists)
           S == Tables(lists)
           a == << >>
           Eq(it) == it = [s \in SUBSET (1..n) |->
                             IF s = {} THEN a
                             ELSE MergeAliases(it[s \ {Max(s)}], ScanUseAliases(lists[Max(s)]))]
           iter == CHOOSE it : Eq(it)
           op == [q \in S \X (1..n) |-> MergeAliases(q[1], ScanUseAliases(lists[q[2]]))]
<1>0. n \in Nat /\ DOMAIN lists = 1..n
  OBVIOUS
<1>1. AliasesOf(lists) = iter[1..n]
  BY <1>0 DEF AliasesOf, FoldLeft, MapThenFoldSet
<1>2. a \in S /\ op \in [S \X (1..n) -> S]
  <2>1. a \in S
    <3>1. a \in [{} -> ScanPaths(lists)] /\ {} \in SUBSET ScanNames(lists)
      OBVIOUS
    <3> HIDE DEF a
    <3> QED BY <3>1 DEF Tables
  <2>2. \A x \in S, k \in 1..n : MergeAliases(x, ScanUseAliases(lists[k])) \in S
    BY <1>0, MergeTyped
  <2> HIDE DEF S, n, a
  <2> QED BY <2>1, <2>2
<1>3. PICK it \in [SUBSET (1..n) -> S] : SolvesFold(it, a, op, n)
  <2> HIDE DEF op, n, a, S
  <2> QED BY <1>2, <1>0, FoldExists
<1>4. ASSUME NEW s \in SUBSET (1..n), s # {}
      PROVE  op[<<it[s \ {Max(s)}], Max(s)>>] = MergeAliases(it[s \ {Max(s)}], ScanUseAliases(lists[Max(s)]))
  <2>1. Max(s) \in 1..n /\ s \ {Max(s)} \in SUBSET (1..n)
    <3> HIDE DEF n
    <3> QED BY <1>0, <1>4, MaxIn
  <2>2. <<it[s \ {Max(s)}], Max(s)>> \in S \X (1..n)
    <3> HIDE DEF S
    <3> QED BY <2>1
  <2> HIDE DEF S
  <2> QED BY <2>2
<1>5. Eq(it)
  <2> HIDE DEF op, n, a, S
  <2> QED BY <1>3, <1>4 DEF SolvesFold
<1>6. Eq(iter)
  <2> HIDE DEF Eq
  <2> QED BY <1>5
<1> DEFINE h == [k \in 0..n |-> iter[1..k]]
<1> HIDE DEF iter, n
<1>7. h[0] = a
  BY <1>0, <1>6, 1..0 = {}
<1>8. ASSUME NEW k \in 1..n PROVE h[k] = MergeAliases(h[k - 1], ScanUseAliases(lists[k]))
  <2>1. 1..k \in SUBSET (1..n) /\ 1..k # {} /\ Max(1..k) = k /\ (1..k) \ {k} = 1..(k - 1)
    BY <1>0, IndexPrefixes
  <2>2. h[k] = iter[1..k] /\ h[k - 1] = iter[1..(k - 1)]
    BY <1>0
  <2> HIDE DEF h, a
  <2> QED BY <2>1, <2>2, <1>6, ZenonT(60)
<1>9. h[n] = iter[1..n]
  BY <1>0
<1> HIDE DEF h
<1> QED BY <1>1, <1>7, <1>8, <1>9 DEF n

\* A name no scope binds is no alias.
LEMMA UnboundIsNoAlias ==
  ASSUME NEW lists, Len(lists) \in Nat, DOMAIN lists = 1..Len(lists), NEW name,
         \A k \in 1..Len(lists) : name \notin DOMAIN ScanUseAliases(lists[k])
  PROVE  name \notin DOMAIN AliasesOf(lists)
<1> DEFINE n == Len(lists)
<1>1. PICK h : /\ h[0] = << >>
               /\ \A k \in 1..n : h[k] = MergeAliases(h[k - 1], ScanUseAliases(lists[k]))
               /\ AliasesOf(lists) = h[n]
  BY AliasTrace
<1> DEFINE T == {k \in 0..n : name \notin DOMAIN h[k]}
<1>2. 0 \in T
  BY <1>1, 0 \in 0..n, DOMAIN << >> = {}
<1>3. ASSUME NEW k \in 1..n, k - 1 \in T PROVE k \in T
  <2>1. h[k] = MergeAliases(h[k - 1], ScanUseAliases(lists[k]))
    BY <1>1
  <2>2. DOMAIN h[k] = DOMAIN h[k - 1] \cup DOMAIN ScanUseAliases(lists[k])
    BY <2>1 DEF MergeAliases
  <2> QED BY <1>3, <2>2, k \in 0..n
<1> HIDE DEF T, n
<1>4. 0..n \subseteq T
  BY <1>2, <1>3, RangeInduction DEF n
<1> QED BY <1>1, <1>4 DEF T, n

\* A name stands for what the last scope that imports it says.
LEMMA LastImportWins ==
  ASSUME NEW lists, Len(lists) \in Nat, DOMAIN lists = 1..Len(lists), NEW name,
         NEW j \in 1..Len(lists), name \in DOMAIN ScanUseAliases(lists[j]),
         \A k \in 1..Len(lists) : k > j => name \notin DOMAIN ScanUseAliases(lists[k])
  PROVE  /\ name \in DOMAIN AliasesOf(lists)
         /\ AliasesOf(lists)[name] = ScanUseAliases(lists[j])[name]
<1> DEFINE n == Len(lists)
           segs == ScanUseAliases(lists[j])[name]
<1>1. PICK h : /\ h[0] = << >>
               /\ \A k \in 1..n : h[k] = MergeAliases(h[k - 1], ScanUseAliases(lists[k]))
               /\ AliasesOf(lists) = h[n]
  BY AliasTrace
<1> DEFINE T == {k \in 0..n : k >= j => name \in DOMAIN h[k] /\ h[k][name] = segs}
<1>2. 0 \in T
  BY 0 \in 0..n
<1>3. ASSUME NEW k \in 1..n, k - 1 \in T PROVE k \in T
  <2> DEFINE o == ScanUseAliases(lists[k])
  <2>1. h[k] = MergeAliases(h[k - 1], o)
    BY <1>1
  <2>2. k \in 0..n /\ k - 1 \in 0..n
    OBVIOUS
  <2>3. CASE k < j
    BY <2>2, <2>3
  <2>4. CASE k = j
    <3>1. name \in DOMAIN o /\ o[name] = segs
      BY <2>4
    <3> HIDE DEF o, segs
    <3>2. name \in DOMAIN h[k] /\ h[k][name] = segs
      BY <2>1, <3>1 DEF MergeAliases
    <3> QED BY <2>2, <3>2
  <2>5. CASE k > j
    <3>1. name \notin DOMAIN o /\ name \in DOMAIN h[k - 1] /\ h[k - 1][name] = segs
      BY <1>3, <2>5
    <3> HIDE DEF o, segs
    <3>2. name \in DOMAIN h[k] /\ h[k][name] = segs
      BY <2>1, <3>1 DEF MergeAliases
    <3> QED BY <2>2, <3>2
  <2> QED BY <2>3, <2>4, <2>5
<1> HIDE DEF T, n
<1>4. 0..n \subseteq T
  BY <1>2, <1>3, RangeInduction DEF n
<1>5. n \in T /\ n >= j
  BY <1>4 DEF n
<1> QED BY <1>1, <1>5 DEF T, n

\* What one scope imports under a name: what its one use of tokio says if nothing
\* else binds it, and nothing if no use of tokio does or something else does too.
LEMMA ScanOfBound ==
  ASSUME NEW decls, NEW name
  PROVE  /\ (\A d \in decls : IsTokioUse(d) => ~Binds(d, name))
              => name \notin DOMAIN ScanUseAliases(decls)
         /\ (\E d \in decls : ~IsUse(d) /\ Binds(d, name))
              => name \notin DOMAIN ScanUseAliases(decls)
         /\ \A d \in decls :
              IsTokioUse(d) /\ {x \in decls : Binds(x, name)} = {d}
              => /\ name \in DOMAIN ScanUseAliases(decls)
                 /\ ScanUseAliases(decls)[name] = LeafBinding(d).segs
<1> DEFINE leaves == {LeafBinding(u) : u \in {d \in decls : IsTokioUse(d)}}
           tokio == {b \in leaves : \A d \in decls : ~IsUse(d) => d.name # b.name}
<1>1. ScanUseAliases(decls) = [n \in {b.name : b \in tokio} |-> (CHOOSE b \in tokio : b.name = n).segs]
  BY DEF ScanUseAliases
<1>2. \A b \in tokio : \E u \in decls : IsTokioUse(u) /\ b = LeafBinding(u)
  OBVIOUS
<1>3. \A u \in decls : IsTokioUse(u) => (Binds(u, name) <=> LeafBinding(u).name = name)
  BY DEF Binds, IsTokioUse
<1>4. \A d \in decls : ~IsUse(d) => (Binds(d, name) <=> d.name = name)
  BY DEF Binds
<1>5. ASSUME \A d \in decls : IsTokioUse(d) => ~Binds(d, name)
      PROVE  name \notin DOMAIN ScanUseAliases(decls)
  <2>1. \A b \in tokio : b.name # name
    BY <1>2, <1>3, <1>5
  <2> HIDE DEF tokio
  <2> QED BY <1>1, <2>1
<1>6. ASSUME \E d \in decls : ~IsUse(d) /\ Binds(d, name)
      PROVE  name \notin DOMAIN ScanUseAliases(decls)
  <2>1. \A b \in tokio : b.name # name
    BY <1>4, <1>6
  <2> HIDE DEF tokio
  <2> QED BY <1>1, <2>1
<1>7. ASSUME NEW d \in decls, IsTokioUse(d), {x \in decls : Binds(x, name)} = {d}
      PROVE  name \in DOMAIN ScanUseAliases(decls) /\ ScanUseAliases(decls)[name] = LeafBinding(d).segs
  <2> DEFINE b == LeafBinding(d)
  <2>1. Binds(d, name) /\ b.name = name
    BY <1>3, <1>7
  <2>2. \A x \in decls : ~IsUse(x) => x.name # name
    <3>1. IsUse(d)
      BY <1>7 DEF IsTokioUse
    <3> QED BY <1>4, <1>7, <3>1
  <2>3. b \in tokio
    <3>1. b \in leaves
      BY <1>7
    <3> HIDE DEF leaves, b
    <3> QED BY <2>1, <2>2, <3>1
  <2>4. \A c \in tokio : c.name = name => c = b
    BY <1>2, <1>3, <1>7
  <2> HIDE DEF tokio, b
  <2>5. (CHOOSE c \in tokio : c.name = name) = b
    BY <2>1, <2>3, <2>4
  <2> QED BY <1>1, <2>1, <2>3, <2>5 DEF b
<1> QED BY <1>5, <1>6, <1>7

\* An alias of a scope is one of its uses of tokio.
LEMMA AliasIsImported ==
  ASSUME NEW decls, NEW name, name \in DOMAIN ScanUseAliases(decls)
  PROVE  \E d \in decls : /\ IsTokioUse(d) /\ Binds(d, name)
                          /\ ScanUseAliases(decls)[name] = LeafBinding(d).segs
<1> DEFINE leaves == {LeafBinding(u) : u \in {d \in decls : IsTokioUse(d)}}
           tokio == {b \in leaves : \A d \in decls : ~IsUse(d) => d.name # b.name}
           chosen == CHOOSE b \in tokio : b.name = name
<1>1. ScanUseAliases(decls) = [n \in {b.name : b \in tokio} |-> (CHOOSE b \in tokio : b.name = n).segs]
  BY DEF ScanUseAliases
<1>2. \A b \in tokio : \E u \in decls : IsTokioUse(u) /\ b = LeafBinding(u)
  OBVIOUS
<1> HIDE DEF tokio
<1>3. chosen \in tokio /\ chosen.name = name
  BY <1>1
<1>4. ScanUseAliases(decls)[name] = chosen.segs
  BY <1>1
<1> HIDE DEF chosen
<1>5. PICK u \in decls : IsTokioUse(u) /\ chosen = LeafBinding(u)
  BY <1>2, <1>3
<1>6. Binds(u, name)
  BY <1>3, <1>5 DEF Binds, IsTokioUse
<1> QED BY <1>4, <1>5, <1>6

-----------------------------------------------------------------------------
\* The inductive invariant: a visited path was treated as what the table makes
\* of it, and the table is that of the scopes.
RewriteInv ==
  /\ scopes \in ScopeInputs /\ blocks \in Nat /\ blocks < Len(scopes)
  /\ \A v \in visited :
       [new |-> v.new, mark |-> v.mark] = Outcome(v.site, Canonicalize(v.path))

\* Nothing has been visited.
LEMMA RewriteInitInv ==
  RewriteInit => RewriteInv
<1> SUFFICES ASSUME RewriteInit PROVE RewriteInv
  OBVIOUS
<1>1. scopes \in ScopeInputs /\ blocks \in 0..(Len(scopes) - 1) /\ visited = {}
  BY DEF RewriteInit
<1>2. Len(scopes) \in Nat
  BY <1>1, ScopesAreLists
<1>3. blocks \in Nat /\ blocks < Len(scopes)
  BY <1>1, <1>2
<1> QED BY <1>1, <1>3 DEF RewriteInv

\* Every visit is recorded with its outcome.
LEMMA RewriteNextInv ==
  RewriteInv /\ [RewriteNext]_rewriteVars => RewriteInv'
<1> SUFFICES ASSUME RewriteInv, [RewriteNext]_rewriteVars PROVE RewriteInv'
  OBVIOUS
<1>1. scopes' = scopes /\ blocks' = blocks /\ tasks' = tasks
  BY DEF RewriteNext, rewriteVars, Dispatch, InjectMarkers, Visit
<1>2. Aliases' = Aliases
  BY <1>1 DEF Aliases, Body
<1>3. \A p : Canonicalize(p)' = Canonicalize(p)
  BY <1>2 DEF Canonicalize
<1>5. \A v : Outcome(v.site, Canonicalize(v.path))' = Outcome(v.site, Canonicalize(v.path))
  BY <1>1, <1>3 DEF Outcome
<1>6. CASE visited' = visited
  BY <1>1, <1>5, <1>6 DEF RewriteInv
<1>7. ASSUME NEW site \in Site, NEW p \in PathInputs, Visit(site, p) PROVE RewriteInv'
  <2> DEFINE o == Outcome(site, Canonicalize(p))
             w == [site |-> site, path |-> p, new |-> o.new, mark |-> o.mark]
  <2>1. visited' = visited \cup {w}
    BY <1>7 DEF Visit
  <2>2. [new |-> o.new, mark |-> o.mark] = o
    BY DEF Outcome
  <2> HIDE DEF o
  <2>3. w.site = site /\ w.path = p /\ w.new = o.new /\ w.mark = o.mark
    OBVIOUS
  <2> HIDE DEF w
  <2>4. [new |-> w.new, mark |-> w.mark] = Outcome(w.site, Canonicalize(w.path))
    BY <2>2, <2>3 DEF o
  <2>5. \A v \in visited' : [new |-> v.new, mark |-> v.mark] = Outcome(v.site, Canonicalize(v.path))
    BY <2>1, <2>4 DEF RewriteInv
  <2> QED BY <1>1, <1>5, <2>5 DEF RewriteInv
<1>8. Dispatch \/ InjectMarkers \/ UNCHANGED rewriteVars => visited' = visited
  BY DEF Dispatch, InjectMarkers, rewriteVars
<1> QED BY <1>6, <1>7, <1>8 DEF RewriteNext

\* The scopes that are scanned.
LEMMA ScannedScopes ==
  ASSUME RewriteInv
  PROVE  LET lists == SubSeq(scopes, 1, Body) IN
         /\ Body \in Nat /\ Body >= 1 /\ Body <= Len(scopes) /\ Len(scopes) \in Nat
         /\ Len(lists) = Body /\ DOMAIN lists = 1..Body
         /\ \A k \in 1..Body : lists[k] = scopes[k]
<1>1. Body \in Nat /\ Body >= 1 /\ Body <= Len(scopes) /\ Len(scopes) \in Nat
  BY ScopesAreLists DEF RewriteInv, Body
<1>2. SubSeq(scopes, 1, Body) = [k \in 1..Body |-> scopes[k]]
  BY <1>1
<1> QED BY <1>1, <1>2

\* In the scope that decides what a name means, a use of tokio that does not
\* decide it stands beside an item of that name.
LEMMA HiddenByItem ==
  ASSUME RewriteInv, NEW n, ~TokioBound(n), NEW k \in 1..Body, Innermost(k, n),
         NEW d \in scopes[k], IsTokioUse(d), Binds(d, n)
  PROVE  \E x \in scopes[k] : ~IsUse(x) /\ Binds(x, n)
<1>1. Binding(k, n) # {d} /\ d \in Binding(k, n)
  BY DEF TokioBound, Binding
<1>2. PICK x \in scopes[k] : Binds(x, n) /\ x # d
  BY <1>1 DEF Binding
<1>3. ASSUME IsUse(x) PROVE FALSE
  <2>1. ~IsGlob(x) /\ LeafBinding(x).name = n
    BY <1>2, <1>3 DEF Binds
  <2>2. IsUse(d) /\ ~IsGlob(d) /\ LeafBinding(d).name = n
    BY DEF IsTokioUse, Binds
  <2>3. k \in 1..Len(scopes)
    BY ScannedScopes
  <2>4. scopes \in ScopeInputs /\ k \in DOMAIN scopes
    BY <2>3, ScopesAreLists DEF RewriteInv
  <2> QED BY <1>2, <1>3, <2>1, <2>2, <2>4, ImportedOnce
<1> QED BY <1>2, <1>3

\* canonicalize finds the path that is meant, or looks through to an import that
\* the compiler passes over.
LEMMA CanonicalIsMeant ==
  ASSUME RewriteInv, NEW p
  PROVE  \/ Canonicalize(p) = Meant(p)
         \/ /\ ~TokioBound(Head(p.segs))
            /\ \E d \in PassedOver(Head(p.segs)) : Canonicalize(p) = Expand(p, LeafBinding(d).segs)
<1> DEFINE n == Head(p.segs)
           lists == SubSeq(scopes, 1, Body)
<1>1. /\ Body \in Nat /\ Body >= 1 /\ Body <= Len(scopes) /\ Len(scopes) \in Nat
      /\ Len(lists) = Body /\ DOMAIN lists = 1..Body
      /\ \A k \in 1..Body : lists[k] = scopes[k]
  BY ScannedScopes
<1>2. Aliases = AliasesOf(lists)
  BY DEF Aliases
<1> HIDE DEF n, lists
<1>3. \A k \in 1..Body : k \in Nat /\ k \in 1..Len(scopes)
  BY <1>1
<1>4. CASE TokioBound(n)
  <2>1. PICK k \in 1..Body : Innermost(k, n) /\ \E d \in scopes[k] : IsTokioUse(d) /\ Binding(k, n) = {d}
    BY <1>4 DEF TokioBound
  <2>2. PICK d \in scopes[k] : IsTokioUse(d) /\ Binding(k, n) = {d}
    BY <2>1
  <2>3. n \in DOMAIN ScanUseAliases(scopes[k]) /\ ScanUseAliases(scopes[k])[n] = LeafBinding(d).segs
    BY <2>2, ScanOfBound DEF Binding
  <2>4. k >= Body - 1 /\ Covering(n) \subseteq Nat
    BY <2>1 DEF Innermost, Covering
  <2>5. ASSUME NEW j \in 1..Body, j > k PROVE n \notin DOMAIN ScanUseAliases(scopes[j])
    <3>1. j \notin Covering(n) /\ j >= Body - 1 /\ j \in 1..Len(scopes)
      BY <1>1, <1>3, <2>1, <2>4, <2>5 DEF Innermost
    <3>2. \A x \in scopes[j] : ~Binds(x, n)
      BY <3>1 DEF Covering, Covers
    <3> QED BY <3>2, ScanOfBound
  <2>6. n \in DOMAIN Aliases /\ Aliases[n] = LeafBinding(d).segs
    <3>1. /\ k \in 1..Len(lists) /\ Len(lists) \in Nat /\ DOMAIN lists = 1..Len(lists)
          /\ lists[k] = scopes[k]
      BY <1>1, <2>1
    <3>2. \A j \in 1..Len(lists) : j > k => n \notin DOMAIN ScanUseAliases(lists[j])
      BY <1>1, <2>5
    <3>3. n \in DOMAIN ScanUseAliases(lists[k])
      BY <2>3, <3>1
    <3>4. n \in DOMAIN AliasesOf(lists) /\ AliasesOf(lists)[n] = ScanUseAliases(lists[k])[n]
      BY <3>1, <3>2, <3>3, LastImportWins
    <3> QED BY <1>2, <2>3, <3>1, <3>4
  <2>7. (CHOOSE m \in 1..Body : Innermost(m, n)) = k
    <3>1. \A m \in 1..Body : Innermost(m, n) => m = k
      BY <1>3, <2>1 DEF Innermost
    <3> QED BY <2>1, <3>1
  <2>8. (CHOOSE x \in scopes[k] : Binds(x, n)) = d
    <3>1. \A x \in scopes[k] : Binds(x, n) <=> x = d
      BY <2>2 DEF Binding
    <3> QED BY <3>1
  <2>9. Canonicalize(p) = Expand(p, LeafBinding(d).segs)
    BY <2>6 DEF Canonicalize, n
  <2>10. Meant(p) = Expand(p, LeafBinding(d).segs)
    <3>1. Meant(p) = Expand(p, LeafBinding(CHOOSE x \in scopes[CHOOSE m \in 1..Body : Innermost(m, n)] :
                                             Binds(x, n)).segs)
      BY <1>4 DEF Meant, n
    <3> QED BY <2>7, <2>8, <3>1
  <2> QED BY <2>9, <2>10
<1>5. CASE ~TokioBound(n) /\ n \notin DOMAIN Aliases
  <2>1. Canonicalize(p) = p
    BY <1>5 DEF Canonicalize, n
  <2>2. Meant(p) = p
    BY <1>5 DEF Meant, n
  <2> QED BY <2>1, <2>2
<1>6. CASE ~TokioBound(n) /\ n \in DOMAIN Aliases
  <2> DEFINE importing == {k \in 1..Body : n \in DOMAIN ScanUseAliases(scopes[k])}
             j == Max(importing)
  <2>1. importing # {} /\ importing \in SUBSET (1..Body)
    <3>1. Len(lists) \in Nat /\ DOMAIN lists = 1..Len(lists)
      BY <1>1
    <3>2. ~\A k \in 1..Len(lists) : n \notin DOMAIN ScanUseAliases(lists[k])
      BY <1>2, <1>6, <3>1, UnboundIsNoAlias
    <3> QED BY <1>1, <3>2
  <2>2. j \in importing /\ \A k \in importing : k <= j
    <3> HIDE DEF importing
    <3> QED BY <1>1, <2>1, MaxIn
  <2> HIDE DEF j
  <2>3. j \in 1..Body /\ n \in DOMAIN ScanUseAliases(scopes[j])
    BY <2>2
  <2>4. PICK d \in scopes[j] : /\ IsTokioUse(d) /\ Binds(d, n)
                              /\ ScanUseAliases(scopes[j])[n] = LeafBinding(d).segs
    BY <2>3, AliasIsImported
  <2>5. Aliases[n] = LeafBinding(d).segs
    <3>1. /\ j \in 1..Len(lists) /\ Len(lists) \in Nat /\ DOMAIN lists = 1..Len(lists)
          /\ lists[j] = scopes[j]
      BY <1>1, <2>3
    <3>2. \A k \in 1..Len(lists) : k > j => n \notin DOMAIN ScanUseAliases(lists[k])
      BY <1>1, <2>2, <2>3
    <3>3. n \in DOMAIN ScanUseAliases(lists[j])
      BY <2>3, <3>1
    <3>4. AliasesOf(lists)[n] = ScanUseAliases(lists[j])[n]
      BY <3>1, <3>2, <3>3, LastImportWins
    <3> QED BY <1>2, <2>4, <3>1, <3>4
  <2>6. ~Innermost(j, n)
    <3> SUFFICES ASSUME Innermost(j, n) PROVE FALSE
      OBVIOUS
    <3>1. \E x \in scopes[j] : ~IsUse(x) /\ Binds(x, n)
      BY <1>6, <2>3, <2>4, HiddenByItem
    <3> QED BY <2>3, <3>1, ScanOfBound
  <2>7. d \in PassedOver(n)
    BY <2>3, <2>4, <2>6 DEF PassedOver, Binding
  <2>8. Canonicalize(p) = Expand(p, LeafBinding(d).segs)
    BY <1>6, <2>5 DEF Canonicalize, n
  <2> QED BY <1>6, <2>7, <2>8 DEF n
<1> QED BY <1>4, <1>5, <1>6

\* Importing a primitive changes nothing, for any number of modules around the
\* function and of blocks in it and any declarations in them, globs, items and
\* imports of other crates among them: a path is rewritten or marked as what is
\* meant by it, or, where the compiler does not take the name from a use of
\* tokio, as such a use in a scope that it passes over (model.rs, canonicalize).
THEOREM ImportsChangeNothing ==
  RewriteSpec => []ImportsTransparent
<1>1. RewriteInit => RewriteInv
  BY RewriteInitInv
<1>2. RewriteInv /\ [RewriteNext]_rewriteVars => RewriteInv'
  BY RewriteNextInv
<1>3. RewriteInv => ImportsTransparent
  <2> SUFFICES ASSUME RewriteInv, NEW v \in visited
               PROVE  \/ TreatedAs(v, Meant(v.path))
                      \/ /\ ~TokioBound(Head(v.path.segs))
                         /\ \E d \in PassedOver(Head(v.path.segs)) :
                              TreatedAs(v, Expand(v.path, LeafBinding(d).segs))
    BY DEF ImportsTransparent
  <2>1. TreatedAs(v, Canonicalize(v.path))
    BY DEF RewriteInv, TreatedAs
  <2>2. CASE Canonicalize(v.path) = Meant(v.path)
    BY <2>1, <2>2
  <2>3. ASSUME NEW d \in PassedOver(Head(v.path.segs)),
               Canonicalize(v.path) = Expand(v.path, LeafBinding(d).segs)
        PROVE  TreatedAs(v, Expand(v.path, LeafBinding(d).segs))
    BY <2>1, <2>3
  <2> QED BY <2>2, <2>3, CanonicalIsMeant
<1> QED BY <1>1, <1>2, <1>3, PTL DEF RewriteSpec
=============================================================================
