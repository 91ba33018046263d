--------------------------- MODULE UbootEnvProofs ---------------------------
(***************************************************************************)
(* Proofs about UbootEnv, for every set of files, names and values, every  *)
(* content of the panel and every argument list.                           *)
(*                                                                         *)
(* The editor's loops (parse_env, the edits, the size of the payload) are  *)
(* recursive functions over the positions of a sequence.  LoopExists shows *)
(* that such a function exists, and Induction lets a fact be carried along *)
(* it, so what a whole loop computes is proved and not only checked:       *)
(* ParseMeans, PutAllHas, PopAllHas.                                       *)
(***************************************************************************)
EXTENDS UbootEnv, WellFoundedInduction, TLAPS

-----------------------------------------------------------------------------
\* Induction and loops.

Lt == {ss \in Nat \X Nat : ss[1] < ss[2]}

\* A nonempty set of numbers has a least one.
LEMMA Least ==
  ASSUME NEW T, T \subseteq Nat, T # {}
  PROVE  \E x \in T : \A y \in T : x <= y
<1>1. IsWellFoundedOn(Lt, Nat)
  BY NatLessThanWellFounded DEF OpToRel, Lt
<1>2. PICK x \in T : \A y \in T : ~(<<y, x>> \in Lt)
  BY <1>1, WFMin
<1>3. ASSUME NEW y \in T PROVE x <= y
  <2>1. <<y, x>> \in Nat \X Nat
    OBVIOUS
  <2>2. y < x => <<y, x>> \in Lt
    BY <2>1 DEF Lt
  <2>3. ~(y < x)
    BY <1>2, <2>2
  <2> QED BY <2>3
<1> QED BY <1>3

\* What holds of 0 and is kept by adding 1 holds of every number; the
\* property is given as the set of the numbers that have it.
LEMMA Induction ==
  ASSUME NEW S, 0 \in S, \A n \in Nat : n \in S => n + 1 \in S
  PROVE  \A n \in Nat : n \in S
<1> SUFFICES ASSUME {n \in Nat : n \notin S} # {} PROVE FALSE
  OBVIOUS
<1>1. PICK x \in {n \in Nat : n \notin S} : \A y \in {n \in Nat : n \notin S} : x <= y
  BY Least
<1>2. x # 0 /\ x - 1 \in Nat /\ x = (x - 1) + 1
  BY <1>1
<1>3. x - 1 \in S
  <2>1. ~(x <= x - 1)
    BY <1>2
  <2> QED BY <1>1, <1>2, <2>1
<1> QED BY <1>1, <1>2, <1>3

\* Max of FiniteSetsExt finds the greatest of the positions it is given.
LEMMA MaxIs ==
  ASSUME NEW n \in Nat, NEW S, S \subseteq 1..n, S # {}
  PROVE  Max(S) \in S /\ \A y \in S : y <= Max(S)
<1> DEFINE T == {n - i : i \in S}
<1>1. T \subseteq Nat /\ T # {}
  <2>1. PICK i \in S : TRUE
    OBVIOUS
  <2>2. n - i \in T
    OBVIOUS
  <2>3. \A j \in S : n - j \in Nat
    OBVIOUS
  <2> QED BY <2>2, <2>3
<1>2. PICK x \in T : \A y \in T : x <= y
  BY <1>1, Least
<1>3. PICK m \in S : x = n - m
  BY <1>2
<1>4. \A y \in S : m >= y
  BY <1>2, <1>3
<1>5. \E z \in S : \A y \in S : z >= y
  BY <1>4
<1> HIDE DEF T
<1>6. Max(S) \in S /\ \A y \in S : Max(S) >= y
  BY <1>5, Zenon DEF Max
<1>7. \A y \in S : y \in Nat
  OBVIOUS
<1> QED BY <1>6, <1>7

\* A loop of n rounds that starts from b in D and stays in D.
Loop(D, n, b, F) == n \in Nat /\ b \in D /\ F \in [(1..n) \X D -> D]

\* It has a value after every round.
LEMMA LoopExists ==
  ASSUME NEW D, NEW n, NEW b, NEW F, Loop(D, n, b, F)
  PROVE  \E g \in [0..n -> D] : g = [i \in 0..n |-> IF i = 0 THEN b ELSE F[<<i, g[i - 1]>>]]
<1>0. n \in Nat /\ b \in D /\ F \in [(1..n) \X D -> D]
  BY DEF Loop
<1> DEFINE Rounds(m, g) == g[0] = b /\ \A i \in 1..m : g[i] = F[<<i, g[i - 1]>>]
           S == {m \in Nat : m <= n => \E g \in [0..m -> D] : Rounds(m, g)}
<1>1. 0 \in S
  <2> DEFINE g == [i \in 0..0 |-> b]
  <2>1. g \in [0..0 -> D] /\ Rounds(0, g)
    BY <1>0
  <2> QED BY <2>1
<1>2. ASSUME NEW m \in Nat, m \in S PROVE m + 1 \in S
  <2> SUFFICES ASSUME m + 1 <= n PROVE \E g \in [0..(m + 1) -> D] : Rounds(m + 1, g)
    BY DEF S
  <2>1. PICK g \in [0..m -> D] : Rounds(m, g)
    BY <1>0, <1>2
  <2> DEFINE h == [i \in 0..(m + 1) |-> IF i = m + 1 THEN F[<<m + 1, g[m]>>] ELSE g[i]]
  <2>2. g[m] \in D /\ <<m + 1, g[m]>> \in (1..n) \X D
    BY <1>0
  <2>3. F[<<m + 1, g[m]>>] \in D
    BY <1>0, <2>2
  <2>4. h \in [0..(m + 1) -> D]
    BY <2>3
  <2>5. Rounds(m + 1, h)
    <3>1. h[0] = b
      BY <2>1
    <3>2. ASSUME NEW i \in 1..(m + 1) PROVE h[i] = F[<<i, h[i - 1]>>]
      <4>1. CASE i = m + 1
        <5>1. i - 1 = m /\ m # m + 1 /\ m \in 0..(m + 1) /\ m + 1 \in 0..(m + 1)
          BY <4>1
        <5>2. h[m] = g[m] /\ h[m + 1] = F[<<m + 1, g[m]>>]
          BY <5>1
        <5> HIDE DEF h
        <5> QED BY <4>1, <5>1, <5>2
      <4>2. CASE i # m + 1
        <5>1. i \in 1..m /\ i - 1 \in 0..m /\ i - 1 # m + 1
          BY <4>2
        <5>2. h[i] = g[i] /\ h[i - 1] = g[i - 1]
          BY <4>2, <5>1
        <5> QED BY <2>1, <5>1, <5>2
      <4> QED BY <4>1, <4>2
    <3> QED BY <3>1, <3>2
  <2> QED BY <2>4, <2>5
<1>3. n \in S
  <2> HIDE DEF S
  <2> QED BY <1>0, <1>1, <1>2, Induction
<1>4. PICK g \in [0..n -> D] : Rounds(n, g)
  BY <1>0, <1>3
<1>5. g = [i \in 0..n |-> g[i]]
  OBVIOUS
<1>6. \A i \in 0..n : g[i] = IF i = 0 THEN b ELSE F[<<i, g[i - 1]>>]
  BY <1>0, <1>4
<1>7. g = [i \in 0..n |-> IF i = 0 THEN b ELSE F[<<i, g[i - 1]>>]]
  BY <1>5, <1>6
<1> QED BY <1>7

-----------------------------------------------------------------------------
\* Dictionaries: what Put and Pop do to the association of names and values.

Pair == [key : Keys, val : Vals]

\* A dictionary in insertion order: no name twice.
Dict == {d \in Seq(Pair) : \A i, j \in DOMAIN d : d[i].key = d[j].key => i = j}

Has(d, k, v) == \E i \in DOMAIN d : d[i].key = k /\ d[i].val = v

\* A dictionary is a sequence of pairs, position by position.
LEMMA DictFacts ==
  ASSUME NEW d \in Dict
  PROVE  /\ Len(d) \in Nat /\ DOMAIN d = 1..Len(d) /\ d \in Seq(Pair)
         /\ \A i \in DOMAIN d : d[i] \in Pair /\ d[i].key \in Keys /\ d[i].val \in Vals
         /\ \A i, j \in DOMAIN d : d[i].key = d[j].key => i = j
<1>1. d \in Seq(Pair) /\ \A i, j \in DOMAIN d : d[i].key = d[j].key => i = j
  BY Zenon DEF Dict
<1>2. Len(d) \in Nat /\ DOMAIN d = 1..Len(d) /\ \A i \in DOMAIN d : d[i] \in Pair
  BY <1>1
<1>3. \A e \in Pair : e.key \in Keys /\ e.val \in Vals
  BY DEF Pair
<1> QED BY <1>1, <1>2, <1>3, Zenon

LEMMA EmptyDict == <<>> \in Dict /\ \A k, v : ~Has(<<>>, k, v)
<1>1. <<>> \in Seq(Pair) /\ DOMAIN <<>> = {}
  OBVIOUS
<1>2. \A k, v : ~Has(<<>>, k, v)
  BY <1>1 DEF Has
<1>3. <<>> \in Dict
  BY <1>1, Zenon DEF Dict
<1> QED BY <1>2, <1>3

\* entries[key] = val.
LEMMA PutHas ==
  ASSUME NEW d \in Dict, NEW e \in Pair
  PROVE  /\ Put(d, e) \in Dict
         /\ \A k, v : Has(Put(d, e), k, v) <=> IF k = e.key THEN v = e.val ELSE Has(d, k, v)
<1>0. /\ Len(d) \in Nat /\ DOMAIN d = 1..Len(d) /\ d \in Seq(Pair)
      /\ \A i \in DOMAIN d : d[i] \in Pair
      /\ \A i, j \in DOMAIN d : d[i].key = d[j].key => i = j
  BY DictFacts, Zenon
<1>1. CASE \E i \in DOMAIN d : d[i].key = e.key
  <2>1. PICK a \in DOMAIN d : d[a].key = e.key
    BY <1>1
  <2> DEFINE q == [i \in DOMAIN d |-> IF d[i].key = e.key THEN e ELSE d[i]]
  <2>2. Put(d, e) = q
    BY <1>1, Zenon DEF Put
  <2>3. /\ DOMAIN q = DOMAIN d
        /\ \A i \in DOMAIN d : q[i].key = d[i].key /\ q[i] \in Pair
        /\ \A i \in DOMAIN d : q[i] = IF d[i].key = e.key THEN e ELSE d[i]
    BY <1>0
  <2>4. q \in Seq(Pair)
    <3>1. q \in [1..Len(d) -> Pair]
      BY <1>0
    <3> QED BY <1>0, <3>1
  <2> HIDE DEF q
  <2>5. q \in Dict
    <3>1. \A i, j \in DOMAIN q : q[i].key = q[j].key => i = j
      BY <1>0, <2>3
    <3> QED BY <2>4, <3>1, Zenon DEF Dict
  <2>6. ASSUME NEW k, NEW v
        PROVE  Has(q, k, v) <=> IF k = e.key THEN v = e.val ELSE Has(d, k, v)
    <3>1. CASE k = e.key
      <4>1. q[a].key = k /\ q[a].val = e.val
        BY <2>1, <2>3, <3>1
      <4>2. \A i \in DOMAIN q : q[i].key = k => q[i].val = e.val
        BY <2>3, <3>1
      <4> QED BY <2>1, <2>3, <3>1, <4>1, <4>2, Zenon DEF Has
    <3>2. CASE k # e.key
      BY <2>3, <3>2 DEF Has
    <3> QED BY <3>1, <3>2
  <2> QED BY <2>2, <2>5, <2>6
<1>2. CASE ~ \E i \in DOMAIN d : d[i].key = e.key
  <2> DEFINE q == Append(d, e)
  <2>1. Put(d, e) = q
    BY <1>2, Zenon DEF Put
  <2>2. /\ q \in Seq(Pair) /\ DOMAIN q = 1..(Len(d) + 1) /\ q[Len(d) + 1] = e
        /\ \A i \in 1..Len(d) : q[i] = d[i]
    BY <1>0
  <2>3. \A i \in DOMAIN q : i \in DOMAIN d \/ i = Len(d) + 1
    BY <1>0, <2>2
  <2>4. \A i \in DOMAIN d : i \in DOMAIN q
    BY <1>0, <2>2
  <2>5. Len(d) + 1 \in DOMAIN q
    BY <1>0, <2>2
  <2> HIDE DEF q
  <2>6. \A i, j \in DOMAIN q : q[i].key = q[j].key => i = j
    <3> TAKE i, j \in DOMAIN q
    <3>1. \A x \in DOMAIN d : q[x].key # q[Len(d) + 1].key
      BY <1>0, <1>2, <2>2, Zenon
    <3>2. CASE i \in DOMAIN d /\ j \in DOMAIN d
      BY <1>0, <2>2, <3>2
    <3> QED BY <2>3, <3>1, <3>2, Zenon
  <2>7. q \in Dict
    BY <2>2, <2>6, Zenon DEF Dict
  <2>8. ASSUME NEW k, NEW v
        PROVE  Has(q, k, v) <=> IF k = e.key THEN v = e.val ELSE Has(d, k, v)
    <3>1. Has(q, k, v) <=> Has(d, k, v) \/ (e.key = k /\ e.val = v)
      BY <1>0, <2>2, <2>3, <2>4, <2>5, Zenon DEF Has
    <3>2. k = e.key => ~Has(d, k, v)
      BY <1>2, Zenon DEF Has
    <3> QED BY <3>1, <3>2, Zenon
  <2> QED BY <2>1, <2>7, <2>8
<1> QED BY <1>1, <1>2

\* entries.pop(key, None).
LEMMA PopHas ==
  ASSUME NEW d \in Dict, NEW x
  PROVE  /\ Pop(d, x) \in Dict
         /\ \A k, v : Has(Pop(d, x), k, v) <=> k # x /\ Has(d, k, v)
<1>0. /\ Len(d) \in Nat /\ DOMAIN d = 1..Len(d) /\ d \in Seq(Pair)
      /\ \A i \in DOMAIN d : d[i] \in Pair
      /\ \A i, j \in DOMAIN d : d[i].key = d[j].key => i = j
  BY DictFacts, Zenon
<1>1. CASE ~ \E i \in DOMAIN d : d[i].key = x
  <2>1. Pop(d, x) = d
    BY <1>1, Zenon DEF Pop
  <2>2. \A k, v : Has(d, k, v) <=> k # x /\ Has(d, k, v)
    BY <1>1, Zenon DEF Has
  <2> QED BY <2>1, <2>2
<1>2. CASE \E i \in DOMAIN d : d[i].key = x
  <2> DEFINE a == CHOOSE i \in DOMAIN d : d[i].key = x
             q == [i \in 1..(Len(d) - 1) |-> IF i < a THEN d[i] ELSE d[i + 1]]
  <2>1. a \in DOMAIN d /\ d[a].key = x
    BY <1>2, Zenon
  <2>2. Pop(d, x) = q
    BY <1>2, Zenon DEF Pop
  <2> HIDE DEF a
  <2>3. Len(d) - 1 \in Nat /\ a \in 1..Len(d)
    BY <1>0, <2>1
  <2>4. /\ DOMAIN q = 1..(Len(d) - 1)
        /\ \A i \in DOMAIN q : q[i] = IF i < a THEN d[i] ELSE d[i + 1]
    OBVIOUS
  <2>5. \A i \in DOMAIN q : i \in DOMAIN d /\ i + 1 \in DOMAIN d /\ q[i] \in Pair
    BY <1>0, <2>3, <2>4
  <2>6. q \in Seq(Pair)
    <3>1. q \in [1..(Len(d) - 1) -> Pair]
      BY <2>5
    <3> HIDE DEF q
    <3> QED BY <2>3, <3>1
  <2> HIDE DEF q
  <2>7. \A i, j \in DOMAIN q : q[i].key = q[j].key => i = j
    <3> TAKE i, j \in DOMAIN q
    <3> DEFINE u(n) == IF n < a THEN n ELSE n + 1
    <3>1. q[i] = d[u(i)] /\ q[j] = d[u(j)] /\ u(i) \in DOMAIN d /\ u(j) \in DOMAIN d
      BY <2>4, <2>5
    <3>2. u(i) = u(j) => i = j
      BY <2>3, <2>4
    <3> HIDE DEF u
    <3> QED BY <1>0, <3>1, <3>2
  <2>8. q \in Dict
    BY <2>6, <2>7, Zenon DEF Dict
  <2>9. ASSUME NEW k, NEW v
        PROVE  Has(q, k, v) <=> k # x /\ Has(d, k, v)
    <3>1. ASSUME Has(q, k, v) PROVE k # x /\ Has(d, k, v)
      <4>1. PICK i \in DOMAIN q : q[i].key = k /\ q[i].val = v
        BY <3>1, Zenon DEF Has
      <4>2. PICK n \in DOMAIN d : q[i] = d[n] /\ n # a
        <5>1. CASE i < a
          <6>1. i # a /\ q[i] = d[i]
            BY <2>3, <2>4, <5>1
          <6> QED BY <2>5, <6>1
        <5>2. CASE ~(i < a)
          <6>1. i + 1 # a /\ q[i] = d[i + 1]
            BY <2>3, <2>4, <5>2
          <6> QED BY <2>5, <6>1
        <5> QED BY <5>1, <5>2
      <4>3. d[n].key # x
        BY <1>0, <2>1, <4>2
      <4> QED BY <4>1, <4>2, <4>3, Zenon DEF Has
    <3>2. ASSUME k # x, Has(d, k, v) PROVE Has(q, k, v)
      <4>1. PICK n \in DOMAIN d : d[n].key = k /\ d[n].val = v
        BY <3>2, Zenon DEF Has
      <4>2. n # a
        BY <2>1, <3>2, <4>1
      <4>3. PICK i \in DOMAIN q : q[i] = d[n]
        <5>1. CASE n < a
          <6>1. n \in 1..(Len(d) - 1)
            BY <1>0, <2>3, <5>1
          <6> QED BY <2>4, <5>1, <6>1
        <5>2. CASE ~(n < a)
          <6>1. n - 1 \in 1..(Len(d) - 1) /\ ~(n - 1 < a) /\ n - 1 + 1 = n
            BY <1>0, <2>3, <4>2, <5>2
          <6> QED BY <2>4, <6>1
        <5> QED BY <5>1, <5>2
      <4> QED BY <4>1, <4>3, Zenon DEF Has
    <3> QED BY <3>1, <3>2, Zenon
  <2> QED BY <2>2, <2>8, <2>9
<1> QED BY <1>1, <1>2

-----------------------------------------------------------------------------
\* What the loops of the editor compute.

\* Of the entries of s at the positions W, the last one for k has the value v.
LastIn(s, W, k, v) ==
  \E i \in W : s[i].key = k /\ s[i].val = v /\ \A j \in W : s[j].key = k => j <= i

\* g is a loop over s that puts the entries at the positions W, in their order,
\* into d.
Puts(g, d, n, s, W) ==
  /\ d \in Dict /\ n \in Nat /\ W \subseteq 1..n
  /\ \A i \in W : s[i] \in Pair
  /\ g[0] = d
  /\ \A i \in 1..n : g[i] = IF i \in W THEN Put(g[i - 1], s[i]) ELSE g[i - 1]

LEMMA PutLoop ==
  ASSUME NEW g, NEW d, NEW n, NEW s, NEW W, Puts(g, d, n, s, W)
  PROVE  /\ g[n] \in Dict
         /\ \A k, v : Has(g[n], k, v) <=>
              LastIn(s, W, k, v) \/ (Has(d, k, v) /\ \A i \in W : s[i].key # k)
<1>a. /\ d \in Dict /\ n \in Nat /\ W \subseteq 1..n
      /\ \A i \in W : s[i] \in Pair
      /\ g[0] = d
  BY Zenon DEF Puts
<1>b. \A i \in 1..n : g[i] = IF i \in W THEN Put(g[i - 1], s[i]) ELSE g[i - 1]
  BY Zenon DEF Puts
<1> DEFINE U(m) == W \cap 1..m
           P(m) == /\ g[m] \in Dict
                   /\ \A k, v : Has(g[m], k, v) <=>
                        LastIn(s, U(m), k, v) \/ (Has(d, k, v) /\ \A i \in U(m) : s[i].key # k)
           S == {m \in Nat : m <= n => P(m)}
<1>0. \A m \in Nat : m \in S <=> (m <= n => P(m))
  <2> HIDE DEF P
  <2> QED BY Zenon
<1> HIDE DEF S
<1>1. 0 \in S
  <2>1. U(0) = {}
    OBVIOUS
  <2>2. P(0)
    BY <1>a, <2>1, Zenon DEF LastIn
  <2> HIDE DEF P
  <2> QED BY <1>0, <2>2
<1>2. ASSUME NEW m \in Nat, m \in S PROVE m + 1 \in S
  <2>0. m + 1 \in Nat /\ (m + 1 <= n => m <= n)
    BY <1>a
  <2> SUFFICES ASSUME m + 1 <= n PROVE P(m + 1)
    <3> HIDE DEF P
    <3> QED BY <1>0, <2>0, Zenon
  <2>1. P(m) /\ m + 1 \in 1..n /\ m + 1 - 1 = m
    <3> HIDE DEF P
    <3> QED BY <1>a, <1>0, <1>2, <2>0
  <2>2. g[m + 1] = IF m + 1 \in W THEN Put(g[m], s[m + 1]) ELSE g[m]
    <3> HIDE DEF P
    <3> QED BY <1>b, <2>1
  <2>3. CASE m + 1 \notin W
    <3>1. U(m + 1) = U(m)
      BY <2>3
    <3>2. g[m + 1] = g[m]
      BY <2>2, <2>3
    <3> HIDE DEF U
    <3> QED BY <2>1, <3>1, <3>2
  <2>4. CASE m + 1 \in W
    <3> DEFINE e == s[m + 1]
    <3>1. e \in Pair /\ g[m + 1] = Put(g[m], e)
      BY <1>a, <2>2, <2>4
    <3>2. U(m + 1) = U(m) \cup {m + 1} /\ \A i \in U(m) : i <= m + 1 /\ ~(m + 1 <= i)
      BY <2>4
    <3> HIDE DEF U
    <3>3. /\ Put(g[m], e) \in Dict
          /\ \A k, v : Has(Put(g[m], e), k, v) <=> IF k = e.key THEN v = e.val ELSE Has(g[m], k, v)
      BY <2>1, <3>1, PutHas, Zenon
    <3>4. ASSUME NEW k, NEW v
          PROVE  Has(g[m + 1], k, v) <=> LastIn(s, U(m + 1), k, v)
                                          \/ (Has(d, k, v) /\ \A i \in U(m + 1) : s[i].key # k)
      <4>1. CASE k = e.key
        <5>0. m + 1 <= m + 1
          OBVIOUS
        <5>1. LastIn(s, U(m + 1), k, v) <=> v = e.val
          <6>1. ASSUME v = e.val PROVE LastIn(s, U(m + 1), k, v)
            BY <3>2, <4>1, <5>0, <6>1, Zenon DEF LastIn
          <6>2. ASSUME LastIn(s, U(m + 1), k, v) PROVE v = e.val
            <7>1. PICK i \in U(m + 1) : s[i].val = v /\ m + 1 <= i
              BY <3>2, <4>1, <6>2, Zenon DEF LastIn
            <7>2. i = m + 1
              BY <3>2, <7>1, Zenon
            <7> QED BY <7>1, <7>2
          <6> QED BY <6>1, <6>2, Zenon
        <5>2. ~ \A i \in U(m + 1) : s[i].key # k
          BY <3>2, <4>1, Zenon
        <5> QED BY <3>1, <3>3, <4>1, <5>1, <5>2, Zenon
      <4>2. CASE k # e.key
        <5>1. LastIn(s, U(m + 1), k, v) <=> LastIn(s, U(m), k, v)
          BY <3>2, <4>2, Zenon DEF LastIn
        <5>2. (\A i \in U(m + 1) : s[i].key # k) <=> (\A i \in U(m) : s[i].key # k)
          BY <3>2, <4>2, Zenon
        <5> QED BY <2>1, <3>1, <3>3, <4>2, <5>1, <5>2, Zenon
      <4> QED BY <4>1, <4>2, Zenon
    <3> QED BY <3>1, <3>3, <3>4
  <2> QED BY <2>3, <2>4
<1>3. n \in S
  <2> HIDE DEF P
  <2> QED BY <1>a, <1>1, <1>2, Induction
<1>4. P(n)
  <2>1. n \in Nat /\ n <= n
    BY <1>a
  <2> HIDE DEF P
  <2> QED BY <1>0, <1>3, <2>1
<1>5. U(n) = W
  BY <1>a, Zenon
<1> HIDE DEF U
<1> QED BY <1>4, <1>5, Zenon

\* cmd_modify's loop over its arguments: a name's last argument counts, and a
\* name without one keeps its value.
LEMMA PutAllHas ==
  ASSUME NEW d \in Dict, NEW es \in Seq(Pair)
  PROVE  /\ PutAll(d, es) \in Dict
         /\ \A k, v : Has(PutAll(d, es), k, v) <=>
              \/ LastIn(es, DOMAIN es, k, v)
              \/ Has(d, k, v) /\ \A i \in DOMAIN es : es[i].key # k
<1> DEFINE n == Len(es)
<1>1. n \in Nat /\ DOMAIN es = 1..n /\ \A i \in 1..n : es[i] \in Pair
  OBVIOUS
<1> DEFINE F == [p \in (1..n) \X Dict |-> Put(p[2], es[p[1]])]
<1>2. F \in [(1..n) \X Dict -> Dict]
  <2>1. \A p \in (1..n) \X Dict : p[1] \in 1..n /\ p[2] \in Dict
    OBVIOUS
  <2>2. \A p \in (1..n) \X Dict : Put(p[2], es[p[1]]) \in Dict
    <3> HIDE DEF n
    <3> QED BY <1>1, <2>1, PutHas, Zenon
  <2> HIDE DEF n
  <2> QED BY <2>2
<1>3. \A i \in 1..n, c \in Dict : F[<<i, c>>] = Put(c, es[i])
  <2> HIDE DEF n
  <2> QED OBVIOUS
<1> HIDE DEF F
<1>4. PICK g \in [0..n -> Dict] : g = [i \in 0..n |-> IF i = 0 THEN d ELSE F[<<i, g[i - 1]>>]]
  <2> HIDE DEF n
  <2>1. Loop(Dict, n, d, F)
    BY <1>1, <1>2, Zenon DEF Loop
  <2> QED BY <2>1, LoopExists
<1>5. \A i \in 0..n : i # 0 => i \in 1..n /\ g[i - 1] \in Dict
  <2> HIDE DEF n
  <2> QED BY <1>1
<1>6. g = [i \in 0..n |-> IF i = 0 THEN d ELSE Put(g[i - 1], es[i])]
  <2> HIDE DEF n
  <2>1. \A i \in 0..n : (IF i = 0 THEN d ELSE F[<<i, g[i - 1]>>]) = (IF i = 0 THEN d ELSE Put(g[i - 1], es[i]))
    BY <1>3, <1>5, Zenon
  <2> QED BY <1>4, <2>1
<1> DEFINE h == CHOOSE dict : dict = [i \in 0..Len(es) |-> IF i = 0 THEN d ELSE Put(dict[i - 1], es[i])]
<1>7. h = [i \in 0..Len(es) |-> IF i = 0 THEN d ELSE Put(h[i - 1], es[i])]
  BY <1>6, Zenon
<1>8. PutAll(d, es) = h[Len(es)]
  BY Zenon DEF PutAll
<1> HIDE DEF h, n
<1>9. Puts(h, d, Len(es), es, DOMAIN es)
  <2>1. 0 \in 0..Len(es) /\ \A i \in 1..Len(es) : i \in 0..Len(es) /\ i # 0
    BY <1>1 DEF n
  <2>2. h[0] = d /\ \A i \in 1..Len(es) : h[i] = Put(h[i - 1], es[i])
    BY <1>7, <2>1, Zenon
  <2> QED BY <1>1, <2>2, Zenon DEF Puts, n
<1> QED BY <1>8, <1>9, PutLoop

\* cmd_delete's loop over its arguments: the names given are gone, the others
\* keep their values.
LEMMA PopAllHas ==
  ASSUME NEW d \in Dict, NEW ks \in Seq(Keys)
  PROVE  /\ PopAll(d, ks) \in Dict
         /\ \A k, v : Has(PopAll(d, ks), k, v) <=> Has(d, k, v) /\ \A i \in DOMAIN ks : ks[i] # k
<1> DEFINE n == Len(ks)
<1>1. n \in Nat /\ DOMAIN ks = 1..n
  OBVIOUS
<1> DEFINE F == [p \in (1..n) \X Dict |-> Pop(p[2], ks[p[1]])]
<1>2. F \in [(1..n) \X Dict -> Dict]
  <2>1. \A p \in (1..n) \X Dict : p[2] \in Dict
    OBVIOUS
  <2>2. \A p \in (1..n) \X Dict : Pop(p[2], ks[p[1]]) \in Dict
    <3> HIDE DEF n
    <3> QED BY <2>1, PopHas
  <2> HIDE DEF n
  <2> QED BY <2>2
<1>3. \A i \in 1..n, c \in Dict : F[<<i, c>>] = Pop(c, ks[i])
  <2> HIDE DEF n
  <2> QED OBVIOUS
<1> HIDE DEF F
<1>4. PICK g \in [0..n -> Dict] : g = [i \in 0..n |-> IF i = 0 THEN d ELSE F[<<i, g[i - 1]>>]]
  <2> HIDE DEF n
  <2>1. Loop(Dict, n, d, F)
    BY <1>1, <1>2, Zenon DEF Loop
  <2> QED BY <2>1, LoopExists
<1>5. \A i \in 0..n : i # 0 => i \in 1..n /\ g[i - 1] \in Dict
  <2> HIDE DEF n
  <2> QED BY <1>1
<1>6. g = [i \in 0..n |-> IF i = 0 THEN d ELSE Pop(g[i - 1], ks[i])]
  <2> HIDE DEF n
  <2>1. \A i \in 0..n : (IF i = 0 THEN d ELSE F[<<i, g[i - 1]>>]) = (IF i = 0 THEN d ELSE Pop(g[i - 1], ks[i]))
    BY <1>3, <1>5, Zenon
  <2> QED BY <1>4, <2>1
<1> DEFINE h == CHOOSE dict : dict = [i \in 0..Len(ks) |-> IF i = 0 THEN d ELSE Pop(dict[i - 1], ks[i])]
<1>7. h = [i \in 0..Len(ks) |-> IF i = 0 THEN d ELSE Pop(h[i - 1], ks[i])]
  BY <1>6, Zenon
<1>8. PopAll(d, ks) = h[Len(ks)]
  BY Zenon DEF PopAll
<1> HIDE DEF h, n
<1>9. h[0] = d /\ \A i \in 1..n : h[i] = Pop(h[i - 1], ks[i])
  <2>1. 0 \in 0..Len(ks) /\ \A i \in 1..Len(ks) : i \in 0..Len(ks) /\ i # 0
    BY <1>1 DEF n
  <2> QED BY <1>7, <2>1, Zenon DEF n
<1> DEFINE P(m) == /\ h[m] \in Dict
                   /\ \A k, v : Has(h[m], k, v) <=> Has(d, k, v) /\ \A i \in 1..m : ks[i] # k
           S == {m \in Nat : m <= n => P(m)}
<1>10. \A m \in Nat : m \in S <=> (m <= n => P(m))
  <2> HIDE DEF P
  <2> QED BY Zenon
<1> HIDE DEF S
<1>11. 0 \in S
  <2>1. 1..0 = {}
    OBVIOUS
  <2>2. P(0)
    BY <1>9, <2>1, Zenon
  <2> HIDE DEF P
  <2> QED BY <1>10, <2>2
<1>12. ASSUME NEW m \in Nat, m \in S PROVE m + 1 \in S
  <2>1. m + 1 \in Nat /\ (m + 1 <= n => m <= n)
    BY <1>1
  <2> SUFFICES ASSUME m + 1 <= n PROVE P(m + 1)
    <3> HIDE DEF P
    <3> QED BY <1>10, <2>1, Zenon
  <2>2. P(m) /\ m + 1 \in 1..n /\ m + 1 - 1 = m
    <3> HIDE DEF P
    <3> QED BY <1>1, <1>10, <1>12, <2>1
  <2>3. h[m + 1] = Pop(h[m], ks[m + 1])
    <3> HIDE DEF P
    <3> QED BY <1>9, <2>2
  <2>4. h[m + 1] \in Dict /\ \A k, v : Has(h[m + 1], k, v) <=> k # ks[m + 1] /\ Has(h[m], k, v)
    BY <2>2, <2>3, PopHas
  <2>5. 1..(m + 1) = 1..m \cup {m + 1}
    OBVIOUS
  <2> QED BY <2>2, <2>4, <2>5, Zenon
<1>13. P(n)
  <2>1. n <= n
    BY <1>1
  <2> HIDE DEF P
  <2>2. n \in S
    BY <1>1, <1>11, <1>12, Induction
  <2> QED BY <1>1, <1>10, <2>1, <2>2
<1>14. PopAll(d, ks) = h[n]
  BY <1>8, Zenon DEF n
<1> QED BY <1>1, <1>13, <1>14

\* parse_env: the dictionary holds, for every name, its last entry before the
\* first empty item.
LEMMA ParseHas ==
  ASSUME NEW b \in Blocks
  PROVE  /\ parse_env(b) \in Dict
         /\ \A k \in Keys : \A v : Has(parse_env(b), k, v) <=> LastIn(b.items, Walked(b.items), k, v)
<1> DEFINE s == b.items
           n == Len(b.items)
           W == {i \in Walked(s) : s[i].key # NoKey}
<1>1. s \in Seq(Entry \cup {End}) /\ n \in Nat /\ DOMAIN s = 1..n
  BY DEF Blocks
<1>2. W \subseteq 1..n /\ Walked(s) \subseteq 1..n
  BY <1>1, Zenon DEF Walked
<1>3. \A i \in W : s[i] \in Pair
  <2> TAKE i \in W
  <2>1. i \in 1..n /\ i \in 1..i
    BY <1>1, <1>2
  <2>2. s[i] \in Entry /\ s[i].key # NoKey
    <3>1. s[i] # End
      BY <2>1 DEF Walked
    <3>2. s[i] \in Entry \cup {End}
      BY <1>1, <2>1
    <3> QED BY <3>1, <3>2
  <2> HIDE DEF s
  <2> QED BY <2>2 DEF Entry, Pair
<1>4. <<>> \in Dict
  BY EmptyDict
<1> DEFINE F == [p \in (1..n) \X Dict |-> IF p[1] \in W THEN Put(p[2], s[p[1]]) ELSE p[2]]
<1> HIDE DEF s, n, W
<1>5. F \in [(1..n) \X Dict -> Dict]
  <2>1. \A p \in (1..n) \X Dict : p[2] \in Dict
    OBVIOUS
  <2>2. \A p \in (1..n) \X Dict : (IF p[1] \in W THEN Put(p[2], s[p[1]]) ELSE p[2]) \in Dict
    BY <1>3, <2>1, PutHas, Zenon
  <2> QED BY <2>2
<1>6. \A i \in 1..n, c \in Dict : F[<<i, c>>] = IF i \in W THEN Put(c, s[i]) ELSE c
  OBVIOUS
<1> HIDE DEF F
<1>7. PICK g \in [0..n -> Dict] : g = [i \in 0..n |-> IF i = 0 THEN <<>> ELSE F[<<i, g[i - 1]>>]]
  <2>1. Loop(Dict, n, <<>>, F)
    BY <1>1, <1>4, <1>5, Zenon DEF Loop
  <2> QED BY <2>1, LoopExists
<1>8. \A i \in 0..n : i # 0 => i \in 1..n /\ g[i - 1] \in Dict
  BY <1>1
<1> DEFINE Round(f, i) == IF i = 0 THEN <<>>
                          ELSE IF i \in Walked(s) /\ s[i].key # NoKey THEN Put(f[i - 1], s[i])
                          ELSE f[i - 1]
<1>9. g = [i \in 0..n |-> Round(g, i)]
  <2>1. \A i \in 0..n : (IF i = 0 THEN <<>> ELSE F[<<i, g[i - 1]>>]) = Round(g, i)
    BY <1>6, <1>8, Zenon DEF W
  <2> HIDE DEF Round
  <2> QED BY <1>7, <2>1
<1> DEFINE h == CHOOSE dict : dict = [i \in 0..n |-> Round(dict, i)]
<1>10. h = [i \in 0..n |-> Round(h, i)]
  BY <1>9, Zenon
<1>11. parse_env(b) = h[n]
  BY Zenon DEF parse_env, s, n
<1> HIDE DEF h
<1>12. Puts(h, <<>>, n, s, W)
  <2>1. 0 \in 0..n /\ \A i \in 1..n : i \in 0..n /\ i # 0
    BY <1>1
  <2>2. h[0] = <<>> /\ \A i \in 1..n : h[i] = Round(h, i)
    <3> HIDE DEF Round
    <3>1. \A i \in 0..n : h[i] = Round(h, i)
      BY <1>10, Zenon
    <3> QED BY <2>1, <3>1, Zenon DEF Round
  <2>3. \A i \in 1..n : h[i] = IF i \in W THEN Put(h[i - 1], s[i]) ELSE h[i - 1]
    BY <2>1, <2>2, Zenon DEF W
  <2> HIDE DEF Round
  <2> QED BY <1>1, <1>2, <1>3, <1>4, <2>2, <2>3, Zenon DEF Puts
<1> HIDE DEF Round
<1>13. /\ h[n] \in Dict
       /\ \A k, v : Has(h[n], k, v) <=>
            LastIn(s, W, k, v) \/ (Has(<<>>, k, v) /\ \A i \in W : s[i].key # k)
  BY <1>12, PutLoop
<1>14. \A k \in Keys : \A v : LastIn(s, W, k, v) <=> LastIn(s, Walked(s), k, v)
  <2>1. NoKey \notin Keys
    BY InputAssumption
  <2> QED BY <2>1, Zenon DEF LastIn, W
<1> QED BY <1>11, <1>13, <1>14, EmptyDict, Zenon DEF s

\* The size of the payload is a number.
LEMMA PayloadNat ==
  ASSUME NEW d \in Dict
  PROVE  Payload(d) \in Nat
<1> DEFINE n == Len(d)
<1>1. n \in Nat /\ \A i \in 1..n : d[i].val \in Nat
  <2>1. Vals \subseteq Nat
    BY MacroAssumption
  <2> QED BY <2>1, DictFacts
<1> DEFINE F == [p \in (1..n) \X Nat |-> p[2] + d[p[1]].val + 1]
<1> HIDE DEF n
<1>2. F \in [(1..n) \X Nat -> Nat]
  BY <1>1
<1>3. \A i \in 1..n, c \in Nat : F[<<i, c>>] = c + d[i].val + 1
  OBVIOUS
<1> HIDE DEF F
<1>4. PICK g \in [0..n -> Nat] : g = [i \in 0..n |-> IF i = 0 THEN 0 ELSE F[<<i, g[i - 1]>>]]
  <2>1. Loop(Nat, n, 0, F)
    BY <1>1, <1>2 DEF Loop
  <2> QED BY <2>1, LoopExists
<1>5. \A i \in 0..n : i # 0 => i \in 1..n /\ g[i - 1] \in Nat
  BY <1>1
<1>6. g = [i \in 0..n |-> IF i = 0 THEN 0 ELSE g[i - 1] + d[i].val + 1]
  <2>1. \A i \in 0..n : (IF i = 0 THEN 0 ELSE F[<<i, g[i - 1]>>])
                        = (IF i = 0 THEN 0 ELSE g[i - 1] + d[i].val + 1)
    BY <1>3, <1>5, Zenon
  <2> QED BY <1>4, <2>1
<1> DEFINE h == CHOOSE bytes : bytes = [i \in 0..n |-> IF i = 0 THEN 0 ELSE bytes[i - 1] + d[i].val + 1]
<1>7. h = [i \in 0..n |-> IF i = 0 THEN 0 ELSE h[i - 1] + d[i].val + 1]
  BY <1>6, Zenon
<1>8. Payload(d) = IF d = <<>> THEN 2 ELSE h[n] + 1
  BY Zenon DEF Payload, n
<1> HIDE DEF h
<1>a. \A i \in 0..n : h[i] = IF i = 0 THEN 0 ELSE h[i - 1] + d[i].val + 1
  <2> DEFINE Round(f, i) == IF i = 0 THEN 0 ELSE f[i - 1] + d[i].val + 1
  <2>1. h = [i \in 0..n |-> Round(h, i)]
    BY <1>7
  <2> HIDE DEF Round
  <2>2. \A i \in 0..n : h[i] = Round(h, i)
    BY <2>1, Zenon
  <2> QED BY <2>2 DEF Round
<1> DEFINE S == {m \in Nat : m <= n => h[m] \in Nat}
<1>9. 0 \in S
  <2>1. h[0] = 0
    BY <1>1, <1>7
  <2> QED BY <2>1
<1>10. ASSUME NEW m \in Nat, m \in S PROVE m + 1 \in S
  <2> SUFFICES ASSUME m + 1 <= n PROVE h[m + 1] \in Nat
    OBVIOUS
  <2>1. h[m] \in Nat /\ m + 1 \in 1..n /\ m + 1 \in 0..n /\ m + 1 # 0 /\ m + 1 - 1 = m
    BY <1>1, <1>10
  <2>2. h[m + 1] = h[m] + d[m + 1].val + 1
    <3>1. h[m + 1] = IF m + 1 = 0 THEN 0 ELSE h[m + 1 - 1] + d[m + 1].val + 1
      BY <1>a, <2>1
    <3> QED BY <2>1, <3>1
  <2> QED BY <1>1, <2>1, <2>2
<1>11. n \in S
  <2> HIDE DEF S
  <2> QED BY <1>1, <1>9, <1>10, Induction
<1> QED BY <1>1, <1>8, <1>11

-----------------------------------------------------------------------------
\* What blocks mean.

\* The function f and the dictionary d associate the same names and values.
Means(f, d) ==
  /\ f = [k \in DOMAIN f |-> f[k]] /\ DOMAIN f \subseteq Keys
  /\ \A k \in Keys : \A v : Has(d, k, v) <=> k \in DOMAIN f /\ v = f[k]

LEMMA MeansUnique ==
  ASSUME NEW f, NEW g, NEW d, Means(f, d), Means(g, d)
  PROVE  f = g
<1>1. f = [k \in DOMAIN f |-> f[k]] /\ g = [k \in DOMAIN g |-> g[k]]
  BY Zenon DEF Means
<1>2. DOMAIN f = DOMAIN g
  BY Zenon DEF Means
<1>3. \A k \in DOMAIN f : f[k] = g[k]
  BY Zenon DEF Means
<1> QED BY <1>1, <1>2, <1>3

\* Of several entries for a name, the last one counts (Meaning); Max picks it.
At(s, W, k) == {i \in W : s[i].key = k}

Within(W, n) == n \in Nat /\ W \subseteq 1..n

LEMMA LastMax ==
  ASSUME NEW n, NEW s, NEW W, Within(W, n), NEW k, NEW v
  PROVE  LastIn(s, W, k, v) <=> At(s, W, k) # {} /\ v = s[Max(At(s, W, k))].val
<1> DEFINE A == At(s, W, k)
<1>1. A \subseteq 1..n /\ \A i : i \in A <=> i \in W /\ s[i].key = k
  BY Zenon DEF At, Within
<1>2. LastIn(s, W, k, v) <=> \E i \in A : s[i].val = v /\ \A j \in A : j <= i
  BY <1>1, Zenon DEF LastIn
<1> HIDE DEF A
<1>3. CASE A = {}
  BY <1>2, <1>3 DEF A
<1>4. CASE A # {}
  <2>1. Max(A) \in A /\ \A y \in A : y <= Max(A)
    BY <1>1, <1>4, MaxIs DEF Within
  <2>2. \A i \in A : (\A j \in A : j <= i) => i = Max(A)
    <3> TAKE i \in A
    <3> HAVE \A j \in A : j <= i
    <3>1. i <= Max(A) /\ Max(A) <= i /\ i \in Nat /\ Max(A) \in Nat
      <4>1. i <= Max(A) /\ Max(A) <= i
        BY <2>1, Zenon
      <4>2. \A y \in A : y \in Nat
        BY <1>1
      <4> QED BY <2>1, <4>1, <4>2, Zenon
    <3> QED BY <3>1
  <2>3. LastIn(s, W, k, v) <=> v = s[Max(A)].val
    BY <1>2, <2>1, <2>2, Zenon
  <2> QED BY <1>4, <2>3 DEF A
<1> QED BY <1>3, <1>4

LEMMA MeaningHas ==
  ASSUME NEW b \in Blocks
  PROVE  /\ Meaning(b) = [k \in DOMAIN Meaning(b) |-> Meaning(b)[k]]
         /\ DOMAIN Meaning(b) \subseteq Keys
         /\ \A k \in Keys : \A v : LastIn(b.items, Walked(b.items), k, v) <=>
                                 k \in DOMAIN Meaning(b) /\ v = Meaning(b)[k]
<1> DEFINE s == b.items
           at(k) == {i \in DOMAIN s : s[i].key = k /\ \A j \in 1..i : s[j] # End}
           A(k) == At(s, Walked(s), k)
           m == [k \in {x \in Keys : at(x) # {}} |-> s[Max(at(k))].val]
<1>1. Meaning(b) = m
  <2>1. b # Missing /\ b # WrongSize
    BY InputAssumption, Zenon
  <2> QED BY <2>1, Zenon DEF Meaning, IsBlock
<1>2. \A k : at(k) = A(k)
  BY Zenon DEF Walked, At
<1>3. Len(s) \in Nat /\ Walked(s) \subseteq 1..Len(s)
  <2>1. s \in Seq(Entry \cup {End})
    BY DEF Blocks
  <2> HIDE DEF s
  <2> QED BY <2>1 DEF Walked
<1> HIDE DEF s
<1>4. \A k, v : LastIn(s, Walked(s), k, v) <=> A(k) # {} /\ v = s[Max(A(k))].val
  <2>1. Within(Walked(s), Len(s))
    BY <1>3, Zenon DEF Within
  <2> QED BY <2>1, LastMax
<1> HIDE DEF A, at
<1>5. DOMAIN m = {x \in Keys : at(x) # {}} /\ \A k \in DOMAIN m : m[k] = s[Max(at(k))].val
  OBVIOUS
<1>6. m = [k \in DOMAIN m |-> m[k]] /\ DOMAIN m \subseteq Keys
  OBVIOUS
<1> HIDE DEF m
<1>7. ASSUME NEW k \in Keys, NEW v
      PROVE  LastIn(s, Walked(s), k, v) <=> k \in DOMAIN m /\ v = m[k]
  <2>1. at(k) = A(k)
    BY <1>2
  <2>2. k \in DOMAIN m <=> A(k) # {}
    BY <1>5, <2>1
  <2>3. k \in DOMAIN m => m[k] = s[Max(A(k))].val
    BY <1>5, <2>1
  <2> QED BY <1>4, <2>2, <2>3, Zenon
<1> QED BY <1>1, <1>6, <1>7 DEF s

\* parse_env reads what the block means.
LEMMA ParseMeans ==
  ASSUME NEW b \in Blocks
  PROVE  parse_env(b) \in Dict /\ Means(Meaning(b), parse_env(b))
<1>1. Means(Meaning(b), parse_env(b))
  BY MeaningHas, ParseHas, Zenon DEF Means
<1> QED BY <1>1, ParseHas

\* serialize_env writes what the dictionary means, and what it writes passes
\* verify_block.
LEMMA PackMeans ==
  ASSUME NEW d \in Dict, Fits(d), Encodes(d)
  PROVE  /\ Packed(d) \in Blocks
         /\ Means(Meaning(Packed(d)), d)
         /\ verify_block(Packed(d))
<1> DEFINE s == Append(d, End)
           b == [crc |-> TRUE, items |-> s]
<1>1. Packed(d) = b
  <2>1. Payload(d) \in Nat /\ DataSize \in Nat /\ Payload(d) <= DataSize
    BY PayloadNat, MacroAssumption DEF Fits
  <2>2. ~(Payload(d) > DataSize)
    BY <2>1
  <2> QED BY <2>2, Zenon DEF Packed
<1>2. /\ Len(d) \in Nat /\ DOMAIN d = 1..Len(d) /\ d \in Seq(Pair)
      /\ \A i \in DOMAIN d : d[i] \in Pair /\ d[i].key \in Keys /\ d[i].val \in Vals
      /\ \A i, j \in DOMAIN d : d[i].key = d[j].key => i = j
  BY DictFacts, Zenon
<1>3. NoKey \notin Keys /\ End.key = NoKey
  BY InputAssumption DEF End
<1>4. s \in Seq(Entry \cup {End})
  <2>1. Pair \subseteq Entry
    BY DEF Pair, Entry
  <2>2. d \in Seq(Entry \cup {End})
    <3>1. \A i \in 1..Len(d) : d[i] \in Entry \cup {End}
      BY <1>2, <2>1, Zenon
    <3>2. d = [i \in 1..Len(d) |-> d[i]]
      BY <1>2
    <3>3. d \in [1..Len(d) -> Entry \cup {End}]
      BY <3>1, <3>2, Zenon
    <3> QED BY <1>2, <3>3
  <2> QED BY <2>2
<1>5. b \in Blocks /\ b.items = s /\ b.crc
  BY <1>4 DEF Blocks
<1>6. DOMAIN s = 1..(Len(d) + 1) /\ s[Len(d) + 1] = End /\ \A i \in 1..Len(d) : s[i] = d[i]
  BY <1>2
<1> HIDE DEF s, b
<1>7. Walked(s) = 1..Len(d)
  <2>1. \A i \in 1..Len(d) : s[i] # End
    BY <1>2, <1>3, <1>6, Zenon
  <2>2. \A i \in 1..Len(d) : i \in DOMAIN s /\ \A j \in 1..i : j \in 1..Len(d)
    BY <1>2, <1>6
  <2>3. \A i \in DOMAIN s : i \in 1..Len(d) \/ Len(d) + 1 \in 1..i
    BY <1>2, <1>6
  <2> QED BY <1>6, <2>1, <2>2, <2>3, Zenon DEF Walked
<1>8. ASSUME NEW k, NEW v PROVE LastIn(s, Walked(s), k, v) <=> Has(d, k, v)
  <2>1. \A i, j \in 1..Len(d) : s[i].key = s[j].key => j <= i
    BY <1>2, <1>6
  <2>2. LastIn(s, Walked(s), k, v) => Has(d, k, v)
    BY <1>2, <1>6, <1>7, Zenon DEF LastIn, Has
  <2>3. Has(d, k, v) => LastIn(s, Walked(s), k, v)
    <3> HAVE Has(d, k, v)
    <3>1. PICK i \in 1..Len(d) : s[i].key = k /\ s[i].val = v
      BY <1>2, <1>6, Zenon DEF Has
    <3>2. \A j \in 1..Len(d) : s[j].key = k => j <= i
      BY <2>1, <3>1, Zenon
    <3> QED BY <1>7, <3>1, <3>2, Zenon DEF LastIn
  <2> QED BY <2>2, <2>3
<1>9. Means(Meaning(b), d)
  <2>1. /\ Meaning(b) = [k \in DOMAIN Meaning(b) |-> Meaning(b)[k]]
        /\ DOMAIN Meaning(b) \subseteq Keys
        /\ \A k \in Keys : \A v : LastIn(s, Walked(s), k, v) <=>
                                k \in DOMAIN Meaning(b) /\ v = Meaning(b)[k]
    BY <1>5, MeaningHas
  <2> QED BY <1>8, <2>1, Zenon DEF Means
<1>10. verify_block(b)
  <2>1. IsBlock(b)
    BY <1>5, InputAssumption, Zenon DEF IsBlock
  <2>2. \A i \in Walked(s) : s[i].key # NoKey /\ s[i].val \notin Latin
    BY <1>2, <1>3, <1>6, <1>7, Zenon DEF Encodes
  <2> QED BY <1>5, <2>1, <2>2 DEF verify_block
<1> QED BY <1>1, <1>5, <1>9, <1>10

-----------------------------------------------------------------------------
\* The commands compute what the user asked for.

Over(f, g) == [k \in DOMAIN f \cup DOMAIN g |-> IF k \in DOMAIN g THEN g[k] ELSE f[k]]

\* cmd_modify.
LEMMA ModifyMeans ==
  ASSUME NEW j, j.cmd = "modify", j.was \in Blocks, j.args \in Seq(Pair)
  PROVE  Means(Asked(j), PutAll(parse_env(j.was), j.args))
<1> DEFINE a == j.args
           old == Meaning(j.was)
           d == parse_env(j.was)
           given == [k \in {a[i].key : i \in DOMAIN a} |->
                       a[Max({i \in DOMAIN a : a[i].key = k})].val]
<1>1. Asked(j) = Over(old, given)
  BY Zenon DEF Asked, Over
<1>2. d \in Dict /\ Means(old, d)
  BY ParseMeans
<1>3. a \in Seq(Pair) /\ Len(a) \in Nat /\ DOMAIN a = 1..Len(a)
  OBVIOUS
<1>4. \A i \in DOMAIN a : a[i].key \in Keys
  <2>1. \A e \in Pair : e.key \in Keys
    BY DEF Pair
  <2>2. \A i \in DOMAIN a : a[i] \in Pair
    <3> HIDE DEF a
    <3> QED BY <1>3
  <2> QED BY <2>1, <2>2, Zenon
<1>5. given = [k \in {a[i].key : i \in DOMAIN a} |-> a[Max(At(a, DOMAIN a, k))].val]
  BY Zenon DEF At
<1> HIDE DEF a, old, d, given
<1>6. /\ DOMAIN given = {a[i].key : i \in DOMAIN a}
      /\ \A k \in DOMAIN given : given[k] = a[Max(At(a, DOMAIN a, k))].val
  BY <1>5
<1>7. \A k, v : LastIn(a, DOMAIN a, k, v) <=> k \in DOMAIN given /\ v = given[k]
  <2>1. \A k, v : LastIn(a, DOMAIN a, k, v) <=>
                    At(a, DOMAIN a, k) # {} /\ v = a[Max(At(a, DOMAIN a, k))].val
    <3>1. Within(DOMAIN a, Len(a))
      BY <1>3 DEF Within
    <3> QED BY <3>1, LastMax
  <2>2. \A k : At(a, DOMAIN a, k) # {} <=> k \in DOMAIN given
    BY <1>6 DEF At
  <2> QED BY <1>6, <2>1, <2>2, Zenon
<1>8. \A k, v : Has(PutAll(d, a), k, v) <=>
        \/ LastIn(a, DOMAIN a, k, v)
        \/ Has(d, k, v) /\ \A i \in DOMAIN a : a[i].key # k
  BY <1>2, <1>3, PutAllHas
<1>9. \A k : (\A i \in DOMAIN a : a[i].key # k) <=> k \notin DOMAIN given
  BY <1>6
<1> DEFINE o == Over(old, given)
<1>10. /\ DOMAIN o = DOMAIN old \cup DOMAIN given /\ o = [k \in DOMAIN o |-> o[k]]
       /\ \A k \in DOMAIN o : o[k] = IF k \in DOMAIN given THEN given[k] ELSE old[k]
  BY DEF Over
<1>11. DOMAIN o \subseteq Keys
  <2>1. DOMAIN old \subseteq Keys
    BY <1>2, Zenon DEF Means
  <2> QED BY <1>4, <1>6, <1>10, <2>1
<1> HIDE DEF o
<1>12. ASSUME NEW k \in Keys, NEW v
       PROVE  Has(PutAll(d, a), k, v) <=> k \in DOMAIN o /\ v = o[k]
  <2>1. Has(d, k, v) <=> k \in DOMAIN old /\ v = old[k]
    BY <1>2, Zenon DEF Means
  <2>2. CASE k \in DOMAIN given
    BY <1>7, <1>8, <1>9, <1>10, <2>2, Zenon
  <2>3. CASE k \notin DOMAIN given
    <3>1. k \in DOMAIN o <=> k \in DOMAIN old
      BY <1>10, <2>3, Zenon
    <3>2. k \in DOMAIN o => o[k] = old[k]
      BY <1>10, <2>3, Zenon
    <3>3. Has(PutAll(d, a), k, v) <=> Has(d, k, v)
      BY <1>7, <1>8, <1>9, <2>3, Zenon
    <3> QED BY <2>1, <3>1, <3>2, <3>3, Zenon
  <2> QED BY <2>2, <2>3
<1>13. Means(o, PutAll(d, a))
  BY <1>10, <1>11, <1>12, Zenon DEF Means
<1> QED BY <1>1, <1>13 DEF o, a, d

\* cmd_delete.
LEMMA DeleteMeans ==
  ASSUME NEW j, j.cmd = "delete", j.was \in Blocks, j.args \in Seq(Keys)
  PROVE  Means(Asked(j), PopAll(parse_env(j.was), j.args))
<1> DEFINE a == j.args
           old == Meaning(j.was)
           d == parse_env(j.was)
           o == [k \in DOMAIN old \ {a[i] : i \in DOMAIN a} |-> old[k]]
<1>1. Asked(j) = o
  <2>1. j.cmd # "modify" /\ j.cmd # "preset"
    OBVIOUS
  <2> QED BY <2>1, Zenon DEF Asked
<1>2. d \in Dict /\ Means(old, d)
  BY ParseMeans
<1>3. \A k, v : Has(PopAll(d, a), k, v) <=> Has(d, k, v) /\ \A i \in DOMAIN a : a[i] # k
  BY <1>2, PopAllHas
<1> HIDE DEF a, old, d
<1>4. /\ DOMAIN o = DOMAIN old \ {a[i] : i \in DOMAIN a} /\ o = [k \in DOMAIN o |-> o[k]]
      /\ \A k \in DOMAIN o : o[k] = old[k]
  OBVIOUS
<1> HIDE DEF o
<1>5. DOMAIN o \subseteq Keys
  <2>1. DOMAIN old \subseteq Keys
    BY <1>2, Zenon DEF Means
  <2> QED BY <1>4, <2>1
<1>6. ASSUME NEW k \in Keys, NEW v
      PROVE  Has(PopAll(d, a), k, v) <=> k \in DOMAIN o /\ v = o[k]
  <2>1. Has(d, k, v) <=> k \in DOMAIN old /\ v = old[k]
    BY <1>2, Zenon DEF Means
  <2>2. k \in DOMAIN o <=> k \in DOMAIN old /\ \A i \in DOMAIN a : a[i] # k
    BY <1>4
  <2> QED BY <1>3, <1>4, <2>1, <2>2, Zenon
<1>7. Means(o, PopAll(d, a))
  BY <1>4, <1>5, <1>6, Zenon DEF Means
<1> QED BY <1>1, <1>7 DEF a, d

SlotKeys == {"slotaboot", "slotbboot", "bootcmd_ab"}

\* The three composed entries are pairs with three different names.
LEMMA SlotsFacts ==
  /\ Slots \in Seq(Pair)
  /\ \A k, v : LastIn(Slots, DOMAIN Slots, k, v) <=> k \in SlotKeys /\ v = Macro[k]
  /\ \A k : (\A i \in DOMAIN Slots : Slots[i].key # k) <=> k \notin SlotKeys
<1> DEFINE n(i) == <<"slotaboot", "slotbboot", "bootcmd_ab">>[i]
<1>1. /\ DOMAIN Slots = 1..3
      /\ \A i \in 1..3 : Slots[i] = [key |-> n(i), val |-> Macro[n(i)]]
      /\ Slots = [i \in 1..3 |-> Slots[i]]
  BY DEF Slots
<1>2. n(1) = "slotaboot" /\ n(2) = "slotbboot" /\ n(3) = "bootcmd_ab"
  OBVIOUS
<1>3. \A i \in 1..3 : i = 1 \/ i = 2 \/ i = 3
  OBVIOUS
<1>4. \A i, j \in 1..3 : n(i) = n(j) => i = j
  BY <1>2, <1>3
<1>5. \A i \in 1..3 : n(i) \in SlotKeys
  BY <1>2, <1>3, Zenon DEF SlotKeys
<1>6. \A k \in SlotKeys : \E i \in 1..3 : n(i) = k
  <2>1. 1 \in 1..3 /\ 2 \in 1..3 /\ 3 \in 1..3
    OBVIOUS
  <2> QED BY <1>2, <2>1, Zenon DEF SlotKeys
<1> HIDE DEF n
<1>7. \A k \in SlotKeys : k \in Keys /\ Macro[k] \in Vals
  BY MacroAssumption DEF SlotKeys
<1>8. \A i \in 1..3 : Slots[i].key = n(i) /\ Slots[i].val = Macro[n(i)] /\ Slots[i] \in Pair
  BY <1>1, <1>5, <1>7 DEF Pair
<1>9. Slots \in Seq(Pair)
  <2>1. Slots \in [1..3 -> Pair]
    BY <1>1, <1>8, Zenon
  <2> DEFINE m == 3
  <2>2. m \in Nat /\ Slots \in [1..m -> Pair]
    BY <2>1
  <2> HIDE DEF m
  <2> QED BY <2>2
<1>10. ASSUME NEW k, NEW v
       PROVE  LastIn(Slots, DOMAIN Slots, k, v) <=> k \in SlotKeys /\ v = Macro[k]
  <2>1. ASSUME k \in SlotKeys, v = Macro[k] PROVE LastIn(Slots, DOMAIN Slots, k, v)
    <3>1. PICK i \in 1..3 : n(i) = k
      BY <1>6, <2>1, Zenon
    <3>2. \A x \in 1..3 : n(x) = k => x <= i
      BY <1>4, <3>1
    <3> QED BY <1>1, <1>8, <2>1, <3>1, <3>2, Zenon DEF LastIn
  <2>2. ASSUME LastIn(Slots, DOMAIN Slots, k, v) PROVE k \in SlotKeys /\ v = Macro[k]
    BY <1>1, <1>5, <1>8, <2>2, Zenon DEF LastIn
  <2> QED BY <2>1, <2>2, Zenon
<1>11. ASSUME NEW k PROVE (\A i \in DOMAIN Slots : Slots[i].key # k) <=> k \notin SlotKeys
  <2>1. (\A i \in DOMAIN Slots : Slots[i].key # k) <=> \A i \in 1..3 : n(i) # k
    BY <1>1, <1>8
  <2> QED BY <1>5, <1>6, <2>1, Zenon
<1> QED BY <1>9, <1>10, <1>11, Zenon

\* The preset gives the three names their texts, the slot a default unless it
\* has a value, and leaves the rest alone.
LEMMA PresetHas ==
  ASSUME NEW d \in Dict
  PROVE  /\ Preset(d) \in Dict
         /\ \A k, v : Has(Preset(d), k, v) <=>
              \/ k \in SlotKeys /\ v = Macro[k]
              \/ k \notin SlotKeys /\ Has(d, k, v)
              \/ k = "slot" /\ v = Macro[k] /\ \A w : ~Has(d, "slot", w)
<1> DEFINE new == PutAll(d, Slots)
           e == [key |-> "slot", val |-> Macro["slot"]]
<1>1. /\ new \in Dict
      /\ \A k, v : Has(new, k, v) <=> \/ k \in SlotKeys /\ v = Macro[k]
                                      \/ Has(d, k, v) /\ k \notin SlotKeys
  <2>1. /\ new \in Dict
        /\ \A k, v : Has(new, k, v) <=>
             \/ LastIn(Slots, DOMAIN Slots, k, v)
             \/ Has(d, k, v) /\ \A i \in DOMAIN Slots : Slots[i].key # k
    BY SlotsFacts, PutAllHas
  <2> QED BY <2>1, SlotsFacts, Zenon
<1>2. e \in Pair /\ e.key = "slot" /\ e.val = Macro["slot"]
  BY MacroAssumption DEF Pair
<1>3. "slot" \notin SlotKeys
  BY DEF SlotKeys
<1>4. (\E i \in DOMAIN new : new[i].key = "slot") <=> \E w : Has(d, "slot", w)
  <2>1. (\E i \in DOMAIN new : new[i].key = "slot") <=> \E w : Has(new, "slot", w)
    <3> HIDE DEF new
    <3> QED BY Zenon DEF Has
  <2> HIDE DEF new
  <2> QED BY <1>1, <1>3, <2>1, Zenon
<1>5. Preset(d) = IF \E i \in DOMAIN new : new[i].key = "slot" THEN new ELSE Append(new, e)
  BY Zenon DEF Preset
<1> HIDE DEF new, e
<1>6. CASE \E w : Has(d, "slot", w)
  <2>1. Preset(d) = new
    BY <1>4, <1>5, <1>6, Zenon
  <2> QED BY <1>1, <1>6, <2>1, Zenon
<1>7. CASE ~ \E w : Has(d, "slot", w)
  <2>1. Preset(d) = Put(new, e)
    <3>1. ~ \E i \in DOMAIN new : new[i].key = e.key
      BY <1>2, <1>4, <1>7, Zenon
    <3> QED BY <1>4, <1>5, <1>7, <3>1, Zenon DEF Put
  <2>2. /\ Put(new, e) \in Dict
        /\ \A k, v : Has(Put(new, e), k, v) <=> IF k = e.key THEN v = e.val ELSE Has(new, k, v)
    BY <1>1, <1>2, PutHas
  <2> QED BY <1>1, <1>2, <1>3, <1>7, <2>1, <2>2, Zenon
<1> QED BY <1>6, <1>7

\* cmd_preset_symmetric.
LEMMA PresetMeans ==
  ASSUME NEW j, j.cmd = "preset", NEW d \in Dict, Means(Meaning(j.was), d)
  PROVE  Means(Asked(j), Preset(d))
<1> DEFINE old == Meaning(j.was)
           slots == [k \in DOMAIN Macro \ (DOMAIN old \cap {"slot"}) |-> Macro[k]]
           o == Over(old, slots)
<1>1. Asked(j) = o
  <2>1. j.cmd # "modify"
    OBVIOUS
  <2> QED BY <2>1, Zenon DEF Asked, Over
<1> HIDE DEF old
<1>2. Means(old, d)
  BY DEF old
<1>3. /\ DOMAIN slots = DOMAIN Macro \ (DOMAIN old \cap {"slot"})
      /\ \A k \in DOMAIN slots : slots[k] = Macro[k]
  OBVIOUS
<1> HIDE DEF slots
<1>4. /\ DOMAIN o = DOMAIN old \cup DOMAIN slots /\ o = [k \in DOMAIN o |-> o[k]]
      /\ \A k \in DOMAIN o : o[k] = IF k \in DOMAIN slots THEN slots[k] ELSE old[k]
  BY DEF Over
<1> HIDE DEF o
<1>5. DOMAIN Macro = SlotKeys \cup {"slot"} /\ DOMAIN Macro \subseteq Keys /\ "slot" \notin SlotKeys
  BY MacroAssumption DEF SlotKeys
<1>6. DOMAIN old \subseteq Keys
  BY <1>2, Zenon DEF Means
<1>7. DOMAIN o \subseteq Keys
  BY <1>3, <1>4, <1>5, <1>6
<1>8. (\E w : Has(d, "slot", w)) <=> "slot" \in DOMAIN old
  <2>1. "slot" \in Keys
    BY <1>5
  <2> QED BY <1>2, <2>1, Zenon DEF Means
<1>9. ASSUME NEW k \in Keys, NEW v
      PROVE  Has(Preset(d), k, v) <=> k \in DOMAIN o /\ v = o[k]
  <2>1. Has(d, k, v) <=> k \in DOMAIN old /\ v = old[k]
    BY <1>2, Zenon DEF Means
  <2>2. Has(Preset(d), k, v) <=>
          \/ k \in SlotKeys /\ v = Macro[k]
          \/ k \notin SlotKeys /\ Has(d, k, v)
          \/ k = "slot" /\ v = Macro[k] /\ "slot" \notin DOMAIN old
    BY <1>8, PresetHas, Zenon
  <2>3. k \in DOMAIN slots <=> k \in SlotKeys \/ (k = "slot" /\ "slot" \notin DOMAIN old)
    BY <1>3, <1>5
  <2>4. k \in DOMAIN slots => k \in DOMAIN o /\ o[k] = Macro[k]
    BY <1>3, <1>4
  <2>5. k \notin DOMAIN slots => (k \in DOMAIN o <=> k \in DOMAIN old)
                                 /\ (k \in DOMAIN o => o[k] = old[k])
    BY <1>4
  <2>6. CASE k \in DOMAIN slots
    BY <1>5, <2>1, <2>2, <2>3, <2>4, <2>6, Zenon
  <2>7. CASE k \notin DOMAIN slots
    BY <1>5, <2>1, <2>2, <2>3, <2>5, <2>7, Zenon
  <2> QED BY <2>6, <2>7
<1>10. Means(o, Preset(d))
  BY <1>4, <1>7, <1>9, Zenon DEF Means
<1> QED BY <1>1, <1>10

-----------------------------------------------------------------------------
\* The inductive invariant: what the command between open and write is about
\* to leave behind is a block that means what was asked for.

Ready(j) ==
  /\ j.cmd \in {"modify", "delete", "preset", "read"}
  /\ j.dst \in Paths /\ j.block \in Blocks
  /\ Meaning(j.block) = Asked(j)
  /\ IF j.cmd = "read" THEN j.block \in Panel ELSE verify_block(j.block)

JobReady == pc = "write" => Ready(job)

\* The destination is open and empty, the other files are what they were when the
\* command started.
OthersKept ==
  pc = "write" => \A p \in Paths : file[p] = IF p = job.dst THEN WrongSize ELSE held[p]

IInv == TypeOK /\ JobReady /\ OthersKept /\ FailureKeeps

\* A command returns and leaves the files alone, or opens its destination with
\* its block ready.
Returns == \E n \in {0, 1, 2, 255} : Return(n)

Opens == \E j : Open(j) /\ Ready(j)

LEMMA SaveStep ==
  ASSUME NEW cmd \in {"modify", "delete", "preset"}, NEW src, NEW dst \in Paths, NEW args,
         NEW d \in Dict, Save(cmd, src, dst, args, d),
         NEW j, j = [cmd |-> cmd, dst |-> dst, was |-> file[src], args |-> args,
                     block |-> Packed(d)],
         Means(Asked(j), d)
  PROVE  Returns \/ Opens
<1>1. CASE Encodes(d) /\ Fits(d)
  <2>1. Open(j)
    BY <1>1, Zenon DEF Save
  <2>2. j.cmd = cmd /\ j.dst = dst /\ j.block = Packed(d)
    OBVIOUS
  <2>3. Packed(d) \in Blocks /\ Means(Meaning(Packed(d)), d) /\ verify_block(Packed(d))
    BY <1>1, PackMeans
  <2>4. Meaning(Packed(d)) = Asked(j)
    BY <2>3, MeansUnique
  <2>5. Ready(j)
    <3>1. j.cmd # "read"
      BY <2>2
    <3> QED BY <2>2, <2>3, <2>4, <3>1, Zenon DEF Ready
  <2> QED BY <2>1, <2>5, Zenon DEF Opens
<1>2. CASE ~(Encodes(d) /\ Fits(d))
  <2>1. Return(1)
    BY <1>2, Zenon DEF Save
  <2> QED BY <2>1, Zenon DEF Returns
<1> QED BY <1>1, <1>2

\* What a file holds, and a loadable one.
LEMMA FileKinds ==
  ASSUME TypeOK, NEW p \in Paths
  PROVE  /\ file[p] \in Blocks \cup {Missing, WrongSize}
         /\ IsBlock(file[p]) => file[p] \in Blocks
<1>1. file \in [Paths -> Blocks \cup {Missing, WrongSize}]
  BY Zenon DEF TypeOK
<1>2. file[p] \in Blocks \cup {Missing, WrongSize}
  BY <1>1
<1> QED BY <1>2, Zenon DEF IsBlock

LEMMA ModifyStep ==
  ASSUME TypeOK, NEW src \in Paths, NEW dst \in Paths, NEW kvs \in ArgLists,
         cmd_modify(src, dst, kvs)
  PROVE  Starts /\ (Returns \/ Opens)
<1>1. Starts
  BY Zenon DEF cmd_modify
<1>2. CASE Return(1) \/ Return(2)
  BY <1>1, <1>2, Zenon DEF Returns
<1>3. CASE /\ IsBlock(file[src])
           /\ \A i \in DOMAIN kvs : kvs[i].key # NoKey
           /\ Save("modify", src, dst, kvs, PutAll(parse_env(file[src]), kvs))
  <2> DEFINE d == PutAll(parse_env(file[src]), kvs)
             j == [cmd |-> "modify", dst |-> dst, was |-> file[src], args |-> kvs,
                   block |-> Packed(d)]
  <2>1. file[src] \in Blocks
    BY <1>3, FileKinds, Zenon
  <2>2. kvs \in Seq(Pair)
    <3>1. kvs \in Seq(Entry)
      BY InputAssumption, Zenon
    <3>2. Len(kvs) \in Nat /\ DOMAIN kvs = 1..Len(kvs) /\ \A i \in 1..Len(kvs) : kvs[i] \in Entry
      BY <3>1
    <3>3. \A e \in Entry : e.key # NoKey => e \in Pair
      BY DEF Entry, Pair
    <3>4. \A i \in 1..Len(kvs) : kvs[i] \in Pair
      BY <1>3, <3>2, <3>3, Zenon
    <3>5. kvs = [i \in 1..Len(kvs) |-> kvs[i]]
      BY <3>1
    <3>6. kvs \in [1..Len(kvs) -> Pair]
      BY <3>4, <3>5, Zenon
    <3> QED BY <3>2, <3>6
  <2>3. parse_env(file[src]) \in Dict
    BY <2>1, ParseMeans
  <2>4. d \in Dict
    BY <2>2, <2>3, PutAllHas
  <2>5. j.cmd = "modify" /\ j.was = file[src] /\ j.args = kvs
    OBVIOUS
  <2>6. Means(Asked(j), d)
    <3> HIDE DEF j
    <3> QED BY <2>1, <2>2, <2>5, ModifyMeans
  <2>7. Save("modify", src, dst, kvs, d)
    BY <1>3, Zenon
  <2> HIDE DEF d
  <2>8. Returns \/ Opens
    BY <2>4, <2>6, <2>7, SaveStep, Zenon
  <2> QED BY <1>1, <2>8
<1> QED BY <1>2, <1>3, Zenon DEF cmd_modify

LEMMA DeleteStep ==
  ASSUME TypeOK, NEW src \in Paths, NEW dst \in Paths, NEW keys \in KeyLists,
         cmd_delete(src, dst, keys)
  PROVE  Starts /\ (Returns \/ Opens)
<1>1. Starts
  BY Zenon DEF cmd_delete
<1>2. CASE Return(1)
  BY <1>1, <1>2, Zenon DEF Returns
<1>3. CASE IsBlock(file[src]) /\ Save("delete", src, dst, keys, PopAll(parse_env(file[src]), keys))
  <2> DEFINE d == PopAll(parse_env(file[src]), keys)
             j == [cmd |-> "delete", dst |-> dst, was |-> file[src], args |-> keys,
                   block |-> Packed(d)]
  <2>1. file[src] \in Blocks
    BY <1>3, FileKinds, Zenon
  <2>2. keys \in Seq(Keys)
    BY InputAssumption, Zenon
  <2>3. parse_env(file[src]) \in Dict
    BY <2>1, ParseMeans
  <2>4. d \in Dict
    BY <2>2, <2>3, PopAllHas
  <2>5. j.cmd = "delete" /\ j.was = file[src] /\ j.args = keys
    OBVIOUS
  <2>6. Means(Asked(j), d)
    <3> HIDE DEF j
    <3> QED BY <2>1, <2>2, <2>5, DeleteMeans
  <2>7. Save("delete", src, dst, keys, d)
    BY <1>3, Zenon
  <2> HIDE DEF d
  <2>8. Returns \/ Opens
    BY <2>4, <2>6, <2>7, SaveStep, Zenon
  <2> QED BY <1>1, <2>8
<1> QED BY <1>2, <1>3, Zenon DEF cmd_delete

LEMMA PresetStep ==
  ASSUME TypeOK, NEW src \in Paths, NEW dst \in Paths, cmd_preset_symmetric(src, dst)
  PROVE  Starts /\ (Returns \/ Opens)
<1> DEFINE was == IF file[src] = Missing THEN <<>> ELSE parse_env(file[src])
<1>1. Starts
  BY Zenon DEF cmd_preset_symmetric
<1>2. CASE Return(1)
  BY <1>1, <1>2, Zenon DEF Returns
<1>3. CASE file[src] # WrongSize /\ Save("preset", src, dst, <<>>, Preset(was))
  <2> DEFINE d == Preset(was)
             j == [cmd |-> "preset", dst |-> dst, was |-> file[src], args |-> <<>>,
                   block |-> Packed(d)]
  <2>1. was \in Dict /\ Means(Meaning(file[src]), was)
    <3>1. CASE file[src] = Missing
      <4>1. Meaning(file[src]) = <<>>
        BY <3>1, Zenon DEF Meaning, IsBlock
      <4>2. DOMAIN <<>> = {} /\ <<>> = [k \in DOMAIN <<>> |-> <<>>[k]]
        OBVIOUS
      <4>3. Means(<<>>, <<>>)
        BY <4>2, EmptyDict, Zenon DEF Means
      <4> QED BY <3>1, <4>1, <4>3, EmptyDict
    <3>2. CASE file[src] # Missing
      <4>1. file[src] \in Blocks
        BY <1>3, <3>2, FileKinds, Zenon DEF IsBlock
      <4> QED BY <3>2, <4>1, ParseMeans
    <3> QED BY <3>1, <3>2
  <2> HIDE DEF was
  <2>2. d \in Dict
    BY <2>1, PresetHas
  <2>3. j.cmd = "preset" /\ j.was = file[src]
    OBVIOUS
  <2>4. Means(Asked(j), d)
    <3> HIDE DEF j
    <3> QED BY <2>1, <2>3, PresetMeans
  <2>5. Save("preset", src, dst, <<>>, d)
    BY <1>3, Zenon
  <2> HIDE DEF d
  <2>6. Returns \/ Opens
    BY <2>2, <2>4, <2>5, SaveStep, Zenon
  <2> QED BY <1>1, <2>6
<1> QED BY <1>2, <1>3, Zenon DEF cmd_preset_symmetric

LEMMA ReadStep ==
  ASSUME NEW dst \in Paths, cmd_read(dst)
  PROVE  Starts /\ (Returns \/ Opens)
<1>1. Starts
  BY Zenon DEF cmd_read
<1>2. CASE \E n \in {1, 255} : Return(n)
  BY <1>1, <1>2, Zenon DEF Returns
<1>3. CASE \E b \in Panel : Open([NoJob EXCEPT !.cmd = "read", !.dst = dst, !.block = b])
  <2>1. PICK b \in Panel : Open([NoJob EXCEPT !.cmd = "read", !.dst = dst, !.block = b])
    BY <1>3
  <2> DEFINE j == [NoJob EXCEPT !.cmd = "read", !.dst = dst, !.block = b]
  <2>2. j.cmd = "read" /\ j.dst = dst /\ j.block = b
    BY DEF NoJob
  <2> HIDE DEF j
  <2>3. b \in Blocks
    BY InputAssumption, Zenon
  <2>4. Asked(j) = Meaning(j.block)
    <3>1. j.cmd # "modify" /\ j.cmd # "preset" /\ j.cmd # "delete"
      BY <2>2
    <3> QED BY <3>1, Zenon DEF Asked
  <2>5. Ready(j)
    BY <2>2, <2>3, <2>4, Zenon DEF Ready
  <2>6. Opens
    BY <2>1, <2>5, Zenon DEF Opens, j
  <2> QED BY <1>1, <2>6
<1> QED BY <1>2, <1>3, Zenon DEF cmd_read

\* Every step that is not of the write is of one of the two kinds.
LEMMA CommandStep ==
  ASSUME TypeOK, Next
  PROVE  (Starts /\ (Returns \/ Opens)) \/ Write \/ Kill
<1>1. ASSUME NEW p \in Paths, cmd_show(p) \/ cmd_verify(p)
      PROVE  Starts /\ (Returns \/ Opens)
  BY <1>1, Zenon DEF cmd_show, cmd_verify, Returns
<1> QED BY <1>1, ModifyStep, DeleteStep, PresetStep, ReadStep, Zenon DEF Next

-----------------------------------------------------------------------------
\* Induction over the behaviour.

LEMMA InitIInv == Init => IInv
<1> SUFFICES ASSUME Init PROVE IInv
  OBVIOUS
<1>1. /\ file \in [Paths -> Panel \cup {Missing}]
      /\ pc = "idle" /\ job = NoJob /\ rc = 0 /\ cmds = 0 /\ kills = 0 /\ held = file
  BY Zenon DEF Init
<1>2. Panel \subseteq Blocks /\ Missing # WrongSize /\ WrongSize \notin Blocks
      /\ MaxCmds \in Nat /\ MaxKills \in Nat
  BY InputAssumption
<1>3. \A p \in Paths : file[p] \in Blocks \cup {Missing, WrongSize} /\ file[p] # WrongSize
  BY <1>1, <1>2
<1>4. pc # "write" /\ NoJob.cmd = "none"
  BY <1>1 DEF NoJob
<1>5. TypeOK
  <2>1. file \in [Paths -> Blocks \cup {Missing, WrongSize}]
    BY <1>1, <1>3
  <2>2. cmds \in 0..MaxCmds /\ kills \in 0..MaxKills
    BY <1>1, <1>2
  <2> QED BY <1>1, <1>4, <2>1, <2>2, Zenon DEF TypeOK
<1>6. rc = 0
  BY <1>1
<1> QED BY <1>4, <1>5, <1>6, Zenon DEF IInv, JobReady, OthersKept, FailureKeeps

\* The parts of TypeOK, and what the next state's follow from.
LEMMA TypeParts ==
  ASSUME TypeOK
  PROVE  /\ file \in [Paths -> Blocks \cup {Missing, WrongSize}]
         /\ held \in [Paths -> Blocks \cup {Missing, WrongSize}]
         /\ pc \in {"idle", "write"} /\ rc \in {0, 1, 2, 137, 255}
         /\ cmds \in 0..MaxCmds /\ kills \in 0..MaxKills
         /\ MaxCmds \in Nat /\ MaxKills \in Nat
  BY InputAssumption, Zenon DEF TypeOK

LEMMA OpenIInv ==
  ASSUME IInv, Starts, Opens
  PROVE  IInv'
<1>1. PICK j : Open(j) /\ Ready(j)
  BY Zenon DEF Opens
<1>2. /\ job' = j /\ file' = [file EXCEPT ![j.dst] = WrongSize]
      /\ pc' = "write" /\ rc' = rc
  BY <1>1, Zenon DEF Open
<1>3. /\ pc = "idle" /\ cmds < MaxCmds /\ cmds' = cmds + 1 /\ kills' = kills
      /\ held' = file
  BY Zenon DEF Starts
<1>4. /\ file \in [Paths -> Blocks \cup {Missing, WrongSize}]
      /\ rc \in {0, 1, 2, 137, 255} /\ cmds \in 0..MaxCmds /\ kills \in 0..MaxKills
      /\ MaxCmds \in Nat
  BY TypeParts, Zenon DEF IInv
<1>5. j.dst \in Paths /\ j.cmd \in {"modify", "delete", "preset", "read"} /\ j.block \in Blocks
  BY <1>1, Zenon DEF Ready
<1>6. file' \in [Paths -> Blocks \cup {Missing, WrongSize}]
  BY <1>2, <1>4
<1>7. cmds' \in 0..MaxCmds
  BY <1>3, <1>4
<1>9. TypeOK'
  BY <1>2, <1>3, <1>4, <1>5, <1>6, <1>7, Zenon DEF TypeOK
<1>10. JobReady'
  <2>1. Ready(job')
    BY <1>1, <1>2, Zenon
  <2> QED BY <2>1 DEF JobReady, Ready, Asked, Meaning, verify_block
<1>11. OthersKept'
  <2>1. \A p \in Paths : file'[p] = IF p = j.dst THEN WrongSize ELSE file[p]
    BY <1>2, <1>4
  <2> QED BY <1>2, <1>3, <2>1 DEF OthersKept
<1>12. FailureKeeps'
  <2>1. pc' # "idle"
    BY <1>2
  <2> QED BY <2>1, Zenon DEF FailureKeeps
<1> QED BY <1>9, <1>10, <1>11, <1>12 DEF IInv

LEMMA ReturnIInv ==
  ASSUME IInv, Starts, Returns
  PROVE  IInv'
<1>1. PICK n \in {0, 1, 2, 255} : Return(n)
  BY Zenon DEF Returns
<1>2. rc' = n /\ job' = NoJob /\ file' = file /\ pc' = pc
  BY <1>1, Zenon DEF Return
<1>3. /\ pc = "idle" /\ cmds < MaxCmds /\ cmds' = cmds + 1 /\ kills' = kills
      /\ held' = file
  BY Zenon DEF Starts
<1>4. /\ file \in [Paths -> Blocks \cup {Missing, WrongSize}]
      /\ cmds \in 0..MaxCmds /\ kills \in 0..MaxKills /\ MaxCmds \in Nat
  BY TypeParts, Zenon DEF IInv
<1>5. /\ cmds' \in 0..MaxCmds /\ pc' # "write" /\ NoJob.cmd = "none" /\ pc' = "idle"
      /\ rc' \in {0, 1, 2, 137, 255}
  BY <1>2, <1>3, <1>4 DEF NoJob
<1>6. TypeOK'
  BY <1>2, <1>3, <1>4, <1>5, Zenon DEF TypeOK
<1>7. JobReady' /\ OthersKept'
  BY <1>5, Zenon DEF JobReady, OthersKept
<1>8. FailureKeeps'
  <2>1. \A p \in Paths : file'[p] = held'[p]
    BY <1>2, <1>3
  <2> QED BY <2>1, Zenon DEF FailureKeeps
<1> QED BY <1>6, <1>7, <1>8 DEF IInv

LEMMA WriteIInv ==
  ASSUME IInv, Write
  PROVE  IInv'
<1>1. /\ pc = "write" /\ file' = [file EXCEPT ![job.dst] = job.block]
      /\ pc' = "idle" /\ job' = NoJob /\ cmds' = cmds /\ kills' = kills /\ held' = held
  BY Zenon DEF Write
<1>2. rc' = IF job.cmd = "read" /\ ~verify_block(job.block) THEN 2 ELSE 0
  BY Zenon DEF Write
<1>a. rc' \in {0, 1, 2, 137, 255}
  BY <1>2
<1>3. /\ job.dst \in Paths /\ job.block \in Blocks
      /\ job.cmd = "read" => job.block \in Panel
  BY <1>1, Zenon DEF IInv, JobReady, Ready
<1>4. /\ file \in [Paths -> Blocks \cup {Missing, WrongSize}]
      /\ held \in [Paths -> Blocks \cup {Missing, WrongSize}]
      /\ cmds \in 0..MaxCmds /\ kills \in 0..MaxKills
  BY TypeParts, Zenon DEF IInv
<1>5. file' \in [Paths -> Blocks \cup {Missing, WrongSize}]
  BY <1>1, <1>3, <1>4
<1>6. pc' # "write" /\ NoJob.cmd = "none"
  BY <1>1 DEF NoJob
<1>7. TypeOK'
  BY <1>a, <1>1, <1>4, <1>5, <1>6, Zenon DEF TypeOK
<1>8. JobReady' /\ OthersKept'
  BY <1>6, Zenon DEF JobReady, OthersKept
<1>9. FailureKeeps'
  <2>1. CASE rc' = 0
    BY <2>1, Zenon DEF FailureKeeps
  <2>2. CASE job.cmd = "read" /\ ~verify_block(job.block)
    <3>1. rc' = 2 /\ job.block \in Panel
      BY <1>2, <1>3, <2>2
    <3>2. ASSUME NEW p \in Paths, file'[p] # held'[p]
          PROVE  file'[p] = job.block
      <4>1. CASE p = job.dst
        BY <1>1, <1>4, <4>1
      <4>2. CASE p # job.dst
        <5>1. file[p] = held[p]
          BY <1>1, <4>2, Zenon DEF IInv, OthersKept
        <5> QED BY <1>1, <1>4, <3>2, <4>2, <5>1
      <4> QED BY <4>1, <4>2
    <3>3. \A p \in Paths : file'[p] = held'[p] \/ file'[p] = job.block
      BY <3>2
    <3> QED BY <2>2, <3>1, <3>3 DEF FailureKeeps, verify_block, Walked, IsBlock
  <2> QED BY <1>2, <2>1, <2>2
<1> QED BY <1>7, <1>8, <1>9 DEF IInv

LEMMA KillIInv ==
  ASSUME IInv, Kill
  PROVE  IInv'
<1>1. /\ kills < MaxKills /\ kills' = kills + 1 /\ pc = "write"
      /\ pc' = "idle" /\ job' = NoJob /\ rc' \in {1, 137} /\ file' = file /\ cmds' = cmds
      /\ held' = held
  BY Zenon DEF Kill
<1>2. /\ file \in [Paths -> Blocks \cup {Missing, WrongSize}]
      /\ held \in [Paths -> Blocks \cup {Missing, WrongSize}]
      /\ cmds \in 0..MaxCmds /\ kills \in 0..MaxKills /\ MaxKills \in Nat
  BY TypeParts, Zenon DEF IInv
<1>3. kills' \in 0..MaxKills /\ kills' > 0 /\ rc' \in {0, 1, 2, 137, 255}
  BY <1>1, <1>2
<1>4. pc' # "write" /\ NoJob.cmd = "none"
  BY <1>1 DEF NoJob
<1>5. TypeOK'
  BY <1>1, <1>2, <1>3, <1>4, Zenon DEF TypeOK
<1>6. JobReady' /\ OthersKept'
  BY <1>4, Zenon DEF JobReady, OthersKept
<1>7. FailureKeeps'
  <2>1. \A p \in Paths : file[p] = held[p] \/ file[p] = WrongSize
    <3>1. \A p \in Paths : file[p] = IF p = job.dst THEN WrongSize ELSE held[p]
      BY <1>1, Zenon DEF IInv, OthersKept
    <3> QED BY <3>1
  <2>2. \A p \in Paths : file'[p] = held'[p] \/ file'[p] = WrongSize
    BY <1>1, <2>1
  <2> QED BY <1>1, <1>3, <2>2, Zenon DEF FailureKeeps
<1> QED BY <1>5, <1>6, <1>7 DEF IInv

LEMMA StepIInv == IInv /\ [Next]_vars => IInv'
<1> SUFFICES ASSUME IInv, [Next]_vars PROVE IInv'
  OBVIOUS
<1>1. CASE Next
  <2>1. (Starts /\ (Returns \/ Opens)) \/ Write \/ Kill
    BY <1>1, CommandStep, Zenon DEF IInv
  <2> QED BY <2>1, OpenIInv, ReturnIInv, WriteIInv, KillIInv, Zenon
<1>2. CASE UNCHANGED vars
  <2>1. /\ file' = file /\ pc' = pc /\ job' = job /\ rc' = rc
        /\ held' = held /\ cmds' = cmds /\ kills' = kills
    BY <1>2 DEF vars
  <2>2. TypeOK' /\ OthersKept'
    BY <2>1, Zenon DEF IInv, TypeOK, OthersKept
  <2>3. JobReady'
    <3>1. pc = "write" => Ready(job)
      BY Zenon DEF IInv, JobReady
    <3>2. pc' = "write" => Ready(job')
      BY <2>1, <3>1, Zenon
    <3> QED BY <3>2 DEF JobReady, Ready, Asked, Meaning, verify_block
  <2>4. FailureKeeps'
    BY <2>1 DEF IInv, FailureKeeps, verify_block, Walked, IsBlock
  <2> QED BY <2>2, <2>3, <2>4 DEF IInv
<1> QED BY <1>1, <1>2

LEMMA Invariance == Spec => []IInv
  BY InitIInv, StepIInv, PTL DEF Spec

\* Files, program counter, command and return code keep their kinds, for every
\* number of commands and kills.
THEOREM TypeCorrect == Spec => []TypeOK
<1>1. IInv => TypeOK
  BY DEF IInv
<1> QED BY <1>1, Invariance, PTL

\* A command that fails leaves every file as it was, unless it is a read that
\* wrote a block which does not verify, or was killed while it wrote.
THEOREM FailuresKeep == Spec => []FailureKeeps
<1>1. IInv => FailureKeeps
  BY DEF IInv
<1> QED BY <1>1, Invariance, PTL

\* What an edit leaves behind passes verify_block, whatever was loaded.
THEOREM EditsVerify == Spec => []EditVerifies
<1>1. IInv => EditVerifies
  BY Zenon DEF IInv, JobReady, Ready, EditVerifies
<1> QED BY <1>1, Invariance, PTL

\* Every block that is written means what was loaded, changed as the arguments
\* say and in nothing else (parse_env, the edit loops, serialize_env).
THEOREM EditsMean == Spec => EditMeans
<1> DEFINE A == \A p \in Paths :
                  IsBlock(file'[p]) /\ file'[p] # file[p] => Meaning(file'[p]) = Asked(job)
<1>1. IInv /\ Next => A
  <2> SUFFICES ASSUME IInv, Next, NEW p \in Paths, IsBlock(file'[p]), file'[p] # file[p]
               PROVE  Meaning(file'[p]) = Asked(job)
    BY Zenon
  <2>1. file \in [Paths -> Blocks \cup {Missing, WrongSize}]
    BY TypeParts, Zenon DEF IInv
  <2>2. ~Kill /\ ~Returns
    BY Zenon DEF Kill, Returns, Return
  <2>3. ~Opens
    <3> SUFFICES ASSUME Opens PROVE FALSE
      OBVIOUS
    <3>1. PICK j : file' = [file EXCEPT ![j.dst] = WrongSize]
      BY Zenon DEF Opens, Open
    <3>2. file'[p] = file[p] \/ file'[p] = WrongSize
      BY <2>1, <3>1
    <3> QED BY <3>2, Zenon DEF IsBlock
  <2>4. Write
    BY <2>2, <2>3, CommandStep, Zenon DEF IInv
  <2>5. pc = "write" /\ file' = [file EXCEPT ![job.dst] = job.block]
    BY <2>4, Zenon DEF Write
  <2>6. file'[p] = job.block
    BY <2>1, <2>5
  <2>7. Meaning(job.block) = Asked(job)
    BY <2>5, Zenon DEF IInv, JobReady, Ready
  <2> QED BY <2>6, <2>7, Zenon
<1>2. IInv /\ [Next]_vars => [A]_vars
  <2> HIDE DEF A
  <2> QED BY <1>1, Zenon
<1>3. [][A]_vars => EditMeans
  BY DEF EditMeans
<1> QED BY <1>2, <1>3, Invariance, PTL DEF Spec

=============================================================================
