-------------------------- MODULE CatchUbootProofs --------------------------
(***************************************************************************)
(* Proofs about CatchUboot, for every set of streams FrameAssumption       *)
(* allows, every cutting of them by TCP, every size of the buffers and any *)
(* number of passes.                                                       *)
(***************************************************************************)
EXTENDS CatchUboot, SequenceTheorems, WellFoundedInduction, TLAPS

(***************************************************************************)
(* The inductive invariant, in parts.                                      *)
(***************************************************************************)

\* Received in the current receive call and not yet in rx_buf.
Held == IF pc \in {"drain", "search"} THEN out ELSE <<>>

\* Exactly the first k frames have been taken.
Flow(k) ==
  /\ got \o Held = Data(SubSeq(stream, 1, k))
  /\ buf \o wire = Wire(SubSeq(stream, k + 1, Len(stream)))

\* The handshake has read at most a part of the response, and from then on some
\* number of whole frames is taken and the rest is in the leftover and on the wire.
Receiving ==
  /\ pc = "handshake" =>
       /\ buf \in {<<>>, <<Resp>>} /\ got = <<>> /\ full = TRUE
       /\ buf \o wire = <<Resp, EndResp>> \o Wire(stream)
  /\ pc \notin {"handshake", "raised"} => \E k \in 0..Len(stream) : Flow(k)

\* A receive call that ended for want of bytes left an incomplete frame.
Waits == pc \in {"search", "send", "loop"} /\ ~full => ~Whole(buf)

\* r is the end of g, and no shorter than the trim makes it.
TailOf(r, g) ==
  /\ Len(r) <= Len(g) /\ (Len(r) >= TrimTo \/ Len(r) = Len(g))
  /\ \A i \in 1..Len(r) : r[i] = g[Len(g) - Len(r) + i]

\* rx_buf is the end of what was received, and has been searched.
Searched == TailOf(rx_buf, got) /\ (pc # "caught" => ~Prompt(LastBytes(got, Window)))

\* A pass is begun before the deadline only.
Counted == pc \in {"drain", "search", "send"} => loops < MaxLoops

IInv == TypeOK /\ Receiving /\ Waits /\ Searched /\ Counted

-----------------------------------------------------------------------------
\* Induction and loops.

Lt == {ss \in Nat \X Nat : ss[1] < ss[2]}

\* A nonempty set of numbers has a least one.
LEMMA Least ==
  ASSUME NEW T, T \subseteq Nat, T # {}
  PROVE  \E x \in T : \A y \in T : x <= y
<1>1. IsWellFoundedOn(Lt, Nat)
  BY NatLessThanWellFounded DEF OpToRel, Lt
<1>2. PICK x \in T : \A y \in T : ~(<<y, x>> \in Lt)
  BY <1>1, WFMin
<1>3. ASSUME NEW y \in T PROVE x <= y
  <2>1. <<y, x>> \in Nat \X Nat
    OBVIOUS
  <2>2. y < x => <<y, x>> \in Lt
    BY <2>1 DEF Lt
  <2>3. ~(y < x)
    BY <1>2, <2>2
  <2> QED BY <2>3
<1> QED BY <1>3

\* What holds of 0 and is kept by adding 1 holds of every number; the
\* property is given as the set of the numbers that have it.
LEMMA Induction ==
  ASSUME NEW S, 0 \in S, \A n \in Nat : n \in S => n + 1 \in S
  PROVE  \A n \in Nat : n \in S
<1> SUFFICES ASSUME {n \in Nat : n \notin S} # {} PROVE FALSE
  OBVIOUS
<1>1. PICK x \in {n \in Nat : n \notin S} : \A y \in {n \in Nat : n \notin S} : x <= y
  BY Least
<1>2. x # 0 /\ x - 1 \in Nat /\ x = (x - 1) + 1
  BY <1>1
<1>3. x - 1 \in S
  <2>1. ~(x <= x - 1)
    BY <1>2
  <2> QED BY <1>1, <1>2, <2>1
<1> QED BY <1>1, <1>2, <1>3

\* A loop of n rounds that starts from b in D and stays in D.
Loop(D, n, b, F) == n \in Nat /\ b \in D /\ F \in [(1..n) \X D -> D]

\* It has a value after every round.
LEMMA LoopExists ==
  ASSUME NEW D, NEW n, NEW b, NEW F, Loop(D, n, b, F)
  PROVE  \E g \in [0..n -> D] : g = [i \in 0..n |-> IF i = 0 THEN b ELSE F[<<i, g[i - 1]>>]]
<1>0. n \in Nat /\ b \in D /\ F \in [(1..n) \X D -> D]
  BY DEF Loop
<1> DEFINE Rounds(m, g) == g[0] = b /\ \A i \in 1..m : g[i] = F[<<i, g[i - 1]>>]
           S == {m \in Nat : m <= n => \E g \in [0..m -> D] : Rounds(m, g)}
<1>1. 0 \in S
  <2> DEFINE g == [i \in 0..0 |-> b]
  <2>1. g \in [0..0 -> D] /\ Rounds(0, g)
    BY <1>0
  <2> QED BY <2>1
<1>2. ASSUME NEW m \in Nat, m \in S PROVE m + 1 \in S
  <2> SUFFICES ASSUME m + 1 <= n PROVE \E g \in [0..(m + 1) -> D] : Rounds(m + 1, g)
    BY DEF S
  <2>1. PICK g \in [0..m -> D] : Rounds(m, g)
    BY <1>0, <1>2
  <2> DEFINE h == [i \in 0..(m + 1) |-> IF i = m + 1 THEN F[<<m + 1, g[m]>>] ELSE g[i]]
  <2>2. g[m] \in D /\ <<m + 1, g[m]>> \in (1..n) \X D
    BY <1>0
  <2>3. F[<<m + 1, g[m]>>] \in D
    BY <1>0, <2>2
  <2>4. h \in [0..(m + 1) -> D]
    BY <2>3
  <2>5. Rounds(m + 1, h)
    <3>1. h[0] = b
      BY <2>1
    <3>2. ASSUME NEW i \in 1..(m + 1) PROVE h[i] = F[<<i, h[i - 1]>>]
      <4>1. CASE i = m + 1
        <5>1. i - 1 = m /\ m # m + 1 /\ m \in 0..(m + 1) /\ m + 1 \in 0..(m + 1)
          BY <4>1
        <5>2. h[m] = g[m] /\ h[m + 1] = F[<<m + 1, g[m]>>]
          BY <5>1
        <5> HIDE DEF h
        <5> QED BY <4>1, <5>1, <5>2
      <4>2. CASE i # m + 1
        <5>1. i \in 1..m /\ i - 1 \in 0..m /\ i - 1 # m + 1
          BY <4>2
        <5>2. h[i] = g[i] /\ h[i - 1] = g[i - 1]
          BY <4>2, <5>1
        <5> QED BY <2>1, <5>1, <5>2
      <4> QED BY <4>1, <4>2
    <3> QED BY <3>1, <3>2
  <2> QED BY <2>4, <2>5
<1>3. n \in S
  <2> HIDE DEF S
  <2> QED BY <1>0, <1>1, <1>2, Induction
<1>4. PICK g \in [0..n -> D] : Rounds(n, g)
  BY <1>0, <1>3
<1>5. g = [i \in 0..n |-> g[i]]
  OBVIOUS
<1>6. \A i \in 0..n : g[i] = IF i = 0 THEN b ELSE F[<<i, g[i - 1]>>]
  BY <1>0, <1>4
<1>7. g = [i \in 0..n |-> IF i = 0 THEN b ELSE F[<<i, g[i - 1]>>]]
  BY <1>5, <1>6
<1> QED BY <1>7

-----------------------------------------------------------------------------
\* Sequences of bytes.

Regroup(s, t, u) == (s \o t) \o u = s \o (t \o u)

LEMMA Assoc ==
  ASSUME NEW s \in Seq(Nat), NEW t \in Seq(Nat), NEW u \in Seq(Nat)
  PROVE  Regroup(s, t, u)
  BY ConcatAssociative, SMTT(30) DEF Regroup

LEMMA Joined ==
  ASSUME NEW s \in Seq(Nat), NEW t \in Seq(Nat)
  PROVE  /\ s \o t \in Seq(Nat) /\ Len(s \o t) = Len(s) + Len(t)
         /\ \A i \in 1..Len(s) : (s \o t)[i] = s[i]
         /\ \A i \in 1..Len(t) : (s \o t)[Len(s) + i] = t[i]
  OBVIOUS

LEMMA IsSeq ==
  ASSUME NEW S, NEW n \in Nat, NEW g \in [1..n -> S]
  PROVE  g \in Seq(S) /\ Len(g) = n
  OBVIOUS

LEMMA Same ==
  ASSUME NEW s \in Seq(Nat), NEW t \in Seq(Nat), Len(s) = Len(t),
         \A i \in 1..Len(s) : s[i] = t[i]
  PROVE  s = t
  OBVIOUS

\* The first m bytes, and the rest.
LEMMA Cut ==
  ASSUME NEW s \in Seq(Nat), NEW m \in 0..Len(s)
  PROVE  /\ SubSeq(s, 1, m) \in Seq(Nat) /\ SubSeq(s, m + 1, Len(s)) \in Seq(Nat)
         /\ Len(SubSeq(s, 1, m)) = m /\ Len(SubSeq(s, m + 1, Len(s))) = Len(s) - m
         /\ \A i \in 1..m : SubSeq(s, 1, m)[i] = s[i]
         /\ SubSeq(s, 1, m) \o SubSeq(s, m + 1, Len(s)) = s
<1>1. /\ SubSeq(s, 1, m) \in Seq(Nat) /\ SubSeq(s, m + 1, Len(s)) \in Seq(Nat)
      /\ Len(SubSeq(s, 1, m)) = m /\ Len(SubSeq(s, m + 1, Len(s))) = Len(s) - m
      /\ \A i \in 1..m : SubSeq(s, 1, m)[i] = s[i]
  OBVIOUS
<1>2. SubSeq(s, 1, m) \o SubSeq(s, m + 1, Len(s)) = SubSeq(s, 1, Len(s))
  <2>1. 1 \in 1..(Len(s) + 1) /\ m \in (1 - 1)..Len(s) /\ Len(s) \in m..Len(s)
    OBVIOUS
  <2> QED BY <2>1, ConcatAdjacentSubSeq, Zenon
<1>3. SubSeq(s, 1, Len(s)) = s
  BY SubSeqFull
<1> QED BY <1>1, <1>2, <1>3

\* Moving bytes from the wire to the buffer changes nothing of the two together.
LEMMA Moved ==
  ASSUME NEW b \in Seq(Nat), NEW w \in Seq(Nat), NEW n \in 0..Len(w)
  PROVE  /\ b \o SubSeq(w, 1, n) \in Seq(Nat) /\ SubSeq(w, n + 1, Len(w)) \in Seq(Nat)
         /\ (b \o SubSeq(w, 1, n)) \o SubSeq(w, n + 1, Len(w)) = b \o w
<1> DEFINE h == SubSeq(w, 1, n)
           t == SubSeq(w, n + 1, Len(w))
<1>1. h \in Seq(Nat) /\ t \in Seq(Nat) /\ h \o t = w
  BY Cut
<1> HIDE DEF h, t
<1>2. b \o h \in Seq(Nat)
  BY <1>1
<1>3. (b \o h) \o t = b \o (h \o t)
  <2>1. h \in Seq(Nat) /\ t \in Seq(Nat)
    BY <1>1
  <2>2. Regroup(b, h, t)
    BY <2>1, Assoc, Zenon
  <2> QED BY <2>2, Zenon DEF Regroup
<1> QED BY <1>1, <1>2, <1>3, Zenon DEF h, t

\* Two ways to cut one sequence in two agree as far as both first parts go.
LEMMA Agree ==
  ASSUME NEW b \in Seq(Nat), NEW w \in Seq(Nat), NEW B \in Seq(Nat), NEW rest \in Seq(Nat),
         b \o w = B \o rest
  PROVE  \A i \in 1..Len(b) : i <= Len(B) => b[i] = B[i]
<1> SUFFICES ASSUME NEW i \in 1..Len(b), i <= Len(B) PROVE b[i] = B[i]
  OBVIOUS
<1>1. i \in 1..Len(B)
  OBVIOUS
<1>2. (b \o w)[i] = b[i]
  BY SMTT(30)
<1>3. (B \o rest)[i] = B[i]
  BY <1>1, SMTT(30)
<1> QED BY <1>2, <1>3

\* What is left of b behind B, with w, is the rest.
LEMMA Stripped ==
  ASSUME NEW b \in Seq(Nat), NEW w \in Seq(Nat), NEW B \in Seq(Nat), NEW rest \in Seq(Nat),
         b \o w = B \o rest, Len(b) >= Len(B)
  PROVE  /\ SubSeq(b, Len(B) + 1, Len(b)) \in Seq(Nat)
         /\ SubSeq(b, Len(B) + 1, Len(b)) \o w = rest
<1> DEFINE h == SubSeq(b, 1, Len(B))
           t == SubSeq(b, Len(B) + 1, Len(b))
<1>1. /\ h \in Seq(Nat) /\ t \in Seq(Nat) /\ Len(h) = Len(B) /\ h \o t = b
      /\ \A i \in 1..Len(B) : h[i] = b[i]
  <2>1. Len(B) \in 0..Len(b)
    OBVIOUS
  <2> QED BY <2>1, Cut, Zenon
<1> HIDE DEF h, t
<1>2. h = B
  <2>1. \A i \in 1..Len(B) : b[i] = B[i]
    BY Agree
  <2> QED BY <1>1, <2>1, Same
<1>3. B \o (t \o w) = B \o rest
  <2>1. t \in Seq(Nat)
    BY <1>1
  <2>2. Regroup(B, t, w)
    BY <2>1, Assoc, Zenon
  <2>3. (B \o t) \o w = b \o w
    BY <1>1, <1>2, Zenon
  <2> QED BY <2>2, <2>3, Zenon DEF Regroup
<1>4. t \o w \in Seq(Nat)
  BY <1>1
<1>5. t \o w = rest
  BY <1>3, <1>4, ConcatSimplifications
<1> QED BY <1>1, <1>5, Zenon DEF t

LEMMA BothEmpty ==
  ASSUME NEW b \in Seq(Nat), NEW w \in Seq(Nat), b \o w = <<>>
  PROVE  b = <<>> /\ w = <<>>
  BY ConcatSimplifications

LEMMA WithEmpty ==
  ASSUME NEW s \in Seq(Nat)
  PROVE  s \o <<>> = s /\ <<>> \o s = s
  BY ConcatEmptySeq

-----------------------------------------------------------------------------
\* FlattenSeq, by the rounds of its loop.

Rounds(ss, g) ==
  /\ g \in [0..Len(ss) -> Seq(Nat)] /\ g[0] = <<>>
  /\ \A i \in 1..Len(ss) : g[i] = g[i - 1] \o ss[i]

LEMMA RoundsExist ==
  ASSUME NEW ss \in Seq(Seq(Nat))
  PROVE  \E g : Rounds(ss, g)
<1> DEFINE n == Len(ss)
           D == Seq(Nat)
           F == [p \in (1..n) \X D |-> p[2] \o ss[p[1]]]
<1>1. n \in Nat /\ <<>> \in D
  OBVIOUS
<1>2. ASSUME NEW i \in 1..n, NEW d \in D PROVE d \o ss[i] \in D /\ F[<<i, d>>] = d \o ss[i]
  <2>1. ss[i] \in Seq(Nat)
    OBVIOUS
  <2>2. d \o ss[i] \in D
    BY <2>1
  <2>3. <<i, d>> \in (1..n) \X D
    OBVIOUS
  <2> QED BY <2>2, <2>3
<1>3. F \in [(1..n) \X D -> D]
  BY <1>2
<1>4. Loop(D, n, <<>>, F)
  BY <1>1, <1>3, Zenon DEF Loop
<1>5. PICK g \in [0..n -> D] : g = [i \in 0..n |-> IF i = 0 THEN <<>> ELSE F[<<i, g[i - 1]>>]]
  <2> HIDE DEF n, D, F
  <2> QED BY <1>4, LoopExists
<1>6. g[0] = <<>>
  BY <1>1, <1>5
<1>7. ASSUME NEW i \in 1..n PROVE g[i] = g[i - 1] \o ss[i]
  <2>1. i \in 0..n /\ i # 0 /\ i - 1 \in 0..n
    BY <1>1
  <2>2. g[i] = F[<<i, g[i - 1]>>] /\ g[i - 1] \in D
    <3> HIDE DEF n, D, F
    <3> QED BY <1>5, <2>1
  <2> QED BY <1>2, <2>2
<1> QED BY <1>5, <1>6, <1>7 DEF Rounds

\* FlattenSeq is what the last round gives.
LEMMA FlattenIs ==
  ASSUME NEW ss \in Seq(Seq(Nat)), NEW g, Rounds(ss, g)
  PROVE  FlattenSeq(ss) = g[Len(ss)] /\ FlattenSeq(ss) \in Seq(Nat)
<1> DEFINE n == Len(ss)
<1>0. /\ n \in Nat /\ g \in [0..n -> Seq(Nat)] /\ g[0] = <<>>
      /\ \A i \in 1..n : g[i] = g[i - 1] \o ss[i]
  <2>1. n \in Nat
    OBVIOUS
  <2> QED BY <2>1, Zenon DEF Rounds
<1>1. CASE n = 0
  <2>1. ss = <<>>
    BY <1>1
  <2>2. FlattenSeq(ss) = ss
    BY <1>1, Zenon DEF FlattenSeq
  <2> QED BY <1>0, <1>1, <2>1, <2>2
<1>2. CASE n # 0
  <2> DEFINE Is(c) == c = [i \in 1..n |-> IF i = 1 THEN ss[i] ELSE c[i - 1] \o ss[i]]
             h == [i \in 1..n |-> g[i]]
             c == CHOOSE d : Is(d)
  <2>1. Is(h)
    <3>1. ASSUME NEW i \in 1..n PROVE h[i] = IF i = 1 THEN ss[i] ELSE h[i - 1] \o ss[i]
      <4>1. CASE i = 1
        <5>1. ss[1] \in Seq(Nat) /\ 1 - 1 = 0
          BY <4>1
        <5>2. g[1] = <<>> \o ss[1]
          BY <1>0, <4>1, <5>1, Zenon
        <5>3. g[1] = ss[1]
          BY <5>1, <5>2, ConcatEmptySeq, Zenon
        <5> QED BY <4>1, <5>3
      <4>2. CASE i # 1
        <5>1. i - 1 \in 1..n
          BY <1>0, <4>2
        <5> QED BY <1>0, <4>2, <5>1
      <4> QED BY <4>1, <4>2
    <3> QED BY <3>1
  <2>2. Is(c)
    <3> HIDE DEF Is, h
    <3> QED BY <2>1, Zenon
  <2>3. FlattenSeq(ss) = c[n]
    BY <1>2, Zenon DEF FlattenSeq
  <2>4. \A i \in 1..n : c[i] = IF i = 1 THEN ss[i] ELSE c[i - 1] \o ss[i]
    <3> HIDE DEF c
    <3> QED BY <2>2
  <2>5. \A i \in 1..n : h[i] = IF i = 1 THEN ss[i] ELSE h[i - 1] \o ss[i]
    <3> HIDE DEF h
    <3> QED BY <2>1
  <2> DEFINE S == {i \in Nat : i \in 1..n => c[i] = h[i]}
  <2>6. 0 \in S
    OBVIOUS
  <2>7. ASSUME NEW i \in Nat, i \in S PROVE i + 1 \in S
    <3> HIDE DEF c, h, Is
    <3>1. CASE i = 0
      BY <2>4, <2>5, <3>1
    <3>2. CASE i # 0
      <4> SUFFICES ASSUME i + 1 \in 1..n PROVE c[i + 1] = h[i + 1]
        OBVIOUS
      <4>1. i \in 1..n /\ i + 1 # 1 /\ (i + 1) - 1 = i
        BY <3>2
      <4>2. c[i] = h[i]
        BY <2>7, <4>1
      <4> QED BY <2>4, <2>5, <4>1, <4>2
    <3> QED BY <3>1, <3>2
  <2>8. n \in S
    <3> HIDE DEF S
    <3> QED BY <1>0, <2>6, <2>7, Induction
  <2>9. n \in 1..n
    BY <1>0, <1>2
  <2>10. c[n] = h[n] /\ h[n] = g[n]
    BY <2>8, <2>9
  <2>11. g[n] \in Seq(Nat)
    BY <1>0
  <2> HIDE DEF n, h, c
  <2> QED BY <2>3, <2>10, <2>11, Zenon DEF n
<1> QED BY <1>1, <1>2

\* tt is ss with x in front, and ss with x behind.
InFront(tt, x, ss) ==
  /\ Len(tt) = Len(ss) + 1 /\ tt[1] = x /\ \A i \in 1..Len(ss) : tt[i + 1] = ss[i]

Behind(tt, ss, x) ==
  /\ Len(tt) = Len(ss) + 1 /\ tt[Len(tt)] = x /\ \A i \in 1..Len(ss) : tt[i] = ss[i]

LEMMA FlattenInFront ==
  ASSUME NEW ss \in Seq(Seq(Nat)), NEW tt \in Seq(Seq(Nat)), NEW x \in Seq(Nat), InFront(tt, x, ss)
  PROVE  FlattenSeq(tt) = x \o FlattenSeq(ss)
<1>1. PICK g : Rounds(ss, g)
  BY RoundsExist
<1>2. PICK h : Rounds(tt, h)
  BY RoundsExist
<1> DEFINE n == Len(ss)
           S == {i \in Nat : i <= n => h[i + 1] = x \o g[i]}
<1>3. /\ n \in Nat /\ Len(tt) = n + 1 /\ g \in [0..n -> Seq(Nat)] /\ g[0] = <<>>
      /\ h[0] = <<>> /\ \A i \in 1..n : g[i] = g[i - 1] \o ss[i]
      /\ \A i \in 1..(n + 1) : h[i] = h[i - 1] \o tt[i]
  <2>1. n \in Nat
    OBVIOUS
  <2> QED BY <1>1, <1>2, <2>1, Zenon DEF Rounds, InFront
<1>4. 0 \in S
  <2>1. 1 \in 1..(n + 1) /\ 1 - 1 = 0
    BY <1>3
  <2>2. h[1] = <<>> \o x
    BY <1>3, <2>1, Zenon DEF InFront
  <2>3. <<>> \o x = x \o <<>>
    BY ConcatEmptySeq
  <2> QED BY <1>3, <2>2, <2>3
<1>5. ASSUME NEW i \in Nat, i \in S PROVE i + 1 \in S
  <2> SUFFICES ASSUME i + 1 <= n PROVE h[(i + 1) + 1] = x \o g[i + 1]
    OBVIOUS
  <2>1. i <= n /\ i \in 0..n /\ i + 1 \in 1..n /\ (i + 1) + 1 \in 1..(n + 1)
        /\ ((i + 1) + 1) - 1 = i + 1 /\ (i + 1) - 1 = i
    BY <1>3
  <2>2. h[i + 1] = x \o g[i]
    BY <1>5, <2>1
  <2>3. h[(i + 1) + 1] = h[i + 1] \o tt[(i + 1) + 1]
    BY <1>3, <2>1
  <2>4. tt[(i + 1) + 1] = ss[i + 1] /\ ss[i + 1] \in Seq(Nat)
    BY <2>1 DEF InFront
  <2>5. g[i + 1] = g[i] \o ss[i + 1] /\ g[i] \in Seq(Nat)
    BY <1>3, <2>1
  <2>6. Regroup(x, g[i], ss[i + 1])
    BY <2>4, <2>5, Assoc, Zenon
  <2> QED BY <2>2, <2>3, <2>4, <2>5, <2>6, Zenon DEF Regroup
<1>6. n \in S
  <2> HIDE DEF S
  <2> QED BY <1>3, <1>4, <1>5, Induction
<1>7. h[n + 1] = x \o g[n]
  BY <1>3, <1>6
<1> QED BY <1>1, <1>2, <1>3, <1>7, FlattenIs

LEMMA FlattenBehind ==
  ASSUME NEW ss \in Seq(Seq(Nat)), NEW tt \in Seq(Seq(Nat)), NEW x \in Seq(Nat), Behind(tt, ss, x)
  PROVE  FlattenSeq(tt) = FlattenSeq(ss) \o x
<1>1. PICK h : Rounds(tt, h)
  BY RoundsExist
<1> DEFINE n == Len(ss)
           g == [i \in 0..n |-> h[i]]
<1>2. /\ n \in Nat /\ Len(tt) = n + 1 /\ h \in [0..(n + 1) -> Seq(Nat)] /\ h[0] = <<>>
      /\ \A i \in 1..(n + 1) : h[i] = h[i - 1] \o tt[i]
  BY <1>1 DEF Rounds, Behind
<1>3. g \in [0..n -> Seq(Nat)] /\ g[0] = <<>>
  BY <1>2
<1>4. ASSUME NEW i \in 1..n PROVE g[i] = g[i - 1] \o ss[i]
  <2>1. i \in 0..n /\ i - 1 \in 0..n /\ i \in 1..(n + 1)
    BY <1>2
  <2>2. tt[i] = ss[i]
    BY DEF Behind
  <2> QED BY <1>2, <2>1, <2>2
<1>5. Rounds(ss, g)
  BY <1>3, <1>4, Zenon DEF Rounds
<1>6. FlattenSeq(ss) = g[n] /\ FlattenSeq(tt) = h[n + 1]
  BY <1>1, <1>2, <1>5, FlattenIs
<1>7. n \in 0..n /\ n + 1 \in 1..(n + 1) /\ (n + 1) - 1 = n
  BY <1>2
<1>8. g[n] = h[n] /\ h[n + 1] = h[n] \o tt[n + 1]
  BY <1>2, <1>7
<1>9. tt[n + 1] = x
  BY <1>2, Zenon DEF Behind
<1> QED BY <1>6, <1>8, <1>9, Zenon

LEMMA FlattenType ==
  ASSUME NEW ss \in Seq(Seq(Nat))
  PROVE  FlattenSeq(ss) \in Seq(Nat) /\ (ss = <<>> => FlattenSeq(ss) = <<>>)
<1>1. PICK g : Rounds(ss, g)
  BY RoundsExist
<1>2. FlattenSeq(ss) = g[Len(ss)] /\ FlattenSeq(ss) \in Seq(Nat)
  BY <1>1, FlattenIs
<1> QED BY <1>1, <1>2 DEF Rounds

-----------------------------------------------------------------------------
\* Frames.

Short(f) == IF f.ext THEN 3 ELSE 2

Part(f) == IF f.op \in DataOps THEN f.data ELSE <<>>

LEMMA FrameFacts ==
  ASSUME NEW f \in Frame
  PROVE  f.op \in Nat /\ f.ext \in BOOLEAN /\ f.data \in Seq(Nat) /\ Part(f) \in Seq(Nat)
<1>1. f.op \in Nat /\ f.ext \in BOOLEAN /\ f.data \in Seq(Nat)
  BY DEF Frame
<1>2. <<>> \in Seq(Nat)
  OBVIOUS
<1> QED BY <1>1, <1>2, Zenon DEF Part

LEMMA BytesFacts ==
  ASSUME NEW f \in Frame
  PROVE  /\ Bytes(f) \in Seq(Nat) /\ Len(Bytes(f)) = Short(f) + Len(f.data)
         /\ Bytes(f)[1] = f.op
         /\ f.ext => Bytes(f)[2] = 126 /\ Bytes(f)[3] = Len(f.data)
         /\ ~f.ext => Bytes(f)[2] = Len(f.data)
         /\ \A i \in 1..Len(f.data) : Bytes(f)[Short(f) + i] = f.data[i]
<1>0. f.op \in Nat /\ f.ext \in BOOLEAN /\ f.data \in Seq(Nat) /\ Len(f.data) \in Nat
  BY FrameFacts
<1>1. CASE f.ext
  <2> DEFINE h == <<f.op, 126, Len(f.data)>>
  <2>1. Bytes(f) = h \o f.data /\ Short(f) = 3
    BY <1>1, Zenon DEF Bytes, Short
  <2>2. h \in Seq(Nat) /\ Len(h) = 3 /\ h[1] = f.op /\ h[2] = 126 /\ h[3] = Len(f.data)
    BY <1>0
  <2> HIDE DEF h
  <2>3. /\ h \o f.data \in Seq(Nat) /\ Len(h \o f.data) = 3 + Len(f.data)
        /\ \A i \in 1..3 : (h \o f.data)[i] = h[i]
        /\ \A i \in 1..Len(f.data) : (h \o f.data)[3 + i] = f.data[i]
    <3>1. /\ h \o f.data \in Seq(Nat) /\ Len(h \o f.data) = Len(h) + Len(f.data)
          /\ \A i \in 1..Len(h) : (h \o f.data)[i] = h[i]
          /\ \A i \in 1..Len(f.data) : (h \o f.data)[Len(h) + i] = f.data[i]
      <4>1. h \in Seq(Nat) /\ f.data \in Seq(Nat)
        BY <1>0, <2>2
      <4> QED BY <4>1, Joined, Zenon
    <3> QED BY <2>2, <3>1
  <2>4. \A i \in 1..3 : Bytes(f)[i] = h[i]
    BY <2>1, <2>3, Zenon
  <2>5. Bytes(f)[1] = h[1] /\ Bytes(f)[2] = h[2] /\ Bytes(f)[3] = h[3]
    BY <2>4
  <2>6. /\ Bytes(f) \in Seq(Nat) /\ Len(Bytes(f)) = Short(f) + Len(f.data)
        /\ \A i \in 1..Len(f.data) : Bytes(f)[Short(f) + i] = f.data[i]
    BY <2>1, <2>3, Zenon
  <2>7. Bytes(f)[1] = f.op /\ Bytes(f)[2] = 126 /\ Bytes(f)[3] = Len(f.data)
    BY <2>2, <2>5, Zenon
  <2> QED BY <1>1, <2>6, <2>7, Zenon
<1>2. CASE ~f.ext
  <2> DEFINE h == <<f.op, Len(f.data)>>
  <2>1. Bytes(f) = h \o f.data /\ Short(f) = 2
    BY <1>2, Zenon DEF Bytes, Short
  <2>2. h \in Seq(Nat) /\ Len(h) = 2 /\ h[1] = f.op /\ h[2] = Len(f.data)
    BY <1>0
  <2> HIDE DEF h
  <2>3. /\ h \o f.data \in Seq(Nat) /\ Len(h \o f.data) = 2 + Len(f.data)
        /\ \A i \in 1..2 : (h \o f.data)[i] = h[i]
        /\ \A i \in 1..Len(f.data) : (h \o f.data)[2 + i] = f.data[i]
    <3>1. /\ h \o f.data \in Seq(Nat) /\ Len(h \o f.data) = Len(h) + Len(f.data)
          /\ \A i \in 1..Len(h) : (h \o f.data)[i] = h[i]
          /\ \A i \in 1..Len(f.data) : (h \o f.data)[Len(h) + i] = f.data[i]
      <4>1. h \in Seq(Nat) /\ f.data \in Seq(Nat)
        BY <1>0, <2>2
      <4> QED BY <4>1, Joined, Zenon
    <3> QED BY <2>2, <3>1
  <2>4. \A i \in 1..2 : Bytes(f)[i] = h[i]
    BY <2>1, <2>3, Zenon
  <2>5. Bytes(f)[1] = h[1] /\ Bytes(f)[2] = h[2]
    BY <2>4
  <2>6. /\ Bytes(f) \in Seq(Nat) /\ Len(Bytes(f)) = Short(f) + Len(f.data)
        /\ \A i \in 1..Len(f.data) : Bytes(f)[Short(f) + i] = f.data[i]
    BY <2>1, <2>3, Zenon
  <2>7. Bytes(f)[1] = f.op /\ Bytes(f)[2] = Len(f.data)
    BY <2>2, <2>5, Zenon
  <2> QED BY <1>2, <2>6, <2>7, Zenon
<1> QED BY <1>1, <1>2

\* The sequences that Wire and Data flatten.
Wires(fs) == [i \in DOMAIN fs |-> Bytes(fs[i])]

Parts(fs) == [i \in DOMAIN fs |-> IF fs[i].op \in DataOps THEN fs[i].data ELSE <<>>]

LEMMA FramesFacts ==
  ASSUME NEW fs \in Seq(Frame)
  PROVE  /\ Wires(fs) \in Seq(Seq(Nat)) /\ Parts(fs) \in Seq(Seq(Nat))
         /\ Len(Wires(fs)) = Len(fs) /\ Len(Parts(fs)) = Len(fs)
         /\ \A i \in 1..Len(fs) : Wires(fs)[i] = Bytes(fs[i]) /\ Parts(fs)[i] = Part(fs[i])
         /\ Wire(fs) = FlattenSeq(Wires(fs)) /\ Data(fs) = FlattenSeq(Parts(fs))
         /\ Wire(fs) \in Seq(Nat) /\ Data(fs) \in Seq(Nat)
<1>1. DOMAIN fs = 1..Len(fs) /\ Len(fs) \in Nat /\ \A i \in 1..Len(fs) : fs[i] \in Frame
  OBVIOUS
<1>2. \A i \in 1..Len(fs) : Wires(fs)[i] = Bytes(fs[i]) /\ Bytes(fs[i]) \in Seq(Nat)
  BY <1>1, BytesFacts, Zenon DEF Wires
<1>3. \A i \in 1..Len(fs) : Parts(fs)[i] = Part(fs[i]) /\ Part(fs[i]) \in Seq(Nat)
  BY <1>1, FrameFacts, Zenon DEF Parts, Part
<1>4. Wires(fs) \in [1..Len(fs) -> Seq(Nat)] /\ Parts(fs) \in [1..Len(fs) -> Seq(Nat)]
  <2>1. Wires(fs) = [i \in 1..Len(fs) |-> Wires(fs)[i]]
    BY <1>1 DEF Wires
  <2>2. Parts(fs) = [i \in 1..Len(fs) |-> Parts(fs)[i]]
    BY <1>1 DEF Parts
  <2> QED BY <1>2, <1>3, <2>1, <2>2
<1>5. /\ Wires(fs) \in Seq(Seq(Nat)) /\ Len(Wires(fs)) = Len(fs)
      /\ Parts(fs) \in Seq(Seq(Nat)) /\ Len(Parts(fs)) = Len(fs)
  BY <1>1, <1>4, IsSeq, Zenon
<1>6. Wire(fs) = FlattenSeq(Wires(fs)) /\ Data(fs) = FlattenSeq(Parts(fs))
  BY Zenon DEF Wire, Data, Wires, Parts
<1>7. Wire(fs) \in Seq(Nat) /\ Data(fs) \in Seq(Nat)
  BY <1>5, <1>6, FlattenType
<1> QED BY <1>2, <1>3, <1>5, <1>6, <1>7, Zenon

LEMMA NoFrames == Wire(<<>>) = <<>> /\ Data(<<>>) = <<>>
<1>1. <<>> \in Seq(Frame) /\ Len(<<>>) = 0
  OBVIOUS
<1>2. /\ Wires(<<>>) \in Seq(Seq(Nat)) /\ Parts(<<>>) \in Seq(Seq(Nat))
      /\ Len(Wires(<<>>)) = 0 /\ Len(Parts(<<>>)) = 0
  BY <1>1, FramesFacts
<1>3. \A ss \in Seq(Seq(Nat)) : Len(ss) = 0 => ss = <<>>
  OBVIOUS
<1>4. Wires(<<>>) = <<>> /\ Parts(<<>>) = <<>>
  BY <1>2, <1>3, Zenon
<1> QED BY <1>1, <1>2, <1>4, FramesFacts, FlattenType, Zenon

\* Taking frame k + 1 from the rest, and adding it to what was taken.
LEMMA NextFrame ==
  ASSUME NEW fs \in Seq(Frame), NEW k \in 0..(Len(fs) - 1)
  PROVE  /\ fs[k + 1] \in Frame
         /\ Wire(SubSeq(fs, k + 1, Len(fs))) =
              Bytes(fs[k + 1]) \o Wire(SubSeq(fs, (k + 1) + 1, Len(fs)))
         /\ Data(SubSeq(fs, 1, k + 1)) = Data(SubSeq(fs, 1, k)) \o Part(fs[k + 1])
         /\ Wire(SubSeq(fs, (k + 1) + 1, Len(fs))) \in Seq(Nat)
<1> DEFINE n == Len(fs)
           a == SubSeq(fs, k + 1, n)
           b == SubSeq(fs, (k + 1) + 1, n)
           c == SubSeq(fs, 1, k)
           d == SubSeq(fs, 1, k + 1)
           f == fs[k + 1]
<1>1. n \in Nat /\ k \in Nat /\ k < n /\ f \in Frame
  OBVIOUS
<1>2. /\ a \in Seq(Frame) /\ b \in Seq(Frame) /\ Len(a) = n - k /\ Len(b) = n - k - 1
      /\ a[1] = f /\ \A i \in 1..(n - k - 1) : a[i + 1] = b[i]
  <2>1. a \in Seq(Frame) /\ Len(a) = n - k /\ \A i \in 1..(n - k) : a[i] = fs[k + i]
    BY <1>1
  <2>2. b \in Seq(Frame) /\ Len(b) = n - k - 1 /\ \A i \in 1..(n - k - 1) : b[i] = fs[k + 1 + i]
    BY <1>1
  <2> HIDE DEF a, b
  <2>3. a[1] = f
    BY <1>1, <2>1
  <2>4. ASSUME NEW i \in 1..(n - k - 1) PROVE a[i + 1] = b[i]
    <3>1. i + 1 \in 1..(n - k) /\ k + (i + 1) = k + 1 + i
      BY <1>1
    <3>2. a[i + 1] = fs[k + (i + 1)]
      BY <2>1, <3>1
    <3> QED BY <2>2, <3>1, <3>2
  <2> QED BY <2>1, <2>2, <2>3, <2>4
<1>3. /\ c \in Seq(Frame) /\ d \in Seq(Frame) /\ Len(c) = k /\ Len(d) = k + 1
      /\ d[k + 1] = f /\ \A i \in 1..k : d[i] = c[i]
  BY <1>1
<1> HIDE DEF a, b, c, d, f
<1>4. InFront(Wires(a), Bytes(f), Wires(b))
  <2>1. Len(Wires(a)) = n - k /\ Len(Wires(b)) = n - k - 1
    BY <1>2, FramesFacts
  <2>2. /\ \A i \in 1..(n - k) : Wires(a)[i] = Bytes(a[i])
        /\ \A i \in 1..(n - k - 1) : Wires(b)[i] = Bytes(b[i])
    BY <1>2, FramesFacts, Zenon
  <2>3. Wires(a)[1] = Bytes(f)
    BY <1>1, <1>2, <2>2
  <2>4. ASSUME NEW i \in 1..(n - k - 1) PROVE Wires(a)[i + 1] = Wires(b)[i]
    <3>1. i + 1 \in 1..(n - k)
      BY <1>1
    <3> QED BY <1>2, <2>2, <3>1, Zenon
  <2> QED BY <1>1, <2>1, <2>3, <2>4 DEF InFront
<1>5. Behind(Parts(d), Parts(c), Part(f))
  <2>1. Len(Parts(d)) = k + 1 /\ Len(Parts(c)) = k
    BY <1>3, FramesFacts
  <2>2. /\ \A i \in 1..(k + 1) : Parts(d)[i] = Part(d[i])
        /\ \A i \in 1..k : Parts(c)[i] = Part(c[i])
    BY <1>3, FramesFacts, Zenon
  <2>3. Parts(d)[k + 1] = Part(f)
    BY <1>1, <1>3, <2>2
  <2>4. ASSUME NEW i \in 1..k PROVE Parts(d)[i] = Parts(c)[i]
    <3>1. i \in 1..(k + 1)
      BY <1>1
    <3> QED BY <1>3, <2>2, <3>1, Zenon
  <2> QED BY <1>1, <2>1, <2>3, <2>4 DEF Behind
<1>6. Wire(a) = Bytes(f) \o Wire(b)
  <2>1. Wires(a) \in Seq(Seq(Nat)) /\ Wires(b) \in Seq(Seq(Nat)) /\ Bytes(f) \in Seq(Nat)
    BY <1>1, <1>2, FramesFacts, BytesFacts
  <2>2. Wire(a) = FlattenSeq(Wires(a)) /\ Wire(b) = FlattenSeq(Wires(b))
    BY <1>2, FramesFacts
  <2> QED BY <1>4, <2>1, <2>2, FlattenInFront
<1>7. Data(d) = Data(c) \o Part(f)
  <2>1. Parts(d) \in Seq(Seq(Nat)) /\ Parts(c) \in Seq(Seq(Nat)) /\ Part(f) \in Seq(Nat)
    BY <1>1, <1>3, FramesFacts, FrameFacts
  <2>2. Data(d) = FlattenSeq(Parts(d)) /\ Data(c) = FlattenSeq(Parts(c))
    BY <1>3, FramesFacts
  <2> QED BY <1>5, <2>1, <2>2, FlattenBehind
<1>8. Wire(b) \in Seq(Nat)
  BY <1>2, FramesFacts
<1> QED BY <1>1, <1>6, <1>7, <1>8 DEF a, b, c, d, f

\* The bytes b and w are those of f and then rest.
Starts(b, w, f, rest) ==
  /\ b \in Seq(Nat) /\ w \in Seq(Nat) /\ rest \in Seq(Nat) /\ f \in Frame
  /\ f.ext \/ Len(f.data) < 126
  /\ b \o w = Bytes(f) \o rest

\* need() is met exactly when the frame is there, and then header and payload
\* are those of the frame and what remains is the rest.
LEMMA HeadFrame ==
  ASSUME NEW b, NEW w, NEW f, NEW rest, Starts(b, w, f, rest)
  PROVE  /\ Whole(b) <=> Len(b) >= Len(Bytes(f))
         /\ Whole(b) =>
              /\ b[1] = f.op /\ HeaderLen(b) = Short(f) /\ PayloadLen(b) = Len(f.data)
              /\ SubSeq(b, HeaderLen(b) + 1, HeaderLen(b) + PayloadLen(b)) = f.data
              /\ SubSeq(b, HeaderLen(b) + PayloadLen(b) + 1, Len(b)) \in Seq(Nat)
              /\ SubSeq(b, HeaderLen(b) + PayloadLen(b) + 1, Len(b)) \o w = rest
<1> DEFINE B == Bytes(f)
           n == Len(f.data)
           m == Short(f)
<1>1. /\ b \in Seq(Nat) /\ w \in Seq(Nat) /\ rest \in Seq(Nat) /\ f \in Frame
      /\ f.ext \/ n < 126
      /\ b \o w = B \o rest
  BY Zenon DEF Starts
<1>2. f.ext \in BOOLEAN /\ f.data \in Seq(Nat) /\ n \in Nat
  BY <1>1, FrameFacts
<1>3. /\ B \in Seq(Nat) /\ Len(B) = m + n /\ B[1] = f.op
      /\ f.ext => B[2] = 126 /\ B[3] = n
      /\ ~f.ext => B[2] = n
      /\ \A i \in 1..n : B[m + i] = f.data[i]
  BY <1>1, BytesFacts
<1>4. (f.ext => m = 3) /\ (~f.ext => m = 2)
  BY DEF Short
<1> HIDE DEF B, n, m
<1>5. Len(b) \in Nat
  BY <1>1
<1>6. \A i \in 1..Len(b) : i <= m + n => b[i] = B[i]
  <2>1. \A i \in 1..Len(b) : i <= Len(B) => b[i] = B[i]
    <3>1. /\ b \in Seq(Nat) /\ w \in Seq(Nat) /\ rest \in Seq(Nat) /\ B \in Seq(Nat)
          /\ b \o w = B \o rest
      BY <1>1, <1>3, Zenon
    <3> QED BY <3>1, Agree, SMTT(30)
  <2> QED BY <1>3, <2>1, Zenon
<1>7. ASSUME Len(b) >= 2, f.ext
      PROVE  b[2] = 126 /\ HeaderLen(b) = 3 /\ (Len(b) >= 3 => PayloadLen(b) = n)
  <2>3. /\ 2 \in 1..Len(b) /\ 2 <= m + n
        /\ Len(b) >= 3 => 3 \in 1..Len(b) /\ 3 <= m + n
    BY <1>2, <1>4, <1>5, <1>7
  <2>1. b[2] = 126
    BY <1>3, <1>6, <1>7, <2>3, Zenon
  <2>2. Len(b) >= 3 => b[3] = n
    BY <1>3, <1>6, <1>7, <2>3, Zenon
  <2> QED BY <2>1, <2>2 DEF HeaderLen, PayloadLen
<1>8. ASSUME Len(b) >= 2, ~f.ext
      PROVE  b[2] = n /\ HeaderLen(b) = 2 /\ PayloadLen(b) = n
  <2>3. 2 \in 1..Len(b) /\ 2 <= m + n
    BY <1>2, <1>4, <1>5, <1>8
  <2>1. b[2] = n /\ n # 126
    <3>1. b[2] = n
      BY <1>3, <1>6, <1>8, <2>3, Zenon
    <3>2. n < 126
      BY <1>1, <1>8, Zenon
    <3> QED BY <1>2, <3>1, <3>2
  <2> QED BY <2>1 DEF HeaderLen, PayloadLen
<1>9. Whole(b) <=> Len(b) >= m + n
  <2>1. CASE f.ext
    BY <1>2, <1>4, <1>5, <1>7, <2>1 DEF Whole
  <2>2. CASE ~f.ext
    BY <1>2, <1>4, <1>5, <1>8, <2>2 DEF Whole
  <2> QED BY <2>1, <2>2
<1>10. ASSUME Whole(b)
       PROVE  /\ b[1] = f.op /\ HeaderLen(b) = m /\ PayloadLen(b) = n
              /\ SubSeq(b, m + 1, m + n) = f.data
              /\ SubSeq(b, m + n + 1, Len(b)) \in Seq(Nat)
              /\ SubSeq(b, m + n + 1, Len(b)) \o w = rest
  <2>1. Len(b) >= m + n /\ Len(b) >= 2 /\ m \in {2, 3}
    BY <1>2, <1>4, <1>5, <1>9, <1>10
  <2>2. HeaderLen(b) = m /\ PayloadLen(b) = n
    BY <1>2, <1>4, <1>7, <1>8, <2>1
  <2>3. b[1] = f.op
    BY <1>2, <1>3, <1>5, <1>6, <2>1
  <2>4. SubSeq(b, m + 1, m + n) = f.data
    <3> DEFINE s == SubSeq(b, m + 1, m + n)
    <3>1. s \in Seq(Nat) /\ Len(s) = n /\ \A i \in 1..n : s[i] = b[m + i]
      BY <1>1, <1>2, <1>5, <2>1
    <3> HIDE DEF s
    <3>2. \A i \in 1..n : b[m + i] = B[m + i]
      BY <1>2, <1>5, <1>6, <2>1
    <3>3. ASSUME NEW i \in 1..n PROVE s[i] = f.data[i]
      <4>1. s[i] = b[m + i] /\ b[m + i] = B[m + i]
        BY <3>1, <3>2, Zenon
      <4>2. B[m + i] = f.data[i]
        BY <1>3, Zenon
      <4> QED BY <4>1, <4>2, Zenon
    <3>4. s = f.data
      BY <1>2, <3>1, <3>3, Same DEF n
    <3> QED BY <3>4 DEF s
  <2>5. /\ SubSeq(b, m + n + 1, Len(b)) \in Seq(Nat)
        /\ SubSeq(b, m + n + 1, Len(b)) \o w = rest
    <3>1. Len(b) >= Len(B) /\ B \in Seq(Nat) /\ Len(B) = m + n
      BY <1>3, <2>1
    <3>2. /\ SubSeq(b, Len(B) + 1, Len(b)) \in Seq(Nat)
          /\ SubSeq(b, Len(B) + 1, Len(b)) \o w = rest
      BY <1>1, <3>1, Stripped
    <3> QED BY <3>1, <3>2, Zenon
  <2> QED BY <2>2, <2>3, <2>4, <2>5
<1> QED BY <1>3, <1>9, <1>10, Zenon DEF B, n, m

-----------------------------------------------------------------------------
\* The search.

LEMMA Sizes ==
  /\ Window \in Nat /\ TrimTo \in Nat /\ TrimAt \in Nat /\ MaxLoops \in Nat
  /\ Window >= 1 /\ Window <= TrimTo /\ TrimTo <= TrimAt /\ MaxLoops >= 1
  BY BufferAssumption

LEMMA LastBytesFacts ==
  ASSUME NEW s \in Seq(Nat), NEW n \in Nat, n >= 1
  PROVE  /\ LastBytes(s, n) \in Seq(Nat)
         /\ Len(LastBytes(s, n)) = IF Len(s) > n THEN n ELSE Len(s)
         /\ \A i \in 1..Len(LastBytes(s, n)) :
              LastBytes(s, n)[i] = s[Len(s) - Len(LastBytes(s, n)) + i]
<1> DEFINE L == LastBytes(s, n)
<1>1. CASE Len(s) > n
  <2>1. L = SubSeq(s, Len(s) - n + 1, Len(s))
    BY <1>1 DEF LastBytes
  <2>2. L \in Seq(Nat) /\ Len(L) = n /\ \A i \in 1..n : L[i] = s[Len(s) - n + i]
    BY <1>1, <2>1
  <2> QED BY <1>1, <2>2, Zenon
<1>2. CASE ~(Len(s) > n)
  <2>1. L = SubSeq(s, 1, Len(s))
    BY <1>2 DEF LastBytes
  <2>2. L = s
    BY <2>1, SubSeqFull
  <2>3. \A i \in 1..Len(s) : s[i] = s[Len(s) - Len(s) + i]
    OBVIOUS
  <2> QED BY <1>2, <2>2, <2>3, Zenon
<1> QED BY <1>1, <1>2

\* The window is the same in rx_buf and in all that was received.
LEMMA SameWindow ==
  ASSUME NEW r \in Seq(Nat), NEW g \in Seq(Nat), TailOf(r, g)
  PROVE  LastBytes(r, Window) = LastBytes(g, Window)
<1> DEFINE R == LastBytes(r, Window)
           G == LastBytes(g, Window)
<1>1. /\ Len(r) <= Len(g) /\ (Len(r) >= TrimTo \/ Len(r) = Len(g))
      /\ \A i \in 1..Len(r) : r[i] = g[Len(g) - Len(r) + i]
  BY Zenon DEF TailOf
<1>2. /\ R \in Seq(Nat) /\ Len(R) = IF Len(r) > Window THEN Window ELSE Len(r)
      /\ \A i \in 1..Len(R) : R[i] = r[Len(r) - Len(R) + i]
  BY Sizes, LastBytesFacts, Zenon
<1>3. /\ G \in Seq(Nat) /\ Len(G) = IF Len(g) > Window THEN Window ELSE Len(g)
      /\ \A i \in 1..Len(G) : G[i] = g[Len(g) - Len(G) + i]
  BY Sizes, LastBytesFacts, Zenon
<1> HIDE DEF R, G
<1>4. Len(R) = Len(G) /\ Len(R) <= Len(r) /\ Len(R) \in Nat /\ Len(r) \in Nat /\ Len(g) \in Nat
  <2>1. Len(r) \in Nat /\ Len(g) \in Nat
    OBVIOUS
  <2>2. /\ Len(r) <= Len(g) /\ (Len(r) >= TrimTo \/ Len(r) = Len(g))
        /\ Len(R) = IF Len(r) > Window THEN Window ELSE Len(r)
        /\ Len(G) = IF Len(g) > Window THEN Window ELSE Len(g)
    BY <1>1, <1>2, <1>3, Zenon
  <2> QED BY <2>1, <2>2, Sizes
<1>5. ASSUME NEW i \in 1..Len(R) PROVE R[i] = G[i]
  <2> DEFINE j == Len(r) - Len(R) + i
  <2>1. j \in 1..Len(r) /\ Len(g) - Len(r) + j = Len(g) - Len(G) + i /\ i \in 1..Len(G)
    BY <1>4
  <2>2. R[i] = r[j] /\ G[i] = g[Len(g) - Len(G) + i]
    BY <1>2, <1>3, <2>1, Zenon
  <2>3. r[j] = g[Len(g) - Len(r) + j]
    <3> HIDE DEF j
    <3> QED BY <1>1, <2>1, Zenon
  <2> QED BY <2>1, <2>2, <2>3, Zenon
<1>6. R = G
  BY <1>2, <1>3, <1>4, <1>5, Same
<1> QED BY <1>6 DEF R, G

LEMMA TailJoin ==
  ASSUME NEW r \in Seq(Nat), NEW g \in Seq(Nat), NEW o \in Seq(Nat), TailOf(r, g)
  PROVE  TailOf(r \o o, g \o o)
<1>1. /\ Len(r) <= Len(g) /\ (Len(r) >= TrimTo \/ Len(r) = Len(g))
      /\ \A i \in 1..Len(r) : r[i] = g[Len(g) - Len(r) + i]
  BY Zenon DEF TailOf
<1>2. /\ Len(r) \in Nat /\ Len(g) \in Nat /\ Len(o) \in Nat
      /\ Len(r \o o) = Len(r) + Len(o) /\ Len(g \o o) = Len(g) + Len(o)
  BY Joined
<1>3. ASSUME NEW i \in 1..(Len(r) + Len(o))
      PROVE  (r \o o)[i] = (g \o o)[(Len(g) + Len(o)) - (Len(r) + Len(o)) + i]
  <2>1. (Len(g) + Len(o)) - (Len(r) + Len(o)) + i = Len(g) - Len(r) + i
    BY <1>2
  <2>2. CASE i <= Len(r)
    <3>1. i \in 1..Len(r) /\ Len(g) - Len(r) + i \in 1..Len(g)
      BY <1>1, <1>2, <2>2
    <3>2. (r \o o)[i] = r[i]
      BY <3>1, Joined, Zenon
    <3>3. (g \o o)[Len(g) - Len(r) + i] = g[Len(g) - Len(r) + i]
      BY <3>1, Joined, Zenon
    <3> QED BY <1>1, <2>1, <3>1, <3>2, <3>3, Zenon
  <2>3. CASE ~(i <= Len(r))
    <3>1. PICK j \in 1..Len(o) : i = Len(r) + j
      <4>1. i - Len(r) \in 1..Len(o) /\ i = Len(r) + (i - Len(r))
        BY <1>2, <2>3
      <4> QED BY <4>1, Zenon
    <3>2. Len(g) - Len(r) + i = Len(g) + j
      BY <1>2, <3>1
    <3>3. (r \o o)[Len(r) + j] = o[j] /\ (g \o o)[Len(g) + j] = o[j]
      BY Joined, Zenon
    <3> QED BY <2>1, <3>1, <3>2, <3>3, Zenon
  <2> QED BY <2>2, <2>3
<1>4. Len(r) + Len(o) <= Len(g) + Len(o)
      /\ (Len(r) + Len(o) >= TrimTo \/ Len(r) + Len(o) = Len(g) + Len(o))
  BY <1>1, <1>2, Sizes
<1> QED BY <1>2, <1>3, <1>4, Zenon DEF TailOf

LEMMA TailCut ==
  ASSUME NEW r \in Seq(Nat), NEW g \in Seq(Nat), TailOf(r, g), Len(r) > TrimAt
  PROVE  TailOf(LastBytes(r, TrimTo), g)
<1> DEFINE L == LastBytes(r, TrimTo)
<1>1. Len(r) <= Len(g) /\ \A i \in 1..Len(r) : r[i] = g[Len(g) - Len(r) + i]
  BY Zenon DEF TailOf
<1>2. /\ L \in Seq(Nat) /\ Len(L) = IF Len(r) > TrimTo THEN TrimTo ELSE Len(r)
      /\ \A i \in 1..Len(L) : L[i] = r[Len(r) - Len(L) + i]
  <2>1. TrimTo \in Nat /\ TrimTo >= 1
    BY Sizes
  <2> QED BY <2>1, LastBytesFacts, Zenon
<1> HIDE DEF L
<1>3. Len(L) = TrimTo /\ Len(L) <= Len(r) /\ Len(r) \in Nat /\ Len(g) \in Nat /\ TrimTo \in Nat
  BY <1>2, Sizes
<1>4. ASSUME NEW i \in 1..Len(L) PROVE L[i] = g[Len(g) - Len(L) + i]
  <2> DEFINE j == Len(r) - Len(L) + i
  <2>1. j \in 1..Len(r) /\ Len(g) - Len(r) + j = Len(g) - Len(L) + i
    BY <1>3
  <2>2. L[i] = r[j]
    BY <1>2, Zenon
  <2>3. r[j] = g[Len(g) - Len(r) + j]
    <3> HIDE DEF j
    <3> QED BY <1>1, <2>1, Zenon
  <2> QED BY <2>1, <2>2, <2>3, Zenon
<1>5. Len(L) <= Len(g) /\ Len(L) >= TrimTo
  BY <1>1, <1>3
<1>6. TailOf(L, g)
  BY <1>4, <1>5, Zenon DEF TailOf
<1> QED BY <1>6 DEF L

\* Extending and trimming rx_buf keeps it the end of what was received.
LEMMA ExtendFacts ==
  ASSUME NEW r \in Seq(Nat), NEW g \in Seq(Nat), NEW o \in Seq(Nat), TailOf(r, g)
  PROVE  /\ Extend(r, o) \in Seq(Nat) /\ Len(Extend(r, o)) <= TrimAt
         /\ TailOf(Extend(r, o), g \o o)
<1>1. r \o o \in Seq(Nat) /\ g \o o \in Seq(Nat) /\ TailOf(r \o o, g \o o)
  BY TailJoin, Joined, Zenon
<1>2. CASE Len(r \o o) > TrimAt
  <2>1. Extend(r, o) = LastBytes(r \o o, TrimTo)
    BY <1>2, Zenon DEF Extend
  <2>2. TailOf(Extend(r, o), g \o o)
    BY <1>1, <1>2, <2>1, TailCut, Zenon
  <2>3. TrimTo \in Nat /\ TrimTo >= 1 /\ TrimTo <= TrimAt /\ TrimAt \in Nat
    BY Sizes
  <2>4. /\ LastBytes(r \o o, TrimTo) \in Seq(Nat)
        /\ Len(LastBytes(r \o o, TrimTo)) = IF Len(r \o o) > TrimTo THEN TrimTo ELSE Len(r \o o)
    BY <1>1, <2>3, LastBytesFacts, Zenon
  <2>5. Len(r \o o) \in Nat
    BY <1>1
  <2>6. Len(LastBytes(r \o o, TrimTo)) <= TrimAt
    BY <1>2, <2>3, <2>4, <2>5
  <2> QED BY <2>1, <2>2, <2>4, <2>6, Zenon
<1>3. CASE ~(Len(r \o o) > TrimAt)
  <2>1. Extend(r, o) = r \o o
    BY <1>3, Zenon DEF Extend
  <2>2. Len(r \o o) \in Nat /\ TrimAt \in Nat
    BY <1>1, Sizes
  <2>3. Len(r \o o) <= TrimAt
    BY <1>3, <2>2
  <2> QED BY <1>1, <2>1, <2>3, Zenon
<1> QED BY <1>2, <1>3

-----------------------------------------------------------------------------
\* The invariant.

LEMMA TypeParts ==
  ASSUME TypeOK
  PROVE  /\ stream \in Streams /\ stream \in Seq(Frame)
         /\ wire \in Seq(Nat) /\ buf \in Seq(Nat) /\ out \in Seq(Nat)
         /\ rx_buf \in Seq(Nat) /\ got \in Seq(Nat) /\ up \in Seq(Nat)
         /\ Len(rx_buf) <= TrimAt /\ eof \in BOOLEAN /\ full \in BOOLEAN
         /\ pc \in {"handshake", "loop", "drain", "search", "send"} \cup Exits
         /\ loops \in 0..MaxLoops /\ sends \in 0..loops
<1>1. /\ stream \in Streams /\ \A s \in {wire, buf, out, rx_buf, got, up} : s \in Seq(Nat)
      /\ Len(rx_buf) <= TrimAt /\ eof \in BOOLEAN /\ full \in BOOLEAN
      /\ pc \in {"handshake", "loop", "drain", "search", "send"} \cup Exits
      /\ loops \in 0..MaxLoops /\ sends \in 0..loops
  BY Zenon DEF TypeOK
<1>2. Streams \subseteq Seq(Frame)
  BY FrameAssumption, Zenon
<1> QED BY <1>1, <1>2, Zenon

\* The unprimed parts of the invariant that a step of the receiver starts from.
LEMMA FramesOf ==
  ASSUME NEW fs \in Streams
  PROVE  /\ fs \in Seq(Frame) /\ Wire(fs) \in Seq(Nat)
         /\ \A i \in 1..Len(fs) : /\ fs[i] \in Frame
                                  /\ fs[i].ext \/ Len(fs[i].data) < 126
                                  /\ fs[i].op = Close => i = Len(fs)
<1>1. fs \in Seq(Frame) /\ DOMAIN fs = 1..Len(fs)
  <2>1. fs \in Seq(Frame)
    BY FrameAssumption, Zenon
  <2> QED BY <2>1
<1>2. \A i \in 1..Len(fs) : fs[i] \in Frame
  BY <1>1
<1>3. \A i \in 1..Len(fs) : /\ fs[i].ext \/ Len(fs[i].data) < 126
                            /\ fs[i].op = Close => i = Len(fs)
  BY <1>1, FrameAssumption, Zenon
<1>4. Wire(fs) \in Seq(Nat)
  BY <1>1, FramesFacts, Zenon
<1> QED BY <1>1, <1>2, <1>3, <1>4, Zenon

\* No frame is taken yet, and all are.
LEMMA Ends0 ==
  ASSUME NEW fs \in Seq(Frame)
  PROVE  /\ Data(SubSeq(fs, 1, 0)) = <<>> /\ Wire(SubSeq(fs, 0 + 1, Len(fs))) = Wire(fs)
         /\ Wire(SubSeq(fs, Len(fs) + 1, Len(fs))) = <<>>
<1>1. SubSeq(fs, 1, 0) = <<>> /\ SubSeq(fs, Len(fs) + 1, Len(fs)) = <<>>
  OBVIOUS
<1>2. SubSeq(fs, 0 + 1, Len(fs)) = fs
  <2>1. 0 + 1 = 1
    OBVIOUS
  <2>2. SubSeq(fs, 1, Len(fs)) = fs
    BY SubSeqFull
  <2> QED BY <2>1, <2>2, Zenon
<1> QED BY <1>1, <1>2, NoFrames, Zenon

LEMMA Nothing == <<>> \in Seq(Nat) /\ Len(<<>>) = 0 /\ ~Whole(<<>>) /\ ~Prompt(<<>>)
<1>1. <<>> \in Seq(Nat) /\ Len(<<>>) = 0
  OBVIOUS
<1>2. ~Whole(<<>>)
  BY <1>1 DEF Whole
<1>3. ~Prompt(<<>>)
  BY <1>1 DEF Prompt
<1> QED BY <1>1, <1>2, <1>3

LEMMA InvInit == Init => IInv
<1> SUFFICES ASSUME Init PROVE IInv
  OBVIOUS
<1>1. /\ stream \in Streams /\ wire = <<Resp, EndResp>> \o Wire(stream)
      /\ eof = FALSE /\ pc = "handshake"
      /\ buf = <<>> /\ out = <<>> /\ rx_buf = <<>> /\ full = TRUE /\ got = <<>> /\ up = <<>>
      /\ sends = 0 /\ loops = 0
  BY Zenon DEF Init
<1>2. Wire(stream) \in Seq(Nat) /\ <<Resp, EndResp>> \in Seq(Nat)
  <2>1. <<Resp, EndResp>> \in Seq(Nat)
    BY FrameAssumption
  <2> QED BY <1>1, <2>1, FramesOf, Zenon
<1>3. wire \in Seq(Nat)
  BY <1>1, <1>2, Joined, Zenon
<1>4. TypeOK
  <2>1. \A s \in {wire, buf, out, rx_buf, got, up} : s \in Seq(Nat)
    BY <1>1, <1>3, Nothing, Zenon
  <2>2. Len(rx_buf) <= TrimAt /\ loops \in 0..MaxLoops /\ sends \in 0..loops
    BY <1>1, Sizes, Nothing
  <2> QED BY <1>1, <2>1, <2>2, Zenon DEF TypeOK
<1>5. Receiving
  <2>1. buf \o wire = <<Resp, EndResp>> \o Wire(stream)
    BY <1>1, <1>3, WithEmpty
  <2> QED BY <1>1, <2>1, Zenon DEF Receiving
<1>6. Waits
  BY <1>1, Zenon DEF Waits
<1>7. Searched
  <2>1. TailOf(<<>>, <<>>)
    BY DEF TailOf
  <2>2. LastBytes(<<>>, Window) = <<>>
    <3>1. LastBytes(<<>>, Window) = SubSeq(<<>>, 1, 0)
      BY Sizes, Nothing DEF LastBytes
    <3> QED BY <3>1
  <2> QED BY <1>1, <2>1, <2>2, Nothing, Zenon DEF Searched
<1>8. Counted
  BY <1>1, Zenon DEF Counted
<1> QED BY <1>4, <1>5, <1>6, <1>7, <1>8 DEF IInv

\* Steps after the handshake that keep what is taken and what is left: the
\* invariant holds after them if the new state is typed.
Quiet ==
  /\ stream' = stream /\ rx_buf' = rx_buf /\ got' = got
  /\ pc \notin {"handshake", "raised"} /\ pc' # "handshake" /\ pc # "caught"
  /\ pc' # "raised" => Held' = Held /\ buf' \o wire' = buf \o wire

LEMMA QuietStep ==
  ASSUME IInv, Quiet
  PROVE  Receiving' /\ Searched'
<1>1. PICK k \in 0..Len(stream) : Flow(k)
  BY Zenon DEF IInv, Receiving, Quiet
<1>2. pc' # "raised" => Flow(k)'
  BY <1>1, Zenon DEF Flow, Quiet
<1>3. Receiving'
  BY <1>2, Zenon DEF Receiving, Quiet
<1>4. Searched'
  BY Zenon DEF IInv, Searched, Quiet
<1> QED BY <1>3, <1>4

\* The parts of TypeOK that concern the bytes, and the rest.
LEMMA TypeNext ==
  ASSUME stream' \in Streams,
         /\ wire' \in Seq(Nat) /\ buf' \in Seq(Nat) /\ out' \in Seq(Nat)
         /\ rx_buf' \in Seq(Nat) /\ got' \in Seq(Nat) /\ up' \in Seq(Nat),
         Len(rx_buf') <= TrimAt /\ eof' \in BOOLEAN /\ full' \in BOOLEAN,
         pc' \in {"handshake", "loop", "drain", "search", "send"} \cup Exits,
         loops' \in 0..MaxLoops /\ sends' \in 0..loops'
  PROVE  TypeOK'
<1>1. \A s \in {wire', buf', out', rx_buf', got', up'} : s \in Seq(Nat)
  BY Zenon
<1> QED BY <1>1, Zenon DEF TypeOK

\* One recv of the handshake: a part of the response, or the response and the
\* beginning of the stream.
LEMMA HandshakeStep ==
  ASSUME IInv, Handshake
  PROVE  IInv'
<1>1. /\ stream \in Streams /\ stream \in Seq(Frame)
      /\ wire \in Seq(Nat) /\ buf \in Seq(Nat) /\ out \in Seq(Nat)
      /\ rx_buf \in Seq(Nat) /\ got \in Seq(Nat) /\ up \in Seq(Nat)
      /\ Len(rx_buf) <= TrimAt /\ eof \in BOOLEAN /\ full \in BOOLEAN
      /\ loops \in 0..MaxLoops /\ sends \in 0..loops
  BY TypeParts, Zenon DEF IInv
<1>2. PICK n \in 1..Len(wire) :
        LET b == buf \o SubSeq(wire, 1, n)
            i == SelectInSeq(b, LAMBDA x : x = EndResp)
        IN  /\ wire' = SubSeq(wire, n + 1, Len(wire))
            /\ buf' = SubSeq(b, i + 1, Len(b))
            /\ pc' = IF i = 0 THEN "handshake" ELSE "loop"
  BY DEF Handshake
<1>3. /\ pc = "handshake"
      /\ UNCHANGED <<stream, eof, out, rx_buf, full, got, up, sends, loops>>
  BY DEF Handshake
<1> DEFINE b == buf \o SubSeq(wire, 1, n)
           w == SubSeq(wire, n + 1, Len(wire))
           i == SelectInSeq(b, LAMBDA x : x = EndResp)
           I == {j \in 1..Len(b) : b[j] = EndResp}
           R == <<Resp, EndResp>>
<1>4. /\ wire' = w /\ buf' = SubSeq(b, i + 1, Len(b))
      /\ pc' = IF i = 0 THEN "handshake" ELSE "loop"
  BY <1>2
<1>5. i = IF I # {} THEN Min(I) ELSE 0
  BY DEF SelectInSeq
<1>6. b \in Seq(Nat) /\ w \in Seq(Nat) /\ b \o w = buf \o wire /\ Len(b) >= 1
  <2>1. n \in 0..Len(wire)
    BY <1>1
  <2>2. b \in Seq(Nat) /\ w \in Seq(Nat) /\ b \o w = buf \o wire
    BY <1>1, <2>1, Moved, Zenon
  <2>3. Len(SubSeq(wire, 1, n)) = n /\ SubSeq(wire, 1, n) \in Seq(Nat)
    BY <1>1, <2>1, Cut, Zenon
  <2>4. Len(b) = Len(buf) + Len(SubSeq(wire, 1, n))
    BY <1>1, <2>3, Joined, Zenon
  <2>5. Len(b) >= 1
    <3> HIDE DEF b
    <3> QED BY <1>1, <2>3, <2>4
  <2> QED BY <2>2, <2>5, Zenon
<1>7. b \o w = R \o Wire(stream) /\ got = <<>>
  BY <1>3, <1>6, Zenon DEF IInv, Receiving
<1>8. /\ Wire(stream) \in Seq(Nat) /\ R \in Seq(Nat) /\ Len(R) = 2
      /\ R[1] = Resp /\ R[2] = EndResp /\ Resp # EndResp /\ Resp \in Nat /\ EndResp \in Nat
  <2>1. Resp \in Nat /\ EndResp \in Nat /\ Resp # EndResp
    BY FrameAssumption, Zenon
  <2>2. Wire(stream) \in Seq(Nat)
    BY <1>1, FramesOf, Zenon
  <2> QED BY <2>1, <2>2
<1> HIDE DEF b, w, R, i
<1>9. \A j \in 1..Len(b) : j <= 2 => b[j] = R[j]
  <2>1. \A j \in 1..Len(b) : j <= Len(R) => b[j] = R[j]
    BY <1>6, <1>7, <1>8, Agree
  <2> QED BY <1>8, <2>1, Zenon
<1>10. b[1] = Resp /\ (Len(b) >= 2 => b[2] = EndResp)
  BY <1>6, <1>8, <1>9
<1>11. CASE Len(b) = 1
  <2>1. I = {}
    BY <1>8, <1>10, <1>11
  <2>2. i = 0
    BY <1>5, <2>1, Zenon
  <2>3. buf' = b /\ pc' = "handshake"
    <3>1. 0 + 1 = 1 /\ SubSeq(b, 1, Len(b)) = b
      BY <1>6, SubSeqFull
    <3> QED BY <1>4, <2>2, <3>1, Zenon
  <2>4. b = <<Resp>>
    <3>1. <<Resp>> \in Seq(Nat) /\ Len(<<Resp>>) = 1 /\ <<Resp>>[1] = Resp
      BY <1>8
    <3>2. \A j \in 1..Len(b) : b[j] = <<Resp>>[j]
      BY <1>10, <1>11, <3>1
    <3> QED BY <1>6, <1>11, <3>1, <3>2, Same
  <2>5. Receiving'
    <3>1. buf' \o wire' = <<Resp, EndResp>> \o Wire(stream)
      BY <1>4, <1>7, <2>3, Zenon DEF R
    <3>2. buf' \in {<<>>, <<Resp>>} /\ got' = <<>> /\ stream' = stream /\ full' = TRUE
      BY <1>3, <1>7, <2>3, <2>4, Zenon DEF IInv, Receiving
    <3> QED BY <2>3, <3>1, <3>2, Zenon DEF Receiving
  <2>6. TypeOK'
    BY <1>1, <1>3, <1>4, <1>6, <2>3, TypeNext, Zenon
  <2>7. Waits' /\ Counted'
    BY <2>3, Zenon DEF Waits, Counted
  <2>8. Searched'
    BY <1>3, <2>3, Zenon DEF IInv, Searched
  <2> QED BY <2>5, <2>6, <2>7, <2>8 DEF IInv
<1>12. CASE Len(b) # 1
  <2>1. Len(b) >= 2 /\ Len(b) \in Nat
    <3>1. b \in Seq(Nat) /\ Len(b) >= 1
      BY <1>6
    <3>2. Len(b) \in Nat
      BY <3>1
    <3>3. \A x \in Nat : x >= 1 /\ x # 1 => x >= 2
      OBVIOUS
    <3> QED BY <1>12, <3>1, <3>2, <3>3, Zenon
  <2>2. 2 \in I /\ \A y \in I : 2 <= y
    BY <1>8, <1>10, <2>1
  <2>3. Min(I) = 2
    <3>1. \A x \in I : (\A y \in I : x =< y) => x = 2
      BY <2>2
    <3>2. Min(I) = CHOOSE x \in I : \A y \in I : x =< y
      BY Zenon DEF Min
    <3> HIDE DEF I
    <3> QED BY <2>2, <3>1, <3>2, Zenon
  <2>4. i = 2 /\ i # 0
    <3>1. I # {} /\ 2 # 0
      BY <2>2
    <3> QED BY <1>5, <2>3, <3>1, Zenon
  <2>5. buf' \in Seq(Nat) /\ buf' \o wire' = Wire(stream) /\ pc' = "loop"
    <3>1. /\ SubSeq(b, Len(R) + 1, Len(b)) \in Seq(Nat)
          /\ SubSeq(b, Len(R) + 1, Len(b)) \o w = Wire(stream)
      <4>1. Len(b) >= Len(R)
        BY <1>8, <2>1, Zenon
      <4>2. b \in Seq(Nat) /\ w \in Seq(Nat) /\ R \in Seq(Nat) /\ Wire(stream) \in Seq(Nat)
        BY <1>6, <1>8
      <4> QED BY <1>7, <4>1, <4>2, Stripped
    <3> QED BY <1>4, <1>8, <2>4, <3>1, Zenon
  <2>6. Receiving'
    <3>1. Data(SubSeq(stream, 1, 0)) = <<>> /\ Wire(SubSeq(stream, 0 + 1, Len(stream))) = Wire(stream)
      BY <1>1, Ends0, Zenon
    <3>2. got' \o Held' = <<>>
      <4>1. Held' = <<>> /\ got' = <<>>
        BY <1>3, <1>7, <2>5, Zenon DEF Held
      <4> QED BY <4>1, WithEmpty, Nothing, Zenon
    <3>3. Flow(0)'
      BY <1>3, <2>5, <3>1, <3>2, Zenon DEF Flow
    <3>4. 0 \in 0..Len(stream) /\ stream' = stream
      BY <1>1, <1>3
    <3> QED BY <2>5, <3>3, <3>4, Zenon DEF Receiving
  <2>7. TypeOK'
    BY <1>1, <1>3, <1>4, <1>6, <2>5, TypeNext, Zenon
  <2>8. full = TRUE
    BY <1>3, Zenon DEF IInv, Receiving
  <2>9. Waits' /\ Counted'
    BY <1>3, <2>5, <2>8, Zenon DEF Waits, Counted
  <2>10. Searched'
    BY <1>3, <2>5, Zenon DEF IInv, Searched
  <2> QED BY <2>6, <2>7, <2>9, <2>10 DEF IInv
<1> QED BY <1>11, <1>12

\* Bytes move from the wire to the leftover.
Moves(n) ==
  /\ buf' = buf \o SubSeq(wire, 1, n) /\ wire' = SubSeq(wire, n + 1, Len(wire))

LEMMA MovesFacts ==
  ASSUME TypeOK, NEW n \in 0..Len(wire), Moves(n)
  PROVE  buf' \in Seq(Nat) /\ wire' \in Seq(Nat) /\ buf' \o wire' = buf \o wire
<1>1. buf \in Seq(Nat) /\ wire \in Seq(Nat)
  BY TypeParts, Zenon
<1> QED BY <1>1, Moved, Zenon DEF Moves

LEMMA ReadableStep ==
  ASSUME IInv, Readable
  PROVE  IInv'
<1>1. /\ stream \in Streams /\ wire \in Seq(Nat) /\ buf \in Seq(Nat)
      /\ rx_buf \in Seq(Nat) /\ got \in Seq(Nat) /\ up \in Seq(Nat)
      /\ Len(rx_buf) <= TrimAt /\ eof \in BOOLEAN /\ full \in BOOLEAN
      /\ loops \in 0..MaxLoops /\ sends \in 0..loops
  BY TypeParts, Zenon DEF IInv
<1>2. /\ pc = "loop" /\ loops < MaxLoops /\ pc' = "drain" /\ out' = <<>>
      /\ UNCHANGED <<stream, eof, rx_buf, full, got, up, sends, loops>>
  BY Zenon DEF Readable
<1>3. buf' \in Seq(Nat) /\ wire' \in Seq(Nat) /\ buf' \o wire' = buf \o wire
  <2>1. CASE \E n \in 1..Len(wire) : Moves(n)
    <3>1. PICK n \in 1..Len(wire) : Moves(n)
      BY <2>1
    <3>2. n \in 0..Len(wire)
      BY <1>1
    <3> QED BY <3>1, <3>2, MovesFacts, Zenon DEF IInv
  <2>2. CASE UNCHANGED <<buf, wire>>
    BY <1>1, <2>2, Zenon
  <2> QED BY <2>1, <2>2, Zenon DEF Readable, Moves
<1>4. TypeOK'
  BY <1>1, <1>2, <1>3, Nothing, TypeNext, Zenon
<1>5. Held = <<>> /\ Held' = <<>>
  BY <1>2, Zenon DEF Held
<1>6. Receiving' /\ Searched'
  <2>1. Quiet
    BY <1>2, <1>3, <1>5, Zenon DEF Quiet
  <2> QED BY <2>1, QuietStep, Zenon
<1>7. Waits' /\ Counted'
  BY <1>2, Zenon DEF Waits, Counted
<1> QED BY <1>4, <1>6, <1>7 DEF IInv

\* A whole frame: the next one of the stream is taken.
LEMMA DrainFrameStep ==
  ASSUME IInv, DrainFrame
  PROVE  IInv'
<1>1. /\ stream \in Streams /\ stream \in Seq(Frame)
      /\ wire \in Seq(Nat) /\ buf \in Seq(Nat) /\ out \in Seq(Nat)
      /\ rx_buf \in Seq(Nat) /\ got \in Seq(Nat) /\ up \in Seq(Nat)
      /\ Len(rx_buf) <= TrimAt /\ eof \in BOOLEAN
      /\ loops \in 0..MaxLoops /\ sends \in 0..loops
  BY TypeParts, Zenon DEF IInv
<1>2. PICK n \in 0..Len(wire) :
       LET b == buf \o SubSeq(wire, 1, n)
           idx == HeaderLen(b)
           payload == SubSeq(b, idx + 1, idx + PayloadLen(b))
           all == IF b[1] \in DataOps THEN out \o payload ELSE out
       IN  /\ wire' = SubSeq(wire, n + 1, Len(wire))
           /\ Whole(b)
           /\ out' = all
           /\ buf' = IF b[1] = Close THEN <<>> ELSE SubSeq(b, idx + PayloadLen(b) + 1, Len(b))
           /\ full' = (b[1] # Close /\ Len(all) >= MaxBytes)
           /\ pc' = IF b[1] = Close \/ Len(all) >= MaxBytes THEN "search" ELSE "drain"
  BY DEF DrainFrame
<1>3. pc = "drain" /\ UNCHANGED <<stream, eof, rx_buf, got, up, sends, loops>>
  BY Zenon DEF DrainFrame
<1> DEFINE b == buf \o SubSeq(wire, 1, n)
           w == SubSeq(wire, n + 1, Len(wire))
           payload == SubSeq(b, HeaderLen(b) + 1, HeaderLen(b) + PayloadLen(b))
           left == SubSeq(b, HeaderLen(b) + PayloadLen(b) + 1, Len(b))
<1>4. /\ wire' = w /\ Whole(b)
      /\ out' = IF b[1] \in DataOps THEN out \o payload ELSE out
      /\ buf' = IF b[1] = Close THEN <<>> ELSE left
      /\ full' = (b[1] # Close /\ Len(out') >= MaxBytes)
      /\ pc' = IF b[1] = Close \/ Len(out') >= MaxBytes THEN "search" ELSE "drain"
  BY <1>2, Zenon
<1>5. b \in Seq(Nat) /\ w \in Seq(Nat) /\ b \o w = buf \o wire
  BY <1>1, Moved, Zenon
<1>6. PICK k \in 0..Len(stream) : Flow(k)
  BY <1>3, Zenon DEF IInv, Receiving
<1>7. /\ got \o out = Data(SubSeq(stream, 1, k))
      /\ b \o w = Wire(SubSeq(stream, k + 1, Len(stream)))
  BY <1>3, <1>5, <1>6, Zenon DEF Flow, Held
<1> HIDE DEF b, w, payload, left
<1>8. k # Len(stream)
  <2> SUFFICES ASSUME k = Len(stream) PROVE FALSE
    OBVIOUS
  <2>1. b \o w = <<>>
    BY <1>1, <1>7, Ends0, Zenon
  <2>2. b = <<>>
    BY <1>5, <2>1, BothEmpty, Zenon
  <2> QED BY <1>4, <2>2, Nothing, Zenon
<1> DEFINE f == stream[k + 1]
           rest == Wire(SubSeq(stream, (k + 1) + 1, Len(stream)))
<1>9. k \in 0..(Len(stream) - 1) /\ k + 1 \in 0..Len(stream) /\ k + 1 \in 1..Len(stream)
  BY <1>1, <1>6, <1>8
<1>10. /\ Wire(SubSeq(stream, k + 1, Len(stream))) = Bytes(f) \o rest
       /\ Data(SubSeq(stream, 1, k + 1)) = Data(SubSeq(stream, 1, k)) \o Part(f)
       /\ rest \in Seq(Nat) /\ f \in Frame
  BY <1>1, <1>9, NextFrame, Zenon
<1>11. (f.ext \/ Len(f.data) < 126) /\ (f.op = Close => k + 1 = Len(stream))
  BY <1>1, <1>9, FramesOf, Zenon
<1>12. f.op = Close => rest = <<>>
  <2>1. k + 1 = Len(stream) => rest = <<>>
    BY <1>1, Ends0, Zenon
  <2> QED BY <1>11, <2>1, Zenon
<1> HIDE DEF f, rest
<1>13. Starts(b, w, f, rest)
  BY <1>5, <1>7, <1>10, <1>11, Zenon DEF Starts
<1>14. b[1] = f.op /\ payload = f.data /\ left \in Seq(Nat) /\ left \o w = rest
  BY <1>4, <1>13, HeadFrame, Zenon DEF payload, left
<1>15. out' = out \o Part(f) /\ out' \in Seq(Nat)
  <2>1. Part(f) \in Seq(Nat)
    BY <1>10, FrameFacts, Zenon
  <2>2. out' = out \o Part(f)
    <3>1. CASE f.op \in DataOps
      BY <1>4, <1>14, <3>1, Zenon DEF Part
    <3>2. CASE f.op \notin DataOps
      <4>1. Part(f) = <<>> /\ out' = out
        BY <1>4, <1>14, <3>2, Zenon DEF Part
      <4> QED BY <1>1, <4>1, WithEmpty, Zenon
    <3> QED BY <3>1, <3>2
  <2> QED BY <1>1, <2>1, <2>2, Joined, Zenon
<1>16. buf' \in Seq(Nat) /\ wire' \in Seq(Nat) /\ buf' \o wire' = rest
  <2>1. CASE f.op = Close
    <3>1. rest = <<>>
      BY <1>12, <2>1
    <3>2. left = <<>> /\ w = <<>>
      BY <1>5, <1>14, <3>1, BothEmpty, Zenon
    <3>3. buf' = left /\ wire' = w
      BY <1>4, <1>14, <2>1, <3>2, Zenon
    <3> QED BY <1>5, <1>14, <3>3, Zenon
  <2>2. CASE f.op # Close
    BY <1>4, <1>5, <1>14, <2>2, Zenon
  <2> QED BY <2>1, <2>2
<1>17. pc' \in {"drain", "search"} /\ full' \in BOOLEAN
  BY <1>4, Zenon
<1>18. TypeOK'
  BY <1>1, <1>3, <1>15, <1>16, <1>17, TypeNext, Zenon
<1>19. Receiving'
  <2>1. got' \o Held' = got \o (out \o Part(f))
    <3>1. Held' = out'
      BY <1>17, Zenon DEF Held
    <3> QED BY <1>3, <1>15, <3>1, Zenon
  <2>2. Regroup(got, out, Part(f))
    <3>1. Part(f) \in Seq(Nat)
      BY <1>10, FrameFacts, Zenon
    <3>2. got \in Seq(Nat) /\ out \in Seq(Nat)
      BY <1>1
    <3> QED BY <3>1, <3>2, Assoc, Zenon
  <2>3. got' \o Held' = Data(SubSeq(stream, 1, k + 1))
    BY <1>7, <1>10, <2>1, <2>2, Zenon DEF Regroup
  <2>4. Flow(k + 1)'
    BY <1>3, <1>16, <2>3, Zenon DEF Flow, rest
  <2>5. stream' = stream /\ pc' # "handshake"
    BY <1>3, <1>17
  <2> QED BY <1>9, <2>4, <2>5, Zenon DEF Receiving
<1>20. Waits'
  <2> SUFFICES ASSUME pc' = "search", ~full' PROVE ~Whole(buf')
    BY <1>17, Zenon DEF Waits
  <2>1. b[1] = Close
    BY <1>4, Zenon
  <2>2. buf' = <<>>
    BY <1>4, <2>1, Zenon
  <2> QED BY <2>2, Nothing, Zenon
<1>21. Searched'
  BY <1>3, <1>17, Zenon DEF IInv, Searched
<1>22. Counted'
  BY <1>3, Zenon DEF IInv, Counted
<1> QED BY <1>18, <1>19, <1>20, <1>21, <1>22 DEF IInv

LEMMA DrainEndStep ==
  ASSUME IInv, DrainEnd
  PROVE  IInv'
<1>1. /\ stream \in Streams /\ wire \in Seq(Nat) /\ buf \in Seq(Nat) /\ out \in Seq(Nat)
      /\ rx_buf \in Seq(Nat) /\ got \in Seq(Nat) /\ up \in Seq(Nat)
      /\ Len(rx_buf) <= TrimAt /\ eof \in BOOLEAN
      /\ loops \in 0..MaxLoops /\ sends \in 0..loops
  BY TypeParts, Zenon DEF IInv
<1>2. /\ pc = "drain" /\ full' = FALSE /\ pc' = "search"
      /\ UNCHANGED <<stream, eof, out, rx_buf, got, up, sends, loops>>
  BY Zenon DEF DrainEnd
<1>3. PICK n \in 0..Len(wire) : Moves(n) /\ ~Whole(buf')
  BY Zenon DEF DrainEnd, Moves
<1>4. buf' \in Seq(Nat) /\ wire' \in Seq(Nat) /\ buf' \o wire' = buf \o wire
  BY <1>3, MovesFacts, Zenon DEF IInv
<1>5. TypeOK'
  BY <1>1, <1>2, <1>4, TypeNext, Zenon
<1>6. Receiving' /\ Searched'
  <2>1. Held' = Held
    BY <1>2, Zenon DEF Held
  <2>2. Quiet
    BY <1>2, <1>4, <2>1, Zenon DEF Quiet
  <2> QED BY <2>2, QuietStep, Zenon
<1>7. Waits'
  BY <1>3, Zenon DEF Waits
<1>8. Counted'
  BY <1>2, Zenon DEF IInv, Counted
<1> QED BY <1>5, <1>6, <1>7, <1>8 DEF IInv

\* What was received is appended; if it is not nothing it is searched.
LEMMA SearchStep ==
  ASSUME IInv, Search
  PROVE  IInv'
<1>1. /\ stream \in Streams /\ wire \in Seq(Nat) /\ buf \in Seq(Nat) /\ out \in Seq(Nat)
      /\ rx_buf \in Seq(Nat) /\ got \in Seq(Nat) /\ up \in Seq(Nat)
      /\ eof \in BOOLEAN /\ full \in BOOLEAN
      /\ loops \in 0..MaxLoops /\ sends \in 0..loops
  BY TypeParts, Zenon DEF IInv
<1>2. /\ pc = "search" /\ rx_buf' = Extend(rx_buf, out) /\ got' = got \o out
      /\ pc' = IF out # <<>> /\ Matches(LastBytes(rx_buf', Window)) THEN "caught" ELSE "send"
      /\ UNCHANGED <<stream, wire, eof, buf, out, full, up, sends, loops>>
  BY Zenon DEF Search
<1>3. pc' \in {"caught", "send"}
  BY <1>2, Zenon
<1>4. TailOf(rx_buf, got) /\ ~Prompt(LastBytes(got, Window))
  BY <1>2, Zenon DEF IInv, Searched
<1>5. rx_buf' \in Seq(Nat) /\ Len(rx_buf') <= TrimAt /\ TailOf(rx_buf', got')
  BY <1>1, <1>2, <1>4, ExtendFacts, Zenon
<1>6. got' \in Seq(Nat)
  BY <1>1, <1>2, Joined, Zenon
<1>7. TypeOK'
  <2>1. pc' \in {"handshake", "loop", "drain", "search", "send"} \cup Exits
    BY <1>3, Zenon DEF Exits
  <2> QED BY <1>1, <1>2, <1>5, <1>6, <2>1, TypeNext, Zenon
<1>8. Receiving'
  <2>1. PICK k \in 0..Len(stream) : Flow(k)
    BY <1>2, Zenon DEF IInv, Receiving
  <2>2. Held = out /\ Held' = <<>>
    BY <1>2, <1>3, Zenon DEF Held
  <2>3. got' \o Held' = got \o Held
    BY <1>2, <1>6, <2>2, WithEmpty, Zenon
  <2>4. Flow(k)'
    BY <1>2, <2>1, <2>3, Zenon DEF Flow
  <2> QED BY <1>2, <1>3, <2>4, Zenon DEF Receiving
<1>9. pc' # "caught" => ~Prompt(LastBytes(got', Window))
  <2>1. CASE out = <<>>
    <3>1. got' = got
      BY <1>1, <1>2, <2>1, WithEmpty, Zenon
    <3> QED BY <1>4, <3>1, Zenon
  <2>2. CASE out # <<>>
    <3>1. LastBytes(rx_buf', Window) = LastBytes(got', Window)
      BY <1>5, <1>6, SameWindow, Zenon
    <3> QED BY <1>2, <2>2, <3>1, Zenon DEF Matches
  <2> QED BY <2>1, <2>2
<1>10. Searched'
  BY <1>5, <1>9, Zenon DEF Searched
<1>11. Waits' /\ Counted'
  BY <1>2, Zenon DEF IInv, Waits, Counted
<1> QED BY <1>7, <1>8, <1>10, <1>11 DEF IInv

\* Steps that change neither the bytes received nor the leftover.
Idle ==
  /\ UNCHANGED <<stream, wire, buf, out, rx_buf, full, got>>
  /\ \/ pc = "loop" /\ pc' = "send" /\ loops' < MaxLoops
     \/ pc = "send" /\ pc' = "loop"
     \/ pc \in {"loop", "send"} /\ pc' = "gaveup"
     \/ pc \in {"handshake", "drain"} /\ pc' = "raised"

LEMMA IdleStep ==
  ASSUME IInv, Idle, up' \in Seq(Nat), eof' \in BOOLEAN,
         loops' \in 0..MaxLoops /\ sends' \in 0..loops'
  PROVE  IInv'
<1>1. /\ stream \in Streams /\ wire \in Seq(Nat) /\ buf \in Seq(Nat) /\ out \in Seq(Nat)
      /\ rx_buf \in Seq(Nat) /\ got \in Seq(Nat)
      /\ Len(rx_buf) <= TrimAt /\ full \in BOOLEAN
  BY TypeParts, Zenon DEF IInv
<1>2. TypeOK'
  <2>1. pc' \in {"handshake", "loop", "drain", "search", "send"} \cup Exits
    BY Zenon DEF Idle, Exits
  <2> QED BY <1>1, <2>1, TypeNext, Zenon DEF Idle
<1>3. Receiving' /\ Searched'
  <2>1. CASE pc = "handshake"
    BY <2>1, Zenon DEF IInv, Idle, Receiving, Searched
  <2>2. CASE pc # "handshake"
    <3>1. pc' # "raised" => Held = <<>> /\ Held' = <<>>
      BY Zenon DEF Idle, Held
    <3>2. Quiet
      BY <2>2, <3>1, Zenon DEF Idle, Quiet
    <3> QED BY <3>2, QuietStep, Zenon
  <2> QED BY <2>1, <2>2
<1>4. Counted'
  BY Zenon DEF Idle, Counted
<1>5. Waits'
  BY Zenon DEF IInv, Waits, Idle
<1> QED BY <1>2, <1>3, <1>4, <1>5 DEF IInv

\* What the steps without a receive do to the counters and to the connection.
LEMMA IdleActions ==
  ASSUME IInv,
         \/ HandshakeFails \/ NotReadable \/ DrainRaises
         \/ Send \/ SendBlocks \/ SendLater \/ GiveUp
  PROVE  IInv'
<1>1. /\ up \in Seq(Nat) /\ eof \in BOOLEAN /\ loops \in 0..MaxLoops /\ sends \in 0..loops
      /\ pc = "send" => loops < MaxLoops
  BY TypeParts, Zenon DEF IInv, Counted
<1>2. CASE HandshakeFails
  BY <1>1, <1>2, IdleStep, Zenon DEF HandshakeFails, Idle
<1>3. CASE NotReadable
  BY <1>1, <1>3, IdleStep, Zenon DEF NotReadable, Idle
<1>4. CASE DrainRaises
  BY <1>1, <1>4, IdleStep, Zenon DEF DrainRaises, Idle
<1>5. CASE GiveUp
  BY <1>1, <1>5, IdleStep, Zenon DEF GiveUp, Idle
<1>6. ASSUME NEW m \in 0..Len(Burst), ws_send_binary(m) PROVE up' \in Seq(Nat)
  <2>1. Burst \in Seq(Nat)
    BY FrameAssumption, Zenon
  <2>2. SubSeq(Burst, 1, m) \in Seq(Nat)
    BY <2>1, Cut, Zenon
  <2> QED BY <1>1, <1>6, <2>2, Joined, Zenon DEF ws_send_binary
<1>7. Len(Burst) \in Nat
  BY FrameAssumption
<1>8. pc = "send" => /\ loops + 1 \in 0..MaxLoops /\ sends + 1 \in 0..(loops + 1)
                     /\ sends \in 0..(loops + 1)
  BY <1>1, Sizes
<1>9. CASE Send
  <2>1. up' \in Seq(Nat)
    <3>1. Len(Burst) \in 0..Len(Burst)
      BY <1>7
    <3> QED BY <1>6, <1>9, <3>1, Zenon DEF Send
  <2> QED BY <1>1, <1>8, <1>9, <2>1, IdleStep, Zenon DEF Send, Idle
<1>10. CASE SendBlocks
  <2>1. up' \in Seq(Nat)
    <3>1. PICK m \in 0..(Len(Burst) - 1) : ws_send_binary(m)
      BY <1>10, Zenon DEF SendBlocks
    <3>2. m \in 0..Len(Burst)
      BY <1>7
    <3> QED BY <1>6, <3>1, <3>2, Zenon
  <2> QED BY <1>1, <1>8, <1>10, <2>1, IdleStep, Zenon DEF SendBlocks, Idle
<1>11. CASE SendLater
  BY <1>1, <1>8, <1>11, IdleStep, Zenon DEF SendLater, Idle
<1> QED BY <1>2, <1>3, <1>4, <1>5, <1>9, <1>10, <1>11

LEMMA StillStep ==
  ASSUME IInv, eof' \in BOOLEAN,
         UNCHANGED <<stream, wire, pc, buf, out, rx_buf, full, got, up, sends, loops>>
  PROVE  IInv'
<1>1. TypeOK'
  <2>1. /\ stream \in Streams /\ wire \in Seq(Nat) /\ buf \in Seq(Nat) /\ out \in Seq(Nat)
        /\ rx_buf \in Seq(Nat) /\ got \in Seq(Nat) /\ up \in Seq(Nat)
        /\ Len(rx_buf) <= TrimAt /\ full \in BOOLEAN
        /\ pc \in {"handshake", "loop", "drain", "search", "send"} \cup Exits
        /\ loops \in 0..MaxLoops /\ sends \in 0..loops
    BY TypeParts, Zenon DEF IInv
  <2> QED BY <2>1, TypeNext, Zenon
<1>2. Receiving' /\ Waits' /\ Searched' /\ Counted'
  BY Zenon DEF IInv, Receiving, Flow, Held, Waits, Searched, Counted
<1> QED BY <1>1, <1>2 DEF IInv

LEMMA InvStep == IInv /\ [Next]_vars => IInv'
<1> SUFFICES ASSUME IInv, [Next]_vars PROVE IInv'
  OBVIOUS
<1>1. eof \in BOOLEAN
  BY TypeParts, Zenon DEF IInv
<1>2. CASE ProbeCloses
  BY <1>2, StillStep, Zenon DEF ProbeCloses
<1>3. CASE Done \/ UNCHANGED vars
  BY <1>1, <1>3, StillStep, Zenon DEF Done, vars
<1> QED
  BY <1>2, <1>3, HandshakeStep, ReadableStep, DrainFrameStep, DrainEndStep, SearchStep,
     IdleActions, Zenon
  DEF Next, Host

-----------------------------------------------------------------------------
LEMMA Invariant == Spec => []IInv
  BY InvInit, InvStep, PTL DEF Spec

\* The buffers hold bytes and rx_buf never grows past its limit; no burst is
\* counted that the loop did not have the time for.
THEOREM TypeCorrect == Spec => []TypeOK
<1>1. IInv => TypeOK
  BY DEF IInv
<1> QED BY <1>1, Invariant, PTL

\* However TCP cuts the response and the frames, what ws_recv_all_available has
\* returned is the data of the first frames, in order, and its leftover and the
\* wire are the bytes of the others.
THEOREM StreamKept == Spec => []StreamIntact
<1>1. IInv => StreamIntact
  BY Zenon DEF IInv, Receiving, Flow, Held, StreamIntact
<1> QED BY <1>1, Invariant, PTL

\* While the tool goes on, no prompt is in the last Window bytes of all that was
\* received, wherever the frames and the trim of rx_buf cut the text.
THEOREM PromptFound == Spec => []PromptNotMissed
<1>1. IInv => PromptNotMissed
  BY Zenon DEF IInv, Searched, PromptNotMissed
<1> QED BY <1>1, Invariant, PTL

\* A receive call that ended because the socket was empty leaves less than the
\* next frame in the leftover.
THEOREM FramesTaken == Spec => []NoFrameWaits
<1>1. IInv => NoFrameWaits
  <2> SUFFICES ASSUME IInv, pc \in {"send", "loop"}, ~full, NEW k \in DOMAIN stream,
                      buf \o wire = Wire(SubSeq(stream, k, Len(stream)))
               PROVE  Len(buf) < Len(Bytes(stream[k]))
    BY Zenon DEF NoFrameWaits
  <2>1. stream \in Streams /\ stream \in Seq(Frame) /\ wire \in Seq(Nat) /\ buf \in Seq(Nat)
    BY TypeParts, Zenon DEF IInv
  <2>2. ~Whole(buf)
    BY Zenon DEF IInv, Waits
  <2>3. k \in 1..Len(stream) /\ k - 1 \in 0..(Len(stream) - 1) /\ (k - 1) + 1 = k
    BY <2>1
  <2> DEFINE f == stream[k]
             rest == Wire(SubSeq(stream, k + 1, Len(stream)))
  <2>4. f \in Frame /\ rest \in Seq(Nat)
        /\ Wire(SubSeq(stream, k, Len(stream))) = Bytes(f) \o rest
    <3>1. /\ stream[(k - 1) + 1] \in Frame
          /\ Wire(SubSeq(stream, (k - 1) + 1, Len(stream))) =
               Bytes(stream[(k - 1) + 1]) \o Wire(SubSeq(stream, ((k - 1) + 1) + 1, Len(stream)))
          /\ Wire(SubSeq(stream, ((k - 1) + 1) + 1, Len(stream))) \in Seq(Nat)
      BY <2>1, <2>3, NextFrame, Zenon
    <3> QED BY <2>3, <3>1, Zenon
  <2>5. f.ext \/ Len(f.data) < 126
    BY <2>1, <2>3, FramesOf, Zenon
  <2> HIDE DEF f, rest
  <2>6. Starts(buf, wire, f, rest)
    BY <2>1, <2>4, <2>5, Zenon DEF Starts
  <2>7. ~(Len(buf) >= Len(Bytes(f)))
    BY <2>2, <2>6, HeadFrame, Zenon
  <2>8. Len(buf) \in Nat /\ Len(Bytes(f)) \in Nat
    <3>1. Bytes(f) \in Seq(Nat)
      BY <2>4, BytesFacts, Zenon
    <3> QED BY <2>1, <3>1
  <2>9. Len(buf) < Len(Bytes(f))
    BY <2>7, <2>8
  <2> QED BY <2>9 DEF f
<1> QED BY <1>1, Invariant, PTL
=============================================================================
