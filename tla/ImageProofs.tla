----------------------------- MODULE ImageProofs -----------------------------
(***************************************************************************)
(* Proofs about the two modules that lay out images: ConfigBlob, for every *)
(* partition, header offset and set of payload and image sizes, and any    *)
(* number of pushes and cuts; BootImages, for every set of file sizes,     *)
(* command lines and pages.                                                *)
(***************************************************************************)
EXTENDS ConfigBlob, BootImages, TLAPS

(* ConfigBlob                                                              *)

Kinds == {"zero", "cfg", "bl", "pay", "img"}

Cell == Kinds \X Nat \X Nat

LEMMA IsCell ==
  ASSUME NEW kind \in Kinds, NEW id \in Nat, NEW n \in Nat
  PROVE  <<kind, id, n>> \in Cell
  BY DEF Cell

\* Max of FiniteSetsExt on two numbers.
LEMMA MaxOfTwo ==
  ASSUME NEW a \in Nat, NEW b \in Nat
  PROVE  Max({a, b}) = IF a >= b THEN a ELSE b
<1> DEFINE S == {a, b}
           P(x) == x \in S /\ \A y \in S : x >= y
           m == IF a >= b THEN a ELSE b
<1>1. P(m)
  OBVIOUS
<1>2. \A x : P(x) => x = m
  OBVIOUS
<1>3. Max(S) = CHOOSE x \in S : \A y \in S : x >= y
  BY Zenon DEF Max
<1>4. P(CHOOSE x \in S : \A y \in S : x >= y)
  BY <1>1, Zenon
<1> HIDE DEF m
<1>5. Max(S) = m
  BY <1>2, <1>3, <1>4, Zenon
<1> QED BY <1>5 DEF m

\* A slice assignment that starts inside the buffer or at its end leaves the
\* cells of s at off and the old ones elsewhere.
IsPut(p, buf, off, s) ==
  /\ p \in Seq(Cell) /\ Len(p) = IF Len(buf) >= off + Len(s) THEN Len(buf) ELSE off + Len(s)
  /\ \A i \in 1..Len(p) : p[i] = IF i \in (off + 1)..(off + Len(s)) THEN s[i - off] ELSE buf[i]

LEMMA PutFacts ==
  ASSUME NEW buf \in Seq(Cell), NEW off \in Nat, off <= Len(buf), NEW s \in Seq(Cell)
  PROVE  IsPut(Put(buf, off, s), buf, off, s)
<1> DEFINE n == IF Len(buf) >= off + Len(s) THEN Len(buf) ELSE off + Len(s)
           f == [i \in 1..n |-> IF i \in (off + 1)..(off + Len(s)) THEN s[i - off] ELSE buf[i]]
<1>1. Len(buf) \in Nat /\ Len(s) \in Nat /\ off + Len(s) \in Nat /\ n \in Nat
  OBVIOUS
<1>2. Put(buf, off, s) = f
  <2>1. Max({Len(buf), off + Len(s)}) = n
    BY <1>1, MaxOfTwo
  <2> HIDE DEF n
  <2> QED BY <2>1, Zenon DEF Put
<1>3. \A i \in 1..n : i \in (off + 1)..(off + Len(s)) => i - off \in 1..Len(s)
  BY <1>1
<1>4. \A i \in 1..n : i \notin (off + 1)..(off + Len(s)) => i \in 1..Len(buf)
  BY <1>1
<1>5. \A i \in 1..n : f[i] \in Cell
  <2> HIDE DEF n, Cell
  <2> QED BY <1>1, <1>3, <1>4
<1> HIDE DEF n
<1>6. f \in [1..n -> Cell] /\ DOMAIN f = 1..n
  BY <1>5
<1>7. \A i \in 1..n : f[i] = IF i \in (off + 1)..(off + Len(s)) THEN s[i - off] ELSE buf[i]
  OBVIOUS
<1> HIDE DEF f
<1>8. f \in Seq(Cell) /\ Len(f) = n
  BY <1>1, <1>6
<1> QED BY <1>2, <1>7, <1>8 DEF n, IsPut

LEMMA CellsFacts ==
  ASSUME NEW kind \in Kinds, NEW id \in Nat, NEW n \in Nat
  PROVE  /\ Cells(kind, id, n) \in Seq(Cell) /\ Len(Cells(kind, id, n)) = n
         /\ \A i \in 1..n : Cells(kind, id, n)[i] = <<kind, id, i>>
<1> DEFINE f == [i \in 1..n |-> <<kind, id, i>>]
<1>0. \A i \in 1..n : <<kind, id, i>> \in Cell
  BY IsCell
<1>1. f \in [1..n -> Cell] /\ DOMAIN f = 1..n /\ \A i \in 1..n : f[i] = <<kind, id, i>>
  BY <1>0, Zenon
<1>2. Cells(kind, id, n) = f
  BY DEF Cells
<1> HIDE DEF f
<1>3. f \in Seq(Cell) /\ Len(f) = n
  BY <1>1
<1> QED BY <1>1, <1>2, <1>3

LEMMA ZerosFacts ==
  ASSUME NEW n \in Nat
  PROVE  Zeros(n) \in Seq(Cell) /\ Len(Zeros(n)) = n
<1> DEFINE f == [i \in 1..n |-> Zero]
<1>0. Zero \in Cell
  BY IsCell DEF Kinds, Zero
<1>1. f \in [1..n -> Cell] /\ DOMAIN f = 1..n
  BY <1>0, Zenon
<1>2. Zeros(n) = f
  BY DEF Zeros
<1> HIDE DEF f
<1>3. f \in Seq(Cell) /\ Len(f) = n
  BY <1>1
<1> QED BY <1>2, <1>3

\* The config blob: its header, then the payload.
LEMMA BlobFacts ==
  ASSUME NEW id \in Nat, NEW n \in Nat
  PROVE  /\ cfg_blob(id, n) \in Seq(Cell) /\ Len(cfg_blob(id, n)) = n + 1
         /\ cfg_blob(id, n)[1] = <<"cfg", id, n>>
         /\ \A i \in 1..n : cfg_blob(id, n)[i + 1] = <<"pay", id, i>>
<1> DEFINE c == Cells("pay", id, n)
           h == <<"cfg", id, n>>
<1>0. {"cfg", "pay"} \subseteq Kinds
  BY DEF Kinds
<1>1. c \in Seq(Cell) /\ Len(c) = n /\ \A i \in 1..n : c[i] = <<"pay", id, i>>
  BY <1>0, CellsFacts
<1>2. h \in Cell
  BY <1>0, IsCell
<1>3. cfg_blob(id, n) = <<h>> \o c
  BY DEF cfg_blob
<1> HIDE DEF c, h
<1>4. <<h>> \in Seq(Cell) /\ Len(<<h>>) = 1 /\ <<h>>[1] = h
  BY <1>2
<1>5. <<h>> \o c \in Seq(Cell) /\ Len(<<h>> \o c) = n + 1 /\ (<<h>> \o c)[1] = h
  BY <1>1, <1>4
<1>6. \A i \in 1..n : (<<h>> \o c)[i + 1] = c[i]
  BY <1>1, <1>4
<1> QED BY <1>1, <1>3, <1>5, <1>6 DEF h

\* What a push of payload n and image k holds behind its first cell, and where.
Rest(s, id, n, k) ==
  /\ k = 0 \/ 1 + n <= BL_HDR_OFF => \A i \in 1..n : s[i + 1] = <<"pay", id, i>>
  /\ k > 0 => /\ s[BL_HDR_OFF + 1] = <<"bl", id, k>>
              /\ \A i \in 1..k : s[BL_IMG_OFF + i] = <<"img", id, i>>

\* The same with the header of the config; it fits the partition.
Arrives(s, id, n, k) == s[1] = <<"cfg", id, n>> /\ Rest(s, id, n, k)

LEMMA ImageFacts ==
  ASSUME NEW id \in Nat, NEW n \in PayloadSizes, NEW k \in ImageSizes
  PROVE  /\ CacheImage(id, n, k) \in Seq(Cell)
         /\ Len(CacheImage(id, n, k)) >= n + 1
         /\ k > 0 => Len(CacheImage(id, n, k)) >= BL_IMG_OFF + k
         /\ k = 0 => Len(CacheImage(id, n, k)) = n + 1
         /\ Len(CacheImage(id, n, k)) <= Size
         /\ Arrives(CacheImage(id, n, k), id, n, k)
<1> DEFINE B == BL_HDR_OFF
           c == cfg_blob(id, n)
<1>1. n \in Nat /\ n # 0 /\ k \in Nat /\ B \in Nat /\ B # 0 /\ BL_IMG_OFF = B + 1 /\ Size \in Nat
  BY LayoutAssumption DEF BL_IMG_OFF
<1>2. n + 1 <= Size /\ B + 1 + k <= Size
  <2>1. Size >= Max({n + 1, B + 1 + k})
    BY <1>1, LayoutAssumption
  <2>2. Max({n + 1, B + 1 + k}) = IF n + 1 >= B + 1 + k THEN n + 1 ELSE B + 1 + k
    BY <1>1, MaxOfTwo
  <2> QED BY <1>1, <2>1, <2>2
<1>3. /\ c \in Seq(Cell) /\ Len(c) = n + 1 /\ c[1] = <<"cfg", id, n>>
      /\ \A i \in 1..n : c[i + 1] = <<"pay", id, i>>
  BY <1>1, BlobFacts
<1> HIDE DEF c
<1>4. CASE k = 0
  <2>1. CacheImage(id, n, k) = c
    BY <1>4 DEF CacheImage, c
  <2>2. Arrives(c, id, n, k)
    BY <1>3, <1>4 DEF Arrives, Rest
  <2> QED BY <1>1, <1>2, <1>3, <1>4, <2>1, <2>2
<1>5. CASE k # 0
  <2> DEFINE z == Zeros(B + 1 + k)
             h == <<<<"bl", id, k>>>>
             g == Cells("img", id, k)
             p1 == Put(z, 0, c)
             p2 == Put(p1, B, h)
             p3 == Put(p2, B + 1, g)
             L == IF B + 1 + k >= n + 1 THEN B + 1 + k ELSE n + 1
  <2>1. CacheImage(id, n, k) = p3
    BY <1>1, <1>5 DEF CacheImage, c
  <2>2. z \in Seq(Cell) /\ Len(z) = B + 1 + k
    <3>1. B + 1 + k \in Nat
      BY <1>1
    <3> QED BY <3>1, ZerosFacts
  <2>a. {"bl", "img"} \subseteq Kinds
    BY DEF Kinds
  <2>3. h \in Seq(Cell) /\ Len(h) = 1 /\ h[1] = <<"bl", id, k>>
    <3> DEFINE x == <<"bl", id, k>>
    <3>1. x \in Cell
      BY <1>1, <2>a, IsCell
    <3> HIDE DEF x
    <3>2. <<x>> \in Seq(Cell) /\ Len(<<x>>) = 1 /\ <<x>>[1] = x
      BY <3>1
    <3> QED BY <3>2 DEF x
  <2>4. g \in Seq(Cell) /\ Len(g) = k /\ \A i \in 1..k : g[i] = <<"img", id, i>>
    BY <1>1, <2>a, CellsFacts
  <2>5. L \in Nat /\ L >= B + 1 + k /\ L >= n + 1 /\ L <= Size
    BY <1>1, <1>2
  <2> HIDE DEF z, h, g
  <2>6. /\ p1 \in Seq(Cell) /\ Len(p1) = L
        /\ \A i \in 1..L : p1[i] = IF i \in 1..(n + 1) THEN c[i] ELSE z[i]
    <3>1. /\ p1 \in Seq(Cell) /\ Len(p1) = IF Len(z) >= 0 + Len(c) THEN Len(z) ELSE 0 + Len(c)
          /\ \A i \in 1..Len(p1) : p1[i] = IF i \in (0 + 1)..(0 + Len(c)) THEN c[i - 0] ELSE z[i]
      <4>1. 0 \in Nat /\ 0 <= Len(z)
        BY <1>1, <2>2
      <4>2. IsPut(p1, z, 0, c)
        BY <1>3, <2>2, <4>1, PutFacts
      <4> HIDE DEF p1
      <4> QED BY <4>2, Zenon DEF IsPut
    <3> HIDE DEF p1
    <3>2. Len(p1) = L
      BY <1>1, <1>3, <2>2, <3>1
    <3>3. \A i \in 1..L : i - 0 = i
      BY <2>5
    <3> QED BY <1>1, <1>3, <2>5, <3>1, <3>2, <3>3
  <2> HIDE DEF L, p1
  <2>7. /\ p2 \in Seq(Cell) /\ Len(p2) = L
        /\ \A i \in 1..L : p2[i] = IF i = B + 1 THEN h[1] ELSE p1[i]
    <3>1. /\ p2 \in Seq(Cell) /\ Len(p2) = IF Len(p1) >= B + Len(h) THEN Len(p1) ELSE B + Len(h)
          /\ \A i \in 1..Len(p2) : p2[i] = IF i \in (B + 1)..(B + Len(h)) THEN h[i - B] ELSE p1[i]
      <4>1. B <= Len(p1)
        BY <1>1, <2>5, <2>6
      <4>2. p1 \in Seq(Cell) /\ h \in Seq(Cell) /\ B \in Nat
        BY <1>1, <2>3, <2>6
      <4> HIDE DEF B
      <4>3. IsPut(p2, p1, B, h)
        BY <4>1, <4>2, PutFacts
      <4> HIDE DEF p2
      <4> QED BY <4>3, Zenon DEF IsPut
    <3> HIDE DEF p2
    <3>2. Len(p2) = L
      BY <1>1, <2>3, <2>5, <2>6, <3>1
    <3>3. \A i \in 1..L : i \in (B + 1)..(B + 1) <=> i = B + 1
      BY <1>1, <2>5
    <3>4. B + 1 - B = 1
      BY <1>1
    <3>5. \A i \in 1..L : p2[i] = IF i = B + 1 THEN h[1] ELSE p1[i]
      <4>1. \A i \in 1..L : p2[i] = IF i \in (B + 1)..(B + 1) THEN h[i - B] ELSE p1[i]
        BY <2>3, <3>1, <3>2
      <4> TAKE i \in 1..L
      <4>2. CASE i = B + 1
        <5>1. i - B = 1 /\ i \in (B + 1)..(B + 1)
          BY <1>1, <4>2
        <5> QED BY <4>1, <4>2, <5>1
      <4>3. CASE i # B + 1
        BY <3>3, <4>1, <4>3
      <4> QED BY <4>2, <4>3
    <3> QED BY <3>1, <3>2, <3>5
  <2> HIDE DEF p2
  <2>8. /\ p3 \in Seq(Cell) /\ Len(p3) = L
        /\ \A i \in 1..L : p3[i] = IF i \in (B + 2)..(B + 1 + k) THEN g[i - (B + 1)] ELSE p2[i]
    <3>1. /\ p3 \in Seq(Cell)
          /\ Len(p3) = IF Len(p2) >= B + 1 + Len(g) THEN Len(p2) ELSE B + 1 + Len(g)
          /\ \A i \in 1..Len(p3) :
               p3[i] = IF i \in (B + 1 + 1)..(B + 1 + Len(g)) THEN g[i - (B + 1)] ELSE p2[i]
      <4>1. B + 1 \in Nat /\ B + 1 <= Len(p2)
        BY <1>1, <2>5, <2>7
      <4>2. IsPut(p3, p2, B + 1, g)
        BY <2>4, <2>7, <4>1, PutFacts
      <4> HIDE DEF p3
      <4> QED BY <4>2, Zenon DEF IsPut
    <3> HIDE DEF p3
    <3>2. Len(p3) = L
      BY <1>1, <2>4, <2>5, <2>7, <3>1
    <3>3. B + 1 + 1 = B + 2
      BY <1>1
    <3> QED BY <2>4, <3>1, <3>2, <3>3
  <2> HIDE DEF p3
  <2>9. k > 0 /\ p3[B + 1] = <<"bl", id, k>>
    <3>1. B + 1 \in 1..L /\ B + 1 \notin (B + 2)..(B + 1 + k) /\ k > 0
      BY <1>1, <1>5, <2>5
    <3> QED BY <2>3, <2>7, <2>8, <3>1
  <2>10. ASSUME NEW i \in 1..k PROVE p3[BL_IMG_OFF + i] = <<"img", id, i>>
    <3> DEFINE x == BL_IMG_OFF + i
    <3>1. x \in 1..L /\ x \in (B + 2)..(B + 1 + k) /\ x - (B + 1) = i
      BY <1>1, <2>5
    <3> HIDE DEF x
    <3>2. p3[x] = g[i]
      BY <2>8, <3>1
    <3>3. g[i] = <<"img", id, i>>
      BY <2>4
    <3> QED BY <3>2, <3>3 DEF x
  <2>11. ASSUME 1 + n <= B, NEW i \in 1..(n + 1) PROVE p3[i] = c[i]
    <3>1. i \in 1..L /\ i # B + 1 /\ i \notin (B + 2)..(B + 1 + k)
      BY <1>1, <2>5, <2>11
    <3> QED BY <2>6, <2>7, <2>8, <3>1
  <2>12. Arrives(p3, id, n, k)
    <3>1. 1 \in 1..(n + 1) /\ \A i \in 1..n : i + 1 \in 1..(n + 1)
      BY <1>1
    <3>2. 1 + n <= B => \A i \in 1..n : p3[i + 1] = <<"pay", id, i>>
      BY <1>3, <2>11, <3>1
    <3>3. p3[1] = <<"cfg", id, n>>
      <4>1. 1 \in 1..L /\ 1 # B + 1 /\ 1 \notin (B + 2)..(B + 1 + k) /\ 1 \in 1..(n + 1)
        BY <1>1, <2>5
      <4> QED BY <1>3, <2>6, <2>7, <2>8, <4>1
    <3> QED BY <1>5, <2>9, <2>10, <3>2, <3>3 DEF Arrives, Rest
  <2> QED BY <1>1, <1>5, <2>1, <2>5, <2>8, <2>12
<1> QED BY <1>4, <1>5

\* What holds of an image holds of the partition it was written over.
LEMMA ArrivesOver ==
  ASSUME NEW s, NEW c, NEW id, NEW n \in Nat, NEW k \in Nat, Arrives(s, id, n, k),
         Len(s) \in Nat, Len(s) >= n + 1, k > 0 => Len(s) >= BL_IMG_OFF + k,
         \A i \in 1..Len(s) : c[i] = s[i]
  PROVE  Arrives(c, id, n, k)
<1>0. BL_HDR_OFF \in Nat /\ BL_IMG_OFF = BL_HDR_OFF + 1
  BY LayoutAssumption DEF BL_IMG_OFF
<1>1. c[1] = s[1] /\ \A i \in 1..n : c[i + 1] = s[i + 1]
  <2>1. 1 \in 1..Len(s) /\ \A i \in 1..n : i + 1 \in 1..Len(s)
    OBVIOUS
  <2> QED BY <2>1, Zenon
<1>2. k > 0 => c[BL_HDR_OFF + 1] = s[BL_HDR_OFF + 1]
               /\ \A i \in 1..k : c[BL_IMG_OFF + i] = s[BL_IMG_OFF + i]
  <2>1. k > 0 => BL_HDR_OFF + 1 \in 1..Len(s) /\ \A i \in 1..k : BL_IMG_OFF + i \in 1..Len(s)
    BY <1>0
  <2> QED BY <2>1, Zenon
<1> QED BY <1>1, <1>2, Zenon DEF Arrives, Rest

-----------------------------------------------------------------------------
\* The inductive invariant: an image that is not flashed yet is that of the
\* last push, and a partition that was flashed whole holds that push, whatever
\* lies behind, but for the config header once it is consumed.  A config-only
\* push that ends below the bootloader header leaves the stage-2 as it was.

Pushed(p) == p.payload \in PayloadSizes /\ p.image \in ImageSizes /\ p.id \in Nat

Partition == cache \in Seq(Cell) /\ Len(cache) = Size

Built == out # <<>> => Pushed(push) /\ out = CacheImage(push.id, push.payload, push.image)

Holds ==
  last.id # 0 =>
    /\ Pushed(last) /\ Rest(cache, last.id, last.payload, last.image)
    /\ cache[1] = IF last.used THEN Zero ELSE <<"cfg", last.id, last.payload>>
    /\ last.image = 0 /\ Below => StagedBootloader = last.older
    /\ last.used => config = last.id

IInv == Partition /\ push.id \in Nat /\ last.used \in BOOLEAN /\ Built /\ Holds

\* Every push fits the partition.
LEMMA SizeFacts ==
  ASSUME NEW n \in PayloadSizes, NEW k \in ImageSizes
  PROVE  /\ n \in Nat /\ k \in Nat /\ BL_HDR_OFF \in Nat /\ BL_HDR_OFF >= 1 /\ Size \in Nat
         /\ BL_IMG_OFF = BL_HDR_OFF + 1 /\ 1 + n <= Size /\ BL_IMG_OFF + k <= Size /\ Size >= 1
<1>1. /\ n \in Nat /\ k \in Nat /\ BL_HDR_OFF \in Nat /\ BL_HDR_OFF >= 1 /\ Size \in Nat
      /\ BL_IMG_OFF = BL_HDR_OFF + 1 /\ Size >= Max({n + 1, BL_IMG_OFF + k})
  BY LayoutAssumption DEF BL_IMG_OFF
<1>2. n + 1 \in Nat /\ BL_IMG_OFF + k \in Nat
  BY <1>1
<1>3. Max({n + 1, BL_IMG_OFF + k}) = IF n + 1 >= BL_IMG_OFF + k THEN n + 1 ELSE BL_IMG_OFF + k
  BY <1>2, MaxOfTwo
<1> QED BY <1>1, <1>3

LEMMA NoneFacts == None.id = 0 /\ None.used = FALSE
  BY DEF None

\* What the updater finds depends on the cells from the bootloader header on.
LEMMA SameStage ==
  ASSUME Partition, Partition', BL_HDR_OFF \in Nat, BL_HDR_OFF < Size,
         \A i \in Nat : i > BL_HDR_OFF /\ i <= Size => cache'[i] = cache[i]
  PROVE  StagedBootloader' = StagedBootloader
<1>1. /\ cache \in Seq(Cell) /\ Len(cache) = Size /\ cache' \in Seq(Cell) /\ Len(cache') = Size
      /\ Size \in Nat /\ BL_IMG_OFF = BL_HDR_OFF + 1
  BY LayoutAssumption DEF Partition, BL_IMG_OFF
<1> DEFINE h == cache[BL_HDR_OFF + 1]
           from == BL_IMG_OFF
<1>2. cache'[BL_HDR_OFF + 1] = h /\ h \in Cell
  BY <1>1
<1>3. h[3] \in Nat
  BY <1>2 DEF Cell
<1> HIDE DEF h
<1>4. ASSUME from + h[3] <= Size
      PROVE  SubSeq(cache', from + 1, from + h[3]) = SubSeq(cache, from + 1, from + h[3])
  <2> DEFINE n == h[3]
             s == SubSeq(cache, from + 1, from + n)
             r == SubSeq(cache', from + 1, from + n)
  <2>1. n \in Nat /\ from + n <= Size /\ from \in Nat
    BY <1>1, <1>3, <1>4
  <2> HIDE DEF n
  <2>2. s \in Seq(Cell) /\ Len(s) = n /\ \A i \in 1..n : s[i] = cache[from + i]
    BY <1>1, <2>1
  <2>3. r \in Seq(Cell) /\ Len(r) = n /\ \A i \in 1..n : r[i] = cache'[from + i]
    BY <1>1, <2>1
  <2>4. \A i \in 1..n : cache'[from + i] = cache[from + i]
    BY <1>1, <2>1
  <2> HIDE DEF s, r
  <2>5. r = [i \in 1..n |-> r[i]] /\ s = [i \in 1..n |-> s[i]]
    BY <2>2, <2>3
  <2>6. \A i \in 1..n : r[i] = s[i]
    BY <2>2, <2>3, <2>4
  <2>7. r = s
    BY <2>5, <2>6
  <2> QED BY <2>7 DEF r, s, n
<1>5. StagedBootloader
      = IF /\ h[1] = "bl" /\ from + h[3] <= Size
           /\ SubSeq(cache, from + 1, from + h[3]) = Cells("img", h[2], h[3])
        THEN h[2] ELSE 0
  BY Zenon DEF StagedBootloader, Staged, h
<1>6. StagedBootloader'
      = IF /\ h[1] = "bl" /\ from + h[3] <= Size
           /\ SubSeq(cache', from + 1, from + h[3]) = Cells("img", h[2], h[3])
        THEN h[2] ELSE 0
  <2> DEFINE g == cache'[BL_HDR_OFF + 1]
  <2>1. StagedBootloader'
        = IF /\ g[1] = "bl" /\ from + g[3] <= Size
             /\ SubSeq(cache', from + 1, from + g[3]) = Cells("img", g[2], g[3])
          THEN g[2] ELSE 0
    BY Zenon DEF StagedBootloader, Staged
  <2> HIDE DEF g
  <2>2. g = h
    BY <1>2 DEF g
  <2> QED BY <2>1, <2>2, Zenon
<1> QED BY <1>4, <1>5, <1>6, Zenon

LEMMA InitIInv == Init => IInv
<1> SUFFICES ASSUME Init PROVE IInv
  OBVIOUS
<1>1. /\ cache = Zeros(Size) /\ out = <<>> /\ push = [id |-> 0, payload |-> 0, image |-> 0]
      /\ last = None
  BY Zenon DEF Init
<1>2. Partition
  BY <1>1, ZerosFacts, LayoutAssumption DEF Partition
<1>3. push.id \in Nat
  BY <1>1
<1>4. last.id = 0 /\ last.used \in BOOLEAN
  BY <1>1, NoneFacts
<1> QED BY <1>1, <1>2, <1>3, <1>4 DEF IInv, Built, Holds

LEMMA BuildStep == ASSUME IInv, Build PROVE IInv'
<1>1. PICK n \in PayloadSizes, k \in ImageSizes :
        /\ push' = [id |-> push.id + 1, payload |-> n, image |-> k]
        /\ out' = CacheImage(push.id + 1, n, k)
  BY Zenon DEF Build
<1>2. last' = last /\ cache' = cache /\ config' = config
  BY Zenon DEF Build
<1>3. push'.id = push.id + 1 /\ push'.payload = n /\ push'.image = k
  BY <1>1
<1>4. push'.id \in Nat
  BY <1>3 DEF IInv
<1>5. Built'
  BY <1>1, <1>2, <1>3, <1>4 DEF Built, Pushed
<1>6. Holds'
  <2>1. StagedBootloader' = StagedBootloader /\ Below' = Below
    BY <1>2 DEF StagedBootloader, Staged, Below
  <2> QED BY <1>2, <2>1 DEF IInv, Holds, Pushed, Rest
<1> QED BY <1>2, <1>4, <1>5, <1>6 DEF IInv, Partition

\* The image that waits to be flashed: its shape, and that it fits.
LEMMA OutFacts ==
  ASSUME IInv, out # <<>>
  PROVE  /\ push.id \in Nat /\ push.payload \in Nat /\ push.image \in Nat
         /\ out \in Seq(Cell) /\ Len(out) \in Nat /\ Len(out) >= push.payload + 1
         /\ push.image > 0 => Len(out) >= BL_IMG_OFF + push.image
         /\ push.image = 0 => Len(out) = push.payload + 1
         /\ Len(out) <= Size
         /\ Arrives(out, push.id, push.payload, push.image)
<1>1. push.payload \in PayloadSizes /\ push.image \in ImageSizes /\ push.id \in Nat
      /\ out = CacheImage(push.id, push.payload, push.image)
  BY Zenon DEF IInv, Built, Pushed
<1>2. push.payload \in Nat /\ push.image \in Nat
  BY <1>1, LayoutAssumption
<1>3. /\ out \in Seq(Cell) /\ Len(out) >= push.payload + 1
      /\ push.image > 0 => Len(out) >= BL_IMG_OFF + push.image
      /\ push.image = 0 => Len(out) = push.payload + 1
      /\ Len(out) <= Size
      /\ Arrives(out, push.id, push.payload, push.image)
  BY <1>1, ImageFacts
<1>4. Len(out) \in Nat
  BY <1>3
<1> QED BY <1>1, <1>2, <1>3, <1>4

\* Writing s at the start of the partition.
LEMMA Overwrite ==
  ASSUME Partition, NEW s \in Seq(Cell), Len(s) <= Size
  PROVE  /\ Put(cache, 0, s) \in Seq(Cell) /\ Len(Put(cache, 0, s)) = Size
         /\ \A i \in 1..Len(s) : Put(cache, 0, s)[i] = s[i]
         /\ \A i \in (Len(s) + 1)..Size : Put(cache, 0, s)[i] = cache[i]
<1>1. cache \in Seq(Cell) /\ Len(cache) = Size /\ Size \in Nat /\ Len(s) \in Nat
  BY LayoutAssumption DEF Partition
<1> DEFINE p == Put(cache, 0, s)
<1>2. /\ p \in Seq(Cell) /\ Len(p) = IF Len(cache) >= 0 + Len(s) THEN Len(cache) ELSE 0 + Len(s)
      /\ \A i \in 1..Len(p) : p[i] = IF i \in (0 + 1)..(0 + Len(s)) THEN s[i - 0] ELSE cache[i]
  <2>1. 0 \in Nat /\ 0 <= Len(cache)
    BY <1>1
  <2>2. IsPut(p, cache, 0, s)
    BY <1>1, <2>1, PutFacts
  <2> HIDE DEF p
  <2> QED BY <2>2, Zenon DEF IsPut
<1> HIDE DEF p
<1>3. Len(p) = Size
  BY <1>1, <1>2
<1>4. ASSUME NEW i \in 1..Len(s) PROVE p[i] = s[i]
  <2>1. i \in 1..Len(p) /\ i \in (0 + 1)..(0 + Len(s)) /\ i - 0 = i
    BY <1>1, <1>3
  <2>2. p[i] = s[i - 0]
    BY <1>2, <2>1
  <2> QED BY <2>1, <2>2
<1>5. ASSUME NEW i \in (Len(s) + 1)..Size PROVE p[i] = cache[i]
  <2>1. i \in 1..Len(p) /\ i \notin (0 + 1)..(0 + Len(s))
    BY <1>1, <1>3
  <2> QED BY <1>2, <2>1
<1> QED BY <1>2, <1>3, <1>4, <1>5 DEF p

LEMMA FlashStep == ASSUME IInv, Flash PROVE IInv'
<1>1. /\ out # <<>> /\ cache' = Put(cache, 0, out) /\ out' = <<>> /\ push' = push
      /\ last' = [id |-> push.id, payload |-> push.payload, image |-> push.image,
                  older |-> StagedBootloader, used |-> FALSE]
  BY Zenon DEF Flash
<1>2. /\ push.id \in Nat /\ push.payload \in Nat /\ push.image \in Nat
      /\ out \in Seq(Cell) /\ Len(out) \in Nat /\ Len(out) >= push.payload + 1
      /\ push.image > 0 => Len(out) >= BL_IMG_OFF + push.image
      /\ push.image = 0 => Len(out) = push.payload + 1
      /\ Len(out) <= Size
      /\ Arrives(out, push.id, push.payload, push.image)
  BY <1>1, OutFacts
<1>3. /\ cache' \in Seq(Cell) /\ Len(cache') = Size
      /\ \A i \in 1..Len(out) : cache'[i] = out[i]
      /\ \A i \in (Len(out) + 1)..Size : cache'[i] = cache[i]
  BY <1>1, <1>2, Overwrite DEF IInv
<1>4. Arrives(cache', push.id, push.payload, push.image)
  BY <1>2, <1>3, ArrivesOver
<1>5. /\ last'.id = push.id /\ last'.payload = push.payload /\ last'.image = push.image
      /\ last'.used = FALSE /\ last'.older = StagedBootloader
  BY <1>1
<1>6. Partition' /\ Built' /\ push'.id \in Nat /\ last'.used \in BOOLEAN
  BY <1>1, <1>2, <1>3, <1>5 DEF Partition, Built
<1>7. Pushed(push)
  BY <1>1, Zenon DEF IInv, Built
<1>8. ASSUME push.image = 0, 1 + push.payload <= BL_HDR_OFF
      PROVE  StagedBootloader' = StagedBootloader
  <2>1. BL_HDR_OFF \in Nat /\ Size \in Nat /\ BL_HDR_OFF < Size
    BY <1>7, SizeFacts DEF Pushed
  <2>2. \A i \in Nat : i > BL_HDR_OFF /\ i <= Size => cache'[i] = cache[i]
    BY <1>2, <1>3, <1>8, <2>1
  <2>3. Partition
    BY DEF IInv
  <2> QED BY <1>6, <2>1, <2>2, <2>3, SameStage
<1>9. last'.image = 0 /\ Below' => StagedBootloader' = last'.older
  BY <1>5, <1>8 DEF Below
<1>10. Holds'
  BY <1>4, <1>5, <1>7, <1>9 DEF Holds, Pushed, Arrives, Rest
<1> QED BY <1>6, <1>10 DEF IInv

LEMMA FlashCutStep == ASSUME IInv, FlashCut PROVE IInv'
<1>1. out # <<>> /\ out' = <<>> /\ last' = None /\ push' = push
  BY Zenon DEF FlashCut
<1>2. PICK j \in 0..(Len(out) - 1) : cache' = Put(cache, 0, SubSeq(out, 1, j))
  BY Zenon DEF FlashCut
<1>3. out \in Seq(Cell) /\ Len(out) \in Nat /\ Len(out) <= Size /\ Size \in Nat
  BY <1>1, OutFacts, LayoutAssumption
<1>4. SubSeq(out, 1, j) \in Seq(Cell) /\ Len(SubSeq(out, 1, j)) <= Size
  BY <1>3
<1>5. Partition'
  <2>1. Partition
    BY DEF IInv
  <2> QED BY <1>2, <1>4, <2>1, Overwrite DEF Partition
<1>6. last'.id = 0 /\ last'.used \in BOOLEAN
  BY <1>1, NoneFacts
<1> QED BY <1>1, <1>5, <1>6 DEF IInv, Built, Holds

\* The config header names the push, so no other push's config is found.
LEMMA ConfigIs ==
  ASSUME Partition, NEW id, NEW n,
         cache[1] = Zero \/ cache[1] = <<"cfg", id, n>>
  PROVE  StagedConfig = 0 \/ (cache[1] # Zero /\ StagedConfig = id)
<1> DEFINE h == cache[0 + 1]
<1>1. h = cache[1]
  OBVIOUS
<1>2. StagedConfig
      = IF /\ h[1] = "cfg" /\ 1 + h[3] <= Size
           /\ SubSeq(cache, 1 + 1, 1 + h[3]) = Cells("pay", h[2], h[3])
        THEN h[2] ELSE 0
  BY Zenon DEF StagedConfig, Staged, h
<1>3. CASE cache[1] = Zero
  <2>1. h[1] # "cfg"
    BY <1>1, <1>3 DEF Zero
  <2> QED BY <1>2, <2>1, Zenon
<1>4. CASE cache[1] = <<"cfg", id, n>>
  <2>1. h[2] = id /\ cache[1] # Zero
    BY <1>1, <1>4 DEF Zero
  <2> HIDE DEF h
  <2> QED BY <1>2, <2>1, Zenon
<1> QED BY <1>3, <1>4

LEMMA ApplyStep == ASSUME IInv, ApplyConfig PROVE IInv'
<1>1. /\ out = <<>> /\ out' = out /\ push' = push
      /\ StagedConfig # 0 /\ config' = StagedConfig
      /\ last' = [id |-> last.id, payload |-> last.payload, image |-> last.image,
                  older |-> last.older, used |-> last.id # 0]
      /\ cache' = [cache EXCEPT ![1] = Zero]
  BY Zenon DEF ApplyConfig
<1>2. Zero \in Cell
  BY IsCell DEF Kinds, Zero
<1>3. Partition' /\ \A i \in Nat : i > 1 /\ i <= Size => cache'[i] = cache[i]
  <2>1. cache \in Seq(Cell) /\ Len(cache) = Size /\ Size \in Nat
    BY LayoutAssumption DEF IInv, Partition
  <2>2. cache' \in Seq(Cell) /\ Len(cache') = Len(cache)
    <3>1. Len(cache) \in Nat /\ DOMAIN cache = 1..Len(cache) /\ cache \in [1..Len(cache) -> Cell]
      BY <2>1
    <3>2. cache' \in [1..Len(cache) -> Cell]
      BY <1>1, <1>2, <3>1
    <3> QED BY <3>1, <3>2
  <2>3. \A i \in Nat : i > 1 /\ i <= Size => cache'[i] = cache[i]
    BY <1>1, <2>1
  <2> QED BY <2>1, <2>2, <2>3 DEF Partition
<1>4. CASE last.id = 0
  <2>1. last'.used \in BOOLEAN /\ last'.id = 0
    BY <1>1, <1>4 DEF None
  <2> QED BY <1>1, <1>3, <2>1 DEF IInv, Built, Holds
<1>5. CASE last.id # 0
  <2> DEFINE n == last.payload
             k == last.image
             id == last.id
  <2>1. /\ Pushed(last) /\ Rest(cache, id, n, k) /\ last.used \in BOOLEAN
        /\ cache[1] = IF last.used THEN Zero ELSE <<"cfg", id, n>>
    BY <1>5 DEF IInv, Holds
  <2>2. config' = id
    <3>1. cache[1] = Zero \/ cache[1] = <<"cfg", id, n>>
      BY <2>1
    <3> QED BY <1>1, <3>1, ConfigIs DEF IInv
  <2>3. /\ last'.used = TRUE /\ last'.id = id /\ last'.payload = n /\ last'.image = k
        /\ last'.older = last.older
    BY <1>1, <1>5
  <2>4. cache'[1] = Zero
    <3>1. Size \in Nat /\ Size >= 1
      BY <2>1, SizeFacts DEF Pushed
    <3>2. 1 \in DOMAIN cache
      BY <3>1 DEF IInv, Partition
    <3> QED BY <1>1, <3>2
  <2>5. Rest(cache', id, n, k)
    <3>1. /\ n \in Nat /\ k \in Nat /\ BL_HDR_OFF \in Nat /\ BL_HDR_OFF >= 1 /\ Size \in Nat
          /\ BL_IMG_OFF = BL_HDR_OFF + 1 /\ 1 + n <= Size /\ BL_IMG_OFF + k <= Size
      BY <2>1, SizeFacts DEF Pushed
    <3> HIDE DEF n, k, id
    <3>2. \A i \in 1..n : cache'[i + 1] = cache[i + 1]
      BY <1>3, <3>1
    <3>3. cache'[BL_HDR_OFF + 1] = cache[BL_HDR_OFF + 1]
      BY <1>3, <3>1
    <3>4. \A i \in 1..k : cache'[BL_IMG_OFF + i] = cache[BL_IMG_OFF + i]
      BY <1>3, <3>1
    <3>5. Rest(cache, id, n, k)
      BY <2>1 DEF n, k, id
    <3> QED BY <3>2, <3>3, <3>4, <3>5 DEF Rest
  <2>6. StagedBootloader' = StagedBootloader /\ Below' = Below
    <3>1. BL_HDR_OFF \in Nat /\ BL_HDR_OFF >= 1 /\ Size \in Nat /\ BL_HDR_OFF < Size
      BY <2>1, SizeFacts DEF Pushed
    <3>2. \A i \in Nat : i > BL_HDR_OFF /\ i <= Size => cache'[i] = cache[i]
      BY <1>3, <3>1
    <3>3. StagedBootloader' = StagedBootloader
      BY <1>3, <3>1, <3>2, SameStage DEF IInv
    <3> QED BY <2>3, <3>3 DEF Below
  <2>7. last.image = 0 /\ Below => StagedBootloader = last.older
    BY <1>5 DEF IInv, Holds
  <2>8. Holds'
    BY <2>1, <2>2, <2>3, <2>4, <2>5, <2>6, <2>7 DEF Holds, Pushed, Rest
  <2> QED BY <1>1, <1>3, <2>3, <2>8 DEF IInv, Built
<1> QED BY <1>4, <1>5

LEMMA StepIInv == IInv /\ [Next]_vars => IInv'
<1> SUFFICES ASSUME IInv, [Next]_vars PROVE IInv'
  OBVIOUS
<1>1. ASSUME cache' = cache, out' = out, push' = push, last' = last, config' = config PROVE IInv'
  <2>1. Partition' /\ push'.id \in Nat /\ last'.used \in BOOLEAN
    BY <1>1, Zenon DEF IInv, Partition
  <2>2. Built'
    BY <1>1, Zenon DEF IInv, Built, Pushed
  <2>3. Holds'
    <3>1. StagedBootloader' = StagedBootloader /\ Below' = Below
      BY <1>1 DEF StagedBootloader, Staged, Below
    <3> QED BY <1>1, <3>1 DEF IInv, Holds, Pushed, Rest
  <2> QED BY <2>1, <2>2, <2>3 DEF IInv
<1>2. CASE UpdateBootloader \/ UNCHANGED vars
  BY <1>1, <1>2, Zenon DEF UpdateBootloader, vars
<1> QED BY <1>2, BuildStep, FlashStep, FlashCutStep, ApplyStep, Zenon DEF Next

\* The readers accept a blob whose header and cells are all there.
Whole(magic, at, kind, from, id, n) ==
  /\ at \in Nat /\ kind \in Kinds /\ from \in Nat /\ id \in Nat /\ n \in Nat /\ from + n <= Size
  /\ cache[at + 1] = <<magic, id, n>>
  /\ \A i \in 1..n : cache[from + i] = <<kind, id, i>>

LEMMA StagedIs ==
  ASSUME Partition, NEW magic, NEW at, NEW kind, NEW from, NEW id, NEW n,
         Whole(magic, at, kind, from, id, n)
  PROVE  Staged(magic, at, kind, from) = id
<1>0. /\ at \in Nat /\ kind \in Kinds /\ from \in Nat /\ id \in Nat /\ n \in Nat /\ from + n <= Size
      /\ cache[at + 1] = <<magic, id, n>>
      /\ \A i \in 1..n : cache[from + i] = <<kind, id, i>>
  BY Zenon DEF Whole
<1> DEFINE h == cache[at + 1]
           s == SubSeq(cache, from + 1, from + n)
<1>1. h[1] = magic /\ h[2] = id /\ h[3] = n
  BY <1>0
<1>2. cache \in Seq(Cell) /\ Len(cache) = Size /\ Size \in Nat
  BY LayoutAssumption DEF Partition
<1>3. s = Cells(kind, id, n)
  <2>1. s \in Seq(Cell) /\ Len(s) = n /\ \A i \in 1..n : s[i] = cache[from + i]
    BY <1>0, <1>2
  <2>2. /\ Cells(kind, id, n) \in Seq(Cell) /\ Len(Cells(kind, id, n)) = n
        /\ \A i \in 1..n : Cells(kind, id, n)[i] = <<kind, id, i>>
    BY <1>0, CellsFacts
  <2> HIDE DEF s
  <2>3. \A i \in 1..n : s[i] = Cells(kind, id, n)[i]
    BY <1>0, <2>1, <2>2
  <2>4. s = [i \in 1..n |-> s[i]] /\ Cells(kind, id, n) = [i \in 1..n |-> Cells(kind, id, n)[i]]
    BY <2>1, <2>2
  <2> QED BY <2>3, <2>4
<1> HIDE DEF h, s
<1>4. Staged(magic, at, kind, from)
      = IF /\ h[1] = magic /\ from + h[3] <= Size
           /\ SubSeq(cache, from + 1, from + h[3]) = Cells(kind, h[2], h[3])
        THEN h[2] ELSE 0
  BY Zenon DEF Staged, h
<1>5. SubSeq(cache, from + 1, from + h[3]) = s
  BY <1>1 DEF s
<1> QED BY <1>0, <1>1, <1>3, <1>4, <1>5, Zenon

\* Another kind of cell where the header should be: nothing is found.
LEMMA StagedNot ==
  ASSUME NEW magic, NEW at, NEW kind, NEW from, cache[at + 1][1] # magic
  PROVE  Staged(magic, at, kind, from) = 0
  BY DEF Staged

\* What both readers find after a push that was flashed whole, whatever earlier and
\* interrupted pushes left in the partition: the stage-2 of that push, or after a
\* config-only push the older one unless the payload went over it; the config
\* until it is consumed, unless the bootloader header went over it; and no config
\* of another push is ever applied (main, fastboot, the two readers).
THEOREM PushesArrive == Spec => []PushArrives
<1>1. IInv => PushArrives
  <2> SUFFICES ASSUME IInv, last.id # 0
               PROVE  /\ StagedBootloader = IF last.image > 0 THEN last.id
                                            ELSE IF Below THEN last.older ELSE 0
                      /\ StagedConfig = IF ~last.used /\ (last.image = 0 \/ Below)
                                        THEN last.id ELSE 0
                      /\ last.used => config = last.id
    BY Zenon DEF PushArrives
  <2> DEFINE n == last.payload
             k == last.image
             id == last.id
  <2>1. /\ n \in PayloadSizes /\ k \in ImageSizes /\ id \in Nat
        /\ Rest(cache, id, n, k) /\ Partition
        /\ cache[1] = IF last.used THEN Zero ELSE <<"cfg", id, n>>
        /\ last.used => config = id
    BY DEF IInv, Holds, Pushed
  <2>2. /\ n \in Nat /\ k \in Nat /\ id \in Nat /\ BL_HDR_OFF \in Nat /\ Size \in Nat
        /\ BL_IMG_OFF = BL_HDR_OFF + 1 /\ 1 + n <= Size /\ BL_IMG_OFF + k <= Size
        /\ BL_HDR_OFF >= 1
    BY <2>1, SizeFacts
  <2>4. k = 0 /\ Below => StagedBootloader = last.older
    BY DEF IInv, Holds
  <2>14. Below <=> 1 + n <= BL_HDR_OFF
    BY DEF Below
  <2>3. {"pay", "img"} \subseteq Kinds
    BY DEF Kinds
  <2> HIDE DEF n, k, id
  <2>5. ASSUME ~last.used, k = 0 \/ 1 + n <= BL_HDR_OFF PROVE StagedConfig = id
    <3>1. cache[1] = <<"cfg", id, n>> /\ \A i \in 1..n : cache[i + 1] = <<"pay", id, i>>
      BY <2>1, <2>5, Zenon DEF Rest
    <3>2. 0 + 1 = 1 /\ \A i \in 1..n : 1 + i = i + 1
      BY <2>2
    <3>3. cache[0 + 1] = <<"cfg", id, n>> /\ \A i \in 1..n : cache[1 + i] = <<"pay", id, i>>
      BY <3>1, <3>2
    <3>4. 0 \in Nat /\ 1 \in Nat /\ "pay" \in Kinds
      BY <2>3
    <3>5. Staged("cfg", 0, "pay", 1) = id
      <4>1. Whole("cfg", 0, "pay", 1, id, n)
        BY <2>2, <3>3, <3>4 DEF Whole
      <4> QED BY <2>1, <4>1, StagedIs
    <3> QED BY <3>5 DEF StagedConfig
  <2>6. ASSUME k > 0 PROVE StagedBootloader = id
    <3>1. /\ cache[BL_HDR_OFF + 1] = <<"bl", id, k>>
          /\ \A i \in 1..k : cache[BL_IMG_OFF + i] = <<"img", id, i>>
      BY <2>1, <2>6, Zenon DEF Rest
    <3>2. BL_IMG_OFF \in Nat /\ "img" \in Kinds
      BY <2>2, <2>3
    <3>3. Staged("bl", BL_HDR_OFF, "img", BL_IMG_OFF) = id
      <4>1. Whole("bl", BL_HDR_OFF, "img", BL_IMG_OFF, id, k)
        BY <2>2, <3>1, <3>2 DEF Whole
      <4> QED BY <2>1, <4>1, StagedIs
    <3> QED BY <3>3 DEF StagedBootloader
  <2>7. ASSUME k = 0, ~(1 + n <= BL_HDR_OFF) PROVE StagedBootloader = 0
    <3>1. BL_HDR_OFF \in 1..n
      BY <2>2, <2>7
    <3>2. cache[BL_HDR_OFF + 1] = <<"pay", id, BL_HDR_OFF>>
      BY <2>1, <2>7, <3>1, Zenon DEF Rest
    <3>3. cache[BL_HDR_OFF + 1][1] # "bl"
      BY <3>2
    <3> QED BY <3>3, StagedNot, Zenon DEF StagedBootloader
  <2>8. ASSUME last.used PROVE StagedConfig = 0
    <3>1. cache[0 + 1][1] # "cfg"
      BY <2>1, <2>8 DEF Zero
    <3> QED BY <3>1, StagedNot, Zenon DEF StagedConfig
  <2>9. ASSUME ~last.used, k > 0, ~(1 + n <= BL_HDR_OFF) PROVE StagedConfig = 0
    <3> DEFINE c == SubSeq(cache, 1 + 1, 1 + n)
               h == cache[0 + 1]
    <3>1. BL_HDR_OFF \in 1..n
      BY <2>2, <2>9
    <3>2. cache[BL_HDR_OFF + 1] = <<"bl", id, k>>
      BY <2>1, <2>9, Zenon DEF Rest
    <3>3. cache \in Seq(Cell) /\ Len(cache) = Size
      BY <2>1 DEF Partition
    <3>4. c[BL_HDR_OFF] = cache[BL_HDR_OFF + 1]
      BY <2>2, <3>1, <3>3
    <3>5. Cells("pay", id, n)[BL_HDR_OFF] = <<"pay", id, BL_HDR_OFF>>
      BY <2>2, <2>3, <3>1, CellsFacts
    <3> HIDE DEF c
    <3>6. c # Cells("pay", id, n)
      BY <3>2, <3>4, <3>5
    <3>7. h[2] = id /\ h[3] = n
      BY <2>1, <2>9
    <3>8. StagedConfig
          = IF /\ h[1] = "cfg" /\ 1 + h[3] <= Size
               /\ SubSeq(cache, 1 + 1, 1 + h[3]) = Cells("pay", h[2], h[3])
            THEN h[2] ELSE 0
      BY Zenon DEF StagedConfig, Staged
    <3> HIDE DEF h
    <3>9. SubSeq(cache, 1 + 1, 1 + h[3]) # Cells("pay", h[2], h[3])
      BY <3>6, <3>7 DEF c
    <3> QED BY <3>8, <3>9, Zenon
  <2>10. k = 0 \/ k > 0
    BY <2>2
  <2>11. StagedBootloader = IF k > 0 THEN id ELSE IF Below THEN last.older ELSE 0
    BY <2>4, <2>6, <2>7, <2>14, <2>10, Zenon
  <2>12. ~(k = 0 /\ k > 0)
    BY <2>2
  <2>13. StagedConfig = IF ~last.used /\ (k = 0 \/ Below) THEN id ELSE 0
    BY <2>5, <2>8, <2>9, <2>14, <2>10, <2>12, Zenon
  <2> QED BY <2>1, <2>11, <2>13 DEF n, k, id
<1> QED BY <1>1, InitIInv, StepIInv, PTL DEF Spec

-----------------------------------------------------------------------------
(* BootImages: lengths and offsets                                         *)

LEMMA AlignFacts ==
  ASSUME NEW n \in Nat, NEW a \in Nat \ {0}
  PROVE  Align(n, a) \in Nat /\ Align(n, a) >= n /\ Align(n, a) - n \in Nat
<1>1. Align(n, a) \in Nat /\ Align(n, a) >= n
  BY DEF Align
<1> QED BY <1>1

\* What fits one page takes one, nothing takes none.
LEMMA AlignOne ==
  ASSUME NEW n \in Nat, NEW a \in Nat \ {0}, n <= a
  PROVE  n > 0 => Align(n, a) = a
<1> SUFFICES ASSUME n > 0 PROVE Align(n, a) = a
  OBVIOUS
<1>1. (n + a - 1) \div a = 1
  <2>1. n + a - 1 = 1 * a + (n - 1) /\ 0 <= n - 1 /\ n - 1 < a
    OBVIOUS
  <2> QED BY <2>1
<1> QED BY <1>1 DEF Align

LEMMA AlignZero ==
  ASSUME NEW a \in Nat \ {0}
  PROVE  Align(0, a) = 0
<1>1. (0 + a - 1) \div a = 0
  OBVIOUS
<1> QED BY <1>1 DEF Align

\* A reader of an image finds the same in the one it was extended to.
Extended(img, big) ==
  /\ img.len <= big.len
  /\ \A o \in DOMAIN img.at : o \in DOMAIN big.at /\ big.at[o] = img.at[o]

\* The segment is there.
SegAt(img, o, what, n) == o \in DOMAIN img.at /\ img.at[o] = Seg(what, n)

LEMMA ExtendedTwice ==
  ASSUME NEW a, NEW b, NEW c, a.len \in Nat, b.len \in Nat, c.len \in Nat,
         Extended(a, b), Extended(b, c)
  PROVE  Extended(a, c)
<1>1. a.len <= c.len
  BY DEF Extended
<1>2. \A o \in DOMAIN a.at : o \in DOMAIN c.at /\ c.at[o] = a.at[o]
  BY Zenon DEF Extended
<1> QED BY <1>1, <1>2, Zenon DEF Extended

LEMMA SegStays ==
  ASSUME NEW a, NEW b, NEW o, NEW w, NEW n, Extended(a, b), SegAt(a, o, w, n)
  PROVE  SegAt(b, o, w, n)
  BY Zenon DEF Extended, SegAt

LEMMA EmptyImage == IsImage(Empty) /\ Empty.len = 0
<1>1. Empty.len = 0 /\ Empty.at = <<>>
  BY DEF Empty
<1>2. DOMAIN Empty.at = {}
  BY <1>1
<1> QED BY <1>1, <1>2 DEF IsImage

\* Adding a segment: it is at the old end, and everything else stays.
LEMMA AddFacts ==
  ASSUME NEW img, IsImage(img), NEW w, NEW n \in Nat
  PROVE  /\ IsImage(Add(img, w, n)) /\ Add(img, w, n).len = img.len + n
         /\ Extended(img, Add(img, w, n))
         /\ n > 0 => SegAt(Add(img, w, n), img.len, w, n)
<1>0. /\ img.len \in Nat
      /\ \A o \in DOMAIN img.at :
           o \in Nat /\ img.at[o].len \in Nat \ {0} /\ o + img.at[o].len <= img.len
  BY Zenon DEF IsImage
<1>1. CASE n = 0
  <2>1. Add(img, w, n) = img
    BY <1>1 DEF Add
  <2> QED BY <1>0, <1>1, <2>1 DEF Extended
<1>2. CASE n # 0
  <2> DEFINE f == [o \in DOMAIN img.at \cup {img.len} |->
                     IF o = img.len THEN Seg(w, n) ELSE img.at[o]]
             new == [len |-> img.len + n, at |-> f]
  <2>1. Add(img, w, n) = new
    BY <1>2, Zenon DEF Add
  <2>2. new.len = img.len + n /\ new.at = f
    OBVIOUS
  <2>3. \A o \in DOMAIN img.at : o # img.len
    BY <1>0
  <2>4. /\ DOMAIN f = DOMAIN img.at \cup {img.len} /\ f[img.len] = Seg(w, n)
        /\ \A o \in DOMAIN img.at : f[o] = img.at[o]
    BY <2>3
  <2>5. Seg(w, n).len = n
    BY DEF Seg
  <2> HIDE DEF f, new
  <2>6. ASSUME NEW o \in DOMAIN new.at
        PROVE  o \in Nat /\ new.at[o].len \in Nat \ {0} /\ o + new.at[o].len <= new.len
    <3>1. CASE o = img.len
      BY <1>0, <1>2, <2>2, <2>4, <2>5, <3>1
    <3>2. CASE o \in DOMAIN img.at
      <4>1. new.at[o].len = img.at[o].len
        BY <2>2, <2>4, <3>2
      <4> QED BY <1>0, <2>2, <3>2, <4>1
    <3> QED BY <2>2, <2>4, <3>1, <3>2, Zenon
  <2>7. IsImage(new)
    <3>1. new.len \in Nat
      BY <1>0, <2>2
    <3> QED BY <2>6, <3>1, Zenon DEF IsImage
  <2>8. Extended(img, new)
    <3>1. img.len <= new.len
      BY <1>0, <2>2
    <3> QED BY <2>2, <2>4, <3>1 DEF Extended
  <2>9. SegAt(new, img.len, w, n)
    BY <2>2, <2>4 DEF SegAt
  <2> QED BY <2>1, <2>2, <2>7, <2>8, <2>9
<1> QED BY <1>1, <1>2

LEMMA SegFound ==
  ASSUME NEW img, NEW o, NEW w, NEW n, SegAt(img, o, w, n)
  PROVE  At(img, o) = Seg(w, n) /\ At(img, o).what = w /\ At(img, o).len = n
<1>1. At(img, o) = Seg(w, n)
  BY Zenon DEF At, SegAt
<1>2. Seg(w, n).what = w /\ Seg(w, n).len = n
  BY DEF Seg
<1> QED BY <1>1, <1>2

\* Two segments, one after the other: a part and what fills it up.
LEMMA PadFacts ==
  ASSUME NEW img, IsImage(img), NEW w, NEW n \in Nat, NEW page \in Nat \ {0}
  PROVE  /\ IsImage(pad(img, w, n, page))
         /\ pad(img, w, n, page).len = img.len + Align(n, page)
         /\ Extended(img, pad(img, w, n, page))
         /\ n > 0 => SegAt(pad(img, w, n, page), img.len, w, n)
<1> DEFINE b == Add(img, w, n)
           m == Align(n, page) - n
           c == Add(b, <<"pad">>, m)
<1>1. m \in Nat /\ Align(n, page) \in Nat
  BY AlignFacts
<1>2. IsImage(b) /\ b.len = img.len + n /\ Extended(img, b) /\ (n > 0 => SegAt(b, img.len, w, n))
  BY AddFacts
<1>3. pad(img, w, n, page) = c
  BY DEF pad
<1>a. n + m = Align(n, page)
  BY <1>1
<1> HIDE DEF b, m
<1>4. IsImage(c) /\ c.len = b.len + m /\ Extended(b, c)
  BY <1>1, <1>2, AddFacts
<1> HIDE DEF c
<1>5. img.len \in Nat /\ b.len \in Nat /\ c.len \in Nat
  BY <1>2, <1>4 DEF IsImage
<1>6. Extended(img, c)
  BY <1>2, <1>4, <1>5, ExtendedTwice
<1>7. n > 0 => SegAt(c, img.len, w, n)
  BY <1>2, <1>4, SegStays
<1>8. c.len = img.len + Align(n, page)
  BY <1>1, <1>2, <1>4, <1>5, <1>a
<1> QED BY <1>3, <1>4, <1>6, <1>7, <1>8

LEMMA Pad4Facts ==
  ASSUME NEW img, IsImage(img)
  PROVE  IsImage(pad4(img)) /\ pad4(img).len = Align(img.len, 4) /\ Extended(img, pad4(img))
<1>1. img.len \in Nat
  BY DEF IsImage
<1>2. Align(img.len, 4) \in Nat /\ Align(img.len, 4) - img.len \in Nat
  BY <1>1, AlignFacts
<1> DEFINE m == Align(img.len, 4) - img.len
           c == Add(img, <<"pad">>, m)
<1>3. pad4(img) = c
  BY DEF pad4
<1>4. img.len + m = Align(img.len, 4) /\ m \in Nat
  BY <1>1, <1>2
<1> HIDE DEF m
<1>5. IsImage(c) /\ c.len = img.len + m /\ Extended(img, c)
  BY <1>4, AddFacts
<1> QED BY <1>3, <1>4, <1>5

-----------------------------------------------------------------------------
\* Entries of the archive.

DataOff(o, c) == Align(o + 110 + (NameLen(c.name) + 1), 4)
NextOff(o, c) == Align(DataOff(o, c) + c.size, 4)

\* The archive has entry c at offset o.
EntryAt(img, o, c) ==
  /\ \E i : SegAt(img, o, <<"070701", c.op, c.size, NameLen(c.name) + 1, i>>, 110)
  /\ SegAt(img, o + 110, <<"name", c.name>>, NameLen(c.name) + 1)
  /\ c.size # 0 => SegAt(img, DataOff(o, c), <<"data", c.name>>, c.size)

LEMMA NameLenNat == ASSUME NEW n PROVE NameLen(n) \in Nat
  BY DEF NameLen

LEMMA OffsetsNat ==
  ASSUME NEW o \in Nat, NEW c, c.size \in Nat
  PROVE  DataOff(o, c) \in Nat /\ NextOff(o, c) \in Nat
<1>1. NameLen(c.name) \in Nat
  BY NameLenNat
<1>2. DataOff(o, c) \in Nat
  BY <1>1, AlignFacts DEF DataOff
<1>3. DataOff(o, c) + c.size \in Nat
  BY <1>2
<1> QED BY <1>2, <1>3, AlignFacts DEF NextOff

LEMMA EntryStays ==
  ASSUME NEW a, NEW b, NEW o, NEW c, Extended(a, b), EntryAt(a, o, c)
  PROVE  EntryAt(b, o, c)
<1>1. PICK i : SegAt(a, o, <<"070701", c.op, c.size, NameLen(c.name) + 1, i>>, 110)
  BY Zenon DEF EntryAt
<1>2. SegAt(b, o, <<"070701", c.op, c.size, NameLen(c.name) + 1, i>>, 110)
  BY <1>1, SegStays, Zenon
<1>3. SegAt(b, o + 110, <<"name", c.name>>, NameLen(c.name) + 1)
  BY SegStays, Zenon DEF EntryAt
<1>4. c.size # 0 => SegAt(b, DataOff(o, c), <<"data", c.name>>, c.size)
  BY SegStays, Zenon DEF EntryAt
<1> QED BY <1>2, <1>3, <1>4, Zenon DEF EntryAt

\* Cpio._entry puts its entry at the old end, keeps the others, and ends where
\* a reader of the entry goes on.
LEMMA EntryFacts ==
  ASSUME IsImage(blob), NEW c, c.size \in Nat
  PROVE  /\ IsImage(entry(c)) /\ Extended(blob, entry(c))
         /\ EntryAt(entry(c), blob.len, c)
         /\ entry(c).len = NextOff(blob.len, c)
<1> DEFINE n == NameLen(c.name) + 1
           hw == <<"070701", c.op, c.size, n, ino + 1>>
           nw == <<"name", c.name>>
           dw == <<"data", c.name>>
           b1 == Add(blob, hw, 110)
           b2 == Add(b1, nw, n)
           b3 == pad4(b2)
           b4 == Add(b3, dw, c.size)
           b5 == pad4(b4)
<1>0. n \in Nat /\ n > 0 /\ blob.len \in Nat /\ 110 \in Nat /\ 110 > 0
  BY NameLenNat DEF IsImage
<1>1. entry(c) = b5
  BY Zenon DEF entry
<1> HIDE DEF n, hw, nw, dw
<1>2. IsImage(b1) /\ b1.len = blob.len + 110 /\ Extended(blob, b1) /\ SegAt(b1, blob.len, hw, 110)
  BY <1>0, AddFacts
<1> HIDE DEF b1
<1>3. IsImage(b2) /\ b2.len = b1.len + n /\ Extended(b1, b2) /\ SegAt(b2, b1.len, nw, n)
  BY <1>0, <1>2, AddFacts, Zenon
<1> HIDE DEF b2
<1>4. IsImage(b3) /\ b3.len = Align(b2.len, 4) /\ Extended(b2, b3)
  BY <1>3, Pad4Facts, Zenon
<1> HIDE DEF b3
<1>5. /\ IsImage(b4) /\ b4.len = b3.len + c.size /\ Extended(b3, b4)
      /\ c.size > 0 => SegAt(b4, b3.len, dw, c.size)
  BY <1>4, AddFacts, Zenon
<1> HIDE DEF b4
<1>6. IsImage(b5) /\ b5.len = Align(b4.len, 4) /\ Extended(b4, b5)
  BY <1>5, Pad4Facts, Zenon
<1> HIDE DEF b5
<1>7. b1.len \in Nat /\ b2.len \in Nat /\ b3.len \in Nat /\ b4.len \in Nat /\ b5.len \in Nat
  BY <1>2, <1>3, <1>4, <1>5, <1>6, Zenon DEF IsImage
<1>8. Extended(b3, b5) /\ Extended(b2, b5) /\ Extended(b1, b5) /\ Extended(blob, b5)
  <2>1. Extended(b3, b5)
    BY <1>5, <1>6, <1>7, ExtendedTwice, Zenon
  <2>2. Extended(b2, b5)
    BY <1>4, <1>7, <2>1, ExtendedTwice, Zenon
  <2>3. Extended(b1, b5)
    BY <1>3, <1>7, <2>2, ExtendedTwice, Zenon
  <2> QED BY <1>0, <1>2, <1>7, <2>1, <2>2, <2>3, ExtendedTwice, Zenon
<1>9. b2.len = blob.len + 110 + n
  BY <1>0, <1>2, <1>3
<1>10. b3.len = DataOff(blob.len, c) /\ b5.len = NextOff(blob.len, c)
  <2>1. b3.len = DataOff(blob.len, c)
    BY <1>4, <1>9, Zenon DEF DataOff, n
  <2> QED BY <1>5, <1>6, <2>1, Zenon DEF NextOff
<1>11. SegAt(b5, blob.len, hw, 110) /\ SegAt(b5, b1.len, nw, n)
  BY <1>2, <1>3, <1>8, SegStays, Zenon
<1>12. c.size # 0 => SegAt(b5, b3.len, dw, c.size)
  <2>1. c.size # 0 => c.size > 0
    OBVIOUS
  <2> QED BY <2>1, <1>5, <1>6, SegStays, Zenon
<1>13. EntryAt(b5, blob.len, c)
  BY <1>2, <1>10, <1>11, <1>12, Zenon DEF EntryAt, hw, nw, dw, n
<1> QED BY <1>1, <1>6, <1>8, <1>10, <1>13, Zenon

\* What a tree needs to be unpacked: entries with their directories before them.
Names == {"dev", "proc", "sys", "bin", "mnt", "lower", "rw", "newroot", "persist",
          "dev/console", "dev/null", "bin/busybox", "init"}
Entries == [op : {"dir", "chardev", "file"}, name : Names, size : Nat]

Homed(t, j) == Parent(t[j].name) = "/" \/ \E i \in 1..(j - 1) : t[i].name = Parent(t[j].name)

Unpackable(t) == t \in Seq(Entries) /\ \A j \in 1..Len(t) : Homed(t, j)

LEMMA FunIsSeq ==
  ASSUME NEW S, NEW n \in Nat, NEW f \in [1..n -> S]
  PROVE  f \in Seq(S) /\ Len(f) = n
  OBVIOUS

Joins(v, s, u, S) ==
  /\ v \in Seq(S) /\ Len(v) = Len(s) + Len(u)
  /\ \A i \in 1..Len(s) : v[i] = s[i]
  /\ \A i \in 1..Len(u) : v[Len(s) + i] = u[i]

LEMMA Appended ==
  ASSUME NEW S, NEW s \in Seq(S), NEW u \in Seq(S)
  PROVE  Joins(s \o u, s, u, S)
<1>1. s \o u \in Seq(S) /\ Len(s \o u) = Len(s) + Len(u)
  OBVIOUS
<1>2. \A i \in 1..Len(s) : (s \o u)[i] = s[i]
  OBVIOUS
<1>3. \A i \in 1..Len(u) : (s \o u)[Len(s) + i] = u[i]
  OBVIOUS
<1> QED BY <1>1, <1>2, <1>3 DEF Joins

LEMMA TreeUnpackable ==
  ASSUME NEW init \in Nat, NEW busybox \in Nat
  PROVE  Unpackable(Tree(init, busybox))
<1> DEFINE D == [i \in DOMAIN Dirs |-> Call("dir", Dirs[i], 0)]
           DirNames == {"dev", "proc", "sys", "bin", "mnt", "lower", "rw", "newroot", "persist"}
           c10 == Call("chardev", "dev/console", 0)
           c11 == Call("chardev", "dev/null", 0)
           c12 == Call("file", "bin/busybox", busybox)
           c13 == Call("file", "init", init)
           E == <<c10, c11, c12, c13>>
           t == D \o E
<1>1. DOMAIN Dirs = 1..9 /\ Dirs[1] = "dev" /\ Dirs[4] = "bin" /\ \A i \in 1..9 : Dirs[i] \in DirNames
  <2>1. DOMAIN Dirs = 1..9
    BY DEF Dirs
  <2>2. /\ Dirs[1] = "dev" /\ Dirs[2] = "proc" /\ Dirs[3] = "sys" /\ Dirs[4] = "bin"
        /\ Dirs[5] = "mnt" /\ Dirs[6] = "lower" /\ Dirs[7] = "rw" /\ Dirs[8] = "newroot"
        /\ Dirs[9] = "persist"
    BY DEF Dirs
  <2>3. \A i \in 1..9 : i \in {1, 2, 3, 4, 5, 6, 7, 8, 9}
    OBVIOUS
  <2>4. \A i \in 1..9 : Dirs[i] \in DirNames
    BY <2>2, <2>3
  <2> QED BY <2>1, <2>2, <2>4
<1>2. /\ D \in Seq(Entries) /\ Len(D) = 9
      /\ \A i \in 1..9 : D[i] = Call("dir", Dirs[i], 0)
  <2>1. ASSUME NEW i \in 1..9 PROVE Call("dir", Dirs[i], 0) \in Entries
    <3>1. Dirs[i] \in Names
      BY <1>1 DEF Names
    <3> QED BY <3>1 DEF Call, Entries
  <2>2. D = [i \in 1..9 |-> Call("dir", Dirs[i], 0)]
    BY <1>1, Zenon
  <2> HIDE DEF D
  <2>3. D \in [1..9 -> Entries] /\ \A i \in 1..9 : D[i] = Call("dir", Dirs[i], 0)
    BY <2>1, <2>2
  <2>4. D \in Seq(Entries) /\ Len(D) = 9
    BY <2>3, FunIsSeq
  <2> QED BY <2>3, <2>4
<1>3. c10 \in Entries /\ c11 \in Entries /\ c12 \in Entries /\ c13 \in Entries
  BY DEF Call, Entries, Names
<1>4. c10.name = "dev/console" /\ c11.name = "dev/null" /\ c12.name = "bin/busybox" /\ c13.name = "init"
  BY DEF Call
<1> HIDE DEF D, c10, c11, c12, c13
<1>5. E \in Seq(Entries) /\ Len(E) = 4 /\ E[1] = c10 /\ E[2] = c11 /\ E[3] = c12 /\ E[4] = c13
  BY <1>3
<1> HIDE DEF E
<1>6. /\ t \in Seq(Entries) /\ Len(t) = 9 + 4 /\ \A i \in 1..9 : t[i] = D[i]
      /\ \A i \in 1..4 : t[9 + i] = E[i]
  <2>1. Joins(t, D, E, Entries)
    BY <1>2, <1>5, Appended
  <2> HIDE DEF t
  <2> QED BY <1>2, <1>5, <2>1 DEF Joins
<1> HIDE DEF t
<1>7. Len(t) = 13 /\ t[10] = c10 /\ t[11] = c11 /\ t[12] = c12 /\ t[13] = c13
  <2>1. t[9 + 1] = E[1] /\ t[9 + 2] = E[2] /\ t[9 + 3] = E[3] /\ t[9 + 4] = E[4]
    BY <1>6
  <2> QED BY <1>5, <1>6, <2>1
<1>8. \A i \in 1..9 : t[i].name = Dirs[i]
  BY <1>2, <1>6 DEF Call
<1>9. t[1].name = "dev" /\ t[4].name = "bin"
  BY <1>1, <1>8
<1>10. ASSUME NEW j \in 1..13 PROVE Homed(t, j)
  <2>1. CASE j \in 1..9
    <3>1. t[j].name \in DirNames
      BY <1>1, <1>8, <2>1
    <3>2. Parent(t[j].name) = "/"
      BY <3>1 DEF Parent
    <3> QED BY <3>2 DEF Homed
  <2>2. CASE j \in {10, 11}
    <3>1. t[j].name \in {"dev/console", "dev/null"}
      BY <1>4, <1>7, <2>2
    <3>2. Parent(t[j].name) = "dev"
      BY <3>1 DEF Parent
    <3>3. 1 \in 1..(j - 1)
      BY <2>2
    <3> QED BY <1>9, <3>2, <3>3 DEF Homed
  <2>3. CASE j = 12
    <3>1. Parent(t[j].name) = "bin"
      BY <1>4, <1>7, <2>3 DEF Parent
    <3>3. 4 \in 1..(j - 1)
      BY <2>3
    <3> QED BY <1>9, <3>1, <3>3 DEF Homed
  <2>4. CASE j = 13
    <3>1. Parent(t[j].name) = "/"
      BY <1>4, <1>7, <2>4 DEF Parent
    <3> QED BY <3>1 DEF Homed
  <2>5. j \in 1..9 \/ j \in {10, 11} \/ j = 12 \/ j = 13
    OBVIOUS
  <2> QED BY <2>1, <2>2, <2>3, <2>4, <2>5, Zenon
<1>11. Tree(init, busybox) = t
  BY DEF Tree, t, D, E, c10, c11, c12, c13
<1> QED BY <1>6, <1>7, <1>10, <1>11 DEF Unpackable

-----------------------------------------------------------------------------
\* The inductive invariant of the image tools.

\* off: where the first k entries of tree t begin in archive b, and where the
\* last one ends.
Chain(b, t, off, k) ==
  /\ off \in [1..(k + 1) -> Nat] /\ off[1] = 0
  /\ \A j \in 1..k : EntryAt(b, off[j], t[j]) /\ off[j + 1] = NextOff(off[j], t[j])

\* k entries of t are written, cs are left.
Wrote(b, t, cs, i, k) ==
  /\ k \in 0..Len(t) /\ cs = SubSeq(t, k + 1, Len(t)) /\ i = 720 + k
  /\ \E off : Chain(b, t, off, k) /\ off[k + 1] = b.len

\* The reader r has come to the entry behind the m-th.
Archive(b, t, off) ==
  Chain(b, t, off, Len(t)) /\ EntryAt(b, off[Len(t) + 1], TrailerCall)

Reads(r, t, off, m) == m \in 0..Len(t) /\ r.made = SubSeq(t, 1, m) /\ r.off = off[m + 1]

Writing == pc = "cpio" => rd = Unread /\ \E k : Wrote(blob, tree, calls, ino, k)

Reading ==
  /\ pc = "unpack" => \E off, m : Archive(blob, tree, off) /\ Reads(rd, tree, off, m)
  /\ pc = "unpacked" => \E off : Archive(blob, tree, off) /\ Reads(rd, tree, off, Len(tree))

Early == {"mkinitramfs", "cpio", "unpack", "unpacked"}
PCs == Early \cup {"mkbootimg", "mkdtboimg", "done", "failed"}

Phases ==
  /\ pc \in PCs /\ target \in Targets
  /\ pc \in Early => target = "tc8" /\ boot = Empty
  /\ pc = "mkinitramfs" => blob = Empty /\ ino = 720 /\ rd = Unread
  /\ pc \in {"cpio", "unpack", "unpacked"} => Unpackable(tree)

IsRamdisk(f) == f = Empty \/ \E g \in GzSizes : f = Add(Empty, <<"gzip">>, g)
IsDtbo(f) == f = Empty \/ \E n \in DtbSizes : f = Dtbo(n)

Given(a, t, f) ==
  /\ a.kernel \in KernelSizes /\ a.ramdisk = f.len /\ a.second \in Nat
  /\ a.cmd \in 0..1536 /\ (t # "c60" => a.second = 0)

IsBoot(b, t, f, a) ==
  b # Empty => Given(a, t, f) /\ \E page \in Pages : b = Layout(Header(t, a, page))

Files ==
  /\ IsRamdisk(ramdisk) /\ (target # "tc8" => ramdisk = Empty) /\ IsDtbo(dtbo)
  /\ IsBoot(boot, target, ramdisk, args)

ImagesInv == IsImage(blob) /\ Phases /\ Writing /\ Reading /\ Files

LEMMA ImagesInitInv == ImagesInit => ImagesInv
<1> SUFFICES ASSUME ImagesInit PROVE ImagesInv
  OBVIOUS
<1>1. /\ target \in Targets /\ pc = IF target = "tc8" THEN "mkinitramfs" ELSE "mkbootimg"
      /\ blob = Empty /\ ino = 720 /\ rd = Unread /\ ramdisk = Empty /\ boot = Empty /\ dtbo = Empty
  BY Zenon DEF ImagesInit
<1>2. (pc = "mkinitramfs" /\ target = "tc8") \/ pc = "mkbootimg"
  BY <1>1
<1>3. Phases /\ Writing /\ Reading
  BY <1>1, <1>2 DEF Phases, Writing, Reading, Early, PCs
<1>4. Files
  BY <1>1, Zenon DEF Files, IsRamdisk, IsDtbo, IsBoot
<1> QED BY <1>1, <1>3, <1>4, EmptyImage DEF ImagesInv

\* Steps that leave the output files alone.
FilesSame == target' = target /\ ramdisk' = ramdisk /\ boot' = boot /\ dtbo' = dtbo /\ args' = args

LEMMA FilesStay == ASSUME Files, FilesSame PROVE Files'
  BY Zenon DEF Files, FilesSame

\* Steps after the archive: only the output files change.
LEMMA LaterPhases ==
  ASSUME ImagesInv, target' = target, IsImage(blob'),
         pc' \in {"mkbootimg", "mkdtboimg", "done", "failed"}
  PROVE  IsImage(blob)' /\ Phases' /\ Writing' /\ Reading'
<1>1. target' \in Targets /\ pc' \notin Early /\ pc' \in PCs /\ pc' # "cpio"
  BY DEF ImagesInv, Phases, Early, PCs
<1>2. pc' # "unpack" /\ pc' # "unpacked" /\ pc' # "mkinitramfs"
  BY <1>1 DEF Early
<1> QED BY <1>1, <1>2 DEF Phases, Writing, Reading

LEMMA ExitStep == ASSUME ImagesInv, Exit PROVE ImagesInv'
<1>1. pc' = "failed" /\ target' = target /\ blob' = blob /\ FilesSame
  BY Zenon DEF Exit, FilesSame
<1>2. Files'
  BY <1>1, FilesStay, Zenon DEF ImagesInv
<1>3. IsImage(blob') /\ pc' \in {"mkbootimg", "mkdtboimg", "done", "failed"}
  BY <1>1 DEF ImagesInv
<1> QED BY <1>1, <1>2, <1>3, LaterPhases DEF ImagesInv

LEMMA StartStep == ASSUME ImagesInv, StartInitramfs PROVE ImagesInv'
<1>1. CASE Exit
  BY <1>1, ExitStep
<1>2. CASE \E init \in InitSizes, busybox \in BusyboxSizes :
             /\ tree' = Tree(init, busybox)
             /\ calls' = tree'
             /\ pc' = "cpio"
             /\ UNCHANGED <<target, blob, ino, rd, ramdisk, boot, dtbo, args>>
  <2>1. PICK init \in InitSizes, busybox \in BusyboxSizes :
             /\ tree' = Tree(init, busybox)
             /\ calls' = tree'
             /\ pc' = "cpio"
             /\ UNCHANGED <<target, blob, ino, rd, ramdisk, boot, dtbo, args>>
    BY <1>2, Zenon
  <2>2. init \in Nat /\ busybox \in Nat
    BY PagesAssumption
  <2>3. Unpackable(tree')
    BY <2>1, <2>2, TreeUnpackable
  <2>4. pc = "mkinitramfs" /\ FilesSame /\ target' = target /\ blob' = blob /\ ino' = ino /\ rd' = rd
    BY <2>1, Zenon DEF StartInitramfs, FilesSame
  <2>5. blob' = Empty /\ ino' = 720 /\ rd' = Unread /\ boot' = Empty /\ target' = "tc8" /\ target' \in Targets
    BY <2>1, <2>4 DEF ImagesInv, Phases, Early
  <2>6. Wrote(blob', tree', calls', ino', 0)
    <3>1. tree' \in Seq(Entries) /\ Len(tree') \in Nat
      BY <2>3 DEF Unpackable
    <3>2. calls' = SubSeq(tree', 0 + 1, Len(tree')) /\ 0 \in 0..Len(tree') /\ ino' = 720 + 0
      BY <2>1, <2>5, <3>1
    <3>3. Chain(blob', tree', [j \in 1..(0 + 1) |-> 0], 0) /\ [j \in 1..(0 + 1) |-> 0][0 + 1] = blob'.len
      BY <2>5, EmptyImage DEF Chain
    <3> QED BY <3>2, <3>3 DEF Wrote
  <2>7. Writing' /\ Reading'
    BY <2>1, <2>5, <2>6 DEF Writing, Reading
  <2>8. Phases'
    BY <2>1, <2>3, <2>5 DEF Phases, Early, PCs
  <2>9. Files'
    BY <2>4, FilesStay, Zenon DEF ImagesInv
  <2> QED BY <2>5, <2>7, <2>8, <2>9, EmptyImage DEF ImagesInv
<1> QED BY <1>1, <1>2, Zenon DEF StartInitramfs

\* What is left of a sequence behind its k-th element.
LEMMA RestFacts ==
  ASSUME NEW S, NEW t \in Seq(S), NEW k \in 0..Len(t), NEW cs, cs = SubSeq(t, k + 1, Len(t))
  PROVE  /\ Len(cs) = Len(t) - k
         /\ cs = <<>> => k = Len(t)
         /\ cs # <<>> => /\ k + 1 \in 1..Len(t) /\ Head(cs) = t[k + 1]
                         /\ Tail(cs) = SubSeq(t, k + 1 + 1, Len(t))
<1>1. Len(t) \in Nat /\ k \in Nat /\ k <= Len(t)
  OBVIOUS
<1>2. cs \in Seq(S) /\ Len(cs) = Len(t) - k /\ \A i \in 1..(Len(t) - k) : cs[i] = t[k + i]
  BY <1>1
<1>3. cs = <<>> => k = Len(t)
  <2>1. Len(<<>>) = 0
    OBVIOUS
  <2>2. cs = <<>> => Len(t) - k = 0
    BY <1>2, <2>1, Zenon
  <2> QED BY <1>1, <2>2
<1>4. ASSUME cs # <<>> PROVE k + 1 \in 1..Len(t) /\ Head(cs) = t[k + 1]
  <2>1. Len(cs) # 0
    BY <1>2, <1>4
  <2>2. k + 1 \in 1..Len(t) /\ 1 \in 1..(Len(t) - k)
    BY <1>1, <1>2, <2>1
  <2>3. Head(cs) = cs[1]
    BY <1>2, <1>4
  <2> QED BY <1>2, <2>2, <2>3
<1>5. ASSUME cs # <<>> PROVE Tail(cs) = SubSeq(t, k + 1 + 1, Len(t))
  <2> DEFINE n == Len(t) - k - 1
             a == Tail(cs)
             b == SubSeq(t, k + 1 + 1, Len(t))
  <2>1. n \in Nat
    BY <1>1, <1>4, <1>5
  <2>2. a \in Seq(S) /\ Len(a) = n /\ \A i \in 1..n : a[i] = cs[i + 1]
    BY <1>1, <1>2, <1>5, <2>1
  <2>3. b \in Seq(S) /\ Len(b) = n /\ \A i \in 1..n : b[i] = t[k + 1 + i]
    BY <1>1, <2>1
  <2>4. \A i \in 1..n : cs[i + 1] = t[k + 1 + i]
    <3> TAKE i \in 1..n
    <3>1. i + 1 \in 1..(Len(t) - k) /\ k + (i + 1) = k + 1 + i
      BY <1>1, <2>1
    <3> QED BY <1>2, <3>1
  <2> HIDE DEF n, a, b
  <2>5. a = [i \in 1..n |-> a[i]] /\ b = [i \in 1..n |-> b[i]]
    BY <2>2, <2>3
  <2>6. \A i \in 1..n : a[i] = b[i]
    BY <2>2, <2>3, <2>4
  <2> QED BY <2>5, <2>6 DEF a, b
<1> QED BY <1>2, <1>3, <1>4, <1>5

LEMMA ChainStays ==
  ASSUME NEW b, NEW c, NEW t, NEW off, NEW k, Chain(b, t, off, k), Extended(b, c)
  PROVE  Chain(c, t, off, k)
  BY EntryStays, Zenon DEF Chain

\* One entry more.
Grows(b, c, e) ==
  /\ b.len \in Nat /\ Extended(b, c) /\ EntryAt(c, b.len, e) /\ e.size \in Nat
  /\ c.len = NextOff(b.len, e)

LEMMA ChainGrows ==
  ASSUME NEW b, NEW c, NEW t, NEW off, NEW k \in Nat, Chain(b, t, off, k), off[k + 1] = b.len,
         Grows(b, c, t[k + 1])
  PROVE  \E new : Chain(c, t, new, k + 1) /\ new[k + 1 + 1] = c.len
<1> DEFINE new == [j \in 1..(k + 1 + 1) |-> IF j = k + 1 + 1 THEN c.len ELSE off[j]]
<1>1. Chain(c, t, off, k)
  BY ChainStays DEF Grows
<1>2. /\ off \in [1..(k + 1) -> Nat] /\ off[1] = 0
      /\ \A j \in 1..k : EntryAt(c, off[j], t[j]) /\ off[j + 1] = NextOff(off[j], t[j])
  BY <1>1, Zenon DEF Chain
<1>3. c.len \in Nat
  BY OffsetsNat DEF Grows
<1>4. \A j \in 1..(k + 1) : new[j] = off[j]
  OBVIOUS
<1>5. new[k + 1 + 1] = c.len /\ new \in [1..(k + 1 + 1) -> Nat]
  BY <1>2, <1>3
<1> HIDE DEF new
<1>6. new[1] = 0
  BY <1>2, <1>4
<1>7. ASSUME NEW j \in 1..(k + 1)
      PROVE  EntryAt(c, new[j], t[j]) /\ new[j + 1] = NextOff(new[j], t[j])
  <2>1. CASE j \in 1..k
    <3>1. new[j] = off[j] /\ new[j + 1] = off[j + 1]
      BY <1>4, <2>1
    <3> QED BY <1>2, <2>1, <3>1, Zenon
  <2>2. CASE j = k + 1
    <3>1. new[j] = b.len /\ new[j + 1] = c.len
      BY <1>4, <1>5, <2>2
    <3> QED BY <2>2, <3>1, Zenon DEF Grows
  <2> QED BY <2>1, <2>2
<1>8. Chain(c, t, new, k + 1)
  BY <1>5, <1>6, <1>7, Zenon DEF Chain
<1> QED BY <1>5, <1>8, Zenon

LEMMA EntryGrows ==
  ASSUME IsImage(blob), NEW e, e.size \in Nat
  PROVE  Grows(blob, entry(e), e) /\ IsImage(entry(e))
<1>1. blob.len \in Nat
  BY DEF IsImage
<1> QED BY <1>1, EntryFacts, Zenon DEF Grows

LEMMA AddStep == ASSUME ImagesInv, AddEntry PROVE ImagesInv'
<1>1. /\ pc = "cpio" /\ pc' = "cpio" /\ calls # <<>> /\ blob' = entry(Head(calls)) /\ ino' = ino + 1
      /\ calls' = Tail(calls) /\ tree' = tree /\ rd' = rd /\ target' = target /\ FilesSame
  BY Zenon DEF AddEntry, FilesSame
<1>2. Unpackable(tree) /\ IsImage(blob) /\ rd = Unread /\ boot = Empty /\ target = "tc8" /\ target \in Targets
  BY <1>1 DEF ImagesInv, Phases, Writing, Early
<1>3. PICK k : Wrote(blob, tree, calls, ino, k)
  BY <1>1, Zenon DEF ImagesInv, Writing
<1>4. k \in 0..Len(tree) /\ calls = SubSeq(tree, k + 1, Len(tree)) /\ ino = 720 + k
  BY <1>3, Zenon DEF Wrote
<1>5. PICK off : Chain(blob, tree, off, k) /\ off[k + 1] = blob.len
  BY <1>3, Zenon DEF Wrote
<1>6. tree \in Seq(Entries)
  BY <1>2, Zenon DEF Unpackable
<1>7. k + 1 \in 1..Len(tree) /\ Head(calls) = tree[k + 1] /\ Tail(calls) = SubSeq(tree, k + 1 + 1, Len(tree))
  BY <1>1, <1>4, <1>6, RestFacts
<1>8. k \in Nat /\ k + 1 \in 0..Len(tree) /\ ino' = 720 + (k + 1)
  BY <1>1, <1>4, <1>6, <1>7
<1>9. tree[k + 1].size \in Nat
  <2>1. tree[k + 1] \in Entries
    BY <1>6, <1>7
  <2> QED BY <2>1 DEF Entries
<1>10. Grows(blob, blob', tree[k + 1]) /\ IsImage(blob')
  BY <1>1, <1>2, <1>7, <1>9, EntryGrows
<1>11. PICK new : Chain(blob', tree, new, k + 1) /\ new[k + 1 + 1] = blob'.len
  BY <1>5, <1>8, <1>10, ChainGrows
<1>12. Wrote(blob', tree', calls', ino', k + 1)
  BY <1>1, <1>7, <1>8, <1>11, Zenon DEF Wrote
<1>13. Writing' /\ Reading'
  BY <1>1, <1>2, <1>12 DEF Writing, Reading
<1>14. Files'
  BY <1>1, FilesStay, Zenon DEF ImagesInv
<1>15. Phases'
  <2>1. boot' = boot
    BY <1>1, Zenon DEF FilesSame
  <2> QED BY <1>1, <1>2, <2>1 DEF Phases, Early, PCs
<1> QED BY <1>10, <1>13, <1>14, <1>15, Zenon DEF ImagesInv

LEMMA WriteStep == ASSUME ImagesInv, WriteInitramfs PROVE ImagesInv'
<1>1. /\ pc = "cpio" /\ pc' = "unpack" /\ calls = <<>> /\ blob' = trailer /\ tree' = tree /\ rd' = rd
      /\ target' = target /\ boot' = boot /\ dtbo' = dtbo /\ args' = args
      /\ \E g \in GzSizes : ramdisk' = Add(Empty, <<"gzip">>, g)
  BY Zenon DEF WriteInitramfs
<1>2. Unpackable(tree) /\ IsImage(blob) /\ rd = Unread /\ boot = Empty /\ target = "tc8" /\ target \in Targets
  BY <1>1 DEF ImagesInv, Phases, Writing, Early
<1>3. PICK k : Wrote(blob, tree, calls, ino, k)
  BY <1>1, Zenon DEF ImagesInv, Writing
<1>4. k \in 0..Len(tree) /\ calls = SubSeq(tree, k + 1, Len(tree))
  BY <1>3, Zenon DEF Wrote
<1>5. PICK off : Chain(blob, tree, off, k) /\ off[k + 1] = blob.len
  BY <1>3, Zenon DEF Wrote
<1>6. tree \in Seq(Entries) /\ Len(tree) \in Nat
  BY <1>2 DEF Unpackable
<1>7. k = Len(tree)
  BY <1>1, <1>4, <1>6, RestFacts
<1> DEFINE b == entry(TrailerCall)
           m == Align(b.len, 512) - b.len
<1>8. TrailerCall.size \in Nat
  BY DEF TrailerCall, Call
<1>9. Grows(blob, b, TrailerCall) /\ IsImage(b)
  BY <1>2, <1>8, EntryGrows
<1>10. blob' = Add(b, <<"pad">>, m)
  BY <1>1, Zenon DEF trailer
<1> HIDE DEF b
<1>11. m \in Nat
  BY <1>9, AlignFacts DEF IsImage
<1> HIDE DEF m
<1>12. IsImage(blob') /\ Extended(b, blob')
  BY <1>9, <1>10, <1>11, AddFacts
<1>13. Chain(blob', tree, off, Len(tree)) /\ EntryAt(blob', blob.len, TrailerCall)
  <2>1. Chain(b, tree, off, Len(tree)) /\ EntryAt(b, blob.len, TrailerCall)
    BY <1>5, <1>7, <1>9, ChainStays, Zenon DEF Grows
  <2> QED BY <1>12, <2>1, ChainStays, EntryStays, Zenon
<1>14. Archive(blob', tree', off)
  BY <1>1, <1>5, <1>7, <1>13, Zenon DEF Archive
<1>15. Reads(rd', tree', off, 0)
  <2>1. off[1] = 0
    BY <1>5, Zenon DEF Chain
  <2>2. rd'.made = <<>> /\ rd'.off = 0
    BY <1>1, <1>2 DEF Unread
  <2>3. 0 \in 0..Len(tree) /\ SubSeq(tree, 1, 0) = <<>> /\ 0 + 1 = 1
    BY <1>6
  <2> QED BY <1>1, <2>1, <2>2, <2>3 DEF Reads
<1>16. Writing' /\ Reading'
  BY <1>1, <1>14, <1>15 DEF Writing, Reading
<1>17. Phases'
  BY <1>1, <1>2 DEF Phases, Early, PCs
<1>18. Files'
  <2>1. IsRamdisk(ramdisk') /\ boot' = Empty /\ target' = "tc8"
    BY <1>1, <1>2, Zenon DEF IsRamdisk
  <2>2. IsDtbo(dtbo')
    BY <1>1, Zenon DEF ImagesInv, Files
  <2> QED BY <2>1, <2>2 DEF Files, IsBoot
<1> QED BY <1>12, <1>16, <1>17, <1>18, Zenon DEF ImagesInv

\* The reader at an entry: what its header, name and data say.
Says(img, o, c) ==
  /\ At(img, o).what[1] = "070701" /\ At(img, o).what[2] = c.op
  /\ At(img, o).what[3] = c.size /\ At(img, o).what[4] = NameLen(c.name) + 1
  /\ At(img, o + 110).what = <<"name", c.name>>
  /\ c.size = 0 \/ At(img, DataOff(o, c)) = Seg(<<"data", c.name>>, c.size)

LEMMA EntryRead ==
  ASSUME NEW img, NEW o, NEW c, EntryAt(img, o, c)
  PROVE  Says(img, o, c)
<1>1. PICK i : SegAt(img, o, <<"070701", c.op, c.size, NameLen(c.name) + 1, i>>, 110)
  BY Zenon DEF EntryAt
<1>2. At(img, o).what = <<"070701", c.op, c.size, NameLen(c.name) + 1, i>>
  BY <1>1, SegFound, Zenon
<1>3. At(img, o + 110).what = <<"name", c.name>>
  <2>1. SegAt(img, o + 110, <<"name", c.name>>, NameLen(c.name) + 1)
    BY Zenon DEF EntryAt
  <2> QED BY <2>1, SegFound
<1>4. c.size = 0 \/ At(img, DataOff(o, c)) = Seg(<<"data", c.name>>, c.size)
  <2>1. c.size = 0 \/ SegAt(img, DataOff(o, c), <<"data", c.name>>, c.size)
    BY Zenon DEF EntryAt
  <2> QED BY <2>1, SegFound
<1> QED BY <1>2, <1>3, <1>4 DEF Says

\* The reader at the m-th offset is at the entry there or, behind the last one,
\* at the trailer.
LEMMA ReaderAt ==
  ASSUME Unpackable(tree), NEW off, NEW m, Archive(blob, tree, off), Reads(rd, tree, off, m)
  PROVE  /\ m \in Nat /\ m <= Len(tree) /\ Len(tree) \in Nat
         /\ m < Len(tree) => AtEntry /\ EntryAt(blob, rd.off, tree[m + 1]) /\ tree[m + 1] \in Entries
         /\ m = Len(tree) => ~AtEntry /\ AtName("TRAILER!!!")
<1>1. tree \in Seq(Entries) /\ Len(tree) \in Nat /\ m \in Nat /\ m <= Len(tree) /\ rd.off = off[m + 1]
  BY DEF Unpackable, Reads
<1>2. ASSUME m < Len(tree)
      PROVE  AtEntry /\ EntryAt(blob, rd.off, tree[m + 1]) /\ tree[m + 1] \in Entries
  <2>1. m + 1 \in 1..Len(tree)
    BY <1>1, <1>2
  <2>2. EntryAt(blob, rd.off, tree[m + 1])
    BY <1>1, <2>1, Zenon DEF Archive, Chain
  <2>3. tree[m + 1] \in Entries
    BY <1>1, <2>1
  <2>4. tree[m + 1].name # "TRAILER!!!"
    BY <2>3 DEF Entries, Names
  <2>5. /\ At(blob, rd.off).what[1] = "070701"
        /\ At(blob, rd.off + 110).what = <<"name", tree[m + 1].name>>
    <3>1. Says(blob, rd.off, tree[m + 1])
      BY <2>2, EntryRead, Zenon
    <3> QED BY <3>1, Zenon DEF Says
  <2>6. At(blob, rd.off + 110).what # <<"name", "TRAILER!!!">>
    BY <2>4, <2>5
  <2> QED BY <2>2, <2>3, <2>5, <2>6, Zenon DEF AtEntry, AtName
<1>3. ASSUME m = Len(tree) PROVE ~AtEntry /\ AtName("TRAILER!!!")
  <2>1. EntryAt(blob, rd.off, TrailerCall)
    BY <1>1, <1>3, Zenon DEF Archive
  <2>2. TrailerCall.name = "TRAILER!!!"
    BY DEF TrailerCall, Call
  <2>3. /\ At(blob, rd.off).what[1] = "070701"
        /\ At(blob, rd.off + 110).what = <<"name", "TRAILER!!!">>
    <3>1. Says(blob, rd.off, TrailerCall)
      BY <2>1, EntryRead, Zenon
    <3> QED BY <2>2, <3>1, Zenon DEF Says
  <2> QED BY <2>3, Zenon DEF AtEntry, AtName
<1> QED BY <1>1, <1>2, <1>3

\* Reading one more element.
LEMMA ReadOneMore ==
  ASSUME NEW S, NEW t \in Seq(S), NEW m \in Nat, m < Len(t)
  PROVE  Append(SubSeq(t, 1, m), t[m + 1]) = SubSeq(t, 1, m + 1)
<1> DEFINE a == Append(SubSeq(t, 1, m), t[m + 1])
           b == SubSeq(t, 1, m + 1)
<1>1. Len(t) \in Nat /\ t[m + 1] \in S
  OBVIOUS
<1>2. SubSeq(t, 1, m) \in Seq(S) /\ Len(SubSeq(t, 1, m)) = m /\ \A i \in 1..m : SubSeq(t, 1, m)[i] = t[i]
  BY <1>1
<1>3. a \in Seq(S) /\ Len(a) = m + 1 /\ \A i \in 1..(m + 1) : a[i] = t[i]
  BY <1>1, <1>2
<1>4. b \in Seq(S) /\ Len(b) = m + 1 /\ \A i \in 1..(m + 1) : b[i] = t[i]
  BY <1>1
<1> HIDE DEF a, b
<1>5. a = [i \in 1..(m + 1) |-> a[i]] /\ b = [i \in 1..(m + 1) |-> b[i]]
  BY <1>3, <1>4
<1>6. \A i \in 1..(m + 1) : a[i] = b[i]
  BY <1>3, <1>4
<1>7. a = b
  BY <1>5, <1>6
<1> QED BY <1>7 DEF a, b

LEMMA WholeSeq ==
  ASSUME NEW S, NEW t \in Seq(S)
  PROVE  SubSeq(t, 1, Len(t)) = t
<1> DEFINE a == SubSeq(t, 1, Len(t))
<1>1. a \in Seq(S) /\ Len(a) = Len(t) /\ \A i \in 1..Len(t) : a[i] = t[i]
  OBVIOUS
<1> HIDE DEF a
<1>2. a = [i \in 1..Len(t) |-> a[i]] /\ t = [i \in 1..Len(t) |-> t[i]]
  BY <1>1
<1>3. a = t
  BY <1>1, <1>2
<1> QED BY <1>3 DEF a

\* The directory of the next entry has been made.
LEMMA ParentMade ==
  ASSUME NEW t, Unpackable(t), NEW m \in Nat, m < Len(t)
  PROVE  Parent(t[m + 1].name) \in
           {"/"} \cup {SubSeq(t, 1, m)[j].name : j \in DOMAIN SubSeq(t, 1, m)}
<1> DEFINE q == m + 1
           s == SubSeq(t, 1, m)
<1>1. t \in Seq(Entries) /\ \A j \in 1..Len(t) : Homed(t, j)
  BY Zenon DEF Unpackable
<1>2. q \in 1..Len(t) /\ q - 1 = m
  BY <1>1
<1>3. \A i \in 1..m : i \in DOMAIN s /\ s[i] = t[i]
  BY <1>1
<1> HIDE DEF q, s
<1>4. Homed(t, q)
  BY <1>1, <1>2, Zenon
<1>5. Parent(t[q].name) = "/" \/ \E i \in 1..m : t[i].name = Parent(t[q].name)
  BY <1>2, <1>4 DEF Homed
<1>6. Parent(t[q].name) \in {"/"} \cup {s[j].name : j \in DOMAIN s}
  BY <1>3, <1>5
<1> QED BY <1>6 DEF q, s

\* What the kernel does with the entry it is at.
LEMMA UnpackedEntry ==
  ASSUME Unpackable(tree), NEW off, NEW m, Archive(blob, tree, off), Reads(rd, tree, off, m),
         m < Len(tree), UnpackEntry
  PROVE  Reads(rd', tree, off, m + 1)
<1> DEFINE c == tree[m + 1]
           h == At(blob, rd.off).what
           name == At(blob, rd.off + 110).what[2]
           data == Align(rd.off + 110 + h[4], 4)
           size == h[3]
           made == /\ Parent(name) \in {"/"} \cup {rd.made[j].name : j \in DOMAIN rd.made}
                   /\ size = 0 \/ At(blob, data) = Seg(<<"data", name>>, size)
<1>1. /\ m \in Nat /\ m <= Len(tree) /\ Len(tree) \in Nat /\ EntryAt(blob, rd.off, c) /\ c \in Entries
  BY ReaderAt
<1>2. rd' = [off |-> Align(data + size, 4),
             made |-> IF made THEN Append(rd.made, Call(h[2], name, size)) ELSE rd.made]
  BY Zenon DEF UnpackEntry
<1>3. /\ h[2] = c.op /\ size = c.size /\ h[4] = NameLen(c.name) + 1
      /\ c.size = 0 \/ At(blob, DataOff(rd.off, c)) = Seg(<<"data", c.name>>, c.size)
  <2>1. Says(blob, rd.off, c)
    BY <1>1, EntryRead, Zenon
  <2> QED BY <2>1, Zenon DEF Says
<1>4. name = c.name
  <2>1. At(blob, rd.off + 110).what = <<"name", c.name>>
    <3>1. Says(blob, rd.off, c)
      BY <1>1, EntryRead, Zenon
    <3> QED BY <3>1, Zenon DEF Says
  <2> QED BY <2>1
<1>5. data = DataOff(rd.off, c)
  BY <1>3, Zenon DEF DataOff
<1> HIDE DEF name, data, size, h
<1>6. tree \in Seq(Entries) /\ rd.made = SubSeq(tree, 1, m) /\ rd.off = off[m + 1] /\ m + 1 \in 1..Len(tree)
  BY <1>1 DEF Reads, Unpackable
<1>7. Parent(c.name) \in {"/"} \cup {rd.made[j].name : j \in DOMAIN rd.made}
  <2>1. Parent(c.name) \in {"/"} \cup {SubSeq(tree, 1, m)[j].name : j \in DOMAIN SubSeq(tree, 1, m)}
    BY <1>1, ParentMade
  <2> QED BY <1>6, <2>1, Zenon
<1>8. made
  BY <1>3, <1>4, <1>5, <1>7, Zenon
<1>9. Call(h[2], name, size) = c
  <2>1. c = [op |-> c.op, name |-> c.name, size |-> c.size]
    BY <1>1 DEF Entries
  <2> HIDE DEF c
  <2> QED BY <1>3, <1>4, <2>1 DEF Call
<1> HIDE DEF made
<1>10. rd'.made = Append(rd.made, c) /\ rd'.off = Align(data + size, 4)
  BY <1>2, <1>8, <1>9
<1>11. rd'.off = off[m + 1 + 1]
  <2>1. off[m + 1 + 1] = NextOff(off[m + 1], c)
    BY <1>6, Zenon DEF Archive, Chain
  <2> QED BY <1>3, <1>5, <1>6, <1>10, <2>1, Zenon DEF NextOff
<1>12. rd'.made = SubSeq(tree, 1, m + 1)
  BY <1>1, <1>6, <1>10, ReadOneMore
<1>13. m + 1 \in 0..Len(tree)
  BY <1>1, <1>6
<1> QED BY <1>11, <1>12, <1>13 DEF Reads

LEMMA UnpackEntryStep == ASSUME ImagesInv, UnpackEntry PROVE ImagesInv'
<1>1. /\ pc = "unpack" /\ pc' = "unpack" /\ AtEntry /\ tree' = tree /\ blob' = blob /\ boot' = boot
      /\ target' = target /\ FilesSame
  BY Zenon DEF UnpackEntry, FilesSame
<1>2. Unpackable(tree) /\ IsImage(blob) /\ boot = Empty /\ target = "tc8" /\ target \in Targets
  BY <1>1 DEF ImagesInv, Phases, Early
<1>3. PICK off, m : Archive(blob, tree, off) /\ Reads(rd, tree, off, m)
  BY <1>1, Zenon DEF ImagesInv, Reading
<1>4. m < Len(tree)
  <2>1. m \in Nat /\ m <= Len(tree) /\ Len(tree) \in Nat /\ m # Len(tree)
    BY <1>1, <1>2, <1>3, ReaderAt
  <2> QED BY <2>1
<1>5. Reads(rd', tree, off, m + 1)
  BY <1>2, <1>3, <1>4, UnpackedEntry
<1>6. Writing' /\ Reading'
  BY <1>1, <1>3, <1>5 DEF Writing, Reading
<1>7. Phases'
  BY <1>1, <1>2 DEF Phases, Early, PCs
<1>8. Files'
  BY <1>1, FilesStay, Zenon DEF ImagesInv
<1> QED BY <1>1, <1>2, <1>6, <1>7, <1>8, Zenon DEF ImagesInv

LEMMA UnpackEndStep == ASSUME ImagesInv, UnpackEnd PROVE ImagesInv'
<1>1. /\ pc = "unpack" /\ pc' = "unpacked" /\ ~AtEntry /\ tree' = tree /\ blob' = blob /\ boot' = boot
      /\ rd' = rd /\ target' = target /\ FilesSame
  BY Zenon DEF UnpackEnd, FilesSame
<1>2. Unpackable(tree) /\ IsImage(blob) /\ boot = Empty /\ target = "tc8" /\ target \in Targets
  BY <1>1 DEF ImagesInv, Phases, Early
<1>3. PICK off, m : Archive(blob, tree, off) /\ Reads(rd, tree, off, m)
  BY <1>1, Zenon DEF ImagesInv, Reading
<1>4. m = Len(tree)
  <2>1. m \in Nat /\ m <= Len(tree) /\ Len(tree) \in Nat /\ ~(m < Len(tree))
    BY <1>1, <1>2, <1>3, ReaderAt
  <2> QED BY <2>1
<1>6. Writing' /\ Reading'
  BY <1>1, <1>3, <1>4 DEF Writing, Reading
<1>7. Phases'
  BY <1>1, <1>2 DEF Phases, Early, PCs
<1>8. Files'
  BY <1>1, FilesStay, Zenon DEF ImagesInv
<1> QED BY <1>1, <1>2, <1>6, <1>7, <1>8, Zenon DEF ImagesInv

LEMMA NextToolStep == ASSUME ImagesInv, NextTool PROVE ImagesInv'
<1>1. pc' = "mkbootimg" /\ blob' = Empty /\ target' = target /\ FilesSame
  BY Zenon DEF NextTool, FilesSame
<1>2. Files'
  BY <1>1, FilesStay, Zenon DEF ImagesInv
<1>3. IsImage(blob') /\ pc' \in {"mkbootimg", "mkdtboimg", "done", "failed"}
  BY <1>1, EmptyImage
<1> QED BY <1>1, <1>2, <1>3, LaterPhases DEF ImagesInv

LEMMA MkbootimgStep == ASSUME ImagesInv, mkbootimg PROVE ImagesInv'
<1>1. PICK k \in KernelSizes, s \in DtbSizes, cmd \in CmdSizes, page \in Pages, v \in HeaderVersions :
        LET a == [kernel |-> k, ramdisk |-> ramdisk.len,
                  second |-> IF target = "c60" THEN s ELSE 0, cmd |-> cmd]
        IN  \/ (v # 0 \/ cmd > 512 + 1024) /\ Exit
            \/ /\ v = 0 /\ cmd <= 512 + 1024
               /\ boot' = Layout(Header(target, a, page))
               /\ args' = a
               /\ pc' = "mkdtboimg"
               /\ UNCHANGED <<target, tree, calls, blob, ino, rd, ramdisk, dtbo>>
  BY Zenon DEF mkbootimg
<1> DEFINE a == [kernel |-> k, ramdisk |-> ramdisk.len,
                 second |-> IF target = "c60" THEN s ELSE 0, cmd |-> cmd]
<1>2. CASE Exit
  BY <1>2, ExitStep
<1>3. CASE /\ cmd <= 512 + 1024 /\ boot' = Layout(Header(target, a, page)) /\ args' = a
           /\ pc' = "mkdtboimg" /\ UNCHANGED <<target, tree, calls, blob, ino, rd, ramdisk, dtbo>>
  <2>1. target' = target /\ blob' = blob /\ ramdisk' = ramdisk /\ dtbo' = dtbo
    BY <1>3, Zenon
  <2>2. s \in Nat /\ cmd \in Nat
    BY PagesAssumption
  <2>3. a.kernel = k /\ a.ramdisk = ramdisk.len /\ a.cmd = cmd /\ a.second = IF target = "c60" THEN s ELSE 0
    BY Zenon
  <2> HIDE DEF a
  <2>4. Given(a, target, ramdisk)
    BY <1>3, <2>2, <2>3 DEF Given
  <2>5. IsBoot(boot', target', ramdisk', args')
    BY <1>3, <2>1, <2>4, Zenon DEF IsBoot
  <2>6. Files'
    BY <2>1, <2>5, Zenon DEF ImagesInv, Files
  <2>7. IsImage(blob') /\ pc' \in {"mkbootimg", "mkdtboimg", "done", "failed"}
    BY <1>3, <2>1 DEF ImagesInv
  <2> QED BY <2>1, <2>6, <2>7, LaterPhases DEF ImagesInv
<1>4. Exit \/ ( /\ cmd <= 512 + 1024 /\ boot' = Layout(Header(target, a, page)) /\ args' = a
              /\ pc' = "mkdtboimg" /\ UNCHANGED <<target, tree, calls, blob, ino, rd, ramdisk, dtbo>> )
  BY <1>1
<1> HIDE DEF a
<1> QED BY <1>2, <1>3, <1>4

LEMMA MkdtboimgStep == ASSUME ImagesInv, mkdtboimg PROVE ImagesInv'
<1>1. CASE Exit
  BY <1>1, ExitStep
<1>2. CASE \E n \in DtbSizes :
             /\ dtbo' = Dtbo(n)
             /\ pc' = "done"
             /\ UNCHANGED <<target, tree, calls, blob, ino, rd, ramdisk, boot, args>>
  <2>1. /\ target' = target /\ blob' = blob /\ ramdisk' = ramdisk /\ boot' = boot /\ args' = args
        /\ pc' = "done" /\ IsDtbo(dtbo')
    BY <1>2, Zenon DEF IsDtbo
  <2>2. Files'
    BY <2>1, Zenon DEF ImagesInv, Files
  <2>3. IsImage(blob') /\ pc' \in {"mkbootimg", "mkdtboimg", "done", "failed"}
    BY <2>1 DEF ImagesInv
  <2> QED BY <2>1, <2>2, <2>3, LaterPhases DEF ImagesInv
<1> QED BY <1>1, <1>2, Zenon DEF mkdtboimg

LEMMA ImagesStepInv == ImagesInv /\ [ImagesNext]_imageVars => ImagesInv'
<1> SUFFICES ASSUME ImagesInv, [ImagesNext]_imageVars PROVE ImagesInv'
  OBVIOUS
<1>1. CASE UNCHANGED imageVars
  <2>1. /\ pc' = pc /\ target' = target /\ tree' = tree /\ calls' = calls /\ blob' = blob /\ ino' = ino
        /\ rd' = rd /\ boot' = boot /\ FilesSame
    BY <1>1, Zenon DEF imageVars, FilesSame
  <2>2. Files'
    BY <2>1, FilesStay, Zenon DEF ImagesInv
  <2>3. Phases' /\ Writing' /\ Reading' /\ IsImage(blob')
    BY <2>1, Zenon DEF ImagesInv, Phases, Writing, Reading
  <2> QED BY <2>2, <2>3, Zenon DEF ImagesInv
<1> QED BY <1>1, StartStep, AddStep, WriteStep, UnpackEntryStep, UnpackEndStep, NextToolStep,
           MkbootimgStep, MkdtboimgStep, Zenon DEF ImagesNext

-----------------------------------------------------------------------------
\* What the packed files look like.

LEMMA RamdiskFacts ==
  ASSUME NEW f, IsRamdisk(f)
  PROVE  /\ IsImage(f) /\ f.len \in Nat
         /\ At(f, 0) = IF f.len = 0 THEN Seg(<<"nothing">>, 0) ELSE Seg(<<"gzip">>, f.len)
<1>1. CASE f = Empty
  <2>1. DOMAIN Empty.at = {}
    BY DEF Empty
  <2>2. At(f, 0) = Seg(<<"nothing">>, 0)
    BY <1>1, <2>1 DEF At
  <2> QED BY <1>1, <2>2, EmptyImage
<1>2. CASE \E g \in GzSizes : f = Add(Empty, <<"gzip">>, g)
  <2>1. PICK g \in GzSizes : f = Add(Empty, <<"gzip">>, g)
    BY <1>2
  <2>2. g \in Nat /\ g > 0
    BY PagesAssumption
  <2>3. IsImage(f) /\ f.len = 0 + g /\ SegAt(f, 0, <<"gzip">>, g)
    BY <2>1, <2>2, AddFacts, EmptyImage
  <2>4. f.len = g
    BY <2>2, <2>3
  <2>5. At(f, 0) = Seg(<<"gzip">>, g)
    BY <2>3, SegFound
  <2> QED BY <2>2, <2>3, <2>4, <2>5
<1> QED BY <1>1, <1>2 DEF IsRamdisk

\* The three segments of the DTBO container.
LEMMA DtboFacts ==
  ASSUME NEW n \in DtbSizes
  PROVE  /\ IsImage(Dtbo(n)) /\ Dtbo(n).len = 64 + n
         /\ At(Dtbo(n), 0).what = <<"d7b7ab1e", 64 + n>>
         /\ At(Dtbo(n), 32).what = <<"entry", n, 64>>
         /\ At(Dtbo(n), 64) = Seg(<<"dtb">>, n)
<1> DEFINE w1 == <<"d7b7ab1e", 64 + n>>
           w2 == <<"entry", n, 64>>
           w3 == <<"dtb">>
           a == Add(Empty, w1, 32)
           b == Add(a, w2, 32)
           c == Add(b, w3, n)
<1>1. n \in Nat /\ n > 0
  BY PagesAssumption
<1>2. Dtbo(n) = c
  BY DEF Dtbo, DT_OFFSET
<1> HIDE DEF w1, w2, w3
<1>3. IsImage(a) /\ a.len = 32 /\ SegAt(a, 0, w1, 32)
  <2>1. IsImage(a) /\ a.len = Empty.len + 32 /\ SegAt(a, Empty.len, w1, 32)
    BY AddFacts, EmptyImage
  <2> HIDE DEF a
  <2> QED BY <2>1, EmptyImage
<1> HIDE DEF a
<1>4. IsImage(b) /\ b.len = 64 /\ SegAt(b, 32, w2, 32) /\ Extended(a, b)
  <2>1. IsImage(b) /\ b.len = a.len + 32 /\ SegAt(b, a.len, w2, 32) /\ Extended(a, b)
    BY <1>3, AddFacts
  <2> HIDE DEF b
  <2> QED BY <1>3, <2>1
<1> HIDE DEF b
<1>5. IsImage(c) /\ c.len = 64 + n /\ SegAt(c, 64, w3, n) /\ Extended(b, c)
  <2>1. IsImage(c) /\ c.len = b.len + n /\ SegAt(c, b.len, w3, n) /\ Extended(b, c)
    BY <1>1, <1>4, AddFacts
  <2> HIDE DEF c
  <2> QED BY <1>4, <2>1
<1> HIDE DEF c
<1>6. SegAt(c, 0, w1, 32) /\ SegAt(c, 32, w2, 32)
  <2>1. SegAt(b, 0, w1, 32)
    BY <1>3, <1>4, SegStays
  <2> QED BY <1>4, <1>5, <2>1, SegStays
<1>7. At(c, 0).what = w1 /\ At(c, 32).what = w2 /\ At(c, 64) = Seg(w3, n)
  BY <1>5, <1>6, SegFound
<1> QED BY <1>2, <1>5, <1>7 DEF w1, w2, w3

\* The header and the parts of the boot image, at the loader's offsets.
Parts(b, h, k, r, s, page) ==
  /\ IsImage(b) /\ b.len >= k
  /\ SegAt(b, 0, <<"header", h>>, HdrSize)
  /\ SegAt(b, page, <<"kernel">>, k)
  /\ r > 0 => SegAt(b, page + Align(k, page), <<"gzip">>, r)
  /\ s > 0 => SegAt(b, page + Align(k, page) + Align(r, page), <<"second">>, s)

Sized(h, k, r, s, page) ==
  /\ k \in Nat /\ k > 0 /\ r \in Nat /\ s \in Nat /\ page \in Nat /\ page >= HdrSize
  /\ h.kernel.size = k /\ h.ramdisk.size = r /\ h.second.size = s /\ h.page = page

LEMMA LayoutFacts ==
  ASSUME NEW h, NEW k, NEW r, NEW s, NEW page, Sized(h, k, r, s, page)
  PROVE  Parts(Layout(h), h, k, r, s, page)
<1>1. /\ k \in Nat /\ k > 0 /\ r \in Nat /\ s \in Nat /\ page \in Nat /\ page >= HdrSize
      /\ h.kernel.size = k /\ h.ramdisk.size = r /\ h.second.size = s /\ h.page = page
  BY Zenon DEF Sized
<1>2. HdrSize \in Nat /\ HdrSize > 0 /\ HdrSize <= page /\ page \in Nat \ {0}
  BY <1>1 DEF HdrSize
<1>3. Align(HdrSize, page) = page
  BY <1>2, AlignOne
<1>4. Align(k, page) \in Nat /\ Align(k, page) >= k /\ Align(r, page) \in Nat /\ Align(s, page) \in Nat
  BY <1>1, <1>2, AlignFacts
<1> DEFINE hw == <<"header", h>>
           kw == <<"kernel">>
           rw == <<"gzip">>
           sw == <<"second">>
           a == pad(Empty, hw, HdrSize, page)
           b == pad(a, kw, k, page)
           c == pad(b, rw, r, page)
           d == pad(c, sw, s, page)
<1>5. Layout(h) = d
  BY <1>1, Zenon DEF Layout
<1> HIDE DEF hw, kw, rw, sw
<1>6. IsImage(a) /\ a.len = page /\ SegAt(a, 0, hw, HdrSize)
  <2>1. IsImage(a) /\ a.len = Empty.len + Align(HdrSize, page) /\ SegAt(a, Empty.len, hw, HdrSize)
    BY <1>2, PadFacts, EmptyImage
  <2> HIDE DEF a
  <2> QED BY <1>2, <1>3, <2>1, EmptyImage
<1> HIDE DEF a
<1>7. IsImage(b) /\ b.len = page + Align(k, page) /\ Extended(a, b) /\ SegAt(b, page, kw, k)
  <2>1. IsImage(b) /\ b.len = a.len + Align(k, page) /\ Extended(a, b) /\ SegAt(b, a.len, kw, k)
    BY <1>1, <1>2, <1>6, PadFacts
  <2> HIDE DEF b
  <2> QED BY <1>6, <2>1, Zenon
<1> HIDE DEF b
<1>8. /\ IsImage(c) /\ c.len = page + Align(k, page) + Align(r, page) /\ Extended(b, c)
      /\ r > 0 => SegAt(c, page + Align(k, page), rw, r)
  <2>1. /\ IsImage(c) /\ c.len = b.len + Align(r, page) /\ Extended(b, c)
        /\ r > 0 => SegAt(c, b.len, rw, r)
    BY <1>1, <1>2, <1>7, PadFacts
  <2> HIDE DEF c
  <2> QED BY <1>7, <2>1, Zenon
<1> HIDE DEF c
<1>9. /\ IsImage(d) /\ d.len = page + Align(k, page) + Align(r, page) + Align(s, page) /\ Extended(c, d)
      /\ s > 0 => SegAt(d, page + Align(k, page) + Align(r, page), sw, s)
  <2>1. /\ IsImage(d) /\ d.len = c.len + Align(s, page) /\ Extended(c, d)
        /\ s > 0 => SegAt(d, c.len, sw, s)
    BY <1>1, <1>2, <1>8, PadFacts
  <2> HIDE DEF d
  <2> QED BY <1>8, <2>1, Zenon
<1> HIDE DEF d
<1>10. d.len >= k
  BY <1>1, <1>4, <1>9
<1>11. SegAt(c, 0, hw, HdrSize) /\ SegAt(c, page, kw, k)
  <2>1. SegAt(b, 0, hw, HdrSize)
    BY <1>6, <1>7, SegStays
  <2> QED BY <1>7, <1>8, <2>1, SegStays
<1>12. /\ SegAt(d, 0, hw, HdrSize) /\ SegAt(d, page, kw, k)
       /\ r > 0 => SegAt(d, page + Align(k, page), rw, r)
  BY <1>8, <1>9, <1>11, SegStays
<1>13. Parts(d, h, k, r, s, page)
  BY <1>9, <1>10, <1>12, Zenon DEF Parts, hw, kw, rw, sw
<1> QED BY <1>5, <1>13, Zenon

\* The boot image is the one of its arguments.
LEMMA BootParts ==
  ASSUME ImagesInv, boot # Empty
  PROVE  \E page : LET h == Header(target, args, page)
                   IN  /\ Sized(h, args.kernel, args.ramdisk, args.second, page)
                       /\ Parts(boot, h, args.kernel, args.ramdisk, args.second, page)
<1>1. Given(args, target, ramdisk) /\ IsRamdisk(ramdisk)
  BY Zenon DEF ImagesInv, Files, IsBoot
<1>2. PICK page \in Pages : boot = Layout(Header(target, args, page))
  BY Zenon DEF ImagesInv, Files, IsBoot
<1> DEFINE h == Header(target, args, page)
<1>3. h.kernel.size = args.kernel /\ h.ramdisk.size = args.ramdisk /\ h.second.size = args.second /\ h.page = page
  BY DEF Header
<1>4. args.kernel \in Nat /\ args.kernel > 0 /\ page \in Nat /\ page >= HdrSize
  BY <1>1, PagesAssumption DEF Given
<1>5. args.ramdisk \in Nat /\ args.second \in Nat
  BY <1>1, RamdiskFacts DEF Given
<1> HIDE DEF h
<1>6. Sized(h, args.kernel, args.ramdisk, args.second, page)
  BY <1>3, <1>4, <1>5, Zenon DEF Sized
<1>7. Parts(Layout(h), h, args.kernel, args.ramdisk, args.second, page)
  BY <1>6, LayoutFacts, Zenon
<1>8. boot = Layout(h)
  BY <1>2 DEF h
<1> QED BY <1>6, <1>7, <1>8, Zenon DEF h

\* Every file is an image, and inode numbers count the entries of the archive
\* (Cpio._entry).
THEOREM ImagesTyped == ImagesSpec => []TypeOK
<1>1. ImagesInv => TypeOK
  <2> SUFFICES ASSUME ImagesInv PROVE TypeOK
    OBVIOUS
  <2>1. IsImage(boot)
    <3>1. CASE boot = Empty
      BY <3>1, EmptyImage
    <3>2. CASE boot # Empty
      BY <3>2, BootParts, Zenon DEF Parts
    <3> QED BY <3>1, <3>2
  <2>2. IsImage(ramdisk)
    BY RamdiskFacts, Zenon DEF ImagesInv, Files
  <2>3. IsImage(dtbo)
    BY DtboFacts, EmptyImage, Zenon DEF ImagesInv, Files, IsDtbo
  <2>4. pc = "cpio" => ino = 720 + Len(tree) - Len(calls)
    <3> SUFFICES ASSUME pc = "cpio" PROVE ino = 720 + Len(tree) - Len(calls)
      OBVIOUS
    <3>1. PICK k : Wrote(blob, tree, calls, ino, k)
      BY Zenon DEF ImagesInv, Writing
    <3>2. k \in 0..Len(tree) /\ calls = SubSeq(tree, k + 1, Len(tree)) /\ ino = 720 + k
      BY <3>1, Zenon DEF Wrote
    <3>3. tree \in Seq(Entries)
      BY DEF ImagesInv, Phases, Unpackable
    <3>4. Len(calls) = Len(tree) - k /\ Len(tree) \in Nat
      BY <3>2, <3>3, RestFacts
    <3>5. k \in Nat /\ ino = 720 + k
      BY <3>2, <3>4
    <3> QED BY <3>4, <3>5
  <2> QED BY <2>1, <2>2, <2>3, <2>4 DEF TypeOK, ImagesInv, Phases, PCs, Early
<1> QED BY <1>1, ImagesInitInv, ImagesStepInv, PTL DEF ImagesSpec

\* The kernel makes exactly main()'s tree and reaches the trailer, for every size
\* of init and busybox (Cpio._entry, Cpio._pad4, Cpio.trailer).
THEOREM TreeUnpacked == ImagesSpec => []UnpacksTree
<1>1. ImagesInv => UnpacksTree
  <2> SUFFICES ASSUME ImagesInv, pc = "unpacked" PROVE rd.made = tree /\ AtName("TRAILER!!!")
    BY Zenon DEF UnpacksTree
  <2>1. Unpackable(tree)
    BY DEF ImagesInv, Phases
  <2>2. PICK off : Archive(blob, tree, off) /\ Reads(rd, tree, off, Len(tree))
    BY Zenon DEF ImagesInv, Reading
  <2>3. tree \in Seq(Entries) /\ rd.made = SubSeq(tree, 1, Len(tree))
    BY <2>1, <2>2, Zenon DEF Unpackable, Reads
  <2>4. SubSeq(tree, 1, Len(tree)) = tree
    BY <2>3, WholeSeq
  <2>5. AtName("TRAILER!!!")
    BY <2>1, <2>2, ReaderAt
  <2> QED BY <2>3, <2>4, <2>5
<1> QED BY <1>1, ImagesInitInv, ImagesStepInv, PTL DEF ImagesSpec

\* The loader finds each part whole at the offset it computes from the header,
\* both halves of the command line, and the DTB through the DTBO entry, for every
\* size and page (mkbootimg.py's pad and main, mkdtboimg.py's build).
THEOREM LoaderFinds == ImagesSpec => []LoaderFindsParts
<1>1. ImagesInv => LoaderFindsParts
  <2> SUFFICES ASSUME ImagesInv PROVE LoaderFindsParts
    OBVIOUS
  <2>1. ASSUME boot # Empty
        PROVE  /\ Loads("kernel") = Seg(<<"kernel">>, args.kernel)
               /\ Loads("ramdisk") = At(ramdisk, 0)
               /\ args.second > 0 => Loads("second") = Seg(<<"second">>, args.second)
               /\ LET h == At(boot, 0).what[2]
                  IN  h.cmdline <= 512 /\ h.extra <= 1024 /\ h.cmdline + h.extra = args.cmd
    <3> DEFINE k == args.kernel
               r == args.ramdisk
               s == args.second
    <3>0. Given(args, target, ramdisk) /\ IsRamdisk(ramdisk)
      BY <2>1, Zenon DEF ImagesInv, Files, IsBoot
    <3>1. PICK page : /\ Sized(Header(target, args, page), k, r, s, page)
                      /\ Parts(boot, Header(target, args, page), k, r, s, page)
      BY <2>1, BootParts, Zenon
    <3> DEFINE h == Header(target, args, page)
    <3>2. /\ k \in Nat /\ k > 0 /\ r \in Nat /\ s \in Nat /\ page \in Nat
          /\ h.kernel.size = k /\ h.ramdisk.size = r /\ h.second.size = s /\ h.page = page
      BY <3>1, Zenon DEF Sized
    <3>3. h.cmdline <= 512 /\ h.extra <= 1024 /\ h.cmdline + h.extra = args.cmd
      <4> DEFINE c == args.cmd
                 x == h.cmdline
                 y == h.extra
      <4>1. c \in 0..1536
        BY <3>0 DEF Given
      <4>2. x = (IF c > 512 THEN 512 ELSE c) /\ y = (IF c > 512 THEN c - 512 ELSE 0)
        BY DEF Header
      <4> HIDE DEF c, x, y
      <4>3. x <= 512 /\ y <= 1024 /\ x + y = c
        BY <4>1, <4>2
      <4> QED BY <4>3 DEF c, x, y
    <3> HIDE DEF h, k, r, s
    <3>4. /\ SegAt(boot, 0, <<"header", h>>, HdrSize)
          /\ SegAt(boot, page, <<"kernel">>, k)
          /\ r > 0 => SegAt(boot, page + Align(k, page), <<"gzip">>, r)
          /\ s > 0 => SegAt(boot, page + Align(k, page) + Align(r, page), <<"second">>, s)
      BY <3>1, Zenon DEF Parts, h, k, r, s
    <3>5. At(boot, 0).what[2] = h
      <4>1. At(boot, 0).what = <<"header", h>>
        BY <3>4, SegFound
      <4> QED BY <4>1
    <3>6. Loads("kernel") = Seg(<<"kernel">>, k)
      <4>1. Loads("kernel") = At(boot, page)
        BY <3>2, <3>5 DEF Loads
      <4> QED BY <3>4, <4>1, SegFound
    <3>7. Loads("ramdisk") = At(ramdisk, 0)
      <4>1. r = ramdisk.len /\ IsRamdisk(ramdisk)
        BY <3>0 DEF Given, r
      <4>2. Loads("ramdisk") = IF r = 0 THEN Seg(<<"nothing">>, 0) ELSE At(boot, page + Align(k, page))
        BY <3>2, <3>5 DEF Loads
      <4>3. r # 0 => At(boot, page + Align(k, page)) = Seg(<<"gzip">>, r)
        <5>1. r # 0 => r > 0
          BY <3>2
        <5> QED BY <3>4, <5>1, SegFound, Zenon
      <4> QED BY <4>1, <4>2, <4>3, RamdiskFacts, Zenon
    <3>8. ASSUME s > 0 PROVE Loads("second") = Seg(<<"second">>, s)
      <4>1. Loads("second") = At(boot, page + Align(k, page) + Align(r, page))
        BY <3>2, <3>5, <3>8 DEF Loads
      <4> QED BY <3>4, <3>8, <4>1, SegFound
    <3> QED BY <3>3, <3>5, <3>6, <3>7, <3>8 DEF k, s
  <2>2. ASSUME dtbo # Empty
        PROVE  LET e == At(dtbo, 32)
               IN  /\ At(dtbo, 0).what = <<"d7b7ab1e", dtbo.len>>
                   /\ At(dtbo, e.what[3]) = Seg(<<"dtb">>, e.what[2])
    <3>1. PICK n \in DtbSizes : dtbo = Dtbo(n)
      BY <2>2, Zenon DEF ImagesInv, Files, IsDtbo
    <3>2. /\ dtbo.len = 64 + n /\ At(dtbo, 0).what = <<"d7b7ab1e", 64 + n>>
          /\ At(dtbo, 32).what = <<"entry", n, 64>> /\ At(dtbo, 64) = Seg(<<"dtb">>, n)
      BY <3>1, DtboFacts
    <3>3. At(dtbo, 32).what[3] = 64 /\ At(dtbo, 32).what[2] = n
      BY <3>2
    <3> QED BY <3>2, <3>3, Zenon
  <2> QED BY <2>1, <2>2 DEF LoaderFindsParts
<1> QED BY <1>1, ImagesInitInv, ImagesStepInv, PTL DEF ImagesSpec

\* No part is loaded over another one, for every image that fits boot_a (the load
\* addresses of targets/*/target.env, mkbootimg.py's header).
THEOREM PartsKeptApart == ImagesSpec => []PartsApart
<1>1. ImagesInv => PartsApart
  <2> SUFFICES ASSUME ImagesInv, boot # Empty, boot.len <= BOOT_PARTITION_SIZE,
                      NEW p \in {"kernel", "ramdisk", "second"}, NEW q \in {"kernel", "ramdisk", "second"},
                      p # q, args[p] > 0, args[q] > 0
               PROVE  Region(p).hi <= Region(q).lo \/ Region(q).hi <= Region(p).lo
    BY Zenon DEF PartsApart
  <2> DEFINE k == args.kernel
             r == args.ramdisk
             s == args.second
  <2>0. Given(args, target, ramdisk)
    BY Zenon DEF ImagesInv, Files, IsBoot
  <2>1. PICK page : /\ Sized(Header(target, args, page), k, r, s, page)
                    /\ Parts(boot, Header(target, args, page), k, r, s, page)
    BY BootParts, Zenon
  <2> DEFINE h == Header(target, args, page)
             K == 1073741824 + 524288
  <2>2. k \in Nat /\ k > 0 /\ r \in Nat /\ s \in Nat
    BY <2>1, Zenon DEF Sized
  <2>3. k <= 50331648
    <3>1. boot.len \in Nat /\ boot.len >= k
      BY <2>1 DEF Parts, IsImage
    <3> QED BY <2>2, <3>1 DEF BOOT_PARTITION_SIZE
  <2>4. At(boot, 0).what[2] = h
    <3>1. SegAt(boot, 0, <<"header", h>>, HdrSize)
      BY <2>1, Zenon DEF Parts
    <3> HIDE DEF h
    <3>2. At(boot, 0).what = <<"header", h>>
      BY <3>1, SegFound
    <3> QED BY <3>2
  <2>5. /\ h.kernel.size = k /\ h.ramdisk.size = r /\ h.second.size = s
        /\ h.kernel.addr = K
        /\ h.ramdisk.addr = 1073741824 + (IF target = "c60" THEN 50331648 ELSE 16777216)
        /\ h.second.addr = 1073741824 + (IF target = "c60" THEN 54525952 ELSE 15728640)
    BY DEF Header, BOOT_BASE, BOOT_KERNEL_OFFSET, BOOT_RAMDISK_OFFSET, SECOND_OFFSET
  <2>6. r > 0 => target = "tc8"
    <3>1. r = ramdisk.len
      BY <2>0 DEF Given
    <3>2. target # "tc8" => ramdisk.len = 0
      BY EmptyImage, Zenon DEF ImagesInv, Files
    <3> QED BY <2>2, <3>1, <3>2
  <2>7. s > 0 => target = "c60"
    <3>1. target # "c60" => s = 0
      BY <2>0 DEF Given
    <3> QED BY <2>2, <3>1
  <2> HIDE DEF h
  <2>8. Region("kernel").lo = K /\ Region("kernel").hi = K + k
    BY <2>4, <2>5 DEF Region
  <2>9. ASSUME r > 0 PROVE Region("kernel").hi <= Region("ramdisk").lo
    <3>1. Region("ramdisk").lo = IF h.ramdisk.addr < h.kernel.addr + h.kernel.size
                                 THEN h.kernel.addr + 67108864 ELSE h.ramdisk.addr
      BY <2>4 DEF Region
    <3>2. h.ramdisk.addr = 1073741824 + 16777216
      BY <2>5, <2>6, <2>9
    <3> QED BY <2>2, <2>3, <2>5, <2>8, <3>1, <3>2
  <2>10. ASSUME s > 0 PROVE Region("kernel").hi <= Region("second").lo
    <3>1. Region("second").lo = h.second.addr
      BY <2>4 DEF Region
    <3>2. h.second.addr = 1073741824 + 54525952
      BY <2>5, <2>7, <2>10
    <3> QED BY <2>2, <2>3, <2>8, <3>1, <3>2
  <2>11. ~(r > 0 /\ s > 0)
    BY <2>6, <2>7
  <2>12. args["kernel"] = k /\ args["ramdisk"] = r /\ args["second"] = s
    OBVIOUS
  <2> HIDE DEF k, r, s
  <2> QED BY <2>9, <2>10, <2>11, <2>12
<1> QED BY <1>1, ImagesInitInv, ImagesStepInv, PTL DEF ImagesSpec
=============================================================================
