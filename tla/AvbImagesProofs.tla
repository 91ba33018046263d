--------------------------- MODULE AvbImagesProofs ---------------------------
(***************************************************************************)
(* Proofs about AvbImages, for every set of partitions, inputs and sizes,  *)
(* every block and struct size, and any number of failing, lost and        *)
(* interrupted steps.                                                      *)
(***************************************************************************)
EXTENDS AvbImages, TLAPS

-----------------------------------------------------------------------------
\* The inductive invariant, as predicates of one image r.

Cell   == Content \cup {"V", "F"}
Footer == [original : Nat, offset : Nat]
Image  == [cells : Seq(Cell), vb : Descs, ft : Footer]
Cmds   == [op : {"pack", "add", "erase", "resize", "vbmeta"}, part : Parts, size : Nat,
           original : Nat]

Footed(c) == c[Len(c)] = "F"

\* No image is larger than the largest partition or input.
Bounded(n) == (\E k \in PartSizes \cup PadSizes : n <= k) \/ (\E s \in Inputs : n <= Len(s))

\* An image starts with content, and a footer is nowhere but at its end.
Shaped(r) ==
  /\ r \in Image
  /\ Len(r.cells) >= 1 /\ r.cells[1] \in Content
  /\ \A i \in 1..(Len(r.cells) - 1) : r.cells[i] # "F"
  /\ Bounded(Len(r.cells))

\* The descriptor is that of the cells before the struct.
Described(r) ==
  /\ r.vb.size >= 1 /\ r.vb.size <= Len(r.cells)
  /\ SubSeq(r.cells, 1, r.vb.size) = r.vb.digest

\* The footer and the descriptor agree.
Pointed(r) == r.ft.offset = RoundUp(r.vb.size) /\ r.ft.original = r.vb.size

\* The struct is where the footer says, and whole blocks follow it.
Struct(r) ==
  /\ r.cells[r.ft.offset + 1] = "V"
  /\ r.ft.offset + RoundUp(VbSize) + BlockSize <= Len(r.cells)
  /\ Len(r.cells) % BlockSize = 0

\* An image with a footer; h is what happened to it.
Good(r, h) ==
  Footed(r.cells) =>
    /\ Described(r) /\ Pointed(r) /\ r.ft.offset + BlockSize <= Len(r.cells)
    /\ Struct(r) \/ (h = "lost" /\ r.cells[r.ft.offset + 1] # "V")

\* The packed image s can be had back.
Kept(r, s) ==
  IF Footed(r.cells) THEN r.ft.original = Len(s) /\ SubSeq(r.cells, 1, Len(s)) = s
  ELSE r.cells = s

\* A running command, statement by statement: r is its image, h what happened
\* to it, s what was packed.
Room(c) == c.size % BlockSize = 0 /\ c.size \in PartSizes

AtStrip(c) == c.op = "add" /\ c.size \in PartSizes /\ c.size >= MaxMeta

AtSize(r, c) == AtStrip(c) /\ ~Footed(r.cells) /\ c.original = Len(r.cells)

\* While the metadata is appended.
Appending(r, c, h, s) ==
  /\ Room(c) /\ ~Footed(r.cells) /\ Described(r)
  /\ c.op \in {"add", "resize"}
  /\ c.op = "add" => c.original = r.vb.size
  /\ h = "none" => r.vb = [size |-> Len(s), digest |-> s]

AtVbmeta(r, c, h, s) ==
  /\ Appending(r, c, h, s) /\ c.op = "add"
  /\ Len(r.cells) = RoundUp(r.vb.size) /\ Len(r.cells) + MaxMeta <= c.size

StructEnd(r) == r.ft.offset + RoundUp(VbSize)

AtGap(r, c, h, s) ==
  /\ Appending(r, c, h, s) /\ Pointed(r)
  /\ StructEnd(r) + BlockSize <= c.size
  /\ \/ Len(r.cells) = StructEnd(r) /\ r.cells[r.ft.offset + 1] = "V"
     \/ h = "lost" /\ Len(r.cells) = r.ft.offset

AtFooter(r, c, h, s) ==
  /\ Appending(r, c, h, s) /\ Pointed(r)
  /\ StructEnd(r) + BlockSize <= c.size
  /\ \/ Len(r.cells) = c.size - BlockSize /\ r.cells[r.ft.offset + 1] = "V"
     \/ /\ h = "lost" /\ r.ft.offset <= Len(r.cells) /\ Len(r.cells) <= c.size - BlockSize
        /\ Len(r.cells) > r.ft.offset => r.cells[r.ft.offset + 1] # "V"

Busy(l, r, c, h, s) ==
  /\ l = "strip"   => AtStrip(c)
  /\ l = "size"    => AtSize(r, c)
  /\ l = "vbmeta"  => AtVbmeta(r, c, h, s)
  /\ l = "gap"     => AtGap(r, c, h, s)
  /\ l = "footer"  => AtFooter(r, c, h, s)

Running ==
  /\ Busy(pc, img[cmd.part], cmd, harm[cmd.part], src[cmd.part])
  /\ pc = "include" => cmd.op = "vbmeta" /\ vbmeta = Empty
  /\ pc # "idle"    => result = "running"

Typed ==
  /\ img \in [Parts -> Image] /\ cmd \in Cmds
  /\ vbmeta \in {Empty} \cup [Parts -> Descs]
  /\ pc \in {"idle", "strip", "size", "vbmeta", "gap", "footer", "include"}
  /\ result \in {"ok", "error", "running", "interrupted"}
  /\ src \in [Parts -> Seq(Content) \ {<<>>}] /\ harm \in [Parts -> {"none", "cut", "lost"}]
  /\ faults \in 0 .. MaxFaults /\ stops \in 0 .. MaxStops

Images == \A p \in Parts : Shaped(img[p]) /\ Good(img[p], harm[p])

Open == {"vbmeta", "gap", "footer"}

Originals ==
  \A p \in Parts :
    harm[p] = "none" /\ (pc \in Open => p # cmd.part) => Kept(img[p], src[p])

\* A command that succeeded made the image as large as the partition.
Made(r, c, h) == h # "lost" => Footed(r.cells) /\ Len(r.cells) = c.size

Finished ==
  result = "ok" /\ cmd.op \in {"add", "resize"} =>
    Made(img[cmd.part], cmd, harm[cmd.part])

IInv == Typed /\ Images /\ Originals /\ Running /\ Finished

-----------------------------------------------------------------------------
\* Whole blocks.

LEMMA Constants ==
  /\ BlockSize \in Nat /\ BlockSize >= 1 /\ VbSize \in Nat /\ VbSize >= 1
  /\ MaxVbmeta \in Nat /\ MaxMeta \in Nat /\ MaxMeta = MaxVbmeta + BlockSize
  /\ PartSizes \subseteq Nat /\ PadSizes \subseteq Nat \ {0} /\ Inputs \subseteq Seq(Content) \ {<<>>}
  BY AvbAssumption DEF MaxMeta

LEMMA RoundUpFacts ==
  ASSUME NEW k \in Nat
  PROVE  RoundUp(k) \in Nat /\ RoundUp(k) >= k /\ RoundUp(k) < k + BlockSize
         /\ RoundUp(k) % BlockSize = 0
<1>1. BlockSize \in Nat /\ BlockSize >= 1
  BY Constants
<1>2. RoundUp(k) \in Nat /\ RoundUp(k) >= k /\ RoundUp(k) < k + BlockSize
  BY <1>1 DEF RoundUp
<1>3. RoundUp(k) % BlockSize = 0
  BY <1>1 DEF RoundUp
<1> QED BY <1>2, <1>3

LEMMA Multiple ==
  ASSUME NEW m \in Nat
  PROVE  m % BlockSize = 0 <=> \E q \in Nat : m = BlockSize * q
<1>1. BlockSize \in Nat /\ BlockSize >= 1
  BY Constants
<1>2. m \div BlockSize \in Nat /\ m = BlockSize * (m \div BlockSize) + (m % BlockSize)
  BY <1>1
<1>3. ASSUME NEW q \in Nat, m = BlockSize * q PROVE m % BlockSize = 0
  <2>1. BlockSize * q = q * BlockSize
    BY <1>1
  <2>2. (q * BlockSize) % BlockSize = 0
    BY <1>1
  <2> QED BY <1>3, <2>1, <2>2
<1>4. ASSUME m % BlockSize = 0 PROVE m = BlockSize * (m \div BlockSize)
  BY <1>1, <1>2, <1>4
<1> QED BY <1>2, <1>3, <1>4

\* Rounding up does not pass a whole number of blocks.
LEMMA RoundUpLeast ==
  ASSUME NEW k \in Nat, NEW m \in Nat, m % BlockSize = 0, k <= m
  PROVE  RoundUp(k) <= m
<1>1. BlockSize \in Nat /\ BlockSize >= 1
  BY Constants
<1>2. PICK q \in Nat : m = BlockSize * q
  BY Multiple
<1>3. RoundUp(k) \in Nat /\ RoundUp(k) < k + BlockSize /\ RoundUp(k) % BlockSize = 0
  BY RoundUpFacts
<1>4. PICK j \in Nat : RoundUp(k) = BlockSize * j
  BY <1>3, Multiple
<1>5. BlockSize * j < BlockSize * q + BlockSize
  BY <1>1, <1>2, <1>3, <1>4
<1>6. BlockSize * j < BlockSize * (q + 1)
  BY <1>1, <1>5
<1>7. j < q + 1
  <2>1. j >= q + 1 => BlockSize * j >= BlockSize * (q + 1)
    BY <1>1
  <2> QED BY <1>1, <1>6, <2>1
<1>8. j <= q
  BY <1>7
<1>9. BlockSize * j <= BlockSize * q
  BY <1>1, <1>8
<1> QED BY <1>2, <1>4, <1>9

LEMMA SumOfBlocks ==
  ASSUME NEW a \in Nat, NEW b \in Nat, a % BlockSize = 0, b % BlockSize = 0
  PROVE  (a + b) % BlockSize = 0 /\ (b <= a => (a - b) % BlockSize = 0)
<1>1. BlockSize \in Nat /\ BlockSize >= 1
  BY Constants
<1>2. PICK q \in Nat : a = BlockSize * q
  BY Multiple
<1>3. PICK j \in Nat : b = BlockSize * j
  BY Multiple
<1>4. a + b = BlockSize * (q + j) /\ a + b \in Nat
  BY <1>1, <1>2, <1>3
<1>5. (a + b) % BlockSize = 0
  BY <1>4, Multiple
<1>6. ASSUME b <= a PROVE (a - b) % BlockSize = 0
  <2>1. j <= q
    <3>1. j > q => BlockSize * j > BlockSize * q
      BY <1>1
    <3> QED BY <1>2, <1>3, <1>6, <3>1
  <2>2. a - b = BlockSize * (q - j) /\ a - b \in Nat /\ q - j \in Nat
    BY <1>1, <1>2, <1>3, <1>6, <2>1
  <2> QED BY <2>2, Multiple
<1> QED BY <1>5, <1>6

\* A struct that starts on a block ends, rounded up, after its own blocks.
LEMMA RoundUpFrom ==
  ASSUME NEW o \in Nat, NEW k \in Nat, o % BlockSize = 0
  PROVE  RoundUp(o + k) = o + RoundUp(k)
<1>1. BlockSize \in Nat /\ BlockSize >= 1
  BY Constants
<1>2. /\ RoundUp(k) \in Nat /\ RoundUp(k) >= k /\ RoundUp(k) < k + BlockSize
      /\ RoundUp(k) % BlockSize = 0
  BY RoundUpFacts
<1>3. (o + RoundUp(k)) % BlockSize = 0 /\ o + RoundUp(k) \in Nat /\ o + k \in Nat
  BY <1>2, SumOfBlocks
<1>4. RoundUp(o + k) <= o + RoundUp(k)
  BY <1>2, <1>3, RoundUpLeast
<1>5. /\ RoundUp(o + k) \in Nat /\ RoundUp(o + k) >= o + k /\ RoundUp(o + k) % BlockSize = 0
  BY <1>3, RoundUpFacts
<1>6. RoundUp(k) <= RoundUp(o + k) - o
  <2>1. o <= RoundUp(o + k) /\ RoundUp(o + k) - o \in Nat /\ k <= RoundUp(o + k) - o
    BY <1>5
  <2>2. (RoundUp(o + k) - o) % BlockSize = 0
    BY <1>5, <2>1, SumOfBlocks
  <2> QED BY <2>1, <2>2, RoundUpLeast
<1> QED BY <1>2, <1>4, <1>5, <1>6

-----------------------------------------------------------------------------
\* Cells: truncating, appending, and what they leave alone.

LEMMA ZerosFacts ==
  ASSUME NEW k \in Int
  PROVE  /\ Zeros(k) \in Seq(Content) /\ Len(Zeros(k)) = IF k >= 0 THEN k ELSE 0
         /\ \A i \in 1..Len(Zeros(k)) : Zeros(k)[i] = "0"
<1> DEFINE n == IF k >= 0 THEN k ELSE 0
           f == [c \in 1..n |-> "0"]
<1>1. n \in Nat /\ 1..k = 1..n
  OBVIOUS
<1>2. Zeros(k) = f
  <2> HIDE DEF n
  <2> QED BY <1>1, Zenon DEF Zeros
<1> HIDE DEF n
<1>3. f \in [1..n -> Content] /\ DOMAIN f = 1..n /\ \A i \in 1..n : f[i] = "0"
  BY DEF Content
<1> HIDE DEF f
<1>4. f \in Seq(Content) /\ Len(f) = n
  BY <1>1, <1>3
<1> QED BY <1>2, <1>3, <1>4 DEF n

LEMMA CellSeq == Seq(Content) \subseteq Seq(Cell) /\ Content \subseteq Cell
<1>1. Content \subseteq Cell
  BY DEF Cell
<1>2. ASSUME NEW s \in Seq(Content) PROVE s \in Seq(Cell)
  <2>1. Len(s) \in Nat /\ s \in [1..Len(s) -> Content]
    OBVIOUS
  <2>2. s \in [1..Len(s) -> Cell]
    BY <1>1, <2>1
  <2> QED BY <2>1, <2>2
<1> QED BY <1>1, <1>2

LEMMA BlobFacts ==
  /\ VbmetaBlob \in Seq(Cell) /\ Len(VbmetaBlob) = VbSize
  /\ \A i \in 1..VbSize : VbmetaBlob[i] = "V"
<1> DEFINE f == [c \in 1 .. VbSize |-> "V"]
<1>1. VbSize \in Nat
  BY Constants
<1>2. f \in [1..VbSize -> Cell] /\ DOMAIN f = 1..VbSize /\ \A i \in 1..VbSize : f[i] = "V"
  BY DEF Cell
<1>3. VbmetaBlob = f
  BY DEF VbmetaBlob
<1> HIDE DEF f
<1> QED BY <1>1, <1>2, <1>3

\* c \o t.
LEMMA JoinFacts ==
  ASSUME NEW c \in Seq(Cell), NEW t \in Seq(Cell)
  PROVE  /\ c \o t \in Seq(Cell) /\ Len(c \o t) = Len(c) + Len(t)
         /\ \A i \in 1..Len(c) : (c \o t)[i] = c[i]
         /\ \A i \in 1..Len(t) : (c \o t)[Len(c) + i] = t[i]
  OBVIOUS

LEMMA ResizedFacts ==
  ASSUME NEW c \in Seq(Cell), NEW k \in Nat
  PROVE  /\ Resized(c, k) \in Seq(Cell) /\ Len(Resized(c, k)) = k
         /\ \A i \in 1..k : Resized(c, k)[i] = IF i <= Len(c) THEN c[i] ELSE "0"
         /\ k <= Len(c) => Resized(c, k) = SubSeq(c, 1, k)
<1>1. CASE k <= Len(c)
  <2>1. Resized(c, k) = SubSeq(c, 1, k)
    BY <1>1 DEF Resized
  <2>2. SubSeq(c, 1, k) \in Seq(Cell) /\ Len(SubSeq(c, 1, k)) = k
        /\ \A i \in 1..k : SubSeq(c, 1, k)[i] = c[i] /\ i <= Len(c)
    BY <1>1
  <2> QED BY <2>1, <2>2
<1>2. CASE ~(k <= Len(c))
  <2> DEFINE z == Zeros(k - Len(c))
  <2>1. Resized(c, k) = c \o z
    BY <1>2 DEF Resized
  <2>2. z \in Seq(Cell) /\ Len(z) = k - Len(c) /\ \A i \in 1..Len(z) : z[i] = "0"
    <3>1. k - Len(c) \in Int /\ k - Len(c) >= 0
      BY <1>2
    <3>2. z \in Seq(Content) /\ Len(z) = k - Len(c) /\ \A i \in 1..Len(z) : z[i] = "0"
      BY <3>1, ZerosFacts
    <3> QED BY <3>2, CellSeq
  <2> HIDE DEF z
  <2>3. /\ c \o z \in Seq(Cell) /\ Len(c \o z) = Len(c) + Len(z)
        /\ \A i \in 1..Len(c) : (c \o z)[i] = c[i]
        /\ \A i \in 1..Len(z) : (c \o z)[Len(c) + i] = z[i]
    BY <2>2, JoinFacts
  <2>4. Len(c) \in Nat /\ Len(c) + Len(z) = k
    BY <2>2
  <2>5. ASSUME NEW i \in 1..k PROVE (c \o z)[i] = IF i <= Len(c) THEN c[i] ELSE "0"
    <3>1. CASE i <= Len(c)
      BY <2>3, <2>4, <3>1
    <3>2. CASE ~(i <= Len(c))
      <4>1. i - Len(c) \in 1..Len(z) /\ Len(c) + (i - Len(c)) = i
        BY <2>4, <3>2
      <4>2. (c \o z)[Len(c) + (i - Len(c))] = z[i - Len(c)]
        BY <2>3, <4>1
      <4>3. z[i - Len(c)] = "0"
        BY <2>2, <4>1
      <4> QED BY <3>2, <4>1, <4>2, <4>3
    <3> QED BY <3>1, <3>2
  <2> QED BY <1>2, <2>1, <2>3, <2>4, <2>5
<1> QED BY <1>1, <1>2

\* Cells that begin alike.
LEMMA SamePrefix ==
  ASSUME NEW c \in Seq(Cell), NEW e \in Seq(Cell), NEW n \in Nat, n <= Len(c), n <= Len(e),
         \A i \in 1..n : c[i] = e[i]
  PROVE  SubSeq(c, 1, n) = SubSeq(e, 1, n)
<1>1. SubSeq(c, 1, n) = [i \in 1..n |-> c[i]] /\ SubSeq(e, 1, n) = [i \in 1..n |-> e[i]]
  OBVIOUS
<1> QED BY <1>1

-----------------------------------------------------------------------------
\* Images, one edit at a time.

NoF(c) == \A i \in 1..Len(c) : c[i] # "F"

LEMMA ImageFacts ==
  ASSUME NEW r \in Image
  PROVE  /\ r.cells \in Seq(Cell) /\ Len(r.cells) \in Nat
         /\ r.vb \in Descs /\ r.vb.size \in Nat /\ r.vb.digest \in Seq(Cell)
         /\ r.ft \in Footer /\ r.ft.original \in Nat /\ r.ft.offset \in Nat
<1>1. r.cells \in Seq(Cell) /\ r.vb \in Descs /\ r.ft \in Footer
  BY DEF Image
<1>2. r.vb.size \in Nat /\ r.vb.digest \in Seq(Cell)
  BY <1>1 DEF Descs, Cell
<1>3. r.ft.original \in Nat /\ r.ft.offset \in Nat
  BY <1>1 DEF Footer
<1> QED BY <1>1, <1>2, <1>3

LEMMA ShapedFacts ==
  ASSUME NEW r, Shaped(r)
  PROVE  /\ r \in Image /\ r.cells \in Seq(Cell) /\ Len(r.cells) \in Nat /\ Len(r.cells) >= 1
         /\ r.cells[1] \in Content /\ Bounded(Len(r.cells))
         /\ r.vb \in Descs /\ r.vb.size \in Nat /\ r.vb.digest \in Seq(Cell)
         /\ r.ft \in Footer /\ r.ft.original \in Nat /\ r.ft.offset \in Nat
         /\ ~Footed(r.cells) => NoF(r.cells)
<1>1. /\ r \in Image /\ Len(r.cells) >= 1 /\ r.cells[1] \in Content /\ Bounded(Len(r.cells))
      /\ \A i \in 1..(Len(r.cells) - 1) : r.cells[i] # "F"
  BY Zenon DEF Shaped
<1>2. /\ r.cells \in Seq(Cell) /\ Len(r.cells) \in Nat
      /\ r.vb \in Descs /\ r.vb.size \in Nat /\ r.vb.digest \in Seq(Cell)
      /\ r.ft \in Footer /\ r.ft.original \in Nat /\ r.ft.offset \in Nat
  BY <1>1, ImageFacts
<1>3. ~Footed(r.cells) => NoF(r.cells)
  <2>1. \A i \in 1..Len(r.cells) : i \in 1..(Len(r.cells) - 1) \/ i = Len(r.cells)
    BY <1>2
  <2> QED BY <1>1, <2>1, Zenon DEF NoF, Footed
<1> QED BY <1>1, <1>2, <1>3, Zenon

LEMMA MakeShaped ==
  ASSUME NEW r \in Image, Len(r.cells) >= 1, r.cells[1] \in Content, NoF(r.cells),
         Bounded(Len(r.cells))
  PROVE  Shaped(r) /\ ~Footed(r.cells) /\ \A h : Good(r, h)
<1>1. Len(r.cells) \in Nat
  BY ImageFacts
<1>2. Len(r.cells) \in 1..Len(r.cells) /\ \A i \in 1..(Len(r.cells) - 1) : i \in 1..Len(r.cells)
  BY <1>1
<1>3. ~Footed(r.cells)
  BY <1>2, Zenon DEF NoF, Footed
<1>4. Shaped(r)
  BY <1>2, Zenon DEF Shaped, NoF
<1> QED BY <1>3, <1>4, Zenon DEF Good

LEMMA BoundedLess ==
  ASSUME NEW n \in Nat, NEW m \in Nat, m <= n, Bounded(n)
  PROVE  Bounded(m)
<1>1. PartSizes \subseteq Nat /\ PadSizes \subseteq Nat /\ \A s \in Inputs : Len(s) \in Nat
  BY Constants
<1>2. CASE \E k \in PartSizes \cup PadSizes : n <= k
  <2>1. PICK k \in PartSizes \cup PadSizes : n <= k
    BY <1>2
  <2>2. m <= k
    BY <1>1, <2>1
  <2> QED BY <2>2, Zenon DEF Bounded
<1>3. CASE \E s \in Inputs : n <= Len(s)
  <2>1. PICK s \in Inputs : n <= Len(s)
    BY <1>3
  <2>2. m <= Len(s)
    BY <1>1, <2>1
  <2> QED BY <2>2, Zenon DEF Bounded
<1> QED BY <1>2, <1>3, Zenon DEF Bounded

Plain(c) == [cells |-> c, vb |-> NoDesc, ft |-> NoFooter]

LEMMA PlainFacts ==
  ASSUME NEW c \in Seq(Cell)
  PROVE  Plain(c) \in Image /\ Plain(c).cells = c
<1>1. NoDesc \in Descs /\ NoFooter \in Footer
  <2>1. <<>> \in Seq(Content \cup {"V", "F"}) /\ 0 \in Nat
    OBVIOUS
  <2> QED BY <2>1 DEF NoDesc, NoFooter, Descs, Footer
<1> QED BY <1>1 DEF Plain, Image

\* Truncating an image to k cells, short of its footer.
LEMMA Restored ==
  ASSUME NEW r, Shaped(r), NEW k \in Nat, 1 <= k, k <= Len(r.cells),
         k < Len(r.cells) \/ ~Footed(r.cells)
  PROVE  /\ Shaped(Plain(Resized(r.cells, k))) /\ ~Footed(Resized(r.cells, k))
         /\ \A h : Good(Plain(Resized(r.cells, k)), h)
         /\ Len(Resized(r.cells, k)) = k /\ Resized(r.cells, k) = SubSeq(r.cells, 1, k)
<1> DEFINE c == r.cells
           e == Resized(r.cells, k)
           q == Plain(e)
<1>1. c \in Seq(Cell) /\ Len(c) \in Nat /\ c[1] \in Content /\ Bounded(Len(c))
  BY ShapedFacts
<1>2. e \in Seq(Cell) /\ Len(e) = k /\ e = SubSeq(c, 1, k)
      /\ \A i \in 1..k : e[i] = c[i]
  <2>1. /\ e \in Seq(Cell) /\ Len(e) = k /\ e = SubSeq(c, 1, k)
        /\ \A i \in 1..k : e[i] = IF i <= Len(c) THEN c[i] ELSE "0"
    BY <1>1, ResizedFacts
  <2>2. \A i \in 1..k : i <= Len(c)
    BY <1>1
  <2> QED BY <2>1, <2>2
<1>3. NoF(e)
  <2>1. CASE k < Len(c)
    <3>1. \A i \in 1..(Len(c) - 1) : c[i] # "F"
      BY Zenon DEF Shaped
    <3>2. \A i \in 1..k : i \in 1..(Len(c) - 1)
      BY <1>1, <2>1
    <3> QED BY <1>2, <3>1, <3>2 DEF NoF
  <2>2. CASE ~Footed(c)
    <3>1. NoF(c)
      BY <2>2, ShapedFacts
    <3>2. \A i \in 1..k : i \in 1..Len(c)
      BY <1>1
    <3> QED BY <1>2, <3>1, <3>2 DEF NoF
  <2> QED BY <2>1, <2>2
<1> HIDE DEF e
<1>4. q \in Image /\ q.cells = e
  BY <1>2, PlainFacts
<1> HIDE DEF q
<1>5. Len(q.cells) >= 1 /\ q.cells[1] \in Content /\ Bounded(Len(q.cells)) /\ NoF(q.cells)
  <2>1. 1 \in 1..k /\ Bounded(k)
    BY <1>1, BoundedLess
  <2> QED BY <1>1, <1>2, <1>3, <1>4, <2>1
<1>6. Shaped(q) /\ ~Footed(q.cells) /\ \A h : Good(q, h)
  BY <1>4, <1>5, MakeShaped
<1> QED BY <1>2, <1>4, <1>6 DEF e, q

\* Appending cells that are no footer.
Longer(r, t, q) ==
  /\ Shaped(r) /\ ~Footed(r.cells) /\ t \in Seq(Cell) /\ NoF(t)
  /\ q \in Image /\ q.cells = r.cells \o t /\ Bounded(Len(r.cells) + Len(t))

Extended(r, t, q) ==
  /\ Shaped(q) /\ ~Footed(q.cells) /\ (\A h : Good(q, h))
  /\ Len(q.cells) = Len(r.cells) + Len(t)
  /\ \A i \in 1..Len(r.cells) : q.cells[i] = r.cells[i]
  /\ \A i \in 1..Len(t) : q.cells[Len(r.cells) + i] = t[i]

LEMMA Lengthened ==
  ASSUME NEW r, NEW t, NEW q, Longer(r, t, q)
  PROVE  Extended(r, t, q)
<1> DEFINE c == r.cells
           e == q.cells
<1>0. /\ Shaped(r) /\ ~Footed(r.cells) /\ t \in Seq(Cell) /\ NoF(t)
      /\ q \in Image /\ q.cells = r.cells \o t /\ Bounded(Len(r.cells) + Len(t))
  BY Zenon DEF Longer
<1>1. c \in Seq(Cell) /\ Len(c) \in Nat /\ Len(c) >= 1 /\ c[1] \in Content /\ NoF(c)
  BY <1>0, ShapedFacts
<1>2. /\ e \in Seq(Cell) /\ Len(e) = Len(c) + Len(t)
      /\ \A i \in 1..Len(c) : e[i] = c[i]
      /\ \A i \in 1..Len(t) : e[Len(c) + i] = t[i]
  BY <1>0, <1>1, JoinFacts
<1>3. NoF(e)
  <2> SUFFICES ASSUME NEW i \in 1..Len(e) PROVE e[i] # "F"
    BY DEF NoF
  <2>1. CASE i <= Len(c)
    <3>1. i \in 1..Len(c)
      BY <1>1, <2>1
    <3> QED BY <1>1, <1>2, <3>1 DEF NoF
  <2>2. CASE ~(i <= Len(c))
    <3>1. i - Len(c) \in 1..Len(t) /\ Len(c) + (i - Len(c)) = i
      BY <1>0, <1>1, <1>2, <2>2
    <3>2. e[Len(c) + (i - Len(c))] = t[i - Len(c)]
      BY <1>2, <3>1
    <3> QED BY <1>0, <3>1, <3>2 DEF NoF
  <2> QED BY <2>1, <2>2
<1>4. Len(e) >= 1 /\ e[1] \in Content
  BY <1>0, <1>1, <1>2
<1>5. Bounded(Len(e))
  BY <1>0, <1>2
<1> HIDE DEF c, e
<1>6. Shaped(q) /\ ~Footed(q.cells) /\ \A h : Good(q, h)
  BY <1>0, <1>3, <1>4, <1>5, MakeShaped DEF e
<1> QED BY <1>2, <1>6, Zenon DEF c, e, Extended

\* The descriptor stays that of the cells before the struct.
LEMMA StillDescribed ==
  ASSUME NEW r \in Image, NEW q \in Image, Described(r), q.vb = r.vb,
         r.vb.size <= Len(q.cells), \A i \in 1..r.vb.size : q.cells[i] = r.cells[i]
  PROVE  Described(q)
<1>1. /\ r.cells \in Seq(Cell) /\ Len(r.cells) \in Nat /\ r.vb.size \in Nat
      /\ q.cells \in Seq(Cell) /\ Len(q.cells) \in Nat
  BY ImageFacts
<1>2. /\ r.vb.size >= 1 /\ r.vb.size <= Len(r.cells)
      /\ SubSeq(r.cells, 1, r.vb.size) = r.vb.digest
  BY Zenon DEF Described
<1>3. SubSeq(q.cells, 1, r.vb.size) = SubSeq(r.cells, 1, r.vb.size)
  BY <1>1, <1>2, SamePrefix
<1> QED BY <1>2, <1>3 DEF Described

LEMMA DescFields ==
  ASSUME NEW x, NEW a, NEW b, x = [size |-> a, digest |-> b]
  PROVE  x.size = a /\ x.digest = b
  OBVIOUS

LEMMA CmdFacts ==
  ASSUME NEW c \in Cmds
  PROVE  /\ c.op \in {"pack", "add", "erase", "resize", "vbmeta"} /\ c.part \in Parts
         /\ c.size \in Nat /\ c.original \in Nat
  BY DEF Cmds

\* What the footer of an image says can be relied on.
LEMMA FootedFacts ==
  ASSUME NEW r, NEW h, Shaped(r), Good(r, h), Footed(r.cells)
  PROVE  /\ r.ft.original = r.vb.size /\ r.vb.size >= 1 /\ r.vb.size <= r.ft.offset
         /\ r.ft.offset = RoundUp(r.vb.size) /\ r.ft.offset % BlockSize = 0
         /\ r.ft.offset < Len(r.cells) /\ Described(r)
         /\ SubSeq(r.cells, 1, r.vb.size) = r.vb.digest
<1>1. /\ Described(r) /\ Pointed(r) /\ r.ft.offset + BlockSize <= Len(r.cells)
  BY Zenon DEF Good
<1>2. r.vb.size \in Nat /\ r.ft.offset \in Nat /\ Len(r.cells) \in Nat
  BY ShapedFacts
<1>3. r.vb.size >= 1 /\ SubSeq(r.cells, 1, r.vb.size) = r.vb.digest
  BY <1>1, Zenon DEF Described
<1>4. r.ft.original = r.vb.size /\ r.ft.offset = RoundUp(r.vb.size)
  BY <1>1, Zenon DEF Pointed
<1>5. RoundUp(r.vb.size) >= r.vb.size /\ RoundUp(r.vb.size) % BlockSize = 0
  BY <1>2, RoundUpFacts
<1>6. r.ft.offset < Len(r.cells)
  BY <1>1, <1>2, Constants
<1> QED BY <1>1, <1>3, <1>4, <1>5, <1>6

\* An image whose original is known: what was packed is what is described.
LEMMA KeptDescribed ==
  ASSUME NEW r, NEW h, NEW s, Shaped(r), Good(r, h), Footed(r.cells), Kept(r, s)
  PROVE  r.vb = [size |-> Len(s), digest |-> s]
<1>1. r.ft.original = Len(s) /\ SubSeq(r.cells, 1, Len(s)) = s
  BY Zenon DEF Kept
<1>2. r.ft.original = r.vb.size /\ SubSeq(r.cells, 1, r.vb.size) = r.vb.digest
  BY FootedFacts
<1>3. r.vb.size = Len(s) /\ r.vb.digest = s
  BY <1>1, <1>2
<1>4. r.vb \in Descs
  BY ShapedFacts
<1> QED BY <1>3, <1>4 DEF Descs

\* Cutting the metadata off gives the packed image back.
LEMMA StripBack ==
  ASSUME NEW r, NEW h, NEW s, Shaped(r), Good(r, h), Footed(r.cells)
  PROVE  LET q == Plain(Resized(r.cells, r.ft.original))
         IN  /\ Shaped(q) /\ ~Footed(q.cells) /\ (\A g : Good(q, g))
             /\ Len(q.cells) = r.ft.original
             /\ Kept(r, s) => Kept(q, s)
<1> DEFINE k == r.ft.original
           e == Resized(r.cells, k)
           q == Plain(e)
<1>1. Len(r.cells) \in Nat /\ r.vb.size \in Nat /\ r.ft.offset \in Nat /\ r.cells \in Seq(Cell)
  BY ShapedFacts
<1>2. k = r.vb.size /\ r.vb.size >= 1 /\ r.vb.size <= r.ft.offset /\ r.ft.offset < Len(r.cells)
  BY FootedFacts
<1>3. k \in Nat /\ 1 <= k /\ k <= Len(r.cells) /\ k < Len(r.cells)
  BY <1>1, <1>2
<1> HIDE DEF k
<1>4. /\ Shaped(q) /\ ~Footed(e) /\ (\A g : Good(q, g))
      /\ Len(e) = k /\ e = SubSeq(r.cells, 1, k)
  BY <1>3, Restored
<1>5. q.cells = e
  BY DEF Plain
<1>6. ASSUME Kept(r, s) PROVE Kept(q, s)
  <2>1. k = Len(s) /\ SubSeq(r.cells, 1, Len(s)) = s
    BY <1>6, Zenon DEF Kept, k
  <2> HIDE DEF q
  <2> QED BY <1>4, <1>5, <2>1 DEF Kept
<1> QED BY <1>4, <1>5, <1>6 DEF k

\* Hash: the descriptor, and the padding to a whole block.
LEMMA Hashed ==
  ASSUME NEW r, NEW c \in Cmds, NEW h, NEW s, NEW q \in Image,
         Shaped(r), AtSize(r, c), c.size % BlockSize = 0, Len(r.cells) <= c.size - MaxMeta,
         h = "none" => Kept(r, s),
         q.cells = Resized(r.cells, RoundUp(Len(r.cells))),
         q.vb = [size |-> Len(r.cells), digest |-> r.cells]
  PROVE  Shaped(q) /\ (\A g : Good(q, g)) /\ AtVbmeta(q, c, h, s)
<1> DEFINE n == Len(r.cells)
           m == RoundUp(n)
<1>1. r.cells \in Seq(Cell) /\ n \in Nat /\ n >= 1 /\ r.cells[1] \in Content
  BY ShapedFacts
<1>2. ~Footed(r.cells) /\ c.op = "add" /\ c.size \in PartSizes /\ c.original = n
  BY Zenon DEF AtSize, AtStrip
<1>3. NoF(r.cells)
  BY <1>2, ShapedFacts
<1>4. c.size \in Nat /\ MaxMeta \in Nat /\ BlockSize \in Nat /\ MaxMeta % BlockSize = 0
  <2>1. c.size \in Nat /\ MaxMeta \in Nat /\ BlockSize \in Nat /\ BlockSize >= 1
    BY CmdFacts, Constants
  <2>2. MaxVbmeta % BlockSize = 0 /\ MaxVbmeta \in Nat /\ BlockSize % BlockSize = 0
    BY <2>1, AvbAssumption
  <2>3. MaxMeta % BlockSize = 0
    BY <2>1, <2>2, SumOfBlocks DEF MaxMeta
  <2> QED BY <2>1, <2>3
<1>5. m \in Nat /\ m >= n
  BY <1>1, RoundUpFacts
<1>6. m <= c.size - MaxMeta
  <2>1. c.size - MaxMeta \in Nat /\ MaxMeta <= c.size
    BY <1>1, <1>4
  <2>2. (c.size - MaxMeta) % BlockSize = 0
    BY <1>4, <2>1, SumOfBlocks
  <2> QED BY <1>1, <2>1, <2>2, RoundUpLeast
<1> HIDE DEF m
<1>7. /\ q.cells \in Seq(Cell) /\ Len(q.cells) = m
      /\ \A i \in 1..m : q.cells[i] = IF i <= n THEN r.cells[i] ELSE "0"
  <2>1. q.cells = Resized(r.cells, m)
    BY DEF m
  <2>2. /\ Resized(r.cells, m) \in Seq(Cell) /\ Len(Resized(r.cells, m)) = m
        /\ \A i \in 1..m : Resized(r.cells, m)[i] = IF i <= n THEN r.cells[i] ELSE "0"
    BY <1>1, <1>5, ResizedFacts
  <2> QED BY <2>1, <2>2, Zenon
<1>8. \A i \in 1..n : i \in 1..m /\ q.cells[i] = r.cells[i]
  BY <1>1, <1>5, <1>7
<1>9. Shaped(q) /\ ~Footed(q.cells) /\ \A g : Good(q, g)
  <2>1. NoF(q.cells)
    <3> SUFFICES ASSUME NEW i \in 1..m PROVE q.cells[i] # "F"
      BY <1>7 DEF NoF
    <3>1. i <= n => i \in 1..n
      BY <1>1, <1>5
    <3> QED BY <1>3, <1>7, <3>1 DEF NoF
  <2>2. Bounded(m)
    <3>1. m <= c.size
      BY <1>4, <1>5, <1>6
    <3> QED BY <1>2, <3>1, Zenon DEF Bounded
  <2>3. Len(q.cells) >= 1 /\ q.cells[1] \in Content
    BY <1>1, <1>5, <1>7, <1>8
  <2> QED BY <1>7, <2>1, <2>2, <2>3, MakeShaped
<1>10. q.vb.size = n /\ q.vb.digest = r.cells
  BY DescFields
<1>11. Described(q)
  <2>1. SubSeq(q.cells, 1, n) = SubSeq(r.cells, 1, n)
    BY <1>1, <1>5, <1>7, <1>8, SamePrefix
  <2>2. SubSeq(r.cells, 1, n) = r.cells
    BY <1>1
  <2> QED BY <1>1, <1>5, <1>7, <1>10, <2>1, <2>2 DEF Described
<1>12. h = "none" => q.vb = [size |-> Len(s), digest |-> s]
  BY <1>2, Zenon DEF Kept
<1>13. Appending(q, c, h, s)
  BY <1>2, <1>9, <1>10, <1>11, <1>12, Zenon DEF Appending, Room
<1>14. Len(q.cells) = RoundUp(q.vb.size) /\ Len(q.cells) + MaxMeta <= c.size
  <2>1. Len(q.cells) = RoundUp(q.vb.size)
    BY <1>7, <1>10 DEF m
  <2> QED BY <1>4, <1>5, <1>6, <1>7, <2>1
<1> QED BY <1>2, <1>9, <1>13, <1>14, Zenon DEF AtVbmeta

LEMMA JoinAssoc ==
  ASSUME NEW a \in Seq(Cell), NEW b \in Seq(Cell), NEW c \in Seq(Cell)
  PROVE  a \o b \o c = a \o (b \o c)
  OBVIOUS

LEMMA FooterFields ==
  ASSUME NEW x, NEW a, NEW b, x = [original |-> a, offset |-> b]
  PROVE  x.original = a /\ x.offset = b
  OBVIOUS

\* What holds while the metadata is appended, under other cells that begin alike.
LEMMA StillAppending ==
  ASSUME NEW r, NEW q, NEW c, NEW h, NEW g, NEW s, Appending(r, c, h, s), r \in Image, q \in Image,
         ~Footed(q.cells), q.vb = r.vb, r.vb.size <= Len(q.cells),
         \A i \in 1..r.vb.size : q.cells[i] = r.cells[i], g = "none" => h = "none"
  PROVE  Appending(q, c, g, s)
<1>1. Described(r)
  BY Zenon DEF Appending
<1>2. Described(q)
  BY <1>1, StillDescribed
<1> QED BY <1>2, Zenon DEF Appending

LEMMA AppendingFacts ==
  ASSUME NEW r, NEW c \in Cmds, NEW h, NEW s, Appending(r, c, h, s), Shaped(r)
  PROVE  /\ r \in Image /\ r.cells \in Seq(Cell) /\ Len(r.cells) \in Nat /\ Len(r.cells) >= 1
         /\ ~Footed(r.cells) /\ r.vb.size \in Nat /\ r.vb.size >= 1 /\ r.vb.size <= Len(r.cells)
         /\ r.ft.offset \in Nat /\ c.size \in Nat /\ c.size \in PartSizes /\ c.original \in Nat
         /\ RoundUp(r.vb.size) \in Nat /\ RoundUp(r.vb.size) >= r.vb.size
         /\ RoundUp(r.vb.size) % BlockSize = 0
<1>1. /\ r \in Image /\ r.cells \in Seq(Cell) /\ Len(r.cells) \in Nat /\ Len(r.cells) >= 1
      /\ r.vb.size \in Nat /\ r.ft.offset \in Nat
  BY ShapedFacts
<1>2. ~Footed(r.cells) /\ r.vb.size >= 1 /\ r.vb.size <= Len(r.cells) /\ c.size \in PartSizes
  BY Zenon DEF Appending, Described, Room
<1>3. c.size \in Nat /\ c.original \in Nat
  BY CmdFacts
<1>4. /\ RoundUp(r.vb.size) \in Nat /\ RoundUp(r.vb.size) >= r.vb.size
      /\ RoundUp(r.vb.size) % BlockSize = 0
  BY <1>1, RoundUpFacts
<1> QED BY <1>1, <1>2, <1>3, <1>4

\* Sizes of the struct.
LEMMA StructSize ==
  /\ RoundUp(VbSize) \in Nat /\ RoundUp(VbSize) >= VbSize /\ RoundUp(VbSize) >= 1
  /\ RoundUp(VbSize) + BlockSize <= MaxMeta /\ RoundUp(VbSize) % BlockSize = 0
  /\ VbSize \in Nat /\ VbSize >= 1 /\ BlockSize \in Nat /\ BlockSize >= 1 /\ MaxMeta \in Nat
<1>1. /\ BlockSize \in Nat /\ BlockSize >= 1 /\ VbSize \in Nat /\ VbSize >= 1
      /\ MaxVbmeta \in Nat /\ MaxMeta \in Nat /\ MaxMeta = MaxVbmeta + BlockSize
  BY Constants
<1>2. MaxVbmeta % BlockSize = 0 /\ VbSize <= MaxVbmeta
  BY AvbAssumption
<1>3. RoundUp(VbSize) \in Nat /\ RoundUp(VbSize) >= VbSize /\ RoundUp(VbSize) % BlockSize = 0
  BY <1>1, RoundUpFacts
<1>4. RoundUp(VbSize) <= MaxVbmeta
  BY <1>1, <1>2, RoundUpLeast
<1> QED BY <1>1, <1>3, <1>4

\* AppendVbmeta: the struct and its padding.
LEMMA Structured ==
  ASSUME NEW r, NEW c \in Cmds, NEW h, NEW s, NEW q \in Image, Shaped(r), AtVbmeta(r, c, h, s),
         q.cells = r.cells \o VbmetaBlob \o Zeros(RoundUp(VbSize) - VbSize),
         q.vb = r.vb, q.ft = [original |-> c.original, offset |-> Len(r.cells)]
  PROVE  Shaped(q) /\ (\A g : Good(q, g)) /\ AtGap(q, c, h, s)
<1> DEFINE z == Zeros(RoundUp(VbSize) - VbSize)
           t == VbmetaBlob \o z
           n == Len(r.cells)
<1>1. Appending(r, c, h, s) /\ c.op = "add" /\ n = RoundUp(r.vb.size) /\ n + MaxMeta <= c.size
  BY Zenon DEF AtVbmeta
<1>2. /\ r \in Image /\ r.cells \in Seq(Cell) /\ n \in Nat /\ n >= 1
      /\ ~Footed(r.cells) /\ r.vb.size \in Nat /\ r.vb.size >= 1 /\ r.vb.size <= n
      /\ c.size \in Nat /\ c.size \in PartSizes
  BY <1>1, AppendingFacts
<1>3. /\ VbmetaBlob \in Seq(Cell) /\ Len(VbmetaBlob) = VbSize
      /\ \A i \in 1..VbSize : VbmetaBlob[i] = "V"
  BY BlobFacts
<1>4. /\ z \in Seq(Cell) /\ Len(z) = RoundUp(VbSize) - VbSize
      /\ \A i \in 1..Len(z) : z[i] = "0"
  <2>1. RoundUp(VbSize) - VbSize \in Int /\ RoundUp(VbSize) - VbSize >= 0
    BY StructSize
  <2>2. /\ z \in Seq(Content) /\ Len(z) = RoundUp(VbSize) - VbSize
        /\ \A i \in 1..Len(z) : z[i] = "0"
    BY <2>1, ZerosFacts
  <2> QED BY <2>2, CellSeq
<1> HIDE DEF z
<1>5. /\ t \in Seq(Cell) /\ Len(t) = RoundUp(VbSize)
      /\ (\A i \in 1..VbSize : t[i] = "V")
      /\ (\A i \in 1..Len(z) : t[VbSize + i] = "0")
  <2>1. /\ t \in Seq(Cell) /\ Len(t) = Len(VbmetaBlob) + Len(z)
        /\ \A i \in 1..Len(VbmetaBlob) : t[i] = VbmetaBlob[i]
        /\ \A i \in 1..Len(z) : t[Len(VbmetaBlob) + i] = z[i]
    BY <1>3, <1>4, JoinFacts
  <2>2. Len(t) = RoundUp(VbSize)
    BY <1>3, <1>4, <2>1, StructSize
  <2> HIDE DEF t
  <2> QED BY <1>3, <1>4, <2>1, <2>2
<1>6. NoF(t)
  <2> HIDE DEF t
  <2> SUFFICES ASSUME NEW i \in 1..Len(t) PROVE t[i] # "F"
    BY DEF NoF
  <2>1. CASE i <= VbSize
    <3>1. i \in 1..VbSize
      BY <1>5, <2>1, StructSize
    <3> QED BY <1>5, <3>1
  <2>2. CASE ~(i <= VbSize)
    <3>1. i - VbSize \in 1..Len(z) /\ VbSize + (i - VbSize) = i
      BY <1>4, <1>5, <2>2, StructSize
    <3>2. t[VbSize + (i - VbSize)] = "0"
      BY <1>5, <3>1
    <3> QED BY <3>1, <3>2
  <2> QED BY <2>1, <2>2
<1>7. q.cells = r.cells \o t
  <2>1. q.cells = r.cells \o VbmetaBlob \o z
    BY DEF z
  <2>2. r.cells \o VbmetaBlob \o z = r.cells \o (VbmetaBlob \o z)
    BY <1>2, <1>3, <1>4, JoinAssoc
  <2> QED BY <2>1, <2>2
<1> HIDE DEF t
<1>8. n + Len(t) + BlockSize <= c.size /\ Bounded(n + Len(t))
  <2>1. n + Len(t) + BlockSize <= c.size /\ n + Len(t) <= c.size
    BY <1>1, <1>2, <1>5, StructSize
  <2> QED BY <1>2, <2>1, Zenon DEF Bounded
<1>9. /\ Shaped(q) /\ ~Footed(q.cells) /\ (\A g : Good(q, g))
      /\ Len(q.cells) = n + Len(t)
      /\ \A i \in 1..n : q.cells[i] = r.cells[i]
      /\ \A i \in 1..Len(t) : q.cells[n + i] = t[i]
  <2>1. Longer(r, t, q)
    BY <1>2, <1>5, <1>6, <1>7, <1>8 DEF Longer
  <2>2. Extended(r, t, q)
    BY <2>1, Lengthened
  <2> QED BY <2>2, Zenon DEF Extended
<1>10. q.ft.original = c.original /\ q.ft.offset = n
  BY FooterFields
<1>11. Appending(q, c, h, s)
  <2> HIDE DEF n
  <2>1. r.vb.size <= Len(q.cells) /\ \A i \in 1..r.vb.size : i \in 1..n
    <3>1. Len(t) \in Nat
      BY <1>5
    <3>2. r.vb.size <= n + Len(t)
      BY <1>2, <3>1
    <3>3. r.vb.size <= Len(q.cells)
      BY <1>9, <3>2, Zenon
    <3>4. \A i \in 1..r.vb.size : i \in 1..n
      BY <1>2
    <3> QED BY <3>3, <3>4
  <2>2. \A i \in 1..r.vb.size : q.cells[i] = r.cells[i]
    BY <1>9, <2>1
  <2> QED BY <1>1, <1>2, <1>9, <2>1, <2>2, StillAppending
<1>12. Pointed(q)
  <2>1. c.original = r.vb.size
    BY <1>1, Zenon DEF Appending
  <2> QED BY <1>1, <1>10, <2>1 DEF Pointed
<1>13. StructEnd(q) + BlockSize <= c.size /\ Len(q.cells) = StructEnd(q)
  BY <1>5, <1>8, <1>9, <1>10 DEF StructEnd
<1>14. q.cells[q.ft.offset + 1] = "V"
  <2>1. 1 \in 1..Len(t) /\ 1 \in 1..VbSize
    BY <1>5, StructSize
  <2> QED BY <1>5, <1>9, <1>10, <2>1
<1> QED BY <1>9, <1>11, <1>12, <1>13, <1>14, Zenon DEF AtGap

\* AppendLost: the struct gets lost.
LEMMA StructLost ==
  ASSUME NEW r, NEW c \in Cmds, NEW h, NEW s, NEW q \in Image, Shaped(r), AtVbmeta(r, c, h, s),
         q.cells = r.cells, q.vb = r.vb, q.ft = [original |-> c.original, offset |-> Len(r.cells)]
  PROVE  Shaped(q) /\ (\A g : Good(q, g)) /\ AtGap(q, c, "lost", s)
<1> DEFINE n == Len(r.cells)
<1>1. Appending(r, c, h, s) /\ c.op = "add" /\ n = RoundUp(r.vb.size) /\ n + MaxMeta <= c.size
  BY Zenon DEF AtVbmeta
<1>2. /\ r \in Image /\ n \in Nat /\ ~Footed(r.cells) /\ r.vb.size <= n /\ c.size \in Nat
  BY <1>1, AppendingFacts
<1>3. Shaped(q) /\ \A g : Good(q, g)
  BY <1>2, Zenon DEF Shaped, Good
<1>4. q.ft.original = c.original /\ q.ft.offset = n
  BY FooterFields
<1>5. "lost" # "none"
  OBVIOUS
<1>6. Appending(q, c, "lost", s)
  BY <1>1, <1>2, <1>5, StillAppending
<1>7. Pointed(q)
  <2>1. c.original = r.vb.size
    BY <1>1, Zenon DEF Appending
  <2> QED BY <1>1, <1>4, <2>1 DEF Pointed
<1>8. StructEnd(q) + BlockSize <= c.size
  BY <1>1, <1>2, <1>4, StructSize DEF StructEnd
<1> QED BY <1>3, <1>4, <1>6, <1>7, <1>8, Zenon DEF AtGap

\* Where the struct ends, as VbmetaEnd computes it.
LEMMA EndIs ==
  ASSUME NEW r \in Image, Pointed(r)
  PROVE  /\ RoundUp(r.ft.offset + VbSize) = StructEnd(r) /\ StructEnd(r) \in Nat
         /\ StructEnd(r) >= r.ft.offset + 1 /\ r.ft.offset \in Nat
<1>1. r.vb.size \in Nat /\ r.ft.offset \in Nat
  BY ImageFacts
<1>2. r.ft.offset = RoundUp(r.vb.size)
  BY Zenon DEF Pointed
<1>3. r.ft.offset % BlockSize = 0
  BY <1>1, <1>2, RoundUpFacts
<1>4. RoundUp(VbSize) \in Nat /\ RoundUp(VbSize) >= 1 /\ VbSize \in Nat
  BY StructSize
<1>5. RoundUp(r.ft.offset + VbSize) = r.ft.offset + RoundUp(VbSize)
  BY <1>1, <1>3, <1>4, RoundUpFrom
<1> QED BY <1>1, <1>4, <1>5 DEF StructEnd

\* AppendGap: up to the last block of the partition.
LEMMA Gapped ==
  ASSUME NEW r, NEW c \in Cmds, NEW h, NEW s, NEW q \in Image, Shaped(r), AtGap(r, c, h, s),
         q.cells = r.cells \o Zeros(c.size - RoundUp(r.ft.offset + VbSize) - BlockSize),
         q.vb = r.vb, q.ft = r.ft
  PROVE  Shaped(q) /\ (\A g : Good(q, g)) /\ AtFooter(q, c, h, s)
<1> DEFINE n == Len(r.cells)
           o == r.ft.offset
           m == c.size - RoundUp(o + VbSize) - BlockSize
           t == Zeros(m)
<1>1. /\ Appending(r, c, h, s) /\ Pointed(r) /\ StructEnd(r) + BlockSize <= c.size
      /\ \/ n = StructEnd(r) /\ r.cells[o + 1] = "V"
         \/ h = "lost" /\ n = o
  BY Zenon DEF AtGap
<1>2. /\ r \in Image /\ r.cells \in Seq(Cell) /\ n \in Nat /\ n >= 1
      /\ ~Footed(r.cells) /\ r.vb.size \in Nat /\ r.vb.size >= 1 /\ r.vb.size <= n
      /\ o \in Nat /\ c.size \in Nat /\ c.size \in PartSizes
  BY <1>1, AppendingFacts
<1>3. /\ RoundUp(o + VbSize) = StructEnd(r) /\ StructEnd(r) \in Nat
      /\ StructEnd(r) >= o + 1
  BY <1>1, <1>2, EndIs
<1>4. BlockSize \in Nat
  BY Constants
<1>5. m = c.size - StructEnd(r) - BlockSize /\ m \in Nat
  BY <1>1, <1>2, <1>3, <1>4
<1> HIDE DEF m
<1>6. t \in Seq(Cell) /\ Len(t) = m /\ \A i \in 1..m : t[i] = "0"
  <2>0. m \in Int /\ m >= 0
    BY <1>5
  <2>1. t \in Seq(Content) /\ Len(t) = m /\ \A i \in 1..Len(t) : t[i] = "0"
    BY <2>0, ZerosFacts
  <2> QED BY <2>1, CellSeq
<1>7. q.cells = r.cells \o t
  BY DEF m
<1> HIDE DEF t, n, o
<1>8. NoF(t)
  BY <1>6 DEF NoF
<1>9. n + m <= c.size - BlockSize /\ Bounded(n + m)
  <2>1. n <= StructEnd(r)
    BY <1>1, <1>2, <1>3
  <2>2. n + m <= c.size - BlockSize /\ n + m <= c.size
    BY <1>2, <1>3, <1>4, <1>5, <2>1
  <2> QED BY <1>2, <2>2, Zenon DEF Bounded
<1>10. /\ Shaped(q) /\ ~Footed(q.cells) /\ (\A g : Good(q, g))
       /\ Len(q.cells) = n + m
       /\ \A i \in 1..n : q.cells[i] = r.cells[i]
       /\ \A i \in 1..m : q.cells[n + i] = t[i]
  <2>1. Bounded(n + Len(t))
    BY <1>6, <1>9, Zenon
  <2>2. /\ Shaped(q) /\ ~Footed(q.cells) /\ (\A g : Good(q, g))
        /\ Len(q.cells) = n + Len(t)
        /\ \A i \in 1..n : q.cells[i] = r.cells[i]
        /\ \A i \in 1..Len(t) : q.cells[n + i] = t[i]
    <3>1. Longer(r, t, q)
      BY <1>2, <1>6, <1>7, <1>8, <2>1 DEF Longer, n
    <3>2. Extended(r, t, q)
      BY <3>1, Lengthened
    <3> QED BY <3>2, Zenon DEF Extended, n
  <2> QED BY <1>6, <2>2, Zenon
<1>11. Appending(q, c, h, s)
  <2>1. r.vb.size <= n + m /\ \A i \in 1..r.vb.size : i \in 1..n
    BY <1>2, <1>5
  <2>2. r.vb.size <= Len(q.cells) /\ \A i \in 1..r.vb.size : q.cells[i] = r.cells[i]
    BY <1>10, <2>1, Zenon
  <2> QED BY <1>1, <1>2, <1>10, <2>2, StillAppending
<1>12. Pointed(q) /\ StructEnd(q) + BlockSize <= c.size
  BY <1>1, Zenon DEF Pointed, StructEnd
<1>13. q.ft.offset = o
  BY DEF o
<1>14. CASE n = StructEnd(r) /\ r.cells[o + 1] = "V"
  <2>1. n + m = c.size - BlockSize
    BY <1>2, <1>3, <1>4, <1>5, <1>14
  <2>2. o + 1 \in 1..n
    BY <1>2, <1>3, <1>14
  <2>3. Len(q.cells) = c.size - BlockSize /\ q.cells[q.ft.offset + 1] = "V"
    BY <1>10, <1>13, <1>14, <2>1, <2>2, Zenon
  <2> QED BY <1>10, <1>11, <1>12, <2>3, Zenon DEF AtFooter
<1>15. CASE h = "lost" /\ n = o
  <2>1. o <= n + m /\ n + m <= c.size - BlockSize
    BY <1>2, <1>5, <1>9, <1>15
  <2>2. n + m > o => q.cells[o + 1] # "V"
    <3>1. n + m > o => 1 \in 1..m
      BY <1>2, <1>5, <1>15
    <3>2. 1 \in 1..m => q.cells[n + 1] = "0"
      BY <1>6, <1>10, Zenon
    <3> QED BY <1>15, <3>1, <3>2
  <2>3. /\ q.ft.offset <= Len(q.cells) /\ Len(q.cells) <= c.size - BlockSize
        /\ Len(q.cells) > q.ft.offset => q.cells[q.ft.offset + 1] # "V"
    BY <1>10, <1>13, <2>1, <2>2, Zenon
  <2> QED BY <1>10, <1>11, <1>12, <1>15, <2>3, Zenon DEF AtFooter
<1> QED BY <1>1, <1>14, <1>15

\* AppendFooter: the footer's block completes the image.
LEMMA Completed ==
  ASSUME NEW r, NEW c \in Cmds, NEW h, NEW s, NEW q \in Image, Shaped(r), AtFooter(r, c, h, s),
         q.cells = r.cells \o Zeros(BlockSize - 1) \o <<"F">>, q.vb = r.vb, q.ft = r.ft
  PROVE  Shaped(q) /\ Good(q, h) /\ Made(q, c, h) /\ (h = "none" => Kept(q, s))
<1> DEFINE n == Len(r.cells)
           o == r.ft.offset
           b == BlockSize
           z == Zeros(b - 1)
           t == z \o <<"F">>
<1>1. /\ Appending(r, c, h, s) /\ Pointed(r) /\ StructEnd(r) + b <= c.size
      /\ \/ n = c.size - b /\ r.cells[o + 1] = "V"
         \/ h = "lost" /\ o <= n /\ n <= c.size - b /\ (n > o => r.cells[o + 1] # "V")
  BY Zenon DEF AtFooter
<1>2. /\ r \in Image /\ r.cells \in Seq(Cell) /\ n \in Nat /\ n >= 1
      /\ ~Footed(r.cells) /\ r.vb.size \in Nat /\ r.vb.size >= 1 /\ r.vb.size <= n
      /\ o \in Nat /\ c.size \in Nat /\ c.size \in PartSizes
  BY <1>1, AppendingFacts
<1>3. StructEnd(r) \in Nat /\ StructEnd(r) >= o + 1
  BY <1>1, <1>2, EndIs
<1>4. b \in Nat /\ b >= 1
  BY Constants
<1>5. z \in Seq(Cell) /\ Len(z) = b - 1 /\ \A i \in 1..(b - 1) : z[i] = "0"
  <2>1. b - 1 \in Int /\ b - 1 >= 0
    BY <1>4
  <2>2. z \in Seq(Content) /\ Len(z) = b - 1 /\ \A i \in 1..Len(z) : z[i] = "0"
    BY <2>1, ZerosFacts
  <2> QED BY <2>2, CellSeq
<1>6. <<"F">> \in Seq(Cell) /\ Len(<<"F">>) = 1 /\ <<"F">>[1] = "F"
  BY DEF Cell
<1>7. q.cells = r.cells \o t
  BY <1>2, <1>5, <1>6, JoinAssoc
<1> HIDE DEF z
<1>8. t \in Seq(Cell) /\ Len(t) = b /\ t[b] = "F" /\ \A i \in 1..(b - 1) : t[i] = "0"
  <2> DEFINE f == <<"F">>
  <2>0. f \in Seq(Cell) /\ Len(f) = 1 /\ f[1] = "F" /\ t = z \o f
    BY <1>6
  <2> HIDE DEF f, t
  <2>1. /\ t \in Seq(Cell) /\ Len(t) = Len(z) + Len(f)
        /\ \A i \in 1..Len(z) : t[i] = z[i]
        /\ \A i \in 1..Len(f) : t[Len(z) + i] = f[i]
    BY <1>5, <2>0, JoinFacts
  <2>2. Len(t) = b /\ Len(z) + 1 = b
    BY <1>4, <1>5, <2>0, <2>1
  <2>3. t[b] = "F"
    BY <2>0, <2>1, <2>2
  <2> QED BY <1>5, <2>1, <2>2, <2>3
<1> HIDE DEF t, n, o, b
<1>9. /\ q.cells \in Seq(Cell) /\ Len(q.cells) = n + b
      /\ (\A i \in 1..n : q.cells[i] = r.cells[i])
      /\ (\A i \in 1..b : q.cells[n + i] = t[i])
  <2>1. /\ q.cells \in Seq(Cell) /\ Len(q.cells) = n + Len(t)
        /\ (\A i \in 1..n : q.cells[i] = r.cells[i])
        /\ (\A i \in 1..Len(t) : q.cells[n + i] = t[i])
    <3> DEFINE x == r.cells
    <3>1. x \in Seq(Cell) /\ t \in Seq(Cell) /\ q.cells = x \o t /\ n = Len(x)
      BY <1>2, <1>7, <1>8 DEF n
    <3> HIDE DEF x
    <3>2. /\ x \o t \in Seq(Cell) /\ Len(x \o t) = Len(x) + Len(t)
          /\ (\A i \in 1..Len(x) : (x \o t)[i] = x[i])
          /\ (\A i \in 1..Len(t) : (x \o t)[Len(x) + i] = t[i])
      BY <3>1, JoinFacts
    <3> QED BY <3>1, <3>2, Zenon DEF x
  <2> QED BY <1>8, <2>1, Zenon
<1>10. Footed(q.cells)
  <2>1. b \in 1..b
    BY <1>4
  <2> QED BY <1>8, <1>9, <2>1, Zenon DEF Footed
<1>11. n + b <= c.size /\ o + b <= n + b
  <2>1. o <= n
    BY <1>1, <1>2, <1>3, <1>4
  <2> QED BY <1>1, <1>2, <1>4, <2>1
<1>12. Shaped(q)
  <2>1. Bounded(n + b)
    BY <1>2, <1>11, Zenon DEF Bounded
  <2>2. n + b >= 1 /\ 1 \in 1..n
    BY <1>2, <1>4
  <2>3. q.cells[1] \in Content
    <3>1. r.cells[1] \in Content
      BY ShapedFacts
    <3> QED BY <1>9, <2>2, <3>1, Zenon
  <2>4. NoF(r.cells)
    BY <1>2, ShapedFacts
  <2>5. ASSUME NEW i \in 1..(n + b - 1) PROVE q.cells[i] # "F"
    <3>1. CASE i <= n
      <4>1. i \in 1..n
        BY <1>2, <1>4, <3>1
      <4>2. r.cells[i] # "F"
        BY <2>4, <4>1, Zenon DEF NoF, n
      <4> QED BY <1>9, <4>1, <4>2, Zenon
    <3>2. CASE ~(i <= n)
      <4>1. i - n \in 1..(b - 1) /\ i - n \in 1..b /\ n + (i - n) = i
        BY <1>2, <1>4, <3>2
      <4>2. q.cells[n + (i - n)] = t[i - n] /\ t[i - n] = "0"
        BY <1>8, <1>9, <4>1, Zenon
      <4> QED BY <4>1, <4>2
    <3> QED BY <3>1, <3>2
  <2>6. \A i \in 1..(Len(q.cells) - 1) : q.cells[i] # "F"
    <3> DEFINE l == Len(q.cells)
    <3>1. l = n + b
      BY <1>9
    <3> HIDE DEF l
    <3> SUFFICES ASSUME NEW i \in 1..(l - 1) PROVE q.cells[i] # "F"
      BY DEF l
    <3>2. i \in 1..(n + b - 1)
      BY <1>2, <1>4, <3>1
    <3> QED BY <2>5, <3>2
  <2> QED BY <1>9, <2>1, <2>2, <2>3, <2>6, Zenon DEF Shaped
<1>13. Described(q) /\ Pointed(q)
  <2>1. Described(r)
    BY <1>1, Zenon DEF Appending
  <2>2. r.vb.size <= n + b /\ \A i \in 1..r.vb.size : i \in 1..n
    BY <1>2, <1>4
  <2>3. r.vb.size <= Len(q.cells) /\ \A i \in 1..r.vb.size : q.cells[i] = r.cells[i]
    BY <1>9, <2>2, Zenon
  <2>4. Described(q)
    BY <1>2, <2>1, <2>3, StillDescribed
  <2> QED BY <1>1, <2>4, Zenon DEF Pointed
<1>14. q.ft.offset = o /\ q.ft.offset + BlockSize <= Len(q.cells)
  BY <1>9, <1>11, Zenon DEF o, b
<1>15. ASSUME n = c.size - b /\ r.cells[o + 1] = "V"
       PROVE  Good(q, h) /\ Made(q, c, h)
  <2>1. o + 1 \in 1..n /\ n + b = c.size
    BY <1>1, <1>2, <1>3, <1>4, <1>15
  <2>2. q.cells[q.ft.offset + 1] = "V" /\ Len(q.cells) = c.size
    BY <1>9, <1>14, <1>15, <2>1, Zenon
  <2>3. c.size % BlockSize = 0
    BY <1>1, Zenon DEF Appending, Room
  <2>4. q.ft.offset + RoundUp(VbSize) + BlockSize <= Len(q.cells)
    BY <1>1, <1>14, <2>2, Zenon DEF StructEnd, b, o
  <2>5. Struct(q)
    BY <2>2, <2>3, <2>4, Zenon DEF Struct
  <2> QED BY <1>10, <1>13, <1>14, <2>2, <2>5, Zenon DEF Good, Made
<1>16. ASSUME h = "lost" /\ o <= n /\ n <= c.size - b /\ (n > o => r.cells[o + 1] # "V")
       PROVE  Good(q, h) /\ Made(q, c, h)
  <2>1. CASE n > o
    <3>1. o + 1 \in 1..n
      BY <1>2, <2>1
    <3>2. q.cells[q.ft.offset + 1] # "V"
      BY <1>9, <1>14, <1>16, <2>1, <3>1, Zenon
    <3> QED BY <1>10, <1>13, <1>14, <1>16, <3>2, Zenon DEF Good, Made
  <2>2. CASE ~(n > o)
    <3>1. n = o /\ 1 \in 1..b /\ (b = 1 \/ 1 \in 1..(b - 1))
      BY <1>2, <1>4, <1>16, <2>2
    <3>2. q.cells[o + 1] = t[1] /\ (t[1] = "F" \/ t[1] = "0")
      BY <1>8, <1>9, <3>1, Zenon
    <3>3. q.cells[q.ft.offset + 1] # "V"
      BY <1>14, <3>2
    <3> QED BY <1>10, <1>13, <1>14, <1>16, <3>3, Zenon DEF Good, Made
  <2> QED BY <2>1, <2>2
<1>17. Good(q, h) /\ Made(q, c, h)
  BY <1>1, <1>15, <1>16, Zenon
<1>18. ASSUME h = "none" PROVE Kept(q, s)
  <2>1. r.vb = [size |-> Len(s), digest |-> s]
    BY <1>1, <1>18, Zenon DEF Appending
  <2>2. r.vb.size = Len(s) /\ r.vb.digest = s
    BY <2>1, DescFields
  <2>3. SubSeq(q.cells, 1, Len(s)) = s /\ q.ft.original = Len(s)
    BY <1>13, <2>2, Zenon DEF Described, Pointed
  <2> QED BY <1>10, <2>3, Zenon DEF Kept
<1> QED BY <1>12, <1>17, <1>18

\* The shape of an image is that of its cells.
LEMMA SameShape ==
  ASSUME NEW r, NEW q \in Image, Shaped(r), q.cells = r.cells
  PROVE  Shaped(q)
  BY Zenon DEF Shaped

\* resize_image: cut at the end of the struct.
LEMMA CutBack ==
  ASSUME NEW r, NEW c \in Cmds, NEW h, NEW s, NEW q \in Image, Shaped(r), Good(r, h),
         Footed(r.cells), r.cells[r.ft.offset + 1] = "V", h = "none" => Kept(r, s),
         Room(c), c.op = "resize", c.size >= RoundUp(r.ft.offset + VbSize) + BlockSize,
         q.cells = Resized(r.cells, RoundUp(r.ft.offset + VbSize)), q.vb = r.vb, q.ft = r.ft
  PROVE  Shaped(q) /\ (\A g : Good(q, g)) /\ AtGap(q, c, h, s)
<1> DEFINE k == RoundUp(r.ft.offset + VbSize)
           e == Resized(r.cells, k)
<1>1. Described(r) /\ Pointed(r) /\ Struct(r)
  BY Zenon DEF Good
<1>2. /\ r \in Image /\ r.cells \in Seq(Cell) /\ Len(r.cells) \in Nat /\ r.vb.size \in Nat
      /\ r.ft.offset \in Nat /\ c.size \in Nat /\ BlockSize \in Nat /\ BlockSize >= 1
  BY ShapedFacts, CmdFacts, Constants
<1>3. k = StructEnd(r) /\ StructEnd(r) \in Nat /\ StructEnd(r) >= r.ft.offset + 1
  BY <1>1, <1>2, EndIs
<1>4. r.ft.original = r.vb.size /\ r.vb.size >= 1 /\ r.vb.size <= r.ft.offset
  BY FootedFacts
<1>5. StructEnd(r) + BlockSize <= Len(r.cells)
  BY <1>1, Zenon DEF Struct, StructEnd
<1>6. k \in Nat /\ 1 <= k /\ k < Len(r.cells) /\ k <= Len(r.cells) /\ r.ft.offset + 1 <= k
      /\ r.vb.size <= k
  BY <1>2, <1>3, <1>4, <1>5
<1>7. k + BlockSize <= c.size
  BY <1>2, <1>3
<1>8. q.cells = e
  OBVIOUS
<1> HIDE DEF k
<1>9. Shaped(Plain(e)) /\ ~Footed(e) /\ Len(e) = k
  BY <1>6, Restored
<1>10. \A i \in 1..k : e[i] = r.cells[i]
  <2>1. \A i \in 1..k : e[i] = IF i <= Len(r.cells) THEN r.cells[i] ELSE "0"
    BY <1>2, <1>6, ResizedFacts
  <2>2. \A i \in 1..k : i <= Len(r.cells)
    BY <1>2, <1>6
  <2> QED BY <2>1, <2>2
<1>11. Plain(e).cells = e
  BY DEF Plain
<1> HIDE DEF e
<1>12. Shaped(q) /\ ~Footed(q.cells) /\ \A g : Good(q, g)
  <2>1. Shaped(q)
    BY <1>8, <1>9, <1>11, SameShape
  <2> QED BY <1>8, <1>9, <2>1, Zenon DEF Good
<1>13. Described(q) /\ Pointed(q)
  <2>1. \A i \in 1..r.vb.size : i \in 1..k
    BY <1>2, <1>6
  <2>2. r.vb.size <= Len(q.cells) /\ \A i \in 1..r.vb.size : q.cells[i] = r.cells[i]
    BY <1>6, <1>8, <1>9, <1>10, <2>1, Zenon
  <2>3. Described(q)
    BY <1>1, <1>2, <2>2, StillDescribed
  <2> QED BY <1>1, <2>3, Zenon DEF Pointed
<1>14. Appending(q, c, h, s)
  <2>1. h = "none" => q.vb = [size |-> Len(s), digest |-> s]
    BY KeptDescribed
  <2>2. c.op \in {"add", "resize"} /\ c.op # "add"
    OBVIOUS
  <2> QED BY <1>12, <1>13, <2>1, <2>2, Zenon DEF Appending
<1>15. StructEnd(q) = k
  BY <1>3, Zenon DEF StructEnd
<1>16. Len(q.cells) = StructEnd(q) /\ StructEnd(q) + BlockSize <= c.size
  BY <1>7, <1>8, <1>9, <1>15, Zenon
<1>17. q.cells[q.ft.offset + 1] = "V"
  <2>1. r.ft.offset + 1 \in 1..k
    BY <1>2, <1>6
  <2> QED BY <1>8, <1>10, <2>1, Zenon
<1> QED BY <1>12, <1>13, <1>14, <1>16, <1>17, Zenon DEF AtGap

\* add_hash_footer fails: truncating to the original size gives back what was
\* there before.
LEMMA Reverted ==
  ASSUME NEW r, NEW c \in Cmds, NEW h, NEW s, Shaped(r),
         \/ AtSize(r, c) /\ (h = "none" => Kept(r, s))
         \/ Appending(r, c, h, s) /\ c.op = "add"
  PROVE  LET q == Plain(Resized(r.cells, c.original))
         IN  Shaped(q) /\ (\A g : Good(q, g)) /\ (h = "none" => Kept(q, s))
<1> DEFINE k == c.original
           e == Resized(r.cells, k)
           q == Plain(e)
<1>1. /\ k \in Nat /\ 1 <= k /\ k <= Len(r.cells) /\ ~Footed(r.cells)
      /\ h = "none" => SubSeq(r.cells, 1, k) = s
  <2>1. CASE AtSize(r, c) /\ (h = "none" => Kept(r, s))
    <3>1. ~Footed(r.cells) /\ k = Len(r.cells)
      BY <2>1, Zenon DEF AtSize
    <3>2. r.cells \in Seq(Cell) /\ Len(r.cells) \in Nat /\ Len(r.cells) >= 1
      BY ShapedFacts
    <3>3. h = "none" => r.cells = s
      BY <2>1, <3>1, Zenon DEF Kept
    <3>4. SubSeq(r.cells, 1, Len(r.cells)) = r.cells
      BY <3>2
    <3> QED BY <3>1, <3>2, <3>3, <3>4
  <2>2. CASE Appending(r, c, h, s) /\ c.op = "add"
    <3>1. /\ ~Footed(r.cells) /\ k = r.vb.size /\ Described(r)
          /\ h = "none" => r.vb = [size |-> Len(s), digest |-> s]
      BY <2>2, Zenon DEF Appending
    <3>2. r.vb.size >= 1 /\ r.vb.size <= Len(r.cells) /\ r.vb.size \in Nat
          /\ SubSeq(r.cells, 1, r.vb.size) = r.vb.digest
      BY <3>1, ShapedFacts DEF Described
    <3>3. h = "none" => r.vb.digest = s
      BY <3>1, DescFields
    <3> QED BY <3>1, <3>2, <3>3
  <2> QED BY <2>1, <2>2
<1> HIDE DEF k
<1>2. /\ Shaped(q) /\ ~Footed(e) /\ (\A g : Good(q, g))
      /\ Len(e) = k /\ e = SubSeq(r.cells, 1, k)
  BY <1>1, Restored
<1>3. q.cells = e
  BY DEF Plain
<1>4. h = "none" => Kept(q, s)
  <2> HIDE DEF q, e
  <2> QED BY <1>1, <1>2, <1>3, Zenon DEF Kept
<1> QED BY <1>2, <1>4 DEF k

\* A freshly packed image, padded or cut.
LEMMA Packed ==
  ASSUME NEW s \in Inputs, NEW k \in PadSizes \cup {Len(s)}
  PROVE  LET e == Resized(s, k)
             q == Plain(e)
         IN  Shaped(q) /\ (\A g : Good(q, g)) /\ Kept(q, e) /\ e \in Seq(Content) \ {<<>>}
<1> DEFINE e == Resized(s, k)
           q == Plain(e)
<1>1. s \in Seq(Content) /\ s # <<>> /\ Len(s) \in Nat /\ Len(s) >= 1
  BY Constants
<1>2. k \in Nat /\ k >= 1
  BY <1>1, Constants
<1>3. s \in Seq(Cell)
  BY <1>1, CellSeq
<1>4. /\ e \in Seq(Cell) /\ Len(e) = k
      /\ \A i \in 1..k : e[i] = IF i <= Len(s) THEN s[i] ELSE "0"
  BY <1>2, <1>3, ResizedFacts
<1>5. Bounded(k)
  <2>1. k <= k
    BY <1>2
  <2> QED BY <2>1, Zenon DEF Bounded
<1> HIDE DEF e
<1>6. \A i \in 1..k : e[i] \in Content
  <2> SUFFICES ASSUME NEW i \in 1..k PROVE e[i] \in Content
    OBVIOUS
  <2>1. CASE i <= Len(s)
    <3>1. s[i] \in Content
      BY <1>1, <1>2, <2>1
    <3> QED BY <1>4, <2>1, <3>1
  <2>2. CASE ~(i <= Len(s))
    BY <1>4, <2>2 DEF Content
  <2> QED BY <2>1, <2>2
<1>7. e \in Seq(Content) /\ e # <<>>
  <2>1. e \in [1..k -> Content]
    BY <1>4, <1>6
  <2> QED BY <1>2, <1>4, <2>1
<1>8. q \in Image /\ q.cells = e
  BY <1>4, PlainFacts
<1> HIDE DEF q
<1>9. NoF(e) /\ Len(e) >= 1 /\ e[1] \in Content /\ Bounded(Len(e))
  <2>1. 1 \in 1..k /\ \A x \in Content : x # "F"
    BY <1>2 DEF Content
  <2> QED BY <1>2, <1>4, <1>5, <1>6, <2>1 DEF NoF
<1>10. Shaped(q) /\ ~Footed(q.cells) /\ \A g : Good(q, g)
  BY <1>8, <1>9, MakeShaped
<1>11. Kept(q, e)
  BY <1>8, <1>10, Zenon DEF Kept
<1> QED BY <1>7, <1>10, <1>11 DEF q, e

-----------------------------------------------------------------------------
\* One step: it changes one image, and what is known of the others stays.

OnlyImage(p) ==
  \A x \in Parts : x # p => img'[x] = img[x] /\ harm'[x] = harm[x] /\ src'[x] = src[x]

\* The step leaves image p fit.
Fit(p) ==
  /\ Shaped(img'[p]) /\ Good(img'[p], harm'[p])
  /\ harm'[p] = "none" /\ pc' \notin Open => Kept(img'[p], src'[p])

LEMMA OneImage ==
  ASSUME Images, Originals, NEW p \in Parts, OnlyImage(p), Fit(p),
         pc \in Open => cmd.part = p, (pc \in Open => cmd.part = p)'
  PROVE  Images' /\ Originals'
<1>1. ASSUME NEW x \in Parts, x # p
      PROVE  /\ img'[x] = img[x] /\ harm'[x] = harm[x] /\ src'[x] = src[x]
             /\ Shaped(img[x]) /\ Good(img[x], harm[x])
             /\ harm[x] = "none" => Kept(img[x], src[x])
  BY <1>1, Zenon DEF OnlyImage, Images, Originals
<1>2. Images'
  <2> SUFFICES ASSUME NEW x \in Parts PROVE (Shaped(img[x]) /\ Good(img[x], harm[x]))'
    BY Zenon DEF Images
  <2> QED BY <1>1, Zenon DEF Fit
<1>3. Originals'
  <2> SUFFICES ASSUME NEW x \in Parts,
                      (harm[x] = "none" /\ (pc \in Open => x # cmd.part))'
               PROVE  Kept(img[x], src[x])'
    BY Zenon DEF Originals
  <2>1. CASE x = p
    BY <2>1, Zenon DEF Fit
  <2>2. CASE x # p
    BY <1>1, <2>2, Zenon
  <2> QED BY <2>1, <2>2
<1> QED BY <1>2, <1>3

LEMMA Basics ==
  ASSUME Typed, Images
  PROVE  /\ img \in [Parts -> Image] /\ cmd \in Cmds /\ cmd.part \in Parts
         /\ cmd.op \in {"pack", "add", "erase", "resize", "vbmeta"}
         /\ cmd.size \in Nat /\ cmd.original \in Nat
         /\ \A p \in Parts : /\ img[p] \in Image /\ Shaped(img[p]) /\ Good(img[p], harm[p])
                             /\ img[p].cells \in Seq(Cell) /\ Len(img[p].cells) \in Nat
<1>1. img \in [Parts -> Image] /\ cmd \in Cmds
  BY DEF Typed
<1>2. \A p \in Parts : img[p] \in Image /\ Shaped(img[p]) /\ Good(img[p], harm[p])
  BY <1>1 DEF Images
<1>3. \A p \in Parts : img[p].cells \in Seq(Cell) /\ Len(img[p].cells) \in Nat
  BY <1>2, ImageFacts
<1> QED BY <1>1, <1>2, <1>3, CmdFacts

LEMMA NewCmd ==
  ASSUME NEW o \in {"pack", "add", "erase", "resize", "vbmeta"}, NEW p \in Parts, NEW k \in Nat,
         NEW d, d = [op |-> o, part |-> p, size |-> k, original |-> 0]
  PROVE  d \in Cmds /\ d.op = o /\ d.part = p /\ d.size = k
<1>1. 0 \in Nat
  OBVIOUS
<1> QED BY <1>1 DEF Cmds

LEMMA SameCmd ==
  ASSUME NEW c \in Cmds, NEW x \in Nat, NEW d, d = [c EXCEPT !.original = x]
  PROVE  d \in Cmds /\ d.op = c.op /\ d.part = c.part /\ d.size = c.size /\ d.original = x
  BY DEF Cmds

\* An assignment to one image.
LEMMA EditImage ==
  ASSUME img \in [Parts -> Image], NEW p \in Parts, NEW q \in Image, img' = [img EXCEPT ![p] = q]
  PROVE  /\ img' \in [Parts -> Image] /\ img'[p] = q
         /\ \A x \in Parts : x # p => img'[x] = img[x]
  OBVIOUS

LEMMA EditCells ==
  ASSUME img \in [Parts -> Image], NEW p \in Parts, NEW s \in Seq(Cell), SetCells(p, s)
  PROVE  /\ img' \in [Parts -> Image] /\ img'[p] \in Image
         /\ img'[p].cells = s /\ img'[p].vb = img[p].vb /\ img'[p].ft = img[p].ft
         /\ \A x \in Parts : x # p => img'[x] = img[x]
<1> DEFINE q == [img[p] EXCEPT !.cells = s]
<1>1. img[p] \in Image
  OBVIOUS
<1>2. q \in Image /\ q.cells = s /\ q.vb = img[p].vb /\ q.ft = img[p].ft
  BY <1>1 DEF Image
<1>3. img' = [img EXCEPT ![p] = q]
  BY DEF SetCells
<1> HIDE DEF q
<1>4. /\ img' \in [Parts -> Image] /\ img'[p] = q
      /\ \A x \in Parts : x # p => img'[x] = img[x]
  BY <1>2, <1>3, EditImage
<1> QED BY <1>2, <1>4

LEMMA EditPlain ==
  ASSUME img \in [Parts -> Image], NEW p \in Parts, NEW s \in Seq(Cell),
         img' = [img EXCEPT ![p] = [cells |-> s, vb |-> NoDesc, ft |-> NoFooter]]
  PROVE  /\ img' \in [Parts -> Image] /\ img'[p] = Plain(s)
         /\ \A x \in Parts : x # p => img'[x] = img[x]
<1>1. Plain(s) \in Image
  BY PlainFacts
<1>2. img' = [img EXCEPT ![p] = Plain(s)]
  BY DEF Plain
<1> QED BY <1>1, <1>2, EditImage

\* A call of a command that has nothing to do, or only starts.
LEMMA CalledTyped ==
  ASSUME Typed, NEW o \in {"pack", "add", "erase", "resize", "vbmeta"}, NEW p \in Parts,
         NEW k \in Nat, cmd' = [op |-> o, part |-> p, size |-> k, original |-> 0],
         img' \in [Parts -> Image], vbmeta' = vbmeta \/ vbmeta' = Empty,
         pc' \in {"idle", "strip", "size", "vbmeta", "gap", "footer", "include"},
         result' \in {"ok", "error", "running", "interrupted"},
         src' \in [Parts -> Seq(Content) \ {<<>>}], harm' \in [Parts -> {"none", "cut", "lost"}],
         UNCHANGED <<faults, stops>>
  PROVE  Typed' /\ cmd'.op = o /\ cmd'.part = p /\ cmd'.size = k
<1>1. cmd' \in Cmds /\ cmd'.op = o /\ cmd'.part = p /\ cmd'.size = k
  BY NewCmd
<1>2. faults' \in 0 .. MaxFaults /\ stops' \in 0 .. MaxStops
  BY DEF Typed
<1>3. vbmeta' \in {Empty} \cup [Parts -> Descs]
  BY DEF Typed
<1> QED BY <1>1, <1>2, <1>3, Zenon DEF Typed

\* A statement of the running command.
LEMMA StepTyped ==
  ASSUME Typed, cmd' = cmd \/ \E n \in Nat : cmd' = [cmd EXCEPT !.original = n],
         img' \in [Parts -> Image], vbmeta' = vbmeta \/ vbmeta' \in [Parts -> Descs],
         pc' \in {"idle", "strip", "size", "vbmeta", "gap", "footer", "include"},
         result' \in {"ok", "error", "running", "interrupted"},
         src' = src, harm' \in [Parts -> {"none", "cut", "lost"}],
         faults' = faults \/ (faults > 0 /\ faults' = faults - 1),
         stops' = stops \/ (stops > 0 /\ stops' = stops - 1)
  PROVE  Typed' /\ cmd'.op = cmd.op /\ cmd'.part = cmd.part /\ cmd'.size = cmd.size
<1>1. cmd' \in Cmds /\ cmd'.op = cmd.op /\ cmd'.part = cmd.part /\ cmd'.size = cmd.size
  <2>1. cmd \in Cmds
    BY DEF Typed
  <2>2. CASE cmd' = cmd
    BY <2>1, <2>2
  <2>3. CASE \E n \in Nat : cmd' = [cmd EXCEPT !.original = n]
    BY <2>1, <2>3, SameCmd
  <2> QED BY <2>2, <2>3
<1>2. faults' \in 0 .. MaxFaults
  BY AvbAssumption DEF Typed
<1>3. stops' \in 0 .. MaxStops
  BY AvbAssumption DEF Typed
<1>4. vbmeta' \in {Empty} \cup [Parts -> Descs] /\ src' \in [Parts -> Seq(Content) \ {<<>>}]
  BY DEF Typed
<1> QED BY <1>1, <1>2, <1>3, <1>4, Zenon DEF Typed

LEMMA Idle ==
  ASSUME pc' = "idle"
  PROVE  Running' /\ pc' \notin Open
<1>1. pc' \notin {"strip", "size", "vbmeta", "gap", "footer", "include"}
  OBVIOUS
<1> QED BY <1>1, Zenon DEF Running, Busy, Open

LEMMA Unfinished ==
  ASSUME result' # "ok"
  PROVE  Finished'
  BY Zenon DEF Finished

LEMMA HasFooterIs ==
  ASSUME NEW p, Shaped(img[p])
  PROVE  HasFooter(p) <=> Footed(img[p].cells)
<1>1. Len(img[p].cells) \in Nat /\ Len(img[p].cells) >= 1
  BY ShapedFacts
<1>2. Len(img[p].cells) > 0
  BY <1>1
<1> QED BY <1>2, Zenon DEF HasFooter, Footed, Size, Cells

\* An image on which a command stopped.
CutShort(h) == IF h = "lost" THEN h ELSE "cut"

LEMMA CutGood ==
  ASSUME NEW r, NEW h, Good(r, h)
  PROVE  Good(r, CutShort(h)) /\ CutShort(h) # "none"
<1>1. CutShort(h) # "none" /\ (h = "lost" => CutShort(h) = "lost")
  BY DEF CutShort
<1> QED BY <1>1, Zenon DEF Good

LEMMA CutHarm ==
  ASSUME Typed, NEW p \in Parts, Cut(p)
  PROVE  /\ harm' \in [Parts -> {"none", "cut", "lost"}] /\ harm'[p] = CutShort(harm[p])
         /\ \A x \in Parts : x # p => harm'[x] = harm[x]
<1>1. harm \in [Parts -> {"none", "cut", "lost"}]
  BY DEF Typed
<1>2. harm' = [harm EXCEPT ![p] = CutShort(harm[p])]
  BY DEF Cut, CutShort
<1>3. CutShort(harm[p]) \in {"none", "cut", "lost"}
  BY DEF CutShort
<1> QED BY <1>1, <1>2, <1>3

\* What each statement finds.
LEMMA Found ==
  ASSUME Running
  PROVE  /\ pc = "strip"  => AtStrip(cmd)
         /\ pc = "size"   => AtSize(img[cmd.part], cmd)
         /\ pc = "vbmeta" => AtVbmeta(img[cmd.part], cmd, harm[cmd.part], src[cmd.part])
         /\ pc = "gap"    => AtGap(img[cmd.part], cmd, harm[cmd.part], src[cmd.part])
         /\ pc = "footer" => AtFooter(img[cmd.part], cmd, harm[cmd.part], src[cmd.part])
         /\ pc = "include" => cmd.op = "vbmeta" /\ vbmeta = Empty
         /\ pc # "idle" => result = "running"
  BY Zenon DEF Running, Busy

\* The commands that end where they start, without touching an image.
LEMMA RefusedIInv ==
  ASSUME IInv, NEW o \in {"pack", "add", "erase", "resize", "vbmeta"}, NEW p \in Parts,
         NEW k \in Nat, Call(o, p, k, "idle"), result' = "error", UNCHANGED <<img, vbmeta>>
  PROVE  IInv'
<1>1. /\ pc = "idle" /\ pc' = "idle" /\ img' = img /\ src' = src /\ harm' = harm /\ vbmeta' = vbmeta
      /\ cmd' = [op |-> o, part |-> p, size |-> k, original |-> 0] /\ UNCHANGED <<faults, stops>>
  BY DEF Call
<1>2. Typed /\ Images /\ Originals
  BY DEF IInv
<1>3. Typed'
  <2>1. img \in [Parts -> Image] /\ src \in [Parts -> Seq(Content) \ {<<>>}]
        /\ harm \in [Parts -> {"none", "cut", "lost"}]
    BY <1>2, Zenon DEF Typed
  <2>2. img' \in [Parts -> Image] /\ src' \in [Parts -> Seq(Content) \ {<<>>}]
        /\ harm' \in [Parts -> {"none", "cut", "lost"}]
    BY <1>1, <2>1
  <2> QED BY <1>1, <1>2, <2>2, CalledTyped
<1>4. pc \notin Open /\ pc' \notin Open
  BY <1>1 DEF Open
<1>5. Images' /\ Originals'
  BY <1>1, <1>2, <1>4, Zenon DEF Images, Originals
<1>6. Running' /\ Finished'
  BY <1>1, Idle, Unfinished
<1> QED BY <1>3, <1>5, <1>6 DEF IInv

LEMMA PackIInv ==
  ASSUME IInv, NEW p \in Parts, NEW s \in Inputs, NEW k \in PadSizes \cup {Len(s)}, Pack(p, s, k)
  PROVE  IInv'
<1> DEFINE e == Resized(s, k)
<1>1. /\ pc = "idle" /\ pc' = "idle" /\ vbmeta' = vbmeta /\ UNCHANGED <<faults, stops>>
      /\ img' = [img EXCEPT ![p] = [cells |-> e, vb |-> NoDesc, ft |-> NoFooter]]
      /\ src' = [src EXCEPT ![p] = e] /\ harm' = [harm EXCEPT ![p] = "none"]
      /\ cmd' = [op |-> "pack", part |-> p, size |-> k, original |-> 0] /\ result' = "ok"
  BY DEF Pack
<1>2. Typed /\ Images /\ Originals
  BY DEF IInv
<1>3. img \in [Parts -> Image] /\ src \in [Parts -> Seq(Content) \ {<<>>}]
      /\ harm \in [Parts -> {"none", "cut", "lost"}]
  BY <1>2, Zenon DEF Typed
<1>4. Shaped(Plain(e)) /\ (\A g : Good(Plain(e), g)) /\ Kept(Plain(e), e)
      /\ e \in Seq(Content) \ {<<>>}
  BY Packed
<1>5. e \in Seq(Cell) /\ k \in Nat
  BY <1>4, CellSeq, Constants
<1> HIDE DEF e
<1>6. /\ img' \in [Parts -> Image] /\ img'[p] = Plain(e)
      /\ \A x \in Parts : x # p => img'[x] = img[x]
  BY <1>1, <1>3, <1>5, EditPlain
<1>7. /\ src' \in [Parts -> Seq(Content) \ {<<>>}] /\ src'[p] = e
      /\ \A x \in Parts : x # p => src'[x] = src[x]
  BY <1>1, <1>3, <1>4
<1>8. /\ harm' \in [Parts -> {"none", "cut", "lost"}] /\ harm'[p] = "none"
      /\ \A x \in Parts : x # p => harm'[x] = harm[x]
  BY <1>1, <1>3
<1>9. Typed' /\ cmd'.op = "pack"
  BY <1>1, <1>2, <1>5, <1>6, <1>7, <1>8, CalledTyped
<1>10. pc \notin Open /\ pc' \notin Open /\ Running'
  BY <1>1, Idle DEF Open
<1>11. OnlyImage(p) /\ Fit(p)
  BY <1>4, <1>6, <1>7, <1>8, Zenon DEF OnlyImage, Fit
<1>12. Images' /\ Originals'
  BY <1>2, <1>10, <1>11, OneImage
<1>13. Finished'
  <2>1. cmd'.op \notin {"add", "resize"}
    BY <1>9
  <2> QED BY <2>1, Zenon DEF Finished
<1> QED BY <1>9, <1>10, <1>12, <1>13 DEF IInv

\* A command starts without touching an image.
LEMMA StartsIInv ==
  ASSUME IInv, NEW o \in {"add", "vbmeta"}, NEW p \in Parts, NEW k \in Nat,
         NEW l \in {"strip", "include"}, Call(o, p, k, l), result' = "running",
         img' = img, vbmeta' = vbmeta \/ vbmeta' = Empty, Running'
  PROVE  IInv'
<1>1. /\ pc = "idle" /\ pc' = l /\ src' = src /\ harm' = harm
      /\ cmd' = [op |-> o, part |-> p, size |-> k, original |-> 0] /\ UNCHANGED <<faults, stops>>
  BY DEF Call
<1>2. Typed /\ Images /\ Originals
  BY DEF IInv
<1>3. Typed'
  <2>1. img \in [Parts -> Image] /\ src \in [Parts -> Seq(Content) \ {<<>>}]
        /\ harm \in [Parts -> {"none", "cut", "lost"}]
    BY <1>2, Zenon DEF Typed
  <2>2. img' \in [Parts -> Image] /\ src' \in [Parts -> Seq(Content) \ {<<>>}]
        /\ harm' \in [Parts -> {"none", "cut", "lost"}]
    BY <1>1, <2>1
  <2>3. pc' \in {"idle", "strip", "size", "vbmeta", "gap", "footer", "include"}
        /\ result' \in {"ok", "error", "running", "interrupted"}
        /\ o \in {"pack", "add", "erase", "resize", "vbmeta"}
    BY <1>1
  <2> QED BY <1>1, <1>2, <2>2, <2>3, CalledTyped
<1>4. pc \notin Open /\ pc' \notin Open
  BY <1>1 DEF Open
<1>5. Images' /\ Originals'
  BY <1>1, <1>2, <1>4, Zenon DEF Images, Originals
<1>6. Finished'
  BY Unfinished
<1> QED BY <1>3, <1>5, <1>6 DEF IInv

LEMMA AddIInv ==
  ASSUME IInv, NEW p \in Parts, NEW k \in PartSizes, Add(p, k)
  PROVE  IInv'
<1>1. k >= MaxMeta /\ Call("add", p, k, "strip") /\ result' = "running" /\ UNCHANGED <<img, vbmeta>>
  BY DEF Add
<1>2. k \in Nat
  BY Constants
<1>3. cmd' = [op |-> "add", part |-> p, size |-> k, original |-> 0] /\ pc' = "strip"
  BY <1>1 DEF Call
<1>4. cmd'.op = "add" /\ cmd'.size = k
  BY <1>3
<1>5. Running'
  <2>1. AtStrip(cmd')
    BY <1>1, <1>4, Zenon DEF AtStrip
  <2>2. pc' \notin {"size", "vbmeta", "gap", "footer", "include"}
    BY <1>3
  <2> QED BY <1>1, <2>1, <2>2, Zenon DEF Running, Busy
<1> QED BY <1>1, <1>2, <1>5, StartsIInv

LEMMA MakeVbmetaIInv ==
  ASSUME IInv, MakeVbmeta
  PROVE  IInv'
<1>1. PICK p \in Parts : Call("vbmeta", p, 0, "include")
  BY DEF MakeVbmeta
<1>2. result' = "running" /\ vbmeta' = Empty /\ UNCHANGED img
  BY DEF MakeVbmeta
<1>3. cmd' = [op |-> "vbmeta", part |-> p, size |-> 0, original |-> 0] /\ pc' = "include"
  BY <1>1 DEF Call
<1>4. cmd'.op = "vbmeta"
  BY <1>3
<1>5. Running'
  <2>1. pc' \notin {"strip", "size", "vbmeta", "gap", "footer"}
    BY <1>3
  <2> QED BY <1>2, <1>4, <2>1, Zenon DEF Running, Busy
<1> QED BY <1>1, <1>2, <1>5, StartsIInv

LEMMA EraseFooterIInv ==
  ASSUME IInv, NEW p \in Parts, EraseFooter(p)
  PROVE  IInv'
<1>1. Call("erase", p, 0, "idle") /\ vbmeta' = vbmeta
  BY DEF EraseFooter
<1>2. CASE HasFooter(p) /\ Parses(p)
  <2> DEFINE e == Resized(img[p].cells, img[p].ft.original)
  <2>1. /\ img' = [img EXCEPT ![p] = [cells |-> e, vb |-> NoDesc, ft |-> NoFooter]]
        /\ result' = "ok"
    BY <1>2 DEF EraseFooter, Restore, Cells
  <2>2. Typed /\ Images /\ Originals
    BY DEF IInv
  <2>3. /\ img \in [Parts -> Image] /\ Shaped(img[p]) /\ Good(img[p], harm[p])
        /\ img[p] \in Image /\ img[p].cells \in Seq(Cell)
    BY <2>2, Basics
  <2>4. Footed(img[p].cells)
    BY <1>2, <2>3, HasFooterIs
  <2>5. /\ Shaped(Plain(e)) /\ (\A g : Good(Plain(e), g))
        /\ Kept(img[p], src[p]) => Kept(Plain(e), src[p])
    BY <2>3, <2>4, StripBack
  <2>6. e \in Seq(Cell)
    <3>1. img[p].ft.original \in Nat
      BY <2>3, ImageFacts
    <3> QED BY <2>3, <3>1, ResizedFacts
  <2> HIDE DEF e
  <2>7. /\ img' \in [Parts -> Image] /\ img'[p] = Plain(e)
        /\ \A x \in Parts : x # p => img'[x] = img[x]
    BY <2>1, <2>3, <2>6, EditPlain
  <2>8. /\ pc = "idle" /\ pc' = "idle" /\ src' = src /\ harm' = harm /\ UNCHANGED <<faults, stops>>
        /\ cmd' = [op |-> "erase", part |-> p, size |-> 0, original |-> 0]
    BY <1>1 DEF Call
  <2>9. Typed' /\ cmd'.op = "erase"
    <3>1. src' \in [Parts -> Seq(Content) \ {<<>>}] /\ harm' \in [Parts -> {"none", "cut", "lost"}]
      BY <2>2, <2>8, Zenon DEF Typed
    <3> QED BY <1>1, <2>1, <2>2, <2>7, <2>8, <3>1, CalledTyped
  <2>10. pc \notin Open /\ pc' \notin Open /\ Running'
    BY <2>8, Idle DEF Open
  <2>11. harm[p] = "none" => Kept(img[p], src[p])
    BY <2>2, <2>10, Zenon DEF Originals
  <2>12. OnlyImage(p) /\ Fit(p)
    BY <2>5, <2>7, <2>8, <2>11, Zenon DEF OnlyImage, Fit
  <2>13. Images' /\ Originals'
    BY <2>2, <2>10, <2>12, OneImage
  <2>14. Finished'
    <3>1. cmd'.op \notin {"add", "resize"}
      BY <2>9
    <3> QED BY <3>1, Zenon DEF Finished
  <2> QED BY <2>9, <2>10, <2>13, <2>14 DEF IInv
<1>3. CASE ~(HasFooter(p) /\ Parses(p))
  <2>1. result' = "error" /\ UNCHANGED img
    BY <1>3 DEF EraseFooter
  <2> QED BY <1>1, <2>1, RefusedIInv
<1> QED BY <1>2, <1>3

LEMMA ResizeIInv ==
  ASSUME IInv, NEW p \in Parts, NEW k \in PartSizes, Resize(p, k)
  PROVE  IInv'
<1> DEFINE n == RoundUp(img[p].ft.offset + VbSize)
           e == Resized(img[p].cells, n)
<1>1. /\ Call("resize", p, k, "gap") /\ result' = "running" /\ vbmeta' = vbmeta
      /\ SetCells(p, e) /\ k % BlockSize = 0 /\ HasFooter(p) /\ Parses(p)
      /\ k >= n + BlockSize
  BY DEF Resize, CanResize, Truncate, VbmetaEnd, Cells
<1>2. Typed /\ Images /\ Originals
  BY DEF IInv
<1>3. /\ img \in [Parts -> Image] /\ Shaped(img[p]) /\ Good(img[p], harm[p])
      /\ img[p] \in Image /\ img[p].cells \in Seq(Cell)
  BY <1>2, Basics
<1>4. Footed(img[p].cells)
  BY <1>1, <1>3, HasFooterIs
<1>5. img[p].cells[img[p].ft.offset + 1] = "V"
  BY <1>1 DEF Parses, Cells
<1>6. n \in Nat
  <2>1. img[p].ft.offset + VbSize \in Nat
    BY <1>3, ImageFacts, Constants
  <2> QED BY <2>1, RoundUpFacts
<1>7. e \in Seq(Cell)
  BY <1>3, <1>6, ResizedFacts
<1>8. /\ pc = "idle" /\ pc' = "gap" /\ src' = src /\ harm' = harm /\ UNCHANGED <<faults, stops>>
      /\ cmd' = [op |-> "resize", part |-> p, size |-> k, original |-> 0]
  BY <1>1 DEF Call
<1>9. k \in Nat
  BY Constants
<1>10. /\ img' \in [Parts -> Image] /\ img'[p] \in Image
       /\ img'[p].cells = e /\ img'[p].vb = img[p].vb /\ img'[p].ft = img[p].ft
       /\ \A x \in Parts : x # p => img'[x] = img[x]
  <2> HIDE DEF e
  <2> QED BY <1>1, <1>3, <1>7, EditCells
<1>11. Typed' /\ cmd'.op = "resize" /\ cmd'.part = p /\ cmd'.size = k
  <2> HIDE DEF e, n
  <2>1. src' \in [Parts -> Seq(Content) \ {<<>>}] /\ harm' \in [Parts -> {"none", "cut", "lost"}]
    BY <1>2, <1>8, Zenon DEF Typed
  <2> QED BY <1>1, <1>2, <1>8, <1>9, <1>10, <2>1, CalledTyped
<1>12. cmd' \in Cmds /\ Room(cmd')
  BY <1>1, <1>11, Zenon DEF Typed, Room
<1>13. pc \notin Open
  BY <1>8 DEF Open
<1>14. harm[p] = "none" => Kept(img[p], src[p])
  BY <1>2, <1>13, Zenon DEF Originals
<1>15. Shaped(img'[p]) /\ (\A g : Good(img'[p], g)) /\ AtGap(img'[p], cmd', harm[p], src[p])
  <2> DEFINE r == img[p]
             q == img'[p]
             c == cmd'
  <2>1. /\ c.size >= RoundUp(r.ft.offset + VbSize) + BlockSize
        /\ q.cells = Resized(r.cells, RoundUp(r.ft.offset + VbSize)) /\ c.op = "resize"
        /\ q.vb = r.vb /\ q.ft = r.ft /\ q \in Image /\ c \in Cmds /\ Room(c)
        /\ Shaped(r) /\ Good(r, harm[p]) /\ Footed(r.cells) /\ r.cells[r.ft.offset + 1] = "V"
        /\ harm[p] = "none" => Kept(r, src[p])
    BY <1>1, <1>3, <1>4, <1>5, <1>10, <1>11, <1>12, <1>14
  <2> HIDE DEF r, q, c
  <2> QED BY <2>1, CutBack DEF q, c
<1> HIDE DEF n, e
<1>16. OnlyImage(p) /\ Fit(p)
  <2>1. pc' \in Open
    BY <1>8 DEF Open
  <2> QED BY <1>8, <1>10, <1>15, <2>1, Zenon DEF OnlyImage, Fit
<1>17. Images' /\ Originals'
  BY <1>2, <1>11, <1>13, <1>16, OneImage
<1>18. Running'
  <2>1. pc' \notin {"strip", "size", "vbmeta", "footer", "include"}
    BY <1>8
  <2> QED BY <1>1, <1>8, <1>11, <1>15, <2>1, Zenon DEF Running, Busy
<1>19. Finished'
  BY <1>1, Unfinished
<1> QED BY <1>11, <1>17, <1>18, <1>19 DEF IInv

\* A statement of a command on its own image: what is left to show of it.
LEMMA OwnImage ==
  ASSUME IInv, Typed', NEW p \in Parts, p = cmd.part, cmd'.part = p, OnlyImage(p), Fit(p),
         Running', Finished'
  PROVE  IInv'
<1>1. Typed /\ Images /\ Originals
  BY DEF IInv
<1>2. Images' /\ Originals'
  BY <1>1, OneImage
<1> QED BY <1>2 DEF IInv

\* What a running command has at hand.
LEMMA AtHand ==
  ASSUME IInv
  PROVE  /\ Typed /\ Running /\ cmd \in Cmds /\ cmd.part \in Parts /\ img \in [Parts -> Image]
         /\ harm \in [Parts -> {"none", "cut", "lost"}]
         /\ cmd.size \in Nat /\ cmd.original \in Nat
         /\ img[cmd.part] \in Image /\ Shaped(img[cmd.part]) /\ Good(img[cmd.part], harm[cmd.part])
         /\ img[cmd.part].cells \in Seq(Cell) /\ Len(img[cmd.part].cells) \in Nat
         /\ harm[cmd.part] = "none" /\ pc \notin Open => Kept(img[cmd.part], src[cmd.part])
<1>1. Typed /\ Images /\ Originals /\ Running
  BY DEF IInv
<1>2. /\ cmd \in Cmds /\ cmd.part \in Parts /\ img \in [Parts -> Image]
      /\ cmd.size \in Nat /\ cmd.original \in Nat
      /\ img[cmd.part] \in Image /\ Shaped(img[cmd.part]) /\ Good(img[cmd.part], harm[cmd.part])
      /\ img[cmd.part].cells \in Seq(Cell) /\ Len(img[cmd.part].cells) \in Nat
  BY <1>1, Basics
<1>3. harm[cmd.part] = "none" /\ pc \notin Open => Kept(img[cmd.part], src[cmd.part])
  BY <1>1, <1>2, Zenon DEF Originals
<1>4. harm \in [Parts -> {"none", "cut", "lost"}]
  BY <1>1, Zenon DEF Typed
<1> QED BY <1>1, <1>2, <1>3, <1>4

\* A command that ends: Return, with the image as it was or as the caller shows.
LEMMA Ends ==
  ASSUME IInv, NEW x \in {"ok", "error"}, Return(x), img' \in [Parts -> Image],
         vbmeta' = vbmeta \/ vbmeta' \in [Parts -> Descs],
         faults' = faults \/ (faults > 0 /\ faults' = faults - 1)
  PROVE  /\ Typed' /\ cmd'.part = cmd.part /\ cmd'.op = cmd.op /\ cmd'.size = cmd.size
         /\ Running' /\ src' = src /\ harm' = harm /\ pc' \notin Open /\ result' = x
<1>1. /\ pc' = "idle" /\ result' = x /\ cmd' = [cmd EXCEPT !.original = 0]
      /\ src' = src /\ harm' = harm /\ stops' = stops
  BY DEF Return
<1>2. Typed /\ harm' \in [Parts -> {"none", "cut", "lost"}]
  BY <1>1, AtHand
<1>3. \E n \in Nat : cmd' = [cmd EXCEPT !.original = n]
  BY <1>1
<1>4. pc' \in {"idle", "strip", "size", "vbmeta", "gap", "footer", "include"}
      /\ result' \in {"ok", "error", "running", "interrupted"}
  BY <1>1
<1>5. Typed' /\ cmd'.op = cmd.op /\ cmd'.part = cmd.part /\ cmd'.size = cmd.size
  BY <1>1, <1>2, <1>3, <1>4, StepTyped
<1>6. Running' /\ pc' \notin Open
  BY <1>1, Idle
<1> QED BY <1>1, <1>5, <1>6

\* A command that ends without touching an image.
LEMMA EndsIInv ==
  ASSUME IInv, pc \notin Open, NEW x \in {"ok", "error"}, Return(x), img' = img,
         vbmeta' = vbmeta \/ vbmeta' \in [Parts -> Descs],
         faults' = faults \/ (faults > 0 /\ faults' = faults - 1),
         x = "error" \/ cmd.op = "vbmeta"
  PROVE  IInv'
<1>0. PICK p \in Parts : p = cmd.part
  BY AtHand
<1>1. /\ img \in [Parts -> Image] /\ cmd.part \in Parts
      /\ Shaped(img[cmd.part]) /\ Good(img[cmd.part], harm[cmd.part])
      /\ harm[cmd.part] = "none" => Kept(img[cmd.part], src[cmd.part])
  BY AtHand
<1>2. /\ Typed' /\ cmd'.part = cmd.part /\ cmd'.op = cmd.op
      /\ Running' /\ src' = src /\ harm' = harm /\ pc' \notin Open /\ result' = x
  BY <1>1, Ends
<1>3. OnlyImage(p) /\ Fit(p)
  BY <1>0, <1>1, <1>2, Zenon DEF OnlyImage, Fit
<1>4. Finished'
  <2>1. result' # "ok" \/ cmd'.op \notin {"add", "resize"}
    BY <1>2
  <2> QED BY <2>1, Zenon DEF Finished
<1> QED BY <1>0, <1>2, <1>3, <1>4, OwnImage

LEMMA StripIInv ==
  ASSUME IInv, Strip
  PROVE  IInv'
<1>0. PICK p \in Parts : p = cmd.part
  BY AtHand
<1> DEFINE r == img[p]
<1>1. /\ pc = "strip" /\ pc' = "size" /\ vbmeta' = vbmeta /\ result' = result /\ src' = src
      /\ harm' = harm /\ faults' = faults /\ stops' = stops
  BY DEF Strip, Goto
<1>2. /\ Typed /\ Running /\ cmd \in Cmds /\ p \in Parts /\ img \in [Parts -> Image]
      /\ harm \in [Parts -> {"none", "cut", "lost"}]
      /\ r \in Image /\ Shaped(r) /\ Good(r, harm[p]) /\ r.cells \in Seq(Cell)
      /\ Len(r.cells) \in Nat
      /\ harm[p] = "none" /\ pc \notin Open => Kept(r, src[p])
  BY <1>0, AtHand
<1>3. AtStrip(cmd) /\ result = "running"
  BY <1>1, <1>2, Found
<1>4. pc \notin Open /\ pc' \notin Open
  BY <1>1 DEF Open
<1>5. /\ img' \in [Parts -> Image] /\ (\A x \in Parts : x # p => img'[x] = img[x])
      /\ Shaped(img'[p]) /\ (\A g : Good(img'[p], g)) /\ ~Footed(img'[p].cells)
      /\ harm[p] = "none" => Kept(img'[p], src[p])
      /\ cmd' = [cmd EXCEPT !.original = Len(img'[p].cells)] /\ Len(img'[p].cells) \in Nat
  <2>1. CASE HasFooter(p)
    <3> DEFINE e == Resized(r.cells, r.ft.original)
    <3>1. /\ img' = [img EXCEPT ![p] = [cells |-> e, vb |-> NoDesc, ft |-> NoFooter]]
          /\ cmd' = [cmd EXCEPT !.original = r.ft.original]
      BY <1>0, <2>1 DEF Strip, Restore, Cells, P
    <3>2. Footed(r.cells)
      BY <1>2, <2>1, HasFooterIs
    <3>3. /\ Shaped(Plain(e)) /\ ~Footed(Plain(e).cells) /\ (\A g : Good(Plain(e), g))
          /\ Len(Plain(e).cells) = r.ft.original
          /\ Kept(r, src[p]) => Kept(Plain(e), src[p])
      BY <1>2, <3>2, StripBack
    <3>4. r.ft.original \in Nat
      BY <1>2, ImageFacts
    <3>5. e \in Seq(Cell)
      BY <1>2, <3>4, ResizedFacts
    <3> HIDE DEF e
    <3>6. /\ img' \in [Parts -> Image] /\ img'[p] = Plain(e)
          /\ \A x \in Parts : x # p => img'[x] = img[x]
      BY <1>2, <3>1, <3>5, EditPlain
    <3> HIDE DEF r
    <3> QED BY <1>2, <1>4, <3>1, <3>3, <3>4, <3>6, Zenon
  <2>2. CASE ~HasFooter(p)
    <3>1. img' = img /\ cmd' = [cmd EXCEPT !.original = Len(r.cells)]
      BY <1>0, <2>2 DEF Strip, P, Size, Cells
    <3>2. ~Footed(r.cells)
      BY <1>2, <2>2, HasFooterIs
    <3>3. \A g : Good(r, g)
      BY <3>2, Zenon DEF Good
    <3> QED BY <1>2, <1>4, <3>1, <3>2, <3>3, Zenon
  <2> QED BY <2>1, <2>2
<1>6. /\ cmd'.op = cmd.op /\ cmd'.part = cmd.part /\ cmd'.size = cmd.size
      /\ cmd'.original = Len(img'[p].cells) /\ \E n \in Nat : cmd' = [cmd EXCEPT !.original = n]
  <2> QED BY <1>2, <1>5, SameCmd
<1>7. Typed'
  <2>1. harm' \in [Parts -> {"none", "cut", "lost"}] /\ result' \in {"ok", "error", "running", "interrupted"}
        /\ pc' \in {"idle", "strip", "size", "vbmeta", "gap", "footer", "include"}
    BY <1>1, <1>2, <1>3
  <2> QED BY <1>1, <1>2, <1>5, <1>6, <2>1, StepTyped
<1>8. OnlyImage(p) /\ Fit(p)
  <2> QED BY <1>1, <1>5, Zenon DEF OnlyImage, Fit
<1>9. Running'
  <2>1. AtSize(img'[cmd'.part], cmd')
    BY <1>0, <1>3, <1>5, <1>6, Zenon DEF AtSize, AtStrip
  <2>2. pc' \notin {"strip", "vbmeta", "gap", "footer", "include"}
    BY <1>1
  <2> QED BY <1>1, <1>3, <2>1, <2>2, Zenon DEF Running, Busy
<1>10. Finished'
  <2>1. result' # "ok"
    BY <1>1, <1>3
  <2> QED BY <2>1, Unfinished
<1> QED BY <1>0, <1>6, <1>7, <1>8, <1>9, <1>10, OwnImage

LEMMA AddRaggedIInv ==
  ASSUME IInv, AddRagged
  PROVE  IInv'
<1>1. pc = "size" /\ Return("error") /\ img' = img /\ vbmeta' = vbmeta /\ faults' = faults
  BY DEF AddRagged
<1>2. pc \notin Open
  BY <1>1 DEF Open
<1> QED BY <1>1, <1>2, EndsIInv

\* add_hash_footer fails, inside its try.
LEMMA RevertsIInv ==
  ASSUME IInv, Restore(cmd.part, cmd.original), Return("error"), vbmeta' = vbmeta,
         faults' = faults \/ (faults > 0 /\ faults' = faults - 1),
         pc = "size" \/ (cmd.op = "add" /\ pc \in Open)
  PROVE  IInv'
<1>0. PICK p \in Parts : p = cmd.part
  BY AtHand
<1> DEFINE r == img[p]
           e == Resized(r.cells, cmd.original)
<1>1. /\ Running /\ cmd \in Cmds /\ img \in [Parts -> Image] /\ Shaped(r) /\ cmd.original \in Nat
      /\ r.cells \in Seq(Cell) /\ (harm[p] = "none" /\ pc \notin Open => Kept(r, src[p]))
  BY <1>0, AtHand
<1>2. img' = [img EXCEPT ![p] = [cells |-> e, vb |-> NoDesc, ft |-> NoFooter]]
  BY <1>0 DEF Restore, Cells
<1>3. \/ AtSize(r, cmd) /\ (harm[p] = "none" => Kept(r, src[p]))
      \/ Appending(r, cmd, harm[p], src[p]) /\ cmd.op = "add"
  <2>1. CASE pc = "size"
    <3>1. pc \notin Open
      BY <2>1 DEF Open
    <3> QED BY <1>0, <1>1, <2>1, <3>1, Found
  <2>2. CASE cmd.op = "add" /\ pc \in Open
    <3>1. pc = "vbmeta" \/ pc = "gap" \/ pc = "footer"
      BY <2>2 DEF Open
    <3>2. \/ AtVbmeta(r, cmd, harm[p], src[p])
          \/ AtGap(r, cmd, harm[p], src[p])
          \/ AtFooter(r, cmd, harm[p], src[p])
      BY <1>0, <1>1, <3>1, Found
    <3> QED BY <2>2, <3>2, Zenon DEF AtVbmeta, AtGap, AtFooter
  <2> QED BY <2>1, <2>2
<1>4. /\ Shaped(Plain(e)) /\ (\A g : Good(Plain(e), g))
      /\ harm[p] = "none" => Kept(Plain(e), src[p])
  <2> HIDE DEF r
  <2> QED BY <1>1, <1>3, Reverted
<1>5. e \in Seq(Cell)
  BY <1>1, ResizedFacts
<1> HIDE DEF e, r
<1>6. /\ img' \in [Parts -> Image] /\ img'[p] = Plain(e)
      /\ \A x \in Parts : x # p => img'[x] = img[x]
  BY <1>1, <1>2, <1>5, EditPlain
<1>7. /\ Typed' /\ cmd'.part = cmd.part /\ Running' /\ src' = src /\ harm' = harm
      /\ pc' \notin Open /\ result' = "error"
  BY <1>6, Ends
<1>8. OnlyImage(p) /\ Fit(p)
  BY <1>4, <1>6, <1>7, Zenon DEF OnlyImage, Fit
<1>9. Finished'
  <2>1. result' # "ok"
    BY <1>7
  <2> QED BY <2>1, Unfinished
<1> QED BY <1>0, <1>7, <1>8, <1>9, OwnImage

LEMMA AddTooLargeIInv ==
  ASSUME IInv, AddTooLarge
  PROVE  IInv'
<1>1. /\ pc = "size" /\ Restore(cmd.part, cmd.original) /\ Return("error")
      /\ vbmeta' = vbmeta /\ faults' = faults
  BY DEF AddTooLarge, P
<1> QED BY <1>1, RevertsIInv

LEMMA AddFailsIInv ==
  ASSUME IInv, AddFails
  PROVE  IInv'
<1>1. /\ Restore(cmd.part, cmd.original) /\ Return("error") /\ vbmeta' = vbmeta
      /\ faults > 0 /\ faults' = faults - 1
      /\ cmd.op = "add" /\ pc \in {"size", "vbmeta", "gap", "footer"}
  BY DEF AddFails, P, InTry
<1>2. pc = "size" \/ pc \in Open
  BY <1>1 DEF Open
<1> QED BY <1>1, <1>2, RevertsIInv

\* The next statement, after a write or after one that got lost.
LEMMA GoesOn ==
  ASSUME IInv, NEW p \in Parts, p = cmd.part, NEW l \in Open, pc # "idle", pc' = l, cmd' = cmd,
         UNCHANGED <<vbmeta, result, src, stops>>, img' \in [Parts -> Image],
         harm' \in [Parts -> {"none", "cut", "lost"}],
         faults' = faults \/ (faults > 0 /\ faults' = faults - 1),
         \A x \in Parts : x # p => img'[x] = img[x] /\ harm'[x] = harm[x],
         Shaped(img'[p]), \A g : Good(img'[p], g), Busy(l, img'[p], cmd, harm'[p], src[p])
  PROVE  IInv'
<1>1. Typed /\ result = "running"
  BY Found DEF IInv
<1>2. /\ pc' \in {"idle", "strip", "size", "vbmeta", "gap", "footer", "include"}
      /\ pc' \in Open /\ pc' # "include" /\ result' = "running" /\ src' = src
      /\ result' \in {"ok", "error", "running", "interrupted"}
  BY <1>1 DEF Open
<1>3. Typed'
  BY <1>1, <1>2, StepTyped
<1>4. OnlyImage(p) /\ Fit(p)
  BY <1>2, Zenon DEF OnlyImage, Fit
<1>5. Running'
  BY <1>2, Zenon DEF Running
<1>6. Finished'
  <2>1. result' # "ok"
    BY <1>2
  <2> QED BY <2>1, Unfinished
<1> QED BY <1>3, <1>4, <1>5, <1>6, OwnImage

LEMMA BusyAt ==
  ASSUME NEW r, NEW c, NEW h, NEW s
  PROVE  /\ AtVbmeta(r, c, h, s) => Busy("vbmeta", r, c, h, s)
         /\ AtGap(r, c, h, s)    => Busy("gap", r, c, h, s)
         /\ AtFooter(r, c, h, s) => Busy("footer", r, c, h, s)
  BY DEF Busy

LEMMA HashIInv ==
  ASSUME IInv, Hash
  PROVE  IInv'
<1>0. PICK p \in Parts : p = cmd.part
  BY AtHand
<1> DEFINE r == img[p]
           n == Len(r.cells)
           e == Resized(r.cells, RoundUp(n))
           d == [size |-> n, digest |-> r.cells]
           q == [r EXCEPT !.cells = e, !.vb = d]
<1>1. /\ pc = "size" /\ pc' = "vbmeta" /\ cmd.size % BlockSize = 0 /\ n <= cmd.size - MaxMeta
      /\ UNCHANGED <<vbmeta, result, src, harm, faults, stops, cmd>>
  BY <1>0 DEF Hash, Goto, Size, Cells, P
<1>2. img' = [img EXCEPT ![p].cells = Resized(@, RoundUp(n)), ![p].vb = d]
  BY <1>0 DEF Hash, Size, Cells, P
<1>3. /\ Running /\ cmd \in Cmds /\ img \in [Parts -> Image] /\ Shaped(r) /\ r \in Image
      /\ harm \in [Parts -> {"none", "cut", "lost"}]
      /\ r.cells \in Seq(Cell) /\ n \in Nat /\ (harm[p] = "none" /\ pc \notin Open => Kept(r, src[p]))
  BY <1>0, AtHand
<1>4. pc \notin Open
  BY <1>1 DEF Open
<1>5. AtSize(r, cmd)
  BY <1>0, <1>1, <1>3, Found
<1>6. e \in Seq(Cell) /\ d \in Descs
  <2>1. RoundUp(n) \in Nat
    BY <1>3, RoundUpFacts
  <2>2. e \in Seq(Cell)
    BY <1>3, <2>1, ResizedFacts
  <2> QED BY <1>3, <2>2 DEF Descs, Cell
<1> HIDE DEF e, d
<1>7. q \in Image /\ q.cells = e /\ q.vb = d
  BY <1>3, <1>6 DEF Image
<1>8. img' = [img EXCEPT ![p] = q]
  BY <1>2, <1>3 DEF e
<1>9. q.cells = Resized(r.cells, RoundUp(Len(r.cells))) /\ q.vb = [size |-> Len(r.cells), digest |-> r.cells]
  BY <1>7 DEF e, d
<1> HIDE DEF q, r
<1>10. Shaped(q) /\ (\A g : Good(q, g)) /\ AtVbmeta(q, cmd, harm[p], src[p])
  BY <1>1, <1>3, <1>4, <1>5, <1>7, <1>9, Hashed
<1>11. img' \in [Parts -> Image] /\ img'[p] = q /\ \A x \in Parts : x # p => img'[x] = img[x]
  BY <1>3, <1>7, <1>8, EditImage
<1>12. Busy("vbmeta", img'[p], cmd, harm'[p], src[p]) /\ Shaped(img'[p]) /\ \A g : Good(img'[p], g)
  BY <1>1, <1>10, <1>11, BusyAt
<1>13. "vbmeta" \in Open /\ pc # "idle"
  BY <1>1 DEF Open
<1> QED BY <1>0, <1>1, <1>3, <1>11, <1>12, <1>13, GoesOn

LEMMA AppendVbmetaIInv ==
  ASSUME IInv, AppendVbmeta
  PROVE  IInv'
<1>0. PICK p \in Parts : p = cmd.part
  BY AtHand
<1> DEFINE r == img[p]
           e == r.cells \o VbmetaBlob \o Zeros(RoundUp(VbSize) - VbSize)
           f == [original |-> cmd.original, offset |-> Len(r.cells)]
           q == [r EXCEPT !.cells = e, !.ft = f]
<1>1. /\ pc = "vbmeta" /\ pc' = "gap"
      /\ UNCHANGED <<vbmeta, result, src, harm, faults, stops, cmd>>
      /\ img' = [img EXCEPT ![p].cells = @ \o VbmetaBlob \o Zeros(RoundUp(VbSize) - VbSize),
                            ![p].ft = f]
  BY <1>0 DEF AppendVbmeta, Goto, Size, Cells, P
<1>2. /\ Running /\ cmd \in Cmds /\ img \in [Parts -> Image] /\ Shaped(r) /\ r \in Image
      /\ harm \in [Parts -> {"none", "cut", "lost"}] /\ cmd.original \in Nat
      /\ r.cells \in Seq(Cell) /\ Len(r.cells) \in Nat
  BY <1>0, AtHand
<1>3. AtVbmeta(r, cmd, harm[p], src[p])
  BY <1>0, <1>1, <1>2, Found
<1>4. e \in Seq(Cell) /\ f \in Footer
  <2>1. Zeros(RoundUp(VbSize) - VbSize) \in Seq(Cell)
    <3>1. RoundUp(VbSize) - VbSize \in Int
      BY StructSize
    <3> QED BY <3>1, ZerosFacts, CellSeq
  <2>2. VbmetaBlob \in Seq(Cell)
    BY BlobFacts
  <2>3. e \in Seq(Cell)
    BY <1>2, <2>1, <2>2, JoinFacts
  <2> QED BY <1>2, <2>3 DEF Footer
<1> HIDE DEF e, f
<1>5. q \in Image /\ q.cells = e /\ q.vb = r.vb /\ q.ft = f
  BY <1>2, <1>4 DEF Image
<1>6. img' = [img EXCEPT ![p] = q]
  BY <1>1, <1>2 DEF e
<1>7. /\ q.cells = r.cells \o VbmetaBlob \o Zeros(RoundUp(VbSize) - VbSize)
      /\ q.ft = [original |-> cmd.original, offset |-> Len(r.cells)]
  BY <1>5 DEF e, f
<1> HIDE DEF q, r
<1>8. Shaped(q) /\ (\A g : Good(q, g)) /\ AtGap(q, cmd, harm[p], src[p])
  BY <1>2, <1>3, <1>5, <1>7, Structured
<1>9. img' \in [Parts -> Image] /\ img'[p] = q /\ \A x \in Parts : x # p => img'[x] = img[x]
  BY <1>2, <1>5, <1>6, EditImage
<1>10. Busy("gap", img'[p], cmd, harm'[p], src[p]) /\ Shaped(img'[p]) /\ \A g : Good(img'[p], g)
  BY <1>1, <1>8, <1>9, BusyAt
<1>11. "gap" \in Open /\ pc # "idle"
  BY <1>1 DEF Open
<1> QED BY <1>0, <1>1, <1>2, <1>9, <1>10, <1>11, GoesOn

LEMMA AppendGapIInv ==
  ASSUME IInv, AppendGap
  PROVE  IInv'
<1>0. PICK p \in Parts : p = cmd.part
  BY AtHand
<1> DEFINE r == img[p]
           m == cmd.size - RoundUp(r.ft.offset + VbSize) - BlockSize
           e == r.cells \o Zeros(m)
           q == img'[p]
<1>1. /\ pc = "gap" /\ pc' = "footer" /\ SetCells(p, e)
      /\ UNCHANGED <<vbmeta, result, src, harm, faults, stops, cmd>>
  BY <1>0 DEF AppendGap, Goto, VbmetaEnd, Cells, P
<1>2. /\ Running /\ cmd \in Cmds /\ img \in [Parts -> Image] /\ Shaped(r) /\ r \in Image
      /\ harm \in [Parts -> {"none", "cut", "lost"}] /\ cmd.size \in Nat
      /\ r.cells \in Seq(Cell)
  BY <1>0, AtHand
<1>3. AtGap(r, cmd, harm[p], src[p])
  BY <1>0, <1>1, <1>2, Found
<1>4. e \in Seq(Cell)
  <2>1. RoundUp(r.ft.offset + VbSize) \in Nat /\ BlockSize \in Nat
    <3>1. r.ft.offset + VbSize \in Nat
      BY <1>2, ImageFacts, Constants
    <3> QED BY <3>1, RoundUpFacts, Constants
  <2>2. m \in Int
    BY <1>2, <2>1
  <2>3. Zeros(m) \in Seq(Cell)
    BY <2>2, ZerosFacts, CellSeq
  <2> QED BY <1>2, <2>3, JoinFacts
<1>5. /\ img' \in [Parts -> Image] /\ q \in Image
      /\ q.cells = e /\ q.vb = r.vb /\ q.ft = r.ft
      /\ \A x \in Parts : x # p => img'[x] = img[x]
  <2> HIDE DEF e
  <2> QED BY <1>1, <1>2, <1>4, EditCells
<1> HIDE DEF q, r
<1>6. Shaped(q) /\ (\A g : Good(q, g)) /\ AtFooter(q, cmd, harm[p], src[p])
  BY <1>2, <1>3, <1>5, Gapped
<1>7. Busy("footer", q, cmd, harm'[p], src[p])
  BY <1>1, <1>6, BusyAt
<1>8. "footer" \in Open /\ pc # "idle"
  BY <1>1 DEF Open
<1> QED BY <1>0, <1>1, <1>2, <1>5, <1>6, <1>7, <1>8, GoesOn DEF q

LEMMA AppendFooterIInv ==
  ASSUME IInv, AppendFooter
  PROVE  IInv'
<1>0. PICK p \in Parts : p = cmd.part
  BY AtHand
<1> DEFINE r == img[p]
           e == r.cells \o Zeros(BlockSize - 1) \o <<"F">>
           q == img'[p]
<1>1. pc = "footer" /\ SetCells(p, e) /\ Return("ok") /\ vbmeta' = vbmeta /\ faults' = faults
  BY <1>0 DEF AppendFooter, Cells, P
<1>2. /\ Running /\ cmd \in Cmds /\ img \in [Parts -> Image] /\ Shaped(r) /\ r \in Image
      /\ r.cells \in Seq(Cell)
  BY <1>0, AtHand
<1>3. AtFooter(r, cmd, harm[p], src[p])
  BY <1>0, <1>1, <1>2, Found
<1>4. e \in Seq(Cell)
  <2>1. Zeros(BlockSize - 1) \in Seq(Cell)
    <3>1. BlockSize - 1 \in Int
      BY Constants
    <3> QED BY <3>1, ZerosFacts, CellSeq
  <2>2. <<"F">> \in Seq(Cell)
    BY DEF Cell
  <2> QED BY <1>2, <2>1, <2>2, JoinFacts
<1>5. /\ img' \in [Parts -> Image] /\ q \in Image
      /\ q.cells = e /\ q.vb = r.vb /\ q.ft = r.ft
      /\ \A x \in Parts : x # p => img'[x] = img[x]
  <2> HIDE DEF e
  <2> QED BY <1>1, <1>2, <1>4, EditCells
<1> HIDE DEF q, r
<1>6. /\ Shaped(q) /\ Good(q, harm[p]) /\ Made(q, cmd, harm[p])
      /\ harm[p] = "none" => Kept(q, src[p])
  BY <1>2, <1>3, <1>5, Completed
<1>7. /\ Typed' /\ cmd'.part = cmd.part /\ cmd'.size = cmd.size /\ Running'
      /\ src' = src /\ harm' = harm /\ pc' \notin Open
  <2> HIDE DEF e
  <2> QED BY <1>1, <1>5, Ends
<1> HIDE DEF e
<1>8. OnlyImage(p) /\ Fit(p)
  BY <1>5, <1>6, <1>7, Zenon DEF OnlyImage, Fit, q
<1>9. Finished'
  BY <1>0, <1>6, <1>7, Zenon DEF Finished, Made, q
<1> QED BY <1>0, <1>7, <1>8, <1>9, OwnImage

LEMMA AppendLostIInv ==
  ASSUME IInv, AppendLost
  PROVE  IInv'
<1>0. PICK p \in Parts : p = cmd.part
  BY AtHand
<1> DEFINE r == img[p]
<1>1. /\ Running /\ Typed /\ cmd \in Cmds /\ img \in [Parts -> Image] /\ Shaped(r) /\ r \in Image
      /\ harm \in [Parts -> {"none", "cut", "lost"}] /\ cmd.original \in Nat
      /\ Len(r.cells) \in Nat
  BY <1>0, AtHand
<1>2. /\ faults > 0 /\ faults' = faults - 1 /\ harm' = [harm EXCEPT ![p] = "lost"]
      /\ UNCHANGED <<vbmeta, src, stops>>
  BY <1>0 DEF AppendLost, P
<1>3. /\ harm' \in [Parts -> {"none", "cut", "lost"}] /\ harm'[p] = "lost"
      /\ \A x \in Parts : x # p => harm'[x] = harm[x]
  BY <1>1, <1>2
<1>4. \/ /\ pc = "vbmeta" /\ pc' = "gap" /\ UNCHANGED <<result, cmd>>
         /\ img' = [img EXCEPT ![p].ft = [original |-> cmd.original, offset |-> Len(r.cells)]]
      \/ /\ pc = "footer" /\ pc' = "idle" /\ result' = "ok"
         /\ cmd' = [cmd EXCEPT !.original = 0] /\ img' = img
  BY <1>0 DEF AppendLost, P, Size, Cells
<1>5. CASE /\ pc = "vbmeta" /\ pc' = "gap" /\ UNCHANGED <<result, cmd>>
           /\ img' = [img EXCEPT ![p].ft = [original |-> cmd.original, offset |-> Len(r.cells)]]
  <2> DEFINE f == [original |-> cmd.original, offset |-> Len(r.cells)]
             q == [r EXCEPT !.ft = f]
  <2>1. AtVbmeta(r, cmd, harm[p], src[p])
    BY <1>0, <1>1, <1>5, Found
  <2>2. f \in Footer
    BY <1>1 DEF Footer
  <2> HIDE DEF f
  <2>3. q \in Image /\ q.cells = r.cells /\ q.vb = r.vb /\ q.ft = f
    BY <1>1, <2>2 DEF Image
  <2>4. img' = [img EXCEPT ![p] = q]
    BY <1>1, <1>5 DEF f
  <2>5. q.ft = [original |-> cmd.original, offset |-> Len(r.cells)]
    BY <2>3 DEF f
  <2> HIDE DEF q, r
  <2>6. Shaped(q) /\ (\A g : Good(q, g)) /\ AtGap(q, cmd, "lost", src[p])
    BY <1>1, <2>1, <2>3, <2>5, StructLost
  <2>7. img' \in [Parts -> Image] /\ img'[p] = q /\ \A x \in Parts : x # p => img'[x] = img[x]
    BY <1>1, <2>3, <2>4, EditImage
  <2>8. Busy("gap", img'[p], cmd, harm'[p], src[p]) /\ Shaped(img'[p]) /\ \A g : Good(img'[p], g)
    BY <1>3, <2>6, <2>7, BusyAt
  <2>9. "gap" \in Open /\ pc # "idle"
    BY <1>5 DEF Open
  <2> QED BY <1>0, <1>2, <1>3, <1>5, <2>7, <2>8, <2>9, GoesOn
<1>6. CASE /\ pc = "footer" /\ pc' = "idle" /\ result' = "ok"
           /\ cmd' = [cmd EXCEPT !.original = 0] /\ img' = img
  <2>1. AtFooter(r, cmd, harm[p], src[p])
    BY <1>0, <1>1, <1>6, Found
  <2>2. ~Footed(r.cells)
    BY <2>1, Zenon DEF AtFooter, Appending
  <2>3. \A g : Good(r, g)
    BY <2>2, Zenon DEF Good
  <2>4. Typed' /\ cmd'.part = cmd.part
    <3>1. \E n \in Nat : cmd' = [cmd EXCEPT !.original = n]
      BY <1>6
    <3>2. pc' \in {"idle", "strip", "size", "vbmeta", "gap", "footer", "include"}
          /\ result' \in {"ok", "error", "running", "interrupted"} /\ img' \in [Parts -> Image]
      BY <1>1, <1>6
    <3> QED BY <1>1, <1>2, <1>3, <3>1, <3>2, StepTyped
  <2>5. harm'[p] # "none"
    BY <1>3
  <2>6. OnlyImage(p) /\ Fit(p)
    BY <1>1, <1>2, <1>3, <1>6, <2>3, <2>5, Zenon DEF OnlyImage, Fit
  <2>7. Running'
    BY <1>6, Idle
  <2>8. Finished'
    BY <1>0, <1>3, <2>4, Zenon DEF Finished, Made
  <2> QED BY <1>0, <2>4, <2>6, <2>7, <2>8, OwnImage
<1> QED BY <1>4, <1>5, <1>6

\* A command that stops on its image without putting anything back.
LEMMA StopsIInv ==
  ASSUME IInv, NEW x \in {"error", "interrupted"}, pc' = "idle", result' = x, Cut(cmd.part),
         UNCHANGED <<img, vbmeta, cmd, src>>,
         faults' = faults \/ (faults > 0 /\ faults' = faults - 1),
         stops' = stops \/ (stops > 0 /\ stops' = stops - 1)
  PROVE  IInv'
<1>0. PICK p \in Parts : p = cmd.part
  BY AtHand
<1>1. Typed /\ img \in [Parts -> Image] /\ Shaped(img[p]) /\ Good(img[p], harm[p])
  BY <1>0, AtHand
<1>2. /\ harm' \in [Parts -> {"none", "cut", "lost"}] /\ harm'[p] = CutShort(harm[p])
      /\ \A y \in Parts : y # p => harm'[y] = harm[y]
  BY <1>0, <1>1, CutHarm
<1>3. Good(img[p], harm'[p]) /\ harm'[p] # "none"
  BY <1>1, <1>2, CutGood
<1>4. Typed'
  <2>1. pc' \in {"idle", "strip", "size", "vbmeta", "gap", "footer", "include"}
        /\ result' \in {"ok", "error", "running", "interrupted"} /\ img' \in [Parts -> Image]
        /\ cmd' = cmd /\ vbmeta' = vbmeta /\ src' = src
    BY <1>1
  <2> QED BY <1>1, <1>2, <2>1, StepTyped
<1>5. OnlyImage(p) /\ Fit(p)
  BY <1>1, <1>2, <1>3, Zenon DEF OnlyImage, Fit
<1>6. Running' /\ Finished'
  BY Idle, Unfinished
<1> QED BY <1>0, <1>4, <1>5, <1>6, OwnImage

LEMMA ResizeFailsIInv ==
  ASSUME IInv, ResizeFails
  PROVE  IInv'
<1>1. /\ faults > 0 /\ faults' = faults - 1 /\ pc' = "idle" /\ result' = "error" /\ Cut(cmd.part)
      /\ UNCHANGED <<img, vbmeta, cmd, src, stops>>
  BY DEF ResizeFails, P
<1> QED BY <1>1, StopsIInv

LEMMA InterruptIInv ==
  ASSUME IInv, Interrupt
  PROVE  IInv'
<1>1. /\ pc # "idle" /\ stops > 0 /\ stops' = stops - 1 /\ pc' = "idle" /\ result' = "interrupted"
      /\ UNCHANGED <<img, vbmeta, cmd, src, faults>>
  BY DEF Interrupt
<1>2. CASE cmd.op # "vbmeta"
  <2>1. Cut(cmd.part)
    BY <1>2 DEF Interrupt, P
  <2> QED BY <1>1, <2>1, StopsIInv
<1>3. CASE cmd.op = "vbmeta"
  <2>0. PICK p \in Parts : p = cmd.part
    BY AtHand
  <2>1. harm' = harm
    BY <1>3 DEF Interrupt
  <2>2. /\ Typed /\ Running /\ img \in [Parts -> Image] /\ Shaped(img[p]) /\ Good(img[p], harm[p])
        /\ harm \in [Parts -> {"none", "cut", "lost"}]
        /\ harm[p] = "none" /\ pc \notin Open => Kept(img[p], src[p])
    BY <2>0, AtHand
  <2>3. pc \notin Open
    <3>1. \/ pc \notin Open
          \/ AtVbmeta(img[p], cmd, harm[p], src[p])
          \/ AtGap(img[p], cmd, harm[p], src[p])
          \/ AtFooter(img[p], cmd, harm[p], src[p])
      BY <2>0, <2>2, Found DEF Open
    <3>2. pc \notin Open \/ cmd.op \in {"add", "resize"}
      BY <3>1, Zenon DEF AtVbmeta, AtGap, AtFooter, Appending
    <3> QED BY <1>3, <3>2
  <2>4. Typed'
    <3>1. pc' \in {"idle", "strip", "size", "vbmeta", "gap", "footer", "include"}
          /\ result' \in {"ok", "error", "running", "interrupted"} /\ img' \in [Parts -> Image]
          /\ harm' \in [Parts -> {"none", "cut", "lost"}]
      BY <1>1, <2>1, <2>2
    <3> QED BY <1>1, <2>2, <3>1, StepTyped
  <2>5. OnlyImage(p) /\ Fit(p)
    BY <1>1, <2>1, <2>2, <2>3, Zenon DEF OnlyImage, Fit
  <2>6. Running' /\ Finished'
    BY <1>1, Idle, Unfinished
  <2> QED BY <1>1, <2>0, <2>4, <2>5, <2>6, OwnImage
<1> QED BY <1>2, <1>3

LEMMA IncludesIInv ==
  ASSUME IInv, Include \/ IncludeLost \/ IncludeFails
  PROVE  IInv'
<1>1. pc = "include" /\ img' = img
  BY DEF Include, IncludeLost, IncludeFails
<1>2. pc \notin Open
  BY <1>1 DEF Open
<1>3. cmd.op = "vbmeta"
  BY <1>1, AtHand, Found
<1>4. CASE Include
  <2>1. Return("ok") /\ vbmeta' = [p \in Parts |-> img[p].vb] /\ faults' = faults
    BY <1>4 DEF Include
  <2>2. \A p \in Parts : img[p].vb \in Descs
    BY AtHand, ImageFacts
  <2>3. vbmeta' \in [Parts -> Descs]
    BY <2>1, <2>2
  <2> QED BY <1>1, <1>2, <1>3, <2>1, <2>3, EndsIInv
<1>5. CASE IncludeLost
  <2>1. Return("ok") /\ vbmeta' = vbmeta /\ faults > 0 /\ faults' = faults - 1
    BY <1>5 DEF IncludeLost
  <2> QED BY <1>1, <1>2, <1>3, <2>1, EndsIInv
<1>6. CASE IncludeFails
  <2>1. Return("error") /\ vbmeta' = vbmeta /\ faults' = faults
    BY <1>6 DEF IncludeFails
  <2> QED BY <1>1, <1>2, <1>3, <2>1, EndsIInv
<1> QED BY <1>4, <1>5, <1>6

-----------------------------------------------------------------------------
\* The inductive invariant.

LEMMA InitIInv ==
  ASSUME Init
  PROVE  IInv
<1>1. PICK f \in [Parts -> Inputs] :
        /\ img = [p \in Parts |-> [cells |-> f[p], vb |-> NoDesc, ft |-> NoFooter]]
        /\ src = f
  BY DEF Init
<1>2. PICK p \in Parts : cmd = [op |-> "pack", part |-> p, size |-> 0, original |-> 0]
  BY DEF Init
<1>3. /\ vbmeta = Empty /\ pc = "idle" /\ result = "ok" /\ harm = [x \in Parts |-> "none"]
      /\ faults = MaxFaults /\ stops = MaxStops
  BY DEF Init
<1>4. cmd \in Cmds /\ cmd.op = "pack"
  BY <1>2, NewCmd
<1>5. ASSUME NEW x \in Parts
      PROVE  /\ img[x] \in Image /\ Shaped(img[x]) /\ Good(img[x], harm[x]) /\ Kept(img[x], src[x])
             /\ src[x] \in Seq(Content) \ {<<>>}
  <2> DEFINE s == f[x]
  <2>1. s \in Inputs /\ src[x] = s /\ img[x] = Plain(s)
    BY <1>1 DEF Plain
  <2>2. s \in Seq(Content) /\ Len(s) \in Nat
    BY <2>1, Constants
  <2> HIDE DEF s
  <2>3. Resized(s, Len(s)) = s
    <3>1. SubSeq(s, 1, Len(s)) = s
      BY <2>2
    <3>2. Len(s) <= Len(s)
      BY <2>2
    <3> QED BY <3>1, <3>2 DEF Resized
  <2>4. Shaped(Plain(s)) /\ (\A g : Good(Plain(s), g)) /\ Kept(Plain(s), s)
        /\ s \in Seq(Content) \ {<<>>}
    <3>1. Len(s) \in PadSizes \cup {Len(s)}
      OBVIOUS
    <3> DEFINE e == Resized(s, Len(s))
    <3>2. Shaped(Plain(e)) /\ (\A g : Good(Plain(e), g)) /\ Kept(Plain(e), e)
          /\ e \in Seq(Content) \ {<<>>}
      BY <2>1, <3>1, Packed
    <3>3. e = s
      BY <2>3
    <3> HIDE DEF e
    <3> QED BY <3>2, <3>3
  <2> QED BY <2>1, <2>4, ShapedFacts
<1>6. img \in [Parts -> Image] /\ src \in [Parts -> Seq(Content) \ {<<>>}]
      /\ harm \in [Parts -> {"none", "cut", "lost"}]
  <2>1. img \in [Parts -> Image]
    <3>1. img = [x \in Parts |-> img[x]]
      BY <1>1
    <3> QED BY <1>5, <3>1
  <2>2. src \in [Parts -> Seq(Content) \ {<<>>}]
    BY <1>1, <1>5
  <2> QED BY <1>3, <2>1, <2>2
<1>7. faults \in 0 .. MaxFaults /\ stops \in 0 .. MaxStops
  BY <1>3, AvbAssumption
<1>8. /\ vbmeta \in {Empty} \cup [Parts -> Descs]
      /\ pc \in {"idle", "strip", "size", "vbmeta", "gap", "footer", "include"}
      /\ result \in {"ok", "error", "running", "interrupted"}
  BY <1>3
<1>9. Typed
  BY <1>4, <1>6, <1>7, <1>8, Zenon DEF Typed
<1>10. Images /\ Originals
  BY <1>5, Zenon DEF Images, Originals
<1>11. Running
  <2>1. pc \notin {"strip", "size", "vbmeta", "gap", "footer", "include"} /\ pc = "idle"
    BY <1>3
  <2> QED BY <2>1, Zenon DEF Running, Busy
<1>12. Finished
  <2>1. cmd.op \notin {"add", "resize"}
    BY <1>4
  <2> QED BY <2>1, Zenon DEF Finished
<1> QED BY <1>9, <1>10, <1>11, <1>12 DEF IInv

LEMMA StepIInv ==
  ASSUME IInv, [Next]_vars
  PROVE  IInv'
<1>1. ASSUME NEW p \in Parts, NEW s \in Inputs, NEW k \in PadSizes \cup {Len(s)}, Pack(p, s, k)
      PROVE  IInv'
  BY <1>1, PackIInv
<1>2. ASSUME NEW p \in Parts, NEW k \in PartSizes, Add(p, k) \/ AddTooSmall(p, k)
      PROVE  IInv'
  <2>1. CASE Add(p, k)
    BY <2>1, AddIInv
  <2>2. CASE AddTooSmall(p, k)
    <3>1. Call("add", p, k, "idle") /\ result' = "error" /\ UNCHANGED <<img, vbmeta>> /\ k \in Nat
      BY <2>2, Constants DEF AddTooSmall
    <3> QED BY <3>1, RefusedIInv
  <2> QED BY <1>2, <2>1, <2>2
<1>3. ASSUME NEW p \in Parts, NEW k \in PartSizes, Resize(p, k) \/ ResizeRefused(p, k)
      PROVE  IInv'
  <2>1. CASE Resize(p, k)
    BY <2>1, ResizeIInv
  <2>2. CASE ResizeRefused(p, k)
    <3>1. Call("resize", p, k, "idle") /\ result' = "error" /\ UNCHANGED <<img, vbmeta>> /\ k \in Nat
      BY <2>2, Constants DEF ResizeRefused
    <3> QED BY <3>1, RefusedIInv
  <2> QED BY <1>3, <2>1, <2>2
<1>4. ASSUME NEW p \in Parts, EraseFooter(p) PROVE IInv'
  BY <1>4, EraseFooterIInv
<1>5. CASE Strip \/ AddRagged \/ AddTooLarge \/ AddFails
  BY <1>5, StripIInv, AddRaggedIInv, AddTooLargeIInv, AddFailsIInv
<1>6. CASE Hash \/ AppendVbmeta \/ AppendGap \/ AppendFooter \/ AppendLost
  BY <1>6, HashIInv, AppendVbmetaIInv, AppendGapIInv, AppendFooterIInv, AppendLostIInv
<1>7. CASE ResizeFails \/ MakeVbmeta \/ Include \/ IncludeLost \/ IncludeFails \/ Interrupt
  BY <1>7, ResizeFailsIInv, MakeVbmetaIInv, IncludesIInv, InterruptIInv
<1>8. CASE UNCHANGED vars
  BY <1>8, Zenon DEF IInv, Typed, Images, Originals, Running, Finished, vars
<1> QED BY <1>1, <1>2, <1>3, <1>4, <1>5, <1>6, <1>7, <1>8, Zenon DEF Next

\* IInv holds in every reachable state: every image starts with content and has
\* a footer at most in its last cell, what a footer and its struct say is true
\* of the cells before them, and every statement of a running command finds the
\* image as the statements before it left it.
THEOREM Inductive == Spec => []IInv
<1>1. Init => IInv
  BY InitIInv
<1>2. IInv /\ [Next]_vars => IInv'
  BY StepIInv
<1> QED BY <1>1, <1>2, PTL DEF Spec

-----------------------------------------------------------------------------
\* The theorems.

\* Every variable keeps its type and no image outgrows the largest partition or
\* input, whatever is written, cut, lost or interrupted.
THEOREM TypeCorrect == Spec => []TypeOK
<1>1. IInv => TypeOK
  <2> SUFFICES ASSUME IInv PROVE TypeOK
    OBVIOUS
  <2>1. Typed /\ Images /\ img \in [Parts -> Image] /\ DOMAIN img = Parts
    BY AtHand DEF IInv
  <2>2. ASSUME NEW p \in Parts
        PROVE  /\ Cells(p) \in Seq(Content \cup {"V", "F"})
               /\ img[p].vb \in Descs /\ img[p].ft \in [original : Nat, offset : Nat]
               /\ \/ \E k \in PartSizes \cup PadSizes : Size(p) <= k
                  \/ \E s \in Inputs : Size(p) <= Len(s)
    <3>1. Shaped(img[p])
      BY <2>1, Zenon DEF Images
    <3>2. img[p].cells \in Seq(Cell) /\ img[p].vb \in Descs /\ img[p].ft \in Footer
          /\ Bounded(Len(img[p].cells))
      BY <3>1, ShapedFacts
    <3> QED BY <3>2, Zenon DEF Cells, Size, Cell, Footer, Bounded
  <2>3. cmd.op \in {"pack", "add", "erase", "resize", "vbmeta"} /\ P \in Parts
        /\ cmd.size \in Nat /\ cmd.original \in Nat
    BY <2>1, Basics DEF P
  <2>4. src \in [Parts -> Seq(Content)]
    <3>1. src \in [Parts -> Seq(Content) \ {<<>>}]
      BY <2>1, Zenon DEF Typed
    <3> QED BY <3>1
  <2>5. /\ vbmeta \in {Empty} \cup [Parts -> Descs]
        /\ pc \in {"idle", "strip", "size", "vbmeta", "gap", "footer", "include"}
        /\ result \in {"ok", "error", "running", "interrupted"}
        /\ harm \in [Parts -> {"none", "cut", "lost"}]
        /\ faults \in 0 .. MaxFaults /\ stops \in 0 .. MaxStops
    BY <2>1, Zenon DEF Typed
  <2> QED BY <2>1, <2>2, <2>3, <2>4, <2>5, Zenon DEF TypeOK
<1> QED BY <1>1, Inductive, PTL

\* An image with a footer verifies unless a write got lost, for any number of
\* failed and interrupted commands before, and a command that succeeded made it
\* exactly as large as the partition.
THEOREM FootersRight == Spec => []FooterRight
<1>1. IInv => FooterRight
  <2> SUFFICES ASSUME IInv PROVE FooterRight
    OBVIOUS
  <2>1. Typed /\ Images /\ Finished /\ cmd.part \in Parts
    BY AtHand DEF IInv
  <2>2. ASSUME NEW p \in Parts, HasFooter(p), harm[p] # "lost"
        PROVE  /\ Size(p) % BlockSize = 0 /\ Parses(p)
               /\ img[p].ft.offset = RoundUp(img[p].vb.size)
               /\ img[p].ft.original = img[p].vb.size
               /\ SubSeq(Cells(p), 1, img[p].vb.size) = img[p].vb.digest
    <3> DEFINE r == img[p]
    <3>1. Shaped(r) /\ Good(r, harm[p])
      BY <2>1, Zenon DEF Images
    <3>2. Footed(r.cells)
      BY <2>2, <3>1, HasFooterIs
    <3>3. /\ r.ft.original = r.vb.size /\ r.ft.offset = RoundUp(r.vb.size)
          /\ r.ft.offset < Len(r.cells) /\ SubSeq(r.cells, 1, r.vb.size) = r.vb.digest
      BY <3>1, <3>2, FootedFacts
    <3>4. Struct(r)
      BY <2>2, <3>1, <3>2, Zenon DEF Good
    <3>5. r.cells[r.ft.offset + 1] = "V" /\ Len(r.cells) % BlockSize = 0
      BY <3>4, Zenon DEF Struct
    <3>6. Parses(p)
      BY <2>2, <3>3, <3>5 DEF Parses, Size, Cells
    <3> QED BY <3>3, <3>5, <3>6, Zenon DEF Size, Cells
  <2>3. ASSUME result = "ok", cmd.op \in {"add", "resize"}, harm[cmd.part] # "lost"
        PROVE  HasFooter(cmd.part) /\ Size(cmd.part) = cmd.size
    <3>1. Made(img[cmd.part], cmd, harm[cmd.part])
      BY <2>1, <2>3, Zenon DEF Finished
    <3>2. Footed(img[cmd.part].cells) /\ Len(img[cmd.part].cells) = cmd.size
      BY <2>3, <3>1, Zenon DEF Made
    <3>3. Shaped(img[cmd.part])
      BY <2>1, Zenon DEF Images
    <3>4. HasFooter(cmd.part)
      BY <3>2, <3>3, HasFooterIs
    <3> QED BY <3>2, <3>4, Zenon DEF Size, Cells
  <2> QED BY <2>2, <2>3, Zenon DEF FooterRight, P
<1> QED BY <1>1, Inductive, PTL

\* However often footers are added, moved, erased or fail to be added, the
\* packed image can be had back exactly, unless a command was cut short or a
\* write got lost.
THEOREM OriginalsKept == Spec => []OriginalKept
<1>1. IInv => OriginalKept
  <2> SUFFICES ASSUME IInv, pc = "idle", NEW p \in Parts, harm[p] = "none"
               PROVE  IF HasFooter(p)
                      THEN /\ img[p].ft.original = Len(src[p])
                           /\ SubSeq(Cells(p), 1, Len(src[p])) = src[p]
                      ELSE Cells(p) = src[p]
    BY Zenon DEF OriginalKept
  <2>1. pc \notin Open
    BY DEF Open
  <2>2. Kept(img[p], src[p]) /\ Shaped(img[p])
    BY <2>1, Zenon DEF IInv, Originals, Images
  <2>3. HasFooter(p) <=> Footed(img[p].cells)
    BY <2>2, HasFooterIs
  <2> QED BY <2>2, <2>3, Zenon DEF Kept, Cells
<1> QED BY <1>1, Inductive, PTL

-----------------------------------------------------------------------------
\* Whatever happened to it, an image starts with all that was packed: a second
\* invariant, on top of the first.

Begins(c, s) == Len(s) <= Len(c) /\ \A i \in 1 .. Len(s) : c[i] = s[i]

\* A footer leaves the packed content alone.
Holds(r, s) == Begins(r.cells, s) /\ (Footed(r.cells) => Len(s) <= r.ft.original)

Tried == {"size", "vbmeta", "gap", "footer"}

Prefixed ==
  /\ \A p \in Parts : Holds(img[p], src[p])
  /\ cmd.op = "add" /\ pc \in Tried => Len(src[cmd.part]) <= cmd.original
  /\ pc \in {"gap", "footer"} => Len(src[cmd.part]) <= img[cmd.part].ft.original

LEMMA BeginsResized ==
  ASSUME NEW c \in Seq(Cell), NEW s \in Seq(Content), NEW k \in Nat, Begins(c, s), Len(s) <= k
  PROVE  Begins(Resized(c, k), s)
<1>1. /\ Len(Resized(c, k)) = k
      /\ \A i \in 1..k : Resized(c, k)[i] = IF i <= Len(c) THEN c[i] ELSE "0"
  BY ResizedFacts
<1>2. Len(c) \in Nat /\ Len(s) \in Nat
  OBVIOUS
<1>3. ASSUME NEW i \in 1 .. Len(s) PROVE Resized(c, k)[i] = s[i]
  <2>1. i \in 1..k /\ i <= Len(c) /\ c[i] = s[i]
    BY <1>2 DEF Begins
  <2> QED BY <1>1, <2>1
<1> QED BY <1>1, <1>3 DEF Begins

LEMMA BeginsJoined ==
  ASSUME NEW c \in Seq(Cell), NEW s \in Seq(Content), NEW t \in Seq(Cell), Begins(c, s)
  PROVE  Begins(c \o t, s)
<1>1. Len(c) \in Nat /\ Len(s) \in Nat /\ Len(t) \in Nat /\ Len(c \o t) = Len(c) + Len(t)
  OBVIOUS
<1>2. ASSUME NEW i \in 1 .. Len(s) PROVE (c \o t)[i] = s[i]
  <2>1. i \in 1..Len(c) /\ c[i] = s[i]
    BY <1>1 DEF Begins
  <2>2. (c \o t)[i] = c[i]
    BY <2>1
  <2> QED BY <2>1, <2>2
<1> QED BY <1>1, <1>2 DEF Begins

\* The descriptor of an image with a footer is at least of what was packed.
LEMMA DescBegins ==
  ASSUME NEW r, NEW h, NEW s \in Seq(Content), Shaped(r), Good(r, h), Footed(r.cells), Holds(r, s)
  PROVE  /\ r.vb.size = Len(r.vb.digest) /\ Len(s) <= r.vb.size
         /\ SubSeq(r.vb.digest, 1, Len(s)) = s
<1>1. /\ r.ft.original = r.vb.size /\ SubSeq(r.cells, 1, r.vb.size) = r.vb.digest
      /\ r.vb.size >= 1
  BY FootedFacts
<1>2. Len(s) <= r.vb.size /\ Begins(r.cells, s)
  BY <1>1 DEF Holds
<1>3. r.cells \in Seq(Cell) /\ Len(r.cells) \in Nat /\ r.vb.size \in Nat /\ Len(s) \in Nat
  BY ShapedFacts
<1>4. r.vb.size <= Len(r.cells)
  BY Zenon DEF Good, Described
<1>5. Len(r.vb.digest) = r.vb.size /\ \A i \in 1 .. r.vb.size : r.vb.digest[i] = r.cells[i]
  <2>1. r.vb.digest = SubSeq(r.cells, 1, r.vb.size)
    BY <1>1
  <2> QED BY <1>3, <1>4, <2>1
<1>6. \A i \in 1 .. Len(s) : r.vb.digest[i] = s[i]
  BY <1>2, <1>3, <1>5 DEF Begins
<1>7. r.vb.digest \in Seq(Cell)
  BY ShapedFacts DEF Descs, Cell
<1>8. SubSeq(r.vb.digest, 1, Len(s)) = s
  BY <1>2, <1>3, <1>5, <1>6, <1>7
<1> QED BY <1>2, <1>5, <1>8

\* A step leaves the other images alone.
LEMMA OtherHolds ==
  ASSUME Prefixed, NEW p \in Parts, src' = src, \A x \in Parts : x # p => img'[x] = img[x],
         Holds(img'[p], src[p])
  PROVE  \A x \in Parts : Holds(img'[x], src'[x])
<1> SUFFICES ASSUME NEW x \in Parts PROVE Holds(img'[x], src[x])
  OBVIOUS
<1>1. Holds(img[x], src[x])
  BY DEF Prefixed
<1> QED BY <1>1, Zenon

\* Truncating back to something at least as long as what was packed.
LEMMA RestoreHolds ==
  ASSUME IInv, IInv', Prefixed, NEW p \in Parts, NEW k \in Nat, Len(src[p]) <= k,
         Restore(p, k), src' = src
  PROVE  \A x \in Parts : Holds(img'[x], src'[x])
<1> DEFINE e == Resized(img[p].cells, k)
<1>1. /\ img \in [Parts -> Image] /\ img[p].cells \in Seq(Cell) /\ src[p] \in Seq(Content)
      /\ Begins(img[p].cells, src[p])
  <2>1. Typed /\ Images
    BY DEF IInv
  <2>2. img \in [Parts -> Image] /\ img[p].cells \in Seq(Cell)
    BY <2>1, Basics
  <2>3. src \in [Parts -> Seq(Content) \ {<<>>}]
    BY <2>1, Zenon DEF Typed
  <2>4. Begins(img[p].cells, src[p])
    BY Zenon DEF Prefixed, Holds
  <2> QED BY <2>2, <2>3, <2>4
<1>2. e \in Seq(Cell) /\ Begins(e, src[p])
  BY <1>1, BeginsResized, ResizedFacts
<1>3. img' = [img EXCEPT ![p] = [cells |-> e, vb |-> NoDesc, ft |-> NoFooter]]
  BY DEF Restore, Cells
<1> HIDE DEF e
<1>4. img'[p] = Plain(e) /\ \A x \in Parts : x # p => img'[x] = img[x]
  BY <1>1, <1>2, <1>3, EditPlain
<1>5. Good(img'[p], harm'[p])
  BY Zenon DEF IInv, Images
<1>6. img'[p].cells = e /\ img'[p].vb.size = 0
  BY <1>4 DEF Plain, NoDesc
<1>7. ~Footed(img'[p].cells)
  <2>1. Footed(img'[p].cells) => img'[p].vb.size >= 1
    BY <1>5, Zenon DEF Good, Described
  <2> QED BY <1>6, <2>1
<1>8. Holds(img'[p], src[p])
  BY <1>2, <1>6, <1>7 DEF Holds
<1> QED BY <1>4, <1>8, OtherHolds

\* Appending, with a footer that leaves what was packed alone.
LEMMA AppendHolds ==
  ASSUME IInv, Prefixed, NEW p \in Parts, NEW t \in Seq(Cell), src' = src,
         \A x \in Parts : x # p => img'[x] = img[x],
         img'[p].cells = img[p].cells \o t, Len(src[p]) <= img'[p].ft.original
  PROVE  \A x \in Parts : Holds(img'[x], src'[x])
<1>1. Typed /\ Images
  BY DEF IInv
<1>2. img[p].cells \in Seq(Cell)
  BY <1>1, Basics
<1>3. src \in [Parts -> Seq(Content) \ {<<>>}]
  BY <1>1, Zenon DEF Typed
<1>4. Begins(img[p].cells, src[p])
  BY Zenon DEF Prefixed, Holds
<1>5. Begins(img'[p].cells, src[p])
  BY <1>2, <1>3, <1>4, BeginsJoined
<1>6. Holds(img'[p], src[p])
  BY <1>5 DEF Holds
<1> QED BY <1>6, OtherHolds

\* A step that touches no image, and starts no statement that appends.
LEMMA SamePrefixed ==
  ASSUME Prefixed, img' = img, src' = src, pc' \notin Tried
  PROVE  Prefixed'
<1>1. pc' \notin {"gap", "footer"}
  BY DEF Tried
<1>2. \A p \in Parts : Holds(img'[p], src'[p])
  BY Zenon DEF Prefixed
<1> QED BY <1>1, <1>2, Zenon DEF Prefixed

\* A step after which the command is not at a statement that appends.
LEMMA EndPrefixed ==
  ASSUME \A x \in Parts : Holds(img'[x], src'[x]), pc' \notin Tried
  PROVE  Prefixed'
<1>1. pc' \notin {"gap", "footer"}
  BY DEF Tried
<1> QED BY <1>1, Zenon DEF Prefixed

LEMMA StripPrefixed ==
  ASSUME IInv, IInv', Prefixed, Strip
  PROVE  Prefixed'
<1>1. PICK p \in Parts : p = cmd.part
  BY AtHand
<1>2. /\ cmd \in Cmds /\ Shaped(img[p]) /\ img[p].ft.original \in Nat /\ Len(img[p].cells) \in Nat
  BY <1>1, AtHand, ShapedFacts
<1>3. /\ pc' = "size" /\ src' = src
      /\ Holds(img[p], src[p])
  BY <1>1, Zenon DEF Strip, Goto, Prefixed
<1>4. /\ \A x \in Parts : Holds(img'[x], src'[x])
      /\ cmd'.part = p /\ Len(src[p]) <= cmd'.original
  <2>1. CASE HasFooter(p)
    <3>1. Restore(p, img[p].ft.original) /\ cmd' = [cmd EXCEPT !.original = img[p].ft.original]
      BY <1>1, <2>1 DEF Strip, P
    <3>2. Len(src[p]) <= img[p].ft.original
      BY <1>2, <1>3, <2>1, HasFooterIs DEF Holds
    <3>3. \A x \in Parts : Holds(img'[x], src'[x])
      BY <1>2, <1>3, <3>1, <3>2, RestoreHolds
    <3> QED BY <1>1, <1>2, <3>1, <3>2, <3>3, SameCmd
  <2>2. CASE ~HasFooter(p)
    <3>1. img' = img /\ cmd' = [cmd EXCEPT !.original = Len(img[p].cells)]
      BY <1>1, <2>2 DEF Strip, P, Size, Cells
    <3>2. Len(src[p]) <= Len(img[p].cells)
      BY <1>3, Zenon DEF Holds, Begins
    <3>3. \A x \in Parts : Holds(img'[x], src'[x])
      BY <1>3, <3>1, Zenon DEF Prefixed
    <3> QED BY <1>1, <1>2, <3>1, <3>2, <3>3, SameCmd
  <2> QED BY <2>1, <2>2
<1>5. pc' \notin {"gap", "footer"}
  BY <1>3
<1> QED BY <1>3, <1>4, <1>5, Zenon DEF Prefixed

LEMMA PackPrefixed ==
  ASSUME IInv, IInv', Prefixed, NEW p \in Parts, NEW t \in Inputs,
         NEW k \in PadSizes \cup {Len(t)}, Pack(p, t, k)
  PROVE  Prefixed'
<1> DEFINE e == Resized(t, k)
<1>1. /\ pc = "idle" /\ pc' = "idle" /\ src' = [src EXCEPT ![p] = e]
      /\ img' = [img EXCEPT ![p] = [cells |-> e, vb |-> NoDesc, ft |-> NoFooter]]
  BY DEF Pack
<1>2. img \in [Parts -> Image] /\ src \in [Parts -> Seq(Content) \ {<<>>}]
  BY Zenon DEF IInv, Typed
<1>3. e \in Seq(Content) \ {<<>>} /\ ~Footed(Plain(e).cells) /\ Plain(e).cells = e
  <2>1. e \in Seq(Content) \ {<<>>}
    BY Packed
  <2> HIDE DEF e
  <2>2. e[Len(e)] \in Content
    BY <2>1
  <2>3. ~Footed(e)
    BY <2>2 DEF Footed, Content
  <2> QED BY <2>1, <2>3 DEF Plain
<1> HIDE DEF e
<1>4. /\ img'[p] = Plain(e) /\ \A x \in Parts : x # p => img'[x] = img[x]
      /\ src'[p] = e /\ \A x \in Parts : x # p => src'[x] = src[x]
  BY <1>1, <1>2, <1>3 DEF Plain
<1>5. Holds(img'[p], src'[p])
  <2>1. Begins(e, e)
    BY <1>3 DEF Begins
  <2> QED BY <1>3, <1>4, <2>1, Zenon DEF Holds
<1>6. ASSUME NEW x \in Parts PROVE Holds(img'[x], src'[x])
  BY <1>4, <1>5, Zenon DEF Prefixed
<1>7. pc' \notin Tried
  BY <1>1 DEF Tried
<1> QED BY <1>6, <1>7, EndPrefixed

LEMMA ErasePrefixed ==
  ASSUME IInv, IInv', Prefixed, NEW p \in Parts, EraseFooter(p)
  PROVE  Prefixed'
<1>1. pc' = "idle" /\ src' = src
  BY DEF EraseFooter, Call
<1>2. pc' \notin Tried
  BY <1>1 DEF Tried
<1>3. CASE img' = img
  BY <1>1, <1>2, <1>3, SamePrefixed
<1>4. CASE HasFooter(p) /\ Restore(p, img[p].ft.original)
  <2>1. Shaped(img[p]) /\ img[p].ft.original \in Nat
    BY ShapedFacts, Zenon DEF IInv, Images
  <2>2. Len(src[p]) <= img[p].ft.original
    BY <1>4, <2>1, HasFooterIs, Zenon DEF Prefixed, Holds
  <2>3. \A x \in Parts : Holds(img'[x], src'[x])
    BY <1>1, <1>4, <2>1, <2>2, RestoreHolds
  <2> QED BY <1>2, <2>3, EndPrefixed
<1> QED BY <1>3, <1>4 DEF EraseFooter

LEMMA ResizePrefixed ==
  ASSUME IInv, IInv', Prefixed, NEW p \in Parts, NEW k \in PartSizes, Resize(p, k)
  PROVE  Prefixed'
<1> DEFINE n == RoundUp(img[p].ft.offset + VbSize)
           e == Resized(img[p].cells, n)
<1>1. /\ HasFooter(p) /\ SetCells(p, e) /\ pc = "idle" /\ pc' = "gap" /\ src' = src
      /\ cmd' = [op |-> "resize", part |-> p, size |-> k, original |-> 0]
  BY DEF Resize, CanResize, Truncate, VbmetaEnd, Cells, Call
<1>2. Typed /\ Images /\ Typed'
  BY DEF IInv
<1>3. /\ img \in [Parts -> Image] /\ Shaped(img[p]) /\ Good(img[p], harm[p])
      /\ img[p].cells \in Seq(Cell) /\ img[p].ft.offset \in Nat /\ img[p].ft.original \in Nat
      /\ src \in [Parts -> Seq(Content) \ {<<>>}]
  <2>1. src \in [Parts -> Seq(Content) \ {<<>>}]
    BY <1>2, Zenon DEF Typed
  <2> QED BY <1>2, <2>1, Basics, ShapedFacts
<1>4. Footed(img[p].cells)
  BY <1>1, <1>3, HasFooterIs
<1>5. Holds(img[p], src[p])
  BY Zenon DEF Prefixed
<1>6. Len(src[p]) <= img[p].ft.original /\ Begins(img[p].cells, src[p])
  BY <1>4, <1>5 DEF Holds
<1>7. img[p].ft.original <= img[p].ft.offset
  BY <1>3, <1>4, FootedFacts
<1>8. n \in Nat /\ img[p].ft.offset <= n
  <2>1. VbSize \in Nat /\ img[p].ft.offset + VbSize \in Nat
    BY <1>3, Constants
  <2>2. n \in Nat /\ n >= img[p].ft.offset + VbSize
    BY <2>1, RoundUpFacts
  <2> HIDE DEF n
  <2> QED BY <1>3, <2>1, <2>2
<1>9. e \in Seq(Cell) /\ Begins(e, src[p])
  <2> HIDE DEF n
  <2>1. Len(src[p]) <= n /\ src[p] \in Seq(Content)
    BY <1>3, <1>6, <1>7, <1>8
  <2> QED BY <1>3, <1>6, <1>8, <2>1, BeginsResized, ResizedFacts
<1> HIDE DEF e
<1>10. /\ img'[p].cells = e /\ img'[p].ft = img[p].ft
       /\ \A x \in Parts : x # p => img'[x] = img[x]
  BY <1>1, <1>3, <1>9, EditCells
<1>11. \A x \in Parts : Holds(img'[x], src'[x])
  <2>1. Holds(img'[p], src[p])
    BY <1>6, <1>9, <1>10 DEF Holds
  <2> QED BY <1>1, <1>10, <2>1, OtherHolds
<1>12. cmd'.part = p /\ cmd'.op = "resize"
  BY <1>1
<1>13. cmd'.op # "add" /\ Len(src'[cmd'.part]) <= img'[cmd'.part].ft.original
  BY <1>1, <1>6, <1>10, <1>12
<1> QED BY <1>11, <1>13, Zenon DEF Prefixed

\* A statement of a running command that appends to its image.
LEMMA GoesPrefixed ==
  ASSUME IInv', Prefixed, NEW p \in Parts, p = cmd.part, src' = src, cmd' = cmd,
         \A x \in Parts : x # p => img'[x] = img[x],
         Begins(img'[p].cells, src[p]), pc \in Tried, pc' \in Open,
         pc' \in {"gap", "footer"} => Len(src[p]) <= img'[p].ft.original
  PROVE  Prefixed'
<1>1. pc' = "vbmeta" \/ pc' = "gap" \/ pc' = "footer"
  BY DEF Open
<1>2. ~Footed(img'[p].cells)
  <2>1. Busy(pc', img'[p], cmd', harm'[p], src'[p])
    BY Zenon DEF IInv, Running
  <2> QED BY <1>1, <2>1, Zenon DEF Busy, AtVbmeta, AtGap, AtFooter, Appending
<1>3. \A x \in Parts : Holds(img'[x], src'[x])
  <2>1. Holds(img'[p], src[p])
    BY <1>2, Zenon DEF Holds
  <2> QED BY <2>1, OtherHolds
<1>4. cmd'.op = "add" /\ pc' \in Tried => Len(src'[cmd'.part]) <= cmd'.original
  BY Zenon DEF Prefixed
<1> QED BY <1>3, <1>4, Zenon DEF Prefixed

\* What a command that appends has at hand.
LEMMA TriedFacts ==
  ASSUME IInv, Prefixed, NEW p, p = cmd.part
  PROVE  /\ p \in Parts /\ img \in [Parts -> Image] /\ cmd.original \in Nat /\ cmd.size \in Nat
         /\ src[p] \in Seq(Content) /\ img[p] \in Image /\ img[p].cells \in Seq(Cell)
         /\ Len(img[p].cells) \in Nat /\ img[p].ft.offset \in Nat
         /\ Begins(img[p].cells, src[p]) /\ Len(src[p]) <= Len(img[p].cells)
<1>1. /\ p \in Parts /\ img \in [Parts -> Image] /\ cmd.original \in Nat /\ cmd.size \in Nat
      /\ img[p] \in Image /\ img[p].cells \in Seq(Cell)
  BY AtHand
<1>2. Len(img[p].cells) \in Nat /\ img[p].ft.offset \in Nat
  BY <1>1, ImageFacts
<1>3. src[p] \in Seq(Content)
  <2>1. src \in [Parts -> Seq(Content) \ {<<>>}]
    BY Zenon DEF IInv, Typed
  <2> QED BY <1>1, <2>1
<1>4. Begins(img[p].cells, src[p]) /\ Len(src[p]) <= Len(img[p].cells)
  BY <1>1, Zenon DEF Prefixed, Holds, Begins
<1> QED BY <1>1, <1>2, <1>3, <1>4

LEMMA HashPrefixed ==
  ASSUME IInv, IInv', Prefixed, Hash
  PROVE  Prefixed'
<1>1. PICK p : p = cmd.part
  OBVIOUS
<1> DEFINE r == img[p]
           n == Len(r.cells)
           e == Resized(r.cells, RoundUp(n))
           q == [r EXCEPT !.cells = e, !.vb = [size |-> n, digest |-> r.cells]]
<1>2. /\ pc = "size" /\ pc' = "vbmeta" /\ cmd' = cmd /\ src' = src
      /\ img' = [img EXCEPT ![p].cells = Resized(@, RoundUp(n)),
                            ![p].vb = [size |-> n, digest |-> r.cells]]
  BY <1>1 DEF Hash, Goto, Size, Cells, P
<1>3. /\ p \in Parts /\ img \in [Parts -> Image] /\ r \in Image /\ r.cells \in Seq(Cell)
      /\ n \in Nat /\ src[p] \in Seq(Content) /\ Begins(r.cells, src[p]) /\ Len(src[p]) <= n
  BY <1>1, TriedFacts
<1>4. Begins(e, src[p])
  <2>1. RoundUp(n) \in Nat /\ RoundUp(n) >= n
    BY <1>3, RoundUpFacts
  <2>2. Len(src[p]) <= RoundUp(n)
    BY <1>3, <2>1
  <2> HIDE DEF r
  <2> QED BY <1>3, <2>1, <2>2, BeginsResized
<1> HIDE DEF e
<1>5. q.cells = e
  BY <1>3 DEF Image
<1>6. img' = [img EXCEPT ![p] = q]
  BY <1>2, <1>3 DEF e
<1> HIDE DEF q
<1>7. img'[p].cells = e /\ \A x \in Parts : x # p => img'[x] = img[x]
  BY <1>3, <1>5, <1>6
<1>8. pc \in Tried /\ pc' \in Open /\ pc' \notin {"gap", "footer"}
  BY <1>2 DEF Tried, Open
<1> QED BY <1>1, <1>2, <1>3, <1>4, <1>7, <1>8, GoesPrefixed

LEMMA AppendVbmetaPrefixed ==
  ASSUME IInv, IInv', Prefixed, AppendVbmeta
  PROVE  Prefixed'
<1>1. PICK p : p = cmd.part
  OBVIOUS
<1> DEFINE r == img[p]
           t == VbmetaBlob \o Zeros(RoundUp(VbSize) - VbSize)
           f == [original |-> cmd.original, offset |-> Len(r.cells)]
           e == r.cells \o VbmetaBlob \o Zeros(RoundUp(VbSize) - VbSize)
           q == [r EXCEPT !.cells = e, !.ft = f]
<1>2. /\ pc = "vbmeta" /\ pc' = "gap" /\ cmd' = cmd /\ src' = src
      /\ img' = [img EXCEPT ![p].cells = @ \o VbmetaBlob \o Zeros(RoundUp(VbSize) - VbSize),
                            ![p].ft = f]
  BY <1>1 DEF AppendVbmeta, Goto, Size, Cells, P
<1>3. /\ p \in Parts /\ img \in [Parts -> Image] /\ r \in Image /\ r.cells \in Seq(Cell)
      /\ src[p] \in Seq(Content) /\ Begins(r.cells, src[p])
  BY <1>1, TriedFacts
<1>4. Begins(e, src[p])
  <2>1. Zeros(RoundUp(VbSize) - VbSize) \in Seq(Cell)
    <3>1. RoundUp(VbSize) - VbSize \in Int
      BY StructSize
    <3> QED BY <3>1, ZerosFacts, CellSeq
  <2>2. VbmetaBlob \in Seq(Cell)
    BY BlobFacts
  <2>3. r.cells \o VbmetaBlob \in Seq(Cell)
    BY <1>3, <2>2, JoinFacts
  <2> HIDE DEF r
  <2>4. Begins(r.cells \o VbmetaBlob, src[p])
    BY <1>3, <2>2, BeginsJoined
  <2> QED BY <1>3, <2>1, <2>3, <2>4, BeginsJoined
<1>5. f.original = cmd.original
  OBVIOUS
<1> HIDE DEF e, f
<1>6. q.cells = e /\ q.ft = f
  BY <1>3 DEF Image
<1>7. img' = [img EXCEPT ![p] = q]
  BY <1>2, <1>3 DEF e
<1> HIDE DEF q
<1>8. img'[p].cells = e /\ img'[p].ft = f /\ \A x \in Parts : x # p => img'[x] = img[x]
  BY <1>3, <1>6, <1>7
<1>9. pc \in Tried /\ pc' \in Open
  BY <1>2 DEF Tried, Open
<1>10. Len(src[p]) <= cmd.original
  <2>1. AtVbmeta(img[cmd.part], cmd, harm[cmd.part], src[cmd.part])
    BY <1>2, AtHand, Found
  <2> QED BY <1>1, <1>9, <2>1, Zenon DEF Prefixed, AtVbmeta
<1>11. Len(src[p]) <= img'[p].ft.original
  BY <1>5, <1>8, <1>10
<1> QED BY <1>1, <1>2, <1>3, <1>4, <1>8, <1>9, <1>11, GoesPrefixed

LEMMA AppendGapPrefixed ==
  ASSUME IInv, IInv', Prefixed, AppendGap
  PROVE  Prefixed'
<1>1. PICK p : p = cmd.part
  OBVIOUS
<1> DEFINE r == img[p]
           m == cmd.size - RoundUp(r.ft.offset + VbSize) - BlockSize
           e == r.cells \o Zeros(m)
<1>2. pc = "gap" /\ pc' = "footer" /\ cmd' = cmd /\ src' = src /\ SetCells(p, e)
  BY <1>1 DEF AppendGap, Goto, VbmetaEnd, Cells, P
<1>3. /\ p \in Parts /\ img \in [Parts -> Image] /\ r \in Image /\ r.cells \in Seq(Cell)
      /\ src[p] \in Seq(Content) /\ Begins(r.cells, src[p]) /\ cmd.size \in Nat
      /\ r.ft.offset \in Nat
  BY <1>1, TriedFacts
<1>4. Zeros(m) \in Seq(Cell)
  <2>1. RoundUp(r.ft.offset + VbSize) \in Nat /\ BlockSize \in Nat
    <3>1. r.ft.offset + VbSize \in Nat
      BY <1>3, Constants
    <3> QED BY <3>1, RoundUpFacts, Constants
  <2>2. m \in Int
    BY <1>3, <2>1
  <2> QED BY <2>2, ZerosFacts, CellSeq
<1>5. e \in Seq(Cell) /\ Begins(e, src[p])
  <2> HIDE DEF m, r
  <2> QED BY <1>3, <1>4, BeginsJoined, JoinFacts
<1> HIDE DEF e
<1>6. /\ img'[p].cells = e /\ img'[p].ft = r.ft
      /\ \A x \in Parts : x # p => img'[x] = img[x]
  BY <1>2, <1>3, <1>5, EditCells
<1>7. pc \in Tried /\ pc' \in Open
  BY <1>2 DEF Tried, Open
<1>8. Len(src[p]) <= img'[p].ft.original
  <2>1. pc \in {"gap", "footer"}
    BY <1>2
  <2>2. Len(src[cmd.part]) <= img[cmd.part].ft.original
    BY <2>1, Zenon DEF Prefixed
  <2> QED BY <1>1, <1>6, <2>2
<1> QED BY <1>1, <1>2, <1>3, <1>5, <1>6, <1>7, <1>8, GoesPrefixed

LEMMA AppendFooterPrefixed ==
  ASSUME IInv, IInv', Prefixed, AppendFooter
  PROVE  Prefixed'
<1>1. PICK p : p = cmd.part
  OBVIOUS
<1> DEFINE r == img[p]
           z == Zeros(BlockSize - 1)
           e == r.cells \o z \o <<"F">>
<1>2. pc = "footer" /\ pc' = "idle" /\ src' = src /\ SetCells(p, e)
  BY <1>1 DEF AppendFooter, Return, Cells, P
<1>3. /\ p \in Parts /\ img \in [Parts -> Image] /\ r \in Image /\ r.cells \in Seq(Cell)
      /\ src[p] \in Seq(Content) /\ Begins(r.cells, src[p])
  BY <1>1, TriedFacts
<1>4. z \in Seq(Cell)
  <2>1. BlockSize - 1 \in Int
    BY Constants
  <2> QED BY <2>1, ZerosFacts, CellSeq
<1>5. e \in Seq(Cell) /\ Begins(e, src[p])
  <2> HIDE DEF z, r
  <2>1. <<"F">> \in Seq(Cell)
    BY DEF Cell
  <2>2. r.cells \o z \in Seq(Cell) /\ Begins(r.cells \o z, src[p])
    BY <1>3, <1>4, BeginsJoined, JoinFacts
  <2> QED BY <1>3, <2>1, <2>2, BeginsJoined, JoinFacts
<1> HIDE DEF e
<1>6. /\ img'[p].cells = e /\ img'[p].ft = r.ft
      /\ \A x \in Parts : x # p => img'[x] = img[x]
  BY <1>2, <1>3, <1>5, EditCells
<1>7. Len(src[p]) <= img'[p].ft.original
  <2>1. pc \in {"gap", "footer"}
    BY <1>2
  <2>2. Len(src[cmd.part]) <= img[cmd.part].ft.original
    BY <2>1, Zenon DEF Prefixed
  <2> QED BY <1>1, <1>6, <2>2
<1>8. Holds(img'[p], src[p])
  BY <1>5, <1>6, <1>7 DEF Holds
<1>9. \A x \in Parts : Holds(img'[x], src'[x])
  BY <1>2, <1>3, <1>6, <1>8, OtherHolds
<1>10. pc' \notin Tried
  BY <1>2 DEF Tried
<1> QED BY <1>9, <1>10, EndPrefixed

LEMMA AppendLostPrefixed ==
  ASSUME IInv, IInv', Prefixed, AppendLost
  PROVE  Prefixed'
<1>1. PICK p : p = cmd.part
  OBVIOUS
<1> DEFINE r == img[p]
           f == [original |-> cmd.original, offset |-> Len(r.cells)]
           q == [r EXCEPT !.ft = f]
<1>2. src' = src
  BY DEF AppendLost
<1>3. CASE pc = "vbmeta" /\ pc' = "gap" /\ cmd' = cmd /\ img' = [img EXCEPT ![p].ft = f]
  <2>1. /\ p \in Parts /\ img \in [Parts -> Image] /\ r \in Image /\ Begins(r.cells, src[p])
    BY <1>1, TriedFacts
  <2>2. f.original = cmd.original
    OBVIOUS
  <2> HIDE DEF f
  <2>3. q.cells = r.cells /\ q.ft = f
    BY <2>1 DEF Image
  <2>4. img' = [img EXCEPT ![p] = q]
    BY <1>3, <2>1
  <2> HIDE DEF q
  <2>5. img'[p].cells = r.cells /\ img'[p].ft = f /\ \A x \in Parts : x # p => img'[x] = img[x]
    BY <2>1, <2>3, <2>4
  <2>6. pc \in Tried /\ pc' \in Open
    BY <1>3 DEF Tried, Open
  <2>7. Len(src[p]) <= cmd.original
    <3>1. AtVbmeta(img[cmd.part], cmd, harm[cmd.part], src[cmd.part])
      BY <1>3, AtHand, Found
    <3> QED BY <1>1, <2>6, <3>1, Zenon DEF Prefixed, AtVbmeta
  <2>8. Len(src[p]) <= img'[p].ft.original /\ Begins(img'[p].cells, src[p])
    BY <2>1, <2>2, <2>5, <2>7
  <2> QED BY <1>1, <1>2, <1>3, <2>1, <2>5, <2>6, <2>8, GoesPrefixed
<1>4. CASE pc' = "idle" /\ img' = img
  <2>1. pc' \notin Tried
    BY <1>4 DEF Tried
  <2> QED BY <1>2, <1>4, <2>1, SamePrefixed
<1> QED BY <1>1, <1>3, <1>4 DEF AppendLost, P, Size, Cells

LEMMA RevertsPrefixed ==
  ASSUME IInv, IInv', Prefixed, AddTooLarge \/ AddFails
  PROVE  Prefixed'
<1>1. PICK p : p = cmd.part
  OBVIOUS
<1>2. Restore(p, cmd.original) /\ src' = src /\ pc' = "idle" /\ pc \in Tried
  BY <1>1 DEF AddTooLarge, AddFails, Return, P, InTry, Tried
<1>3. p \in Parts /\ cmd.original \in Nat
  BY <1>1, TriedFacts
<1>4. cmd.op = "add"
  <2>1. CASE AddTooLarge
    <3>1. AtSize(img[cmd.part], cmd)
      BY <2>1, AtHand, Found DEF AddTooLarge
    <3> QED BY <3>1, Zenon DEF AtSize, AtStrip
  <2>2. CASE AddFails
    BY <2>2 DEF AddFails, InTry
  <2> QED BY <2>1, <2>2
<1>5. Len(src[p]) <= cmd.original
  BY <1>1, <1>2, <1>4, Zenon DEF Prefixed
<1>6. \A x \in Parts : Holds(img'[x], src'[x])
  BY <1>2, <1>3, <1>5, RestoreHolds
<1>7. pc' \notin Tried
  BY <1>2 DEF Tried
<1> QED BY <1>6, <1>7, EndPrefixed

LEMMA StepPrefixed ==
  ASSUME IInv, Prefixed, [Next]_vars
  PROVE  Prefixed'
<1>1. IInv'
  BY StepIInv
<1>2. ASSUME NEW p \in Parts, NEW t \in Inputs, NEW k \in PadSizes \cup {Len(t)}, Pack(p, t, k)
      PROVE  Prefixed'
  BY <1>1, <1>2, PackPrefixed
<1>3. ASSUME NEW p \in Parts, NEW k \in PartSizes,
             Add(p, k) \/ AddTooSmall(p, k) \/ ResizeRefused(p, k)
      PROVE  Prefixed'
  <2>1. img' = img /\ src' = src /\ pc' \notin Tried
    BY <1>3 DEF Add, AddTooSmall, ResizeRefused, Call, Tried
  <2> QED BY <2>1, SamePrefixed
<1>4. ASSUME NEW p \in Parts, NEW k \in PartSizes, Resize(p, k) PROVE Prefixed'
  BY <1>1, <1>4, ResizePrefixed
<1>5. ASSUME NEW p \in Parts, EraseFooter(p) PROVE Prefixed'
  BY <1>1, <1>5, ErasePrefixed
<1>6. CASE Strip \/ AddTooLarge \/ AddFails
  BY <1>1, <1>6, StripPrefixed, RevertsPrefixed
<1>7. CASE Hash \/ AppendVbmeta \/ AppendGap \/ AppendFooter \/ AppendLost
  BY <1>1, <1>7, HashPrefixed, AppendVbmetaPrefixed, AppendGapPrefixed, AppendFooterPrefixed,
     AppendLostPrefixed
<1>8. CASE \/ AddRagged \/ ResizeFails \/ MakeVbmeta \/ Include \/ IncludeLost \/ IncludeFails
           \/ Interrupt
  <2>1. img' = img /\ src' = src /\ pc' \notin Tried
    BY <1>8 DEF AddRagged, ResizeFails, MakeVbmeta, Include, IncludeLost, IncludeFails, Interrupt,
                Return, Call, Tried
  <2> QED BY <2>1, SamePrefixed
<1>9. CASE UNCHANGED vars
  BY <1>9, Zenon DEF Prefixed, vars
<1> QED BY <1>2, <1>3, <1>4, <1>5, <1>6, <1>7, <1>8, <1>9, Zenon DEF Next

\* Every image starts with all that was packed into it, whatever was cut short
\* or lost, and no footer says to cut into that.
THEOREM ContentKept == Spec => []Prefixed
<1>1. Init => Prefixed
  <2> SUFFICES ASSUME Init PROVE Prefixed
    OBVIOUS
  <2>1. pc = "idle" /\ IInv
    BY InitIInv DEF Init
  <2>2. pc \notin Tried /\ pc \notin {"gap", "footer"}
    BY <2>1 DEF Tried
  <2>3. ASSUME NEW p \in Parts PROVE Holds(img[p], src[p])
    <3>1. img[p].cells = src[p] /\ src[p] \in Seq(Content) \ {<<>>}
      <4>1. src \in [Parts -> Seq(Content) \ {<<>>}]
        BY <2>1, Zenon DEF IInv, Typed
      <4>2. img[p].cells = src[p]
        BY DEF Init
      <4> QED BY <4>1, <4>2
    <3>2. Begins(src[p], src[p])
      BY <3>1 DEF Begins
    <3>3. src[p][Len(src[p])] \in Content
      BY <3>1
    <3>4. ~Footed(src[p])
      BY <3>3 DEF Footed, Content
    <3> QED BY <3>1, <3>2, <3>4 DEF Holds
  <2> QED BY <2>2, <2>3, Zenon DEF Prefixed
<1>2. IInv /\ Prefixed /\ [Next]_vars => Prefixed'
  BY StepPrefixed
<1> QED BY <1>1, <1>2, Inductive, PTL DEF Spec

\* make_vbmeta_image either leaves an empty vbmeta.img or one that describes
\* every image in place: a digest starts with all that was packed, also when
\* commands on that image were cut short or lost a write, and is of exactly
\* that when none was.
THEOREM PackedDescribed == Spec => DescribesPacked
<1> DEFINE A == pc = "include" =>
                  \/ vbmeta' = Empty
                  \/ \A p \in Parts :
                       LET d == vbmeta'[p]
                           n == Len(src[p])
                       IN /\ d.size = Len(d.digest) /\ n <= d.size /\ SubSeq(d.digest, 1, n) = src[p]
                          /\ harm[p] = "none" => d.size = n
<1>1. ASSUME IInv, Prefixed, [Next]_vars PROVE A
  <2> SUFFICES ASSUME pc = "include" PROVE A
    OBVIOUS
  <2>1. Running /\ vbmeta = Empty
    BY <1>1, AtHand, Found
  <2>2. CASE Include
    <3>1. vbmeta' = [p \in Parts |-> img[p].vb] /\ \A p \in Parts : Parses(p)
      BY <2>2 DEF Include
    <3>2. ASSUME NEW p \in Parts
          PROVE  LET d == vbmeta'[p]
                     n == Len(src[p])
                 IN /\ d.size = Len(d.digest) /\ n <= d.size /\ SubSeq(d.digest, 1, n) = src[p]
                    /\ harm[p] = "none" => d.size = n
      <4>1. pc \notin Open
        BY DEF Open
      <4>2. /\ Shaped(img[p]) /\ Good(img[p], harm[p]) /\ Holds(img[p], src[p])
            /\ harm[p] = "none" => Kept(img[p], src[p])
        BY <1>1, <3>2, <4>1, Zenon DEF IInv, Originals, Images, Prefixed
      <4>3. Footed(img[p].cells)
        <5>1. SUFFICES ASSUME ~HasFooter(p) PROVE FALSE
          BY <4>2, HasFooterIs
        <5>2. img[p].cells[0 + 1] = "V"
          BY <3>1, <5>1 DEF Parses, Cells
        <5>3. img[p].cells[1] \in Content
          BY <4>2, ShapedFacts
        <5> QED BY <5>2, <5>3 DEF Content
      <4>4. src[p] \in Seq(Content)
        <5>1. src \in [Parts -> Seq(Content) \ {<<>>}]
          BY <1>1, Zenon DEF IInv, Typed
        <5> QED BY <5>1
      <4>5. /\ img[p].vb.size = Len(img[p].vb.digest) /\ Len(src[p]) <= img[p].vb.size
            /\ SubSeq(img[p].vb.digest, 1, Len(src[p])) = src[p]
        BY <4>2, <4>3, <4>4, DescBegins
      <4>6. harm[p] = "none" => img[p].vb = [size |-> Len(src[p]), digest |-> src[p]]
        BY <4>2, <4>3, KeptDescribed
      <4>7. harm[p] = "none" => img[p].vb.size = Len(src[p])
        BY <4>6
      <4>8. vbmeta'[p] = img[p].vb
        BY <3>1
      <4> QED BY <4>5, <4>7, <4>8
    <3> QED BY <3>2
  <2>3. CASE IncludeLost \/ IncludeFails \/ Interrupt \/ UNCHANGED vars
    BY <2>1, <2>3 DEF IncludeLost, IncludeFails, Interrupt, vars
  <2>4. CASE MakeVbmeta
    BY <2>4 DEF MakeVbmeta
  <2>5. Include \/ IncludeLost \/ IncludeFails \/ Interrupt \/ MakeVbmeta \/ UNCHANGED vars
    <3>1. pc \notin {"idle", "strip", "size", "vbmeta", "gap", "footer"}
      OBVIOUS
    <3>2. \A p, s, k : ~Pack(p, s, k)
      BY <3>1 DEF Pack
    <3>3. \A o, p, k, l : ~Call(o, p, k, l)
      BY <3>1 DEF Call
    <3>4. \A p, k : ~Add(p, k) /\ ~AddTooSmall(p, k) /\ ~Resize(p, k) /\ ~ResizeRefused(p, k)
      BY <3>3, Zenon DEF Add, AddTooSmall, Resize, ResizeRefused
    <3>5. \A p : ~EraseFooter(p)
      BY <3>3, Zenon DEF EraseFooter
    <3>6. ~(Strip \/ AddRagged \/ AddTooLarge \/ Hash \/ AppendVbmeta \/ AppendGap \/ AppendFooter)
      BY <3>1 DEF Strip, AddRagged, AddTooLarge, Hash, AppendVbmeta, AppendGap, AppendFooter
    <3>7. ~(AddFails \/ AppendLost \/ ResizeFails)
      BY <3>1 DEF AddFails, AppendLost, ResizeFails, InTry
    <3> QED BY <1>1, <3>2, <3>4, <3>5, <3>6, <3>7, Zenon DEF Next
  <2> QED BY <2>2, <2>3, <2>4, <2>5
<1>2. IInv /\ Prefixed /\ [Next]_vars => [A]_vars
  BY <1>1
<1>3. Spec => [][A]_vars
  BY <1>2, Inductive, ContentKept, PTL DEF Spec
<1> QED BY <1>3 DEF DescribesPacked

=============================================================================
