-------------------------- MODULE SparseImageProofs --------------------------
(***************************************************************************)
(* Proofs about SparseImage, for every block content, partition size, raw  *)
(* image, previous content of the partition and number of interruptions.   *)
(***************************************************************************)
EXTENDS SparseImage, TLAPS

(***************************************************************************)
(* The inductive invariant, in parts.                                      *)
(***************************************************************************)

\* The image fits the partition; a captured GPT spans all of it.
Sized ==
  /\ Total <= Part
  /\ kind = "gpt" => Total = Part
  /\ Total = 0 => short = 0

\* Where the chunk list ends: at the converter's outer index while it walks. The
\* run between the two indices is of one sort, and not that of the last chunk.
Front ==
  /\ pc = "start" => chunks = <<>> /\ i = 0
  /\ pc \in {"walk", "run"} =>
       /\ kind = "rootfs"
       /\ i = IF chunks = <<>> THEN 0 ELSE EndOf(Len(chunks))
       /\ chunks # <<>> /\ i < Total =>
            ((Block(i) = 0) <=> (chunks[Len(chunks)].type = "RAW"))
  /\ pc = "run" => i < j /\ \A b \in i .. j - 1 : SameSort(b)

\* mksparse's runs are maximal: no payload block is zero, no skipped block is
\* not, and two neighbours never have the same type.
RunsMaximal ==
  kind = "rootfs" =>
    \A c \in 1 .. Len(chunks) :
      /\ \A b \in chunks[c].src .. EndOf(c) - 1 : (Block(b) = 0) <=> (chunks[c].type # "RAW")
      /\ c > 1 => chunks[c].type # chunks[c - 1].type

\* What has been written, and how far the verifier and the device have followed
\* it: the chunks in the file fit, a file that lacks a payload lacks no header of
\* a chunk before it, nobody is ever ahead of the file.
Filed ==
  kind = "rootfs" =>
    /\ pc \in {"start", "walk", "run"} => file = NoFile
    /\ \A c \in 1 .. file.whole : Fits(chunks[c])
    /\ file.ragged => file.whole < Len(chunks) /\ \A c \in 1 .. Len(chunks) : Fits(chunks[c])
    /\ pc \in {"write", "verify"} => file.hdr
    /\ pc = "write" => ~file.ragged
    /\ pc = "ready" => Complete
    /\ pc \in {"start", "walk", "run", "write", "ready", "cut"} => seen = 0
    /\ pc = "verify" => seen <= file.whole \/ (file.ragged /\ seen = file.whole + 1)
    /\ pc \in {"flash", "done"} => n <= file.whole
    /\ pc = "done" => n = Len(chunks)

\* A chunk is RAW exactly over the blocks the image carries.
Typed ==
  \A c \in 1 .. Len(chunks) : \A b \in chunks[c].src .. EndOf(c) - 1 :
    Carried(b) <=> chunks[c].type = "RAW"

\* The verifier has counted the blocks before its chunk.
Counted == covered = IF seen = 0 THEN 0 ELSE EndOf(seen)

\* The device's cursor is at the end of its chunk and all before it is right.
Cursor ==
  pc = "flash" =>
    /\ pos = IF n = 0 THEN 0 ELSE EndOf(n)
    /\ \A b \in 0 .. Part - 1 : b < pos => disk[b] = Wanted(b)

IInv ==
  /\ TypeOK /\ Sized /\ Tiles /\ Front /\ Typed /\ RunsMaximal
  /\ Counted /\ Cursor /\ Delivered /\ WholeAccepted /\ Filed /\ AcceptedWhole

-----------------------------------------------------------------------------
(***************************************************************************)
(* Facts about the operators.                                              *)
(***************************************************************************)

\* An element of a sequence over S is in S.
LEMMA ElementIn ==
  ASSUME NEW S, NEW s \in Seq(S), NEW c \in 1 .. Len(s)
  PROVE  s[c] \in S
  OBVIOUS

\* What TypeOK says of one chunk, and of the counters.
LEMMA ChunkType ==
  ASSUME TypeOK
  PROVE  /\ Len(chunks) \in Nat /\ Total \in Nat /\ file.whole \in 0 .. Len(chunks)
         /\ \A c \in 1 .. Len(chunks) :
              /\ chunks[c].blks \in Nat /\ chunks[c].src \in Nat
              /\ chunks[c].type \in {"RAW", "DONT_CARE"}
<1>1. Len(chunks) \in Nat /\ Total \in Nat
  BY DEF TypeOK, Total
<1>3. file.whole \in 0 .. Len(chunks)
  BY DEF TypeOK
<1>2. ASSUME NEW c \in 1 .. Len(chunks)
      PROVE  chunks[c] \in [type : {"RAW", "DONT_CARE"}, blks : Nat, src : Nat]
  BY ElementIn DEF TypeOK
<1> QED
  BY <1>1, <1>2, <1>3

\* Every block of the raw image is a block content.
LEMMA BlockType ==
  ASSUME TypeOK, NEW b \in 0 .. Total - 1
  PROVE  Block(b) \in Contents
  BY DEF TypeOK, Total, Block

\* Writing (part of) the next chunk puts wanted blocks at the cursor, and
\* changes nothing else.
LEMMA WrittenRight ==
  ASSUME TypeOK, Sized, Tiles, Typed, Cursor, Delivered,
         pc = "flash", n < Len(chunks),
         NEW c \in 0 .. chunks[n + 1].blks, NEW b \in 0 .. Part - 1
  PROVE  Written(chunks[n + 1], c)[b] =
           IF pos <= b /\ b < pos + c THEN Wanted(b) ELSE disk[b]
<1> DEFINE k == chunks[n + 1]
<1>0. n \in 0 .. Len(chunks) /\ Len(chunks) \in Nat
  BY DEF TypeOK
<1>1a. n \in Nat /\ n + 1 \in 1 .. Len(chunks)
  BY <1>0
<1>1b. k.blks \in Nat /\ k.src \in Nat
  BY <1>1a, ChunkType
<1>1. n \in Nat /\ n + 1 \in 1 .. Len(chunks) /\ k.blks \in Nat /\ k.src \in Nat /\ c \in Nat
  BY <1>1a, <1>1b
<1>2. pos = k.src
  BY <1>1 DEF Cursor, Tiles
<1>3. b \in Int /\ pos \in Nat
  BY SparseAssumption DEF TypeOK
<1>4. CASE pos <= b /\ b < pos + c
  <2>1. b \in k.src .. EndOf(n + 1) - 1
    BY <1>1, <1>2, <1>3, <1>4 DEF EndOf
  <2>2. Carried(b) <=> k.type = "RAW"
    BY <1>1, <2>1 DEF Typed
  <2>3. k.src + (b - pos) = b
    BY <1>1, <1>2, <1>3
  <2>4. CASE k.type = "RAW"
    BY <1>4, <2>2, <2>3, <2>4 DEF Written, Wanted
  <2>5. CASE k.type # "RAW"
    <3>1. disk[b] = Wanted(b)
      BY <2>2, <2>5 DEF Delivered, Wanted
    <3> QED
      BY <1>4, <2>5, <3>1 DEF Written
  <2> QED
    BY <2>4, <2>5
<1>5. CASE ~(pos <= b /\ b < pos + c)
  BY <1>5 DEF Written
<1> QED
  BY <1>4, <1>5

\* What is written has the type of a disk.
LEMMA WrittenType ==
  ASSUME TypeOK, Sized, Tiles, Typed, Cursor, Delivered,
         pc = "flash", n < Len(chunks), NEW c \in 0 .. chunks[n + 1].blks
  PROVE  Written(chunks[n + 1], c) \in [0 .. Part - 1 -> Contents]
<1>1. ASSUME NEW b \in 0 .. Part - 1 PROVE Written(chunks[n + 1], c)[b] \in Contents
  <2>1. Written(chunks[n + 1], c)[b] \in {Wanted(b), disk[b]}
    BY WrittenRight
  <2>2. disk[b] \in Contents /\ old[b] \in Contents
    BY SparseAssumption DEF TypeOK
  <2>3. Carried(b) => b \in 0 .. Total - 1
    BY ChunkType, SparseAssumption DEF Carried, Sized
  <2>4. Wanted(b) \in Contents
    BY <2>2, <2>3, BlockType DEF Wanted
  <2> QED
    BY <2>1, <2>2, <2>4
<1> QED
  BY <1>1 DEF Written

\* The converter appends one chunk and keeps the others.
LEMMA Appended ==
  ASSUME TypeOK, EndRun
  PROVE  LET new == Chunk(IF Block(i) = 0 THEN "DONT_CARE" ELSE "RAW", i, j - i)
         IN  /\ Len(chunks') = Len(chunks) + 1
             /\ \A c \in 1 .. Len(chunks) : chunks'[c] = chunks[c]
             /\ chunks'[Len(chunks) + 1] = new
             /\ new.src = i /\ new.blks = j - i
             /\ new.type = IF Block(i) = 0 THEN "DONT_CARE" ELSE "RAW"
  BY DEF TypeOK, EndRun, Chunk

-----------------------------------------------------------------------------
(***************************************************************************)
(* The steps, one lemma per group of conjuncts.                            *)
(***************************************************************************)

\* Types.
LEMMA TypeStep == IInv /\ [Next]_vars => TypeOK'
<1> SUFFICES ASSUME IInv, [Next]_vars PROVE TypeOK'
  OBVIOUS
<1>0. /\ TypeOK /\ Sized /\ Tiles /\ Typed /\ Cursor /\ Delivered
      /\ Len(chunks) \in Nat /\ Total \in Nat /\ file.whole \in 0 .. Len(chunks)
  BY ChunkType DEF IInv
<1> USE SparseAssumption
<1> USE DEF image, writer, checker, device
<1>1. CASE StartConvert \/ WriteOverflow \/ WriteDone \/ VerifyStart \/ VerifyTruncated
           \/ VerifyEnd \/ FlashStart \/ FlashShort \/ FlashDone
  <2>1. CASE StartConvert
    BY <1>0, <2>1 DEF StartConvert, TypeOK, Stages, Total
  <2>2. CASE WriteOverflow
    BY <1>0, <2>2 DEF WriteOverflow, TypeOK, Stages, Total
  <2>3. CASE WriteDone
    BY <1>0, <2>3 DEF WriteDone, TypeOK, Stages, Total
  <2>4. CASE VerifyStart
    BY <1>0, <2>4 DEF VerifyStart, TypeOK, Stages, Total
  <2>5. CASE VerifyTruncated
    BY <1>0, <2>5 DEF VerifyTruncated, TypeOK, Stages, Total
  <2>6. CASE VerifyEnd
    BY <1>0, <2>6 DEF VerifyEnd, TypeOK, Stages, Total
  <2>7. CASE FlashStart
    BY <1>0, <2>7 DEF FlashStart, TypeOK, Stages, Total
  <2>8. CASE FlashShort
    BY <1>0, <2>8 DEF FlashShort, TypeOK, Stages, Total
  <2>9. CASE FlashDone
    BY <1>0, <2>9 DEF FlashDone, TypeOK, Stages, Total
  <2> QED
    BY <1>1, <2>1, <2>2, <2>3, <2>4, <2>5, <2>6, <2>7, <2>8, <2>9
<1>2. CASE EndRun
  <2>0. i < j
    BY <1>2 DEF EndRun, IInv, Front
  <2>1. i' \in 0 .. Total /\ j - i \in Nat /\ i \in Nat
    BY <1>0, <1>2, <2>0 DEF EndRun, TypeOK
  <2>2. chunks' \in Seq([type : {"RAW", "DONT_CARE"}, blks : Nat, src : Nat])
    BY <1>0, <1>2, <2>1 DEF EndRun, Chunk, TypeOK
  <2>3. Len(chunks') = Len(chunks) + 1
    BY <1>0, <1>2, Appended
  <2> QED
    BY <1>0, <1>2, <2>1, <2>2, <2>3 DEF EndRun, TypeOK, Stages, Total
<1>11. CASE StartRun
  BY <1>0, <1>11 DEF StartRun, TypeOK, Stages, Total
<1>12. CASE ExtendRun
  BY <1>0, <1>12 DEF ExtendRun, TypeOK, Stages, Total
<1>3. CASE WriteHeader
  <2>1. file' \in [hdr : BOOLEAN, whole : 0 .. Len(chunks), ragged : BOOLEAN]
    BY <1>0, <1>3 DEF WriteHeader
  <2> QED
    BY <1>0, <1>3, <2>1 DEF WriteHeader, TypeOK, Stages, Total
<1>4. CASE WriteChunk
  <2>1. file.whole + 1 \in 0 .. Len(chunks)
    BY <1>0, <1>4 DEF WriteChunk
  <2>2. file' \in [hdr : BOOLEAN, whole : 0 .. Len(chunks), ragged : BOOLEAN]
    BY <1>0, <1>4, <2>1 DEF WriteChunk, TypeOK
  <2> QED
    BY <1>0, <1>4, <2>2 DEF WriteChunk, TypeOK, Stages, Total
<1>5. CASE MakeGptRestore
  <2>1. chunks' \in Seq([type : {"RAW", "DONT_CARE"}, blks : Nat, src : Nat])
    BY <1>0, <1>5 DEF MakeGptRestore, Chunk
  <2>2. Len(chunks') = 3 /\ Len(chunks) = 0
    BY <1>0, <1>5 DEF MakeGptRestore, IInv, Front
  <2>3. file' \in [hdr : BOOLEAN, whole : 0 .. 3, ragged : BOOLEAN]
    BY <1>5 DEF MakeGptRestore
  <2> QED
    BY <1>0, <1>5, <2>1, <2>2, <2>3 DEF MakeGptRestore, TypeOK, Stages, Total
<1>6. CASE CutShort
  BY <1>0, <1>6 DEF CutShort, TypeOK, Stages, Total
<1>7. CASE VerifyChunk
  <2>1. chunks[seen + 1].blks \in Nat /\ seen + 1 \in 0 .. Len(chunks)
    BY <1>0, <1>7, ChunkType DEF VerifyChunk, TypeOK
  <2>2. covered' \in Nat /\ seen' \in 0 .. Len(chunks)
    <3>1. covered \in Nat
      BY <1>0 DEF TypeOK
    <3> QED
      BY <1>7, <2>1, <3>1 DEF VerifyChunk
  <2>3. UNCHANGED <<image, writer, pc, file, device>>
    BY <1>7 DEF VerifyChunk
  <2> QED
    BY <1>0, <2>2, <2>3 DEF TypeOK, Stages, Total
<1>8. CASE FlashChunk
  <2>0. n \in Nat
    BY <1>0 DEF TypeOK
  <2>1. chunks[n + 1].blks \in Nat /\ n + 1 \in 0 .. Len(chunks) /\ n < Len(chunks)
    BY <1>0, <1>8, <2>0, ChunkType DEF FlashChunk
  <2>2. disk' \in [0 .. Part - 1 -> Contents]
    BY <1>0, <1>8, <2>1, WrittenType DEF FlashChunk
  <2>3. pos' \in Nat /\ n' \in 0 .. Len(chunks)
    <3>1. pos \in Nat
      BY <1>0 DEF TypeOK
    <3> QED
      BY <1>8, <2>1, <3>1 DEF FlashChunk
  <2>4. UNCHANGED <<image, writer, pc, file, checker, old, cuts>>
    BY <1>8 DEF FlashChunk
  <2> QED
    BY <1>0, <2>2, <2>3, <2>4 DEF TypeOK, Stages, Total
<1>9. CASE FlashCut
  <2>1. n < Len(chunks)
    BY <1>0, <1>9 DEF FlashCut, TypeOK
  <2>2. disk' \in [0 .. Part - 1 -> Contents]
    BY <1>0, <1>9, <2>1, WrittenType DEF FlashCut
  <2> QED
    BY <1>0, <1>9, <2>2 DEF FlashCut, TypeOK, Stages, Total
<1>10. CASE UNCHANGED vars
  BY <1>0, <1>10 DEF vars, TypeOK, Total
<1> QED
  BY <1>1, <1>2, <1>3, <1>4, <1>5, <1>6, <1>7, <1>8, <1>9, <1>10, <1>11, <1>12 DEF Next

\* The chunk list: only the converter's loop and make-gpt-restore change it.
LEMMA ListStep == IInv /\ [Next]_vars => (Sized /\ Tiles /\ Front /\ Typed /\ RunsMaximal)'
<1> SUFFICES ASSUME IInv, [Next]_vars
             PROVE  (Sized /\ Tiles /\ Front /\ Typed /\ RunsMaximal)'
  OBVIOUS
<1>0. /\ TypeOK /\ Sized /\ Tiles /\ Front /\ Typed /\ RunsMaximal
      /\ Len(chunks) \in Nat /\ Total \in Nat
  BY ChunkType DEF IInv
<1> USE SparseAssumption
<1>1. ASSUME UNCHANGED <<kind, raw, short, chunks>>
      PROVE  Sized' /\ Typed' /\ RunsMaximal'
  BY <1>0, <1>1 DEF Sized, Typed, RunsMaximal, EndOf, Carried, Block, Total
<1>2. CASE StartConvert
  BY <1>0, <1>1, <1>2 DEF StartConvert, image, writer, Tiles, Front, EndOf, Total
<1>3. CASE WriteHeader
  BY <1>0, <1>1, <1>3 DEF WriteHeader, image, writer, Tiles, Front, EndOf, Total
<1>4. CASE \/ WriteChunk \/ WriteOverflow \/ WriteDone \/ CutShort \/ VerifyStart \/ VerifyChunk
           \/ VerifyTruncated \/ VerifyEnd \/ FlashStart \/ FlashChunk \/ FlashShort \/ FlashCut
           \/ FlashDone
  <2>1. /\ UNCHANGED <<kind, raw, short, i, chunks>>
        /\ pc \notin {"start", "walk", "run"} /\ pc' \notin {"start", "walk", "run"}
    BY <1>4 DEF WriteChunk, WriteOverflow, WriteDone, CutShort, VerifyStart, VerifyChunk,
                VerifyTruncated, VerifyEnd, FlashStart, FlashChunk, FlashShort, FlashCut,
                FlashDone, image, writer
  <2> QED
    BY <1>0, <1>1, <2>1 DEF Tiles, Front, EndOf, Total
<1>5. CASE MakeGptRestore
  <2>1. /\ Len(chunks') = 3
        /\ chunks'[1] = Chunk("RAW", 0, NPrim)
        /\ chunks'[2] = Chunk("DONT_CARE", NPrim, Part - NPrim - NBack)
        /\ chunks'[3] = Chunk("RAW", Part - NBack, NBack)
        /\ chunks' # <<>>
    BY <1>5 DEF MakeGptRestore
  <2>2. kind' = "gpt" /\ pc' = "ready" /\ Total' = Part /\ Sized'
    BY <1>0, <1>5 DEF MakeGptRestore, image, Sized, Total
  <2>3. Tiles'
    BY <2>1, <2>2 DEF Tiles, EndOf, Chunk
  <2>4. Typed'
    BY <2>1, <2>2 DEF Typed, EndOf, Chunk, Carried
  <2> QED
    BY <2>2, <2>3, <2>4 DEF Front, RunsMaximal
<1>6. CASE EndRun
  <2> DEFINE m == Len(chunks)
  <2>1. /\ Len(chunks') = m + 1
        /\ \A c \in 1 .. m : chunks'[c] = chunks[c]
        /\ chunks'[m + 1].src = i /\ chunks'[m + 1].blks = j - i
        /\ chunks'[m + 1].type = IF Block(i) = 0 THEN "DONT_CARE" ELSE "RAW"
    BY <1>0, <1>6, Appended
  <2>2. /\ pc = "run" /\ pc' = "walk" /\ i' = j /\ j' = j /\ kind = "rootfs"
        /\ UNCHANGED <<kind, raw, short>> /\ Total' = Total
    BY <1>0, <1>6 DEF EndRun, Front, image, Total
  <2>3. /\ m \in Nat /\ i \in Nat /\ j \in Nat /\ i < j /\ j <= Total /\ i < Total
        /\ \A c \in 1 .. m : chunks[c].src \in Nat /\ chunks[c].blks \in Nat
    <3>1. /\ m \in Nat /\ Total \in Nat
          /\ \A c \in 1 .. m : chunks[c].src \in Nat /\ chunks[c].blks \in Nat
      BY <1>0, ChunkType, Zenon
    <3>2. i \in 0 .. Total /\ j \in 0 .. Total
      BY <1>0, Zenon DEF TypeOK
    <3>3. i < j
      BY <1>0, <2>2, Zenon DEF Front
    <3> QED
      BY <3>1, <3>2, <3>3
  <2>4. i = IF m = 0 THEN 0 ELSE EndOf(m)
    BY <1>0, <2>2, <2>3 DEF Front, TypeOK
  <2>5. /\ \A b \in i .. j - 1 : (Block(b) = 0) <=> (Block(i) = 0)
        /\ j < Total => ~((Block(j) = 0) <=> (Block(i) = 0))
    BY <1>0, <1>6, <2>2 DEF EndRun, Front, SameSort
  <2>6. Sized'
    BY <1>0, <2>2 DEF Sized
  <2>7. Tiles'
    <3>1. ASSUME NEW c \in 1 .. m + 1
          PROVE  /\ chunks'[c].blks > 0
                 /\ chunks'[c].src = IF c = 1 THEN 0 ELSE EndOf(c - 1)'
                 /\ EndOf(c)' <= Total
      <4>1. CASE c = m + 1
        <5>1. chunks'[c].blks > 0 /\ chunks'[c].src = i /\ EndOf(c)' <= Total
          <6>1. chunks'[c].blks = j - i /\ chunks'[c].src = i
            BY <2>1, <4>1
          <6>2. j - i > 0 /\ i + (j - i) <= Total
            BY <2>3
          <6>3. EndOf(c)' = i + (j - i)
            BY <6>1 DEF EndOf
          <6> QED
            BY <6>1, <6>2, <6>3
        <5>2. CASE m = 0
          BY <2>4, <4>1, <5>1, <5>2
        <5>3. CASE m > 0
          <6>1. c - 1 = m /\ c - 1 \in 1 .. m
            BY <2>3, <4>1, <5>3
          <6>2. EndOf(c - 1)' = EndOf(m)
            BY <2>1, <6>1 DEF EndOf
          <6> QED
            BY <2>3, <2>4, <4>1, <5>1, <5>3, <6>2
        <5> QED
          BY <2>3, <5>2, <5>3
      <4>2. CASE c \in 1 .. m
        <5>1. EndOf(c)' = EndOf(c) /\ chunks'[c] = chunks[c]
          BY <2>1, <4>2 DEF EndOf
        <5>2. c > 1 => EndOf(c - 1)' = EndOf(c - 1)
          <6>1. c > 1 => c - 1 \in 1 .. m
            BY <2>3, <4>2
          <6> QED
            BY <2>1, <6>1 DEF EndOf
        <5> QED
          BY <1>0, <2>3, <4>2, <5>1, <5>2 DEF Tiles
      <4> QED
        BY <2>3, <4>1, <4>2
    <3> QED
      BY <2>1, <2>2, <3>1 DEF Tiles
  <2>8. Front'
    <3>1. chunks' # <<>>
      BY <2>1, <2>3
    <3>2. chunks'[m + 1].src + chunks'[m + 1].blks = j
      BY <2>1, <2>3
    <3>3. j < Total => ((Block(j)' = 0) <=> (chunks'[m + 1].type = "RAW"))
      BY <2>1, <2>2, <2>5 DEF Block
    <3>4. chunks'[Len(chunks')] = chunks'[m + 1] /\ EndOf(Len(chunks))' = j
      BY <2>1, <3>2 DEF EndOf
    <3> QED
      BY <2>2, <3>1, <3>3, <3>4 DEF Front, Block
  <2>9. ASSUME NEW c \in 1 .. m + 1, NEW b \in chunks'[c].src .. EndOf(c)' - 1
        PROVE  /\ Carried(b)' <=> chunks'[c].type = "RAW"
               /\ (Block(b)' = 0) <=> (chunks'[c].type # "RAW")
    <3>1. CASE c = m + 1
      <4>0. EndOf(c)' = j /\ chunks'[c].src = i
        BY <2>1, <2>3, <3>1 DEF EndOf
      <4>4. b \in i .. j - 1
        BY <3>1, <4>0, Zenon
      <4>5. Total \in Nat
        BY <1>0, ChunkType, Zenon
      <4>1. b \in i .. j - 1 /\ b \in 0 .. Total - 1
        BY <2>3, <4>4, <4>5
      <4>2. (Block(b) = 0) <=> (chunks'[c].type # "RAW")
        BY <2>1, <2>5, <3>1, <4>1
      <4>3. Block(b)' = Block(b) /\ b < Total'
        BY <1>0, <2>2, <4>1 DEF Block
      <4> QED
        BY <2>2, <4>2, <4>3 DEF Carried
    <3>2. CASE c \in 1 .. m
      <4>1. b \in chunks[c].src .. EndOf(c) - 1 /\ chunks'[c] = chunks[c]
        BY <2>1, <3>2 DEF EndOf
      <4> QED
        BY <1>0, <2>2, <3>2, <4>1 DEF Typed, RunsMaximal, Carried, Block
    <3> QED
      BY <2>3, <3>1, <3>2
  <2>10. ASSUME NEW c \in 1 .. m + 1, c > 1
         PROVE  chunks'[c].type # chunks'[c - 1].type
    <3>1. CASE c = m + 1
      <4>1. m \in 1 .. m /\ chunks # <<>>
        BY <2>3, <2>10, <3>1
      <4>2. (Block(i) = 0) <=> (chunks[m].type = "RAW")
        BY <1>0, <2>2, <2>3, <4>1 DEF Front
      <4> QED
        BY <2>1, <2>3, <3>1, <4>1, <4>2
    <3>2. CASE c \in 1 .. m
      BY <1>0, <2>1, <2>2, <2>3, <2>10, <3>2 DEF RunsMaximal
    <3> QED
      BY <2>3, <3>1, <3>2
  <2>11. Typed' /\ RunsMaximal'
    BY <2>1, <2>9, <2>10 DEF Typed, RunsMaximal
  <2> QED
    BY <2>6, <2>7, <2>8, <2>11
<1>7. CASE UNCHANGED vars
  BY <1>0, <1>1, <1>7 DEF vars, Tiles, Front, EndOf, Total, Block, SameSort
<1>8. CASE StartRun
  <2>1. Tiles'
    BY <1>0, <1>8 DEF StartRun, image, Tiles, EndOf, Total
  <2>2. Front'
    <3>1. i \in Nat /\ i < i + 1 /\ \A b \in i .. (i + 1) - 1 : b = i
      BY <1>0 DEF TypeOK
    <3> QED
      BY <1>0, <1>8, <3>1 DEF StartRun, image, Front, EndOf, Total, Block, SameSort
  <2> QED
    BY <1>1, <1>8, <2>1, <2>2 DEF StartRun, image
<1>9. CASE ExtendRun
  <2>1. Tiles'
    BY <1>0, <1>9 DEF ExtendRun, image, Tiles, EndOf, Total
  <2>2. Front'
    <3>1. i \in Nat /\ j \in Nat /\ i < j /\ \A b \in i .. (j + 1) - 1 : b = j \/ b \in i .. j - 1
      BY <1>0, <1>9 DEF ExtendRun, TypeOK, Front
    <3>2. \A b \in i .. (j + 1) - 1 : SameSort(b)
      BY <1>0, <1>9, <3>1 DEF ExtendRun, Front
    <3> QED
      BY <1>0, <1>9, <3>1, <3>2 DEF ExtendRun, image, Front, EndOf, Total, Block, SameSort
  <2> QED
    BY <1>1, <1>9, <2>1, <2>2 DEF ExtendRun, image
<1> QED
  BY <1>2, <1>3, <1>4, <1>5, <1>6, <1>7, <1>8, <1>9 DEF Next

\* The verifier.
LEMMA CheckStep == IInv /\ [Next]_vars => (Counted /\ WholeAccepted)'
<1> SUFFICES ASSUME IInv, [Next]_vars PROVE (Counted /\ WholeAccepted)'
  OBVIOUS
<1>0. /\ TypeOK /\ Sized /\ Tiles /\ Front /\ Counted /\ WholeAccepted
      /\ Len(chunks) \in Nat /\ Total \in Nat /\ file.whole \in 0 .. Len(chunks)
      /\ seen \in 0 .. Len(chunks)
  BY ChunkType DEF IInv, TypeOK
<1>1. CASE \/ StartConvert \/ StartRun \/ ExtendRun
           \/ WriteHeader \/ WriteChunk \/ WriteOverflow \/ WriteDone \/ CutShort \/ FlashStart \/ FlashChunk \/ FlashShort \/ FlashCut \/ FlashDone
  <2>1. UNCHANGED <<seen, covered, chunks>> /\ pc' # "rejected"
    BY <1>1 DEF StartConvert, StartRun, ExtendRun, WriteHeader, WriteChunk, WriteOverflow, WriteDone, CutShort,
                FlashStart, FlashChunk, FlashShort, FlashCut, FlashDone, checker, writer
  <2> QED
    BY <1>0, <2>1 DEF Counted, WholeAccepted, EndOf
<1>2. CASE MakeGptRestore
  BY <1>0, <1>2 DEF MakeGptRestore, checker, Counted, WholeAccepted, Front
<1>3. CASE EndRun
  <2>1. /\ UNCHANGED <<seen, covered>> /\ pc' = "walk"
        /\ \A c \in 1 .. Len(chunks) : chunks'[c] = chunks[c]
    BY <1>0, <1>3, Appended DEF EndRun, checker
  <2> QED
    BY <1>0, <2>1 DEF Counted, WholeAccepted, EndOf
<1>4. CASE VerifyStart \/ VerifyTruncated
  BY <1>0, <1>4 DEF VerifyStart, VerifyTruncated, image, writer, checker, Counted, WholeAccepted,
                    Complete, EndOf
<1>5. CASE VerifyChunk
  <2>1. /\ seen \in Nat /\ seen + 1 \in 1 .. Len(chunks) /\ seen' = seen + 1
        /\ covered' = covered + chunks[seen + 1].blks
        /\ UNCHANGED <<chunks, pc>> /\ pc = "verify"
    BY <1>0, <1>5 DEF VerifyChunk, writer
  <2>2. chunks[seen + 1].src = covered /\ chunks[seen + 1].blks \in Nat
    BY <1>0, <2>1, ChunkType DEF Tiles, Counted
  <2> QED
    BY <2>1, <2>2 DEF Counted, EndOf, WholeAccepted
<1>6. CASE VerifyEnd
  <2>1. UNCHANGED <<seen, covered, chunks, file>> /\ seen = Len(chunks) /\ pc = "verify"
    BY <1>6 DEF VerifyEnd, checker, writer
  <2>2. covered = Total
    BY <1>0, <2>1 DEF Tiles, Counted, TypeOK
  <2>3. short \in 0 .. 4095 /\ Total * BLK_SZ = Total * 4096
    BY <1>0, SparseAssumption DEF TypeOK, BLK_SZ
  <2>a. Total \in Nat
    BY <1>0, ChunkType
  <2>b. (Total * 4096 - short + 4096 - 1) \div 4096 = Total
    <3>1. short \in 0 .. 4095
      BY <2>3
    <3> QED
      BY <2>a, <3>1
  <2>4. RawRounded = Total * BLK_SZ
    BY <2>b DEF RawRounded, RawSize, BLK_SZ
  <2>5. pc' = "accepted"
    BY <1>6, <2>2, <2>4 DEF VerifyEnd
  <2> QED
    BY <1>0, <2>1, <2>5 DEF Counted, EndOf, WholeAccepted
<1>7. CASE UNCHANGED vars
  BY <1>0, <1>7 DEF vars, Counted, WholeAccepted, Complete, EndOf
<1> QED
  BY <1>1, <1>2, <1>3, <1>4, <1>5, <1>6, <1>7 DEF Next

\* The device.
LEMMA FlashStep == IInv /\ [Next]_vars => (Cursor /\ Delivered)'
<1> SUFFICES ASSUME IInv, [Next]_vars PROVE (Cursor /\ Delivered)'
  OBVIOUS
<1>0. /\ TypeOK /\ Sized /\ Tiles /\ Typed /\ Cursor /\ Delivered
      /\ Len(chunks) \in Nat /\ Total \in Nat /\ file.whole \in 0 .. Len(chunks)
      /\ n \in 0 .. Len(chunks) /\ pos \in Nat
  BY ChunkType DEF IInv, TypeOK
<1> USE SparseAssumption
<1>1. ASSUME UNCHANGED <<kind, raw, old>>
      PROVE  \A b \in 0 .. Part - 1 : Wanted(b)' = Wanted(b)
  BY <1>1 DEF Wanted, Carried, Block, Total
<1>2. CASE \/ StartConvert \/ WriteHeader \/ WriteChunk \/ WriteOverflow \/ WriteDone
           \/ MakeGptRestore \/ CutShort \/ VerifyStart \/ VerifyChunk \/ VerifyTruncated
           \/ VerifyEnd \/ FlashShort \/ StartRun \/ ExtendRun \/ EndRun
  <2>1. UNCHANGED <<kind, raw, old, disk>> /\ pc' \notin {"flash", "done"}
    BY <1>2 DEF StartConvert, WriteHeader, WriteChunk, WriteOverflow, WriteDone, MakeGptRestore,
                CutShort, VerifyStart, VerifyChunk, VerifyTruncated, VerifyEnd, FlashShort,
                StartRun, ExtendRun, EndRun, image, device
  <2> QED
    BY <1>0, <1>1, <2>1 DEF Cursor, Delivered
<1>3. CASE FlashStart
  <2>1. UNCHANGED <<kind, raw, old, disk>> /\ pc' = "flash" /\ n' = 0 /\ pos' = 0
    BY <1>3 DEF FlashStart, image
  <2>2. Cursor'
    BY <2>1 DEF Cursor
  <2> QED
    BY <1>0, <1>1, <2>1, <2>2 DEF Delivered
<1>4. CASE FlashChunk
  <2> DEFINE c == chunks[n + 1].blks
  <2>1. /\ pc = "flash" /\ pc' = "flash" /\ n' = n + 1 /\ pos' = pos + c
        /\ n \in Nat /\ n < Len(chunks) /\ n + 1 \in 1 .. Len(chunks)
        /\ UNCHANGED <<kind, raw, old, chunks>>
        /\ disk' = Written(chunks[n + 1], c)
    BY <1>0, <1>4 DEF FlashChunk, image, writer
  <2>2. c \in Nat /\ c \in 0 .. c
    BY <1>0, <2>1, ChunkType
  <2>3. \A b \in 0 .. Part - 1 :
          disk'[b] = IF pos <= b /\ b < pos + c THEN Wanted(b) ELSE disk[b]
    BY <1>0, <2>1, <2>2, WrittenRight
  <2>4. chunks[n + 1].src = pos
    BY <1>0, <2>1 DEF Cursor, Tiles
  <2>5. pos' = EndOf(n)' /\ n' # 0
    BY <2>1, <2>4 DEF EndOf
  <2>6. ASSUME NEW b \in 0 .. Part - 1, b < pos + c PROVE disk'[b] = Wanted(b)
    <3>1. CASE b < pos
      <4>1. disk[b] = Wanted(b)
        BY <1>0, <2>1, <3>1 DEF Cursor
      <4> QED
        BY <2>3, <4>1
    <3>2. CASE pos <= b
      BY <2>3, <2>6, <3>2
    <3> QED
      BY <1>0, <3>1, <3>2
  <2>7. Cursor'
    BY <1>1, <2>1, <2>5, <2>6 DEF Cursor, EndOf
  <2> QED
    BY <1>0, <1>1, <2>1, <2>3, <2>7 DEF Delivered
<1>5. CASE FlashCut
  <2>1. /\ pc = "flash" /\ pc' = "flash" /\ n' = 0 /\ pos' = 0 /\ n < Len(chunks)
        /\ UNCHANGED <<kind, raw, old, chunks>>
    BY <1>0, <1>5 DEF FlashCut, image, writer
  <2>2. PICK c \in 0 .. chunks[n + 1].blks : disk' = Written(chunks[n + 1], c)
    BY <1>5 DEF FlashCut
  <2>3. \A b \in 0 .. Part - 1 : disk'[b] \in {Wanted(b), disk[b]}
    BY <1>0, <2>1, <2>2, WrittenRight
  <2>4. Cursor'
    BY <2>1 DEF Cursor
  <2> QED
    BY <1>0, <1>1, <2>1, <2>3, <2>4 DEF Delivered
<1>6. CASE FlashDone
  <2>1. /\ pc = "flash" /\ pc' = "done" /\ n = Len(chunks)
        /\ UNCHANGED <<kind, raw, old, disk>>
    BY <1>6 DEF FlashDone, image, device
  <2>2. pos = Total
    BY <1>0, <2>1 DEF Cursor, Tiles, TypeOK
  <2>3. ASSUME NEW b \in 0 .. Part - 1 PROVE disk[b] = Wanted(b)
    <3>1. CASE b < Total
      BY <1>0, <2>1, <2>2, <3>1 DEF Cursor
    <3>2. CASE ~(b < Total)
      <4>1. kind # "gpt" /\ ~Carried(b)
        BY <1>0, <3>2 DEF Sized, Carried
      <4> QED
        BY <1>0, <4>1 DEF Delivered, Wanted
    <3> QED
      BY <3>1, <3>2
  <2> QED
    BY <1>0, <1>1, <2>1, <2>3 DEF Cursor, Delivered
<1>7. CASE UNCHANGED vars
  BY <1>0, <1>1, <1>7 DEF vars, Cursor, Delivered, EndOf
<1> QED
  BY <1>2, <1>3, <1>4, <1>5, <1>6, <1>7 DEF Next

\* The file, and who reads it.
LEMMA FileStep == IInv /\ [Next]_vars => (Filed /\ AcceptedWhole)'
<1> SUFFICES ASSUME IInv, [Next]_vars, kind = "rootfs" PROVE (Filed /\ AcceptedWhole)'
  BY DEF Next, StartConvert, StartRun, ExtendRun, EndRun, WriteHeader, WriteChunk, WriteOverflow,
         WriteDone, MakeGptRestore, CutShort, VerifyStart, VerifyChunk, VerifyTruncated, VerifyEnd,
         FlashStart, FlashChunk, FlashShort, FlashCut, FlashDone, image, vars, Filed, AcceptedWhole
<1>0. /\ TypeOK /\ Filed /\ AcceptedWhole
      /\ Len(chunks) \in Nat /\ file.whole \in 0 .. Len(chunks)
      /\ file.hdr \in BOOLEAN /\ file.ragged \in BOOLEAN
      /\ seen \in 0 .. Len(chunks) /\ n \in 0 .. Len(chunks)
  BY ChunkType DEF IInv, TypeOK
<1> USE DEF image, writer, checker, device, Filed, AcceptedWhole, Complete, Fits
<1>1. CASE StartConvert \/ StartRun \/ ExtendRun
  BY <1>0, <1>1 DEF StartConvert, StartRun, ExtendRun
<1>2. CASE EndRun
  <2>1. file = NoFile /\ file' = NoFile /\ pc' = "walk" /\ seen = 0 /\ seen' = 0
    BY <1>0, <1>2 DEF EndRun
  <2> QED
    BY <2>1 DEF NoFile
<1>3. CASE WriteHeader
  BY <1>0, <1>3 DEF WriteHeader
<1>4. CASE WriteChunk
  <2>1. /\ file'.whole = file.whole + 1 /\ file'.hdr /\ ~file'.ragged
        /\ UNCHANGED <<kind, chunks, pc, seen, n>> /\ pc = "write" /\ seen = 0
    BY <1>0, <1>4 DEF WriteChunk, TypeOK
  <2>2. ASSUME NEW c \in 1 .. file.whole + 1 PROVE Fits(chunks[c])
    BY <1>0, <1>4, <2>2 DEF WriteChunk
  <2> QED
    BY <1>0, <2>1, <2>2
<1>5. CASE WriteOverflow \/ WriteDone
  BY <1>0, <1>5 DEF WriteOverflow, WriteDone
<1>6. CASE MakeGptRestore
  BY <1>6 DEF MakeGptRestore
<1>7. CASE CutShort
  <2>1. \A c \in 1 .. Len(chunks) : Fits(chunks[c])
    BY <1>0, <1>7 DEF CutShort
  <2>2. file'.whole \in 0 .. Len(chunks) /\ (file'.ragged => file'.whole < Len(chunks))
    BY <1>0, <1>7 DEF CutShort
  <2>3. UNCHANGED <<kind, chunks, seen, n>> /\ pc' = "cut" /\ seen = 0
    BY <1>0, <1>7 DEF CutShort
  <2> QED
    BY <1>0, <2>1, <2>2, <2>3
<1>8. CASE VerifyStart
  BY <1>0, <1>8 DEF VerifyStart
<1>9. CASE VerifyChunk
  BY <1>0, <1>9 DEF VerifyChunk
<1>10. CASE VerifyTruncated
  BY <1>0, <1>10 DEF VerifyTruncated
<1>11. CASE VerifyEnd
  <2>1. file.whole = Len(chunks) \/ (file.ragged /\ file.whole = Len(chunks) - 1)
    BY <1>0, <1>11 DEF VerifyEnd
  <2>2. \A c \in 1 .. Len(chunks) : Fits(chunks[c])
    BY <1>0, <2>1
  <2>3. file.hdr /\ UNCHANGED <<kind, chunks, file, seen, n>> /\ pc' \in {"accepted", "rejected"}
    BY <1>0, <1>11 DEF VerifyEnd
  <2> QED
    BY <1>0, <2>1, <2>2, <2>3
<1>12. CASE FlashStart
  BY <1>0, <1>12 DEF FlashStart
<1>13. CASE FlashChunk \/ FlashCut \/ FlashShort
  BY <1>0, <1>13 DEF FlashChunk, FlashCut, FlashShort
<1>15. CASE FlashDone
  <2>1. /\ pc = "flash" /\ pc' = "done" /\ n = Len(chunks)
        /\ UNCHANGED <<kind, chunks, file, seen, n>>
    BY <1>15 DEF FlashDone
  <2>2. file.whole = Len(chunks) /\ ~file.ragged
    BY <1>0, <2>1
  <2>3. \A c \in 1 .. Len(chunks) : Fits(chunks[c])
    BY <1>0, <2>2
  <2> QED
    BY <1>0, <2>1, <2>2, <2>3
<1>14. CASE UNCHANGED vars
  BY <1>0, <1>14 DEF vars
<1> QED
  BY <1>1, <1>2, <1>3, <1>4, <1>5, <1>6, <1>7, <1>8, <1>9, <1>10, <1>11, <1>12, <1>13, <1>14,
     <1>15 DEF Next

-----------------------------------------------------------------------------
\* The invariant holds before anything is converted.
LEMMA InvInit == Init => IInv
<1> SUFFICES ASSUME Init PROVE IInv
  OBVIOUS
<1>1. PICK t \in 0 .. Part : raw \in [1 .. t -> Contents]
  BY DEF Init
<1>2. raw \in Seq(Contents) /\ Len(raw) = t /\ t \in Nat
  BY <1>1, SparseAssumption
<1>3. TypeOK
  BY <1>2, SparseAssumption DEF Init, TypeOK, Stages, Total, NoFile
<1>4. Sized /\ Tiles /\ Front /\ Typed /\ RunsMaximal
  BY <1>1, <1>2, SparseAssumption DEF Init, Sized, Tiles, Front, Typed, RunsMaximal, Total
<1>5. Counted /\ Cursor /\ Delivered /\ WholeAccepted /\ Filed /\ AcceptedWhole
  BY DEF Init, Counted, Cursor, Delivered, WholeAccepted, Filed, AcceptedWhole, NoFile
<1> QED
  BY <1>3, <1>4, <1>5 DEF IInv

\* The inductive invariant holds in every reachable state.
THEOREM Invariance == Spec => []IInv
<1>1. IInv /\ [Next]_vars => IInv'
  BY TypeStep, ListStep, CheckStep, FlashStep, FileStep DEF IInv
<1> QED
  BY <1>1, InvInit, PTL DEF Spec

\* Types, for every instance.
THEOREM TypeCorrect == Spec => []TypeOK
<1>1. IInv => TypeOK
  BY DEF IInv
<1> QED
  BY <1>1, Invariance, PTL

\* The chunk list tiles the image, whatever the image.
THEOREM TilesCorrect == Spec => []Tiles
<1>1. IInv => Tiles
  BY DEF IInv
<1> QED
  BY <1>1, Invariance, PTL

\* What verify accepts fits its u32 fields and is whole but for its last payload,
\* and only a whole file is ever flashed to the end.
THEOREM AcceptedCorrect == Spec => []AcceptedWhole
<1>1. IInv => AcceptedWhole
  BY DEF IInv
<1> QED
  BY <1>1, Invariance, PTL

\* A completed flash has written the carried blocks and no others, after any
\* number of interrupted ones.
THEOREM DeliveredCorrect == Spec => []Delivered
<1>1. IInv => Delivered
  BY DEF IInv
<1> QED
  BY <1>1, Invariance, PTL

\* verify accepts every complete conversion.
THEOREM VerifyComplete == Spec => []WholeAccepted
<1>1. IInv => WholeAccepted
  BY DEF IInv
<1> QED
  BY <1>1, Invariance, PTL

=============================================================================
