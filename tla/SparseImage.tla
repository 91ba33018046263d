----------------------------- MODULE SparseImage -----------------------------
(***************************************************************************)
(* A raw image on its way to an eMMC partition: tools/mksparse.py turns it *)
(* into an Android sparse image and verifies it, fastboot un-sparses it.   *)
(* gpt-restore/make-gpt-restore.py writes the same format by hand.  A RAW  *)
(* chunk carries its blocks; a DONT_CARE chunk carries nothing and the     *)
(* device leaves that span alone.                                          *)
(*                                                                         *)
(* A block is its content; a chunk names the slice of the raw image that   *)
(* is its payload by the slice's first block.                              *)
(***************************************************************************)
EXTENDS Integers, Sequences

CONSTANTS
  Contents,   \* what a block can hold; 0 is the block of zeros
  Part,       \* size of the partition, in blocks
  Shorts,     \* bytes the last block of the raw file may fall short of
  MaxRun,     \* blocks whose payload still fits the u32 total_sz of a chunk
  Olds,       \* what the partition may hold before the flash
  NPrim,      \* blocks of the primary GPT
  NBack,      \* blocks of the backup GPT
  MaxCuts     \* bound: flashes that are interrupted

BLK_SZ == 4096

ASSUME SparseAssumption ==
  /\ 0 \in Contents
  /\ Part \in Nat /\ MaxRun \in Nat \ {0} /\ MaxCuts \in Nat
  /\ Shorts \subseteq 0 .. BLK_SZ - 1
  /\ Olds \subseteq [0 .. Part - 1 -> Contents]
  /\ NPrim \in Nat \ {0} /\ NBack \in Nat \ {0} /\ NPrim + NBack < Part

VARIABLES
  kind,    \* "rootfs" (mksparse.py) or "gpt" (make-gpt-restore.py)
  raw,     \* the raw image, by block
  short,   \* bytes missing from its last block
  pc,      \* what is being done
  i,       \* the converter's block index: where the run at hand starts
  j,       \* its inner index: how far the run has been followed
  chunks,  \* the converter's list of chunks
  file,    \* the .simg: header there, whole chunks, a chunk without all its payload
  seen,    \* chunks verify has walked
  covered, \* blocks verify has counted
  n, pos,  \* the device: chunks written, block cursor
  old,     \* what the partition held before
  disk,    \* what it holds now
  cuts     \* interruptions still to come

image   == <<kind, raw, short>>
writer  == <<i, j, chunks>>
checker == <<seen, covered>>
device  == <<n, pos, old, disk, cuts>>
vars    == <<kind, raw, short, pc, i, j, chunks, file, seen, covered, n, pos, old, disk, cuts>>

Total == Len(raw)

\* Block b of the raw image, counted from 0.
Block(b) == raw[b + 1]

Chunk(t, b, c) == [type |-> t, blks |-> c, src |-> b]

NoFile == [hdr |-> FALSE, whole |-> 0, ragged |-> FALSE]

Complete == file.hdr /\ file.whole = Len(chunks)

-----------------------------------------------------------------------------
(***************************************************************************)
(* mksparse.py, convert.                                                   *)
(***************************************************************************)

StartConvert ==
  /\ pc = "start" /\ kind = "rootfs"
  /\ pc' = "walk"
  /\ UNCHANGED <<image, writer, file, checker, device>>

\* Blocks b and i go into the same chunk: both zero, or neither.
SameSort(b) == (Block(b) = 0) <=> (Block(i) = 0)

\* One turn of the outer loop: a run starts with block i.
StartRun ==
  /\ pc = "walk" /\ i < Total
  /\ j' = i + 1
  /\ pc' = "run"
  /\ UNCHANGED <<image, i, chunks, file, checker, device>>

\* Mutant: `or' for `and' in the inner loop, the run goes on past a block of the
\* other sort.
ExtendRunMixed ==
  /\ pc = "run" /\ j < Total
  /\ j' = j + 1
  /\ UNCHANGED <<image, i, chunks, pc, file, checker, device>>

\* The inner loop: the next block is of the sort of the first.
ExtendRun ==
  /\ pc = "run" /\ j < Total /\ SameSort(j)
  /\ j' = j + 1
  /\ UNCHANGED <<image, i, chunks, pc, file, checker, device>>

\* The run has ended and becomes one chunk.
EndRun ==
  /\ pc = "run" /\ (j < Total => ~SameSort(j))
  /\ chunks' = Append(chunks, Chunk(IF Block(i) = 0 THEN "DONT_CARE" ELSE "RAW", i, j - i))
  /\ i' = j
  /\ pc' = "walk"
  /\ UNCHANGED <<image, j, file, checker, device>>

\* open(simg_out, "wb") and the file header.
WriteHeader ==
  /\ pc = "walk" /\ i = Total
  /\ file' = [hdr |-> TRUE, whole |-> 0, ragged |-> FALSE]
  /\ pc' = "write"
  /\ UNCHANGED <<image, writer, checker, device>>

\* Next chunk to write fits the u32 total_sz field.
Fits(c) == c.type = "RAW" => c.blks <= MaxRun

\* Mutant: the loop that writes the chunks runs once too often.
WriteChunkOnceMore ==
  /\ pc = "write" /\ file.whole <= Len(chunks)
  /\ file' = [file EXCEPT !.whole = @ + 1]
  /\ UNCHANGED <<image, writer, pc, checker, device>>

WriteChunk ==
  /\ pc = "write" /\ file.whole < Len(chunks)
  /\ Fits(chunks[file.whole + 1])
  /\ file' = [file EXCEPT !.whole = @ + 1]
  /\ UNCHANGED <<image, writer, pc, checker, device>>

\* struct.error: the conversion ends, and what it has written so far stays.
WriteOverflow ==
  /\ pc = "write" /\ file.whole < Len(chunks)
  /\ ~Fits(chunks[file.whole + 1])
  /\ pc' = "cut"
  /\ UNCHANGED <<image, writer, file, checker, device>>

WriteDone ==
  /\ pc = "write" /\ file.whole = Len(chunks)
  /\ pc' = "ready"
  /\ UNCHANGED <<image, writer, file, checker, device>>

(***************************************************************************)
(* make-gpt-restore.py: primary GPT, everything between, backup GPT.       *)
(***************************************************************************)

\* Mutant: the span between the two copies forgets that the backup ends the disk.
MakeGptRestoreLong ==
  /\ pc = "start" /\ kind = "gpt"
  /\ chunks' = << Chunk("RAW", 0, NPrim),
                  Chunk("DONT_CARE", NPrim, Part - NPrim),
                  Chunk("RAW", Part - NBack, NBack) >>
  /\ file' = [hdr |-> TRUE, whole |-> 3, ragged |-> FALSE]
  /\ pc' = "ready"
  /\ UNCHANGED <<image, i, j, checker, device>>

MakeGptRestore ==
  /\ pc = "start" /\ kind = "gpt"
  /\ chunks' = << Chunk("RAW", 0, NPrim),
                  Chunk("DONT_CARE", NPrim, Part - NPrim - NBack),
                  Chunk("RAW", Part - NBack, NBack) >>
  /\ file' = [hdr |-> TRUE, whole |-> 3, ragged |-> FALSE]
  /\ pc' = "ready"
  /\ UNCHANGED <<image, i, j, checker, device>>

(***************************************************************************)
(* mksparse.py --verify.                                                   *)
(***************************************************************************)

\* The .simg at hand lost its end: in the header, in or before a chunk header,
\* or in the payload of a RAW chunk (external: a copy or a disk that stopped).
CutShort ==
  /\ pc = "ready" /\ kind = "rootfs"
  /\ \E h \in BOOLEAN, w \in 0 .. Len(chunks), r \in BOOLEAN :
       /\ ~h => w = 0
       /\ r => h /\ w < Len(chunks) /\ chunks[w + 1].type = "RAW"
       /\ h => w < Len(chunks)
       /\ file' = [hdr |-> h, whole |-> w, ragged |-> r]
  /\ pc' = "cut"
  /\ UNCHANGED <<image, writer, checker, device>>

VerifyStart ==
  /\ pc \in {"ready", "cut"} /\ kind = "rootfs"
  /\ pc' = IF file.hdr THEN "verify" ELSE "rejected"
  /\ UNCHANGED <<image, writer, file, checker, device>>

\* A chunk header is read and the payload skipped: a seek, which does not notice
\* the end of the file.
VerifyChunk ==
  /\ pc = "verify" /\ seen < Len(chunks)
  /\ seen < file.whole \/ (seen = file.whole /\ file.ragged)
  /\ covered' = covered + chunks[seen + 1].blks
  /\ seen' = seen + 1
  /\ UNCHANGED <<image, writer, pc, file, device>>

\* Mutant: the end of the file ends the walk, before what follows it is checked.
VerifyToTheEnd ==
  /\ pc = "verify" /\ seen < Len(chunks)
  /\ ~(seen < file.whole \/ (seen = file.whole /\ file.ragged))
  /\ pc' = "accepted"
  /\ UNCHANGED <<image, writer, file, checker, device>>

\* "truncated chunk": the header of the next chunk cannot be read.
VerifyTruncated ==
  /\ pc = "verify" /\ seen < Len(chunks)
  /\ ~(seen < file.whole \/ (seen = file.whole /\ file.ragged))
  /\ pc' = "rejected"
  /\ UNCHANGED <<image, writer, file, checker, device>>

RawSize == Total * BLK_SZ - short

\* Mutant: the raw size is rounded down to whole blocks.
RawRoundedDown == (RawSize \div BLK_SZ) * BLK_SZ

RawRounded == ((RawSize + BLK_SZ - 1) \div BLK_SZ) * BLK_SZ

VerifyEnd ==
  /\ pc = "verify" /\ seen = Len(chunks)
  /\ pc' = IF covered = Total /\ Total * BLK_SZ = RawRounded THEN "accepted" ELSE "rejected"
  /\ UNCHANGED <<image, writer, file, checker, device>>

(***************************************************************************)
(* fastboot flash: the stage-2 un-sparses (external).                      *)
(***************************************************************************)

FlashStart ==
  /\ pc = "accepted" \/ (pc = "ready" /\ kind = "gpt")
  /\ pc' = "flash"
  /\ n' = 0 /\ pos' = 0
  /\ UNCHANGED <<image, writer, file, checker, old, disk, cuts>>

\* disk with the first c blocks of the payload of chunk k written at the cursor.
Written(k, c) ==
  [b \in 0 .. Part - 1 |->
     IF k.type = "RAW" /\ pos <= b /\ b < pos + c THEN Block(k.src + (b - pos)) ELSE disk[b]]

FlashChunk ==
  /\ pc = "flash" /\ n < file.whole
  /\ disk' = Written(chunks[n + 1], chunks[n + 1].blks)
  /\ pos' = pos + chunks[n + 1].blks
  /\ n' = n + 1
  /\ UNCHANGED <<image, writer, pc, file, checker, old, cuts>>

\* A chunk whose payload is missing ends the flash with an error.
FlashShort ==
  /\ pc = "flash" /\ n = file.whole /\ n < Len(chunks)
  /\ pc' = "failed"
  /\ UNCHANGED <<image, writer, file, checker, device>>

\* Power or USB is lost inside a chunk; the wizard starts over.
FlashCut ==
  /\ pc = "flash" /\ n < file.whole /\ cuts > 0
  /\ \E c \in 0 .. chunks[n + 1].blks : disk' = Written(chunks[n + 1], c)
  /\ n' = 0 /\ pos' = 0
  /\ cuts' = cuts - 1
  /\ UNCHANGED <<image, writer, pc, file, checker, old>>

FlashDone ==
  /\ pc = "flash" /\ n = Len(chunks)
  /\ pc' = "done"
  /\ UNCHANGED <<image, writer, file, checker, device>>

-----------------------------------------------------------------------------
\* A rootfs image of any size up to the partition, or a captured GPT for the
\* whole disk.
Init ==
  /\ kind \in {"rootfs", "gpt"}
  /\ \E t \in 0 .. Part : raw \in [1 .. t -> Contents]
  /\ kind = "gpt" => Len(raw) = Part
  /\ short \in Shorts
  /\ (Len(raw) = 0 \/ kind = "gpt") => short = 0
  /\ pc = "start" /\ i = 0 /\ j = 0 /\ chunks = <<>>
  /\ file = NoFile /\ seen = 0 /\ covered = 0
  /\ n = 0 /\ pos = 0 /\ cuts = MaxCuts
  /\ old \in Olds
  /\ disk = old

Next ==
  \/ StartConvert \/ StartRun \/ ExtendRun \/ EndRun
  \/ WriteHeader \/ WriteChunk \/ WriteOverflow \/ WriteDone
  \/ MakeGptRestore \/ CutShort
  \/ VerifyStart \/ VerifyChunk \/ VerifyTruncated \/ VerifyEnd
  \/ FlashStart \/ FlashChunk \/ FlashShort \/ FlashCut \/ FlashDone

Spec == Init /\ [][Next]_vars

-----------------------------------------------------------------------------
(***************************************************************************)
(* Properties.                                                             *)
(***************************************************************************)

Stages == {"start", "walk", "run", "write", "ready", "cut", "verify", "accepted", "rejected",
           "flash", "failed", "done"}

\* Every variable keeps its type; the file never holds more chunks than there are.
TypeOK ==
  /\ kind \in {"rootfs", "gpt"} /\ raw \in Seq(Contents) /\ short \in Shorts
  /\ pc \in Stages
  /\ i \in 0 .. Total /\ j \in 0 .. Total
  /\ chunks \in Seq([type : {"RAW", "DONT_CARE"}, blks : Nat, src : Nat])
  /\ file \in [hdr : BOOLEAN, whole : 0 .. Len(chunks), ragged : BOOLEAN]
  /\ seen \in 0 .. Len(chunks) /\ covered \in Nat
  /\ n \in 0 .. Len(chunks) /\ pos \in Nat
  /\ old \in Olds /\ disk \in [0 .. Part - 1 -> Contents]
  /\ cuts \in 0 .. MaxCuts

\* The block after chunk c.
EndOf(c) == chunks[c].src + chunks[c].blks

\* The chunks are whole, in order and without gap or overlap, they stay inside
\* the image, and an image that has been walked is covered to its last block.
Tiles ==
  /\ \A c \in 1 .. Len(chunks) :
       /\ chunks[c].blks > 0
       /\ chunks[c].src = IF c = 1 THEN 0 ELSE EndOf(c - 1)
       /\ EndOf(c) <= Total
  /\ pc \notin {"start", "walk", "run"} =>
       IF chunks = <<>> THEN Total = 0 ELSE EndOf(Len(chunks)) = Total

\* The blocks an image carries: the non-zero ones, or the two copies of the GPT.
Carried(b) ==
  IF kind = "gpt" THEN b < NPrim \/ b >= Part - NBack
                  ELSE b < Total /\ Block(b) # 0

Wanted(b) == IF Carried(b) THEN Block(b) ELSE old[b]

\* However often a flash is cut and started over, no block ever holds anything
\* but its old or its wanted content, and a completed flash has written every
\* block the image carries and no other: the restored GPT leaves the U-Boot env
\* and every partition's data alone.
Delivered ==
  \A b \in 0 .. Part - 1 :
    /\ disk[b] \in {old[b], Wanted(b)}
    /\ pc = "done" => disk[b] = Wanted(b)

\* What verify accepts was converted without an overflow of total_sz and is
\* whole but for the payload of its last RAW chunk, over the end of which verify
\* seeks unaware; and a flash never completes on anything but a whole file. A
\* conversion that died of the overflow leaves a file that is never flashed.
AcceptedWhole ==
  kind = "rootfs" /\ pc \in {"accepted", "flash", "done"} =>
    /\ \A c \in 1 .. Len(chunks) : Fits(chunks[c])
    /\ Complete \/ (file.hdr /\ file.ragged /\ file.whole = Len(chunks) - 1)
    /\ pc = "done" => Complete

\* verify never turns down what convert wrote, padded tail block included.
WholeAccepted == pc = "rejected" => ~Complete
=============================================================================
