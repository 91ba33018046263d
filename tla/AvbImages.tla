------------------------------ MODULE AvbImages ------------------------------
(***************************************************************************)
(* tools/avbtool on the slot images: add_hash_footer, erase_footer,        *)
(* resize_image and make_vbmeta_image, over boot.img and dtbo.img as       *)
(* targets/<t>/boot.sh packs them.  The commands edit the image in place,  *)
(* by truncating it and appending to it, one write after another; a step   *)
(* can raise, a buffered write can get lost without raising, and the tool  *)
(* can be interrupted (Ctrl-C, kill).                                      *)
(*                                                                         *)
(* An image is a sequence of cells, BlockSize of them to a block: content  *)
(* ("0" and "1"), the vbmeta struct ("V") and, in the last cell of the     *)
(* image, the footer ("F").  What the struct and the footer say is kept    *)
(* beside the cells.  A digest is the content it was taken of.             *)
(***************************************************************************)
EXTENDS Integers, Sequences

CONSTANTS
  Parts,      \* partition names: boot, dtbo
  Inputs,     \* what mkbootimg.py or mkdtboimg.py may write
  PadSizes,   \* BOOT_PAD_SIZE values
  PartSizes,  \* --partition_size values
  BlockSize,  \* cells in a block (4096 bytes)
  MaxVbmeta,  \* MAX_VBMETA_SIZE
  VbSize,     \* the vbmeta struct as it comes out
  MaxFaults,  \* bound: steps that raise and writes that get lost
  MaxStops    \* bound: interrupted commands

Content == {"0", "1"}

ASSUME AvbAssumption ==
  /\ Inputs \subseteq Seq(Content) \ {<<>>}
  /\ PadSizes \subseteq Nat \ {0} /\ PartSizes \subseteq Nat
  /\ BlockSize \in Nat \ {0} /\ VbSize \in Nat \ {0}
  /\ MaxVbmeta \in Nat /\ MaxVbmeta % BlockSize = 0 /\ VbSize <= MaxVbmeta
  /\ MaxFaults \in Nat /\ MaxStops \in Nat

VARIABLES
  img,     \* the images: cells, and what the struct (vb) and the footer (ft) say
  vbmeta,  \* vbmeta.img: a descriptor per partition, or empty
  pc,      \* where the running command is
  cmd,     \* its arguments and locals
  result,  \* how the last command ended
  src,     \* what the packer wrote last
  harm,    \* what happened to the image since: nothing, a command cut short, a lost write
  faults, stops

vars == <<img, vbmeta, pc, cmd, result, src, harm, faults, stops>>

Zeros(k) == [c \in 1 .. k |-> "0"]

RoundUp(k) == ((k + BlockSize - 1) \div BlockSize) * BlockSize

MaxMeta == MaxVbmeta + BlockSize

\* _generate_vbmeta_blob: what it says is img[p].vb.
VbmetaBlob == [c \in 1 .. VbSize |-> "V"]

\* open(...).truncate(k): cuts, or grows with zeros.
Resized(s, k) == IF k <= Len(s) THEN SubSeq(s, 1, k) ELSE s \o Zeros(k - Len(s))

NoDesc == [size |-> 0, digest |-> <<>>]
NoFooter == [original |-> 0, offset |-> 0]
Empty == [p \in {} |-> NoDesc]

Cells(p) == img[p].cells
Size(p) == Len(Cells(p))

\* AvbFooter(image.read(AvbFooter.SIZE)) at the end of the image succeeds.
HasFooter(p) == Size(p) > 0 /\ Cells(p)[Size(p)] = "F"

\* _parse_image finds a vbmeta header at the footer's offset, or without a
\* footer at the start.
Parses(p) ==
  LET o == IF HasFooter(p) THEN img[p].ft.offset ELSE 0
  IN o < Size(p) /\ Cells(p)[o + 1] = "V"

SetCells(p, s) == img' = [img EXCEPT ![p].cells = s]

Truncate(p, k) == SetCells(p, Resized(Cells(p), k))

\* Back to what was there before the metadata.
Restore(p, k) ==
  img' = [img EXCEPT ![p] = [cells |-> Resized(Cells(p), k), vb |-> NoDesc, ft |-> NoFooter]]

-----------------------------------------------------------------------------
\* mkbootimg.py or mkdtboimg.py write the image; on the C60 `truncate -s' pads or
\* cuts it.
Pack(p, s, k) ==
  /\ pc = "idle"
  /\ img' = [img EXCEPT ![p] = [cells |-> Resized(s, k), vb |-> NoDesc, ft |-> NoFooter]]
  /\ src' = [src EXCEPT ![p] = Resized(s, k)]
  /\ harm' = [harm EXCEPT ![p] = "none"]
  /\ cmd' = [op |-> "pack", part |-> p, size |-> k, original |-> 0]
  /\ result' = "ok"
  /\ UNCHANGED <<vbmeta, pc, faults, stops>>

Call(o, p, k, l) ==
  /\ pc = "idle" /\ pc' = l
  /\ cmd' = [op |-> o, part |-> p, size |-> k, original |-> 0]
  /\ UNCHANGED <<src, harm, faults, stops>>

\* The next statement of the command.
Goto(l) == pc' = l /\ UNCHANGED <<vbmeta, result, src, harm, faults, stops>>

\* The command ends, and its locals with it.
Return(r) ==
  /\ pc' = "idle" /\ result' = r /\ cmd' = [cmd EXCEPT !.original = 0]
  /\ UNCHANGED <<src, harm, stops>>

VbmetaEnd(p) == RoundUp(img[p].ft.offset + VbSize)

P == cmd.part

(***************************************************************************)
(* add_hash_footer.                                                        *)
(***************************************************************************)

AddTooSmall(p, k) ==
  /\ k < MaxMeta
  /\ Call("add", p, k, "idle") /\ result' = "error"
  /\ UNCHANGED <<img, vbmeta>>

Add(p, k) ==
  /\ k >= MaxMeta
  /\ Call("add", p, k, "strip") /\ result' = "running"
  /\ UNCHANGED <<img, vbmeta>>

\* "If there's already a footer, truncate the image to its original size."
Strip ==
  /\ pc = "strip"
  /\ IF HasFooter(P)
     THEN Restore(P, img[P].ft.original) /\ cmd' = [cmd EXCEPT !.original = img[P].ft.original]
     ELSE UNCHANGED img /\ cmd' = [cmd EXCEPT !.original = Size(P)]
  /\ Goto("size")

\* A partition of whole blocks only; this error is outside the try.
AddRagged ==
  /\ pc = "size" /\ cmd.size % BlockSize # 0
  /\ Return("error")
  /\ UNCHANGED <<img, vbmeta, faults>>

\* Too large an image, inside it.
AddTooLarge ==
  /\ pc = "size" /\ cmd.size % BlockSize = 0
  /\ Size(P) > cmd.size - MaxMeta
  /\ Restore(P, cmd.original)
  /\ Return("error")
  /\ UNCHANGED <<vbmeta, faults>>

\* Mutant: the image is padded before it is hashed.
HashPadded ==
  /\ pc = "size" /\ cmd.size % BlockSize = 0 /\ Size(P) <= cmd.size - MaxMeta
  /\ LET s == Resized(Cells(P), RoundUp(Size(P)))
     IN img' = [img EXCEPT ![P].cells = s, ![P].vb = [size |-> Len(s), digest |-> s]]
  /\ Goto("vbmeta") /\ UNCHANGED cmd

\* The descriptor is made over the image as it is, which is then padded to a
\* whole block.
Hash ==
  /\ pc = "size" /\ cmd.size % BlockSize = 0 /\ Size(P) <= cmd.size - MaxMeta
  /\ img' = [img EXCEPT ![P].cells = Resized(@, RoundUp(Size(P))),
                        ![P].vb = [size |-> Size(P), digest |-> Cells(P)]]
  /\ Goto("vbmeta") /\ UNCHANGED cmd

\* append_raw of the struct, padded to a whole block.
AppendVbmeta ==
  /\ pc = "vbmeta"
  /\ img' = [img EXCEPT
       ![P].cells = @ \o VbmetaBlob \o Zeros(RoundUp(VbSize) - VbSize),
       ![P].ft = [original |-> cmd.original, offset |-> Size(P)]]
  /\ Goto("gap") /\ UNCHANGED cmd

\* Mutant: the block of the footer is not counted.
AppendGapLong ==
  /\ pc = "gap"
  /\ SetCells(P, Cells(P) \o Zeros(cmd.size - VbmetaEnd(P)))
  /\ Goto("footer") /\ UNCHANGED cmd

\* append_dont_care up to the last block of the partition.
AppendGap ==
  /\ pc = "gap"
  /\ SetCells(P, Cells(P) \o Zeros(cmd.size - VbmetaEnd(P) - BlockSize))
  /\ Goto("footer") /\ UNCHANGED cmd

\* append_raw of the footer's block.
AppendFooter ==
  /\ pc = "footer"
  /\ SetCells(P, Cells(P) \o Zeros(BlockSize - 1) \o <<"F">>)
  /\ Return("ok")
  /\ UNCHANGED <<vbmeta, faults>>

\* append_raw's block waits in the buffer of a file object that _read_header then
\* replaces.  If it does not fit (disk full, file size limit) the error is raised
\* in the destructor, which drops it: the command goes on without the block.
AppendLost ==
  /\ faults > 0 /\ faults' = faults - 1
  /\ harm' = [harm EXCEPT ![P] = "lost"]
  /\ \/ /\ pc = "vbmeta" /\ pc' = "gap"
        /\ img' = [img EXCEPT ![P].ft = [original |-> cmd.original, offset |-> Size(P)]]
        /\ UNCHANGED <<result, cmd>>
     \/ /\ pc = "footer" /\ pc' = "idle" /\ result' = "ok"
        /\ cmd' = [cmd EXCEPT !.original = 0]
        /\ UNCHANGED img
  /\ UNCHANGED <<vbmeta, src, stops>>

InTry == cmd.op = "add" /\ pc \in {"size", "vbmeta", "gap", "footer"} /\ cmd.size % BlockSize = 0

\* The command stopped on this image half-way.
Cut(p) == harm' = [harm EXCEPT ![p] = IF @ = "lost" THEN @ ELSE "cut"]

\* Mutant: the image is left as it is when an append fails.
AddFailsInPlace ==
  /\ InTry /\ faults > 0 /\ faults' = faults - 1
  /\ Return("error")
  /\ UNCHANGED <<img, vbmeta>>

\* "Truncate back to original size, then re-raise."  Whatever part of the write
\* reached the file goes with it.
AddFails ==
  /\ InTry /\ faults > 0 /\ faults' = faults - 1
  /\ Restore(P, cmd.original)
  /\ Return("error")
  /\ UNCHANGED vbmeta

(***************************************************************************)
(* erase_footer and resize_image.                                          *)
(***************************************************************************)

EraseFooter(p) ==
  /\ Call("erase", p, 0, "idle")
  /\ IF HasFooter(p) /\ Parses(p)
     THEN Restore(p, img[p].ft.original) /\ result' = "ok"
     ELSE UNCHANGED img /\ result' = "error"
  /\ UNCHANGED vbmeta

CanResize(p, k) ==
  k % BlockSize = 0 /\ HasFooter(p) /\ Parses(p) /\ k >= VbmetaEnd(p) + BlockSize

ResizeRefused(p, k) ==
  /\ ~CanResize(p, k)
  /\ Call("resize", p, k, "idle") /\ result' = "error"
  /\ UNCHANGED <<img, vbmeta>>

\* Cut at the end of the struct; the gap and the same footer follow.
Resize(p, k) ==
  /\ CanResize(p, k)
  /\ Call("resize", p, k, "gap") /\ result' = "running"
  /\ Truncate(p, VbmetaEnd(p))
  /\ UNCHANGED vbmeta

\* No handler here: the image stays without its footer.
ResizeFails ==
  /\ cmd.op = "resize" /\ pc \in {"gap", "footer"} /\ faults > 0 /\ faults' = faults - 1
  /\ pc' = "idle" /\ result' = "error" /\ Cut(P)
  /\ UNCHANGED <<img, vbmeta, cmd, src, stops>>

(***************************************************************************)
(* make_vbmeta_image --include_descriptors_from_image, for every image.    *)
(***************************************************************************)

\* argparse opens --output for writing: the old vbmeta.img is gone.
MakeVbmeta ==
  /\ \E p \in Parts : Call("vbmeta", p, 0, "include")
  /\ result' = "running" /\ vbmeta' = Empty
  /\ UNCHANGED img

Include ==
  /\ pc = "include" /\ \A p \in Parts : Parses(p)
  /\ vbmeta' = [p \in Parts |-> img[p].vb]
  /\ Return("ok")
  /\ UNCHANGED <<img, faults>>

\* The file is closed, and its buffer written, when the interpreter ends.
IncludeLost ==
  /\ pc = "include" /\ \A p \in Parts : Parses(p)
  /\ faults > 0 /\ faults' = faults - 1
  /\ Return("ok")
  /\ UNCHANGED <<img, vbmeta>>

\* "Given image does not look like a vbmeta image."
IncludeFails ==
  /\ pc = "include" /\ ~(\A p \in Parts : Parses(p))
  /\ Return("error")
  /\ UNCHANGED <<img, vbmeta, faults>>

\* Ctrl-C (not an Exception) or a signal, between two writes.
Interrupt ==
  /\ pc # "idle" /\ stops > 0 /\ stops' = stops - 1
  /\ pc' = "idle" /\ result' = "interrupted"
  /\ IF cmd.op = "vbmeta" THEN UNCHANGED harm ELSE Cut(P)
  /\ UNCHANGED <<img, vbmeta, cmd, src, faults>>

-----------------------------------------------------------------------------
Init ==
  /\ \E f \in [Parts -> Inputs] :
       /\ img = [p \in Parts |-> [cells |-> f[p], vb |-> NoDesc, ft |-> NoFooter]]
       /\ src = f
  /\ vbmeta = Empty
  /\ pc = "idle" /\ result = "ok" /\ harm = [p \in Parts |-> "none"]
  /\ \E p \in Parts : cmd = [op |-> "pack", part |-> p, size |-> 0, original |-> 0]
  /\ faults = MaxFaults /\ stops = MaxStops

Next ==
  \/ \E p \in Parts, s \in Inputs : \E k \in PadSizes \cup {Len(s)} : Pack(p, s, k)
  \/ \E p \in Parts, k \in PartSizes : Add(p, k) \/ AddTooSmall(p, k)
  \/ Strip \/ AddRagged \/ AddTooLarge \/ Hash \/ AppendVbmeta \/ AppendGap \/ AppendFooter
  \/ AddFails \/ AppendLost
  \/ \E p \in Parts : EraseFooter(p)
  \/ \E p \in Parts, k \in PartSizes : Resize(p, k) \/ ResizeRefused(p, k)
  \/ ResizeFails
  \/ MakeVbmeta \/ Include \/ IncludeLost \/ IncludeFails
  \/ Interrupt

Spec == Init /\ [][Next]_vars

-----------------------------------------------------------------------------
(***************************************************************************)
(* Properties.                                                             *)
(***************************************************************************)

Descs == [size : Nat, digest : Seq(Content \cup {"V", "F"})]

\* Every variable keeps its type, and no image ends up larger than the largest
\* partition or input.
TypeOK ==
  /\ \A p \in Parts :
       /\ Cells(p) \in Seq(Content \cup {"V", "F"})
       /\ img[p].vb \in Descs /\ img[p].ft \in [original : Nat, offset : Nat]
       /\ \/ \E k \in PartSizes \cup PadSizes : Size(p) <= k
          \/ \E s \in Inputs : Size(p) <= Len(s)
  /\ DOMAIN img = Parts
  /\ vbmeta \in {Empty} \cup [Parts -> Descs]
  /\ pc \in {"idle", "strip", "size", "vbmeta", "gap", "footer", "include"}
  /\ cmd.op \in {"pack", "add", "erase", "resize", "vbmeta"} /\ P \in Parts
  /\ cmd.size \in Nat /\ cmd.original \in Nat
  /\ result \in {"ok", "error", "running", "interrupted"}
  /\ src \in [Parts -> Seq(Content)] /\ harm \in [Parts -> {"none", "cut", "lost"}]
  /\ faults \in 0 .. MaxFaults /\ stops \in 0 .. MaxStops

\* As long as no write got lost, an image with a footer verifies, also one on
\* which earlier commands failed or were interrupted: the footer fills the last
\* block, the struct is where it says, and the digest is that of the content
\* before it.  A command that succeeded made the image exactly as large as the
\* partition it was given.
FooterRight ==
  /\ pc = "idle" =>
       \A p \in Parts : HasFooter(p) /\ harm[p] # "lost" =>
         /\ Size(p) % BlockSize = 0 /\ Parses(p)
         /\ img[p].ft.offset = RoundUp(img[p].vb.size) /\ img[p].ft.original = img[p].vb.size
         /\ SubSeq(Cells(p), 1, img[p].vb.size) = img[p].vb.digest
  /\ result = "ok" /\ cmd.op \in {"add", "resize"} /\ harm[P] # "lost" =>
       HasFooter(P) /\ Size(P) = cmd.size

\* "This way 'avbtool add_hash_footer' is idempotent": however often footers
\* are added, moved, erased, or fail to be added, the packed image can be had
\* back exactly, unless a command was interrupted, a resize failed or a write
\* got lost.
OriginalKept ==
  pc = "idle" =>
    \A p \in Parts : harm[p] = "none" =>
      IF HasFooter(p)
      THEN img[p].ft.original = Len(src[p]) /\ SubSeq(Cells(p), 1, Len(src[p])) = src[p]
      ELSE Cells(p) = src[p]

\* A vbmeta.img that was made describes the images in place, not a set of an
\* earlier build, and every one of them: each digest starts with all that the
\* packer wrote, and is of nothing else unless a command on that image was cut
\* short or a write got lost.  (It may then go on with what the command had
\* appended: add_hash_footer takes an image without a footer as it is.)  A
\* command that fails or is interrupted leaves an empty vbmeta.img.
DescribesPacked ==
  [][pc = "include" =>
       \/ vbmeta' = Empty
       \/ \A p \in Parts :
            LET d == vbmeta'[p]
                n == Len(src[p])
            IN /\ d.size = Len(d.digest) /\ n <= d.size /\ SubSeq(d.digest, 1, n) = src[p]
               /\ harm[p] = "none" => d.size = n]_vars
=============================================================================
