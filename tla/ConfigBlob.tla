----------------------------- MODULE ConfigBlob -----------------------------
(***************************************************************************)
(* tools/mkconfigblob.py: the image for the `cache` partition, pushed over *)
(* fastboot again and again onto what earlier pushes left there, and the   *)
(* two readers of the partition in the rootfs.                             *)
(*                                                                         *)
(* The partition is cut into cells.  A cell is <<kind, push, n>>: the      *)
(* header of a config ("cfg", with the number of payload cells) or of a    *)
(* bootloader ("bl"), the n-th cell of a payload ("pay") or of a stage-2   *)
(* ("img"), or zeros.  A digest matches when exactly the cells of that     *)
(* push follow.  The 64-byte config header takes a cell of its own.        *)
(***************************************************************************)
EXTENDS Integers, Sequences, SequencesExt, FiniteSetsExt

CONSTANTS
  BL_HDR_OFF,       \* 1 MiB, in cells
  PayloadSizes,     \* cells of config payload
  ImageSizes,       \* cells of stage-2, 0 for a push without --bootloader
  Size,             \* cells of the partition
  MaxPushes, MaxCuts

BL_IMG_OFF == BL_HDR_OFF + 1

ASSUME LayoutAssumption ==
  /\ BL_HDR_OFF \in Nat \ {0}
  /\ PayloadSizes \subseteq Nat \ {0} /\ ImageSizes \subseteq Nat /\ Size \in Nat
  /\ \A n \in PayloadSizes, k \in ImageSizes : Size >= Max({n + 1, BL_IMG_OFF + k})

VARIABLES
  cache,      \* the cells of the partition
  out,        \* the file mkconfigblob.py wrote
  push,       \* the last push that was built: number, payload and image size
  last,       \* history: the last one, if it was flashed as a whole, whose
              \* stage-2 was staged before it, and whether its config is
              \* applied; id 0 if there is none
  config,     \* number of the push whose config is applied
  boot1,      \* number of the push whose stage-2 is in boot1
  cuts

vars == <<cache, out, push, last, config, boot1, cuts>>

Zero == <<"zero", 0, 0>>
Zeros(n) == [i \in 1..n |-> Zero]

None == [id |-> 0, payload |-> 0, image |-> 0, older |-> 0, used |-> FALSE]

Init ==
  /\ cache = Zeros(Size)
  /\ out = <<>> /\ push = [id |-> 0, payload |-> 0, image |-> 0]
  /\ last = None /\ config = 0 /\ boot1 = 0 /\ cuts = 0

\* buf[off:off + len(s)] = s: a bytearray grows when s ends behind it.
Put(buf, off, s) ==
  [i \in 1..Max({Len(buf), off + Len(s)}) |->
     IF i \in (off + 1)..(off + Len(s)) THEN s[i - off] ELSE buf[i]]

Cells(kind, id, n) == [i \in 1..n |-> <<kind, id, i>>]

cfg_blob(id, n) == <<<<"cfg", id, n>>>> \o Cells("pay", id, n)

\* Mutant: the config goes in last.
CacheImageConfigLast(id, n, k) ==
  IF k = 0 THEN cfg_blob(id, n)
  ELSE Put(Put(Put(Zeros(BL_IMG_OFF + k), BL_HDR_OFF, <<<<"bl", id, k>>>>),
               BL_IMG_OFF, Cells("img", id, k)),
           0, cfg_blob(id, n))

\* main: the config alone, or config, bootloader header and image in one
\* buffer of zeros.
CacheImage(id, n, k) ==
  IF k = 0 THEN cfg_blob(id, n)
  ELSE Put(Put(Put(Zeros(BL_IMG_OFF + k), 0, cfg_blob(id, n)),
               BL_HDR_OFF, <<<<"bl", id, k>>>>),
           BL_IMG_OFF, Cells("img", id, k))

Build ==
  /\ push.id < MaxPushes /\ out = <<>>
  /\ \E n \in PayloadSizes, k \in ImageSizes :
       /\ push' = [id |-> push.id + 1, payload |-> n, image |-> k]
       /\ out' = CacheImage(push.id + 1, n, k)
  /\ UNCHANGED <<cache, last, config, boot1, cuts>>

\* What apply-config.sh and update-bootloader.sh (external) find at an offset: the
\* push whose blob is whole there, 0 if there is none.
Staged(magic, at, kind, from) ==
  LET h == cache[at + 1]
  IN  IF /\ h[1] = magic /\ from + h[3] <= Size
         /\ SubSeq(cache, from + 1, from + h[3]) = Cells(kind, h[2], h[3])
      THEN h[2] ELSE 0

StagedConfig == Staged("cfg", 0, "pay", 1)
StagedBootloader == Staged("bl", BL_HDR_OFF, "img", BL_IMG_OFF)

\* fastboot flash cache: what lies behind the image stays as it was.
Flash ==
  /\ out # <<>>
  /\ cache' = Put(cache, 0, out)
  /\ out' = <<>>
  /\ last' = [id |-> push.id, payload |-> push.payload, image |-> push.image,
              older |-> StagedBootloader, used |-> FALSE]
  /\ UNCHANGED <<push, config, boot1, cuts>>

\* Power or cable goes after some cells.
FlashCut ==
  /\ out # <<>> /\ cuts < MaxCuts
  /\ \E j \in 0..(Len(out) - 1) : cache' = Put(cache, 0, SubSeq(out, 1, j))
  /\ out' = <<>> /\ cuts' = cuts + 1
  /\ last' = None
  /\ UNCHANGED <<push, config, boot1>>

\* A valid config is applied and its header zeroed.
ApplyConfig ==
  /\ out = <<>> /\ StagedConfig # 0
  /\ config' = StagedConfig
  /\ cache' = [cache EXCEPT ![1] = Zero]
  /\ last' = [id |-> last.id, payload |-> last.payload, image |-> last.image,
              older |-> last.older, used |-> last.id # 0]
  /\ UNCHANGED <<out, push, boot1, cuts>>

\* A valid stage-2 that differs from boot1 is written there; it stays staged.
UpdateBootloader ==
  /\ out = <<>> /\ StagedBootloader \notin {0, boot1}
  /\ boot1' = StagedBootloader
  /\ UNCHANGED <<cache, out, push, last, config, cuts>>

Next == Build \/ Flash \/ FlashCut \/ ApplyConfig \/ UpdateBootloader

Spec == Init /\ [][Next]_vars

-----------------------------------------------------------------------------

\* Does the config of the last push end below the bootloader header?
Below == 1 + last.payload <= BL_HDR_OFF

\* What both readers find after a push that was flashed whole, whatever earlier
\* pushes, longer ones and interrupted ones included, left in the partition:
\* - the stage-2 of that push for as long as no other is flashed, before and after
\*   the config is consumed.  After a config-only push the updater finds what it
\*   would have found before it (CONFIG-PARTITION.md:47-48 has it find nothing),
\*   or nothing if the payload went over it;
\* - the config until it is consumed, unless the bootloader header of the same
\*   push went over it (CONFIG-PARTITION.md:46 allows such a payload): then none;
\* - once the config is consumed, that config is the one applied, and none is
\*   found again.
PushArrives ==
  last.id # 0 =>
    /\ StagedBootloader = IF last.image > 0 THEN last.id
                          ELSE IF Below THEN last.older ELSE 0
    /\ StagedConfig = IF ~last.used /\ (last.image = 0 \/ Below) THEN last.id ELSE 0
    /\ last.used => config = last.id
=============================================================================
