----------------------------- MODULE BootImages -----------------------------
(***************************************************************************)
(* The tools that lay out what the boot loader reads: mkinitramfs.py (the  *)
(* newc archive), mkbootimg.py (Android header v0) and mkdtboimg.py (the   *)
(* DTBO container), run in the order in which build.sh runs them, and the  *)
(* readers of the three formats.                                           *)
(*                                                                         *)
(* An image is its length and the segments [what, len] at their offsets: a *)
(* header with its fields, a name, a file's content, padding.  Sizes and   *)
(* addresses are the real ones, all below 2^31, so u32 loses nothing.  A   *)
(* reader knows only what the headers say and finds a segment when it      *)
(* looks at its offset.                                                    *)
(***************************************************************************)
EXTENDS Integers, Sequences

CONSTANTS
  Targets,            \* "tc8" (kernel, ramdisk), "tc8-noramdisk", "c60" (kernel, DTB)
  InitSizes, BusyboxSizes, GzSizes, KernelSizes, DtbSizes,
  CmdSizes,           \* lengths of the kernel command line
  Pages,              \* --pagesize
  HeaderVersions      \* --header_version

HdrSize == 1632       \* struct andr_boot_img_hdr_v0

ASSUME PagesAssumption ==
  /\ \A p \in Pages : p \in Nat /\ p >= HdrSize
  /\ \A s \in InitSizes \cup BusyboxSizes \cup GzSizes \cup KernelSizes \cup DtbSizes :
       s \in Nat \ {0}
  /\ CmdSizes \subseteq Nat

VARIABLES
  pc, target,
  tree,     \* the entries main() puts into the archive
  calls,    \* the ones still to add
  blob,     \* Cpio.blob
  ino,      \* Cpio.ino
  rd,       \* the kernel unpacking it: its offset, the entries made so far
  ramdisk, boot, dtbo,     \* the output files, Empty while there is none
  args      \* what mkbootimg was given

imageVars == <<pc, target, tree, calls, blob, ino, rd, ramdisk, boot, dtbo, args>>

Seg(w, n) == [what |-> w, len |-> n]
Align(n, a) == ((n + a - 1) \div a) * a

Empty == [len |-> 0, at |-> <<>>]

\* img += n bytes of what.
Add(img, what, n) ==
  IF n = 0 THEN img
  ELSE [len |-> img.len + n,
        at |-> [o \in DOMAIN img.at \cup {img.len} |->
                  IF o = img.len THEN Seg(what, n) ELSE img.at[o]]]

\* What a reader finds at an offset.
At(img, off) == IF off \in DOMAIN img.at THEN img.at[off] ELSE Seg(<<"nothing">>, 0)

NoArgs == [kernel |-> 0, ramdisk |-> 0, second |-> 0, cmd |-> 0]
Unread == [off |-> 0, made |-> <<>>]

ImagesInit ==
  /\ target \in Targets
  /\ pc = IF target = "tc8" THEN "mkinitramfs" ELSE "mkbootimg"
  /\ tree = <<>> /\ calls = <<>> /\ blob = Empty /\ ino = 720 /\ rd = Unread
  /\ ramdisk = Empty /\ boot = Empty /\ dtbo = Empty /\ args = NoArgs

Exit ==
  /\ pc' = "failed"
  /\ UNCHANGED <<target, tree, calls, blob, ino, rd, ramdisk, boot, dtbo, args>>

-----------------------------------------------------------------------------
(* mkinitramfs.py                                                          *)

Dirs == <<"dev", "proc", "sys", "bin", "mnt", "lower", "rw", "newroot", "persist">>

NameLen(n) ==
  CASE n \in {"rw"} -> 2
    [] n \in {"dev", "sys", "bin", "mnt"} -> 3
    [] n \in {"proc", "init"} -> 4
    [] n \in {"lower"} -> 5
    [] n \in {"newroot", "persist"} -> 7
    [] n \in {"dev/null"} -> 8
    [] n \in {"TRAILER!!!"} -> 10
    [] OTHER -> 11

Parent(n) ==
  CASE n \in {"dev/console", "dev/null"} -> "dev"
    [] n = "bin/busybox" -> "bin"
    [] OTHER -> "/"

Call(op, name, size) == [op |-> op, name |-> name, size |-> size]

\* The tree main() puts into the archive.
Tree(init, busybox) ==
  [i \in DOMAIN Dirs |-> Call("dir", Dirs[i], 0)]
    \o <<Call("chardev", "dev/console", 0), Call("chardev", "dev/null", 0),
         Call("file", "bin/busybox", busybox), Call("file", "init", init)>>

\* main() exits unless init is a script and busybox an ELF file for aarch64.
StartInitramfs ==
  /\ pc = "mkinitramfs"
  /\ \/ Exit
     \/ \E init \in InitSizes, busybox \in BusyboxSizes :
          /\ tree' = Tree(init, busybox)
          /\ calls' = tree'
          /\ pc' = "cpio"
          /\ UNCHANGED <<target, blob, ino, rd, ramdisk, boot, dtbo, args>>

\* Mutant: the length already padded is forgotten.
pad4None(b) == b

pad4(b) == Add(b, <<"pad">>, Align(b.len, 4) - b.len)

\* Cpio._entry: header (what it is, size, length of the name, inode), name with
\* its NUL, padding, data, padding.
entry(c) ==
  LET n == NameLen(c.name) + 1
      hdr == Add(blob, <<"070701", c.op, c.size, n, ino + 1>>, 110)
      named == pad4(Add(hdr, <<"name", c.name>>, n))
  IN  pad4(Add(named, <<"data", c.name>>, c.size))

\* Mutant: ino is not counted up.
AddEntrySameIno ==
  /\ pc = "cpio" /\ calls # <<>>
  /\ blob' = entry(Head(calls))
  /\ calls' = Tail(calls)
  /\ UNCHANGED <<pc, target, tree, ino, rd, ramdisk, boot, dtbo, args>>

\* One of Cpio.dir, Cpio.chardev and Cpio.file.
AddEntry ==
  /\ pc = "cpio" /\ calls # <<>>
  /\ blob' = entry(Head(calls))
  /\ ino' = ino + 1
  /\ calls' = Tail(calls)
  /\ UNCHANGED <<pc, target, tree, rd, ramdisk, boot, dtbo, args>>

TrailerCall == Call("trailer", "TRAILER!!!", 0)

\* Cpio.trailer, with the padding to 512.
trailer ==
  LET b == entry(TrailerCall)
  IN  Add(b, <<"pad">>, Align(b.len, 512) - b.len)

\* The trailer, gzip and the write.
WriteInitramfs ==
  /\ pc = "cpio" /\ calls = <<>>
  /\ blob' = trailer
  /\ ino' = ino + 1
  /\ \E g \in GzSizes : ramdisk' = Add(Empty, <<"gzip">>, g)
  /\ pc' = "unpack"
  /\ UNCHANGED <<target, tree, calls, rd, boot, dtbo, args>>

\* External: the kernel has come to a header that is not the trailer's, or to
\* the trailer.
AtName(name) ==
  /\ At(blob, rd.off).what[1] = "070701"
  /\ At(blob, rd.off + 110).what = <<"name", name>>
AtEntry == At(blob, rd.off).what[1] = "070701" /\ ~AtName("TRAILER!!!")

\* External: it goes on with the sizes in the header, and makes an entry only
\* where its directory already is.
UnpackEntry ==
  LET h == At(blob, rd.off).what
      name == At(blob, rd.off + 110).what[2]
      data == Align(rd.off + 110 + h[4], 4)
      size == h[3]
      made == /\ Parent(name) \in {"/"} \cup {rd.made[j].name : j \in DOMAIN rd.made}
              /\ size = 0 \/ At(blob, data) = Seg(<<"data", name>>, size)
  IN  /\ pc = "unpack" /\ AtEntry
      /\ rd' = [off |-> Align(data + size, 4),
                made |-> IF made THEN Append(rd.made, Call(h[2], name, size)) ELSE rd.made]
      /\ UNCHANGED <<pc, target, tree, calls, blob, ino, ramdisk, boot, dtbo, args>>

\* External: at the trailer, or where there is no header, it stops.
UnpackEnd ==
  /\ pc = "unpack" /\ ~AtEntry
  /\ pc' = "unpacked"
  /\ UNCHANGED <<target, tree, calls, blob, ino, rd, ramdisk, boot, dtbo, args>>

-----------------------------------------------------------------------------
(* mkbootimg.py                                                            *)

pad(img, what, n, page) == Add(Add(img, what, n), <<"pad">>, Align(n, page) - n)

BOOT_BASE == 1073741824            \* 0x40000000
BOOT_KERNEL_OFFSET == 524288       \* 0x00080000
\* 0x03000000 on the C60, 0x01000000 on the TC8
BOOT_RAMDISK_OFFSET(t) == IF t = "c60" THEN 50331648 ELSE 16777216
\* C60: --second_offset is BOOT_TAGS_OFFSET, 0x03400000; TC8: the default
SECOND_OFFSET(t) == IF t = "c60" THEN 54525952 ELSE 15728640
BOOT_PARTITION_SIZE == 50331648    \* boot_a, 48 MiB

\* Mutant: the second part is given the kernel's address.
HeaderSecondLow(t, a, page) ==
  [kernel |-> [size |-> a.kernel, addr |-> BOOT_BASE + BOOT_KERNEL_OFFSET],
   ramdisk |-> [size |-> a.ramdisk, addr |-> BOOT_BASE + BOOT_RAMDISK_OFFSET(t)],
   second |-> [size |-> a.second, addr |-> BOOT_BASE + BOOT_KERNEL_OFFSET],
   page |-> page, cmdline |-> IF a.cmd > 512 THEN 512 ELSE a.cmd,
   extra |-> IF a.cmd > 512 THEN a.cmd - 512 ELSE 0]

\* The header for target t and arguments a.
Header(t, a, page) ==
  [kernel |-> [size |-> a.kernel, addr |-> BOOT_BASE + BOOT_KERNEL_OFFSET],
   ramdisk |-> [size |-> a.ramdisk, addr |-> BOOT_BASE + BOOT_RAMDISK_OFFSET(t)],
   second |-> [size |-> a.second, addr |-> BOOT_BASE + SECOND_OFFSET(t)],
   page |-> page, cmdline |-> IF a.cmd > 512 THEN 512 ELSE a.cmd,
   extra |-> IF a.cmd > 512 THEN a.cmd - 512 ELSE 0]

\* Mutant: the parts are concatenated first and padded once.
LayoutPacked(h) ==
  pad(Add(Add(pad(Empty, <<"header", h>>, HdrSize, h.page),
              <<"kernel">>, h.kernel.size),
          <<"gzip">>, h.ramdisk.size),
      <<"second">>, h.second.size, h.page)

Layout(h) ==
  pad(pad(pad(pad(Empty, <<"header", h>>, HdrSize, h.page),
              <<"kernel">>, h.kernel.size, h.page),
          <<"gzip">>, h.ramdisk.size, h.page),
      <<"second">>, h.second.size, h.page)

\* The refusals of main(), and the image.
mkbootimg ==
  /\ pc = "mkbootimg"
  /\ \E k \in KernelSizes, s \in DtbSizes, cmd \in CmdSizes, page \in Pages,
        v \in HeaderVersions :
       LET a == [kernel |-> k, ramdisk |-> ramdisk.len,
                 second |-> IF target = "c60" THEN s ELSE 0, cmd |-> cmd]
       IN  \/ (v # 0 \/ cmd > 512 + 1024) /\ Exit
           \/ /\ v = 0 /\ cmd <= 512 + 1024
              /\ boot' = Layout(Header(target, a, page))
              /\ args' = a
              /\ pc' = "mkdtboimg"
              /\ UNCHANGED <<target, tree, calls, blob, ino, rd, ramdisk, dtbo>>

\* External: the loader computes offsets from the sizes in the header.
Loads(part) ==
  LET h == At(boot, 0).what[2]
      k == h.page
      r == k + Align(h.kernel.size, h.page)
      s == r + Align(h.ramdisk.size, h.page)
      found == CASE part = "kernel" -> At(boot, k)
                 [] part = "ramdisk" -> At(boot, r)
                 [] part = "second" -> At(boot, s)
  IN  IF h[part].size = 0 THEN Seg(<<"nothing">>, 0) ELSE found

\* External: boota puts a ramdisk that overlaps the kernel 64 MiB above it.
Region(part) ==
  LET h == At(boot, 0).what[2]
      moved == /\ part = "ramdisk"
               /\ h.ramdisk.addr < h.kernel.addr + h.kernel.size
      lo == IF moved THEN h.kernel.addr + 67108864 ELSE h[part].addr
  IN  [lo |-> lo, hi |-> lo + h[part].size]

-----------------------------------------------------------------------------
(* mkdtboimg.py                                                            *)

DT_OFFSET == 64

Dtbo(n) ==
  Add(Add(Add(Empty, <<"d7b7ab1e", DT_OFFSET + n>>, 32), <<"entry", n, DT_OFFSET>>, 32),
      <<"dtb">>, n)

\* No output path, or no FDT: nothing is written.
mkdtboimg ==
  /\ pc = "mkdtboimg"
  /\ \/ Exit
     \/ \E n \in DtbSizes :
          /\ dtbo' = Dtbo(n)
          /\ pc' = "done"
          /\ UNCHANGED <<target, tree, calls, blob, ino, rd, ramdisk, boot, args>>

\* build.sh goes on to pack the boot image.
NextTool ==
  /\ pc = "unpacked"
  /\ pc' = "mkbootimg"
  /\ tree' = <<>> /\ blob' = Empty /\ ino' = 720 /\ rd' = Unread
  /\ UNCHANGED <<target, calls, ramdisk, boot, dtbo, args>>

ImagesNext ==
  \/ StartInitramfs \/ AddEntry \/ WriteInitramfs \/ UnpackEntry \/ UnpackEnd \/ NextTool
  \/ mkbootimg \/ mkdtboimg

ImagesSpec == ImagesInit /\ [][ImagesNext]_imageVars

-----------------------------------------------------------------------------

\* Every segment has a length and ends in the image.
IsImage(img) ==
  /\ img.len \in Nat
  /\ \A o \in DOMAIN img.at :
       o \in Nat /\ img.at[o].len \in Nat \ {0} /\ o + img.at[o].len <= img.len

\* The files are images, inode numbers count the entries.
TypeOK ==
  /\ pc \in {"mkinitramfs", "cpio", "unpack", "unpacked", "mkbootimg", "mkdtboimg", "done", "failed"}
  /\ target \in Targets
  /\ IsImage(blob) /\ IsImage(ramdisk) /\ IsImage(boot) /\ IsImage(dtbo)
  /\ pc = "cpio" => ino = 720 + Len(tree) - Len(calls)

\* The kernel unpacks exactly the tree of main(), whatever the sizes of init
\* and busybox are modulo 4: every entry is where the one before it says, every
\* directory before what is in it, and the trailer is reached.
UnpacksTree == pc = "unpacked" => rd.made = tree /\ AtName("TRAILER!!!")

\* The loader finds kernel, ramdisk and DTB whole where the page arithmetic of
\* the header puts them, the two halves of the command line add up, and the
\* DTBO container's entry leads to the whole DTB.
LoaderFindsParts ==
  /\ boot # Empty =>
       /\ Loads("kernel") = Seg(<<"kernel">>, args.kernel)
       /\ Loads("ramdisk") = At(ramdisk, 0)
       /\ args.second > 0 => Loads("second") = Seg(<<"second">>, args.second)
       /\ LET h == At(boot, 0).what[2]
          IN  h.cmdline <= 512 /\ h.extra <= 1024 /\ h.cmdline + h.extra = args.cmd
  /\ dtbo # Empty =>
       LET e == At(dtbo, 32)
       IN  /\ At(dtbo, 0).what = <<"d7b7ab1e", dtbo.len>>
           /\ At(dtbo, e.what[3]) = Seg(<<"dtb">>, e.what[2])

\* The loader copies no part over another one, for every boot image that fits
\* the partition as mkbootimg wrote it: on the C60 the DTB lies above the largest
\* such kernel, on the TC8 the stage-2 moves the ramdisk away.  (avbtool refuses
\* a larger image on the TC8; the C60 recipe cuts it first, and it boots no more.)
PartsApart ==
  boot # Empty /\ boot.len <= BOOT_PARTITION_SIZE =>
    \A p, q \in {"kernel", "ramdisk", "second"} :
      p # q /\ args[p] > 0 /\ args[q] > 0 =>
        Region(p).hi <= Region(q).lo \/ Region(q).hi <= Region(p).lo
=============================================================================
