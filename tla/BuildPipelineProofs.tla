------------------------- MODULE BuildPipelineProofs -------------------------
(***************************************************************************)
(* Proofs about BuildPipeline, for every set of command lines, every set   *)
(* of kernel sizes and every number of source versions, runs and aborted   *)
(* runs.                                                                   *)
(***************************************************************************)
EXTENDS BuildPipeline, TLAPS

(***************************************************************************)
(* The inductive invariant, in parts.  Each stage of build.sh adds a fact  *)
(* about the files made so far in this run; the facts that the finished    *)
(* set is judged by survive to the end of the run.                         *)
(***************************************************************************)

\* The stages after each of the files is made, up to the end of the run.
AfterBoot     == {"dtbo", "footer", "vbmeta", "version", "sums"}
AfterCopy     == {"ramdisk", "profiles"} \cup AfterBoot
AfterRootfs   == {"deliver", "copy"} \cup AfterCopy
AfterKernel   == {"rootfs"} \cup AfterRootfs
AfterTarballs == {"kernel", "remove", "patch", "kdtb"} \cup AfterKernel

\* The workflow's stages.
Release == {"check", "assemble", "published"}

\* The outcome tells whether a run is under way, only the workflow's runner goes
\* on after the build, and no patch was refused.
Outcome ==
  /\ outcome # "patch"
  /\ pc \in Building => outcome = "running"
  /\ pc \in Release  => outcome = "ok" /\ ci
  /\ pc = "idle"     => outcome # "running"

Delivered == IF Model = "booti" THEN File("rootfs.img.zst") ELSE Simg("")

\* What boot.img carries beside the kernel.
Extra == IF Model = "booti" THEN out[Dtb(opt.target)]
         ELSE IF Ramdisk THEN out[File("initramfs")] ELSE Absent

\* While the series is applied the tree holds the patches up to the next one, and
\* the files that they create and no others of the series.
TreeMade ==
  /\ pc = "remove" => tree.mods = {}
  /\ pc = "patch" =>
       /\ patch \in 1 .. (Len(Series) + 1)
       /\ tree.mods = {Patch(i) : i \in 1 .. (patch - 1)}
       /\ \A i \in DOMAIN Series : \A f \in Series[i] :
            tree.new[f] = IF i < patch THEN <<opt.target, head>> ELSE Absent
  /\ pc = "kdtb" => Own

\* A kernel and a dtb of this run's target, from version v of the sources.
FreshImage(k, v) == k \in [dev : {opt.target}, ver : {v}, size : KSizes]

Fresh(k, d, v) == FreshImage(k, v) /\ d = [dev |-> opt.target, ver |-> v]

Small(f) == out[f].size <= ROOTFS_PARTITION_SIZE[opt.target]

\* Is boot.img cut?
Cut == Model = "booti" /\ BootSize(out[File("Image")]) > BOOT_PAD_SIZE

\* The kernel stage's files, unless they were to be reused, and their copies.
KernelMade ==
  ~opt.skipKernel =>
    /\ pc = "kdtb" => FreshImage(out[File("kernel/Image")], head)
    /\ pc \in {"rootfs", "deliver", "copy"} =>
         Fresh(out[File("kernel/Image")], out[KDtb(opt.target)], head)
    /\ pc \in AfterCopy => Fresh(out[File("Image")], out[Dtb(opt.target)], head)
    /\ Finished => Fresh(out[File("Image")], out[Dtb(opt.target)], out[File("version.env")].ver)

\* The rootfs images that fit their partition: the plain one and those of the
\* os-profiles that are no longer to do.
RootfsMade ==
  /\ pc \in AfterRootfs \/ Finished => Small(Img(""))
  /\ pc \in {"profiles"} \cup AfterBoot => \A p \in Extras \ todo : Small(Img(p))
  /\ pc \in {"tarballs", "kernel", "remove", "patch", "kdtb", "rootfs", "deliver", "copy",
            "ramdisk"} => todo = opt.profiles
  /\ pc \in AfterBoot => todo = {}

\* The flashable form of the rootfs is made from the image beside it.
RootfsDelivered ==
  pc \in {"copy"} \cup AfterCopy \/ Finished => out[Delivered] = [of |-> out[Img("")]]

\* boot.img, dtbo.img and vbmeta.img, each made from the files beside it.
BootMade ==
  /\ pc \in AfterBoot \/ Finished =>
       out[File("boot.img")] \in
         [kernel : {out[File("Image")]}, extra : {Extra}, cut : {Cut}, footer : BOOLEAN]
  /\ pc \in {"footer", "vbmeta", "version", "sums"} \/ Finished =>
       out[File("dtbo.img")] \in [dtb : {out[Dtb(opt.target)]}, footer : BOOLEAN]
  /\ pc \in {"version", "sums"} \/ Finished =>
       out[File("vbmeta.img")] =
         [boot |-> out[File("boot.img")], dtbo |-> out[File("dtbo.img")]]

\* version.env is there when the sums are taken.
Stamped == pc = "sums" => out[File("version.env")].ver = head

\* What is listed is one set; after a run that finished, it is that run's.
SumsSound(o) == \A t \in Targets : Dtb(t) \in DOMAIN o => SetOf(o, t)

Summed ==
  /\ SumsSound(sums)
  /\ Finished => Dtb(opt.target) \in DOMAIN sums /\ \A f \in DOMAIN sums : out[f] = sums[f]

\* The runner builds once, in a fresh checkout, with the workflow's command line.
Runner ==
  ci =>
    /\ opt = ReleaseRun
    /\ runs = 0 => pc = "idle" /\ outcome = "none"
    /\ runs = 0 \/ pc = "tarballs" => tar[""] = Absent
    /\ pc \in AfterTarballs => tar[""] = [dev |-> "tc8", ver |-> head]
    /\ pc \in AfterRootfs \cup Release => out[Img("")].tar = [dev |-> "tc8", ver |-> head]
    /\ pc \in Release => out[File("version.env")].ver = head
    /\ pc \in {"assemble", "published"} => KSize(out[File("Image")]) <= BOOTM_LEN
    /\ pc = "published" => assets = [f \in Assets |-> out[f]]

IInv ==
  /\ TypeOK /\ Outcome /\ TreeMade
  /\ KernelMade /\ RootfsMade /\ RootfsDelivered /\ BootMade
  /\ Stamped /\ Summed /\ Runner

-----------------------------------------------------------------------------
Kinds == {"kernel/Image", "Image", "rootfs.img.zst", "initramfs", "boot.img", "dtbo.img",
          "vbmeta.img", "version.env"}

LEMMA NamesOf ==
  /\ \A k \in Kinds : File(k) \in Names
  /\ \A t \in Targets : KDtb(t) \in Names /\ Dtb(t) \in Names
  /\ \A p \in Profiles \cup {""} : Img(p) \in Names /\ Simg(p) \in Names
  BY Zenon DEF Names, Kinds

\* Two files of out/<profile> are the same only when they have the same kind and
\* vary with the same target or os-profile.
LEMMA NamesApart ==
  /\ \A k, l \in Kinds : File(k) = File(l) => k = l
  /\ \A k \in Kinds : \A x : File(k) \notin {KDtb(x), Dtb(x), Img(x), Simg(x)}
  /\ \A x, y : KDtb(x) \notin {Dtb(y), Img(y), Simg(y)} /\ (KDtb(x) = KDtb(y) => x = y)
  /\ \A x, y : Dtb(x) \notin {Img(y), Simg(y)} /\ (Dtb(x) = Dtb(y) => x = y)
  /\ \A x, y : Img(x) # Simg(y) /\ (Img(x) = Img(y) => x = y) /\ (Simg(x) = Simg(y) => x = y)
<1>1. \A k, l \in Kinds : File(k) = File(l) => k = l
  BY DEF File
<1>2. \A k \in Kinds : \A x : File(k) \notin {KDtb(x), Dtb(x), Img(x), Simg(x)}
  BY DEF File, KDtb, Dtb, Img, Simg, Kinds
<1>3. \A x, y : KDtb(x) \notin {Dtb(y), Img(y), Simg(y)} /\ (KDtb(x) = KDtb(y) => x = y)
  BY DEF KDtb, Dtb, Img, Simg
<1>4. \A x, y : Dtb(x) \notin {Img(y), Simg(y)} /\ (Dtb(x) = Dtb(y) => x = y)
  BY DEF Dtb, Img, Simg
<1>5. \A x, y : Img(x) # Simg(y) /\ (Img(x) = Img(y) => x = y) /\ (Simg(x) = Simg(y) => x = y)
  BY DEF Img, Simg
<1> QED
  BY <1>1, <1>2, <1>3, <1>4, <1>5

\* The files a stage writes, against the ones that the facts established by the
\* earlier stages are about.
LEMMA Untouched ==
  ASSUME NEW t, NEW p
  PROVE  /\ Img(p) \notin {File("kernel/Image"), KDtb(t), File("Image"), File("initramfs"), Dtb(t)}
         /\ Simg(p) \notin {File("kernel/Image"), KDtb(t), File("Image"), File("initramfs"),
                            Dtb(t), Img("")}
         /\ KDtb(t) # File("kernel/Image")
         /\ File("rootfs.img.zst") \notin {File("kernel/Image"), KDtb(t), Img(p), Simg(p)}
         /\ File("Image") \notin {Img(p), Simg(p), File("rootfs.img.zst"), Dtb(t)}
         /\ Dtb(t) \notin {Img(p), Simg(p), File("rootfs.img.zst"), File("Image")}
         /\ File("initramfs") \notin {File("Image"), Dtb(t), Img(p), Simg(p),
                                      File("rootfs.img.zst")}
         /\ \A k \in {"boot.img", "dtbo.img", "vbmeta.img", "version.env"} :
              File(k) \notin {File("Image"), File("initramfs"), Dtb(t), Img(p), Simg(p),
                              File("rootfs.img.zst")}
         /\ File("dtbo.img") # File("boot.img")
         /\ File("vbmeta.img") \notin {File("boot.img"), File("dtbo.img")}
         /\ File("version.env") \notin {File("boot.img"), File("dtbo.img"), File("vbmeta.img")}
  BY DEF File, KDtb, Dtb, Img, Simg

LEMMA Bounds == MaxVer \in Nat \ {0} /\ MaxRuns \in Nat /\ MaxAborts \in Nat
  BY PipelineAssumption
  
\* Command lines are those of Options and the workflow's.
LEMMA OptRuns == Options \cup {ReleaseRun} \subseteq Runs
<1>1. ReleaseRun \in Runs
  BY DEF ReleaseRun, Runs, Targets, Profiles
<1> QED
  BY <1>1, PipelineAssumption

LEMMA TypeInit == Init => TypeOK
<1> SUFFICES ASSUME Init PROVE TypeOK
  OBVIOUS
<1>0. /\ ci \in BOOLEAN /\ tar \in [Profiles \cup {""} -> Tarballs \cup {Absent}] /\ patch \in Nat
      /\ tree \in [mods : SUBSET (Targets \X (1 .. MaxVer) \X Nat),
                   new  : [NewPaths -> (Targets \X (1 .. MaxVer)) \cup {Absent}]]
  BY DEF Init
<1>1. head \in 1 .. MaxVer /\ runs \in 0 .. MaxRuns /\ aborts \in 0 .. MaxAborts
  <2>1. head = 1 /\ runs = 0 /\ aborts = MaxAborts
    BY DEF Init
  <2> QED
    BY <2>1, Bounds
<1>2. /\ DOMAIN out = Names
      /\ \A k \in {"kernel/Image", "Image"} : out[File(k)] = Absent
      /\ \A t \in Targets : out[KDtb(t)] = Absent /\ out[Dtb(t)] = Absent
  BY NamesOf, NamesApart DEF Init, Kinds
<1>3. /\ DOMAIN sums \subseteq Names /\ DOMAIN assets \subseteq Assets
      /\ opt \in Options \cup {ReleaseRun} /\ todo \subseteq opt.profiles
      /\ pc = "idle" /\ outcome = "none"
  BY DEF Init, NoFiles
<1> QED
  BY <1>0, <1>1, <1>2, <1>3 DEF TypeOK

(***************************************************************************)
(* Type correctness, in two halves: the kernels and dtbs in out/, and the  *)
(* rest of the state.                                                      *)
(***************************************************************************)

Dtbs(t, v) == [dev : {t}, ver : 1 .. v] \cup {Absent, Torn}

OutOK(o, v) ==
  /\ DOMAIN o = Names
  /\ \A k \in {"kernel/Image", "Image"} : o[File(k)] \in Kernels \cup {Absent, Torn}
  /\ \A t \in Targets : o[KDtb(t)] \in Dtbs(t, v) /\ o[Dtb(t)] \in Dtbs(t, v)

Trees == [mods : SUBSET (Targets \X (1 .. MaxVer) \X Nat),
          new  : [NewPaths -> (Targets \X (1 .. MaxVer)) \cup {Absent}]]

RestOK ==
  /\ ci \in BOOLEAN /\ head \in 1 .. MaxVer
  /\ tree \in Trees /\ patch \in Nat
  /\ tar \in [Profiles \cup {""} -> Tarballs \cup {Absent}]
  /\ DOMAIN sums \subseteq Names /\ DOMAIN assets \subseteq Assets
  /\ opt \in Options \cup {ReleaseRun}
  /\ pc \in Building \cup {"idle", "check", "assemble", "published"}
  /\ todo \subseteq opt.profiles
  /\ outcome \in {"none", "running", "ok", "aborted", "noTarball", "noKernel", "noProfile",
                  "tooBig", "bootTooBig", "kernelTooBig", "cleanup", "patch"}
  /\ runs \in 0 .. MaxRuns /\ aborts \in 0 .. MaxAborts

LEMMA TypeParts == TypeOK <=> OutOK(out, head) /\ RestOK
  BY DEF TypeOK, OutOK, RestOK, Dtbs, Trees

\* The files the type says something about.
Typed == {File("kernel/Image"), File("Image")}
           \cup {KDtb(t) : t \in Targets} \cup {Dtb(t) : t \in Targets}

\* Writing any other file, or tearing or removing any file, keeps the type.
LEMMA OutPut ==
  ASSUME NEW o, NEW v, OutOK(o, v), NEW f, NEW c, f \notin Typed \/ c \in {Absent, Torn}
  PROVE  OutOK([o EXCEPT ![f] = c], v)
<1> DEFINE n == [o EXCEPT ![f] = c]
<1>1. DOMAIN n = Names
  BY DEF OutOK
<1>2. \A g \in Names : n[g] = IF g = f THEN c ELSE o[g]
  BY DEF OutOK
<1>3. ASSUME NEW k \in {"kernel/Image", "Image"} PROVE n[File(k)] \in Kernels \cup {Absent, Torn}
  BY <1>2, NamesOf, NamesApart DEF OutOK, Typed, Kinds
<1>4. ASSUME NEW t \in Targets PROVE n[KDtb(t)] \in Dtbs(t, v) /\ n[Dtb(t)] \in Dtbs(t, v)
  BY <1>2, NamesOf, NamesApart DEF OutOK, Typed, Dtbs
<1> QED
  BY <1>1, <1>3, <1>4 DEF OutOK

\* Files that are not kernels or dtbs.
LEMMA Untyped ==
  /\ \A k \in Kinds \ {"kernel/Image", "Image"} : File(k) \notin Typed
  /\ \A p : Img(p) \notin Typed /\ Simg(p) \notin Typed
  BY NamesOf, NamesApart DEF Typed, Kinds

\* A series is a sequence of patches, and no two of them create the same file.
LEMMA SeriesIs ==
  ASSUME RestOK
  PROVE  /\ Series \in Seq(SUBSET NewPaths) /\ Len(Series) \in Nat
         /\ DOMAIN Series = 1 .. Len(Series)
         /\ \A i, j \in DOMAIN Series : i # j => Series[i] \cap Series[j] = {}
<1>1. opt.target \in Targets /\ head \in 1 .. MaxVer
  BY OptRuns DEF RestOK, Runs
<1>2. Creates \in [Targets -> [1 .. MaxVer -> Seq(SUBSET NewPaths)]]
  BY PipelineAssumption
<1>3. Series \in Seq(SUBSET NewPaths)
  BY <1>1, <1>2 DEF Series
<1>4. \A i, j \in DOMAIN Series : i # j => Series[i] \cap Series[j] = {}
  BY <1>1, PipelineAssumption DEF Series
<1> QED
  BY <1>3, <1>4

\* The next patch of the series is not in the tree, and no file it creates is.
LEMMA Applies ==
  ASSUME RestOK, TreeMade, pc = "patch", patch <= Len(Series)
  PROVE  Patch(patch) \notin tree.mods /\ \A f \in Series[patch] : tree.new[f] = Absent
<1>1. /\ patch \in 1 .. (Len(Series) + 1)
      /\ tree.mods = {Patch(i) : i \in 1 .. (patch - 1)}
      /\ \A i \in DOMAIN Series : \A f \in Series[i] :
           tree.new[f] = IF i < patch THEN <<opt.target, head>> ELSE Absent
  BY DEF TreeMade
<1>2. Len(Series) \in Nat /\ patch \in DOMAIN Series
  BY <1>1, SeriesIs
<1>3. \A i \in 1 .. (patch - 1) : Patch(i) # Patch(patch)
  BY <1>1, <1>2 DEF Patch
<1> QED
  BY <1>1, <1>2, <1>3

\* A kernel is made, and its dtb copied, from the run's own series.
LEMMA OwnDtb ==
  ASSUME TreeMade, pc = "kdtb"
  PROVE  Built = [dev |-> opt.target, ver |-> head]
  BY DEF TreeMade, Built

LEMMA OwnKernel ==
  ASSUME RestOK, TreeMade, pc = "patch", patch > Len(Series)
  PROVE  Own /\ Built = [dev |-> opt.target, ver |-> head]
<1>1. /\ patch \in 1 .. (Len(Series) + 1)
      /\ tree.mods = {Patch(i) : i \in 1 .. (patch - 1)}
      /\ \A i \in DOMAIN Series : \A f \in Series[i] :
           tree.new[f] = IF i < patch THEN <<opt.target, head>> ELSE Absent
  BY DEF TreeMade
<1>2. Len(Series) \in Nat /\ DOMAIN Series = 1 .. Len(Series)
  BY SeriesIs
<1>3. patch = Len(Series) + 1
  BY <1>1, <1>2
<1>4. 1 .. (patch - 1) = DOMAIN Series /\ \A i \in DOMAIN Series : i < patch
  BY <1>2, <1>3
<1>5. tree.mods = {Patch(i) : i \in DOMAIN Series}
  BY <1>1, <1>4, Zenon
<1>6. \A f \in Created : tree.new[f] = <<opt.target, head>>
  BY <1>1, <1>4 DEF Created
<1> QED
  BY <1>5, <1>6 DEF Own, Built

LEMMA OutStep == OutOK(out, head) /\ RestOK /\ TreeMade /\ [Next]_vars => OutOK(out', head')
<1> SUFFICES ASSUME OutOK(out, head), RestOK, TreeMade, [Next]_vars PROVE OutOK(out', head')
  OBVIOUS
<1>0. opt.target \in Targets /\ opt.profiles \subseteq Profiles /\ head \in 1 .. MaxVer
  BY OptRuns DEF RestOK, Runs
<1>1. CASE UNCHANGED <<out, head>>
  BY <1>1
<1>2. CASE MakeKernel
  <2> PICK s \in KSizes :
        Put(File("kernel/Image"), [dev |-> Built.dev, ver |-> Built.ver, size |-> s])
    BY <1>2 DEF MakeKernel
  <2>1. head' = head
    BY <1>2 DEF MakeKernel, KStep
  <2>2. Built = [dev |-> opt.target, ver |-> head]
    BY <1>2, OwnKernel DEF MakeKernel
  <2>3. out' = [out EXCEPT ![File("kernel/Image")] =
                  [dev |-> opt.target, ver |-> head, size |-> s]]
    BY <2>2 DEF Put
  <2>4. [dev |-> opt.target, ver |-> head, size |-> s] \in Kernels
    BY <1>0 DEF Kernels
  <2>5. DOMAIN out' = Names /\ \A k \in {"kernel/Image", "Image"} :
          out'[File(k)] \in Kernels \cup {Absent, Torn}
    BY <2>3, <2>4, NamesOf, NamesApart DEF OutOK, Kinds
  <2>6. \A t \in Targets : out'[KDtb(t)] \in Dtbs(t, head) /\ out'[Dtb(t)] \in Dtbs(t, head)
    BY <2>3, NamesOf, NamesApart DEF OutOK, Kinds
  <2> QED
    BY <2>1, <2>5, <2>6 DEF OutOK
<1>18. CASE CopyDtb
  <2>1. head' = head
    BY <1>18 DEF CopyDtb, Step, KStep
  <2>2. out' = [out EXCEPT ![KDtb(opt.target)] = [dev |-> opt.target, ver |-> head]]
    <3>1. pc = "kdtb" /\ out' = [out EXCEPT ![KDtb(opt.target)] = Built]
      BY <1>18 DEF CopyDtb, Put
    <3>2. Built = [dev |-> opt.target, ver |-> head]
      BY <3>1, OwnDtb
    <3> QED
      BY <3>1, <3>2
  <2>3. head \in 1 .. head
    BY <1>0, Bounds
  <2>4. [dev |-> opt.target, ver |-> head] \in Dtbs(opt.target, head)
    BY <2>3 DEF Dtbs
  <2>5. DOMAIN out' = Names /\ \A k \in {"kernel/Image", "Image"} :
          out'[File(k)] \in Kernels \cup {Absent, Torn}
    BY <1>0, <2>2, NamesOf, NamesApart DEF OutOK, Kinds
  <2>6. \A t \in Targets : out'[KDtb(t)] \in Dtbs(t, head) /\ out'[Dtb(t)] \in Dtbs(t, head)
    BY <1>0, <2>2, <2>4, NamesOf, NamesApart DEF OutOK, Kinds
  <2> QED
    BY <2>1, <2>5, <2>6 DEF OutOK
<1>3. CASE CopyKernel
  <2>1. head' = head
    BY <1>3 DEF CopyKernel, Step, KStep
  <2>2. DOMAIN out' = Names /\ \A k \in {"kernel/Image", "Image"} :
          out'[File(k)] \in Kernels \cup {Absent, Torn}
    BY <1>3, <1>0, NamesOf, NamesApart DEF CopyKernel, OutOK, Kinds
  <2>3. \A t \in Targets : out'[KDtb(t)] \in Dtbs(t, head) /\ out'[Dtb(t)] \in Dtbs(t, head)
    BY <1>3, <1>0, NamesOf, NamesApart DEF CopyKernel, OutOK, Kinds
  <2> QED
    BY <2>1, <2>2, <2>3 DEF OutOK
<1>4. CASE Abort
  <2>1. \/ out' = out
        \/ \E f : out' = [out EXCEPT ![f] = Torn]
        \/ \E f : out' = [out EXCEPT ![f] = Absent]
    BY <1>4, Zenon DEF Abort, Put
  <2>2. head' = head
    BY <1>4 DEF Abort, Exit
  <2> QED
    BY <2>1, <2>2, OutPut
<1>5. CASE Edit
  <2>1. out' = out /\ 1 .. head \subseteq 1 .. head'
    BY <1>5, <1>0, Bounds DEF Edit
  <2>2. \A t \in Targets : Dtbs(t, head) \subseteq Dtbs(t, head')
    BY <2>1 DEF Dtbs
  <2> QED
    BY <2>1, <2>2 DEF OutOK
<1>6. CASE \E p \in Profiles : PackProfile(p)
  <2> PICK p \in Profiles : PackProfile(p)
    BY <1>6
  <2> DEFINE o == [out EXCEPT ![Img(p)] = Ext4(tar[p])]
  <2>1. out' = [o EXCEPT ![Simg(p)] = [of |-> Ext4(tar[p])]] /\ head' = head
    BY DEF PackProfile, Step, KStep
  <2>2. OutOK(o, head)
    BY OutPut, Untyped
  <2> QED
    BY <2>1, <2>2, OutPut, Untyped
<1>7. CASE AddFooters
  <2> DEFINE o == [out EXCEPT ![File("boot.img")].footer = TRUE]
  <2>1. out' = [o EXCEPT ![File("dtbo.img")].footer = TRUE] /\ head' = head
    BY <1>7 DEF AddFooters, Step, KStep
  <2>2. OutOK(o, head)
    BY OutPut, Untyped DEF Kinds
  <2> QED
    BY <2>1, <2>2, OutPut, Untyped DEF Kinds
<1>8. CASE MakeRootfs
  BY <1>8, OutPut, Untyped DEF MakeRootfs, Put, Step, KStep, Refuse, Exit, Kinds
<1>9. CASE RefuseRootfs
  BY <1>9, OutPut, Untyped DEF RefuseRootfs, Put, Step, KStep, Refuse, Exit, Kinds
<1>10. CASE DirectoryRootfs
  BY <1>10, OutPut, Untyped DEF DirectoryRootfs, Put, Step, KStep, Refuse, Exit, Kinds
<1>11. CASE Deliver
  BY <1>11, OutPut, Untyped DEF Deliver, Put, Step, KStep, Refuse, Exit, Kinds
<1>12. CASE MakeRamdisk
  BY <1>12, OutPut, Untyped DEF MakeRamdisk, Put, Step, KStep, Refuse, Exit, Kinds
<1>13. CASE MakeBoot
  BY <1>13, OutPut, Untyped DEF MakeBoot, Put, Step, KStep, Refuse, Exit, Kinds
<1>14. CASE MakeBootPadded
  BY <1>14, OutPut, Untyped DEF MakeBootPadded, Put, Step, KStep, Refuse, Exit, Kinds
<1>15. CASE MakeDtbo
  BY <1>15, OutPut, Untyped DEF MakeDtbo, Put, Step, KStep, Refuse, Exit, Kinds
<1>16. CASE MakeVbmeta
  BY <1>16, OutPut, Untyped DEF MakeVbmeta, Put, Step, KStep, Refuse, Exit, Kinds
<1>17. CASE WriteVersion
  BY <1>17, OutPut, Untyped DEF WriteVersion, Put, Step, KStep, Refuse, Exit, Kinds
<1> QED
  BY <1>1, <1>2, <1>3, <1>4, <1>5, <1>6, <1>7, <1>8, <1>9, <1>10, <1>11, <1>12, <1>13, <1>14,
    <1>15, <1>16, <1>17, <1>18 DEF Next, Build, vars, Start, NoProfileTarball, Step, KStep, Refuse,
      Exit, BuildTarballs, CachedTarballs, NoTarball, Checkout, RemoveNew, ApplyPatch, SkipKernel,
      NoKernel, SkipRamdisk, RefuseBoot, WriteSums, CheckSize, RefuseRelease, Publish

LEMMA TreesKept ==
  ASSUME RestOK
  PROVE  /\ \A fs : Without(fs) \in Trees
         /\ Patched(patch) \in Trees
         /\ Leftovers \subseteq Trees
<1>0. opt.target \in Targets /\ head \in 1 .. MaxVer /\ patch \in Nat /\ tree \in Trees
  BY OptRuns DEF RestOK, Runs
<1>1. <<opt.target, head>> \in Targets \X (1 .. MaxVer)
  BY <1>0
<1>2. \A fs : Without(fs) \in Trees
  BY <1>0 DEF Without, Trees
<1>3. Patched(patch) \in Trees
  <2>1. tree.mods \cup {Patch(patch)} \in SUBSET (Targets \X (1 .. MaxVer) \X Nat)
    BY <1>0 DEF Patch, Trees
  <2>2. [f \in NewPaths |-> IF f \in Series[patch] THEN <<opt.target, head>> ELSE tree.new[f]]
          \in [NewPaths -> (Targets \X (1 .. MaxVer)) \cup {Absent}]
    BY <1>0, <1>1 DEF Trees
  <2> QED
    BY <2>1, <2>2 DEF Patched, Trees
<1>4. \A m \in SUBSET tree.mods : [tree EXCEPT !.mods = m] \in Trees
  BY <1>0 DEF Trees
<1>5. \A fs : [Patched(patch) EXCEPT !.new = [f \in NewPaths |->
                 IF f \in fs THEN tree.new[f] ELSE Patched(patch).new[f]]] \in Trees
  <2> DEFINE P == Patched(patch)
  <2>1. P \in Trees /\ tree \in Trees
    BY <1>0, <1>3
  <2> HIDE DEF P
  <2>2. \A fs : [P EXCEPT !.new = [f \in NewPaths |->
                   IF f \in fs THEN tree.new[f] ELSE P.new[f]]] \in Trees
    BY <2>1 DEF Trees
  <2> QED
    BY <2>2 DEF P
<1>6. Leftovers \subseteq Trees
  BY <1>0, <1>2, <1>4, <1>5 DEF Leftovers
<1> QED
  BY <1>2, <1>3, <1>6

LEMMA RestStep == RestOK /\ [Next]_vars => RestOK'
<1> SUFFICES ASSUME RestOK, [Next]_vars PROVE RestOK'
  OBVIOUS
<1>0. opt.target \in Targets /\ opt.profiles \subseteq Profiles /\ head \in 1 .. MaxVer
  BY OptRuns DEF RestOK, Runs
<1>1. CASE \E o \in Options \cup {ReleaseRun} : Start(o)
  <2>1. runs' \in 0 .. MaxRuns
    <3>1. runs \in 0 .. MaxRuns /\ runs < MaxRuns /\ runs' = runs + 1
      BY <1>1 DEF RestOK, Start
    <3> QED
      BY <3>1, Bounds
  <2> QED
    BY <1>1, <2>1 DEF RestOK, Start, Building
<1>2. CASE BuildTarballs
  <2>1. [dev |-> opt.target, ver |-> head] \in Tarballs
    BY <1>0 DEF Tarballs
  <2>2. tar' \in [Profiles \cup {""} -> Tarballs \cup {Absent}]
    BY <1>2, <2>1 DEF BuildTarballs, RestOK
  <2> QED
    BY <1>2, <2>2 DEF BuildTarballs, RestOK, Step, KStep, Building
<1>3. CASE CachedTarballs
  BY <1>3 DEF CachedTarballs, RestOK, Step, KStep, Refuse, Exit, Building
<1>4. CASE NoTarball
  BY <1>4 DEF NoTarball, RestOK, Step, KStep, Refuse, Exit, Building
<1>5. CASE Checkout
  <2>1. tree' \in Trees
    BY <1>5 DEF Checkout, RestOK, Trees
  <2> QED
    BY <1>5, <2>1 DEF Checkout, RestOK, KStep, Building
<1>30. CASE RemoveNew
  <2>1. tree' \in Trees
    BY <1>30, TreesKept DEF RemoveNew, RestOK
  <2> QED
    BY <1>30, <2>1 DEF RemoveNew, RestOK, KStep, Building
<1>31. CASE ApplyPatch
  <2>1. CASE Patch(patch) \notin tree.mods /\ \A f \in Series[patch] : tree.new[f] = Absent
    <3>1. tree' \in Trees
      BY <1>31, <2>1, TreesKept DEF ApplyPatch
    <3>2. patch' \in Nat
      <4>1. patch' = patch + 1
        BY <1>31, <2>1 DEF ApplyPatch
      <4>2. patch \in Nat
        BY Zenon DEF RestOK
      <4> QED
        BY <4>1, <4>2
    <3> QED
      BY <1>31, <2>1, <3>1, <3>2 DEF ApplyPatch, RestOK, KStep, Building
  <2>2. CASE ~(Patch(patch) \notin tree.mods /\ \A f \in Series[patch] : tree.new[f] = Absent)
    <3>1. Refuse("patch")
      BY <1>31, <2>2 DEF ApplyPatch
    <3> QED
      BY <3>1 DEF RestOK, Refuse, Exit
  <2> QED
    BY <2>1, <2>2
<1>32. CASE MakeKernel
  BY <1>32 DEF MakeKernel, RestOK, KStep, Building
<1>33. CASE CopyDtb
  BY <1>33 DEF CopyDtb, RestOK, Step, KStep, Building
<1>34. CASE WriteVersion
  BY <1>34 DEF WriteVersion, RestOK, Step, KStep, Building
<1>6. CASE SkipKernel
  BY <1>6 DEF SkipKernel, RestOK, Step, KStep, Refuse, Exit, Building
<1>7. CASE NoKernel
  BY <1>7 DEF NoKernel, RestOK, Step, KStep, Refuse, Exit, Building
<1>8. CASE MakeRootfs
  BY <1>8 DEF MakeRootfs, RestOK, Step, KStep, Refuse, Exit, Building
<1>9. CASE RefuseRootfs
  BY <1>9 DEF RefuseRootfs, RestOK, Step, KStep, Refuse, Exit, Building
<1>10. CASE DirectoryRootfs
  BY <1>10 DEF DirectoryRootfs, RestOK, Step, KStep, Refuse, Exit, Building
<1>11. CASE Deliver
  BY <1>11 DEF Deliver, RestOK, Step, KStep, Refuse, Exit, Building
<1>12. CASE CopyKernel
  BY <1>12 DEF CopyKernel, RestOK, Step, KStep, Refuse, Exit, Building
<1>13. CASE MakeRamdisk
  BY <1>13 DEF MakeRamdisk, RestOK, Step, KStep, Refuse, Exit, Building
<1>14. CASE SkipRamdisk
  BY <1>14 DEF SkipRamdisk, RestOK, Step, KStep, Refuse, Exit, Building
<1>15. CASE \E p \in Profiles : PackProfile(p)
  BY <1>15 DEF PackProfile, RestOK, Step, KStep, Building
<1>16. CASE \E p \in Profiles : NoProfileTarball(p)
  <2> PICK p \in Profiles : NoProfileTarball(p)
    BY <1>16
  <2>1. CASE p = "kiosk"
    BY <2>1 DEF NoProfileTarball, RestOK, Step, KStep, Building
  <2>2. CASE p # "kiosk"
    <3>1. Refuse("noProfile")
      BY <2>2 DEF NoProfileTarball
    <3> QED
      BY <3>1 DEF RestOK, Refuse, Exit
  <2> QED
    BY <2>1, <2>2
<1>17. CASE MakeBoot
  BY <1>17 DEF MakeBoot, RestOK, Step, KStep, Refuse, Exit, Building
<1>18. CASE MakeBootPadded
  BY <1>18 DEF MakeBootPadded, RestOK, Step, KStep, Refuse, Exit, Building
<1>19. CASE MakeDtbo
  BY <1>19 DEF MakeDtbo, RestOK, Step, KStep, Refuse, Exit, Building
<1>20. CASE AddFooters
  BY <1>20 DEF AddFooters, RestOK, Step, KStep, Refuse, Exit, Building
<1>21. CASE RefuseBoot
  BY <1>21 DEF RefuseBoot, RestOK, Step, KStep, Refuse, Exit, Building
<1>22. CASE MakeVbmeta
  BY <1>22 DEF MakeVbmeta, RestOK, Step, KStep, Refuse, Exit, Building
<1>23. CASE WriteSums
  <2>1. SumFiles \subseteq Names
    <3>1. Extras \subseteq Profiles
      BY <1>0 DEF Extras
    <3>2. {File(k) : k \in {"Image", "boot.img", "dtbo.img", "vbmeta.img", "version.env"}}
            \subseteq Names
      BY NamesOf DEF Kinds
    <3>3. {Img(p) : p \in Extras} \cup {Simg(p) : p \in Extras} \subseteq Names
      BY <3>1, NamesOf, Zenon
    <3>4. {Dtb(opt.target), Img(""), Simg(""), File("rootfs.img.zst"), File("initramfs")}
            \subseteq Names
      BY <1>0, NamesOf DEF Kinds
    <3> QED
      BY <3>2, <3>3, <3>4 DEF SumFiles
  <2>2. DOMAIN sums' \subseteq Names
    BY <1>23, <2>1 DEF WriteSums
  <2> QED
    BY <1>23, <2>2 DEF WriteSums, RestOK
<1>24. CASE Abort
  <2>1. DOMAIN sums' \subseteq Names
    BY <1>24 DEF Abort, RestOK, NoFiles
  <2>2. aborts' \in 0 .. MaxAborts
    <3>1. aborts \in 0 .. MaxAborts /\ aborts > 0 /\ aborts' = aborts - 1
      BY <1>24 DEF Abort, RestOK
    <3> QED
      BY <3>1, Bounds
  <2>3. tree' \in Trees /\ patch' = 0
    BY <1>24, TreesKept DEF Abort, Exit
  <2>4. /\ UNCHANGED <<ci, head, tar, opt, todo, runs, assets>>
        /\ pc' = "idle" /\ outcome' = "aborted"
    BY <1>24 DEF Abort, Exit
  <2> QED
    BY <2>1, <2>2, <2>3, <2>4 DEF RestOK
<1>25. CASE Edit
  <2>1. head' \in 1 .. MaxVer
    <3>1. head \in 1 .. MaxVer /\ head < MaxVer /\ head' = head + 1
      BY <1>25 DEF Edit, RestOK
    <3> QED
      BY <3>1, Bounds
  <2> QED
    BY <1>25, <2>1 DEF Edit, RestOK
<1>26. CASE CheckSize
  BY <1>26 DEF CheckSize, RestOK, Step, KStep, Refuse, Exit, Building
<1>27. CASE RefuseRelease
  BY <1>27 DEF RefuseRelease, RestOK, Step, KStep, Refuse, Exit, Building
<1>28. CASE Publish
  BY <1>28 DEF Publish, RestOK, Step, KStep, Refuse, Exit, Building
<1>29. CASE UNCHANGED vars
  BY <1>29 DEF vars, RestOK
<1> QED
  BY <1>1, <1>2, <1>3, <1>4, <1>5, <1>6, <1>7, <1>8, <1>9, <1>10, <1>11, <1>12, <1>13, <1>14,
    <1>15, <1>16, <1>17, <1>18, <1>19, <1>20, <1>21, <1>22, <1>23, <1>24, <1>25, <1>26, <1>27,
    <1>28, <1>29, <1>30, <1>31, <1>32, <1>33, <1>34 DEF Next, Build

LEMMA TypeStep == TypeOK /\ TreeMade /\ [Next]_vars => TypeOK'
<1>1. TypeOK' <=> OutOK(out', head') /\ RestOK'
  BY DEF TypeOK, OutOK, RestOK, Dtbs, Trees
<1> QED
  BY <1>1, TypeParts, OutStep, RestStep

-----------------------------------------------------------------------------
(***************************************************************************)
(* The inductive invariant is preserved.  A run that ends early owes       *)
(* nothing; a stage keeps the facts about the files it does not write and  *)
(* adds the ones about those it does.                                      *)
(***************************************************************************)

LEMMA InvInit == Init => IInv
<1> SUFFICES ASSUME Init PROVE IInv
  OBVIOUS
<1>1. TypeOK
  BY TypeInit
<1>2. outcome = "none" /\ pc = "idle" /\ opt = ReleaseRun /\ tar[""] = Absent
  BY DEF Init
<1>3. Stamped /\ TreeMade
  BY <1>2 DEF Stamped, TreeMade
<1>4. Summed
  <2>1. DOMAIN sums = {}
    BY DEF Init, NoFiles
  <2> QED
    BY <1>2, <2>1 DEF Summed, SumsSound, Finished
<1> QED
  BY <1>1, <1>2, <1>3, <1>4 DEF IInv, Outcome, KernelMade, RootfsMade, RootfsDelivered, BootMade,
    Runner, Finished, Building, Release, AfterTarballs, AfterKernel, AfterRootfs, AfterCopy,
    AfterBoot

Stages == Building \cup Release \cup {"idle"}

\* Nothing is claimed of a run that ended early.
LEMMA Ends ==
  ASSUME IInv, TypeOK', TreeMade', Stamped', Summed', pc # "idle", pc' = "idle",
         outcome' \notin {"running", "ok", "none", "patch"},
         UNCHANGED <<ci, opt, runs>>
  PROVE  IInv'
<1>1. ~Finished'
  BY DEF Finished
<1>2. Outcome' /\ KernelMade' /\ RootfsMade' /\ RootfsDelivered' /\ BootMade'
  BY <1>1 DEF Outcome, KernelMade, RootfsMade, RootfsDelivered, BootMade,
    Building, Release, AfterKernel, AfterRootfs, AfterCopy, AfterBoot
<1>3. Runner'
  BY DEF IInv, Runner, Release, AfterTarballs, AfterKernel, AfterRootfs, AfterCopy, AfterBoot
<1> QED
  BY <1>2, <1>3 DEF IInv

\* Only kernel/build.sh enters the stages TreeMade is about.
LEMMA TreeStep == IInv /\ [Next]_vars => TreeMade'
<1> SUFFICES ASSUME IInv, [Next]_vars PROVE TreeMade'
  OBVIOUS
<1>0. RestOK /\ TreeMade
  BY TypeParts DEF IInv
<1>1. CASE pc' \notin {"remove", "patch", "kdtb"}
  BY <1>1 DEF TreeMade
<1>2. CASE Checkout
  <2>1. pc' = "remove" /\ tree' = [tree EXCEPT !.mods = {}]
    BY <1>2 DEF Checkout, KStep
  <2>2. tree'.mods = {}
    BY <1>0, <2>1 DEF RestOK, Trees
  <2> QED
    BY <2>1, <2>2 DEF TreeMade
<1>3. CASE RemoveNew
  <2>1. /\ pc = "remove" /\ pc' = "patch" /\ patch' = 1 /\ tree' = Without(Created)
        /\ UNCHANGED <<opt, head>>
    BY <1>3 DEF RemoveNew, KStep
  <2>2. tree'.mods = {} /\ tree'.new = [f \in NewPaths |-> IF f \in Created THEN Absent ELSE tree.new[f]]
    BY <1>0, <2>1 DEF TreeMade, Without, RestOK, Trees
  <2>3. Series' = Series
    BY <2>1 DEF Series
  <2>4. /\ Series \in Seq(SUBSET NewPaths) /\ Len(Series) \in Nat
        /\ DOMAIN Series = 1 .. Len(Series)
    BY <1>0, SeriesIs
  <2>5. ASSUME NEW i \in DOMAIN Series, NEW f \in Series[i] PROVE tree'.new[f] = Absent /\ ~(i < 1)
    <3>1. f \in NewPaths /\ f \in Created
      BY <2>4 DEF Created
    <3> QED
      BY <2>2, <2>4, <3>1
  <2>6. 1 .. (patch' - 1) = {} /\ patch' \in 1 .. (Len(Series) + 1)
    BY <2>1, <2>4
  <2>7. tree'.mods = {Patch(i)' : i \in 1 .. (patch' - 1)}
    BY <2>2, <2>6
  <2> QED
    BY <2>1, <2>3, <2>5, <2>6, <2>7 DEF TreeMade
<1>4. CASE ApplyPatch
  <2>1. /\ pc = "patch" /\ patch <= Len(Series) /\ UNCHANGED <<opt, head>>
    BY <1>4 DEF ApplyPatch, KStep, Refuse, Exit
  <2>2. /\ patch \in 1 .. (Len(Series) + 1)
        /\ tree.mods = {Patch(i) : i \in 1 .. (patch - 1)}
        /\ \A i \in DOMAIN Series : \A f \in Series[i] :
             tree.new[f] = IF i < patch THEN <<opt.target, head>> ELSE Absent
    BY <1>0, <2>1 DEF TreeMade
  <2>3. Patch(patch) \notin tree.mods /\ \A f \in Series[patch] : tree.new[f] = Absent
    BY <1>0, <2>1, <2>2, Applies
  <2>4. pc' = "patch" /\ tree' = Patched(patch) /\ patch' = patch + 1
    BY <1>4, <2>3 DEF ApplyPatch, KStep
  <2>5. /\ tree'.mods = tree.mods \cup {Patch(patch)}
        /\ tree'.new = [f \in NewPaths |-> IF f \in Series[patch] THEN <<opt.target, head>>
                                           ELSE tree.new[f]]
    BY <2>4 DEF Patched
  <2>6. /\ Series \in Seq(SUBSET NewPaths) /\ Len(Series) \in Nat
        /\ DOMAIN Series = 1 .. Len(Series)
        /\ \A i, j \in DOMAIN Series : i # j => Series[i] \cap Series[j] = {}
    BY <1>0, SeriesIs
  <2>7. patch \in DOMAIN Series /\ patch' \in 1 .. (Len(Series) + 1)
        /\ 1 .. (patch' - 1) = (1 .. (patch - 1)) \cup {patch}
    BY <2>1, <2>2, <2>4, <2>6
  <2>8. tree'.mods = {Patch(i) : i \in 1 .. (patch' - 1)}
    BY <2>2, <2>5, <2>7, Zenon
  <2>9. ASSUME NEW i \in DOMAIN Series, NEW f \in Series[i]
        PROVE  tree'.new[f] = IF i < patch' THEN <<opt.target, head>> ELSE Absent
    <3>1. f \in NewPaths
      BY <2>6
    <3>2. CASE i = patch
      BY <2>4, <2>5, <2>7, <2>6, <3>1, <3>2
    <3>3. CASE i # patch
      <4>1. f \notin Series[patch]
        BY <2>6, <2>7, <3>3
      <4>2. tree'.new[f] = tree.new[f] /\ (i < patch' <=> i < patch)
        BY <2>4, <2>5, <2>6, <2>7, <3>1, <3>3, <4>1
      <4> QED
        BY <2>2, <4>2
    <3> QED
      BY <3>2, <3>3
  <2>10. Series' = Series /\ \A i : Patch(i)' = Patch(i)
    BY <2>1 DEF Series, Patch
  <2> QED
    BY <2>1, <2>4, <2>7, <2>8, <2>9, <2>10 DEF TreeMade
<1>5. CASE MakeKernel
  <2>1. Own /\ pc' = "kdtb" /\ UNCHANGED <<opt, head, tree>>
    BY <1>0, <1>5, OwnKernel DEF MakeKernel, KStep
  <2> QED
    BY <2>1 DEF TreeMade, Own, Created, Series, Patch
<1>6. CASE UNCHANGED vars
  BY <1>0, <1>6 DEF vars, TreeMade, Own, Created, Series, Patch
<1>7. pc' \notin {"remove", "patch", "kdtb"}
      \/ Checkout \/ RemoveNew \/ ApplyPatch \/ MakeKernel \/ UNCHANGED vars
  <2> SUFFICES ASSUME ~(Checkout \/ RemoveNew \/ ApplyPatch \/ MakeKernel \/ UNCHANGED vars)
               PROVE  pc' \notin {"remove", "patch", "kdtb"}
    OBVIOUS
  <2>1. CASE Abort \/ Edit \/ CheckSize \/ RefuseRelease \/ Publish
    BY <2>1 DEF Abort, Edit, CheckSize, RefuseRelease, Publish, Refuse, Exit
  <2>2. CASE \E o : Start(o)
    BY <2>2 DEF Start
  <2>3. CASE \E p \in Profiles : PackProfile(p) \/ NoProfileTarball(p)
    BY <2>3 DEF PackProfile, NoProfileTarball, Refuse, Exit, Step, KStep
  <2>4. CASE BuildTarballs \/ CachedTarballs \/ NoTarball \/ CopyDtb \/ SkipKernel \/ NoKernel
    BY <2>4 DEF BuildTarballs, CachedTarballs, NoTarball, CopyDtb, SkipKernel, NoKernel, Refuse,
      Exit, Step, KStep
  <2>5. CASE MakeRootfs \/ RefuseRootfs \/ DirectoryRootfs \/ Deliver \/ CopyKernel
             \/ MakeRamdisk \/ SkipRamdisk
    BY <2>5 DEF MakeRootfs, RefuseRootfs, DirectoryRootfs, Deliver, CopyKernel, MakeRamdisk,
      SkipRamdisk, Refuse, Exit, Step, KStep
  <2>6. CASE MakeBoot \/ MakeBootPadded \/ MakeDtbo \/ AddFooters \/ RefuseBoot \/ MakeVbmeta
             \/ WriteVersion \/ WriteSums
    BY <2>6 DEF MakeBoot, MakeBootPadded, MakeDtbo, AddFooters, RefuseBoot, MakeVbmeta,
      WriteVersion, WriteSums, Refuse, Exit, Step, KStep
  <2> QED
    BY <2>1, <2>2, <2>3, <2>4, <2>5, <2>6, Zenon DEF Next, Build
<1> QED
  BY <1>1, <1>2, <1>3, <1>4, <1>5, <1>6, <1>7

\* The sums are taken right after version.env is written.
LEMMA StampStep == IInv /\ [Next]_vars => Stamped'
<1> SUFFICES ASSUME IInv, [Next]_vars, pc' = "sums" PROVE out'[File("version.env")].ver = head'
  BY DEF Stamped
<1>1. CASE UNCHANGED vars
  BY <1>1 DEF vars, IInv, Stamped
<1>2. CASE WriteVersion
  <2>1. head' = head /\ File("version.env") \in DOMAIN out
    BY <1>2, NamesOf DEF WriteVersion, Step, KStep, IInv, TypeOK, Kinds
  <2>2. out'[File("version.env")] = [profiles |-> opt.profiles, ver |-> head]
    BY <1>2, <2>1 DEF WriteVersion, Put
  <2> QED
    BY <2>1, <2>2
<1>3. CASE Abort \/ Edit \/ CheckSize \/ RefuseRelease \/ Publish
  BY <1>3 DEF Abort, Edit, CheckSize, RefuseRelease, Publish, Refuse, Exit
<1>4. CASE \E o : Start(o)
  BY <1>4 DEF Start
<1>5. CASE \E p \in Profiles : PackProfile(p) \/ NoProfileTarball(p)
  BY <1>5 DEF PackProfile, NoProfileTarball, Refuse, Exit, Step, KStep
<1>6. CASE BuildTarballs \/ CachedTarballs \/ NoTarball \/ Checkout \/ RemoveNew \/ ApplyPatch
           \/ MakeKernel \/ CopyDtb \/ SkipKernel \/ NoKernel
  BY <1>6 DEF BuildTarballs, CachedTarballs, NoTarball, Checkout, RemoveNew, ApplyPatch,
    MakeKernel, CopyDtb, SkipKernel, NoKernel, Refuse, Exit, Step, KStep
<1>7. CASE MakeRootfs \/ RefuseRootfs \/ DirectoryRootfs \/ Deliver \/ CopyKernel
           \/ MakeRamdisk \/ SkipRamdisk
  BY <1>7 DEF MakeRootfs, RefuseRootfs, DirectoryRootfs, Deliver, CopyKernel, MakeRamdisk,
    SkipRamdisk, Refuse, Exit, Step, KStep
<1>8. CASE MakeBoot \/ MakeBootPadded \/ MakeDtbo \/ AddFooters \/ RefuseBoot \/ MakeVbmeta
           \/ WriteSums
  BY <1>8 DEF MakeBoot, MakeBootPadded, MakeDtbo, AddFooters, RefuseBoot, MakeVbmeta, WriteSums,
    Refuse, Exit, Step, KStep
<1> QED
  BY <1>1, <1>2, <1>3, <1>4, <1>5, <1>6, <1>7, <1>8, Zenon DEF Next, Build

\* What is listed depends on the list alone.
LEMMA SoundKept == ASSUME NEW o, NEW p, o = p, SumsSound(o) PROVE SumsSound(p)
  OBVIOUS

\* The files of the run, as its sums list them, are one set.
LEMMA SumsTaken ==
  ASSUME IInv, WriteSums
  PROVE  SumsSound([f \in SumFiles |-> out[f]]) /\ Dtb(opt.target) \in SumFiles
<1> DEFINE o == [f \in SumFiles |-> out[f]]
<1>0. opt.target \in Targets /\ pc = "sums" /\ DOMAIN o = SumFiles /\ \A f \in SumFiles : o[f] = out[f]
  BY OptRuns DEF IInv, TypeOK, Runs, WriteSums
<1>1. /\ File("Image") \in SumFiles /\ File("boot.img") \in SumFiles
      /\ File("dtbo.img") \in SumFiles /\ File("vbmeta.img") \in SumFiles
      /\ Dtb(opt.target) \in SumFiles /\ Img("") \in SumFiles /\ Delivered \in SumFiles
  BY DEF SumFiles, Delivered
<1>2. ASSUME NEW t \in Targets, Dtb(t) \in SumFiles PROVE t = opt.target
  <2>1. Dtb(t) \notin {File(k) : k \in {"Image", "boot.img", "dtbo.img", "vbmeta.img",
                                        "version.env"}}
    BY NamesApart DEF Kinds
  <2>2. Dtb(t) \notin {Img(""), Simg(""), File("rootfs.img.zst"), File("initramfs")}
    BY NamesApart DEF Kinds
  <2>3. Dtb(t) \notin {Img(q) : q \in Extras} \cup {Simg(q) : q \in Extras}
    BY NamesApart
  <2>4. Dtb(t) = Dtb(opt.target)
    BY <1>2, <2>1, <2>2, <2>3 DEF SumFiles
  <2> QED
    BY <2>4, NamesApart
<1>3. File("initramfs") \in SumFiles <=> Ramdisk
  <2>1. File("initramfs") \notin {File(k) : k \in {"Image", "boot.img", "dtbo.img", "vbmeta.img",
                                                   "version.env"}}
    BY NamesApart DEF Kinds
  <2>2. File("initramfs") \notin {Dtb(opt.target), Img(""), Simg(""), File("rootfs.img.zst")}
    BY NamesApart DEF Kinds
  <2>3. File("initramfs") \notin {Img(q) : q \in Extras} \cup {Simg(q) : q \in Extras}
    BY NamesApart DEF Kinds
  <2> QED
    BY <2>1, <2>2, <2>3 DEF SumFiles
<1>4. ASSUME NEW p \in Profiles \cup {""}, Img(p) \in SumFiles PROVE p \in Extras \cup {""}
  <2>1. Img(p) \notin {File(k) : k \in {"Image", "boot.img", "dtbo.img", "vbmeta.img",
                                        "version.env"}}
    BY NamesApart DEF Kinds
  <2>2. Img(p) \notin {Dtb(opt.target), File("rootfs.img.zst"), Simg(""), File("initramfs")}
    BY NamesApart DEF Kinds
  <2>3. Img(p) \notin {Simg(q) : q \in Extras}
    BY NamesApart
  <2>4. Img(p) = Img("") \/ \E q \in Extras : Img(p) = Img(q)
    BY <1>4, <2>1, <2>2, <2>3 DEF SumFiles
  <2> QED
    BY <2>4, NamesApart
<1>5. \A p \in Profiles \cup {""} : Img(p) \in SumFiles => Small(Img(p))
  <2>1. Small(Img("")) /\ \A p \in Extras : Small(Img(p))
    BY <1>0 DEF IInv, RootfsMade, AfterRootfs, AfterCopy, AfterBoot
  <2> QED
    BY <1>4, <2>1
<1>6. /\ out[File("boot.img")] \in
           [kernel : {out[File("Image")]}, extra : {Extra}, cut : {Cut}, footer : BOOLEAN]
      /\ out[File("dtbo.img")].dtb = out[Dtb(opt.target)]
      /\ out[File("vbmeta.img")] = [boot |-> out[File("boot.img")], dtbo |-> out[File("dtbo.img")]]
      /\ out[Delivered] = [of |-> out[Img("")]]
  BY <1>0 DEF IInv, BootMade, RootfsDelivered, AfterBoot, AfterCopy
<1>7. SetOf(o, opt.target)
  <2>1. /\ o[File("boot.img")] = out[File("boot.img")] /\ o[File("dtbo.img")] = out[File("dtbo.img")]
        /\ o[File("vbmeta.img")] = out[File("vbmeta.img")] /\ o[File("Image")] = out[File("Image")]
        /\ o[Dtb(opt.target)] = out[Dtb(opt.target)] /\ o[Img("")] = out[Img("")]
        /\ o[Delivered] = out[Delivered]
        /\ Ramdisk => o[File("initramfs")] = out[File("initramfs")]
    BY <1>0, <1>1, <1>3
  <2>2. out[File("boot.img")].extra = IF BOOT_MODEL[opt.target] = "booti" THEN o[Dtb(opt.target)]
                      ELSE IF File("initramfs") \in DOMAIN o THEN o[File("initramfs")]
                      ELSE Absent
    BY <1>0, <1>3, <1>6, <2>1 DEF Extra, Model
  <2>3. out[File("boot.img")].cut
          = (BOOT_MODEL[opt.target] = "booti" /\ BootSize(o[File("Image")]) > BOOT_PAD_SIZE)
    BY <1>6, <2>1 DEF Cut, Model
  <2>4. o[IF BOOT_MODEL[opt.target] = "booti" THEN File("rootfs.img.zst") ELSE Simg("")]
          = [of |-> o[Img("")]]
    BY <1>6, <2>1 DEF Delivered, Model
  <2>5. \A p \in Profiles \cup {""} :
          Img(p) \in DOMAIN o => o[Img(p)].size <= ROOTFS_PARTITION_SIZE[opt.target]
    BY <1>0, <1>5 DEF Small
  <2> HIDE DEF o
  <2> QED
    BY <1>6, <2>1, <2>2, <2>3, <2>4, <2>5 DEF SetOf
<1> QED
  BY <1>0, <1>1, <1>2, <1>7 DEF SumsSound

\* Files listed by an earlier run stay listed until the next run finishes.
LEMMA SumsStep == IInv /\ [Next]_vars => Summed'
<1> SUFFICES ASSUME IInv, [Next]_vars PROVE Summed'
  OBVIOUS
<1>0. Summed /\ (pc \in Building => outcome = "running")
  BY DEF IInv, Outcome
<1>1. ASSUME sums' = sums, ~Finished' PROVE Summed'
  BY <1>0, <1>1 DEF Summed, SumsSound, SetOf
<1>2. ASSUME UNCHANGED <<sums, out, opt, outcome>> PROVE Summed'
  BY <1>0, <1>2 DEF Summed, SumsSound, SetOf, Finished
<1>3. CASE WriteSums
  <2>1. sums' = [f \in SumFiles |-> out[f]] /\ out' = out /\ opt' = opt
    BY <1>3 DEF WriteSums
  <2>2. SumsSound(sums')
    BY <1>3, <2>1, SumsTaken
  <2>3. Dtb(opt.target)' \in DOMAIN sums' /\ \A f \in DOMAIN sums' : out'[f] = sums'[f]
    BY <1>3, <2>1, SumsTaken
  <2> QED
    BY <2>2, <2>3 DEF Summed, SumsSound, SetOf
<1>4. CASE Abort
  <2>1. outcome' = "aborted" /\ sums' \in {sums, NoFiles}
    BY <1>4 DEF Abort, Exit
  <2>2. CASE sums' = NoFiles
    <3>1. DOMAIN sums' = {}
      BY <2>2 DEF NoFiles
    <3> QED
      BY <2>1, <3>1 DEF Summed, SumsSound, Finished
  <2> QED
    BY <1>1, <2>1, <2>2 DEF Finished
<1>5. CASE Edit \/ CheckSize \/ Publish \/ UNCHANGED vars
  BY <1>2, <1>5 DEF Edit, CheckSize, Publish, vars
<1>6. CASE RefuseRelease \/ \E o : Start(o)
  BY <1>1, <1>6 DEF RefuseRelease, Start, Refuse, Exit, Finished
<1>7. CASE \E p \in Profiles : PackProfile(p) \/ NoProfileTarball(p)
  <2>1. pc \in Building
    BY <1>7 DEF PackProfile, NoProfileTarball, Building
  <2> QED
    BY <1>0, <1>1, <1>7, <2>1 DEF PackProfile, NoProfileTarball, Refuse, Exit, Step, KStep, Finished
<1>8. CASE BuildTarballs \/ CachedTarballs \/ NoTarball \/ Checkout \/ RemoveNew \/ ApplyPatch
           \/ MakeKernel \/ CopyDtb \/ SkipKernel \/ NoKernel
  <2>1. sums' = sums /\ pc \in Building
    BY <1>8 DEF BuildTarballs, CachedTarballs, NoTarball, Checkout, RemoveNew, ApplyPatch,
      MakeKernel, CopyDtb, SkipKernel, NoKernel, Refuse, Exit, Step, KStep, Building
  <2>2. outcome' \in {outcome, "noTarball", "noKernel", "patch"}
    BY <1>8 DEF BuildTarballs, CachedTarballs, NoTarball, Checkout, RemoveNew, ApplyPatch,
      MakeKernel, CopyDtb, SkipKernel, NoKernel, Refuse, Exit, Step, KStep
  <2> QED
    BY <1>0, <1>1, <2>1, <2>2 DEF Finished
<1>9. CASE MakeRootfs \/ RefuseRootfs \/ DirectoryRootfs \/ Deliver \/ CopyKernel
           \/ MakeRamdisk \/ SkipRamdisk
  <2>1. sums' = sums /\ pc \in Building
    BY <1>9 DEF MakeRootfs, RefuseRootfs, DirectoryRootfs, Deliver, CopyKernel, MakeRamdisk,
      SkipRamdisk, Refuse, Exit, Step, KStep, Building
  <2>2. outcome' \in {outcome, "tooBig", "cleanup"}
    BY <1>9 DEF MakeRootfs, RefuseRootfs, DirectoryRootfs, Deliver, CopyKernel, MakeRamdisk,
      SkipRamdisk, Refuse, Exit, Step, KStep
  <2> QED
    BY <1>0, <1>1, <2>1, <2>2 DEF Finished
<1>10. CASE MakeBoot \/ MakeBootPadded \/ MakeDtbo \/ AddFooters \/ RefuseBoot \/ MakeVbmeta
            \/ WriteVersion
  <2>1. sums' = sums /\ pc \in Building
    BY <1>10 DEF MakeBoot, MakeBootPadded, MakeDtbo, AddFooters, RefuseBoot, MakeVbmeta,
      WriteVersion, Refuse, Exit, Step, KStep, Building
  <2>2. outcome' \in {outcome, "bootTooBig"}
    BY <1>10 DEF MakeBoot, MakeBootPadded, MakeDtbo, AddFooters, RefuseBoot, MakeVbmeta,
      WriteVersion, Refuse, Exit, Step, KStep
  <2> QED
    BY <1>0, <1>1, <2>1, <2>2 DEF Finished
<1> QED
  BY <1>3, <1>4, <1>5, <1>6, <1>7, <1>8, <1>9, <1>10, Zenon DEF Next, Build

\* A run starts with nothing made and every os-profile to do.
LEMMA Starts ==
  ASSUME IInv, TypeOK', TreeMade', Stamped', Summed', NEW o, Start(o), ci => runs = 0 /\ o = ReleaseRun
  PROVE  IInv'
<1>1. /\ ~Finished' /\ pc' = "tarballs" /\ pc = "idle" /\ outcome' = "running"
      /\ opt' = o /\ todo' = opt'.profiles /\ runs' = runs + 1 /\ UNCHANGED <<ci, tar>>
  BY DEF Start, Finished
<1>2. Outcome' /\ KernelMade' /\ RootfsMade' /\ RootfsDelivered' /\ BootMade'
  BY <1>1 DEF Outcome, KernelMade, RootfsMade, RootfsDelivered, BootMade,
    Building, Release, AfterKernel, AfterRootfs, AfterCopy, AfterBoot
<1>3. ci => tar[""] = Absent
  BY DEF IInv, Runner
<1>4. runs' # 0
  <2>1. runs \in 0 .. MaxRuns
    BY DEF IInv, TypeOK
  <2> QED
    BY <1>1, <2>1, Bounds
<1>5. Runner'
  BY <1>1, <1>3, <1>4 DEF Runner, Release, AfterTarballs, AfterKernel, AfterRootfs, AfterCopy,
    AfterBoot
<1> QED
  BY <1>2, <1>5 DEF IInv

LEMMA InvStep == IInv /\ [Next]_vars => IInv'
<1> SUFFICES ASSUME IInv, [Next]_vars PROVE IInv'
  OBVIOUS
<1>0. /\ TypeOK /\ TypeOK' /\ TreeMade' /\ Stamped' /\ Summed' /\ DOMAIN out = Names
      /\ opt.target \in Targets /\ opt.profiles \subseteq Profiles
  BY TypeStep, TreeStep, StampStep, SumsStep, OptRuns DEF IInv, TypeOK, Runs
<1>1. /\ Outcome /\ TreeMade /\ KernelMade /\ RootfsMade /\ RootfsDelivered /\ BootMade
      /\ Stamped /\ Summed /\ Runner
  BY DEF IInv
<1>2. pc \in Building => ~Finished
  BY <1>1 DEF Outcome, Finished
<1>3. ci => opt.target = "tc8" /\ ~opt.dir /\ ~opt.skipRootfs
  <2>1. ci => opt = ReleaseRun
    BY <1>1 DEF Runner
  <2> QED
    BY <2>1 DEF ReleaseRun
<1>4. /\ {File("kernel/Image"), File("Image"), File("initramfs"), File("boot.img")} \subseteq Names
      /\ {File("dtbo.img"), File("vbmeta.img"), File("version.env"), Delivered} \subseteq Names
      /\ {KDtb(opt.target), Dtb(opt.target)} \subseteq Names
      /\ \A p \in Profiles \cup {""} : Img(p) \in Names
  BY <1>0, NamesOf DEF Kinds, Delivered
<1>5. CASE ~ci /\ \E o \in Options : Start(o)
  BY <1>5, <1>0, Starts
<1>6. CASE ci /\ runs = 0 /\ Start(ReleaseRun)
  BY <1>6, <1>0, Starts
<1>7. CASE BuildTarballs
  <2>1. /\ pc = "tarballs" /\ pc' = "kernel"
        /\ UNCHANGED <<ci, head, opt, outcome, runs, assets, sums, todo>>
    BY <1>7, Zenon DEF BuildTarballs, Step, KStep
  <2>2. ~Finished /\ ~Finished'
    BY <1>2, <2>1 DEF Finished, Building
  <2>3. out' = out
    BY <1>7, Zenon DEF BuildTarballs
  <2>4. ci => tar'[""] = [dev |-> "tc8", ver |-> head]
    BY <1>7, <1>3, Zenon DEF BuildTarballs
  <2>5. Outcome'
    BY <1>1, <2>1 DEF Outcome, Building, Release
  <2>6. RootfsMade'
    BY <1>0, <1>1, <2>1, <2>2, <2>3, <2>4 DEF RootfsMade, Small, Extras, AfterRootfs, AfterCopy,
      AfterBoot
  <2>7. Runner'
    BY <1>0, <1>1, <2>1, <2>2, <2>3, <2>4 DEF Runner, Release, AfterTarballs, AfterKernel,
      AfterRootfs, AfterCopy, AfterBoot
  <2>8. KernelMade' /\ RootfsDelivered' /\ BootMade' /\ Summed'
    BY <1>0, <2>1, <2>2 DEF KernelMade, RootfsDelivered, BootMade, AfterCopy, AfterBoot
  <2> QED
    BY <1>0, <2>5, <2>6, <2>7, <2>8 DEF IInv
<1>8. CASE CachedTarballs
  <2>1. /\ pc = "tarballs" /\ pc' = "kernel"
        /\ UNCHANGED <<ci, head, opt, outcome, runs, assets, tar, sums, todo>>
    BY <1>8, Zenon DEF CachedTarballs, Step, KStep
  <2>2. ~Finished /\ ~Finished'
    BY <1>2, <2>1 DEF Finished, Building
  <2>3. out' = out
    BY <1>8, Zenon DEF CachedTarballs
  <2>4. ~ci
    BY <1>8, <1>1, <1>3 DEF CachedTarballs, Source, TarballsMissing, Runner
  <2>5. Outcome'
    BY <1>1, <2>1 DEF Outcome, Building, Release
  <2>6. RootfsMade'
    BY <1>0, <1>1, <2>1, <2>2, <2>3, <2>4 DEF RootfsMade, Small, Extras, AfterRootfs, AfterCopy,
      AfterBoot
  <2>7. Runner'
    BY <1>0, <1>1, <2>1, <2>2, <2>3, <2>4 DEF Runner, Release, AfterTarballs, AfterKernel,
      AfterRootfs, AfterCopy, AfterBoot
  <2>8. KernelMade' /\ RootfsDelivered' /\ BootMade' /\ Summed'
    BY <1>0, <2>1, <2>2 DEF KernelMade, RootfsDelivered, BootMade, AfterCopy, AfterBoot
  <2> QED
    BY <1>0, <2>5, <2>6, <2>7, <2>8 DEF IInv
<1>9. CASE Checkout \/ RemoveNew \/ ApplyPatch
  <2>1. /\ pc \in {"kernel", "remove", "patch"} /\ pc' \in {"remove", "patch"} /\ outcome' = outcome
        /\ UNCHANGED <<ci, head, opt, runs, assets, tar, sums, todo, out>>
    <3>1. CASE Checkout
      BY <3>1, Zenon DEF Checkout, KStep
    <3>2. CASE RemoveNew
      BY <3>2, Zenon DEF RemoveNew, KStep
    <3>3. CASE ApplyPatch
      <4>1. RestOK /\ TreeMade
        BY <1>1, TypeParts DEF IInv
      <4>2. Patch(patch) \notin tree.mods /\ \A f \in Series[patch] : tree.new[f] = Absent
        BY <3>3, <4>1, Applies DEF ApplyPatch
      <4> QED
        BY <3>3, <4>2 DEF ApplyPatch, KStep
    <3> QED
      BY <1>9, <3>1, <3>2, <3>3
  <2>2. ~Finished /\ ~Finished'
    BY <1>2, <2>1 DEF Finished, Building
  <2>3. Outcome'
    BY <1>1, <2>1 DEF Outcome, Building, Release
  <2>4. KernelMade' /\ RootfsDelivered' /\ BootMade'
    BY <2>1, <2>2 DEF KernelMade, RootfsDelivered, BootMade, AfterCopy, AfterBoot
  <2>5. RootfsMade'
    BY <1>0, <1>1, <2>1, <2>2 DEF RootfsMade, Small, Extras, AfterRootfs, AfterCopy, AfterBoot
  <2>6. Runner'
    BY <1>0, <1>1, <2>1, <2>2 DEF Runner, Release, AfterTarballs, AfterKernel, AfterRootfs,
      AfterCopy, AfterBoot
  <2> QED
    BY <1>0, <2>3, <2>4, <2>5, <2>6 DEF IInv
<1>35. CASE MakeKernel
  <2>1. /\ pc = "patch" /\ pc' = "kdtb"
        /\ UNCHANGED <<ci, head, opt, outcome, runs, assets, tar, sums, todo>>
    BY <1>35, Zenon DEF MakeKernel, Step, KStep
  <2>2. ~Finished /\ ~Finished'
    BY <1>2, <2>1 DEF Finished, Building
  <2>3. DOMAIN out' = Names /\ \A f \in Names \ {File("kernel/Image")} : out'[f] = out[f]
    BY <1>35, <1>0 DEF MakeKernel, Put
  <2>4. Built = [dev |-> opt.target, ver |-> head]
    <3>1. RestOK /\ TreeMade
      BY <1>1, TypeParts DEF IInv
    <3> QED
      BY <1>35, <3>1, OwnKernel DEF MakeKernel
  <2>5. FreshImage(out'[File("kernel/Image")], head)
    <3> PICK s \in KSizes :
          Put(File("kernel/Image"), [dev |-> Built.dev, ver |-> Built.ver, size |-> s])
      BY <1>35 DEF MakeKernel
    <3>1. out'[File("kernel/Image")] = [dev |-> opt.target, ver |-> head, size |-> s]
      BY <1>0, <1>4, <2>4 DEF Put
    <3> QED
      BY <3>1 DEF FreshImage
  <2>6. Outcome'
    BY <1>1, <2>1 DEF Outcome, Building, Release
  <2>7. KernelMade'
    BY <1>0, <1>1, <2>1, <2>2, <2>5 DEF KernelMade, Fresh, FreshImage, AfterCopy, AfterBoot
  <2>8. RootfsMade'
    BY <1>0, <1>1, <2>1, <2>2 DEF RootfsMade, Small, Extras, AfterRootfs, AfterCopy, AfterBoot
  <2>9. Runner'
    BY <1>0, <1>1, <2>1, <2>2 DEF Runner, Release, AfterTarballs, AfterKernel, AfterRootfs,
      AfterCopy, AfterBoot
  <2>10. RootfsDelivered' /\ BootMade'
    BY <2>1, <2>2 DEF RootfsDelivered, BootMade, AfterCopy, AfterBoot
  <2> QED
    BY <1>0, <2>6, <2>7, <2>8, <2>9, <2>10 DEF IInv
<1>36. CASE CopyDtb
  <2>1. /\ pc = "kdtb" /\ pc' = "rootfs"
        /\ UNCHANGED <<ci, head, opt, outcome, runs, assets, tar, sums, todo>>
    BY <1>36, Zenon DEF CopyDtb, Step, KStep
  <2>2. ~Finished /\ ~Finished'
    BY <1>2, <2>1 DEF Finished, Building
  <2>3. DOMAIN out' = Names /\ \A f \in Names \ {KDtb(opt.target)} : out'[f] = out[f]
    BY <1>36, <1>0 DEF CopyDtb, Put
  <2>4. Built = [dev |-> opt.target, ver |-> head]
    <3>1. RestOK /\ TreeMade
      BY <1>1, TypeParts DEF IInv
    <3>2. pc = "kdtb"
      BY <1>36 DEF CopyDtb
    <3> QED
      BY <3>1, <3>2, OwnDtb
  <2>5. /\ out'[File("kernel/Image")] = out[File("kernel/Image")]
        /\ out'[KDtb(opt.target)] = [dev |-> opt.target, ver |-> head]
    <3>1. File("kernel/Image") # KDtb(opt.target)
      BY Untouched
    <3>2. out' = [out EXCEPT ![KDtb(opt.target)] = [dev |-> opt.target, ver |-> head]]
      BY <1>36, <2>4 DEF CopyDtb, Put
    <3> QED
      BY <1>0, <1>4, <3>1, <3>2
  <2>6. Outcome'
    BY <1>1, <2>1 DEF Outcome, Building, Release
  <2>7. KernelMade'
    BY <1>0, <1>1, <2>1, <2>2, <2>5 DEF KernelMade, Fresh, FreshImage, AfterCopy, AfterBoot
  <2>8. RootfsMade'
    BY <1>0, <1>1, <2>1, <2>2 DEF RootfsMade, Small, Extras, AfterRootfs, AfterCopy, AfterBoot
  <2>9. Runner'
    BY <1>0, <1>1, <2>1, <2>2 DEF Runner, Release, AfterTarballs, AfterKernel, AfterRootfs,
      AfterCopy, AfterBoot
  <2>10. RootfsDelivered' /\ BootMade'
    BY <2>1, <2>2 DEF RootfsDelivered, BootMade, AfterCopy, AfterBoot
  <2> QED
    BY <1>0, <2>6, <2>7, <2>8, <2>9, <2>10 DEF IInv
<1>10. CASE SkipKernel
  <2>1. /\ pc = "kernel" /\ pc' = "rootfs"
        /\ UNCHANGED <<ci, head, opt, outcome, runs, assets, tar, sums, todo>>
    BY <1>10, Zenon DEF SkipKernel, Step, KStep
  <2>2. ~Finished /\ ~Finished'
    BY <1>2, <2>1 DEF Finished, Building
  <2>3. out' = out
    BY <1>10, Zenon DEF SkipKernel
  <2>4. opt.skipKernel
    BY <1>10, Zenon DEF SkipKernel
  <2>5. Outcome'
    BY <1>1, <2>1 DEF Outcome, Building, Release
  <2>6. KernelMade'
    BY <1>0, <1>1, <2>1, <2>2, <2>3, <2>4 DEF KernelMade, Fresh, FreshImage, AfterCopy, AfterBoot
  <2>7. RootfsMade'
    BY <1>0, <1>1, <2>1, <2>2, <2>3, <2>4 DEF RootfsMade, Small, Extras, AfterRootfs, AfterCopy,
      AfterBoot
  <2>8. Runner'
    BY <1>0, <1>1, <2>1, <2>2, <2>3, <2>4 DEF Runner, Release, AfterTarballs, AfterKernel,
      AfterRootfs, AfterCopy, AfterBoot
  <2>9. RootfsDelivered' /\ BootMade' /\ Summed'
    BY <1>0, <2>1, <2>2 DEF RootfsDelivered, BootMade, AfterCopy, AfterBoot
  <2> QED
    BY <1>0, <2>5, <2>6, <2>7, <2>8, <2>9 DEF IInv
<1>11. CASE MakeRootfs
  <2>1. /\ pc = "rootfs" /\ pc' = "deliver"
        /\ UNCHANGED <<ci, head, opt, outcome, runs, assets, tar, sums, todo>>
    BY <1>11, Zenon DEF MakeRootfs, Step, KStep
  <2>2. ~Finished /\ ~Finished'
    BY <1>2, <2>1 DEF Finished, Building
  <2>3. DOMAIN out' = Names /\ \A f \in Names \ {Img("")} : out'[f] = out[f]
    BY <1>11, <1>0 DEF MakeRootfs, Put
  <2>4. /\ out'[File("kernel/Image")] = out[File("kernel/Image")]
        /\ out'[KDtb(opt.target)] = out[KDtb(opt.target)]
    BY <1>4, <2>3, Untouched DEF Delivered
  <2>5. out'[Img("")].size = RootfsSize /\ out'[Img("")].tar = Source
    <3>1. out'[Img("")] = Ext4(Source)
      BY <1>11, <1>0, <1>4 DEF MakeRootfs, Put
    <3>2. Ext4(Source).size = RootfsSize /\ Ext4(Source).tar = Source
      BY DEF Ext4
    <3> QED
      BY <3>1, <3>2
  <2>6. out'[Img("")].size <= ROOTFS_PARTITION_SIZE[opt.target]
    <3>1. FitsPartition
      BY <1>11 DEF MakeRootfs
    <3> QED
      BY <2>5, <3>1 DEF FitsPartition
  <2>7. ci => out'[Img("")].tar = [dev |-> "tc8", ver |-> head]
    <3>1. ci => tar[""] = [dev |-> "tc8", ver |-> head]
      BY <1>1, <2>1 DEF Runner, AfterTarballs, AfterKernel
    <3> QED
      BY <1>3, <2>5, <3>1 DEF Source
  <2>8. Outcome'
    BY <1>1, <2>1 DEF Outcome, Building, Release
  <2>9. KernelMade'
    BY <1>0, <1>1, <2>1, <2>2, <2>4, <2>5, <2>6, <2>7 DEF KernelMade, Fresh, FreshImage, AfterCopy, AfterBoot
  <2>10. RootfsMade'
    BY <1>0, <1>1, <2>1, <2>2, <2>4, <2>5, <2>6, <2>7 DEF RootfsMade, Small, Extras, AfterRootfs,
      AfterCopy, AfterBoot
  <2>11. Runner'
    BY <1>0, <1>1, <2>1, <2>2, <2>4, <2>5, <2>6, <2>7 DEF Runner, Release, AfterTarballs,
      AfterKernel, AfterRootfs, AfterCopy, AfterBoot
  <2>12. RootfsDelivered' /\ BootMade' /\ Summed'
    BY <1>0, <2>1, <2>2 DEF RootfsDelivered, BootMade, AfterCopy, AfterBoot
  <2> QED
    BY <1>0, <2>8, <2>9, <2>10, <2>11, <2>12 DEF IInv
<1>12. CASE Deliver
  <2>1. /\ pc = "deliver" /\ pc' = "copy"
        /\ UNCHANGED <<ci, head, opt, outcome, runs, assets, tar, sums, todo>>
    BY <1>12, Zenon DEF Deliver, Step, KStep
  <2>2. ~Finished /\ ~Finished'
    BY <1>2, <2>1 DEF Finished, Building
  <2>3. DOMAIN out' = Names /\ \A f \in Names \ {Delivered} : out'[f] = out[f]
    BY <1>12, <1>0 DEF Deliver, Put, Delivered
  <2>4. /\ out'[File("kernel/Image")] = out[File("kernel/Image")]
        /\ out'[KDtb(opt.target)] = out[KDtb(opt.target)]
        /\ out'[Img("")] = out[Img("")]
    BY <1>4, <2>3, Untouched DEF Delivered
  <2>5. out'[Delivered] = [of |-> out[Img("")]]
    BY <1>12, <1>0, <1>4 DEF Deliver, Put, Delivered
  <2>6. Outcome'
    BY <1>1, <2>1 DEF Outcome, Building, Release
  <2>7. KernelMade'
    BY <1>0, <1>1, <2>1, <2>2, <2>4, <2>5 DEF KernelMade, Fresh, FreshImage, AfterCopy, AfterBoot
  <2>8. RootfsMade'
    BY <1>0, <1>1, <2>1, <2>2, <2>4, <2>5 DEF RootfsMade, Small, Extras, AfterRootfs, AfterCopy,
      AfterBoot
  <2>9. RootfsDelivered'
    BY <1>0, <1>1, <2>1, <2>2, <2>4, <2>5 DEF RootfsDelivered, Delivered, Model, AfterCopy,
      AfterBoot
  <2>10. Runner'
    BY <1>0, <1>1, <2>1, <2>2, <2>4, <2>5 DEF Runner, Release, AfterTarballs, AfterKernel,
      AfterRootfs, AfterCopy, AfterBoot
  <2>11. BootMade' /\ Summed'
    BY <1>0, <2>1, <2>2 DEF BootMade, AfterBoot
  <2> QED
    BY <1>0, <2>6, <2>7, <2>8, <2>9, <2>10, <2>11 DEF IInv
<1>13. CASE CopyKernel
  <2>1. /\ pc = "copy" /\ pc' = "ramdisk"
        /\ UNCHANGED <<ci, head, opt, outcome, runs, assets, tar, sums, todo>>
    BY <1>13, Zenon DEF CopyKernel, Step, KStep
  <2>2. ~Finished /\ ~Finished'
    BY <1>2, <2>1 DEF Finished, Building
  <2>3. DOMAIN out' = Names /\ \A f \in Names \ {File("Image"), Dtb(opt.target)} : out'[f] = out[f]
    BY <1>13, <1>0 DEF CopyKernel, Put
  <2>4. /\ out'[Img("")] = out[Img("")]
        /\ out'[Delivered] = out[Delivered]
    BY <1>4, <2>3, Untouched DEF Delivered
  <2>5. /\ out'[File("Image")] = out[File("kernel/Image")]
        /\ out'[Dtb(opt.target)] = out[KDtb(opt.target)]
    BY <1>13, <1>0, <1>4, Untouched DEF CopyKernel
  <2>6. Outcome'
    BY <1>1, <2>1 DEF Outcome, Building, Release
  <2>7. KernelMade'
    BY <1>0, <1>1, <2>1, <2>2, <2>4, <2>5 DEF KernelMade, Fresh, FreshImage, AfterCopy, AfterBoot
  <2>8. RootfsMade'
    BY <1>0, <1>1, <2>1, <2>2, <2>4, <2>5 DEF RootfsMade, Small, Extras, AfterRootfs, AfterCopy,
      AfterBoot
  <2>9. RootfsDelivered'
    BY <1>0, <1>1, <2>1, <2>2, <2>4, <2>5 DEF RootfsDelivered, Delivered, Model, AfterCopy,
      AfterBoot
  <2>10. Runner'
    BY <1>0, <1>1, <2>1, <2>2, <2>4, <2>5 DEF Runner, Release, AfterTarballs, AfterKernel,
      AfterRootfs, AfterCopy, AfterBoot
  <2>11. BootMade' /\ Summed'
    BY <1>0, <2>1, <2>2 DEF BootMade, AfterBoot
  <2> QED
    BY <1>0, <2>6, <2>7, <2>8, <2>9, <2>10, <2>11 DEF IInv
<1>14. CASE MakeRamdisk
  <2>1. /\ pc = "ramdisk" /\ pc' = "profiles"
        /\ UNCHANGED <<ci, head, opt, outcome, runs, assets, tar, sums, todo>>
    BY <1>14, Zenon DEF MakeRamdisk, Step, KStep
  <2>2. ~Finished /\ ~Finished'
    BY <1>2, <2>1 DEF Finished, Building
  <2>3. DOMAIN out' = Names /\ \A f \in Names \ {File("initramfs")} : out'[f] = out[f]
    BY <1>14, <1>0 DEF MakeRamdisk, Put
  <2>4. /\ out'[Img("")] = out[Img("")]
        /\ out'[Delivered] = out[Delivered]
        /\ out'[File("Image")] = out[File("Image")]
        /\ out'[Dtb(opt.target)] = out[Dtb(opt.target)]
    BY <1>4, <2>3, Untouched DEF Delivered
  <2>5. Outcome'
    BY <1>1, <2>1 DEF Outcome, Building, Release
  <2>6. KernelMade'
    BY <1>0, <1>1, <2>1, <2>2, <2>4 DEF KernelMade, Fresh, FreshImage, AfterCopy, AfterBoot
  <2>7. RootfsMade'
    BY <1>0, <1>1, <2>1, <2>2, <2>4 DEF RootfsMade, Small, Extras, AfterRootfs, AfterCopy, AfterBoot
  <2>8. RootfsDelivered'
    BY <1>0, <1>1, <2>1, <2>2, <2>4 DEF RootfsDelivered, Delivered, Model, AfterCopy, AfterBoot
  <2>9. Runner'
    BY <1>0, <1>1, <2>1, <2>2, <2>4 DEF Runner, Release, AfterTarballs, AfterKernel, AfterRootfs,
      AfterCopy, AfterBoot
  <2>10. BootMade' /\ Summed'
    BY <1>0, <2>1, <2>2 DEF BootMade, AfterBoot
  <2> QED
    BY <1>0, <2>5, <2>6, <2>7, <2>8, <2>9, <2>10 DEF IInv
<1>15. CASE SkipRamdisk
  <2>1. /\ pc = "ramdisk" /\ pc' = "profiles"
        /\ UNCHANGED <<ci, head, opt, outcome, runs, assets, tar, sums, todo>>
    BY <1>15, Zenon DEF SkipRamdisk, Step, KStep
  <2>2. ~Finished /\ ~Finished'
    BY <1>2, <2>1 DEF Finished, Building
  <2>3. out' = out
    BY <1>15, Zenon DEF SkipRamdisk
  <2>4. Outcome'
    BY <1>1, <2>1 DEF Outcome, Building, Release
  <2>5. KernelMade'
    BY <1>0, <1>1, <2>1, <2>2, <2>3 DEF KernelMade, Fresh, FreshImage, AfterCopy, AfterBoot
  <2>6. RootfsMade'
    BY <1>0, <1>1, <2>1, <2>2, <2>3 DEF RootfsMade, Small, Extras, AfterRootfs, AfterCopy, AfterBoot
  <2>7. RootfsDelivered'
    BY <1>0, <1>1, <2>1, <2>2, <2>3 DEF RootfsDelivered, Delivered, Model, AfterCopy, AfterBoot
  <2>8. Runner'
    BY <1>0, <1>1, <2>1, <2>2, <2>3 DEF Runner, Release, AfterTarballs, AfterKernel, AfterRootfs,
      AfterCopy, AfterBoot
  <2>9. BootMade' /\ Summed'
    BY <1>0, <2>1, <2>2 DEF BootMade, AfterBoot
  <2> QED
    BY <1>0, <2>4, <2>5, <2>6, <2>7, <2>8, <2>9 DEF IInv
<1>16. CASE \E p \in Profiles : PackProfile(p)
  <2> PICK p \in Profiles : PackProfile(p)
    BY <1>16
  <2>1. /\ pc = "profiles" /\ pc' = "profiles"
        /\ UNCHANGED <<ci, head, opt, outcome, runs, assets, tar, sums>>
    BY Zenon DEF PackProfile, Step, KStep
  <2>2. ~Finished /\ ~Finished'
    BY <1>2, <2>1 DEF Finished, Building
  <2>3. DOMAIN out' = Names /\ \A f \in Names \ {Img(p), Simg(p)} : out'[f] = out[f]
    BY <1>0 DEF PackProfile, Put
  <2>4. Img("") \notin {Img(p), Simg(p)} /\ Delivered \notin {Img(p), Simg(p)}
    BY NamesApart, Untouched DEF Profiles, Delivered
  <2>5. /\ out'[Img("")] = out[Img("")]
        /\ out'[Delivered] = out[Delivered]
        /\ out'[File("Image")] = out[File("Image")]
        /\ out'[Dtb(opt.target)] = out[Dtb(opt.target)]
        /\ out'[File("initramfs")] = out[File("initramfs")]
    BY <1>4, <2>3, <2>4, Untouched
  <2>6. \A q \in Profiles \ {p} : out'[Img(q)] = out[Img(q)]
    BY <1>4, <2>3, NamesApart
  <2>7. out'[Img(p)] = [tar |-> tar[p], size |-> RootfsSize]
    BY <1>0, NamesOf, NamesApart DEF PackProfile, Ext4
  <2>8. out'[Img(p)].size <= ROOTFS_PARTITION_SIZE[opt.target]
    <3>1. FitsPartition
      BY DEF PackProfile
    <3> QED
      BY <2>7, <3>1 DEF FitsPartition
  <2>9. todo' = todo \ {p}
    BY Zenon DEF PackProfile
  <2>10. Outcome'
    BY <1>1, <2>1 DEF Outcome, Building, Release
  <2>11. KernelMade'
    BY <1>0, <1>1, <2>1, <2>2, <2>5, <2>6, <2>7, <2>8, <2>9 DEF KernelMade, Fresh, FreshImage, AfterCopy,
      AfterBoot
  <2>12. RootfsMade'
    BY <1>0, <1>1, <2>1, <2>2, <2>5, <2>6, <2>7, <2>8, <2>9 DEF RootfsMade, Small, Extras,
      AfterRootfs, AfterCopy, AfterBoot
  <2>13. RootfsDelivered'
    BY <1>0, <1>1, <2>1, <2>2, <2>5, <2>6, <2>7, <2>8, <2>9 DEF RootfsDelivered, Delivered, Model,
      AfterCopy, AfterBoot
  <2>14. Runner'
    BY <1>0, <1>1, <2>1, <2>2, <2>5, <2>6, <2>7, <2>8, <2>9 DEF Runner, Release, AfterTarballs,
      AfterKernel, AfterRootfs, AfterCopy, AfterBoot
  <2>15. BootMade' /\ Summed'
    BY <1>0, <2>1, <2>2 DEF BootMade, AfterBoot
  <2> QED
    BY <1>0, <2>10, <2>11, <2>12, <2>13, <2>14, <2>15 DEF IInv
<1>17. CASE \E p \in Profiles : NoProfileTarball(p)
  <2> PICK p \in Profiles : NoProfileTarball(p)
    BY <1>17
  <2>1. CASE p # "kiosk"
    BY <1>0, <2>1, Ends DEF NoProfileTarball, Refuse, Exit
  <2>2. CASE p = "kiosk"
    <3>1. /\ UNCHANGED <<ci, head, tar, out, sums, opt, pc, outcome, runs, assets>>
          /\ todo' = todo \ {p} /\ tar[p] = Absent /\ pc = "profiles"
      BY <2>2 DEF NoProfileTarball, Step, KStep
    <3>2. RootfsMade'
      BY <1>1, <3>1, <1>2 DEF RootfsMade, Small, Extras, AfterRootfs, AfterCopy, AfterBoot,
        Finished
    <3>3. Outcome' /\ KernelMade' /\ RootfsDelivered' /\ BootMade' /\ Runner'
      BY <1>1, <3>1 DEF Outcome, KernelMade, Fresh, FreshImage, RootfsDelivered, Delivered, BootMade, Extra, Cut,
        Model, Ramdisk, Small, Runner, Finished, KSize
    <3> QED
      BY <1>0, <3>2, <3>3 DEF IInv
  <2> QED
    BY <2>1, <2>2
<1>18. CASE MakeBoot
  <2>1. /\ pc = "profiles" /\ pc' = "dtbo"
        /\ UNCHANGED <<ci, head, opt, outcome, runs, assets, tar, sums, todo>>
    BY <1>18, Zenon DEF MakeBoot, Step, KStep
  <2>2. ~Finished /\ ~Finished'
    BY <1>2, <2>1 DEF Finished, Building
  <2>3. DOMAIN out' = Names /\ \A f \in Names \ {File("boot.img")} : out'[f] = out[f]
    BY <1>18, <1>0 DEF MakeBoot, Put
  <2>4. /\ out'[Img("")] = out[Img("")]
        /\ out'[Delivered] = out[Delivered]
        /\ out'[File("Image")] = out[File("Image")]
        /\ out'[Dtb(opt.target)] = out[Dtb(opt.target)]
        /\ out'[File("initramfs")] = out[File("initramfs")]
        /\ \A p \in Profiles : out'[Img(p)] = out[Img(p)]
    BY <1>4, <2>3, Untouched DEF Delivered
  <2>5. out'[File("boot.img")] \in [kernel : {out[File("Image")]}, extra : {Extra}, cut : {Cut},
                                 footer : BOOLEAN]
    <3>1. out'[File("boot.img")] = Packed
      BY <1>18, <1>0, <1>4 DEF MakeBoot, Put
    <3>2. Cut = FALSE
      BY <1>18 DEF MakeBoot, Cut
    <3>3. Packed \in [kernel : {out[File("Image")]}, extra : {Extra}, cut : {FALSE},
                     footer : BOOLEAN]
      BY DEF Packed, Extra
    <3> QED
      BY <3>1, <3>2, <3>3, Zenon
  <2>6. todo = {}
    BY <1>18, Zenon DEF MakeBoot
  <2>7. Outcome'
    BY <1>1, <2>1 DEF Outcome, Building, Release
  <2>8. KernelMade'
    BY <1>0, <1>1, <2>1, <2>2, <2>4, <2>5, <2>6 DEF KernelMade, Fresh, FreshImage, AfterCopy, AfterBoot
  <2>9. RootfsMade'
    BY <1>0, <1>1, <2>1, <2>2, <2>4, <2>5, <2>6 DEF RootfsMade, Small, Extras, AfterRootfs,
      AfterCopy, AfterBoot
  <2>10. RootfsDelivered'
    BY <1>0, <1>1, <2>1, <2>2, <2>4, <2>5, <2>6 DEF RootfsDelivered, Delivered, Model, AfterCopy,
      AfterBoot
  <2>11. BootMade'
    BY <1>0, <1>1, <2>1, <2>2, <2>4, <2>5, <2>6 DEF BootMade, Extra, Cut, Model, Ramdisk, AfterBoot
  <2>12. Runner'
    BY <1>0, <1>1, <2>1, <2>2, <2>4, <2>5, <2>6 DEF Runner, Release, AfterTarballs, AfterKernel,
      AfterRootfs, AfterCopy, AfterBoot
  <2>13. Summed'
    BY <1>0
  <2> QED
    BY <1>0, <2>7, <2>8, <2>9, <2>10, <2>11, <2>12, <2>13 DEF IInv
<1>19. CASE MakeBootPadded
  <2>1. /\ pc = "profiles" /\ pc' = "dtbo"
        /\ UNCHANGED <<ci, head, opt, outcome, runs, assets, tar, sums, todo>>
    BY <1>19, Zenon DEF MakeBootPadded, Step, KStep
  <2>2. ~Finished /\ ~Finished'
    BY <1>2, <2>1 DEF Finished, Building
  <2>3. DOMAIN out' = Names /\ \A f \in Names \ {File("boot.img")} : out'[f] = out[f]
    BY <1>19, <1>0 DEF MakeBootPadded, Put
  <2>4. /\ out'[Img("")] = out[Img("")]
        /\ out'[Delivered] = out[Delivered]
        /\ out'[File("Image")] = out[File("Image")]
        /\ out'[Dtb(opt.target)] = out[Dtb(opt.target)]
        /\ out'[File("initramfs")] = out[File("initramfs")]
        /\ \A p \in Profiles : out'[Img(p)] = out[Img(p)]
    BY <1>4, <2>3, Untouched DEF Delivered
  <2>5. out'[File("boot.img")] \in [kernel : {out[File("Image")]}, extra : {Extra}, cut : {Cut},
                                 footer : BOOLEAN]
    <3> DEFINE cut == BootSize(Packed.kernel) > BOOT_PAD_SIZE
    <3>1. out'[File("boot.img")] = [Packed EXCEPT !.cut = cut, !.footer = TRUE]
      BY <1>19, <1>0, <1>4 DEF MakeBootPadded, Put
    <3>2. Packed.kernel = out[File("Image")]
      BY DEF Packed
    <3>3. Model = "booti"
      BY <1>19 DEF MakeBootPadded
    <3>4. cut = Cut
      BY <3>2, <3>3 DEF Cut
    <3> HIDE DEF cut
    <3> QED
      BY <3>1, <3>4 DEF Packed, Extra
  <2>6. todo = {}
    BY <1>19, Zenon DEF MakeBootPadded
  <2>7. Outcome'
    BY <1>1, <2>1 DEF Outcome, Building, Release
  <2>8. KernelMade'
    BY <1>0, <1>1, <2>1, <2>2, <2>4, <2>5, <2>6 DEF KernelMade, Fresh, FreshImage, AfterCopy, AfterBoot
  <2>9. RootfsMade'
    BY <1>0, <1>1, <2>1, <2>2, <2>4, <2>5, <2>6 DEF RootfsMade, Small, Extras, AfterRootfs,
      AfterCopy, AfterBoot
  <2>10. RootfsDelivered'
    BY <1>0, <1>1, <2>1, <2>2, <2>4, <2>5, <2>6 DEF RootfsDelivered, Delivered, Model, AfterCopy,
      AfterBoot
  <2>11. BootMade'
    BY <1>0, <1>1, <2>1, <2>2, <2>4, <2>5, <2>6 DEF BootMade, Extra, Cut, Model, Ramdisk, AfterBoot
  <2>12. Runner'
    BY <1>0, <1>1, <2>1, <2>2, <2>4, <2>5, <2>6 DEF Runner, Release, AfterTarballs, AfterKernel,
      AfterRootfs, AfterCopy, AfterBoot
  <2>13. Summed'
    BY <1>0
  <2> QED
    BY <1>0, <2>7, <2>8, <2>9, <2>10, <2>11, <2>12, <2>13 DEF IInv
<1>20. CASE MakeDtbo
  <2>1. /\ pc = "dtbo" /\ pc' \in {"vbmeta", "footer"}
        /\ UNCHANGED <<ci, head, opt, outcome, runs, assets, tar, sums, todo>>
    BY <1>20, Zenon DEF MakeDtbo, Step, KStep
  <2>2. ~Finished /\ ~Finished'
    BY <1>2, <2>1 DEF Finished, Building
  <2>3. DOMAIN out' = Names /\ \A f \in Names \ {File("dtbo.img")} : out'[f] = out[f]
    BY <1>20, <1>0 DEF MakeDtbo, Put
  <2>4. /\ out'[Img("")] = out[Img("")]
        /\ out'[Delivered] = out[Delivered]
        /\ out'[File("Image")] = out[File("Image")]
        /\ out'[Dtb(opt.target)] = out[Dtb(opt.target)]
        /\ out'[File("initramfs")] = out[File("initramfs")]
        /\ out'[File("boot.img")] = out[File("boot.img")]
        /\ \A p \in Profiles : out'[Img(p)] = out[Img(p)]
    BY <1>4, <2>3, Untouched DEF Delivered
  <2>5. out'[File("dtbo.img")] \in [dtb : {out[Dtb(opt.target)]}, footer : BOOLEAN]
    BY <1>20, <1>0, <1>4 DEF MakeDtbo, Put
  <2>6. Outcome'
    BY <1>1, <2>1 DEF Outcome, Building, Release
  <2>7. KernelMade'
    BY <1>0, <1>1, <2>1, <2>2, <2>4, <2>5 DEF KernelMade, Fresh, FreshImage, AfterCopy, AfterBoot
  <2>8. RootfsMade'
    BY <1>0, <1>1, <2>1, <2>2, <2>4, <2>5 DEF RootfsMade, Small, Extras, AfterRootfs, AfterCopy,
      AfterBoot
  <2>9. RootfsDelivered'
    BY <1>0, <1>1, <2>1, <2>2, <2>4, <2>5 DEF RootfsDelivered, Delivered, Model, AfterCopy,
      AfterBoot
  <2>10. BootMade'
    BY <1>0, <1>1, <2>1, <2>2, <2>4, <2>5 DEF BootMade, Extra, Cut, Model, Ramdisk, AfterBoot
  <2>11. Runner'
    BY <1>0, <1>1, <2>1, <2>2, <2>4, <2>5 DEF Runner, Release, AfterTarballs, AfterKernel,
      AfterRootfs, AfterCopy, AfterBoot
  <2>12. Summed'
    BY <1>0
  <2> QED
    BY <1>0, <2>6, <2>7, <2>8, <2>9, <2>10, <2>11, <2>12 DEF IInv
<1>21. CASE AddFooters
  <2>1. /\ pc = "footer" /\ pc' = "vbmeta"
        /\ UNCHANGED <<ci, head, opt, outcome, runs, assets, tar, sums, todo>>
    BY <1>21, Zenon DEF AddFooters, Step, KStep
  <2>2. ~Finished /\ ~Finished'
    BY <1>2, <2>1 DEF Finished, Building
  <2>3. DOMAIN out' = Names /\ \A f \in Names \ {File("boot.img"), File("dtbo.img")} : out'[f] =
    out[f]
    BY <1>21, <1>0 DEF AddFooters, Put
  <2>4. /\ out'[Img("")] = out[Img("")]
        /\ out'[Delivered] = out[Delivered]
        /\ out'[File("Image")] = out[File("Image")]
        /\ out'[Dtb(opt.target)] = out[Dtb(opt.target)]
        /\ out'[File("initramfs")] = out[File("initramfs")]
        /\ \A p \in Profiles : out'[Img(p)] = out[Img(p)]
    BY <1>4, <2>3, Untouched DEF Delivered
  <2>5. /\ out'[File("boot.img")] = [out[File("boot.img")] EXCEPT !.footer = TRUE]
        /\ out'[File("dtbo.img")] = [out[File("dtbo.img")] EXCEPT !.footer = TRUE]
    BY <1>21, <1>0, <1>4, Untouched DEF AddFooters
  <2>6. Outcome'
    BY <1>1, <2>1 DEF Outcome, Building, Release
  <2>7. KernelMade'
    BY <1>0, <1>1, <2>1, <2>2, <2>4, <2>5 DEF KernelMade, Fresh, FreshImage, AfterCopy, AfterBoot
  <2>8. RootfsMade'
    BY <1>0, <1>1, <2>1, <2>2, <2>4, <2>5 DEF RootfsMade, Small, Extras, AfterRootfs, AfterCopy,
      AfterBoot
  <2>9. RootfsDelivered'
    BY <1>0, <1>1, <2>1, <2>2, <2>4, <2>5 DEF RootfsDelivered, Delivered, Model, AfterCopy,
      AfterBoot
  <2>10. BootMade'
    BY <1>0, <1>1, <2>1, <2>2, <2>4, <2>5 DEF BootMade, Extra, Cut, Model, Ramdisk, AfterBoot
  <2>11. Runner'
    BY <1>0, <1>1, <2>1, <2>2, <2>4, <2>5 DEF Runner, Release, AfterTarballs, AfterKernel,
      AfterRootfs, AfterCopy, AfterBoot
  <2>12. Summed'
    BY <1>0
  <2> QED
    BY <1>0, <2>6, <2>7, <2>8, <2>9, <2>10, <2>11, <2>12 DEF IInv
<1>22. CASE MakeVbmeta
  <2>1. /\ pc = "vbmeta" /\ pc' = "version"
        /\ UNCHANGED <<ci, head, opt, outcome, runs, assets, tar, sums, todo>>
    BY <1>22, Zenon DEF MakeVbmeta, Step, KStep
  <2>2. ~Finished /\ ~Finished'
    BY <1>2, <2>1 DEF Finished, Building
  <2>3. DOMAIN out' = Names /\ \A f \in Names \ {File("vbmeta.img")} : out'[f] = out[f]
    BY <1>22, <1>0 DEF MakeVbmeta, Put
  <2>4. /\ out'[Img("")] = out[Img("")]
        /\ out'[Delivered] = out[Delivered]
        /\ out'[File("Image")] = out[File("Image")]
        /\ out'[Dtb(opt.target)] = out[Dtb(opt.target)]
        /\ out'[File("initramfs")] = out[File("initramfs")]
        /\ out'[File("boot.img")] = out[File("boot.img")]
        /\ out'[File("dtbo.img")] = out[File("dtbo.img")]
        /\ \A p \in Profiles : out'[Img(p)] = out[Img(p)]
    BY <1>4, <2>3, Untouched DEF Delivered
  <2>5. out'[File("vbmeta.img")] = [boot |-> out[File("boot.img")], dtbo |-> out[File("dtbo.img")]]
    BY <1>22, <1>0, <1>4 DEF MakeVbmeta, Put
  <2>6. Outcome'
    BY <1>1, <2>1 DEF Outcome, Building, Release
  <2>7. KernelMade'
    BY <1>0, <1>1, <2>1, <2>2, <2>4, <2>5 DEF KernelMade, Fresh, FreshImage, AfterCopy, AfterBoot
  <2>8. RootfsMade'
    BY <1>0, <1>1, <2>1, <2>2, <2>4, <2>5 DEF RootfsMade, Small, Extras, AfterRootfs, AfterCopy,
      AfterBoot
  <2>9. RootfsDelivered'
    BY <1>0, <1>1, <2>1, <2>2, <2>4, <2>5 DEF RootfsDelivered, Delivered, Model, AfterCopy,
      AfterBoot
  <2>10. BootMade'
    BY <1>0, <1>1, <2>1, <2>2, <2>4, <2>5 DEF BootMade, Extra, Cut, Model, Ramdisk, AfterBoot
  <2>11. Runner'
    BY <1>0, <1>1, <2>1, <2>2, <2>4, <2>5 DEF Runner, Release, AfterTarballs, AfterKernel,
      AfterRootfs, AfterCopy, AfterBoot
  <2>12. Summed'
    BY <1>0
  <2> QED
    BY <1>0, <2>6, <2>7, <2>8, <2>9, <2>10, <2>11, <2>12 DEF IInv
<1>37. CASE WriteVersion
  <2>1. /\ pc = "version" /\ pc' = "sums"
        /\ UNCHANGED <<ci, head, opt, outcome, runs, assets, tar, sums, todo>>
    BY <1>37, Zenon DEF WriteVersion, Step, KStep
  <2>2. ~Finished /\ ~Finished'
    BY <1>2, <2>1 DEF Finished, Building
  <2>3. DOMAIN out' = Names /\ \A f \in Names \ {File("version.env")} : out'[f] = out[f]
    BY <1>37, <1>0 DEF WriteVersion, Put
  <2>4. /\ out'[File("Image")] = out[File("Image")]
        /\ out'[File("initramfs")] = out[File("initramfs")]
        /\ out'[File("boot.img")] = out[File("boot.img")]
        /\ out'[File("dtbo.img")] = out[File("dtbo.img")]
        /\ out'[File("vbmeta.img")] = out[File("vbmeta.img")]
        /\ out'[Dtb(opt.target)] = out[Dtb(opt.target)]
        /\ out'[Delivered] = out[Delivered]
        /\ \A p \in Profiles \cup {""} : out'[Img(p)] = out[Img(p)]
    BY <1>4, <2>3, Untouched DEF Delivered
  <2>5. Outcome'
    BY <1>1, <2>1 DEF Outcome, Building, Release
  <2>6. KernelMade'
    BY <1>0, <1>1, <2>1, <2>2, <2>4 DEF KernelMade, Fresh, FreshImage, AfterCopy, AfterBoot
  <2>7. RootfsMade'
    BY <1>0, <1>1, <2>1, <2>2, <2>4 DEF RootfsMade, Small, Extras, AfterRootfs, AfterCopy, AfterBoot
  <2>8. RootfsDelivered'
    BY <1>0, <1>1, <2>1, <2>2, <2>4 DEF RootfsDelivered, Delivered, Model, AfterCopy, AfterBoot
  <2>9. BootMade'
    BY <1>0, <1>1, <2>1, <2>2, <2>4 DEF BootMade, Extra, Cut, Model, Ramdisk, AfterBoot
  <2>10. Runner'
    BY <1>0, <1>1, <2>1, <2>2, <2>4 DEF Runner, Release, AfterTarballs, AfterKernel, AfterRootfs,
      AfterCopy, AfterBoot
  <2> QED
    BY <1>0, <2>5, <2>6, <2>7, <2>8, <2>9, <2>10 DEF IInv
<1>23. CASE WriteSums
  <2>1. /\ UNCHANGED <<ci, head, tar, out, opt, todo, runs, assets>> /\ Finished'
        /\ pc = "sums" /\ pc' = IF ci THEN "check" ELSE "idle"
    BY <1>23 DEF WriteSums, Finished
  <2>2. out[File("version.env")].ver = head
    BY <1>1, <2>1 DEF Stamped
  <2>3. Outcome'
    BY <2>1 DEF Outcome, Building, Release, Finished
  <2>4. KernelMade'
    BY <1>0, <1>1, <2>1, <2>2 DEF KernelMade, Fresh, FreshImage, AfterKernel, AfterRootfs,
      AfterCopy, AfterBoot
  <2>5. RootfsMade'
    BY <1>0, <1>1, <2>1 DEF RootfsMade, Small, AfterRootfs, AfterCopy, AfterBoot
  <2>6. RootfsDelivered'
    BY <1>0, <1>1, <2>1 DEF RootfsDelivered, Delivered, Model, AfterCopy, AfterBoot
  <2>7. BootMade'
    BY <1>0, <1>1, <2>1 DEF BootMade, Extra, Cut, Model, Ramdisk, AfterBoot
  <2>8. Runner'
    BY <1>0, <1>1, <2>1, <2>2 DEF Runner, Release, AfterTarballs, AfterKernel, AfterRootfs,
      AfterCopy, AfterBoot
  <2> QED
    BY <1>0, <2>3, <2>4, <2>5, <2>6, <2>7, <2>8 DEF IInv
<1>24. CASE NoTarball
  BY <1>24, <1>0, Ends DEF NoTarball, Refuse, Exit
<1>25. CASE NoKernel
  BY <1>25, <1>0, Ends DEF NoKernel, Refuse, Exit
<1>26. CASE RefuseRootfs
  BY <1>26, <1>0, Ends DEF RefuseRootfs, Refuse, Exit
<1>27. CASE DirectoryRootfs
  BY <1>27, <1>0, Ends DEF DirectoryRootfs, Refuse, Exit
<1>28. CASE RefuseBoot
  BY <1>28, <1>0, Ends DEF RefuseBoot, Refuse, Exit
<1>29. CASE RefuseRelease
  BY <1>29, <1>0, Ends DEF RefuseRelease, Refuse, Exit
<1>30. CASE Abort
  BY <1>30, <1>0, Ends DEF Abort, Exit, Building
<1>31. CASE Edit
  <2>1. /\ pc = "idle" /\ ~ci
        /\ UNCHANGED <<ci, tar, out, sums, opt, pc, todo, outcome, runs, aborts, assets>>
    BY <1>31 DEF Edit
  <2>2. Outcome' /\ RootfsMade' /\ RootfsDelivered' /\ BootMade'
    BY <1>1, <2>1 DEF Outcome, RootfsMade, RootfsDelivered, Delivered, BootMade, Extra, Cut, Model,
      Ramdisk, Small, Extras, Finished
  <2>3. KernelMade' /\ Runner'
    BY <1>1, <2>1 DEF KernelMade, Fresh, FreshImage, Runner, Finished, AfterKernel, AfterRootfs, AfterCopy,
      AfterBoot
  <2> QED
    BY <1>0, <2>2, <2>3 DEF IInv
<1>32. CASE CheckSize
  <2>1. /\ pc = "check" /\ pc' = "assemble"
        /\ UNCHANGED <<ci, head, tar, out, sums, opt, todo, outcome, runs, aborts>>
    BY <1>32 DEF CheckSize
  <2>2. Outcome' /\ RootfsMade' /\ RootfsDelivered' /\ BootMade'
    BY <1>1, <2>1 DEF Outcome, RootfsMade, RootfsDelivered, Delivered, BootMade, Extra, Cut, Model,
      Ramdisk, Small, Extras, Finished, Building, Release, AfterRootfs, AfterCopy,
      AfterBoot
  <2>3. KernelMade'
    BY <1>1, <2>1 DEF KernelMade, Fresh, FreshImage, Finished, AfterKernel, AfterRootfs, AfterCopy, AfterBoot
  <2>4. Runner'
    <3>1. KSize(out[File("Image")])' <= BOOTM_LEN
      BY <1>32, <2>1 DEF CheckSize
    <3>2. ci' = ci /\ ci
      BY <1>1, <2>1 DEF Outcome, Release
    <3>3. /\ opt = ReleaseRun /\ runs # 0
          /\ out[Img("")].tar = [dev |-> "tc8", ver |-> head]
          /\ out[File("version.env")].ver = head
      BY <1>1, <2>1, <3>2 DEF Runner, Release
    <3> QED
      BY <2>1, <3>1, <3>3 DEF Runner, AfterTarballs, AfterKernel, AfterRootfs, AfterCopy, AfterBoot
  <2> QED
    BY <1>0, <2>2, <2>3, <2>4 DEF IInv
<1>33. CASE Publish
  <2>1. /\ pc = "assemble" /\ pc' = "published"
        /\ UNCHANGED <<ci, head, tar, out, sums, opt, todo, outcome, runs, aborts>>
    BY <1>33 DEF Publish
  <2>2. Outcome' /\ RootfsMade' /\ RootfsDelivered' /\ BootMade'
    BY <1>1, <2>1 DEF Outcome, RootfsMade, RootfsDelivered, Delivered, BootMade, Extra, Cut, Model,
      Ramdisk, Small, Extras, Finished, Building, Release, AfterRootfs, AfterCopy,
      AfterBoot
  <2>3. KernelMade'
    BY <1>1, <2>1 DEF KernelMade, Fresh, FreshImage, Finished, AfterKernel, AfterRootfs, AfterCopy, AfterBoot
  <2>4. Runner'
    <3>1. assets' = [f \in Assets |-> out'[f]]
      BY <1>33 DEF Publish
    <3>2. ci' = ci /\ ci
      BY <1>1, <2>1 DEF Outcome, Release
    <3>3. /\ opt = ReleaseRun /\ runs # 0
          /\ out[Img("")].tar = [dev |-> "tc8", ver |-> head]
          /\ out[File("version.env")].ver = head
          /\ KSize(out[File("Image")]) <= BOOTM_LEN
      BY <1>1, <2>1, <3>2 DEF Runner, Release
    <3> QED
      BY <2>1, <3>1, <3>3 DEF Runner, AfterTarballs, AfterKernel, AfterRootfs, AfterCopy, AfterBoot
  <2> QED
    BY <1>0, <2>2, <2>3, <2>4 DEF IInv
<1>34. CASE UNCHANGED vars
  <2> USE <1>34 DEF vars
  <2>1. Outcome' /\ KernelMade' /\ RootfsMade' /\ RootfsDelivered'
    BY <1>1 DEF Outcome, KernelMade, Fresh, FreshImage, RootfsMade, RootfsDelivered, Delivered, Model, Small,
      Extras, Finished
  <2>2. BootMade'
    BY <1>1 DEF BootMade, Extra, Cut, Model, Ramdisk, Small, Finished
  <2>3. Runner'
    BY <1>1 DEF Runner
  <2> QED
    BY <1>0, <2>1, <2>2, <2>3 DEF IInv
<1> QED
  BY <1>5, <1>6, <1>7, <1>8, <1>9, <1>10, <1>11, <1>12, <1>13, <1>14, <1>15, <1>16, <1>17, <1>18,
    <1>19, <1>20, <1>21, <1>22, <1>23, <1>24, <1>25, <1>26, <1>27, <1>28, <1>29, <1>30, <1>31,
    <1>32, <1>33, <1>34, <1>35, <1>36, <1>37 DEF Next, Build

-----------------------------------------------------------------------------
LEMMA Invariant == Spec => []IInv
  BY InvInit, InvStep, PTL DEF Spec

(***************************************************************************)
(* A second invariant, on top of the first: what --skip-kernel finds.  As  *)
(* long as no run aborts, the kernel and the dtb under kernel/ are of one  *)
(* tree if only one target has a dtb there; the copies come from them.     *)
(***************************************************************************)

K == File("kernel/Image")

OneTree(k, d, t) == k.dev = t /\ d = [dev |-> t, ver |-> k.ver]

Alone(t) == \A u \in Targets \ {t} : out[KDtb(u)] = Absent

\* Between the two copies of kernel/build.sh the dtb is still the older one.
Pair ==
  pc # "kdtb" =>
    \A t \in Targets : Alone(t) =>
      \/ out[K] = Absent /\ out[KDtb(t)] = Absent
      \/ OneTree(out[K], out[KDtb(t)], t)

\* The target's own dtb is there before the copies are taken.
HasDtb == pc \in {"rootfs", "deliver", "copy"} => out[KDtb(opt.target)] # Absent

Copied ==
  (pc \in AfterCopy \/ Finished) /\ Alone(opt.target) =>
    OneTree(out[File("Image")], out[Dtb(opt.target)], opt.target)

Making == pc \in {"remove", "patch", "kdtb"} => ~opt.skipKernel

Paired == Making /\ HasDtb /\ (aborts = MaxAborts => Pair /\ Copied)

\* Steps that leave the kernels and dtbs alone and enter no stage that the parts
\* of the invariant speak of but from one of them.
Quiet ==
  /\ \A f \in Typed : out'[f] = out[f]
  /\ aborts' = aborts /\ pc # "kdtb" /\ pc' # "kdtb"
  /\ pc' \in {"remove", "patch"} => ~opt'.skipKernel
  /\ pc' \in {"rootfs", "deliver", "copy"} => out[KDtb(opt'.target)] # Absent
  /\ pc' \in AfterCopy \/ Finished' => opt' = opt /\ (pc \in AfterCopy \/ Finished)

LEMMA QuietKeeps ==
  ASSUME IInv, IInv', Paired, Quiet
  PROVE  Paired'
<1>0. opt'.target \in Targets
  BY OptRuns DEF IInv, TypeOK, Runs
<1>1. /\ out'[K] = out[K] /\ out'[File("Image")] = out[File("Image")]
      /\ \A t \in Targets : out'[KDtb(t)] = out[KDtb(t)] /\ out'[Dtb(t)] = out[Dtb(t)]
  BY Zenon DEF Quiet, Typed, K
<1>2. \A t : Alone(t)' <=> Alone(t)
  BY <1>1, Zenon DEF Alone
<1>3. Making'
  BY DEF Quiet, Making
<1>5. HasDtb'
  BY <1>0, <1>1 DEF HasDtb, Quiet
<1>4. ASSUME aborts' = MaxAborts PROVE Pair' /\ Copied'
  <2>1. Pair /\ Copied
    BY <1>4 DEF Quiet, Paired
  <2>2. Pair'
    <3> SUFFICES ASSUME NEW t \in Targets, Alone(t)
                 PROVE  \/ out'[K] = Absent /\ out'[KDtb(t)] = Absent
                        \/ OneTree(out'[K], out'[KDtb(t)], t)
      BY <1>2, Zenon DEF Pair
    <3>1. \/ out[K] = Absent /\ out[KDtb(t)] = Absent
          \/ OneTree(out[K], out[KDtb(t)], t)
      BY <2>1, Zenon DEF Pair, Quiet
    <3> QED BY <1>1, <3>1, Zenon
  <2>4. Copied'
    <3> SUFFICES ASSUME (pc \in AfterCopy \/ Finished)', Alone(opt'.target)
                 PROVE  OneTree(out'[File("Image")], out'[Dtb(opt'.target)], opt'.target)
      BY <1>2, Zenon DEF Copied
    <3>1. opt' = opt /\ (pc \in AfterCopy \/ Finished)
      BY Zenon DEF Quiet
    <3>2. OneTree(out[File("Image")], out[Dtb(opt.target)], opt.target)
      BY <2>1, <3>1, Zenon DEF Copied
    <3> QED BY <1>0, <1>1, <3>1, <3>2, Zenon
  <2> QED BY <2>2, <2>4
<1> QED BY <1>3, <1>4, <1>5 DEF Paired

\* Every step but the two copies under kernel/, the copies out of it and an abort
\* is quiet.
LEMMA QuietSteps ==
  ASSUME IInv, Paired, Next, ~MakeKernel, ~CopyDtb, ~CopyKernel, ~Abort
  PROVE  Quiet
<1>0. /\ DOMAIN out = Names /\ Outcome /\ HasDtb /\ Making /\ OutOK(out, head)
      /\ opt.target \in Targets
  BY TypeParts, OptRuns DEF IInv, TypeOK, Paired, Runs
<1>1. ASSUME NEW f, NEW c, f \notin Typed, out' = [out EXCEPT ![f] = c]
      PROVE  \A g \in Typed : out'[g] = out[g]
  BY <1>0, <1>1, NamesOf DEF Typed, Kinds
<1>2. CASE ~ci /\ \E o \in Options : Start(o)
  BY <1>2 DEF Start, Quiet, AfterCopy, AfterBoot, Finished
<1>3. CASE ci /\ runs = 0 /\ Start(ReleaseRun)
  BY <1>3 DEF Start, Quiet, AfterCopy, AfterBoot, Finished
<1>4. CASE BuildTarballs \/ CachedTarballs
  BY <1>0, <1>4 DEF BuildTarballs, CachedTarballs, Step, KStep, Quiet, AfterCopy, AfterBoot, Finished, Outcome, Building
<1>5. CASE Checkout \/ RemoveNew
  BY <1>0, <1>5 DEF Checkout, RemoveNew, KStep, Quiet, AfterCopy, AfterBoot, Finished, Outcome, Building, Making
<1>6. CASE ApplyPatch
  <2>1. /\ pc = "patch" /\ out' = out /\ opt' = opt
        /\ \/ pc' = "patch" /\ aborts' = aborts /\ outcome' = outcome
           \/ pc' = "idle" /\ aborts' = aborts /\ outcome' = "patch"
    BY <1>6, Zenon DEF ApplyPatch, Refuse, Exit, KStep
  <2> QED BY <1>0, <2>1 DEF Quiet, AfterCopy, AfterBoot, Finished, Outcome, Building, Making
<1>7. CASE NoTarball \/ NoKernel \/ RefuseBoot \/ RefuseRelease
  <2>1. /\ out' = out /\ pc' = "idle" /\ aborts' = aborts /\ pc # "kdtb"
        /\ outcome' \in {"noTarball", "noKernel", "bootTooBig", "kernelTooBig"}
    BY <1>7 DEF NoTarball, NoKernel, RefuseBoot, RefuseRelease, Refuse, Exit
  <2> QED BY <2>1 DEF Quiet, AfterCopy, AfterBoot, Finished
<1>8. CASE SkipKernel
  <2>1. /\ out' = out /\ pc = "kernel" /\ pc' = "rootfs" /\ opt' = opt /\ aborts' = aborts
        /\ outcome' = outcome /\ out[KDtb(opt.target)] # Absent
    BY <1>8 DEF SkipKernel, Step, KStep
  <2> QED BY <1>0, <2>1 DEF Quiet, AfterCopy, AfterBoot, Finished, Outcome, Building
<1>9. CASE RefuseRootfs \/ DirectoryRootfs
  <2>1. /\ out' = [out EXCEPT ![Img("")] = Ext4(Source)] /\ pc = "rootfs" /\ pc' = "idle"
        /\ aborts' = aborts /\ outcome' \in {"tooBig", "cleanup"}
    BY <1>9 DEF RefuseRootfs, DirectoryRootfs, Put, Refuse, Exit
  <2>2. \A g \in Typed : out'[g] = out[g]
    BY <1>1, <2>1, Untyped
  <2> QED BY <2>1, <2>2 DEF Quiet, AfterCopy, AfterBoot, Finished
<1>10. CASE MakeRootfs \/ Deliver
  <2>1. /\ pc \in {"rootfs", "deliver"} /\ pc' \in {"deliver", "copy"} /\ opt' = opt
        /\ aborts' = aborts /\ outcome' = outcome
        /\ \E f, c : f \notin Typed /\ out' = [out EXCEPT ![f] = c]
    BY <1>10, Untyped DEF MakeRootfs, Deliver, Put, Step, KStep, Kinds
  <2>2. \A g \in Typed : out'[g] = out[g]
    BY <1>1, <2>1
  <2> QED BY <1>0, <2>1, <2>2 DEF Quiet, HasDtb, AfterCopy, AfterBoot, Finished, Outcome, Building
<1>11. CASE \/ MakeRamdisk \/ SkipRamdisk \/ MakeBoot \/ MakeBootPadded \/ MakeDtbo
            \/ MakeVbmeta \/ WriteVersion
  <2>1. /\ pc \in AfterCopy /\ pc' \in AfterCopy /\ opt' = opt /\ aborts' = aborts
        /\ \/ out' = out
           \/ \E f, c : f \notin Typed /\ out' = [out EXCEPT ![f] = c]
    <3>1. CASE MakeRamdisk \/ SkipRamdisk
      BY <3>1, Untyped DEF MakeRamdisk, SkipRamdisk, Put, Step, KStep, Kinds, AfterCopy, AfterBoot
    <3>2. CASE MakeBoot \/ MakeBootPadded
      BY <3>2, Untyped DEF MakeBoot, MakeBootPadded, Put, Step, KStep, Kinds, AfterCopy, AfterBoot
    <3>3. CASE MakeDtbo
      BY <3>3, Untyped DEF MakeDtbo, Put, Step, KStep, Kinds, AfterCopy, AfterBoot
    <3>4. CASE MakeVbmeta \/ WriteVersion
      BY <3>4, Untyped DEF MakeVbmeta, WriteVersion, Put, Step, KStep, Kinds, AfterCopy, AfterBoot
    <3> QED BY <1>11, <3>1, <3>2, <3>3, <3>4
  <2>2. \A g \in Typed : out'[g] = out[g]
    BY <1>1, <2>1
  <2> QED BY <2>1, <2>2 DEF Quiet, AfterCopy, AfterBoot
<1>12. CASE \E p \in Profiles : PackProfile(p)
  <2> PICK p \in Profiles : PackProfile(p)
    BY <1>12
  <2>1. /\ pc = "profiles" /\ pc' = "profiles" /\ opt' = opt /\ aborts' = aborts
        /\ out' = [out EXCEPT ![Img(p)] = Ext4(tar[p]), ![Simg(p)] = [of |-> Ext4(tar[p])]]
    BY DEF PackProfile, Step, KStep
  <2>2. \A g \in Typed : out'[g] = out[g]
    BY <1>0, <2>1, Untyped, NamesOf DEF Typed, Kinds
  <2> QED BY <2>1, <2>2 DEF Quiet, AfterCopy, AfterBoot
<1>13. CASE \E p \in Profiles : NoProfileTarball(p)
  <2> PICK p \in Profiles : NoProfileTarball(p)
    BY <1>13
  <2>1. /\ pc = "profiles" /\ out' = out /\ aborts' = aborts
        /\ opt' = opt
        /\ pc' = "profiles" \/ (pc' = "idle" /\ outcome' = "noProfile")
    BY Zenon DEF NoProfileTarball, Step, KStep, Refuse, Exit
  <2> QED BY <2>1 DEF Quiet, AfterCopy, AfterBoot, Finished
<1>14. CASE AddFooters
  <2>1. /\ pc = "footer" /\ pc' = "vbmeta" /\ opt' = opt /\ aborts' = aborts
        /\ out' = [out EXCEPT ![File("boot.img")].footer = TRUE, ![File("dtbo.img")].footer = TRUE]
    BY <1>14 DEF AddFooters, Step, KStep
  <2>2. \A g \in Typed : out'[g] = out[g]
    BY <1>0, <2>1, Untyped, NamesOf DEF Typed, Kinds
  <2> QED BY <2>1, <2>2 DEF Quiet, AfterCopy, AfterBoot
<1>15. CASE WriteSums
  BY <1>15 DEF WriteSums, Quiet, AfterCopy, AfterBoot
<1>16. CASE Edit
  BY <1>16 DEF Edit, Quiet, AfterCopy, AfterBoot, Finished
<1>17. CASE CheckSize \/ Publish
  BY <1>17 DEF CheckSize, Publish, Quiet, AfterCopy, AfterBoot, Finished
<1> QED
  BY <1>2, <1>3, <1>4, <1>5, <1>6, <1>7, <1>8, <1>9, <1>10, <1>11, <1>12, <1>13, <1>14, <1>15,
    <1>16, <1>17, Zenon DEF Next, Build

LEMMA PairInit == Init => Paired
<1> SUFFICES ASSUME Init PROVE Paired
  OBVIOUS
<1>1. out[K] = Absent /\ \A t \in Targets : out[KDtb(t)] = Absent
  BY NamesOf DEF Init, K, Kinds
<1>2. pc = "idle" /\ outcome = "none"
  BY DEF Init
<1> QED
  BY <1>1, <1>2 DEF Paired, Making, Pair, HasDtb, Copied, AfterCopy, AfterBoot, Finished

LEMMA PairStep == IInv /\ IInv' /\ Paired /\ [Next]_vars => Paired'
<1> SUFFICES ASSUME IInv, IInv', Paired, [Next]_vars PROVE Paired'
  OBVIOUS
<1>0. /\ DOMAIN out = Names /\ Outcome /\ RestOK /\ TreeMade /\ KernelMade
      /\ opt.target \in Targets /\ head \in Nat /\ aborts \in 0 .. MaxAborts
  <2>1. head \in 1 .. MaxVer /\ MaxVer \in Nat
    BY Bounds DEF IInv, TypeOK
  <2>2. RestOK /\ DOMAIN out = Names /\ Outcome /\ TreeMade /\ KernelMade
    BY TypeParts DEF IInv, OutOK
  <2>3. opt.target \in Targets
    BY <2>2, OptRuns DEF RestOK, Runs
  <2>4. aborts \in 0 .. MaxAborts
    BY <2>2, Zenon DEF RestOK
  <2> QED BY <2>1, <2>2, <2>3, <2>4
<1>1. CASE UNCHANGED vars
  BY <1>1 DEF vars, Paired, Making, Pair, HasDtb, Copied, Alone, Finished
<1>2. CASE Abort
  <2>1. aborts' # MaxAborts
    BY <1>0, <1>2, Bounds DEF Abort
  <2>2. pc' = "idle"
    BY <1>2 DEF Abort, Exit
  <2> QED BY <2>1, <2>2 DEF Paired, Making, HasDtb
<1>3. CASE MakeKernel
  <2>1. pc = "patch" /\ pc' = "kdtb" /\ opt' = opt /\ outcome' = outcome
    BY <1>3 DEF MakeKernel, KStep
  <2>2. ~Finished'
    BY <1>0, <2>1 DEF Outcome, Building, Finished
  <2> QED
    BY <2>1, <2>2 DEF Paired, Making, Pair, HasDtb, Copied, AfterCopy, AfterBoot
<1>4. CASE CopyDtb
  <2> DEFINE t == opt.target
             d == [dev |-> t, ver |-> head]
  <2>1. /\ pc = "kdtb" /\ pc' = "rootfs" /\ opt' = opt /\ outcome' = outcome
        /\ out' = [out EXCEPT ![KDtb(t)] = Built]
    BY <1>4 DEF CopyDtb, Put, Step, KStep
  <2>2. ~Finished' /\ ~opt.skipKernel
    BY <1>0, <2>1 DEF Outcome, Building, Finished, Paired, Making
  <2>3. Built = d
    BY <1>0, <2>1, OwnDtb
  <2>4. FreshImage(out[K], head)
    BY <1>0, <2>1, <2>2 DEF KernelMade, K
  <2>5. out'[KDtb(t)] = d /\ out'[K] = out[K]
    BY <1>0, <2>1, <2>3, NamesOf, NamesApart DEF K, Kinds
  <2>6. d # Absent
    BY <1>0, PipelineAssumption
  <2>7. OneTree(out'[K], out'[KDtb(t)], t)
    BY <2>4, <2>5 DEF OneTree, FreshImage
  <2> HIDE DEF d
  <2>8. \A u \in Targets \ {t} : ~Alone(u)'
    BY <1>0, <2>5, <2>6 DEF Alone
  <2> HIDE DEF t
  <2>9. Pair'
    BY <2>7, <2>8, Zenon DEF Pair
  <2>10. HasDtb' /\ Copied' /\ Making'
    BY <2>1, <2>2, <2>5, <2>6 DEF HasDtb, Copied, Making, AfterCopy, AfterBoot, t
  <2> QED BY <2>9, <2>10 DEF Paired
<1>5. CASE CopyKernel
  <2> DEFINE t == opt.target
  <2>1. /\ pc = "copy" /\ pc' = "ramdisk" /\ opt' = opt /\ aborts' = aborts
        /\ out' = [out EXCEPT ![File("Image")] = out[K], ![Dtb(t)] = out[KDtb(t)]]
    BY <1>5 DEF CopyKernel, Step, KStep, K
  <2>2. /\ out'[K] = out[K] /\ out'[File("Image")] = out[K] /\ out'[Dtb(t)] = out[KDtb(t)]
        /\ \A u \in Targets : out'[KDtb(u)] = out[KDtb(u)]
    BY <1>0, <2>1, NamesOf, NamesApart DEF K, Kinds
  <2>3. \A u : Alone(u)' <=> Alone(u)
    BY <2>2, Zenon DEF Alone
  <2>4. HasDtb /\ (aborts = MaxAborts => Pair)
    BY DEF Paired
  <2>5. ASSUME aborts = MaxAborts PROVE Pair'
    BY <2>1, <2>2, <2>3, <2>4, <2>5 DEF Pair
  <2>6. ASSUME aborts = MaxAborts, Alone(t) PROVE OneTree(out[K], out[KDtb(t)], t)
    BY <1>0, <2>1, <2>4, <2>6 DEF Pair, HasDtb
  <2>7. ASSUME aborts = MaxAborts PROVE Copied'
    BY <2>1, <2>2, <2>3, <2>6, <2>7 DEF Copied
  <2>8. HasDtb' /\ Making'
    BY <2>1 DEF HasDtb, Making
  <2> QED BY <2>1, <2>5, <2>7, <2>8 DEF Paired
<1>6. CASE Next /\ ~MakeKernel /\ ~CopyDtb /\ ~CopyKernel /\ ~Abort
  BY <1>6, QuietSteps, QuietKeeps
<1> QED
  BY <1>1, <1>2, <1>3, <1>4, <1>5, <1>6, Zenon

LEMMA PairedInvariant == Spec => []Paired
  BY Invariant, PairInit, PairStep, PTL DEF Spec

\* Every variable keeps its type: in particular a dtb in out/ is always one of its
\* own target, from sources no younger than the checkout.
THEOREM TypeCorrect == Spec => []TypeOK
<1>1. IInv => TypeOK
  BY DEF IInv
<1> QED
  BY <1>1, Invariant, PTL

\* What SHA256SUMS lists is always one set: its vbmeta.img describes its boot.img
\* and dtbo.img, those hold its Image, dtb and initramfs, its flashable rootfs is
\* its rootfs.img, no rootfs image is too large for its partition, and boot.img is
\* cut only where the c60's padding is too small for it.  After a run that finished
\* those are the files that are there.
THEOREM SetsCohere == Spec => []SetCoherent
<1>1. IInv => SetCoherent
  BY DEF IInv, Summed, SumsSound, SetCoherent
<1> QED
  BY <1>1, Invariant, PTL

\* A run that builds the kernel ships one built from its own target's series and
\* nothing else, with the dtb of the same tree, in the version version.env names;
\* one with --skip-kernel a kernel and a dtb of its target from one tree, unless
\* another target was built in the same out/ or a run aborted.
THEOREM KernelsFresh == Spec => []KernelFresh
<1>1. IInv /\ Paired => KernelFresh
  <2> SUFFICES ASSUME IInv, Paired, Finished PROVE KernelFresh
    BY DEF KernelFresh
  <2>1. ~opt.skipKernel => Fresh(out[File("Image")], out[Dtb(opt.target)],
                                 out[File("version.env")].ver)
    BY DEF IInv, KernelMade
  <2>2. OnlyHere => OneTree(out[File("Image")], out[Dtb(opt.target)], opt.target)
    BY DEF Paired, Copied, Alone, OnlyHere
  <2> QED
    BY <2>1, <2>2 DEF Fresh, FreshImage, OneTree, KernelFresh
<1> QED
  BY <1>1, Invariant, PairedInvariant, PTL

\* However earlier runs left the linux tree, the reset makes every patch of the
\* series apply.
THEOREM PatchesAlwaysApply == Spec => []PatchesApply
<1>1. IInv => PatchesApply
  BY DEF IInv, Outcome, PatchesApply
<1> QED
  BY <1>1, Invariant, PTL

\* What the workflow publishes was built for the TC8 from the tagged sources; its
\* kernel is within U-Boot's limit and its vbmeta.img describes its boot.img and
\* dtbo.img.
THEOREM ReleasesSound == Spec => []ReleaseSound
<1>1. IInv => ReleaseSound
  <2> SUFFICES ASSUME IInv, pc = "published" PROVE ReleaseSound
    BY DEF ReleaseSound
  <2>1. Finished /\ ci
    BY DEF IInv, Outcome, Release, Finished
  <2>2. /\ opt = ReleaseRun /\ assets = [f \in Assets |-> out[f]]
        /\ out[Img("")].tar = [dev |-> "tc8", ver |-> head]
        /\ out[File("version.env")].ver = head
        /\ KSize(out[File("Image")]) <= BOOTM_LEN
    BY <2>1 DEF IInv, Runner, Release
  <2>3. opt.target = "tc8" /\ ~opt.skipKernel
    BY <2>2 DEF ReleaseRun
  <2>4. /\ assets[File("vbmeta.img")] = out[File("vbmeta.img")]
        /\ assets[File("boot.img")] = out[File("boot.img")]
        /\ assets[File("dtbo.img")] = out[File("dtbo.img")]
        /\ assets[Simg("")] = out[Simg("")]
    BY <2>2 DEF Assets
  <2>5. out[File("Image")] \in [dev : {"tc8"}, ver : {head}, size : {s \in KSizes : s <= BOOTM_LEN}]
    <3>1. Fresh(out[File("Image")], out[Dtb(opt.target)], head)
      BY <2>1, <2>2, <2>3 DEF IInv, KernelMade
    <3>2. out[File("Image")] \in [dev : {"tc8"}, ver : {head}, size : KSizes]
      BY <2>3, <3>1 DEF Fresh, FreshImage
    <3>3. head \in Nat /\ KSizes \subseteq Nat
      <4>1. head \in 1 .. MaxVer
        BY DEF IInv, TypeOK
      <4> QED
        BY <4>1, PipelineAssumption
    <3>4. out[File("Image")] \in [dev : Targets, ver : Nat, size : Nat]
      BY <3>2, <3>3 DEF Targets
    <3>5. out[File("Image")] \notin {Absent, Torn}
      BY <3>4, PipelineAssumption
    <3>6. KSize(out[File("Image")]) = out[File("Image")].size
      BY <3>5 DEF KSize
    <3> QED
      BY <2>2, <3>2, <3>6
  <2>6. out[File("boot.img")].kernel = out[File("Image")]
    BY <2>1 DEF IInv, BootMade
  <2>7. out[File("dtbo.img")].dtb = [dev |-> "tc8", ver |-> head]
    <3>1. out[File("dtbo.img")].dtb = out[Dtb(opt.target)]
      BY <2>1 DEF IInv, BootMade
    <3> QED
      BY <2>1, <2>2, <2>3, <3>1 DEF IInv, KernelMade, Fresh, FreshImage
  <2>8. out[File("vbmeta.img")] = [boot |-> out[File("boot.img")], dtbo |-> out[File("dtbo.img")]]
    BY <2>1 DEF IInv, BootMade
  <2>9. out[Simg("")].of.tar = [dev |-> "tc8", ver |-> head]
    <3>1. Delivered = Simg("")
      BY <2>3 DEF Delivered, Model, BOOT_MODEL
    <3>2. out[Delivered] = [of |-> out[Img("")]]
      BY <2>1 DEF IInv, RootfsDelivered
    <3>3. \A x, y : x = [of |-> y] => x.of = y
      OBVIOUS
    <3>4. out[Delivered].of = out[Img("")]
      BY <3>2, <3>3, Zenon
    <3> QED
      BY <2>2, <3>1, <3>4
  <2> QED
    BY <2>4, <2>5, <2>6, <2>7, <2>8, <2>9 DEF ReleaseSound
<1> QED
  BY <1>1, Invariant, PTL

=============================================================================
