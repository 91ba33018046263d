---------------------------- MODULE BuildPipeline ----------------------------
(***************************************************************************)
(* build.sh and what it calls: kernel/build.sh with the linux tree it      *)
(* patches and leaves for the next run, images/rootfs.sh, the              *)
(* per-target targets/<t>/boot.sh, and the release workflow that runs it.  *)
(* One checkout is built again and again, for either target, into the same *)
(* out/<profile> directory, with the rootfs tarballs of earlier runs as a  *)
(* cache; `set -e' ends a run wherever a command fails.                    *)
(*                                                                         *)
(* A file is what went into it: a kernel is the target and the version of  *)
(* the sources it was built from and its size, a boot image the kernel and *)
(* the ramdisk packed into it, and so on.  Sizes are in MiB.               *)
(***************************************************************************)
EXTENDS Naturals, Sequences

CONSTANTS
  Options,   \* the command lines used: target, os-profiles, flags, whether --rootfs= names
             \* a directory, --rootfs-size (0 when absent)
  NewPaths,  \* files of the linux tree that only patches create
  Creates,   \* the files each patch of a series creates, by target and version
  KSizes,    \* sizes a kernel Image may come out with
  MaxVer,    \* bound: versions of the sources
  MaxRuns,   \* bound: runs of build.sh in one checkout
  MaxAborts, \* bound: runs that a failing command or an interrupt ends
  Absent,    \* no such file
  Torn       \* a file whose writer was stopped half-way

Targets == {"tc8", "c60"}

Profiles == {"kiosk", "bare"}

\* targets/<t>/target.env.
BOOT_MODEL              == [tc8 |-> "boota", c60 |-> "booti"]
ROOTFS_PARTITION_SIZE   == [tc8 |-> 6526, c60 |-> 1792]
ROOTFS_IMG_DEFAULT_SIZE == [tc8 |-> 6526, c60 |-> 1638]
BOOT_PARTITION_SIZE     == 48
BOOT_PAD_SIZE           == 32

\* The workflow's limit on Image (the stock U-Boot's BOOTM_LEN).
BOOTM_LEN == 32

Runs == [target : Targets, profiles : SUBSET Profiles, skipKernel : BOOLEAN,
         skipRootfs : BOOLEAN, noRamdisk : BOOLEAN, dir : BOOLEAN, size : Nat]

ASSUME PipelineAssumption ==
  /\ Options \subseteq Runs
  /\ Creates \in [Targets -> [1 .. MaxVer -> Seq(SUBSET NewPaths)]]
  /\ \A t \in Targets, v \in 1 .. MaxVer :
       LET s == Creates[t][v]
       IN  s # <<>> /\ \A i, j \in DOMAIN s : i # j => s[i] \cap s[j] = {}
  /\ KSizes \subseteq Nat /\ MaxVer \in Nat \ {0} /\ MaxRuns \in Nat
  /\ MaxAborts \in Nat
  /\ Absent # Torn
  /\ \A x \in {Absent, Torn} :
       x \notin [dev : Targets, ver : Nat, size : Nat] \cup [dev : Targets, ver : Nat]

(***************************************************************************)
(* Files of out/<profile>, by kind and by what the name varies with: the   *)
(* target for a dtb, the os-profile ("" for the plain names) for a rootfs. *)
(***************************************************************************)
File(k)  == <<k, "">>
KDtb(t)  == <<"kernel/dtb", t>>
Dtb(t)   == <<"dtb", t>>
Img(p)   == <<"rootfs.img", p>>
Simg(p)  == <<"rootfs.simg", p>>

Names ==
  {File(k) : k \in {"kernel/Image", "Image", "rootfs.img.zst", "initramfs", "boot.img",
                    "dtbo.img", "vbmeta.img", "version.env"}}
  \cup {KDtb(t) : t \in Targets} \cup {Dtb(t) : t \in Targets}
  \cup {Img(p) : p \in Profiles \cup {""}} \cup {Simg(p) : p \in Profiles \cup {""}}

NoFiles == [f \in {} |-> Absent]

VARIABLES
  ci,       \* is this the release workflow's runner?
  head,     \* version of the checked-out sources
  tree,     \* the linux tree: the patches its tracked files carry, and the target
            \* and version whose series created each of NewPaths
  patch,    \* the next patch to apply
  tar,      \* rootfs/out: the tarball of each os-profile, "" for rootfs.tar.gz
  out,      \* the files of out/<profile>
  sums,     \* SHA256SUMS: the content each listed file had
  opt,      \* the command line of the current or last run
  pc,       \* the stage of build.sh, or of the workflow after it
  todo,     \* os-profiles still to be packed
  outcome,  \* of the last run
  runs,     \* runs so far
  aborts,   \* aborted runs still to come
  assets    \* what the release carries

vars == <<ci, head, tree, patch, tar, out, sums, opt, pc, todo, outcome, runs, aborts, assets>>

Model == BOOT_MODEL[opt.target]

RootfsSize == IF opt.size = 0 THEN ROOTFS_IMG_DEFAULT_SIZE[opt.target] ELSE opt.size

Ramdisk == ~opt.noRamdisk /\ Model = "boota"

KSize(k) == IF k \in {Absent, Torn} THEN 0 ELSE k.size

\* A DTB or an initramfs takes less than a MiB.
BootSize(k) == KSize(k) + 1

-----------------------------------------------------------------------------
(***************************************************************************)
(* A run of build.sh.                                                      *)
(***************************************************************************)

KStep(l) == pc' = l /\ UNCHANGED <<ci, head, opt, outcome, runs, aborts, assets>>

Step(l) == KStep(l) /\ UNCHANGED <<tree, patch>>

Put(f, c) == out' = [out EXCEPT ![f] = c]

\* The run ends with an error.
Exit(why) ==
  /\ pc' = "idle" /\ outcome' = why /\ patch' = 0
  /\ UNCHANGED <<ci, head, tar, opt, todo, runs, assets>>

Refuse(why) == Exit(why) /\ UNCHANGED <<aborts, sums, tree>>

\* Arguments, pre-flight, target.env, the versions of the repositories.
Start(o) ==
  /\ pc = "idle" /\ runs < MaxRuns
  /\ opt' = o /\ pc' = "tarballs" /\ todo' = o.profiles
  /\ outcome' = "running" /\ runs' = runs + 1
  /\ UNCHANGED <<ci, head, tree, patch, tar, out, sums, aborts, assets>>

\* What --rootfs= names; by default the plain tarball.
Source == IF opt.dir THEN [dev |-> opt.target, ver |-> head] ELSE tar[""]

TarballsMissing == Source = Absent \/ \E p \in opt.profiles : tar[p] = Absent

\* rootfs/build.sh (external) makes the plain and the requested tarballs.
BuildTarballs ==
  /\ pc = "tarballs" /\ ~opt.skipRootfs /\ TarballsMissing
  /\ tar' = [p \in Profiles \cup {""} |->
               IF p \in opt.profiles \cup {""} THEN [dev |-> opt.target, ver |-> head] ELSE tar[p]]
  /\ Step("kernel")
  /\ UNCHANGED <<out, sums, todo>>

CachedTarballs ==
  /\ pc = "tarballs" /\ (opt.skipRootfs \/ ~TarballsMissing)
  /\ Source # Absent
  /\ Step("kernel")
  /\ UNCHANGED <<tar, out, sums, todo>>

NoTarball ==
  /\ pc = "tarballs" /\ opt.skipRootfs /\ Source = Absent
  /\ Refuse("noTarball") /\ UNCHANGED out

(***************************************************************************)
(* kernel/build.sh: the linux tree is reset, the target's series applied,  *)
(* its config merged and the kernel made; Image and the dtb are copied.    *)
(***************************************************************************)

Series == Creates[opt.target][head]

Patch(i) == <<opt.target, head, i>>

Created == UNION {Series[i] : i \in DOMAIN Series}

\* The tree without some of the new files.
Without(fs) == [tree EXCEPT !.new = [f \in NewPaths |-> IF f \in fs THEN Absent ELSE tree.new[f]]]

\* The tree with a patch of the series.
Patched(i) ==
  [mods |-> tree.mods \cup {Patch(i)},
   new  |-> [f \in NewPaths |-> IF f \in Series[i] THEN <<opt.target, head>> ELSE tree.new[f]]]

\* Mutant: the tracked files stay as the last run left them.
CheckoutNothing ==
  /\ pc = "kernel" /\ ~opt.skipKernel
  /\ KStep("remove")
  /\ UNCHANGED <<tree, patch, tar, out, sums, todo>>

\* git checkout -- .: the tracked files are as committed again.
Checkout ==
  /\ pc = "kernel" /\ ~opt.skipKernel
  /\ tree' = [tree EXCEPT !.mods = {}]
  /\ KStep("remove")
  /\ UNCHANGED <<patch, tar, out, sums, todo>>

\* Mutant: only the files of the first patch are removed.
RemoveFirst ==
  /\ pc = "remove"
  /\ tree' = Without(Series[1]) /\ patch' = 1
  /\ KStep("patch")
  /\ UNCHANGED <<tar, out, sums, todo>>

\* The files this series creates are removed; another target's stay.
RemoveNew ==
  /\ pc = "remove"
  /\ tree' = Without(Created) /\ patch' = 1
  /\ KStep("patch")
  /\ UNCHANGED <<tar, out, sums, todo>>

\* git apply refuses a patch that is applied or creates a file that is there.
ApplyPatch ==
  /\ pc = "patch" /\ patch <= Len(Series)
  /\ IF Patch(patch) \notin tree.mods /\ \A f \in Series[patch] : tree.new[f] = Absent
     THEN /\ tree' = Patched(patch) /\ patch' = patch + 1
          /\ KStep("patch")
          /\ UNCHANGED <<tar, sums, todo>>
     ELSE Refuse("patch")
  /\ UNCHANGED out

\* The tree holds this series and nothing else: a new file that no Makefile of
\* this series names is not built.
Own ==
  /\ tree.mods = {Patch(i) : i \in DOMAIN Series}
  /\ \A f \in Created : tree.new[f] = <<opt.target, head>>

\* What is built from the tree.
Built == IF Own THEN [dev |-> opt.target, ver |-> head] ELSE [dev |-> "mixed", ver |-> 0]

\* make Image dtbs, and the first of the two copies.
MakeKernel ==
  /\ pc = "patch" /\ patch > Len(Series)
  /\ \E s \in KSizes :
       Put(File("kernel/Image"), [dev |-> Built.dev, ver |-> Built.ver, size |-> s])
  /\ patch' = 0 /\ KStep("kdtb")
  /\ UNCHANGED <<tree, tar, sums, todo>>

\* Mutant: the dtb of the default target is copied.
CopyDtbDefault ==
  /\ pc = "kdtb"
  /\ Put(KDtb(opt.target), [dev |-> "tc8", ver |-> Built.ver])
  /\ Step("rootfs")
  /\ UNCHANGED <<tar, sums, todo>>

CopyDtb ==
  /\ pc = "kdtb"
  /\ Put(KDtb(opt.target), Built)
  /\ Step("rootfs")
  /\ UNCHANGED <<tar, sums, todo>>

\* --skip-kernel: both files have to be there.
SkipKernel ==
  /\ pc = "kernel" /\ opt.skipKernel
  /\ Absent \notin {out[File("kernel/Image")], out[KDtb(opt.target)]}
  /\ Step("rootfs")
  /\ UNCHANGED <<tar, out, sums, todo>>

NoKernel ==
  /\ pc = "kernel" /\ opt.skipKernel
  /\ Absent \in {out[File("kernel/Image")], out[KDtb(opt.target)]}
  /\ Refuse("noKernel") /\ UNCHANGED out

\* images/rootfs.sh: an ext4 of exactly the size asked for.
Ext4(t) == [tar |-> t, size |-> RootfsSize]

FitsPartition == RootfsSize <= ROOTFS_PARTITION_SIZE[opt.target]

MakeRootfs ==
  /\ pc = "rootfs" /\ ~opt.dir /\ FitsPartition
  /\ Put(Img(""), Ext4(Source))
  /\ Step("deliver")
  /\ UNCHANGED <<tar, sums, todo>>

\* "it would not mount": the image is made, then refused.
RefuseRootfs ==
  /\ pc = "rootfs" /\ ~opt.dir /\ ~FitsPartition
  /\ Put(Img(""), Ext4(Source))
  /\ Refuse("tooBig")

\* With a directory images/rootfs.sh makes the image, but has no work directory
\* to remove: the test in its EXIT trap fails, and under set -e that is the
\* script's exit status.
DirectoryRootfs ==
  /\ pc = "rootfs" /\ opt.dir
  /\ Put(Img(""), Ext4(Source))
  /\ Refuse("cleanup")

\* rootfs.img.zst, or rootfs.simg with its round-trip check.
Deliver ==
  /\ pc = "deliver"
  /\ Put(IF Model = "booti" THEN File("rootfs.img.zst") ELSE Simg(""), [of |-> out[Img("")]])
  /\ Step("copy")
  /\ UNCHANGED <<tar, sums, todo>>

\* Image and the dtb are lifted out of kernel/.
CopyKernel ==
  /\ pc = "copy"
  /\ out' = [out EXCEPT ![File("Image")]  = out[File("kernel/Image")],
                        ![Dtb(opt.target)] = out[KDtb(opt.target)]]
  /\ Step("ramdisk")
  /\ UNCHANGED <<tar, sums, todo>>

\* busybox out of the rootfs, initramfs/init around it.
MakeRamdisk ==
  /\ pc = "ramdisk" /\ Ramdisk
  /\ Put(File("initramfs"), [tar |-> Source, ver |-> head])
  /\ Step("profiles")
  /\ UNCHANGED <<tar, sums, todo>>

SkipRamdisk ==
  /\ pc = "ramdisk" /\ ~Ramdisk
  /\ Step("profiles")
  /\ UNCHANGED <<tar, out, sums, todo>>

\* The code checks this image as well; it has the size the plain one was let
\* through with.
PackProfile(p) ==
  /\ pc = "profiles" /\ p \in todo /\ tar[p] # Absent
  /\ FitsPartition
  /\ out' = [out EXCEPT ![Img(p)] = Ext4(tar[p]), ![Simg(p)] = [of |-> Ext4(tar[p])]]
  /\ todo' = todo \ {p}
  /\ Step("profiles")
  /\ UNCHANGED <<tar, sums>>

\* kiosk without a tarball of its own is the legacy build; another profile
\* without one ends the run.
NoProfileTarball(p) ==
  /\ pc = "profiles" /\ p \in todo /\ tar[p] = Absent
  /\ IF p = "kiosk"
     THEN todo' = todo \ {p} /\ Step("profiles") /\ UNCHANGED <<tar, sums>>
     ELSE Refuse("noProfile")
  /\ UNCHANGED out

(***************************************************************************)
(* pack_boot of targets/tc8/boot.sh (boota) and targets/c60/boot.sh        *)
(* (booti).                                                                *)
(***************************************************************************)

\* mkbootimg: tc8 packs the ramdisk, c60 the dtb in the `second' area.
Packed ==
  [kernel |-> out[File("Image")],
   extra  |-> IF Model = "booti" THEN out[Dtb(opt.target)]
              ELSE IF Ramdisk THEN out[File("initramfs")] ELSE Absent,
   cut    |-> FALSE,
   footer |-> FALSE]

MakeBoot ==
  /\ pc = "profiles" /\ todo = {} /\ Model = "boota"
  /\ Put(File("boot.img"), Packed)
  /\ Step("dtbo")
  /\ UNCHANGED <<tar, sums, todo>>

\* c60: truncate to BOOT_PAD_SIZE, which pads a smaller image and cuts a larger
\* one, then the footer.
MakeBootPadded ==
  /\ pc = "profiles" /\ todo = {} /\ Model = "booti"
  /\ Put(File("boot.img"), [Packed EXCEPT !.cut = BootSize(Packed.kernel) > BOOT_PAD_SIZE,
                                          !.footer = TRUE])
  /\ Step("dtbo")
  /\ UNCHANGED <<tar, sums, todo>>

\* Mutant: a dtbo.img that is already there is kept.
MakeDtboOnce ==
  /\ pc = "dtbo"
  /\ IF out[File("dtbo.img")] \in {Absent, Torn}
     THEN Put(File("dtbo.img"), [dtb |-> out[Dtb(opt.target)], footer |-> Model = "booti"])
     ELSE UNCHANGED out
  /\ Step(IF Model = "booti" THEN "vbmeta" ELSE "footer")
  /\ UNCHANGED <<tar, sums, todo>>

MakeDtbo ==
  /\ pc = "dtbo"
  /\ Put(File("dtbo.img"), [dtb |-> out[Dtb(opt.target)], footer |-> Model = "booti"])
  /\ Step(IF Model = "booti" THEN "vbmeta" ELSE "footer")
  /\ UNCHANGED <<tar, sums, todo>>

\* add_hash_footer on both images grows them to their partition.
AddFooters ==
  /\ pc = "footer" /\ BootSize(out[File("boot.img")].kernel) < BOOT_PARTITION_SIZE
  /\ out' = [out EXCEPT ![File("boot.img")].footer = TRUE, ![File("dtbo.img")].footer = TRUE]
  /\ Step("vbmeta")
  /\ UNCHANGED <<tar, sums, todo>>

\* avbtool refuses an image that leaves no room for the footer.
RefuseBoot ==
  /\ pc = "footer" /\ BootSize(out[File("boot.img")].kernel) >= BOOT_PARTITION_SIZE
  /\ Refuse("bootTooBig") /\ UNCHANGED out

\* make_vbmeta_image takes the descriptors out of the two footers.
MakeVbmeta ==
  /\ pc = "vbmeta" /\ out[File("boot.img")].footer /\ out[File("dtbo.img")].footer
  /\ Put(File("vbmeta.img"), [boot |-> out[File("boot.img")], dtbo |-> out[File("dtbo.img")]])
  /\ Step("version")
  /\ UNCHANGED <<tar, sums, todo>>

-----------------------------------------------------------------------------
WriteVersion ==
  /\ pc = "version"
  /\ Put(File("version.env"), [profiles |-> opt.profiles, ver |-> head])
  /\ Step("sums")
  /\ UNCHANGED <<tar, sums, todo>>

\* The profiles that were packed in this run: EXTRA_SUM_FILES.
Extras == {p \in opt.profiles : tar[p] # Absent}

SumFiles ==
  {File(k) : k \in {"Image", "boot.img", "dtbo.img", "vbmeta.img", "version.env"}}
  \cup {Dtb(opt.target), Img("")}
  \cup {IF Model = "booti" THEN File("rootfs.img.zst") ELSE Simg("")}
  \cup {Img(p) : p \in Extras} \cup {Simg(p) : p \in Extras}
  \cup (IF Ramdisk THEN {File("initramfs")} ELSE {})

\* SHA256SUMS over what this run made.
WriteSums ==
  /\ pc = "sums"
  /\ sums' = [f \in SumFiles |-> out[f]]
  /\ pc' = IF ci THEN "check" ELSE "idle"
  /\ outcome' = "ok"
  /\ UNCHANGED <<ci, head, tree, patch, tar, out, opt, todo, runs, aborts, assets>>

\* What the command of each stage writes.
Writes ==
  CASE pc = "patch"    -> IF patch > Len(Series) THEN {File("kernel/Image")} ELSE {}
    [] pc = "kdtb"     -> {KDtb(opt.target)}
    [] pc = "rootfs"   -> {Img("")}
    [] pc = "deliver"  -> {IF Model = "booti" THEN File("rootfs.img.zst") ELSE Simg("")}
    [] pc = "copy"     -> {File("Image"), Dtb(opt.target)}
    [] pc = "ramdisk"  -> IF Ramdisk THEN {File("initramfs")} ELSE {}
    [] pc = "profiles" -> {Img(p) : p \in todo} \cup {Simg(p) : p \in todo}
                          \cup (IF todo = {} THEN {File("boot.img")} ELSE {})
    [] pc = "dtbo"     -> {File("dtbo.img")}
    [] pc = "footer"   -> {File("boot.img"), File("dtbo.img")}
    [] pc = "vbmeta"   -> {File("vbmeta.img")}
    [] pc = "version"  -> {File("version.env")}
    [] OTHER           -> {}

Building == {"tarballs", "kernel", "remove", "patch", "kdtb", "rootfs", "deliver", "copy",
             "ramdisk", "profiles", "dtbo", "footer", "vbmeta", "version", "sums"}

\* What an interrupted reset or patch leaves of the tree.
Leftovers ==
  {tree}
  \cup (IF pc = "kernel" /\ ~opt.skipKernel
        THEN {[tree EXCEPT !.mods = m] : m \in SUBSET tree.mods} ELSE {})
  \cup (IF pc = "remove" THEN {Without(fs) : fs \in SUBSET Created} ELSE {})
  \cup (IF pc = "patch" /\ patch <= Len(Series)
        THEN {[Patched(patch) EXCEPT !.new = [f \in NewPaths |->
                IF f \in fs THEN tree.new[f] ELSE Patched(patch).new[f]]] :
              fs \in SUBSET Series[patch]}
        ELSE {})

\* A command fails or the build is interrupted: set -e ends it.  The file it was
\* writing may be torn, or gone where the recipe removes it first (c60).
Abort ==
  /\ pc \in Building /\ aborts > 0
  /\ aborts' = aborts - 1
  /\ tree' \in Leftovers
  /\ \/ UNCHANGED <<out, sums>>
     \/ \E f \in Writes : Put(f, Torn) /\ UNCHANGED sums
     \/ /\ Model = "booti" /\ UNCHANGED sums
        /\ \E f \in Writes \cap {File(k) : k \in {"boot.img", "dtbo.img", "vbmeta.img"}} :
             Put(f, Absent)
     \/ pc = "sums" /\ sums' = NoFiles /\ UNCHANGED out
  /\ Exit("aborted")

\* The sources change between two runs.
Edit ==
  /\ pc = "idle" /\ ~ci /\ head < MaxVer
  /\ head' = head + 1
  /\ UNCHANGED <<ci, tree, patch, tar, out, sums, opt, pc, todo, outcome, runs, aborts, assets>>

(***************************************************************************)
(* .github/workflows/release.yml after its one build in a fresh checkout.  *)
(***************************************************************************)

ReleaseRun == [target |-> "tc8", profiles |-> {"kiosk"}, skipKernel |-> FALSE,
               skipRootfs |-> FALSE, noRamdisk |-> FALSE, dir |-> FALSE, size |-> 0]

Assets == {File("boot.img"), File("dtbo.img"), File("vbmeta.img"), Simg(""), File("version.env")}

\* Mutant: the size of the kernel is not looked at.
CheckAnySize ==
  /\ pc = "check"
  /\ pc' = "assemble"
  /\ UNCHANGED <<ci, head, tree, patch, tar, out, sums, opt, todo, outcome, runs, aborts, assets>>

CheckSize ==
  /\ pc = "check" /\ KSize(out[File("Image")]) <= BOOTM_LEN
  /\ pc' = "assemble"
  /\ UNCHANGED <<ci, head, tree, patch, tar, out, sums, opt, todo, outcome, runs, aborts, assets>>

RefuseRelease ==
  /\ pc = "check" /\ KSize(out[File("Image")]) > BOOTM_LEN
  /\ Refuse("kernelTooBig") /\ UNCHANGED out

\* The assets are copied, summed and attached to the release.
Publish ==
  /\ pc = "assemble"
  /\ assets' = [f \in Assets |-> out[f]]
  /\ pc' = "published"
  /\ UNCHANGED <<ci, head, tree, patch, tar, out, sums, opt, todo, outcome, runs, aborts>>

-----------------------------------------------------------------------------
Init ==
  /\ ci \in BOOLEAN
  /\ head = 1
  /\ tree = [mods |-> {}, new |-> [f \in NewPaths |-> Absent]] /\ patch = 0
  /\ tar = [p \in Profiles \cup {""} |-> Absent]
  /\ out = [f \in Names |-> Absent]
  /\ sums = NoFiles
  /\ opt = ReleaseRun /\ pc = "idle" /\ todo = {} /\ outcome = "none" /\ runs = 0
  /\ aborts = MaxAborts
  /\ assets = NoFiles

Build ==
  \/ BuildTarballs \/ CachedTarballs \/ NoTarball
  \/ Checkout \/ RemoveNew \/ ApplyPatch \/ MakeKernel \/ CopyDtb \/ SkipKernel \/ NoKernel
  \/ MakeRootfs \/ RefuseRootfs \/ DirectoryRootfs \/ Deliver \/ CopyKernel
  \/ MakeRamdisk \/ SkipRamdisk
  \/ \E p \in Profiles : PackProfile(p) \/ NoProfileTarball(p)
  \/ MakeBoot \/ MakeBootPadded \/ MakeDtbo \/ AddFooters \/ RefuseBoot \/ MakeVbmeta
  \/ WriteVersion \/ WriteSums

Next ==
  \/ ~ci /\ \E o \in Options : Start(o)
  \/ ci /\ runs = 0 /\ Start(ReleaseRun)
  \/ Build \/ Abort \/ Edit
  \/ CheckSize \/ RefuseRelease \/ Publish

Spec == Init /\ [][Next]_vars

-----------------------------------------------------------------------------
(***************************************************************************)
(* Properties.                                                             *)
(***************************************************************************)

Tarballs == [dev : Targets, ver : 1 .. MaxVer]

Kernels == [dev : Targets, ver : 1 .. MaxVer, size : KSizes]

\* Every variable keeps its type, and no kernel or dtb is ever younger than the
\* checkout.
TypeOK ==
  /\ ci \in BOOLEAN /\ head \in 1 .. MaxVer
  /\ tree \in [mods : SUBSET (Targets \X (1 .. MaxVer) \X Nat),
               new  : [NewPaths -> (Targets \X (1 .. MaxVer)) \cup {Absent}]]
  /\ patch \in Nat
  /\ tar \in [Profiles \cup {""} -> Tarballs \cup {Absent}]
  /\ DOMAIN out = Names
  /\ \A k \in {"kernel/Image", "Image"} : out[File(k)] \in Kernels \cup {Absent, Torn}
  /\ \A t \in Targets :
       {out[KDtb(t)], out[Dtb(t)]} \subseteq [dev : {t}, ver : 1 .. head] \cup {Absent, Torn}
  /\ DOMAIN sums \subseteq Names /\ DOMAIN assets \subseteq Assets
  /\ opt \in Options \cup {ReleaseRun}
  /\ pc \in Building \cup {"idle", "check", "assemble", "published"}
  /\ todo \subseteq opt.profiles
  /\ outcome \in {"none", "running", "ok", "aborted", "noTarball", "noKernel", "noProfile",
                  "tooBig", "bootTooBig", "kernelTooBig", "cleanup", "patch"}
  /\ runs \in 0 .. MaxRuns /\ aborts \in 0 .. MaxAborts

Finished == outcome = "ok"

\* A set of files that belongs together, as target t wants it.
SetOf(o, t) ==
  LET boot == o[File("boot.img")]
  IN  /\ o[File("vbmeta.img")] = [boot |-> boot, dtbo |-> o[File("dtbo.img")]]
      /\ boot.kernel = o[File("Image")]
      /\ boot.extra = IF BOOT_MODEL[t] = "booti" THEN o[Dtb(t)]
                      ELSE IF File("initramfs") \in DOMAIN o THEN o[File("initramfs")]
                      ELSE Absent
      /\ boot.cut = (BOOT_MODEL[t] = "booti" /\ BootSize(o[File("Image")]) > BOOT_PAD_SIZE)
      /\ o[File("dtbo.img")].dtb = o[Dtb(t)]
      /\ o[IF BOOT_MODEL[t] = "booti" THEN File("rootfs.img.zst") ELSE Simg("")]
           = [of |-> o[Img("")]]
      /\ \A p \in Profiles \cup {""} :
           Img(p) \in DOMAIN o => o[Img(p)].size <= ROOTFS_PARTITION_SIZE[t]

\* What SHA256SUMS lists is one set, also when earlier and later runs, for either
\* target, aborted ones included, wrote over the same directory: its vbmeta.img
\* describes its boot.img and dtbo.img, those hold its Image, dtb and initramfs,
\* its flashable rootfs is its rootfs.img, no rootfs image is larger than the
\* partition of the target, and boot.img is cut only where the c60's padding is
\* smaller than the kernel.  After a run that finished those are the files that
\* are there, for the target of the run.
SetCoherent ==
  /\ \A t \in Targets : Dtb(t) \in DOMAIN sums => SetOf(sums, t)
  /\ Finished => /\ Dtb(opt.target) \in DOMAIN sums
                 /\ \A f \in DOMAIN sums : out[f] = sums[f]

\* Was no other target's kernel ever finished in this out/, and no run aborted?
OnlyHere ==
  aborts = MaxAborts /\ \A t \in Targets \ {opt.target} : out[KDtb(t)] = Absent

\* A run that builds the kernel ships one built from exactly its target's series
\* of the version version.env names, with the dtb of the same tree, whatever
\* half-patched tree an earlier run, for either target, left.  A run with
\* --skip-kernel ships a kernel and a dtb of its target made from one tree, in
\* whatever version, as long as no other target was built in this out/ and no run
\* aborted: kernel/Image has one name for both targets, and only its presence and
\* that of the target's own dtb are looked at.
KernelFresh ==
  Finished =>
    LET k == out[File("Image")]
        d == out[Dtb(opt.target)]
        v == out[File("version.env")].ver
    IN /\ opt.skipKernel => (OnlyHere => k.dev = opt.target /\ d = [dev |-> opt.target, ver |-> k.ver])
       /\ ~opt.skipKernel => k.dev = opt.target /\ k.ver = v /\ d = [dev |-> opt.target, ver |-> v]

\* The series applies in every state runs before it leave the tree in: after
\* another target, another version, an interrupted reset or a half-applied patch.
PatchesApply == outcome # "patch"

\* Everything in a release was built for the TC8 from the tagged sources, its
\* kernel is within U-Boot's limit, and its vbmeta.img describes its boot.img
\* and dtbo.img.
ReleaseSound ==
  pc = "published" =>
    /\ assets[File("vbmeta.img")] = [boot |-> assets[File("boot.img")],
                                     dtbo |-> assets[File("dtbo.img")]]
    /\ assets[File("boot.img")].kernel \in
         [dev : {"tc8"}, ver : {head}, size : {s \in KSizes : s <= BOOTM_LEN}]
    /\ assets[File("dtbo.img")].dtb = [dev |-> "tc8", ver |-> head]
    /\ assets[Simg("")].of.tar = [dev |-> "tc8", ver |-> head]

\* BUILDING.md, lines 19 and 20: the rootfs of a build is the one made for its
\* --target (`the rootfs builder gets --device=<t> so the right package lands').
RootfsForTarget == Finished => out[Img("")].tar.dev = opt.target
=============================================================================
