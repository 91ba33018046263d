# Verification of tc8-firmware-build

TLA+ modules for the firmware build of the Polycom TC8 and Trio C60: the boot
ramdisk that runs on the unit, the images and config blobs that reach its eMMC,
the tools and the pipeline that build and release them, and the bring-up tools
at its serial console.  TLC checks small instances; TLAPS proves every safety
property of the passing runs for every value of the constants.

    tlc -config BootSafety.cfg MCBootSelector     # a run; see the table below
    tlapm BootSelectorProofs.tla                  # a proof

## The system

| Part | State | Operations | Hard behaviour |
|---|---|---|---|
| **Boot selector** `initramfs/init` | the script's variables and mounts; on eMMC the rootfs, the `cache` blob and the facres flag | find the rootfs, pick sealed or maintenance mode, apply a staged blob, mount, `switch_root` | partitions appear while the script runs; every mount can fail; power can go at any step |
| **Config channel** (`CONFIG-PARTITION.md`; applier in the rootfs repository) | the blob in `cache`, the keys in the rootfs | stage, apply, consume | half-applied blobs, re-application after a power cut, corrupt blobs |
| **Sparse images** `tools/mksparse.py`, `gpt-restore/` | raw image, chunk list, `.simg`, partition | convert, verify, flash | boundaries and rounding, interrupted flashes, what the partition held before |
| **Build pipeline** `build.sh`, `images/rootfs.sh`, `targets/<t>/` | cached tarballs, `out/<profile>`, `SHA256SUMS` | twelve stages under `set -e` | several runs, for two targets, in one directory; stages skipped; runs aborted |
| **Kernel build** `kernel/build.sh` | the linux tree | reset, patch, configure, make | trees left by another target's series |
| **Release workflow** `release.yml` | assets | build, size check, publish | a bad artifact must not get out |
| **Config blob builder** `tools/mkconfigblob.py` | the image for `cache`; the partition under it | lay out config and bootloader, push | pushes over older and longer ones, overlap at 1 MiB |
| **U-Boot env editor** `tools/uboot_env_edit.py` | env blocks in files | read, show, modify, delete, preset-symmetric, verify | bad CRCs, malformed entries, leftovers, a full block, a kill while a file is rewritten in place |
| **Boot image tools** `mkbootimg.py`, `mkdtboimg.py`, `mkinitramfs.py` | the image under construction | add entries, pad, pack | offsets, paddings and load addresses that a reader computes again |
| **Console tools** `smoke/catch_uboot.py`, `smoke/uboot_watch.py` | receive buffers, leftover frames, the watcher's phase | drain and search, send bursts; read, spam, type, report | streams cut anywhere, lost reads, partial sends, phases driven by time |
| **PoE switch** `smoke/poe_cycle.sh` | in the switch | setup, cycle, disarm, status | a cycle interrupted before it is reverted |
| **avbtool** `tools/avbtool`, vendored from AOSP | boot.img and dtbo.img with their footers, vbmeta.img | add, erase and move hash footers, collect descriptors | images edited in place, one write after another; steps that raise, writes that get lost, interrupts |

They meet in files.  The pipeline calls `mksparse.py` for `rootfs.simg`, packs
`initramfs/init` into `boot.img` and has avbtool describe the slot images; the
wizard flashes the results and stages blobs in `cache`; the boot selector runs
what was flashed.  The console tools catch a unit's U-Boot to get it into
fastboot; the env editor changes what that U-Boot does by default.

What makes each part correct: the boot selector hands over the root that was
asked for and degrades instead of stopping; the channel applies a blob
completely before it consumes it, and only then; a flash writes exactly what
the image carries; a finished build is one set of files that belong together;
a footer or a vbmeta.img describes the image the packer wrote; a reader finds in
an image what the packer put there; an edited env means what it meant, changed
as asked; the console tools overlook nothing they have received and do not hang.

## The modules

### BootSelector, ConfigChannel, BootSelectorProofs

`BootSelector` has one action per step of `/init` and one per way that step can
fail.  `pc` is the line the script has reached, `mode`, `tries` are its shell
variables, `mnt` says how the root partition is mounted at `/lower` and
`/newroot`, `events` collects what this boot met.  Around it:

* the kernel adds the partitions in table order, first to sysfs
  (`ProbeSysfs`), then to devtmpfs (`ProbeNode`), at any time while the script
  runs.  `find_partlabel` reads sysfs; opening the device needs the node;
* `PowerCut` at any step loses everything but the eMMC;
* a block device has one superblock: `mount -o rw` while a read-only mount of
  it exists fails with `EBUSY` (`RoHeld`, `RwHeld`);
* the applier writes the keys one at a time and zeroes the header last
  (`ApplyKey`, `ApplyDone`).  It is not in this repository; that its writes are
  on disk before the header is zeroed is an assumption about it;
* the wizard stages whole or truncated blobs and reflashes in fastboot; the
  running system sets the maintenance flag and, in a writable root, writes.

`ConfigChannel` says what the channel promises without any of this: keys change
to a staged blob's values while the unit boots or is open for maintenance, the
blob goes away only when the rootfs carries all of it, and a sealed system
changes nothing.  `Channel` in `BootSelector` is the refinement mapping; a
corrupt blob is no blob.

`TablesAssumption` records a fact the script depends on without saying so: only
the rootfs is waited for, and `facres` and `cache` are found because they come
before `userdata` in every stock GPT.

### SparseImage, SparseImageProofs

A block is its content, a chunk its type, length and the raw block its payload
starts at.  `StartRun`, `ExtendRun` and `EndRun` are the two nested loops of
`convert`, whose inner loops differ only in the kind of block they run over
(`SameSort`); `WriteChunk` and `WriteOverflow` are the writing loop, in which
`chunk_header` raises when a RAW run does not fit the u32 `total_sz` (`MaxRun`
stands for 2^32/4096 blocks). `VerifyChunk` reads a chunk header and seeks over
the payload, as `verify` does, without noticing that the file has ended;
`VerifyTruncated` is the read of a header that is not there.  `MakeGptRestore`
writes the three chunks of `make-gpt-restore.py` (whose blocks are 512 bytes).
The device is external: it writes RAW chunks, skips DONT_CARE ones, stops at a
chunk without payload, and starts over after an interruption.

### BuildPipeline, BuildPipelineProofs

A file is what went into it: target, version of the sources and size for a
kernel, the tarball for a rootfs, the two images for a vbmeta.  Each stage of
`build.sh` is an action that writes the files the stage writes; each `exit 1`
is an action of its own; `Abort` is any other failure or an interrupt, and may
leave the file being written torn or, where the C60 recipe removes it first,
absent.  `out`, `tar` and `sums` survive into the next run, which may be for
the other target: both write to `out/emmc`.  `Edit` changes the sources between
runs.  With `ci` the same stages run once in a fresh checkout and the workflow
follows.  The rootfs builder, external, produces whole tarballs.  Sizes are MiB.

`kernel/build.sh` works on a linux tree that it leaves for the next run, of
either target: `git checkout` resets the tracked files (`Checkout`), the files
this series creates are removed and another target's stay (`RemoveNew`), each
patch applies or is refused (`ApplyPatch`), `MakeKernel` builds what the tree
holds (`Own` says whether that is this series and nothing else) and copies
`Image`, `CopyDtb` the dtb.  `tree` has the patches that the tracked files carry
and whose series made each new file; `Creates` says which files a patch creates,
for each target and version of the series.  `Abort` may fall inside each of
these steps (`Leftovers`).  A kernel built from a mixed tree is a kernel of no
target.  `--skip-kernel` asks only whether the two files are there
(`SkipKernel`), so the kernel in a set may be another target's or torn.

### AvbImages, AvbImagesProofs

An image is a sequence of cells, some to a block: content, the vbmeta struct and
the footer, with what struct and footer say beside them.  A digest is the
content it was taken of, so equal digests mean equal content.  `add_hash_footer`
is a command of several steps in the order of its writes (`Add`, `Strip`,
`Hash`, `AppendVbmeta`, `AppendGap`, `AppendFooter`), `resize_image` shares the
last two, `erase_footer` is one step, and `make_vbmeta_image` empties its output
(argparse opens it) before it reads the images.  Three things go wrong:

* a step inside the `try` raises (`AddFails`: the image is cut back to its
  original size) or `resize_image` raises (`ResizeFails`: no handler);
* `append_raw`'s block is still in the buffer of a file object that
  `_read_header` replaces, and cannot be written (`AppendLost`): the destructor
  drops the error and the command goes on;
* the command is interrupted between two writes (`Interrupt`): neither handler
  catches `KeyboardInterrupt`.  The image keeps what was appended, and without a
  footer the next command takes that for content.

`harm` remembers the images that the last two and `ResizeFails` touched:
`OriginalKept` and half of `DescribesPacked` speak of the others only, the other
half, that everything packed is still described, of all.  BuildPipeline uses
avbtool as one step that succeeds or not; AvbImages is what happens inside that
step when `out/` is worked on more than once.  The vbmeta struct is opaque: the
TC8 recipe makes it with `--algorithm NONE`, the C60 recipe signs it with
SHA256_RSA2048 (`targets/c60/boot.sh:32`), and no property depends on the
signature.  An interrupt inside one `write` call is not modelled; the block is
written or not.

### UbootEnv, UbootEnvProofs

A file is missing, of the wrong size, or a block: whether its CRC is right and
the NUL-separated items of its payload.  `Walked` (the loop that stops at the
empty item), `parse_env`, `Payload`, `Fits` and `Packed` are the pure part;
`Put` is the dictionary assignment that keeps a key's place, `Pop` the deletion,
and `PutAll` and `PopAll` the loops of the two edit commands over their
arguments.  Each subcommand is an action on any source and destination, the same
path included.  The commands that write do it in two steps, because `open`
empties the file and the block follows (`Open`, `Write`), and `Kill` may fall
between them; `Save` serializes before it opens.  `cmd_read` writes what the
panel holds and reports afterwards that it is bad.  `held` records the files as
they were when the last command started, for `FailureKeeps`.  Argument counts
and printed text are left out.

`Meaning` reads a block as U-Boot does, independently of `parse_env`; `Asked` is
the old meaning with the arguments applied.

### CatchUboot, CatchUbootProofs

Both directions of the WebSocket are byte streams.  `Handshake` is one `recv` of
`ws_connect`, whose surplus becomes the leftover; `Readable` is `select` and the
first `recv`; `DrainFrame` and `DrainEnd` are one turn of
`ws_recv_all_available`, in which any further part of the wire may arrive;
`Search` extends and trims `rx_buf` and applies the regular expression to its
last 200 bytes.  A burst goes out whole, in part (`SendBlocks`: the rest of the
frame is lost), or later.  `wire`, `stream` and `eof` are the probe, which does
not mask its frames; `got` and `up` record what crossed, for the properties.
`FrameAssumption` says what RFC 6455 says of the probe's frames: a length of 126
or more is an extended one, and nothing follows a close frame, behind which the
tool would drop it.

### UbootWatch, UbootWatchProofs

The watcher's loop: `Read` is the poll with its swallowed exceptions, which may
bring any part of what the probe holds, or all of it, since `read` ignores the
size it is given; `seen` and `big` record the text that was read in `wait_uboot`
and the largest read.  Then one action per branch of the phase machine, with the
handlers' writes one by one (`SpamKey`, `TypeKey`) because the panel and the
probe act in between.  `age` is `now - phase_t`; a handler sets `phase_t` to the
`now` of before it ran, so the next phase begins with the age the handler took.
The panel is external: it prints a boot log that ends with the banner, stops its
autoboot on a key in the boot delay, and takes `fastboot 0` at the prompt.

### BootImages, ImageProofs

An image is its length and a function from offsets to segments with their real
lengths; `Add` appends to it.  `entry`, `pad4` and `trailer` are the newc
archive; `Header`, `pad` and `Layout` the boot image, `Dtbo` the container.  The
readers know nothing but the format: they compute offsets from the headers and
look at what is there.  The kernel unpacks one entry per step (`UnpackEntry`)
until it is at the trailer or at no header (`UnpackEnd`), and leaves out what has
no directory or not its data; `Loads` and `Region` are the boot loader.  That the
TC8's stage-2 moves a ramdisk that would lie in the kernel is external.
`PartsApart` is about images that fit the partition as packed: avbtool refuses
the others on the TC8, and the C60 recipe cuts them (`cut` in BuildPipeline).

### ConfigBlob, ImageProofs

`cache` in cells, `CacheImage` as the bytearray of `main` with its slice
assignments, `Flash` and `FlashCut` over what was there, and the two readers,
which accept a header whose payload is whole; the one that applies a config
zeroes its header and nothing else.  `last` records the last push that was
flashed as a whole, which stage-2 was staged before it and whether its config was
consumed.  BootSelector takes a staged blob as one value; ConfigBlob is why it may.

## The runs

| Run | Checks | Result |
|---|---|---|
| `boot_safety` | `TypeOK`, `RootAsAsked`, `FallbackBoots`, `StagedBlobAccountedFor`, `ImplementsChannel`, `BootSettles`, `StagedConverges` | pass, 518,720 states |
| `sparse_flash` | `TypeOK`, `Tiles`, `Delivered`, `AcceptedWhole`, `WholeAccepted` | pass, 115,697 states |
| `build_safety` | `TypeOK`, `SetCoherent`, `KernelFresh`, `PatchesApply`, `ReleaseSound` | pass, 1,673,630 states |
| `avb_safety` | `TypeOK`, `FooterRight`, `OriginalKept`, `DescribesPacked` | pass, 1,643,107 states |
| `env_edit` | `TypeOK`, `EditMeans`, `EditVerifies`, `FailureKeeps` | pass, 47,403 states |
| `catch_prompt` | `TypeOK`, `StreamIntact`, `PromptNotMissed`, `NoFrameWaits`, `Ends` | pass, 119,520 states |
| `watch_fastboot` | `TypeOK`, `BannerNotMissed`, `ReportsTrue`, `NeverStuck`, `ReachesFastboot` | pass, 522,385 states |
| `boot_layout` | `TypeOK`, `UnpacksTree`, `LoaderFindsParts`, `PartsApart` | pass, 2,300 states |
| `blob_push` | `PushArrives` | pass, 28,638 states |
| `boot_switch` | `SwitchFailureRescues` | violated |
| `build_target` | `RootfsForTarget` | violated |
| `catch_framing` | `ProbeInSync` | violated |

The violated properties are what a comment or a document of the repository
says; the code does something else:

1. `exec switch_root` never comes back, so the rescue line after it is dead and
   a failed `switch_root` is a kernel panic (`init:173`).
2. The two commands of the README's quick start put the TC8 rootfs into the
   C60 image: cached tarballs have no target in their name (`build.sh:185`).
3. `sendall` on the non-blocking WebSocket may send a part of a burst and raise
   `BlockingIOError`; the next burst starts a new frame in the middle of the old
   one, and the probe's framing is lost (`catch_uboot.py:60` against `:50`).

Other documented promises do not hold either; there the passing properties
state what the code does in their place:

* After a build of each target `--skip-kernel` packs the kernel of the one built
  last: only the dtb has the target in its name (`build.sh:209` against
  `BUILDING.md:16`).  `KernelFresh` says when the kernel is the target's all the
  same: no other target was built in the directory, and no run aborted.
* The C60 recipe means to pad `boot.img` to 32 MiB, and cuts a larger one; the
  build goes on to the end (`targets/c60/boot.sh:31`).  `SetCoherent` says that
  an image is cut exactly then.
* A config payload of up to 1 MiB is allowed, but in a push with a bootloader
  the bootloader's header goes over its last 64 bytes (`mkconfigblob.py:55`
  against `CONFIG-PARTITION.md:46`), and a config-only push is said to leave the
  updater nothing to do, but leaves the bootloader an earlier push staged
  (`mkconfigblob.py:46` against `CONFIG-PARTITION.md:48`).  `PushArrives` says
  for every push what either reader finds.
* `add_hash_footer` promises to restore the image if anything goes wrong, but
  Ctrl-C is not an `Exception` (`avbtool:3625` against `:3529`); the next command
  takes what was appended for content.  `OriginalKept` and `DescribesPacked` say
  what is still true of such an image.

Smaller disagreements were met and are not runs; the models take the steps:

* `mksparse.py --verify` accepts an image cut in its last RAW payload
  (`mksparse.py:131`), and DONT_CARE leaves old blocks on a used partition
  (`mksparse.py:85`), harmless for blocks ext4 has not allocated.
* `--rootfs=DIR` always fails: the EXIT trap's test is the exit status
  (`images/rootfs.sh:63`).
* `add_hash_footer` exits 0 without a footer in the image when the footer's
  block cannot be written (`avbtool:991` against `avbtool:3529`).
* `umount /newroot` failing after a config was applied goes to the rescue shell
  with a mountable rootfs (`init:122` against `init:23`).
* `uboot_watch.py` asks for 4096 bytes and reads all there is: an answer of 8192
  bytes or more can bring a banner that the trim drops (`uboot_watch.py:23`,
  `:52`); `BannerNotMissed` says that nothing else loses one.
* `uboot_env_edit.py read` overwrites its destination before it finds that the
  block is bad (`uboot_env_edit.py:183`).
* `catch_uboot.py:159` calls the search anchored to the end of the buffer; a
  `=> ` that happens to be 200 bytes before the end matches as well.
* `uboot_watch.py` writes `IN_FASTBOOT_MODE` when nothing has answered for eight
  seconds; `ReportsTrue` says when that is true all the same.
* The slot macros of `uboot_env_edit.py` load `dtbo_X` as a bare DTB, while
  `mkdtboimg.py` puts a 64-byte container header before it.

### Bounds

*Boot.* Two keys, two payloads (one that sets both keys, one that omits one and
sets the other to the baked value); four partitions with `facres` or `cache`
present, absent, and the root absent; two polls (100 in the code: a third adds
only another miss); two failures and one power cut, so that a failed apply can
be followed by a failed overlay, and a cut can fall between any two steps.

*Sparse.* Images of 0 to 5 blocks over zero and two other contents, the last
block short by 0, 1 or 4095 bytes, a clean or a used partition, one interrupted
flash.  Five blocks hold up to five runs and every boundary between them; a run
of four overflows `total_sz`.

*Build.* Three runs, the most that one target, the other, and a reuse of both
need; two versions of the sources; one abort; kernels of 24 MiB (today's), 33
(past the workflow's limit and the C60's padding) and 48 (does not fit
`boot_a`); seven command lines from `BUILDING.md` and `README.md`; series of one
and two patches, over a driver that both targets' patches create and a dts that
only the TC8's do, in patches that are joined or split between the versions.

*Avb.* Two cells to a block, so that an image can be ragged; a packed image of
three cells, cut to one or padded to five; partitions too small for the
metadata, ragged, just large enough for three cells and large enough for five;
one failed or lost step and one interrupt, over any number of commands.  The
two partitions are interchangeable.

*Env.* Two paths, three commands, one kill.  Four blocks: a good one, one with a
bad CRC and leftovers behind the end, one without an end that has a repeated and
a malformed entry, one that is not ASCII.  The preset on an empty file fills the
block to the last byte, so the other entries decide whether an edit fits.

*Catch.* Four streams: a prompt cut by a ping, an extended frame behind which
`rx_buf` is trimmed, a close frame behind half a prompt, a `=> ` in other text;
cut by TCP in every way; four turns of the loop.  Window and trim sizes keep the
order of 200, 8192 and 16384.

*Watch.* A boot log longer than `buf` may grow, so that it is trimmed between
the halves of the banner, and reads of up to all of it and of what follows, so
that one read can be larger than what the trim keeps; two faults of any kind;
times scaled so that the spam is longer than the wait after it, as in the code.

*Images.* The real constants, and sizes on both sides of every alignment: all
residues modulo 4 for `init` and busybox, pages and their neighbours for the
rest, command lines at 512 and 1536 bytes, kernels up to the largest that fits
and one that does not.

*Blob.* Payloads that end below the bootloader header, right at it, on it and
behind it, with and without a bootloader; three pushes over one another, one cut.

Deadlock is checked for the boot selector, where a unit can always be powered
on again, for avbtool, which can always be called again, and for the two console
tools.  Builds, flashes, image tools and counted sequences of commands really
end, so their runs do not check it.

### Fairness

`FairSpec` has weak fairness of `InitStep`, the script and the applier it waits
for: process 1 is always runnable and every command it runs returns.  Nothing
is assumed of the kernel's probing, so `BootSettles` covers a partition that
never appears.  `StagedConverges` assumes that the unit keeps being booted into
the system as its own premise.

CatchUboot assumes weak fairness of the host process only, nothing of the probe:
`Ends` holds because the loop has a deadline and no receive waits.  UbootWatch
assumes the same of the watcher, that a panel without power gets it, and strong
fairness of a read that returns what is there: the probe's HTTP server answers
in the end, a poll that is repeated for ever is not always lost.  Only
`ReachesFastboot` needs the last two.

## The proofs

Every proof module shows an inductive invariant `IInv` of its component and
derives the properties from it.  Each `IInv` was checked by TLC on the
component's run first.  The constants are arbitrary within the named
assumptions: the numbers of failures, cuts, runs and commands are any numbers.

`BootSelectorProofs` (`SizesAssumption`, `ValuesAssumption`,
`TablesAssumption`): `TypeOK`, `RootAsAsked`, `FallbackBoots`,
`StagedBlobAccountedFor`, `ImplementsChannel`.  `RootAsAsked` speaks of one
stage; to be inductive it
needs what earlier stages established: how far the kernel has probed once the
rootfs was found (`Probed`), that `flag` implies a usable facres (`Stored`),
what `mode` must be after the flag stage (`Asked`), what is mounted in each
stage (`Mounted`), what a refused mount implies (`Refused`), that a staged blob
still there has a recorded reason (`Accounted`), and that every key in
`applied` has the blob's value (`Written`).  `Refinement` uses `Written` for
the one step that matters: when the header is zeroed the rootfs carries the
payload.

`SparseImageProofs` (`SparseAssumption`): all five properties.  `Tiles` needs
the converter's cursors tied to the end of the last chunk, and the run between
them to be of one sort (`Front`), from which the chunks come out maximal
(`RunsMaximal`) and RAW exactly where the image carries blocks (`Typed`);
`AcceptedWhole` needs how far writer, verifier and device are ahead of the file
(`Filed`); `WholeAccepted` needs the number of blocks verify has counted to be
the start of the next chunk (`Counted`) and that sizes round up to whole blocks;
`Delivered` needs the device's cursor to be there too, with every block before
it written (`Cursor`).

`BuildPipelineProofs` (`PipelineAssumption`): all five properties, for any set
of command lines and any series that is not empty and whose patches create
different files.  `PatchesApply` and `KernelFresh` rest on what the linux tree
holds while the series is applied, whatever it held before (`TreeMade`): the
patches before the next one and none of another series among the tracked files,
the files those patches create and not yet the others.  The other properties
speak of finished runs, so the invariant
says per file what it is from the stage that makes it to the end of the run:
the kernel and its dtb (`KernelMade`), the rootfs images (`RootfsMade`,
`RootfsDelivered`), the slot images and vbmeta.img (`BootMade`); what
`SHA256SUMS` lists is one set at all times (`Summed`); `Runner` adds what a fresh
checkout makes true for the workflow, up to what it publishes.  What `KernelFresh`
says of `--skip-kernel` needs a second invariant over the runs (`Paired`): while no
run has aborted and one target only has a dtb under `kernel/`, `Image` and that dtb
are of one tree, but between the two copies that make them.
The work is in the frame: that no later stage overwrites a file an earlier one
made, whichever options skip which stages.

`UbootWatchProofs` (`TrimAssumption`): `TypeOK`, `BannerNotMissed`,
`ReportsTrue`, for reads of any size.  `BannerNotMissed` needs that `buf` is the
end of all that was read (`KeepsEnd`) and, in the pass that looks, has the
banner if any was read that is not excused (`Looks`): a trim that drops a banner
no earlier pass has seen must have dropped what one large read brought.
`ReportsTrue` needs where the panel is at each stage of the watcher while
nothing has gone wrong (`InStep`).

`UbootEnvProofs` (`MacroAssumption`, `InputAssumption`): `TypeOK`,
`FailureKeeps`, `EditVerifies` and the action property `EditMeans`.  The state
invariant is small: a block that is ready to be written has the meaning that was
asked for and verifies (`JobReady`), and while it is, the files other than the
destination are what they were (`OthersKept`).  What is behind it is not: the
meaning of a block that went through `parse_env`, the edits and `serialize_env`
is that of the file, edited.  These loops are recursive functions over the
positions of a sequence.  The library's induction theorems take an operator,
which the provers cannot instantiate; here a fact about all positions is a *set*
of numbers, and `Induction` (from the least element of its complement) is an
ordinary lemma about sets.  `LoopExists` shows in the same way that a loop's
function exists, `PutAllHas`, `PopAllHas` and `ParseMeans` say what the loops
compute.

`ImageProofs` has the proofs of two modules.  ConfigBlob
(`LayoutAssumption`): `PushArrives`, for any header offset,
sizes and order of pushes.  The file that waits to be flashed is the image of
the last push (`Built`), and from a whole flash to the next the partition has
its cells in the places the readers look at, but for the config's header once
it is consumed (`Holds`).  What the updater finds depends on the cells from the
bootloader header on (`SameStage`), so a config that ends below it changes nothing
there.
BootImages (`PagesAssumption`: a page holds the header, no file is empty): all
four properties, for any sizes, command lines and pages; the addresses are the
real ones.  `UnpacksTree` speaks of the end of the reading, so the invariant
(`ImagesInv`) says where every entry is from the moment it is written: there are
offsets, each computed from the one before as the reader will (`Chain`), the next
entry goes to the last of them (`Wrote`), and the reader has made exactly the
entries before the offset it is at (`Reads`).  A step needs that appending changes
no segment that is there (`Extended`, `AddFacts`), and that directories come before
what is in them (`Unpackable`).  The packed files are the images of their
arguments (`Files`); `Parts` says what is where in a boot image.  `PartsApart`
follows from the addresses and from a kernel being no longer than its image.

`AvbImagesProofs` (`AvbAssumption`): all four properties, for any block size,
images and partitions.  Every image starts with content, has a footer at most
in its last cell, and the footer and the struct are true of the cells before
them (`Images`); the packed image is still there, or was cut short or lost
(`Originals`); and for each statement of a running command, what the statements
before it did to the image (`Running`: `AtStrip` to `AtFooter`), which is what
the restoring handler relies on.  The rest is arithmetic of whole blocks.
`DescribesPacked` speaks of images that were interrupted or lost a write as well;
for these a second invariant (`Prefixed`, theorem `ContentKept`) says that every
image starts with all that was packed and that no footer names an original size
inside it, so that no command cuts into it.

`CatchUbootProofs` (`BufferAssumption`, `FrameAssumption`): `TypeOK`,
`StreamIntact`, `PromptNotMissed`, `NoFrameWaits`, for any frames and any
cutting of their bytes.  `StreamIntact` with the handshake before it is
inductive (`Receiving`); the steps need that the bytes of a sequence of frames
are those of the first and of the others (`NextFrame`, by induction over the
loop of `FlattenSeq`) and that a leftover passes every `need()` exactly when it
has all of the next frame, whose header and payload are then the ones read
(`HeadFrame`).  `PromptNotMissed` needs that `rx_buf` is the end of what was
received and has never less than the trim leaves (`Searched`), so that the
searched window is the same in both; `NoFrameWaits` that a drain ends on an
incomplete frame (`Waits`).

Only model-checked:

* the liveness properties `BootSettles`, `StagedConverges`, `Ends`,
  `NeverStuck` and `ReachesFastboot`: fairness is out of the prover's reach;
* the three violated properties, by their nature.

## Not modelled

avbtool's hashtrees, FEC and certificates (the recipes use hash descriptors
only), the signature (the TC8 recipe uses `--algorithm NONE`, the C60 recipe
SHA256_RSA2048; the struct is opaque), its branch for images in Android
sparse format (slot images are plain files) and its reading commands.

Of `kernel/build.sh`: its branch for a tree without git (`kernel/build.sh:131`),
the firmware blobs and an empty series, which `PipelineAssumption` excludes (with
one the reset is skipped, `kernel/build.sh:110`, and the tree keeps the patches of
the last target; both targets have a series).

`poe_cycle.sh` keeps no state of its own: the switch does, and how
its firmware reacts to the two requests is known only from the script's
comments.  An interrupted `cycle` leaves the black-hole target set.  Configuration
data and binaries have no behaviour, and `bootstrap.sh` is two commands behind an
existence test.

In UbootEnv the text of a macro is a value, so what U-Boot does with it is out
of scope.  In CatchUboot 64-bit frame lengths and masked frames, which the probe
does not send, are left out; in BootImages gzip, the SHA-1 id and fields that
are always zero.

## Plan

All parts with behaviour of their own are modelled, and every safety invariant and
action property of the passing runs is proved.  Liveness stays with TLC.  When a
recipe, a load address or a tool changes, the run of its module is the first thing
to repeat, then its proof.
