----------------------------- MODULE BootSelector -----------------------------
(***************************************************************************)
(* The TC8 boot ramdisk's /init (initramfs/init): from power-on to         *)
(* switch_root it finds the rootfs partition, picks sealed or maintenance  *)
(* mode, applies a config blob staged in `cache', mounts the root and      *)
(* hands over to systemd.  Around it: the kernel that makes the GPT        *)
(* partitions appear while /init polls for them, power cuts, the wizard    *)
(* that stages blobs and reflashes while the unit sits in fastboot, and    *)
(* the running system's tc8-rw / tc8-ro / tc8-config / tc8-persist-root.   *)
(*                                                                         *)
(* rootfs, cache, flag and facres are on eMMC and survive everything; all  *)
(* other variables are RAM, lost when the power goes.                      *)
(***************************************************************************)
EXTENDS Naturals

CONSTANTS
  NParts,      \* number of partitions in the GPT
  Tables,      \* the partition tables considered: where each label sits
  MaxTries,    \* polls for the rootfs partition (100 in the code, 0.2 s apart)
  Keys,        \* what a config blob can set (hostname, kiosk URL, ...)
  Vals,        \* the values of a key
  Baked,       \* the value a freshly flashed rootfs has for every key
  Omit,        \* a key the payload does not mention
  Payloads,    \* the config payloads the wizard pushes
  None,        \* no payload
  MaxFaults,   \* bound: mounts, unmounts and applier runs that fail
  MaxCuts      \* bound: power cuts

Labels == {"root", "facres", "cache"}

ASSUME SizesAssumption ==
  /\ NParts \in Nat
  /\ MaxTries \in Nat
  /\ MaxFaults \in Nat
  /\ MaxCuts \in Nat

ASSUME ValuesAssumption ==
  /\ Baked \in Vals
  /\ Omit \notin Vals
  /\ Payloads \subseteq [Keys -> Vals \cup {Omit}]
  /\ None \notin Payloads

\* Position 0 means the table has no such partition.  In every stock GPT
\* `cache' and `facres' are entries 7 and 8 and `userdata' is entry 15: both
\* come before the root, which is the order in which the kernel adds them.
ASSUME TablesAssumption ==
  /\ Tables \subseteq [Labels -> 0 .. NParts]
  /\ \A t \in Tables : t["root"] = 0 \/ (t["facres"] < t["root"] /\ t["cache"] < t["root"])

VARIABLES
  gpt,       \* the partition table of this unit
  rootfs,    \* value of each key in the ext4 of the root partition
  cache,     \* head of the cache partition: magic there?  sha256 right?  payload
  flag,      \* .tc8-rootfs-rw exists at the root of facres
  facres,    \* does facres hold an ext4?
  pc,        \* where /init, or the unit, is
  override,  \* tc8.rootfs= on this boot's command line, "none" when absent
  mode,      \* the script's $mode
  tries,     \* the script's $tries
  sysfs,     \* partitions with a /sys/class/block entry, in table order
  nodes,     \* partitions with a /dev node
  mnt,       \* how the root partition is mounted at /lower and /newroot
  applied,   \* keys the applier has written in this run of it
  events,    \* what this boot met: the script's log lines and silent failures
  faults,    \* failures still to come
  cuts       \* power cuts still to come

disk   == <<gpt, rootfs, cache, flag, facres>>
kernel == <<sysfs, nodes>>
script == <<override, mode, tries>>
budget == <<faults, cuts>>
vars   == <<gpt, rootfs, cache, flag, facres, pc, override, mode, tries, sysfs, nodes,
            mnt, applied, events, faults, cuts>>

Unmounted == [lower |-> "none", newroot |-> "none"]

Overrides == {"none", "ro", "rw", "other"}

\* The stages of the script itself.
InitStages == {"poll", "flag", "blob", "apply", "umount", "mount", "overlay",
               "fallback", "remount", "switch"}

Stages == InitStages \cup {"off", "running", "service", "rescue", "panic"}

Events == {"noroot", "flagUnread", "blobUnread", "blobMountFailed", "applyFailed",
           "umountFailed", "mountFailed", "overlayFailed", "lowerBusy", "fallbackFailed",
           "switchFailed", "service"}

(***************************************************************************)
(* Helpers.                                                                *)
(***************************************************************************)

\* find_partlabel finds the label in sysfs and its /dev node can be opened.
HasNode(l) == gpt[l] # 0 /\ gpt[l] <= sysfs /\ gpt[l] <= nodes

\* The first eight bytes of cache, as dd reads them.
SeesMagic == HasNode("cache") /\ cache.magic

SetKeys(p) == {k \in Keys : p[k] # Omit}

Carries(fs, p) == \A k \in SetKeys(p) : fs[k] = p[k]

\* A block device has one superblock: a mount whose ro/rw disagrees with one
\* that is already there fails with EBUSY.
RoHeld == mnt.lower = "ro"
RwHeld == mnt.newroot = "rw"

Fault   == faults > 0 /\ faults' = faults - 1 /\ UNCHANGED cuts
NoFault == UNCHANGED budget

Goto(l)    == pc' = l
Log(e)     == events' = events \cup {e}
Rescue(e)  == Goto("rescue") /\ Log(e)

\* Power is gone or the unit has reset: everything in RAM is lost.
Down ==
  /\ pc' = "off"
  /\ override' = "none" /\ mode' = "none" /\ tries' = 0
  /\ sysfs' = 0 /\ nodes' = 0
  /\ mnt' = Unmounted /\ applied' = {} /\ events' = {}

-----------------------------------------------------------------------------
(***************************************************************************)
(* The kernel and the power.                                               *)
(***************************************************************************)

\* The kernel runs /init, which parses the command line.
PowerOn(o) ==
  /\ pc = "off"
  /\ Goto("poll")
  /\ override' = o /\ mode' = o
  /\ UNCHANGED <<disk, kernel, budget, tries, mnt, applied, events>>

\* The eMMC probes asynchronously: partitions appear one at a time in table
\* order, first in sysfs and then in devtmpfs.
ProbeSysfs ==
  /\ pc # "off" /\ sysfs = nodes /\ sysfs < NParts
  /\ sysfs' = sysfs + 1
  /\ UNCHANGED <<disk, script, budget, nodes, pc, mnt, applied, events>>

ProbeNode ==
  /\ pc # "off" /\ nodes < sysfs
  /\ nodes' = nodes + 1
  /\ UNCHANGED <<disk, script, budget, sysfs, pc, mnt, applied, events>>

PowerCut ==
  /\ pc # "off" /\ cuts > 0
  /\ cuts' = cuts - 1
  /\ Down
  /\ UNCHANGED <<disk, faults>>

\* A clean reboot of the running system, `exit' in the rescue shell
\* (reboot -f), or the kernel's panic=10.
Reboot ==
  /\ pc \in {"running", "rescue", "panic"}
  /\ Down
  /\ UNCHANGED <<disk, budget>>

-----------------------------------------------------------------------------
(***************************************************************************)
(* /init: waiting for the rootfs partition.                                *)
(***************************************************************************)

\* Mutant: `|| break' for `&& break', the loop leaves before the root is there.
PollFoundEarly ==
  /\ pc = "poll" /\ tries < MaxTries
  /\ Goto("flag")
  /\ UNCHANGED <<disk, kernel, script, budget, mnt, applied, events>>

PollFound ==
  /\ pc = "poll" /\ tries < MaxTries /\ HasNode("root")
  /\ Goto("flag")
  /\ UNCHANGED <<disk, kernel, script, budget, mnt, applied, events>>

\* Mutant: -le for -lt in the loop condition.
PollMissOneMore ==
  /\ pc = "poll" /\ tries <= MaxTries /\ ~HasNode("root")
  /\ tries' = tries + 1
  /\ UNCHANGED <<disk, kernel, budget, pc, override, mode, mnt, applied, events>>

\* Mutant: the increment of $tries is lost.
PollMissForever ==
  /\ pc = "poll" /\ tries < MaxTries /\ ~HasNode("root")
  /\ UNCHANGED vars

PollMiss ==
  /\ pc = "poll" /\ tries < MaxTries /\ ~HasNode("root")
  /\ tries' = tries + 1
  /\ UNCHANGED <<disk, kernel, budget, pc, override, mode, mnt, applied, events>>

PollGiveUp ==
  /\ pc = "poll" /\ tries >= MaxTries
  /\ Rescue("noroot")
  /\ UNCHANGED <<disk, kernel, script, budget, mnt, applied>>

(***************************************************************************)
(* /init: sealed or maintenance?                                           *)
(***************************************************************************)

\* The command line decides; anything but rw means ro.
ModeFromCmdline ==
  /\ pc = "flag" /\ mode # "none"
  /\ mode' = IF mode = "rw" THEN "rw" ELSE "ro"
  /\ Goto("blob")
  /\ UNCHANGED <<disk, kernel, budget, override, tries, mnt, applied, events>>

\* facres is mounted ro, the flag file looked for, facres unmounted.
ModeFromFlag ==
  /\ pc = "flag" /\ mode = "none"
  /\ HasNode("facres") /\ facres = "ext4"
  /\ mode' = IF flag THEN "rw" ELSE "ro"
  /\ Goto("blob")
  /\ UNCHANGED <<disk, kernel, budget, override, tries, mnt, applied, events>>

\* No facres, or its mount fails (silently: 2>/dev/null).
ModeWithoutFlag ==
  /\ pc = "flag" /\ mode = "none"
  /\ \/ (~HasNode("facres") \/ facres # "ext4") /\ NoFault /\ UNCHANGED events
     \/ Fault /\ Log("flagUnread")
  /\ mode' = "ro"
  /\ Goto("blob")
  /\ UNCHANGED <<disk, kernel, override, tries, mnt, applied>>

(***************************************************************************)
(* /init: the config blob.                                                 *)
(***************************************************************************)

\* Mutant: maintenance boots leave the blob to the runtime service.
NoBlobInMaintenance ==
  /\ pc = "blob" /\ (~SeesMagic \/ mode = "rw")
  /\ Goto("mount")
  /\ UNCHANGED <<disk, kernel, script, budget, mnt, applied, events>>

\* Nothing staged.
NoBlob ==
  /\ pc = "blob" /\ ~SeesMagic
  /\ Goto("mount")
  /\ UNCHANGED <<disk, kernel, script, budget, mnt, applied, events>>

\* dd fails: the comparison with the magic is false and nothing is logged.
BlobUnread ==
  /\ pc = "blob" /\ SeesMagic
  /\ Fault
  /\ Goto("mount") /\ Log("blobUnread")
  /\ UNCHANGED <<disk, kernel, script, mnt, applied>>

BlobMount ==
  /\ pc = "blob" /\ SeesMagic /\ ~RoHeld
  /\ mnt' = [mnt EXCEPT !.newroot = "rw"]
  /\ applied' = {}
  /\ Goto("apply")
  /\ UNCHANGED <<disk, kernel, script, budget, events>>

\* "rw mount for config apply failed -- blob left for next boot"
BlobMountFails ==
  /\ pc = "blob" /\ SeesMagic
  /\ Fault
  /\ Goto("mount") /\ Log("blobMountFailed")
  /\ UNCHANGED <<disk, kernel, script, mnt, applied>>

\* Mutant: /init invalidates the blob itself, whether or not the applier failed.
UnmountConsumes ==
  /\ pc = "umount"
  /\ mnt' = [mnt EXCEPT !.newroot = "none"]
  /\ cache' = [cache EXCEPT !.magic = FALSE]
  /\ Goto("mount")
  /\ UNCHANGED <<gpt, rootfs, flag, facres, kernel, script, budget, applied, events>>

\* umount /newroot after the applier returned.
UnmountNewroot ==
  /\ pc = "umount"
  /\ mnt' = [mnt EXCEPT !.newroot = "none"]
  /\ Goto("mount")
  /\ UNCHANGED <<disk, kernel, script, budget, applied, events>>

UnmountFails ==
  /\ pc = "umount"
  /\ Fault
  /\ Rescue("umountFailed")
  /\ UNCHANGED <<disk, kernel, script, mnt, applied>>

(***************************************************************************)
(* The applier, /etc/tc8-config/apply-config.sh of the rootfs (external).  *)
(* /init runs it in a chroot ("apply"); on direct-rw boots the tc8-config  *)
(* service runs it again on the live root ("service").  It checks the      *)
(* sha256, writes the keys one by one and zeroes the header last.          *)
(***************************************************************************)

Applying == pc \in {"apply", "service"}

AfterApply == IF pc = "apply" THEN "umount" ELSE "running"

ApplyKey(k) ==
  /\ Applying /\ cache.ok
  /\ k \in SetKeys(cache.set) \ applied
  /\ rootfs' = [rootfs EXCEPT ![k] = cache.set[k]]
  /\ applied' = applied \cup {k}
  /\ UNCHANGED <<gpt, cache, flag, facres, kernel, script, budget, pc, mnt, events>>

ApplyDone ==
  /\ Applying /\ cache.ok
  /\ applied = SetKeys(cache.set)
  /\ cache' = [cache EXCEPT !.magic = FALSE]
  /\ Goto(AfterApply)
  /\ UNCHANGED <<gpt, rootfs, flag, facres, kernel, script, budget, mnt, applied, events>>

\* Corrupt payload, or an error on the way: "blob left in place for next boot".
ApplyFails ==
  /\ Applying
  /\ \/ ~cache.ok /\ NoFault
     \/ Fault
  /\ Goto(AfterApply) /\ Log("applyFailed")
  /\ UNCHANGED <<disk, kernel, script, mnt, applied>>

(***************************************************************************)
(* /init: mounting the root.                                               *)
(***************************************************************************)

MountDirect ==
  /\ pc = "mount" /\ mode = "rw" /\ ~RoHeld
  /\ mnt' = [mnt EXCEPT !.newroot = "rw"]
  /\ Goto("switch")
  /\ UNCHANGED <<disk, kernel, script, budget, applied, events>>

MountLower ==
  /\ pc = "mount" /\ mode # "rw" /\ ~RwHeld
  /\ mnt' = [mnt EXCEPT !.lower = "ro"]
  /\ Goto("overlay")
  /\ UNCHANGED <<disk, kernel, script, budget, applied, events>>

\* The direct-rw or the ro mount of the root fails.
MountFails ==
  /\ pc = "mount"
  /\ \/ (IF mode = "rw" THEN RoHeld ELSE RwHeld) /\ NoFault
     \/ Fault
  /\ Rescue("mountFailed")
  /\ UNCHANGED <<disk, kernel, script, mnt, applied>>

\* The tmpfs and the overlay are mounted; the layers move under /newroot.
MountOverlay ==
  /\ pc = "overlay"
  /\ mnt' = [mnt EXCEPT !.newroot = "overlay"]
  /\ Goto("switch")
  /\ UNCHANGED <<disk, kernel, script, budget, applied, events>>

\* Either mount fails: "overlay setup FAILED -- falling back to direct-rw".
OverlayFails ==
  /\ pc = "overlay"
  /\ Fault
  /\ Goto("fallback") /\ Log("overlayFailed")
  /\ UNCHANGED <<disk, kernel, script, mnt, applied>>

\* Mutant: /lower is not unmounted before the fallback mount.
FallbackKeepsLower ==
  /\ pc = "fallback"
  /\ Goto("remount")
  /\ UNCHANGED <<disk, kernel, script, budget, mnt, applied, events>>

\* umount /rw and /lower, result ignored.
FallbackUmount ==
  /\ pc = "fallback"
  /\ \/ mnt' = [mnt EXCEPT !.lower = "none"] /\ NoFault /\ UNCHANGED events
     \/ Fault /\ Log("lowerBusy") /\ UNCHANGED mnt
  /\ Goto("remount")
  /\ UNCHANGED <<disk, kernel, script, applied>>

FallbackMount ==
  /\ pc = "remount" /\ ~RoHeld
  /\ mnt' = [mnt EXCEPT !.newroot = "rw"]
  /\ Goto("switch")
  /\ UNCHANGED <<disk, kernel, script, budget, applied, events>>

FallbackFails ==
  /\ pc = "remount"
  /\ \/ RoHeld /\ NoFault /\ Rescue("fallbackFailed")
     \/ Fault /\ Rescue("mountFailed")
  /\ UNCHANGED <<disk, kernel, script, mnt, applied>>

SwitchRoot ==
  /\ pc = "switch"
  /\ Goto("running")
  /\ UNCHANGED <<disk, kernel, script, budget, mnt, applied, events>>

\* exec has replaced the shell by switch_root: when that gives up, process 1
\* is gone and the kernel panics.  The script's last line is never reached.
SwitchFails ==
  /\ pc = "switch"
  /\ Fault
  /\ Goto("panic") /\ Log("switchFailed")
  /\ UNCHANGED <<disk, kernel, script, mnt, applied>>

-----------------------------------------------------------------------------
(***************************************************************************)
(* The running system (external, in the rootfs repository).                *)
(***************************************************************************)

\* tc8-config.service: once per boot, on direct-rw boots only.
ServiceStart ==
  /\ pc = "running" /\ RwHeld
  /\ SeesMagic /\ "service" \notin events
  /\ applied' = {}
  /\ Goto("service") /\ Log("service")
  /\ UNCHANGED <<disk, kernel, script, budget, mnt>>

\* apt, an editor, ...: in maintenance mode writes are permanent.  Behind the
\* overlay they land in the tmpfs and change no variable here.
OsWrite(k, v) ==
  /\ pc = "running" /\ RwHeld
  /\ rootfs' = [rootfs EXCEPT ![k] = v]
  /\ UNCHANGED <<gpt, cache, flag, facres, kernel, script, budget, pc, mnt, applied, events>>

\* tc8-rw and tc8-ro; without a usable facres they refuse.
SetFlag(b) ==
  /\ pc = "running" /\ gpt["facres"] # 0 /\ facres = "ext4"
  /\ flag' = b
  /\ UNCHANGED <<gpt, rootfs, cache, facres, kernel, script, budget, pc, mnt, applied, events>>

\* tc8-persist-root: a facres that is not ext4 is reformatted.
FormatFacres ==
  /\ pc = "running" /\ gpt["facres"] # 0 /\ facres # "ext4"
  /\ facres' = "ext4" /\ flag' = FALSE
  /\ UNCHANGED <<gpt, rootfs, cache, kernel, script, budget, pc, mnt, applied, events>>

(***************************************************************************)
(* The wizard, while the unit is in fastboot (external).                   *)
(***************************************************************************)

\* fastboot flash cache; ok is FALSE when the transfer was cut short.
StageBlob(p, ok) ==
  /\ pc = "off" /\ gpt["cache"] # 0
  /\ cache' = [magic |-> TRUE, ok |-> ok, set |-> p]
  /\ UNCHANGED <<gpt, rootfs, flag, facres, kernel, script, budget, pc, mnt, applied, events>>

\* flashos: a new rootfs; facres and cache are not touched.
FlashOs ==
  /\ pc = "off"
  /\ rootfs' = [k \in Keys |-> Baked]
  /\ UNCHANGED <<gpt, cache, flag, facres, kernel, script, budget, pc, mnt, applied, events>>

-----------------------------------------------------------------------------
Init ==
  /\ gpt \in Tables
  /\ rootfs = [k \in Keys |-> Baked]
  /\ \E p \in Payloads : cache = [magic |-> FALSE, ok |-> FALSE, set |-> p]
  /\ flag \in BOOLEAN
  /\ facres \in {"ext4", "other"}
  /\ flag => facres = "ext4" /\ gpt["facres"] # 0
  /\ pc = "off"
  /\ override = "none" /\ mode = "none" /\ tries = 0
  /\ sysfs = 0 /\ nodes = 0
  /\ mnt = Unmounted /\ applied = {} /\ events = {}
  /\ faults = MaxFaults /\ cuts = MaxCuts

\* One step of the script, or of the applier it waits for.
InitStep ==
  \/ PollFound \/ PollMiss \/ PollGiveUp
  \/ ModeFromCmdline \/ ModeFromFlag \/ ModeWithoutFlag
  \/ NoBlob \/ BlobUnread \/ BlobMount \/ BlobMountFails
  \/ \E k \in Keys : ApplyKey(k)
  \/ ApplyDone \/ ApplyFails
  \/ UnmountNewroot \/ UnmountFails
  \/ MountDirect \/ MountLower \/ MountFails
  \/ MountOverlay \/ OverlayFails
  \/ FallbackUmount \/ FallbackMount \/ FallbackFails
  \/ SwitchRoot \/ SwitchFails

System ==
  \/ ServiceStart
  \/ \E k \in Keys, v \in Vals : OsWrite(k, v)
  \/ \E b \in BOOLEAN : SetFlag(b)
  \/ FormatFacres

Wizard ==
  \/ \E p \in Payloads, ok \in BOOLEAN : StageBlob(p, ok)
  \/ FlashOs

Next ==
  \/ \E o \in Overrides : PowerOn(o)
  \/ ProbeSysfs \/ ProbeNode \/ PowerCut \/ Reboot
  \/ InitStep \/ System \/ Wizard

Spec == Init /\ [][Next]_vars

\* Process 1 is always scheduled and every command it waits for returns.  No
\* fairness for the kernel's probing, the operator, the wizard or the power.
FairSpec == Spec /\ WF_vars(InitStep)

-----------------------------------------------------------------------------
(***************************************************************************)
(* Properties.                                                             *)
(***************************************************************************)

\* Every variable keeps its type; in particular $tries never passes the bound
\* of the polling loop.
TypeOK ==
  /\ gpt \in Tables
  /\ rootfs \in [Keys -> Vals]
  /\ cache \in [magic : BOOLEAN, ok : BOOLEAN, set : Payloads]
  /\ flag \in BOOLEAN
  /\ facres \in {"ext4", "other"}
  /\ pc \in Stages
  /\ override \in Overrides /\ mode \in Overrides
  /\ tries \in 0 .. MaxTries
  /\ sysfs \in 0 .. NParts /\ nodes \in 0 .. NParts
  /\ mnt \in [lower : {"none", "ro"}, newroot : {"none", "rw", "overlay"}]
  /\ applied \subseteq Keys
  /\ events \subseteq Events
  /\ faults \in 0 .. MaxFaults /\ cuts \in 0 .. MaxCuts

WantsRw == override = "rw" \/ (override = "none" /\ flag /\ "flagUnread" \notin events)

\* The root handed to switch_root is the one asked for: direct-rw exactly when
\* the command line says rw, or says nothing and the facres flag is set (or the
\* overlay could not be built), otherwise the overlay over a read-only lower.
\* The poll waits for the rootfs only: the flag is not missed because facres
\* precedes the root in the table.  In a direct-rw root nothing else holds the
\* partition.
RootAsAsked ==
  pc = "switch" =>
    mnt = IF WantsRw \/ "overlayFailed" \in events
          THEN [lower |-> "none", newroot |-> "rw"]
          ELSE [lower |-> "ro", newroot |-> "overlay"]

\* "Overlay setup failure degrades to a direct-rw mount": after a failed overlay
\* the rescue shell needs a second failure, of the unmount or of the mount.
FallbackBoots ==
  pc = "rescue" /\ "overlayFailed" \in events =>
    "lowerBusy" \in events \/ "mountFailed" \in events

\* "A present, valid config blob is always applied": a system that is up with
\* such a blob still in cache met a failure reading, mounting or applying it.
StagedBlobAccountedFor ==
  pc = "running" /\ cache.magic /\ cache.ok =>
    events \cap {"blobUnread", "blobMountFailed", "applyFailed"} # {}

\* The boot selector, the applier and the running system together implement the
\* one-shot config channel, over power cuts, failed mounts and reflashes.
Channel == INSTANCE ConfigChannel WITH
  fs     <- rootfs,
  staged <- IF cache.magic /\ cache.ok THEN cache.set ELSE None,
  phase  <- CASE pc \in {"running", "service"} -> IF RwHeld THEN "open" ELSE "sealed"
              [] pc \in {"rescue", "panic"}    -> "halted"
              [] pc \in InitStages             -> "booting"
              [] OTHER                         -> "off"

ImplementsChannel == Channel!Spec

\* Every boot ends: in the system, in the rescue shell, in a panic or in a power
\* cut, whatever the kernel's probing does.
BootSettles == pc = "poll" ~> pc \in {"running", "rescue", "panic", "off"}

\* A unit that keeps being booted into the system eventually consumes a valid
\* blob, unless the wizard replaces it.
StagedConverges ==
  \A p \in Payloads :
    ([]<>(pc = "running") /\ []<>(pc = "off")) =>
      ((cache = [magic |-> TRUE, ok |-> TRUE, set |-> p]) ~>
       (cache # [magic |-> TRUE, ok |-> TRUE, set |-> p]))

\* initramfs/init, line 174: a failed switch_root ends in the rescue shell.
SwitchFailureRescues == "switchFailed" \in events => pc # "panic"

=============================================================================
