------------------------- MODULE BootSelectorProofs -------------------------
(***************************************************************************)
(* Proofs about BootSelector, for every partition table that puts facres   *)
(* and cache before the root, every set of keys, values and payloads and   *)
(* every number of polls, failures and power cuts.                         *)
(***************************************************************************)
EXTENDS BootSelector, TLAPS

(***************************************************************************)
(* The inductive invariant, in parts.                                      *)
(***************************************************************************)

\* Stages at which the root partition has been found.
Found == {"flag", "blob", "apply", "umount", "mount", "overlay", "fallback", "remount",
          "switch", "running", "service", "panic"}

\* Partitions appear in table order, so once the root is there all are.
Probed ==
  /\ nodes <= sysfs
  /\ pc \in Found => gpt["root"] # 0 /\ gpt["root"] <= nodes

\* A flag or a blob needs a partition to be in.
Stored ==
  /\ flag => facres = "ext4" /\ gpt["facres"] # 0
  /\ cache.magic => gpt["cache"] # 0

\* Before the decision the script's mode is the command line's; after it, it is
\* what the command line and the flag ask for.
Asked ==
  /\ pc \in {"off", "poll", "flag"} => mode = override /\ events = {}
  /\ pc \in {"blob", "apply", "umount", "mount", "overlay", "fallback", "remount", "switch"} =>
       mode = IF WantsRw THEN "rw" ELSE "ro"

\* What is mounted, and whether the overlay has failed, at each stage.
Mounted ==
  /\ pc \in {"off", "poll", "flag", "blob", "mount"} => mnt = Unmounted
  /\ pc \in {"apply", "umount"} => mnt = [lower |-> "none", newroot |-> "rw"]
  /\ pc \in {"overlay", "fallback"} => mnt = [lower |-> "ro", newroot |-> "none"]
  /\ pc = "remount" => mnt.newroot = "none"
  /\ pc = "service" => mnt.newroot = "rw"
  /\ pc \in {"off", "poll", "flag", "blob", "apply", "umount", "mount", "overlay"} =>
       "overlayFailed" \notin events
  /\ pc \in {"fallback", "remount"} => "overlayFailed" \in events
  /\ pc \in {"overlay", "fallback", "remount"} => mode # "rw"

\* The lower mount is only in the way when its unmount failed.
Refused == pc = "remount" /\ mnt.lower = "ro" => "lowerBusy" \in events

\* Past the blob stage a valid blob is still there only after a failure.
Accounted ==
  pc \in {"umount", "mount", "overlay", "fallback", "remount", "switch", "running"} /\
  cache.magic /\ cache.ok =>
    events \cap {"blobUnread", "blobMountFailed", "applyFailed"} # {}

\* The applier runs on a staged blob and what it has written stays written.
Written ==
  pc \in {"apply", "service"} =>
    /\ cache.magic
    /\ cache.ok => /\ applied \subseteq SetKeys(cache.set)
                   /\ \A k \in applied : rootfs[k] = cache.set[k]

IInv ==
  /\ TypeOK /\ Probed /\ Stored /\ Asked /\ Mounted
  /\ Refused /\ Accounted /\ Written
  /\ RootAsAsked /\ FallbackBoots

-----------------------------------------------------------------------------
\* The invariant holds before the first power-on.
LEMMA InvInit == Init => IInv
<1> SUFFICES ASSUME Init PROVE IInv
  OBVIOUS
<1>1. TypeOK
  BY SizesAssumption, ValuesAssumption
  DEF Init, TypeOK, Overrides, Stages, InitStages, Events, Unmounted
<1>2. Probed /\ Stored /\ Asked /\ Mounted
  BY DEF Init, Probed, Found, Stored, Asked, Mounted, Unmounted
<1>3. Refused /\ Accounted /\ Written /\ RootAsAsked /\ FallbackBoots
  BY DEF Init, Refused, Accounted, Written, RootAsAsked, FallbackBoots
<1> QED
  BY <1>1, <1>2, <1>3 DEF IInv

\* Every step of the kernel, the script, the applier, the running system and the
\* wizard preserves it, one leaf per action.
LEMMA InvStep == IInv /\ [Next]_vars => IInv'
<1> SUFFICES ASSUME IInv, [Next]_vars PROVE IInv'
  OBVIOUS
<1> USE SizesAssumption, ValuesAssumption, TablesAssumption
<1> USE DEF disk, kernel, script, budget, IInv, TypeOK, Labels, Overrides, Stages, InitStages,
            Events, Probed, Found, Stored, Asked, Mounted, Refused, RootAsAsked,
            FallbackBoots, WantsRw, Unmounted, Accounted, Written
<1>1. CASE ProbeSysfs
  BY <1>1 DEF ProbeSysfs
<1>2. CASE ProbeNode
  BY <1>2 DEF ProbeNode
<1>3. CASE PowerCut
  BY <1>3 DEF PowerCut, Down
<1>4. CASE Reboot
  BY <1>4 DEF Reboot, Down
<1>5. CASE PollFound
  BY <1>5 DEF PollFound, Goto, HasNode
<1>6. CASE PollMiss
  BY <1>6 DEF PollMiss, HasNode
<1>7. CASE PollGiveUp
  BY <1>7 DEF PollGiveUp, Goto, Log, Rescue
<1>8. CASE ModeFromCmdline
  BY <1>8 DEF ModeFromCmdline, Goto
<1>9. CASE ModeFromFlag
  BY <1>9 DEF ModeFromFlag, Goto, HasNode
<1>10. CASE ModeWithoutFlag
  <2>1. CASE NoFault /\ UNCHANGED events /\ (~HasNode("facres") \/ facres # "ext4")
    BY <1>10, <2>1 DEF ModeWithoutFlag, Goto, Log, Fault, NoFault, HasNode
  <2>2. CASE Fault /\ Log("flagUnread")
    BY <1>10, <2>2 DEF ModeWithoutFlag, Goto, Log, Fault, NoFault, HasNode
  <2> QED
    BY <1>10, <2>1, <2>2 DEF ModeWithoutFlag
<1>11. CASE NoBlob
  BY <1>11 DEF NoBlob, Goto, SeesMagic, HasNode
<1>12. CASE BlobUnread
  BY <1>12 DEF BlobUnread, Goto, Log, Fault, SeesMagic, HasNode
<1>13. CASE BlobMount
  BY <1>13 DEF BlobMount, Goto, RoHeld, SeesMagic, HasNode
<1>14. CASE BlobMountFails
  BY <1>14 DEF BlobMountFails, Goto, Log, Fault, SeesMagic, HasNode
<1>15. CASE ApplyDone
  <2>0. /\ pc \in {"apply", "service"} /\ pc' = IF pc = "apply" THEN "umount" ELSE "running"
        /\ ~cache'.magic /\ cache' \in [magic : BOOLEAN, ok : BOOLEAN, set : Payloads]
        /\ UNCHANGED <<gpt, rootfs, flag, facres, kernel, script, budget, mnt, applied, events>>
    BY <1>15 DEF ApplyDone, Goto, AfterApply, Applying
  <2>1. TypeOK'
    BY <2>0
  <2>2. (Probed /\ Stored /\ Asked)'
    BY <2>0
  <2>3. (Mounted /\ Refused)'
    BY <2>0
  <2>4. (Accounted /\ Written)'
    BY <2>0
  <2>5. (RootAsAsked /\ FallbackBoots)'
    BY <2>0
  <2> QED
    BY <2>1, <2>2, <2>3, <2>4, <2>5
<1>16. CASE ApplyFails
  BY <1>16 DEF ApplyFails, Goto, Log, Fault, NoFault, AfterApply, Applying
<1>17. CASE UnmountNewroot
  BY <1>17 DEF UnmountNewroot, Goto
<1>18. CASE UnmountFails
  BY <1>18 DEF UnmountFails, Goto, Log, Rescue, Fault
<1>19. CASE MountDirect
  BY <1>19 DEF MountDirect, Goto, RoHeld
<1>20. CASE MountLower
  BY <1>20 DEF MountLower, Goto, RwHeld
<1>21. CASE MountFails
  BY <1>21 DEF MountFails, Goto, Log, Rescue, Fault, NoFault, RoHeld, RwHeld
<1>22. CASE MountOverlay
  BY <1>22 DEF MountOverlay, Goto
<1>23. CASE OverlayFails
  BY <1>23 DEF OverlayFails, Goto, Log, Fault
<1>24. CASE FallbackUmount
  BY <1>24 DEF FallbackUmount, Goto, Log, Fault, NoFault
<1>25. CASE FallbackMount
  BY <1>25 DEF FallbackMount, Goto, RoHeld
<1>26. CASE FallbackFails
  <2>1. CASE RoHeld /\ NoFault /\ Rescue("fallbackFailed")
    BY <1>26, <2>1 DEF FallbackFails, Goto, Log, Rescue, Fault, NoFault, RoHeld
  <2>2. CASE Fault /\ Rescue("mountFailed")
    BY <1>26, <2>2 DEF FallbackFails, Goto, Log, Rescue, Fault, NoFault, RoHeld
  <2> QED
    BY <1>26, <2>1, <2>2 DEF FallbackFails
<1>27. CASE SwitchRoot
  BY <1>27 DEF SwitchRoot, Goto
<1>28. CASE SwitchFails
  BY <1>28 DEF SwitchFails, Goto, Log, Fault
<1>29. CASE ServiceStart
  BY <1>29 DEF ServiceStart, Goto, Log, RwHeld, SeesMagic, HasNode
<1>30. CASE FormatFacres
  <2>1. TypeOK' /\ Stored'
    BY <1>30 DEF FormatFacres
  <2>2. (Probed /\ Asked /\ Mounted /\ Refused /\ RootAsAsked /\ FallbackBoots)'
    BY <1>30 DEF FormatFacres
  <2>3. Accounted' /\ Written'
    BY <1>30 DEF FormatFacres
  <2> QED
    BY <2>1, <2>2, <2>3
<1>31. CASE FlashOs
  BY <1>31 DEF FlashOs
<1>32. ASSUME NEW o \in Overrides, PowerOn(o) PROVE IInv'
  BY <1>32 DEF PowerOn, Goto
<1>33. ASSUME NEW k \in Keys, ApplyKey(k) PROVE IInv'
  BY <1>33 DEF ApplyKey, Applying, SetKeys
<1>34. ASSUME NEW k \in Keys, NEW v \in Vals, OsWrite(k, v) PROVE IInv'
  BY <1>34 DEF OsWrite, RwHeld
<1>35. ASSUME NEW b \in BOOLEAN, SetFlag(b) PROVE IInv'
  BY <1>35 DEF SetFlag
<1>36. ASSUME NEW p \in Payloads, NEW ok \in BOOLEAN, StageBlob(p, ok) PROVE IInv'
  BY <1>36 DEF StageBlob
<1>37. CASE UNCHANGED vars
  BY <1>37 DEF vars
<1> HIDE DEF IInv
<1> QED
  BY <1>1, <1>2, <1>3, <1>4, <1>5, <1>6, <1>7, <1>8, <1>9, <1>10, <1>11, <1>12, <1>13, <1>14,
     <1>15, <1>16, <1>17, <1>18, <1>19, <1>20, <1>21, <1>22, <1>23, <1>24, <1>25, <1>26,
     <1>27, <1>28, <1>29, <1>30, <1>31, <1>32, <1>33, <1>34, <1>35, <1>36, <1>37
  DEF Next, InitStep, System, Wizard

\* The initial states are initial states of the config channel.
LEMMA ChannelInit == Init => Channel!Init
  BY DEF Init, Channel!Init, InitStages

\* Every step is a step of the config channel, or leaves it alone.
LEMMA ChannelStep == IInv /\ [Next]_vars => [Channel!Next]_(Channel!vars)
<1> SUFFICES ASSUME IInv, [Next]_vars PROVE [Channel!Next]_(Channel!vars)
  OBVIOUS
<1> USE ValuesAssumption
<1> USE DEF disk, kernel, script, budget, IInv, TypeOK, InitStages, Mounted, Written, RwHeld,
            Unmounted, Channel!vars, Channel!Next, Channel!Move, Channel!Successors
<1>1. CASE ProbeSysfs
  BY <1>1 DEF ProbeSysfs
<1>2. CASE ProbeNode
  BY <1>2 DEF ProbeNode
<1>3. CASE PowerCut
  BY <1>3 DEF PowerCut, Down
<1>4. CASE Reboot
  BY <1>4 DEF Reboot, Down
<1>5. CASE PollFound
  BY <1>5 DEF PollFound, Goto, HasNode
<1>6. CASE PollMiss
  BY <1>6 DEF PollMiss, HasNode
<1>7. CASE PollGiveUp
  BY <1>7 DEF PollGiveUp, Goto, Log, Rescue
<1>8. CASE ModeFromCmdline
  BY <1>8 DEF ModeFromCmdline, Goto
<1>9. CASE ModeFromFlag
  BY <1>9 DEF ModeFromFlag, Goto, HasNode
<1>10. CASE ModeWithoutFlag
  BY <1>10 DEF ModeWithoutFlag, Goto, Log, Fault, NoFault, HasNode
<1>11. CASE NoBlob
  BY <1>11 DEF NoBlob, Goto, SeesMagic, HasNode
<1>12. CASE BlobUnread
  BY <1>12 DEF BlobUnread, Goto, Log, Fault, SeesMagic, HasNode
<1>13. CASE BlobMount
  BY <1>13 DEF BlobMount, Goto, RoHeld, SeesMagic, HasNode
<1>14. CASE BlobMountFails
  BY <1>14 DEF BlobMountFails, Goto, Log, Fault, SeesMagic, HasNode
<1>15. CASE ApplyDone
  BY <1>15 DEF ApplyDone, Goto, AfterApply, Applying, SetKeys, Channel!Consume, Channel!Carries
<1>16. CASE ApplyFails
  BY <1>16 DEF ApplyFails, Goto, Log, Fault, NoFault, AfterApply, Applying
<1>17. CASE UnmountNewroot
  BY <1>17 DEF UnmountNewroot, Goto
<1>18. CASE UnmountFails
  BY <1>18 DEF UnmountFails, Goto, Log, Rescue, Fault
<1>19. CASE MountDirect
  BY <1>19 DEF MountDirect, Goto, RoHeld
<1>20. CASE MountLower
  BY <1>20 DEF MountLower, Goto
<1>21. CASE MountFails
  BY <1>21 DEF MountFails, Goto, Log, Rescue, Fault, NoFault, RoHeld
<1>22. CASE MountOverlay
  BY <1>22 DEF MountOverlay, Goto
<1>23. CASE OverlayFails
  BY <1>23 DEF OverlayFails, Goto, Log, Fault
<1>24. CASE FallbackUmount
  BY <1>24 DEF FallbackUmount, Goto, Log, Fault, NoFault
<1>25. CASE FallbackMount
  BY <1>25 DEF FallbackMount, Goto, RoHeld
<1>26. CASE FallbackFails
  BY <1>26 DEF FallbackFails, Goto, Log, Rescue, Fault, NoFault, RoHeld
<1>27. CASE SwitchRoot
  BY <1>27 DEF SwitchRoot, Goto
<1>28. CASE SwitchFails
  BY <1>28 DEF SwitchFails, Goto, Log, Fault
<1>29. CASE ServiceStart
  BY <1>29 DEF ServiceStart, Goto, Log, SeesMagic, HasNode
<1>30. CASE FormatFacres
  BY <1>30 DEF FormatFacres
<1>31. CASE FlashOs
  BY <1>31 DEF FlashOs, Channel!Reflash
<1>32. ASSUME NEW o \in Overrides, PowerOn(o) PROVE [Channel!Next]_(Channel!vars)
  BY <1>32 DEF PowerOn, Goto
<1>33. ASSUME NEW k \in Keys, ApplyKey(k) PROVE [Channel!Next]_(Channel!vars)
  BY <1>33 DEF ApplyKey, Applying, SetKeys, Channel!Apply
<1>34. ASSUME NEW k \in Keys, NEW v \in Vals, OsWrite(k, v) PROVE [Channel!Next]_(Channel!vars)
  BY <1>34 DEF OsWrite, Channel!Maintain
<1>35. ASSUME NEW b \in BOOLEAN, SetFlag(b) PROVE [Channel!Next]_(Channel!vars)
  BY <1>35 DEF SetFlag
<1>36. ASSUME NEW p \in Payloads, NEW ok \in BOOLEAN, StageBlob(p, ok) PROVE [Channel!Next]_(Channel!vars)
  BY <1>36 DEF StageBlob, Channel!Stage
<1>37. CASE UNCHANGED vars
  BY <1>37 DEF vars
<1> HIDE DEF disk, kernel, script, budget, IInv, TypeOK, InitStages, Mounted, Written, RwHeld,
            Unmounted, Channel!vars, Channel!Next, Channel!Move, Channel!Successors
<1> QED
  BY <1>1, <1>2, <1>3, <1>4, <1>5, <1>6, <1>7, <1>8, <1>9, <1>10, <1>11, <1>12, <1>13, <1>14,
     <1>15, <1>16, <1>17, <1>18, <1>19, <1>20, <1>21, <1>22, <1>23, <1>24, <1>25, <1>26,
     <1>27, <1>28, <1>29, <1>30, <1>31, <1>32, <1>33, <1>34, <1>35, <1>36, <1>37
  DEF Next, InitStep, System, Wizard

-----------------------------------------------------------------------------
\* The inductive invariant holds in every reachable state.
THEOREM Invariance == Spec => []IInv
  BY InvInit, InvStep, PTL DEF Spec

\* Types, for every instance: $tries stays within the polling bound.
THEOREM TypeCorrect == Spec => []TypeOK
<1>1. IInv => TypeOK
  BY DEF IInv
<1> QED
  BY <1>1, Invariance, PTL

\* The root handed to switch_root is the one the command line and the facres
\* flag ask for, or the direct-rw fallback of a failed overlay.
THEOREM RootCorrect == Spec => []RootAsAsked
<1>1. IInv => RootAsAsked
  BY DEF IInv
<1> QED
  BY <1>1, Invariance, PTL

\* A failed overlay alone never ends in the rescue shell.
THEOREM FallbackCorrect == Spec => []FallbackBoots
<1>1. IInv => FallbackBoots
  BY DEF IInv
<1> QED
  BY <1>1, Invariance, PTL

\* A valid blob survives a completed boot only after a failure of that boot.
THEOREM BlobCorrect == Spec => []StagedBlobAccountedFor
<1>1. IInv => StagedBlobAccountedFor
  BY DEF IInv, Accounted, StagedBlobAccountedFor
<1> QED
  BY <1>1, Invariance, PTL

\* The boot selector and what surrounds it implement the one-shot config
\* channel: a payload disappears only when the filesystem carries it.
THEOREM Refinement == Spec => ImplementsChannel
  BY ChannelInit, ChannelStep, Invariance, PTL DEF Spec, ImplementsChannel, Channel!Spec

=============================================================================
