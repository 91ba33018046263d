------------------------------ MODULE UbootEnv ------------------------------
(***************************************************************************)
(* The U-Boot environment editor, tools/uboot_env_edit.py: a sequence of   *)
(* its commands on two files in one working directory.                     *)
(*                                                                         *)
(* A file is absent (Missing), of a size other than ENV_BLOCK_SIZE         *)
(* (WrongSize: cut off while it was written, or a payload that does not    *)
(* fit), or a block: whether its stored CRC is right, and the NUL-separated*)
(* items of its payload.  An item is an entry key=val, an entry without    *)
(* '=' (key NoKey), or End, the empty item.  Values are numbers: val       *)
(* stands for a text that makes its entry val bytes long, and the values   *)
(* in Latin are the texts that are not ASCII.                              *)
(***************************************************************************)
EXTENDS Integers, Sequences, FiniteSetsExt

CONSTANTS
  Paths,          \* file names the commands are given
  Keys,           \* variable names
  Vals, Latin,    \* values, and the ones that are not ASCII
  Macro,          \* SLOTABOOT, SLOTBBOOT, BOOTCMD_AB, and the default slot
  Panel,          \* blocks the panel's eMMC may hold
  ArgLists,       \* the key=value arguments modify may be given
  KeyLists,       \* the keys delete may be given
  DataSize,       \* ENV_DATA_SIZE
  MaxCmds, MaxKills,
  NoKey, Missing, WrongSize

End    == [key |-> NoKey, val |-> 0]
Entry  == [key : Keys \cup {NoKey}, val : Vals]
Blocks == [crc : BOOLEAN, items : Seq(Entry \cup {End})]

ASSUME MacroAssumption ==
  /\ DataSize \in Nat /\ Latin \subseteq Vals /\ Vals \subseteq Nat \ {0}
  /\ Macro \in [{"slotaboot", "slotbboot", "bootcmd_ab", "slot"} -> Vals \ Latin]
  /\ DOMAIN Macro \subseteq Keys

ASSUME InputAssumption ==
  /\ Panel \subseteq Blocks /\ ArgLists \subseteq Seq(Entry) /\ KeyLists \subseteq Seq(Keys)
  /\ NoKey \notin Keys /\ Missing # WrongSize
  /\ Missing \notin Blocks /\ WrongSize \notin Blocks
  /\ MaxCmds \in Nat /\ MaxKills \in Nat

VARIABLES
  file,    \* what each path holds
  pc,      \* "idle", or "write" between open(path, "wb") and the write
  job,     \* the command under way: its name, destination, the file it
           \* loaded, its arguments, and the block it is about to write
  rc,      \* how the last command ended
  held,    \* history: what the files held when that command started
  cmds, kills

vars == <<file, pc, job, rc, held, cmds, kills>>

NoJob == [cmd |-> "none", dst |-> "none", was |-> Missing, args |-> <<>>,
          block |-> Missing]

IsBlock(f) == f \notin {Missing, WrongSize}

\* dict assignment: an existing key keeps its place.
Put(d, e) ==
  IF \E i \in DOMAIN d : d[i].key = e.key
  THEN [i \in DOMAIN d |-> IF d[i].key = e.key THEN e ELSE d[i]]
  ELSE Append(d, e)

\* dict.pop with a default.
Pop(d, k) ==
  IF \E i \in DOMAIN d : d[i].key = k
  THEN LET at == CHOOSE i \in DOMAIN d : d[i].key = k
       IN  [i \in 1..(Len(d) - 1) |-> IF i < at THEN d[i] ELSE d[i + 1]]
  ELSE d

\* The loops over the arguments: the dictionary after the first i of them.
PutAll(d, es) ==
  LET dict[i \in 0..Len(es)] == IF i = 0 THEN d ELSE Put(dict[i - 1], es[i])
  IN  dict[Len(es)]

PopAll(d, ks) ==
  LET dict[i \in 0..Len(ks)] == IF i = 0 THEN d ELSE Pop(dict[i - 1], ks[i])
  IN  dict[Len(ks)]

\* Mutant: The walk does not stop at the empty item.
WalkedAll(items) == {i \in DOMAIN items : items[i] # End}

\* The items before the first empty one.
Walked(items) == {i \in DOMAIN items : \A j \in 1..i : items[j] # End}

\* An entry without '=' is skipped.
parse_env(block) ==
  LET items == block.items
      dict[i \in 0..Len(items)] ==
        IF i = 0 THEN <<>>
        ELSE IF i \in Walked(items) /\ items[i].key # NoKey THEN Put(dict[i - 1], items[i])
        ELSE dict[i - 1]
  IN  dict[Len(items)]

\* Bytes of the payload: the entries, the NULs between them and two at the end.
Payload(d) ==
  LET bytes[i \in 0..Len(d)] == IF i = 0 THEN 0 ELSE bytes[i - 1] + d[i].val + 1
  IN  IF d = <<>> THEN 2 ELSE bytes[Len(d)] + 1

Encodes(d) == \A i \in DOMAIN d : d[i].val \notin Latin

\* Mutant: The last NUL is not counted.
FitsOne(d) == Payload(d) <= DataSize + 1

Fits(d) == Payload(d) <= DataSize

\* ljust leaves a payload that is too long as it is; the items after the last
\* entry are all empty.
Packed(d) ==
  IF Payload(d) > DataSize THEN WrongSize
  ELSE [crc |-> TRUE, items |-> Append(d, End)]

verify_block(f) ==
  /\ IsBlock(f)
  /\ f.crc
  /\ \A i \in Walked(f.items) : f.items[i].key # NoKey /\ f.items[i].val \notin Latin

-----------------------------------------------------------------------------

Init ==
  /\ file \in [Paths -> Panel \cup {Missing}]
  /\ pc = "idle" /\ job = NoJob /\ rc = 0 /\ cmds = 0 /\ kills = 0
  /\ held = file

Starts ==
  /\ pc = "idle" /\ cmds < MaxCmds /\ cmds' = cmds + 1
  /\ held' = file
  /\ UNCHANGED kills

Return(n) == rc' = n /\ job' = NoJob /\ UNCHANGED <<file, pc>>

\* open(path, "wb") empties the file; the block goes out in the next step.
Open(j) ==
  /\ job' = j
  /\ file' = [file EXCEPT ![j.dst] = WrongSize]
  /\ pc' = "write"
  /\ UNCHANGED rc

\* Mutant: The file is opened before the block is serialized.
SaveOpened(cmd, src, dst, args, d) ==
  IF Encodes(d) /\ Fits(d)
    THEN Open([cmd |-> cmd, dst |-> dst, was |-> file[src], args |-> args,
               block |-> Packed(d)])
    ELSE /\ file' = [file EXCEPT ![dst] = WrongSize]
         /\ rc' = 1 /\ job' = NoJob /\ UNCHANGED pc

\* _save: serialize_env raises before the file is opened.
Save(cmd, src, dst, args, d) ==
  IF Encodes(d) /\ Fits(d)
    THEN Open([cmd |-> cmd, dst |-> dst, was |-> file[src], args |-> args,
               block |-> Packed(d)])
    ELSE Return(1)

cmd_modify(src, dst, kvs) ==
  /\ Starts
  /\ \/ ~IsBlock(file[src]) /\ Return(1)
     \/ IsBlock(file[src]) /\ (\E i \in DOMAIN kvs : kvs[i].key = NoKey) /\ Return(2)
     \/ /\ IsBlock(file[src])
        /\ \A i \in DOMAIN kvs : kvs[i].key # NoKey
        /\ Save("modify", src, dst, kvs, PutAll(parse_env(file[src]), kvs))

cmd_delete(src, dst, keys) ==
  /\ Starts
  /\ \/ ~IsBlock(file[src]) /\ Return(1)
     \/ /\ IsBlock(file[src])
        /\ Save("delete", src, dst, keys, PopAll(parse_env(file[src]), keys))

\* The entries whose texts the script composes at start-up.
Slots == [i \in 1..3 |-> LET k == <<"slotaboot", "slotbboot", "bootcmd_ab">>[i]
                         IN  [key |-> k, val |-> Macro[k]]]

Preset(d) ==
  LET new == PutAll(d, Slots)
  IN  IF \E i \in DOMAIN new : new[i].key = "slot" THEN new
      ELSE Append(new, [key |-> "slot", val |-> Macro["slot"]])

cmd_preset_symmetric(src, dst) ==
  /\ Starts
  /\ \/ file[src] = WrongSize /\ Return(1)
     \/ /\ file[src] # WrongSize
        /\ Save("preset", src, dst, <<>>,
                Preset(IF file[src] = Missing THEN <<>> ELSE parse_env(file[src])))

\* Mutant: What dd returns is written without a look at its size.
CmdReadAnySize(dst) ==
  /\ Starts
  /\ \/ \E n \in {1, 255} : Return(n)
     \/ \E b \in Panel \cup {WrongSize} :
          Open([NoJob EXCEPT !.cmd = "read", !.dst = dst, !.block = b])

\* ssh may fail, or dd return less than a block: nothing is written.  What
\* the panel holds is written as it is and verified afterwards.
cmd_read(dst) ==
  /\ Starts
  /\ \/ \E n \in {1, 255} : Return(n)
     \/ \E b \in Panel : Open([NoJob EXCEPT !.cmd = "read", !.dst = dst, !.block = b])

cmd_show(src) ==
  /\ Starts
  /\ Return(IF IsBlock(file[src]) THEN 0 ELSE 1)

cmd_verify(src) ==
  /\ Starts
  /\ LET has(k) == \E i \in DOMAIN parse_env(file[src]) : parse_env(file[src])[i].key = k
     IN  Return(IF verify_block(file[src]) /\ has("slotaboot") /\ has("slotbboot")
                THEN 0 ELSE 1)

\* f.write, and the return code of the command.
Write ==
  /\ pc = "write"
  /\ file' = [file EXCEPT ![job.dst] = job.block]
  /\ rc' = IF job.cmd = "read" /\ ~verify_block(job.block) THEN 2 ELSE 0
  /\ pc' = "idle" /\ job' = NoJob
  /\ UNCHANGED <<held, cmds, kills>>

\* The disk is full, or the process is killed, between open and write.
Kill ==
  /\ pc = "write" /\ kills < MaxKills
  /\ kills' = kills + 1
  /\ pc' = "idle" /\ job' = NoJob /\ rc' \in {1, 137}
  /\ UNCHANGED <<file, held, cmds>>

Next ==
  \/ \E src, dst \in Paths, kvs \in ArgLists : cmd_modify(src, dst, kvs)
  \/ \E src, dst \in Paths, keys \in KeyLists : cmd_delete(src, dst, keys)
  \/ \E src, dst \in Paths : cmd_preset_symmetric(src, dst)
  \/ \E p \in Paths : cmd_read(p) \/ cmd_show(p) \/ cmd_verify(p)
  \/ Write \/ Kill

Spec == Init /\ [][Next]_vars

-----------------------------------------------------------------------------

\* What a block means to U-Boot: of several entries for a name, the last one.
Meaning(f) ==
  IF ~IsBlock(f) THEN << >>
  ELSE LET at(k) == {i \in DOMAIN f.items :
                       f.items[i].key = k /\ \A j \in 1..i : f.items[j] # End}
       IN  [k \in {k \in Keys : at(k) # {}} |-> f.items[Max(at(k))].val]

\* What the user asked for: the old meaning with the arguments applied.
Asked(j) ==
  LET old == Meaning(j.was)
      given == [k \in {j.args[i].key : i \in DOMAIN j.args} |->
                  j.args[Max({i \in DOMAIN j.args : j.args[i].key = k})].val]
      slots == [k \in DOMAIN Macro \ (DOMAIN old \cap {"slot"}) |-> Macro[k]]
      over(f, g) == [k \in DOMAIN f \cup DOMAIN g |->
                       IF k \in DOMAIN g THEN g[k] ELSE f[k]]
  IN  CASE j.cmd = "modify" -> over(old, given)
        [] j.cmd = "preset" -> over(old, slots)
        [] j.cmd = "delete" -> [k \in DOMAIN old \ {j.args[i] : i \in DOMAIN j.args} |-> old[k]]
        [] OTHER            -> Meaning(j.block)

\* Every file is of a kind the program can leave behind, what is about to be
\* written is a whole block, every return code one that a command can end with.
TypeOK ==
  /\ file \in [Paths -> Blocks \cup {Missing, WrongSize}]
  /\ held \in [Paths -> Blocks \cup {Missing, WrongSize}]
  /\ pc \in {"idle", "write"}
  /\ job.cmd \in {"none", "modify", "delete", "preset", "read"}
  /\ pc = "write" => job.block \in Blocks
  /\ rc \in {0, 1, 2, 137, 255} /\ cmds \in 0..MaxCmds /\ kills \in 0..MaxKills

\* What is written means what was loaded, changed as the arguments say and in
\* nothing else, although blocks may hold repeated names, malformed entries and
\* leftovers behind the end (parse_env, the edit loops and serialize_env).
EditMeans ==
  [][\A p \in Paths :
       IsBlock(file'[p]) /\ file'[p] # file[p] => Meaning(file'[p]) = Asked(job)]_vars

\* A block an edit is about to leave behind passes verify_block, so a full
\* block, an entry that cannot be encoded or a malformed one never gets out;
\* _save computes the verdict only to print it.
EditVerifies ==
  pc = "write" /\ job.cmd # "read" => verify_block(job.block)

\* After a command that failed every file is what it was before it, but for two
\* cases: cmd_read returns 2 when the block it has just written over its
\* destination does not verify, and a kill or a full disk after open loses what
\* the destination held. An edit that cannot be serialized loses nothing
\* (serialize_env runs before open).
FailureKeeps ==
  pc = "idle" /\ rc # 0 =>
    \A p \in Paths :
      \/ file[p] = held[p]
      \/ rc = 2 /\ file[p] \in Panel /\ ~verify_block(file[p])
      \/ rc \in {1, 137} /\ kills > 0 /\ file[p] = WrongSize
=============================================================================
