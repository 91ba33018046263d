----------------------------- MODULE MCUbootEnv -----------------------------
(* Small blocks for UbootEnv: the preset on an empty file fills DataSize      *)
(* exactly, so the other entries decide whether an edit fits.                 *)
EXTENDS UbootEnv

e(k, v) == [key |-> k, val |-> v]

MCMacro == [k \in {"slotaboot", "slotbboot", "bootcmd_ab", "slot"} |->
              IF k = "slot" THEN 2 ELSE 3]

\* Good; bad CRC with leftovers behind the end; repeated and malformed entries
\* in a block without an end; an entry that is not ASCII.
MCPanel ==
  {[crc |-> TRUE,  items |-> <<e("slot", 4), e("x", 2), End>>],
   [crc |-> FALSE, items |-> <<e("x", 3), End, e("slot", 4)>>],
   [crc |-> TRUE,  items |-> <<e("x", 2), e(NoKey, 3), e("slotbboot", 4), e("x", 4)>>],
   [crc |-> TRUE,  items |-> <<e("x", 5), e("slot", 2), End>>]}

MCArgLists ==
  {<<e("x", 2)>>, <<e("slot", 3), e("x", 4), e("slot", 2)>>,
   <<e("x", 3), e(NoKey, 2)>>, <<e("x", 5)>>}

MCKeyLists == {<<"x">>, <<"bootcmd_ab", "slot">>}
=============================================================================
