--------------------------- MODULE MCBootSelector ---------------------------
(***************************************************************************)
(* Small instances of BootSelector.  Four partitions: cache and facres     *)
(* before the root, as in the stock GPT; tables without a facres, without  *)
(* a cache (the legacy flat layout) and without a root are included.       *)
(***************************************************************************)
EXTENDS BootSelector, TLC

CONSTANTS k1, k2

MCKeys == {k1, k2}

MCTables ==
  { [root |-> 4, facres |-> 3, cache |-> 2],
    [root |-> 3, facres |-> 0, cache |-> 1],
    [root |-> 2, facres |-> 1, cache |-> 0],
    [root |-> 0, facres |-> 2, cache |-> 1] }

\* One payload for both keys, one that leaves a key alone.
MCPayloads == {(k1 :> "new" @@ k2 :> "new"), (k1 :> "baked" @@ k2 :> Omit)}

=============================================================================
