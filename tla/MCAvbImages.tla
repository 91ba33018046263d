---------------------------- MODULE MCAvbImages ----------------------------
(***************************************************************************)
(* Small instances of AvbImages: two cells to a block.  An input of three  *)
(* cells, or cut to one, or padded to five, which is too large for the     *)
(* smaller partition; partitions too small for the metadata, of a ragged   *)
(* size, and two that will do.  The partitions are interchangeable.        *)
(***************************************************************************)
EXTENDS AvbImages, TLC

CONSTANTS boot, dtbo

MCParts == {boot, dtbo}

PartSymmetry == Permutations(MCParts)

MCInputs == {<<"1", "0", "1">>}

=============================================================================
