---------------------------- MODULE MCUbootWatch ----------------------------
(* A boot log that is longer than buf may grow, for UbootWatch. Read in one   *)
(* piece, its banner survives the trim unless the panel has booted on.        *)
EXTENDS UbootWatch

MCBootLog == <<"T", "T", "T", "B1", "B2", "T">>
=============================================================================
