--------------------------- MODULE MCBuildPipeline ---------------------------
(***************************************************************************)
(* Command lines for BuildPipeline: the ones of BUILDING.md, section 6, of *)
(* README.md's quick start for both targets, and an oversized rootfs.      *)
(***************************************************************************)
EXTENDS BuildPipeline

CONSTANTS drv, dts

\* A driver both targets' series create, a dts of the tc8's; version 2 splits or
\* joins patches.
MCCreates ==
  [tc8 |-> <<<<{drv}, {dts}>>, <<{drv, dts}>>>>,
   c60 |-> <<<<{drv}>>, <<{}, {drv}>>>>]

Plain(t) == [ReleaseRun EXCEPT !.target = t]

MCOptions ==
  { Plain("tc8"),
    Plain("c60"),
    [Plain("tc8") EXCEPT !.profiles = {"kiosk", "bare"}, !.noRamdisk = TRUE],
    [Plain("tc8") EXCEPT !.skipRootfs = TRUE],
    [Plain("tc8") EXCEPT !.profiles = {"kiosk", "bare"}, !.skipRootfs = TRUE, !.skipKernel = TRUE],
    [Plain("c60") EXCEPT !.profiles = {"bare"}, !.size = 4096],
    [Plain("tc8") EXCEPT !.dir = TRUE] }

=============================================================================
