---------------------------- MODULE MCBootImages ----------------------------
(* Sizes around the alignments for BootImages.                                *)
EXTENDS BootImages

MiB == 1048576

\* One byte, a page and its neighbours, today's kernel (in which the TC8's
\* ramdisk would lie), the largest that fits, one that does not.
MCKernelSizes == {1, 2047, 2048, 2049, 24 * MiB, 47 * MiB, 53 * MiB}
=============================================================================
