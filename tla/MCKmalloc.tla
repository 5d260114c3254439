----------------------------- MODULE MCKmalloc -----------------------------
(***************************************************************************)
(* An instance of Kmalloc for TLC: the real header and alignment, a heap   *)
(* that holds at most seven blocks, three of them with a payload.          *)
(***************************************************************************)
EXTENDS Kmalloc

\* One block of 16, blocks of 32, one whose rest is sometimes too small to be
\* split off, and a size that align16 wraps to 0.
MCSizes == {1, 32, 49, 250}

=============================================================================
