----------------------------- MODULE MCVfsFiles -----------------------------
(***************************************************************************)
(* Instances of VfsFiles for TLC.  As in the code, there are fewer open    *)
(* files than the descriptors of both back ends together, and fewer bytes  *)
(* in the pool than the files may ask for.                                 *)
(***************************************************************************)
EXTENDS VfsFiles, TLC

CONSTANTS a, b

MCNodes == 0..1
MCFds   == 0..1
OneSlot == {0}
MCToyFds == {0}
TwoPaths == {a, b}
None == {}
\* More files than the table takes, the first over two sectors; no image.
File(p, off, size) == [name |-> p, off |-> off, size |-> size]
ToyImages == {[magic |-> m, count |-> c, table |-> <<File(a, 1, 2), File(b, 3, 1)>>] :
                m \in BOOLEAN, c \in {-1, 2}}
ByteSymmetry == Permutations(Bytes)
Uncut == [p \in Paths |-> p]

=============================================================================
