------------------------------ MODULE MCKvxfs ------------------------------
(***************************************************************************)
(* Instances of Kvxfs for TLC.                                             *)
(***************************************************************************)
EXTENDS Kvxfs, TLC

\* kvx_meta_t is packed: 16 bytes of header, then 76 bytes for each entry.
ByteSector(e, offset) == (16 + 76 * e + offset) \div 512

\* Only the header's sector and those of the Slots in use are modelled, in
\* their order on the disk.
SectorsUsed == {0} \cup {ByteSector(e, b) : e \in Slots, b \in {0, 64, 68, 72}}
Rank(s) == Cardinality({t \in SectorsUsed : t < s})

MCMetaSectors == Cardinality(SectorsUsed)
MCPathSec  == [e \in Slots |-> Rank(ByteSector(e, 0))]
MCStartSec == [e \in Slots |-> Rank(ByteSector(e, 64))]
MCSizeSec  == [e \in Slots |-> Rank(ByteSector(e, 68))]
MCFlagSec  == [e \in Slots |-> Rank(ByteSector(e, 72))]

\* The four bytes that hold /d or /a are not cut by a sector boundary, and in
\* the whole table only two entries have their start and size in two sectors.
ASSUME PathsUncut == \A e \in Slots : ByteSector(e, 0) = ByteSector(e, 3)
ASSUME StartsCut ==
  {e \in 0..255 : ByteSector(e, 64) # ByteSector(e, 68)} = {73, 201}

\* Entry 0 is whole; the boundary that cuts entry 73 lies between its start
\* and its size.
TwoSlots == {0, 73}

TwoPaths == {<<"d">>, <<"a">>}

WordSymmetry == Permutations(Words)

=============================================================================
