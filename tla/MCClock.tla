------------------------------ MODULE MCClock ------------------------------
(***************************************************************************)
(* Instances of Clock for TLC.                                             *)
(***************************************************************************)
EXTENDS Clock

\* The last second of 28 February 2024 and of 2023, and of the morning of 29 February 2028.
TurnsOfTime == {1709164799, 1704067199, 1835438399}

=============================================================================
