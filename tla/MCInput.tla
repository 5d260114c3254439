------------------------------ MODULE MCInput ------------------------------
(***************************************************************************)
(* An instance of Input for TLC: three key strokes, so that a ring of      *)
(* three slots overflows; one stroke and one packet; or one stroke, for a  *)
(* program to run, and three packets, so that the handler comes round a    *)
(* queue of two slots while an update reads it.                            *)
(***************************************************************************)
EXTENDS Input

MCBound(strokes, packets, polling) ==
  \/ strokes <= 3 /\ packets = 0
  \/ strokes <= 1 /\ packets <= 1
  \/ strokes <= 1 /\ packets <= 3 /\ ~polling

=============================================================================
