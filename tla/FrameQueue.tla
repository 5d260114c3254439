----------------------------- MODULE FrameQueue -----------------------------
(***************************************************************************)
(* What the receive ring of e1000.c promises its caller: a queue of at     *)
(* most Capacity frames, which e1000_rx_pop takes in the order they came.  *)
(* A frame is lost only when the queue is full, and the card counts it.    *)
(***************************************************************************)
EXTENDS Naturals, Sequences

CONSTANTS Frames, Capacity

VARIABLES waiting, taken, missed

Init == waiting = <<>> /\ taken = <<>> /\ missed = 0

Arrive(f) ==
  /\ Len(waiting) < Capacity
  /\ waiting' = Append(waiting, f)
  /\ UNCHANGED <<taken, missed>>

Miss ==
  /\ Len(waiting) = Capacity
  /\ missed' = missed + 1
  /\ UNCHANGED <<waiting, taken>>

Take ==
  /\ waiting # <<>>
  /\ taken' = Append(taken, Head(waiting))
  /\ waiting' = Tail(waiting)
  /\ UNCHANGED missed

Next == (\E f \in Frames : Arrive(f)) \/ Miss \/ Take

Spec == Init /\ [][Next]_<<waiting, taken, missed>>
=============================================================================
