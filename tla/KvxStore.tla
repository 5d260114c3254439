------------------------------ MODULE KvxStore ------------------------------
(***************************************************************************)
(* What KVXFS promises about one disk: every slot of the table holds an    *)
(* object (a file with its content, a directory, or nothing), the machine  *)
(* works on a cache of the slots, and a slot on the disk only ever takes   *)
(* the object the cache holds for it.  Whatever the power loss or the      *)
(* failed write, a slot keeps its old object or has its new one; only the  *)
(* slots that are Cut, which the disk cannot take in one piece, may be     *)
(* left Mixed, and no other slot is damaged by that.  Once a format has    *)
(* been cut short the promise is off until a format completes.             *)
(***************************************************************************)
CONSTANTS Slots, Cut, Absent, Mixed

VARIABLES
  store, \* what the disk holds, slot by slot
  cache, \* what the mounted file system holds, slot by slot
  lost   \* a format was cut short

vars == <<store, cache, lost>>

AllAbsent == [e \in Slots |-> Absent]

Init ==
  /\ store = AllAbsent
  /\ cache = AllAbsent
  /\ lost = FALSE

\* Some slots reach the disk, some cut ones in part.
Flushed(S, T) == [e \in Slots |-> IF e \in S THEN cache[e]
                                 ELSE IF e \in T THEN Mixed ELSE store[e]]

\* A call changes at most one slot of the cache, and a sector write takes the
\* slots of that sector to the disk.
Work ==
  /\ \E S \in SUBSET Slots, T \in SUBSET Cut : store' = Flushed(S, T)
  /\ \E e \in Slots : \A f \in Slots \ {e} : cache'[f] = cache[f]
  /\ lost' = lost

\* The cache is gone (power loss, or the start of a format) ...
Drop ==
  /\ cache' = AllAbsent
  /\ UNCHANGED <<store, lost>>

\* ... and is read back from the disk.
Mount ==
  /\ cache' = store
  /\ UNCHANGED <<store, lost>>

FormatCutShort == ~lost /\ lost' /\ cache = AllAbsent
Unreliable     == lost /\ lost'
FormatDone     == lost /\ ~lost' /\ store' = AllAbsent /\ cache' = AllAbsent

Next ==
  \/ ~lost /\ (Work \/ Drop \/ Mount \/ FormatCutShort)
  \/ Unreliable
  \/ FormatDone

Spec == Init /\ [][Next]_vars

=============================================================================
