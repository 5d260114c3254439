------------------------------ MODULE RamFiles ------------------------------
(***************************************************************************)
(* What a memory file system promises: files are sequences of bytes, an    *)
(* open file is a path and a position in it, and an operation changes no   *)
(* file but its own.  Writing past the end of a file leaves whatever was   *)
(* there in between.                                                       *)
(***************************************************************************)
EXTENDS Integers, Sequences

CONSTANTS Paths, Handles, Absent, Closed, Writes

VARIABLES
  content, \* the bytes of each path's file, or Absent
  at       \* the path and position of each open handle, or Closed

vars == <<content, at>>

Init ==
  /\ content = [p \in Paths |-> Absent]
  /\ at = [h \in Handles |-> Closed]

Exists(p) == content[p] # Absent

Set(p, c) == content' = [content EXCEPT ![p] = c]

\* Opening for writing may create the file, and may fail after it did.
Create(p) == ~Exists(p) /\ Set(p, <<>>)

Open(p, h) ==
  /\ at[h] = Closed
  /\ at' = [at EXCEPT ![h] = [path |-> p, pos |-> 0]]
  /\ Create(p) \/ (Exists(p) /\ UNCHANGED content)

Close(h) == at' = [at EXCEPT ![h] = Closed] /\ UNCHANGED content

Advance(h) ==
  /\ at[h] # Closed
  /\ \E pos \in at[h].pos .. Len(content[at[h].path]) :
       at' = [at EXCEPT ![h].pos = pos]
  /\ UNCHANGED content

\* The old bytes stay outside the ones written; those of a gap are any.
Overwrites(old, new, pos, s) ==
  /\ Len(new) = IF pos + Len(s) > Len(old) THEN pos + Len(s) ELSE Len(old)
  /\ \A i \in 1..Len(s) : new[pos + i] = s[i]
  /\ \A i \in 1..Len(old) : i \notin (pos + 1)..(pos + Len(s)) => new[i] = old[i]

Write(h, s) ==
  /\ at[h] # Closed
  /\ at' = [at EXCEPT ![h].pos = @ + Len(s)]
  /\ LET p == at[h].path
     IN  /\ Overwrites(content[p], content'[p], at[h].pos, s)
         /\ Set(p, content'[p])

\* The file holds what was given, or nothing if there was no room: <<>> is one
\* of the Writes.
WriteAll(p) == content'[p] \in Writes /\ Set(p, content'[p])

\* Open handles follow the file.
Rename(p, q) ==
  /\ Exists(p) /\ ~Exists(q)
  /\ content' = [content EXCEPT ![q] = content[p], ![p] = Absent]
  /\ at' = [h \in Handles |-> IF at[h] # Closed /\ at[h].path = p
                              THEN [at[h] EXCEPT !.path = q] ELSE at[h]]

Next ==
  \/ UNCHANGED at /\ \E p \in Paths : Create(p) \/ WriteAll(p)
  \/ \E p, q \in Paths : Rename(p, q)
  \/ \E h \in Handles : \/ Close(h)
                        \/ Advance(h)
                        \/ \E p \in Paths : Open(p, h)
                        \/ \E s \in Writes : Write(h, s)

Spec == Init /\ [][Next]_vars

=============================================================================
