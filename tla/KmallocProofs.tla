---------------------------- MODULE KmallocProofs ----------------------------
(***************************************************************************)
(* Proofs about the kernel heap, for every heap size, header size and      *)
(* alignment, and every set of sizes.                                      *)
(*                                                                         *)
(* The invariant describes the list in both directions, says that no two   *)
(* neighbours are both free, and that a header off the list is marked free *)
(* (so that kfree refuses it).  Splitting and merging are shown to keep    *)
(* each part for any headers h and any list, whatever the rest of the      *)
(* state.                                                                  *)
(***************************************************************************)
EXTENDS Kmalloc, FiniteSetTheorems, WellFoundedInduction, TLAPS

-----------------------------------------------------------------------------
(* The list of blocks.                                                     *)

Header == [size : Nat, free : BOOLEAN, next : Addr \cup {Null}, prev : Addr \cup {Null}]

Typed(h, list) ==
  /\ h \in [DOMAIN h -> Header]
  /\ DOMAIN h \subseteq Addr
  /\ list \subseteq DOMAIN h
  /\ Head \in list

\* Each block ends where the next begins, and the next one points back.
Forward(h, list) ==
  \A b \in list :
    IF h[b].next = Null THEN End(h, b) = HeapSize
    ELSE /\ h[b].next \in list
         /\ End(h, b) = h[b].next
         /\ h[h[b].next].prev = b

Backward(h, list) ==
  \A b \in list :
    IF b = Head THEN h[b].prev = Null
    ELSE h[b].prev \in list /\ h[h[b].prev].next = b

Ordered(h, list) == \A b, c \in list : b < c => End(h, b) <= c

\* A header off the list is marked free.
StaleFree(h, list) == \A a \in DOMAIN h \ list : h[a].free

\* Only block x may be free and followed by a free block.
Separate(h, list, x) ==
  \A b \in list \ {x} : h[b].free /\ h[b].next # Null => ~h[h[b].next].free

Linked(h, list) ==
  /\ Typed(h, list)
  /\ Forward(h, list)
  /\ Backward(h, list)
  /\ Ordered(h, list)
  /\ StaleFree(h, list)

\* Two states of the headers agree on which blocks of a list are in use and on
\* their sizes.
SameInUse(h, g, list) ==
  \A b \in list : /\ g[b].free = h[b].free
                  /\ ~h[b].free => g[b].size = h[b].size

-----------------------------------------------------------------------------
(* Facts about blocks.                                                     *)

LEMMA HeaderOf ==
  ASSUME NEW h, NEW list, Typed(h, list), NEW b \in DOMAIN h
  PROVE  /\ h[b] \in Header /\ b \in Addr /\ b \in Nat /\ b # Null /\ b < HeapSize
         /\ h[b].size \in Nat /\ h[b].free \in BOOLEAN
         /\ h[b].next \in Addr \cup {Null} /\ h[b].prev \in Addr \cup {Null}
         /\ End(h, b) \in Nat /\ b < End(h, b)
  <1>1. h[b] \in Header /\ b \in Addr
    BY DEF Typed
  <1>2. b \in Nat /\ b # Null /\ b < HeapSize
    BY <1>1, HeapAssumption DEF Addr, Null
  <1>3. h[b].size \in Nat /\ h[b].free \in BOOLEAN
        /\ h[b].next \in Addr \cup {Null} /\ h[b].prev \in Addr \cup {Null}
    BY <1>1 DEF Header
  <1>4. End(h, b) \in Nat /\ b < End(h, b)
    BY <1>2, <1>3, HeapAssumption DEF End
  <1> QED  BY <1>1, <1>2, <1>3, <1>4

LEMMA NullIsNoAddress == Null \notin Addr /\ Null \in Int
  BY DEF Null, Addr

\* The next block lies after, the previous one before.
LEMMA NextIsAfter ==
  ASSUME NEW h, NEW list, Linked(h, list), NEW b \in list, h[b].next # Null
  PROVE  /\ h[b].next \in list /\ b < h[b].next /\ h[b].next # Head
         /\ h[h[b].next].prev = b
         /\ \A c \in list : c < h[b].next => c <= b
  <1>1. h[b].next \in list /\ End(h, b) = h[b].next /\ h[h[b].next].prev = b
    BY DEF Linked, Forward
  <1>2. b \in Nat /\ b < h[b].next /\ h[b].next \in Nat
    BY <1>1, HeaderOf DEF Linked, Typed
  <1>3. ASSUME NEW c \in list, c < h[b].next PROVE c <= b
    <2>1. c \in Nat
      BY HeaderOf DEF Linked, Typed
    <2>2. b < c => h[b].next <= c
      BY <1>1 DEF Linked, Ordered
    <2> QED  BY <1>2, <1>3, <2>1, <2>2
  <1> QED  BY <1>1, <1>2, <1>3 DEF Head

LEMMA PrevIsBefore ==
  ASSUME NEW h, NEW list, Linked(h, list), NEW b \in list, h[b].prev # Null
  PROVE  h[b].prev \in list /\ h[b].prev < b /\ h[h[b].prev].next = b
  <1>1. h[b].prev \in list /\ h[h[b].prev].next = b
    BY DEF Linked, Backward
  <1>2. b # Null
    BY HeaderOf DEF Linked, Typed
  <1> QED  BY <1>1, <1>2, NextIsAfter

\* Only one block is followed by a given block.
LEMMA NextIsInjective ==
  ASSUME NEW h, NEW list, Linked(h, list), NEW b \in list, NEW c \in list,
         h[b].next # Null, h[b].next = h[c].next
  PROVE  b = c
  BY NextIsAfter

\* Every block ends inside the heap.
LEMMA EndInHeap ==
  ASSUME NEW h, NEW list, Linked(h, list), NEW b \in list
  PROVE  End(h, b) <= HeapSize
  <1>1. CASE h[b].next = Null
    BY <1>1, HeapAssumption DEF Linked, Forward
  <1>2. CASE h[b].next # Null
    <2>1. h[b].next \in DOMAIN h /\ End(h, b) = h[b].next
      BY <1>2 DEF Linked, Forward, Typed
    <2> QED  BY <2>1, HeaderOf, HeapAssumption DEF Linked
  <1> QED  BY <1>1, <1>2

-----------------------------------------------------------------------------
(* Marking a block, and forgetting headers that were overwritten.          *)

\* The headers g are h but for the mark of block b.
Marked(h, g, b) ==
  /\ g \in [DOMAIN h -> Header]
  /\ \A a \in DOMAIN h \ {b} : g[a] = h[a]
  /\ g[b].size = h[b].size /\ g[b].next = h[b].next /\ g[b].prev = h[b].prev

LEMMA MarkKeepsLinks ==
  ASSUME NEW h, NEW list, Linked(h, list), NEW b \in list, NEW g, Marked(h, g, b)
  PROVE  /\ Linked(g, list)
         /\ \A c \in list : g[c].size = h[c].size /\ g[c].next = h[c].next
                            /\ g[c].prev = h[c].prev
         /\ \A c \in list \ {b} : g[c].free = h[c].free
  <1>1. /\ DOMAIN g = DOMAIN h /\ g \in [DOMAIN g -> Header]
        /\ \A a \in DOMAIN h \ {b} : g[a] = h[a]
    BY DEF Marked
  <1>6. \A c \in list : g[c].size = h[c].size /\ g[c].next = h[c].next
                        /\ g[c].prev = h[c].prev
    BY <1>1 DEF Linked, Typed, Marked
  <1>7. \A c \in list : End(g, c) = End(h, c)
    BY <1>6 DEF End
  <1>8. Typed(g, list)
    BY <1>1 DEF Linked, Typed
  <1>9. Forward(g, list)
    BY <1>6, <1>7 DEF Linked, Forward
  <1>10. Backward(g, list)
    BY <1>6 DEF Linked, Backward
  <1>11. Ordered(g, list)
    BY <1>7 DEF Linked, Ordered
  <1>12. StaleFree(g, list)
    BY <1>1 DEF Linked, StaleFree
  <1>13. \A c \in list \ {b} : g[c].free = h[c].free
    BY <1>1 DEF Linked, Typed
  <1>14. Linked(g, list)
    BY <1>8, <1>9, <1>10, <1>11, <1>12 DEF Linked
  <1> QED  BY <1>6, <1>13, <1>14

\* The headers on the list are never overwritten.
LEMMA InMemoryKeepsLinks ==
  ASSUME NEW h, NEW list, Linked(h, list)
  PROVE  /\ Linked(InMemory(h, list), list)
         /\ \A b \in list : InMemory(h, list)[b] = h[b]
         /\ \A x : Separate(h, list, x) => Separate(InMemory(h, list), list, x)
  <1> DEFINE D == {a \in DOMAIN h : a \in list \/ Intact(h, list, a)}
             g == InMemory(h, list)
  <1>1. list \subseteq D /\ D \subseteq DOMAIN h
    BY DEF Linked, Typed
  <1>2. g = [a \in D |-> h[a]]
    BY DEF InMemory, Restrict
  <1> HIDE DEF D
  <1>3. DOMAIN g = D /\ \A a \in D : g[a] = h[a]
    BY <1>2
  <1> HIDE DEF g
  <1>4. \A b \in list : g[b] = h[b]
    BY <1>1, <1>3
  <1>5. \A b \in list : End(g, b) = End(h, b)
    BY <1>4 DEF End
  <1>6. Typed(g, list)
    <2>1. g \in [DOMAIN g -> Header]
      BY <1>1, <1>2, <1>3 DEF Linked, Typed
    <2> QED  BY <1>1, <1>3, <2>1 DEF Linked, Typed
  <1>7. Forward(g, list)
    BY <1>4, <1>5 DEF Linked, Forward
  <1>8. Backward(g, list)
    BY <1>4 DEF Linked, Backward
  <1>9. Ordered(g, list) /\ StaleFree(g, list)
    BY <1>1, <1>3, <1>5 DEF Linked, Ordered, StaleFree
  <1>10. ASSUME NEW x, Separate(h, list, x) PROVE Separate(g, list, x)
    <2>1. \A b \in list : h[b].next # Null => h[b].next \in list
      BY DEF Linked, Forward
    <2> QED  BY <1>4, <1>10, <2>1 DEF Separate
  <1> QED  BY <1>4, <1>6, <1>7, <1>8, <1>9, <1>10 DEF Linked, g

-----------------------------------------------------------------------------
(* Splitting a block.                                                      *)

\* A block is split between its payload's want bytes and a free remainder.
LEMMA SplitKeepsLinks ==
  ASSUME NEW h, NEW list, Linked(h, list), NEW b \in list, h[b].free,
         NEW want \in Nat, want <= h[b].size,
         NEW g, g = SplitBlock(h, b, want),
         NEW all, all = list \cup ({g[b].next} \ {Null})
  PROVE  /\ Linked(g, all)
         /\ g[b].free /\ want <= g[b].size
         /\ \A c \in list \ {b} : g[c].free = h[c].free /\ g[c].size = h[c].size
                                  /\ g[c].next = h[c].next
         /\ g[b].next = h[b].next
            \/ /\ g[b].next \notin list /\ all = list \cup {g[b].next}
               /\ g[g[b].next].free /\ g[g[b].next].next = h[b].next
  <1>1. CASE h[b].size <= want + Hdr + Align
    <2>1. g = h
      BY <1>1 DEF SplitBlock
    <2>2. all = list
      BY <2>1 DEF Linked, Forward
    <2> QED  BY <2>1, <2>2
  <1>2. CASE ~(h[b].size <= want + Hdr + Align)
    <2> DEFINE nb == Payload(b) + want
               nx == h[b].next
               rest == [size |-> h[b].size - want - Hdr, free |-> TRUE,
                        next |-> nx, prev |-> b]
    <2>1. /\ h[b].size \in Nat /\ b \in Nat /\ b \in Addr /\ b # Null /\ h[b] \in Header
          /\ nx \in Addr \cup {Null}
      BY HeaderOf DEF Linked, Typed
    <2>2. nb \in Nat /\ b < nb /\ nb < End(h, b) /\ h[b].size - want - Hdr \in Nat
      BY <1>2, <2>1, HeapAssumption DEF Payload, End
    <2>3. nb \in Addr /\ nb # Null
      <3>1. End(h, b) \in Nat /\ End(h, b) <= HeapSize
        BY EndInHeap, HeaderOf DEF Linked, Typed
      <3> HIDE DEF nb
      <3> QED  BY <2>1, <2>2, <3>1, HeapAssumption DEF Addr, Null
    <2>4. nb \notin list
      BY <2>1, <2>2, HeapAssumption DEF Linked, Ordered, End
    <2>5. nx # b /\ nx # nb /\ (nx # Null => nx \in list /\ h[nx].prev = b)
      BY <2>1, <2>3, <2>4, NextIsAfter
    <2>6. rest \in Header
      BY <2>1, <2>2 DEF Header
    <2>7. g = [a \in DOMAIN h \cup {nb} |->
                 CASE a = nb -> rest
                   [] a = b  -> [h[a] EXCEPT !.size = want, !.next = nb]
                   [] a = nx -> [h[a] EXCEPT !.prev = nb]
                   [] OTHER  -> h[a]]
      BY <1>2, Zenon DEF SplitBlock
    <2> HIDE DEF nb, nx, rest
    <2>27. b # nb
      BY <2>1, <2>2
    <2>8. DOMAIN g = DOMAIN h \cup {nb} /\ g[nb] = rest
      <3>1. DOMAIN g = DOMAIN h \cup {nb}
        BY <2>7, Zenon
      <3>2. nb \in DOMAIN h \cup {nb}
        OBVIOUS
      <3>3. g[nb] = rest
        BY <2>5, <2>7, <2>27, <3>2, ZenonT(60)
      <3> QED  BY <3>1, <3>3
    <2>9. g[b] = [h[b] EXCEPT !.size = want, !.next = nb]
      <3>1. b \in DOMAIN h \cup {nb}
        BY DEF Linked, Typed
      <3> QED  BY <2>5, <2>7, <2>27, <3>1, Zenon
    <2>10. nx # Null => g[nx] = [h[nx] EXCEPT !.prev = nb]
      <3>1. nx # Null => nx \in DOMAIN h \cup {nb}
        BY <2>5 DEF Linked, Typed
      <3> QED  BY <2>5, <2>7, <2>27, <3>1, Zenon
    <2>11. \A a \in DOMAIN h \ {b, nx, nb} : g[a] = h[a]
      BY <2>7, Zenon
    <2>12. /\ g[b] \in Header /\ g[b].free = h[b].free /\ g[b].size = want
           /\ g[b].next = nb /\ g[b].prev = h[b].prev
      BY <2>1, <2>3, <2>9 DEF Header
    <2>13. nx # Null => /\ g[nx] \in Header /\ g[nx].free = h[nx].free
                        /\ g[nx].size = h[nx].size /\ g[nx].next = h[nx].next
                        /\ g[nx].prev = nb
      <3>1. nx # Null => h[nx] \in Header
        BY <2>5 DEF Linked, Typed
      <3> QED  BY <2>3, <2>10, <3>1 DEF Header
    <2>14. all = list \cup {nb}
      BY <2>3, <2>12
    <2>15. g[nb].free /\ g[nb].next = nx /\ g[nb].prev = b
           /\ g[nb].size = h[b].size - want - Hdr
      BY <2>8 DEF rest
    <2>16. \A c \in list \ {b} : g[c].free = h[c].free /\ g[c].size = h[c].size
                                 /\ g[c].next = h[c].next
      <3>1. ASSUME NEW c \in list \ {b}
            PROVE  g[c].free = h[c].free /\ g[c].size = h[c].size /\ g[c].next = h[c].next
        <4>1. c \in DOMAIN h /\ c # nb /\ c # Null
          BY <2>4, HeaderOf DEF Linked, Typed
        <4>2. CASE c = nx
          BY <2>13, <4>1, <4>2
        <4>3. CASE c # nx
          BY <2>11, <4>1, <4>3
        <4> QED  BY <4>2, <4>3
      <3> QED  BY <3>1
    <2>17. \A c \in list \ {b} : End(g, c) = End(h, c)
      BY <2>16 DEF End
    <2>18. End(g, b) = nb /\ End(g, nb) = End(h, b)
      <3>1. End(g, b) = b + Hdr + want
        BY <2>12 DEF End
      <3>2. End(g, nb) = nb + Hdr + (h[b].size - want - Hdr)
        BY <2>15 DEF End
      <3> QED  BY <2>1, <3>1, <3>2, HeapAssumption DEF nb, Payload, End
    <2>19. Typed(g, all)
      <3>1. ASSUME NEW a \in DOMAIN g PROVE g[a] \in Header
        <4>1. CASE a \in {nb, b} \/ (a = nx /\ nx # Null)
          BY <2>6, <2>8, <2>12, <2>13, <4>1
        <4>2. CASE a \in DOMAIN h \ {b, nx, nb}
          BY <2>11, <4>2 DEF Linked, Typed
        <4>3. Null \notin DOMAIN h /\ (a = nb \/ a \in DOMAIN h)
          BY <2>8, NullIsNoAddress DEF Linked, Typed
        <4> QED  BY <4>1, <4>2, <4>3
      <3>2. g \in [DOMAIN g -> Header]
        BY <2>7, <3>1, Zenon
      <3> QED  BY <2>3, <2>8, <2>14, <3>2 DEF Linked, Typed
    <2>20. Forward(g, all)
      <3> SUFFICES ASSUME NEW c \in all
                   PROVE  IF g[c].next = Null THEN End(g, c) = HeapSize
                          ELSE g[c].next \in all /\ End(g, c) = g[c].next
                               /\ g[g[c].next].prev = c
        BY DEF Forward
      <3>1. CASE c = b
        BY <2>3, <2>12, <2>14, <2>15, <2>18, <3>1
      <3>2. CASE c = nb
        <4>1. IF nx = Null THEN End(h, b) = HeapSize ELSE End(h, b) = nx
          BY DEF Linked, Forward, nx
        <4> QED  BY <2>5, <2>13, <2>14, <2>15, <2>18, <3>2, <4>1
      <3>3. CASE c \in list \ {b}
        <4>1. g[c].next = h[c].next /\ End(g, c) = End(h, c)
          BY <2>16, <2>17, <3>3
        <4>2. CASE h[c].next = Null
          BY <3>3, <4>1, <4>2 DEF Linked, Forward
        <4>3. CASE h[c].next # Null
          <5>1. /\ h[c].next \in list /\ End(h, c) = h[c].next
                /\ h[h[c].next].prev = c
            BY <3>3, <4>3 DEF Linked, Forward
          <5>2. h[c].next # nx
            BY <3>3, <5>1, <2>5, <4>3
          <5>3. g[h[c].next].prev = c
            BY <2>4, <2>11, <2>12, <5>1, <5>2 DEF Linked, Typed
          <5> QED  BY <2>14, <4>1, <4>3, <5>1, <5>3
        <4> QED  BY <4>2, <4>3
      <3> QED  BY <2>14, <3>1, <3>2, <3>3
    <2>21. Backward(g, all)
      <3> SUFFICES ASSUME NEW c \in all
                   PROVE  IF c = Head THEN g[c].prev = Null
                          ELSE g[c].prev \in all /\ g[g[c].prev].next = c
        BY DEF Backward
      <3>1. CASE c = nb
        BY <2>1, <2>2, <2>12, <2>14, <2>15, <3>1 DEF Head
      <3>2. CASE c = nx /\ c # nb
        <4>1. nx # Null /\ nx # Head
          <5>1. c \in list
            BY <2>14, <3>2
          <5>2. nx # Null
            BY <3>2, <5>1, HeaderOf DEF Linked, Typed
          <5> QED  BY <5>2, NextIsAfter DEF nx
        <4> QED  BY <2>13, <2>14, <2>15, <3>2, <4>1
      <3>3. CASE c \in list \ {nx}
        <4>1. g[c].prev = h[c].prev
          BY <2>4, <2>11, <2>12, <3>3 DEF Linked, Typed
        <4>2. CASE c = Head
          BY <3>3, <4>1, <4>2 DEF Linked, Backward
        <4>3. CASE c # Head
          <5>1. h[c].prev \in list /\ h[h[c].prev].next = c
            BY <3>3, <4>3 DEF Linked, Backward
          <5>2. h[c].prev # b
            BY <3>3, <5>1 DEF nx
          <5> QED  BY <2>14, <2>16, <4>1, <4>3, <5>1, <5>2
        <4> QED  BY <4>2, <4>3
      <3> QED  BY <2>14, <3>1, <3>2, <3>3
    <2>22. Ordered(g, all)
      <3> SUFFICES ASSUME NEW c \in all, NEW d \in all, c < d PROVE End(g, c) <= d
        BY DEF Ordered
      <3>0. \A e \in list : e \in Nat
        BY HeaderOf DEF Linked, Typed
      <3>1. CASE c = nb /\ d \in list
        BY <2>1, <2>2, <2>18, <3>0, <3>1 DEF Linked, Ordered
      <3>2. CASE c = b /\ d \in list
        <4>1. End(h, b) <= d
          BY <3>2 DEF Linked, Ordered
        <4>2. End(h, b) \in Nat
          BY HeaderOf DEF Linked, Typed
        <4> QED  BY <2>2, <2>18, <3>0, <3>2, <4>1, <4>2
      <3>3. CASE c = b /\ d = nb
        BY <2>2, <2>18, <3>3
      <3>4. CASE c \in list \ {b} /\ d = nb
        <4>1. c < b
          <5>1. b < c => End(h, b) <= c
            BY <3>4 DEF Linked, Ordered
          <5>2. End(h, b) \in Nat
            BY HeaderOf DEF Linked, Typed
          <5>3. c \in Nat /\ c < nb
            BY <3>0, <3>4
          <5> QED  BY <2>1, <2>2, <3>4, <5>1, <5>2, <5>3
        <4>2. End(h, c) <= b /\ End(h, c) \in Nat
          BY <3>4, <4>1, HeaderOf DEF Linked, Ordered, Typed
        <4> QED  BY <2>1, <2>2, <2>17, <3>4, <4>2
      <3>5. CASE c \in list \ {b} /\ d \in list
        BY <2>17, <3>5 DEF Linked, Ordered
      <3>6. ~(c = nb /\ d = nb)
        BY <2>2
      <3> QED  BY <2>14, <3>1, <3>2, <3>3, <3>4, <3>5, <3>6
    <2>23. StaleFree(g, all)
      <3>1. DOMAIN g \ all \subseteq DOMAIN h \ (list \cup {nb})
        BY <2>8, <2>14
      <3>2. \A a \in DOMAIN g \ all : g[a] = h[a]
        <4>1. Null \notin DOMAIN h /\ b \in list
          BY NullIsNoAddress DEF Linked, Typed
        <4> QED  BY <2>5, <2>11, <3>1, <4>1
      <3> QED  BY <3>1, <3>2 DEF Linked, StaleFree
    <2>24. g[g[b].next].free /\ g[g[b].next].next = h[b].next /\ g[b].next \notin list
           /\ all = list \cup {g[b].next}
      BY <2>4, <2>12, <2>14, <2>15 DEF nx
    <2>25. Linked(g, all)
      BY <2>19, <2>20, <2>21, <2>22, <2>23 DEF Linked
    <2>26. g[b].free /\ want <= g[b].size
      BY <2>12, SMTT(30)
    <2> QED  BY <2>16, <2>24, <2>25, <2>26
  <1> QED  BY <1>1, <1>2

-----------------------------------------------------------------------------
(* Merging two blocks.                                                     *)

\* A block takes over the free block after it.
LEMMA AbsorbKeepsLinks ==
  ASSUME NEW h, NEW list, Linked(h, list), NEW p \in list,
         h[p].next # Null, h[h[p].next].free
  PROVE  LET b    == h[p].next
             g    == Absorb(h, p, b)
             rest == list \ {b}
         IN  /\ Linked(g, rest) /\ p \in rest
             /\ \A c \in rest : g[c].free = h[c].free
             /\ \A c \in rest \ {p} : g[c].size = h[c].size /\ g[c].next = h[c].next
             /\ g[p].next = h[b].next
             /\ DOMAIN g = DOMAIN h
  <1> SUFFICES ASSUME NEW b, b = h[p].next, h[b].free,
                      NEW g, g = Absorb(h, p, b), NEW rest, rest = list \ {b}
               PROVE  /\ Linked(g, rest) /\ p \in rest
                      /\ \A c \in rest : g[c].free = h[c].free
                      /\ \A c \in rest \ {p} : /\ g[c].size = h[c].size
                                              /\ g[c].next = h[c].next
                      /\ g[p].next = h[b].next
                      /\ DOMAIN g = DOMAIN h
    OBVIOUS
  <1> DEFINE nx == h[b].next
  <1>1. b \in list /\ p < b /\ b # Head /\ h[b].prev = p /\ End(h, p) = b
    BY NextIsAfter DEF Linked, Forward
  <1>2. /\ p \in Nat /\ b \in Nat /\ h[p].size \in Nat /\ h[b].size \in Nat
        /\ h[p] \in Header /\ p # Null /\ nx \in Addr \cup {Null}
        /\ p \in DOMAIN h /\ b \in DOMAIN h
    BY <1>1, HeaderOf DEF Linked, Typed
  <1>3. p \in rest /\ p # b
    BY <1>1, <1>2
  <1>4. nx # Null => nx \in list /\ nx \notin {p, b} /\ h[nx].prev = b /\ nx \in DOMAIN h
    <2>1. nx # Null => nx \in list /\ b < nx /\ h[nx].prev = b
      BY <1>1, NextIsAfter
    <2>2. nx # Null => nx \in Nat /\ nx \in DOMAIN h
      BY <2>1, HeaderOf DEF Linked, Typed
    <2> QED  BY <1>1, <1>2, <2>1, <2>2
  <1>5. p # nx
    BY <1>2, <1>4, SMTT(30)
  <1>6. g = [a \in DOMAIN h |->
               CASE a = p  -> [h[a] EXCEPT !.size = @ + Hdr + h[b].size, !.next = nx]
                 [] a = nx -> [h[a] EXCEPT !.prev = p]
                 [] OTHER  -> h[a]]
    BY ZenonT(60) DEF Absorb
  <1> HIDE DEF nx
  <1>7. DOMAIN g = DOMAIN h
    BY <1>6, ZenonT(60)
  <1>8. g[p] = [h[p] EXCEPT !.size = h[p].size + Hdr + h[b].size, !.next = nx]
    BY <1>2, <1>5, <1>6, ZenonT(60)
  <1>9. nx # Null => g[nx] = [h[nx] EXCEPT !.prev = p]
    BY <1>4, <1>5, <1>6, ZenonT(60)
  <1>10. \A a \in DOMAIN h \ {p, nx} : g[a] = h[a]
    BY <1>6, Zenon
  <1>11. /\ g[p] \in Header /\ g[p].free = h[p].free /\ g[p].prev = h[p].prev
         /\ g[p].size = h[p].size + Hdr + h[b].size /\ g[p].next = nx
    <2>1. h[p].size + Hdr + h[b].size \in Nat
      BY <1>2, HeapAssumption
    <2> QED  BY <1>2, <1>8, <2>1 DEF Header
  <1>12. nx # Null => /\ g[nx] \in Header /\ g[nx].free = h[nx].free
                      /\ g[nx].size = h[nx].size /\ g[nx].next = h[nx].next
                      /\ g[nx].prev = p
    <2>1. nx # Null => h[nx] \in Header
      BY <1>4 DEF Linked, Typed
    <2>2. p \in Addr
      BY <1>2 DEF Linked, Typed
    <2> QED  BY <1>9, <2>1, <2>2 DEF Header
  <1>13. \A c \in rest \ {p} : /\ g[c].free = h[c].free /\ g[c].size = h[c].size
                               /\ g[c].next = h[c].next
    <2> SUFFICES ASSUME NEW c \in rest \ {p}
                 PROVE  g[c].free = h[c].free /\ g[c].size = h[c].size /\ g[c].next = h[c].next
      OBVIOUS
    <2>1. c \in DOMAIN h /\ c # Null
      BY HeaderOf DEF Linked, Typed
    <2>2. CASE c = nx
      BY <1>12, <2>1, <2>2
    <2>3. CASE c # nx
      BY <1>10, <2>1, <2>3
    <2> QED  BY <2>2, <2>3
  <1>14. \A c \in rest \ {p} : End(g, c) = End(h, c)
    BY <1>13 DEF End
  <1>15. End(g, p) = End(h, b)
    <2>1. End(g, p) = p + Hdr + (h[p].size + Hdr + h[b].size)
      BY <1>11 DEF End
    <2>2. p + Hdr + h[p].size = b
      BY <1>1 DEF End
    <2>3. End(h, b) = b + Hdr + h[b].size
      BY DEF End
    <2> QED  BY <1>2, <2>1, <2>2, <2>3, HeapAssumption
  <1>16. Typed(g, rest)
    <2>1. ASSUME NEW a \in DOMAIN h PROVE g[a] \in Header
      <3>1. a # Null
        BY HeaderOf DEF Linked
      <3>2. CASE a = p \/ a = nx
        BY <1>11, <1>12, <3>1, <3>2
      <3>3. CASE a \notin {p, nx}
        BY <1>10, <3>3, SMTT(30) DEF Linked, Typed
      <3> QED  BY <3>2, <3>3
    <2>2. g \in [DOMAIN g -> Header]
      BY <1>6, <1>7, <2>1, Zenon
    <2> QED  BY <1>1, <1>7, <2>2 DEF Linked, Typed
  <1>17. Forward(g, rest)
    <2> SUFFICES ASSUME NEW c \in rest
                 PROVE  IF g[c].next = Null THEN End(g, c) = HeapSize
                        ELSE g[c].next \in rest /\ End(g, c) = g[c].next
                             /\ g[g[c].next].prev = c
      BY DEF Forward
    <2>1. CASE c = p
      <3>1. IF nx = Null THEN End(h, b) = HeapSize ELSE End(h, b) = nx
        BY <1>1 DEF Linked, Forward, nx
      <3> QED  BY <1>4, <1>11, <1>12, <1>15, <2>1, <3>1
    <2>2. CASE c # p
      <3>1. g[c].next = h[c].next /\ End(g, c) = End(h, c) /\ c \in list
        BY <1>13, <1>14, <2>2
      <3>2. CASE h[c].next = Null
        BY <3>1, <3>2 DEF Linked, Forward
      <3>3. CASE h[c].next # Null
        <4>1. h[c].next \in list /\ End(h, c) = h[c].next /\ h[h[c].next].prev = c
          BY <3>1, <3>3 DEF Linked, Forward
        <4>2. h[c].next # b /\ h[c].next # nx
          BY <1>1, <1>4, <2>2, <3>3, <4>1
        <4>3. g[h[c].next].prev = c
          <5>1. h[c].next \in DOMAIN h
            BY <4>1 DEF Linked, Typed
          <5> QED  BY <1>10, <1>11, <4>1, <4>2, <5>1
        <4> QED  BY <3>1, <3>3, <4>1, <4>2, <4>3
      <3> QED  BY <3>2, <3>3
    <2> QED  BY <2>1, <2>2
  <1>18. Backward(g, rest)
    <2> SUFFICES ASSUME NEW c \in rest
                 PROVE  IF c = Head THEN g[c].prev = Null
                        ELSE g[c].prev \in rest /\ g[g[c].prev].next = c
      BY DEF Backward
    <2>1. c \in DOMAIN h /\ c \in list /\ c # Null
      BY HeaderOf DEF Linked, Typed
    <2>2. CASE c = nx
      <3>1. nx # Head
        BY <1>1, <2>1, <2>2, NextIsAfter DEF nx
      <3> QED  BY <1>3, <1>11, <1>12, <2>1, <2>2, <3>1
    <2>3. CASE c # nx
      <3>1. g[c].prev = h[c].prev
        BY <1>10, <1>11, <2>1, <2>3
      <3>2. CASE c = Head
        BY <2>1, <3>1, <3>2 DEF Linked, Backward
      <3>3. CASE c # Head
        <4>1. h[c].prev \in list /\ h[h[c].prev].next = c
          BY <2>1, <3>3 DEF Linked, Backward
        <4>2. h[c].prev # b /\ h[c].prev # p
          BY <2>3, <4>1 DEF nx
        <4> QED  BY <1>13, <3>1, <3>3, <4>1, <4>2
      <3> QED  BY <3>2, <3>3
    <2> QED  BY <2>2, <2>3
  <1>19. Ordered(g, rest)
    <2> SUFFICES ASSUME NEW c \in rest, NEW d \in rest, c < d PROVE End(g, c) <= d
      BY DEF Ordered
    <2>1. CASE c # p
      BY <1>14, <2>1 DEF Linked, Ordered
    <2>2. CASE c = p
      <3>1. d \in Nat /\ d # b /\ End(h, p) <= d
        BY <2>2, HeaderOf DEF Linked, Ordered, Typed
      <3>2. b < d
        BY <1>1, <1>2, <3>1
      <3> QED  BY <1>1, <1>15, <2>2, <3>2 DEF Linked, Ordered
    <2> QED  BY <2>1, <2>2
  <1>20. StaleFree(g, rest)
    <2> SUFFICES ASSUME NEW a \in DOMAIN h, a \notin rest PROVE g[a].free
      BY <1>7 DEF StaleFree
    <2>1. a # p /\ (a = b \/ a \notin list) /\ a # Null
      BY <1>3, HeaderOf DEF Linked
    <2>2. a # nx
      BY <1>4, <2>1
    <2> QED  BY <1>10, <2>1, <2>2 DEF Linked, StaleFree
  <1>21. Linked(g, rest)
    BY <1>16, <1>17, <1>18, <1>19, <1>20 DEF Linked
  <1> QED  BY <1>3, <1>7, <1>11, <1>13, <1>21 DEF nx

\* A free neighbour is on the list.
LEMMA FreeNeighbours ==
  ASSUME NEW h, NEW list, Linked(h, list), NEW b \in list
  PROVE  /\ IsFree(h, h[b].next) => h[b].next # Null /\ h[b].next \in list
                                    /\ h[h[b].next].free
         /\ IsFree(h, h[b].prev) => h[b].prev # Null /\ h[b].prev \in list
                                    /\ h[h[b].prev].free
         /\ h[b].next # Null /\ ~IsFree(h, h[b].next) => ~h[h[b].next].free
         /\ h[b].prev # Null /\ ~IsFree(h, h[b].prev) => ~h[h[b].prev].free
  <1>1. Null \notin DOMAIN h
    BY NullIsNoAddress DEF Linked, Typed
  <1>2. h[b].next # Null => h[b].next \in list /\ h[b].next \in DOMAIN h
    BY NextIsAfter DEF Linked, Typed
  <1>3. h[b].prev # Null => h[b].prev \in list /\ h[b].prev \in DOMAIN h
    BY PrevIsBefore DEF Linked, Typed
  <1> QED  BY <1>1, <1>2, <1>3 DEF IsFree

NextGone(h, b) == IF IsFree(h, h[b].next) THEN {h[b].next} ELSE {}
PrevKept(h, b) == IF IsFree(h, h[b].prev) THEN {b} ELSE {}

LEMMA MergeNextKeepsLinks ==
  ASSUME NEW h, NEW list, Linked(h, list), NEW b \in list, h[b].free,
         Separate(h, list, b),
         NEW g, g = MergeNext(h, b), NEW rest, rest = list \ NextGone(h, b)
  PROVE  Linked(g, rest) /\ Separate(g, rest, Null) /\ SameInUse(h, g, rest)
  <1>1. CASE IsFree(h, h[b].next)
    <2> DEFINE n == h[b].next
    <2>1. n # Null /\ n \in list /\ h[n].free /\ b # n
      BY <1>1, FreeNeighbours, NextIsAfter, HeaderOf DEF Linked, Typed
    <2>2. g = Absorb(h, b, n) /\ rest = list \ {n}
      BY <1>1 DEF MergeNext, NextGone
    <2>3. /\ Linked(g, rest) /\ b \in rest
          /\ \A c \in rest : g[c].free = h[c].free
          /\ \A c \in rest \ {b} : g[c].size = h[c].size /\ g[c].next = h[c].next
          /\ g[b].next = h[n].next
      BY <2>1, <2>2, AbsorbKeepsLinks, SMTT(30)
    <2>4. ASSUME NEW c \in rest, g[c].free, g[c].next # Null PROVE ~g[g[c].next].free
      <3>1. g[c].next \in rest
        BY <2>3, <2>4 DEF Linked, Forward
      <3>2. CASE c = b
        BY <2>1, <2>3, <2>4, <3>1, <3>2 DEF Separate
      <3>3. CASE c # b
        BY <2>2, <2>3, <2>4, <3>1, <3>3 DEF Separate
      <3> QED  BY <3>2, <3>3
    <2> QED  BY <2>3, <2>4 DEF Separate, SameInUse
  <1>2. CASE ~IsFree(h, h[b].next)
    <2>1. g = h /\ rest = list
      BY <1>2 DEF MergeNext, NextGone
    <2>2. h[b].next # Null => ~h[h[b].next].free
      BY <1>2, FreeNeighbours
    <2> QED  BY <2>1, <2>2 DEF Separate, SameInUse
  <1> QED  BY <1>1, <1>2

\* No two free neighbours, but for those of block x.
SeparateAround(h, list, x) ==
  \A b \in list \ {x} : h[b].free /\ h[b].next # Null /\ h[b].next # x
                         => ~h[h[b].next].free

\* A block just freed is merged with its free neighbours; nothing else changes.
LEMMA CoalesceKeepsLinks ==
  ASSUME NEW h, NEW list, Linked(h, list), NEW b \in list, h[b].free,
         SeparateAround(h, list, b),
         NEW g, g = Coalesce(h, b),
         NEW rest, rest = list \ (PrevKept(h, b) \cup NextGone(h, b))
  PROVE  Linked(g, rest) /\ Separate(g, rest, Null) /\ SameInUse(h, g, rest)
  <1>1. CASE IsFree(h, h[b].prev)
    <2> DEFINE p == h[b].prev
               h1 == Absorb(h, p, b)
               list1 == list \ {b}
    <2>1. p \in list /\ h[p].free /\ h[p].next = b /\ b # Null
      BY <1>1, FreeNeighbours, PrevIsBefore, HeaderOf DEF Linked, Typed
    <2>2. g = MergeNext(h1, p)
      BY <1>1 DEF Coalesce
    <2> HIDE DEF p, h1, list1
    <2>3. /\ Linked(h1, list1) /\ p \in list1
          /\ \A c \in list1 : h1[c].free = h[c].free
          /\ \A c \in list1 \ {p} : h1[c].size = h[c].size /\ h1[c].next = h[c].next
          /\ h1[p].next = h[b].next
          /\ DOMAIN h1 = DOMAIN h
      <3>1. h1 = Absorb(h, p, h[p].next) /\ list1 = list \ {h[p].next}
        BY <2>1 DEF h1, list1
      <3>2. /\ p \in list /\ h[p].next # Null /\ h[h[p].next].free
            /\ h[h[p].next].next = h[b].next
        BY <2>1
      <3> QED  BY <3>1, <3>2, AbsorbKeepsLinks
    <2>4. Separate(h1, list1, p)
      <3> SUFFICES ASSUME NEW c \in list1 \ {p}, h1[c].free, h1[c].next # Null
                   PROVE  ~h1[h1[c].next].free
        BY DEF Separate
      <3>1. h1[c].next = h[c].next /\ h1[c].next \in list1 /\ c \in list \ {b}
        BY <2>3 DEF Linked, Forward, list1
      <3>2. h[c].next # b
        BY <2>1, <3>1, NextIsInjective
      <3> QED  BY <2>3, <3>1, <3>2 DEF SeparateAround
    <2>5. NextGone(h1, p) = NextGone(h, b)
      <3>1. h[b].next # Null => h[b].next \in list1
        BY <2>3 DEF Linked, Forward
      <3>2. Null \notin DOMAIN h
        BY NullIsNoAddress DEF Linked, Typed
      <3> QED  BY <2>3, <3>1, <3>2 DEF NextGone, IsFree
    <2>6. rest = list1 \ NextGone(h1, p)
      BY <1>1, <2>5 DEF PrevKept, list1
    <2>7. Linked(g, rest) /\ Separate(g, rest, Null) /\ SameInUse(h1, g, rest)
      BY <2>1, <2>2, <2>3, <2>4, <2>6, MergeNextKeepsLinks
    <2>8. SameInUse(h, g, rest)
      BY <2>1, <2>3, <2>6, <2>7 DEF SameInUse
    <2> QED  BY <2>7, <2>8
  <1>2. CASE ~IsFree(h, h[b].prev)
    <2>1. g = MergeNext(h, b) /\ rest = list \ NextGone(h, b)
      BY <1>2 DEF Coalesce, PrevKept
    <2>2. Separate(h, list, b)
      <3> SUFFICES ASSUME NEW c \in list \ {b}, h[c].free, h[c].next # Null
                   PROVE  ~h[h[c].next].free
        BY DEF Separate
      <3>1. CASE h[c].next = b
        <4>1. h[b].prev = c /\ c # Null
          BY <3>1, NextIsAfter, HeaderOf DEF Linked, Typed
        <4> QED  BY <1>2, <4>1, FreeNeighbours
      <3>2. CASE h[c].next # b
        BY <3>2 DEF SeparateAround
      <3> QED  BY <3>1, <3>2
    <2> QED  BY <2>1, <2>2, MergeNextKeepsLinks
  <1> QED  BY <1>1, <1>2

-----------------------------------------------------------------------------
(* The inductive invariant.                                                *)

\* The walk of a call stands on a block, and has passed no block that fits.
Walking ==
  /\ call \in [want : Nat, size : Nat, at : Addr \cup {Null}]
  /\ call.at # Null =>
       /\ call.at \in blocks
       /\ Usable(call.size) <= call.want
       /\ \A c \in blocks : c < call.at /\ hdr[c].free => hdr[c].size < call.want

\* The payloads of the blocks in use.
InUse(h, list) == {Payload(b) : b \in {c \in list : ~h[c].free}}

\* Callers hold the payloads of the blocks in use, each large enough.
Holding(h, list, owned) ==
  /\ InUse(h, list) = DOMAIN owned
  /\ owned \in [DOMAIN owned -> Nat]
  /\ \A b \in list : ~h[b].free => Usable(owned[Payload(b)]) <= h[b].size

Counted == IsFiniteSet(DOMAIN live) /\ held = Cardinality(DOMAIN live)

IInv ==
  /\ Linked(hdr, blocks)
  /\ Separate(hdr, blocks, Null)
  /\ Walking
  /\ Holding(hdr, blocks, live)
  /\ Counted

-----------------------------------------------------------------------------
(* Each step keeps it.                                                     *)

\* A caller has at most the bytes it asked for.
LEMMA UsableBytes == \A n \in Nat : Usable(n) \in Nat /\ Usable(n) <= n
  BY DEF Usable

\* The size a call looks for holds the bytes its caller may use.
LEMMA RoundedUp ==
  ASSUME NEW n \in Nat
  PROVE  Align16(n) \in Nat /\ Usable(n) <= Align16(n)
  <1> DEFINE sum == (n + Align - 1) % Modulus
             q   == sum \div Align
  <1>1. /\ Align \in Nat /\ Align > 0 /\ n + Align - 1 \in Nat
        /\ Modulus \in Nat /\ Modulus > 0
    BY HeapAssumption
  <1>2. sum \in Nat
    BY <1>1
  <1>3. n + Align - 1 < Modulus => sum = n + Align - 1
    BY <1>1
  <1> HIDE DEF sum
  <1>4. q \in Nat /\ sum < Align * q + Align
    BY <1>1, <1>2
  <1>5. Align * q \in Nat /\ q * Align = Align * q
    BY <1>1, <1>4
  <1>6. Align16(n) = q * Align
    BY DEF Align16, sum
  <1> HIDE DEF q
  <1>7. CASE n + Align - 1 < Modulus
    <2>1. n <= Align * q
      BY <1>1, <1>2, <1>3, <1>4, <1>5, <1>7
    <2> QED  BY <1>5, <1>6, <1>7, <2>1 DEF Usable
  <1>8. CASE ~(n + Align - 1 < Modulus)
    BY <1>5, <1>6, <1>8 DEF Usable
  <1> QED  BY <1>7, <1>8

LEMMA PayloadsDiffer ==
  ASSUME NEW h, NEW list, Linked(h, list), NEW b \in list, NEW c \in list,
         Payload(b) = Payload(c)
  PROVE  b = c
  <1>1. b \in Nat /\ c \in Nat
    BY HeaderOf DEF Linked, Typed
  <1> QED  BY <1>1, HeapAssumption DEF Payload

LEMMA NeighboursDiffer ==
  ASSUME NEW h, NEW list, Linked(h, list), Separate(h, list, Null),
         NEW b \in list, h[b].free, h[b].next # Null
  PROVE  ~h[h[b].next].free
  <1>1. b # Null
    BY HeaderOf DEF Linked, Typed
  <1> QED  BY <1>1 DEF Separate

LEMMA HoldingMeans ==
  ASSUME NEW h, NEW list, NEW owned, Linked(h, list), Holding(h, list, owned)
  PROVE  \A b \in list : Payload(b) \in DOMAIN owned <=> ~h[b].free
  <1> SUFFICES ASSUME NEW b \in list PROVE Payload(b) \in DOMAIN owned <=> ~h[b].free
    OBVIOUS
  <1>1. \A c \in list : Payload(b) = Payload(c) => b = c
    BY PayloadsDiffer
  <1> QED  BY <1>1 DEF Holding, InUse

LEMMA InitIInv == Init => IInv
  <1> SUFFICES ASSUME Init PROVE IInv
    OBVIOUS
  <1> DEFINE first == [size |-> HeapSize - Hdr, free |-> TRUE, next |-> Null, prev |-> Null]
  <1>1. /\ hdr = [a \in {Head} |-> first]
        /\ blocks = {Head} /\ call = NoCall /\ held = 0 /\ live = <<>>
    BY DEF Init
  <1>2. HeapSize - Hdr \in Nat /\ Head \in Addr /\ Head + Hdr + (HeapSize - Hdr) = HeapSize
    BY HeapAssumption DEF Head, Addr
  <1>3. first \in Header
    BY <1>2 DEF Header
  <1>4. hdr[Head] = first /\ DOMAIN hdr = {Head}
    BY <1>1
  <1>5. /\ hdr[Head].free /\ hdr[Head].next = Null /\ hdr[Head].prev = Null
        /\ hdr[Head].size = HeapSize - Hdr
    BY <1>4
  <1> HIDE DEF first
  <1>6. Linked(hdr, blocks)
    <2>1. Typed(hdr, blocks)
      BY <1>1, <1>2, <1>3, <1>4 DEF Typed
    <2>2. Forward(hdr, blocks)
      BY <1>1, <1>2, <1>5 DEF Forward, End
    <2>3. Backward(hdr, blocks) /\ StaleFree(hdr, blocks)
      BY <1>1, <1>4, <1>5 DEF Backward, StaleFree
    <2>4. Ordered(hdr, blocks)
      BY <1>1, <1>2 DEF Ordered, Head
    <2> QED  BY <2>1, <2>2, <2>3, <2>4 DEF Linked
  <1>7. Separate(hdr, blocks, Null)
    BY <1>1, <1>5 DEF Separate
  <1>8. Walking
    BY <1>1 DEF Walking, NoCall
  <1>9. DOMAIN live = {}
    BY <1>1
  <1>10. Holding(hdr, blocks, live)
    BY <1>1, <1>5, <1>9 DEF Holding, InUse
  <1>11. Counted
    BY <1>1, <1>9, FS_EmptySet DEF Counted
  <1> QED  BY <1>6, <1>7, <1>8, <1>10, <1>11 DEF IInv

\* No header changes before the block is taken.
LEMMA WalkKeeps ==
  ASSUME IInv, UNCHANGED <<hdr, blocks, held, live>>, Walking'
  PROVE  IInv'
  BY DEF IInv, Counted

LEMMA KmallocStep ==
  ASSUME IInv, NEW size \in Sizes, Kmalloc(size)
  PROVE  IInv'
  <1>1. size \in Nat /\ Align16(size) \in Nat /\ Usable(size) <= Align16(size)
    BY HeapAssumption, RoundedUp
  <1>2. Head \in blocks /\ Head \in Addr /\ Head # Null
    BY HeapAssumption DEF IInv, Linked, Typed, Head, Null
  <1>3. \A c \in blocks : ~(c < Head)
    BY HeaderOf DEF IInv, Linked, Typed, Head
  <1>4. call' = [want |-> Align16(size), size |-> size, at |-> Head]
    BY DEF Kmalloc
  <1>5. Walking'
    BY <1>1, <1>2, <1>3, <1>4 DEF Walking, Kmalloc
  <1> QED  BY <1>5, WalkKeeps DEF Kmalloc

LEMMA WalkStep ==
  ASSUME IInv, Walk
  PROVE  IInv'
  <1>1. /\ call.at \in blocks /\ call \in [want : Nat, size : Nat, at : Addr \cup {Null}]
        /\ Usable(call.size) <= call.want
    BY DEF IInv, Walking, Walk
  <1>2. /\ hdr[call.at].next \in blocks
        /\ \A c \in blocks : c < hdr[call.at].next => c <= call.at
    BY <1>1, NextIsAfter DEF IInv, Walk
  <1>3. hdr[call.at].next \in Addr
    BY <1>2 DEF IInv, Linked, Typed
  <1>4. /\ call'.at = hdr[call.at].next /\ call'.want = call.want /\ call'.size = call.size
        /\ call' \in [want : Nat, size : Nat, at : Addr \cup {Null}]
    BY <1>1, <1>3 DEF Walk
  <1>5. ASSUME NEW c \in blocks, c < call'.at, hdr[c].free PROVE hdr[c].size < call.want
    <2>1. c <= call.at /\ c \in Nat /\ call.at \in Nat
      BY <1>1, <1>2, <1>4, <1>5, HeaderOf DEF IInv, Linked, Typed
    <2>2. CASE c = call.at
      BY <1>1, <1>5, <2>2, HeaderOf DEF IInv, Linked, Typed, Walk, Fits
    <2>3. CASE c < call.at
      BY <1>5, <2>3 DEF IInv, Walking, Walk
    <2> QED  BY <2>1, <2>2, <2>3
  <1>6. Walking'
    BY <1>1, <1>2, <1>4, <1>5 DEF Walking, Walk
  <1> QED  BY <1>6, WalkKeeps DEF Walk

LEMMA NoCallWalks == ASSUME call' = NoCall PROVE Walking'
  BY DEF Walking, NoCall

LEMMA TakeStep ==
  ASSUME IInv, Take
  PROVE  IInv'
  <1> DEFINE b    == call.at
             h    == SplitBlock(hdr, b, call.want)
             list == blocks \cup ({h[b].next} \ {Null})
             used == [h EXCEPT ![b].free = FALSE]
  <1>1. /\ b \in blocks /\ hdr[b].free /\ call.want \in Nat /\ call.want <= hdr[b].size
        /\ call.size \in Nat /\ Usable(call.size) <= call.want
    BY HeaderOf DEF IInv, Walking, Linked, Typed, Take, Fits
  <1>2. /\ blocks' = list /\ hdr' = InMemory(used, list) /\ held' = held + 1
        /\ live' = [p \in DOMAIN live \cup {Payload(b)} |->
                      IF p = Payload(b) THEN call.size ELSE live[p]]
        /\ call' = NoCall
    BY DEF Take
  <1>3. Linked(hdr, blocks) /\ Separate(hdr, blocks, Null) /\ Holding(hdr, blocks, live) /\ Counted
    BY DEF IInv
  <1> HIDE DEF b, h, list, used
  <1>4. /\ Linked(h, list)
        /\ h[b].free /\ call.want <= h[b].size
        /\ \A c \in blocks \ {b} : h[c].free = hdr[c].free /\ h[c].size = hdr[c].size
                                   /\ h[c].next = hdr[c].next
        /\ h[b].next = hdr[b].next
           \/ /\ h[b].next \notin blocks /\ list = blocks \cup {h[b].next}
              /\ h[h[b].next].free /\ h[h[b].next].next = hdr[b].next
    BY <1>1, <1>3, SplitKeepsLinks, SMTT(30) DEF h, list
  <1>5. h[b].next = hdr[b].next => list = blocks
    BY <1>1, <1>3, NextIsAfter DEF list
  <1>6. b \in list /\ list \subseteq blocks \cup {h[b].next}
    BY <1>1 DEF list
  <1>7. /\ Linked(used, list)
        /\ ~used[b].free
        /\ \A c \in list : used[c].size = h[c].size /\ used[c].next = h[c].next
        /\ \A c \in list \ {b} : used[c].free = h[c].free
    <2>1. h \in [DOMAIN h -> Header] /\ b \in DOMAIN h
      BY <1>4, <1>6 DEF Linked, Typed
    <2>2. used[b] = [h[b] EXCEPT !.free = FALSE] /\ h[b] \in Header
          /\ \A a \in DOMAIN h \ {b} : used[a] = h[a]
      BY <2>1 DEF used
    <2>3. /\ used[b] \in Header /\ ~used[b].free /\ used[b].size = h[b].size
          /\ used[b].next = h[b].next /\ used[b].prev = h[b].prev
      BY <2>2 DEF Header
    <2>4. used \in [DOMAIN h -> Header]
      BY <2>1, <2>3 DEF used
    <2>5. Marked(h, used, b)
      BY <2>2, <2>3, <2>4 DEF Marked
    <2> QED  BY <1>4, <1>6, <2>3, <2>5, MarkKeepsLinks
  <1>8. Separate(used, list, Null)
    <2> SUFFICES ASSUME NEW c \in list, used[c].free, used[c].next # Null,
                        used[used[c].next].free
                 PROVE  FALSE
      BY DEF Separate
    <2>1. c # b /\ h[c].free /\ used[c].next = h[c].next
      BY <1>7
    <2>2. h[c].next \in list /\ h[c].next # b
      BY <1>7, <2>1 DEF Linked, Forward
    <2>3. h[h[c].next].free
      BY <1>7, <2>1, <2>2
    <2>4. CASE c \in blocks
      <3>1. hdr[c].free /\ hdr[c].next = h[c].next
        BY <1>4, <2>1, <2>4
      <3>2. h[c].next \in blocks
        BY <1>3, <2>1, <2>4, <3>1, NextIsAfter
      <3>3. hdr[hdr[c].next].free /\ hdr[c].next # Null
        BY <1>4, <2>1, <2>2, <2>3, <3>1, <3>2
      <3> QED  BY <1>3, <2>1, <2>4, <3>1, <3>3, NeighboursDiffer
    <2>5. CASE c \notin blocks
      <3>1. c = h[b].next /\ h[c].next = hdr[b].next
        BY <1>1, <1>4, <1>5, <1>6, <2>5
      <3>2. hdr[b].next \in blocks \ {b}
        BY <1>1, <1>3, <2>1, <2>2, <3>1, NextIsAfter
      <3>3. hdr[hdr[b].next].free /\ hdr[b].next # Null
        BY <1>4, <2>1, <2>3, <3>1, <3>2
      <3> QED  BY <1>1, <1>3, <3>3, NeighboursDiffer
    <2> QED  BY <2>4, <2>5
  <1>9. /\ Linked(hdr', blocks') /\ Separate(hdr', blocks', Null)
        /\ \A c \in blocks' : hdr'[c] = used[c]
    BY <1>2, <1>7, <1>8, InMemoryKeepsLinks
  <1>10. \A c \in list : ~used[c].free <=> c = b \/ (c \in blocks /\ ~hdr[c].free)
    <2> SUFFICES ASSUME NEW c \in list, c # b
                 PROVE  ~used[c].free <=> c \in blocks /\ ~hdr[c].free
      BY <1>7
    <2>1. used[c].free = h[c].free
      BY <1>7
    <2>2. CASE c \in blocks
      BY <1>4, <2>1, <2>2
    <2>3. CASE c \notin blocks
      BY <1>4, <1>5, <1>6, <2>1, <2>3
    <2> QED  BY <2>2, <2>3
  <1>11. Payload(b) \notin DOMAIN live
    BY <1>1, <1>3, HoldingMeans
  <1>12. Holding(hdr', blocks', live')
    <2>1. InUse(hdr', blocks') = InUse(hdr, blocks) \cup {Payload(b)}
      BY <1>2, <1>6, <1>9, <1>10, <1>1, ZenonT(60) DEF InUse, list
    <2>2. DOMAIN live' = DOMAIN live \cup {Payload(b)}
      BY <1>2
    <2>3. live' \in [DOMAIN live' -> Nat]
      BY <1>1, <1>2, <1>3 DEF Holding
    <2>4. ASSUME NEW c \in blocks', ~hdr'[c].free PROVE Usable(live'[Payload(c)]) <= hdr'[c].size
      <3>1. hdr'[c] = used[c] /\ used[c].size = h[c].size /\ c \in list
        BY <1>2, <1>7, <1>9
      <3>2. CASE c = b
        <4>1. live'[Payload(b)] = call.size
          BY <1>2
        <4>2. h[b].size \in Nat
          BY <1>4, <1>6, HeaderOf DEF Linked, Typed
        <4>3. Usable(call.size) \in Nat
          BY <1>1, UsableBytes
        <4>4. Usable(call.size) <= h[b].size
          BY <1>1, <1>4, <4>2, <4>3
        <4> QED  BY <3>1, <3>2, <4>1, <4>4
      <3>3. CASE c # b
        <4>1. c \in blocks /\ ~hdr[c].free
          BY <1>10, <2>4, <3>1, <3>3
        <4>2. Payload(c) \in DOMAIN live /\ Usable(live[Payload(c)]) <= hdr[c].size
          BY <1>3, <4>1, HoldingMeans DEF Holding
        <4>3. live'[Payload(c)] = live[Payload(c)]
          BY <1>2, <1>11, <4>2
        <4> QED  BY <1>4, <3>1, <3>3, <4>1, <4>2, <4>3
      <3> QED  BY <3>2, <3>3
    <2> QED  BY <1>3, <2>1, <2>2, <2>3, <2>4 DEF Holding
  <1>13. Counted'
    <2>1. DOMAIN live' = DOMAIN live \cup {Payload(b)}
      BY <1>2
    <2> QED  BY <1>2, <1>3, <1>11, <2>1, FS_AddElement DEF Counted
  <1> QED  BY <1>2, <1>9, <1>12, <1>13, NoCallWalks DEF IInv

LEMMA KfreeStep ==
  ASSUME IInv, NEW b \in DOMAIN hdr, Kfree(b)
  PROVE  IInv'
  <1> DEFINE h    == [hdr EXCEPT ![b].free = TRUE]
             g    == Coalesce(h, b)
             gone == (IF IsFree(hdr, hdr[b].prev) THEN {b} ELSE {})
                       \cup (IF IsFree(hdr, hdr[b].next) THEN {hdr[b].next} ELSE {})
  <1>1. ~hdr[b].free /\ call = NoCall
    BY DEF Kfree, Idle
  <1>2. /\ blocks' = blocks \ gone /\ hdr' = InMemory(g, blocks') /\ held' = held - 1
        /\ live' = Restrict(live, DOMAIN live \ {Payload(b)}) /\ call' = call
    BY DEF Kfree
  <1>3. Linked(hdr, blocks) /\ Separate(hdr, blocks, Null) /\ Holding(hdr, blocks, live) /\ Counted
    BY DEF IInv
  <1>4. b \in blocks
    BY <1>1, <1>3 DEF Linked, StaleFree
  <1>5. /\ Linked(h, blocks) /\ h[b].free
        /\ \A c \in blocks : h[c].size = hdr[c].size /\ h[c].next = hdr[c].next
                             /\ h[c].prev = hdr[c].prev
        /\ \A c \in blocks \ {b} : h[c].free = hdr[c].free
    <2>1. hdr \in [DOMAIN hdr -> Header]
      BY <1>3 DEF Linked, Typed
    <2>2. h[b] = [hdr[b] EXCEPT !.free = TRUE] /\ hdr[b] \in Header
          /\ \A a \in DOMAIN hdr \ {b} : h[a] = hdr[a]
      BY <2>1
    <2>3. /\ h[b] \in Header /\ h[b].free /\ h[b].size = hdr[b].size
          /\ h[b].next = hdr[b].next /\ h[b].prev = hdr[b].prev
      BY <2>2 DEF Header
    <2>4. h \in [DOMAIN hdr -> Header]
      BY <2>1, <2>3
    <2> HIDE DEF h
    <2>5. Marked(hdr, h, b)
      BY <2>2, <2>3, <2>4 DEF Marked
    <2> QED  BY <1>3, <1>4, <2>3, <2>5, MarkKeepsLinks
  <1>6. DOMAIN h = DOMAIN hdr
    OBVIOUS
  <1> HIDE DEF h, g, gone
  <1>7. SeparateAround(h, blocks, b)
    <2> SUFFICES ASSUME NEW c \in blocks \ {b}, h[c].free, h[c].next # Null, h[c].next # b
                 PROVE  ~h[h[c].next].free
      BY DEF SeparateAround
    <2>1. hdr[c].free /\ hdr[c].next = h[c].next /\ h[c].next \in blocks \ {b}
      BY <1>5, NextIsAfter
    <2>2. ~hdr[h[c].next].free
      BY <1>3, <2>1, NeighboursDiffer
    <2> QED  BY <1>5, <2>1, <2>2
  <1>8. gone = PrevKept(h, b) \cup NextGone(h, b)
    <2>1. hdr[b].prev # b /\ hdr[b].next # b /\ b # Null
      BY <1>3, <1>4, NextIsAfter, PrevIsBefore, HeaderOf DEF Linked, Typed
    <2>2. h[b].prev = hdr[b].prev /\ h[b].next = hdr[b].next
      BY <1>4, <1>5
    <2>3. \A a \in DOMAIN hdr \ {b} : h[a].free = hdr[a].free
      BY <1>3 DEF h, Linked, Typed
    <2>4. /\ IsFree(h, h[b].prev) <=> IsFree(hdr, hdr[b].prev)
          /\ IsFree(h, h[b].next) <=> IsFree(hdr, hdr[b].next)
      BY <1>6, <2>1, <2>2, <2>3 DEF IsFree
    <2> QED  BY <2>2, <2>4 DEF gone, PrevKept, NextGone
  <1>9. Linked(g, blocks') /\ Separate(g, blocks', Null) /\ SameInUse(h, g, blocks')
    BY <1>2, <1>4, <1>5, <1>7, <1>8, CoalesceKeepsLinks DEF g
  <1>10. /\ Linked(hdr', blocks') /\ Separate(hdr', blocks', Null)
         /\ \A c \in blocks' : hdr'[c] = g[c]
    BY <1>2, <1>9, InMemoryKeepsLinks
  <1>11. gone \subseteq {b} \cup {c \in blocks : hdr[c].free}
    BY <1>3, <1>4, FreeNeighbours DEF gone
  <1>12. \A c \in blocks' : /\ c \in blocks
                            /\ ~hdr'[c].free <=> c # b /\ ~hdr[c].free
                            /\ ~hdr'[c].free => hdr'[c].size = hdr[c].size
    <2> SUFFICES ASSUME NEW c \in blocks'
                 PROVE  /\ c \in blocks
                        /\ ~hdr'[c].free <=> c # b /\ ~hdr[c].free
                        /\ ~hdr'[c].free => hdr'[c].size = hdr[c].size
      OBVIOUS
    <2>1. c \in blocks /\ hdr'[c] = g[c] /\ g[c].free = h[c].free
          /\ (~h[c].free => g[c].size = h[c].size)
      BY <1>2, <1>9, <1>10 DEF SameInUse
    <2> QED  BY <1>5, <2>1
  <1>13. InUse(hdr', blocks') = InUse(hdr, blocks) \ {Payload(b)}
    <2>1. \A c \in blocks : Payload(c) = Payload(b) => c = b
      BY <1>3, <1>4, PayloadsDiffer
    <2>2. {c \in blocks' : ~hdr'[c].free} = {c \in blocks : ~hdr[c].free} \ {b}
      BY <1>2, <1>11, <1>12
    <2> QED  BY <2>1, <2>2 DEF InUse
  <1>14. DOMAIN live' = DOMAIN live \ {Payload(b)} /\ \A p \in DOMAIN live' : live'[p] = live[p]
    BY <1>2 DEF Restrict
  <1>15. Holding(hdr', blocks', live')
    <2>1. live' \in [DOMAIN live' -> Nat]
      BY <1>2, <1>3, <1>14 DEF Holding, Restrict
    <2>2. ASSUME NEW c \in blocks', ~hdr'[c].free PROVE Usable(live'[Payload(c)]) <= hdr'[c].size
      <3>1. c \in blocks /\ ~hdr[c].free /\ hdr'[c].size = hdr[c].size /\ c # b
        BY <1>12, <2>2
      <3>2. Payload(c) \in DOMAIN live'
        BY <1>3, <1>4, <1>14, <3>1, HoldingMeans, PayloadsDiffer
      <3> QED  BY <1>3, <1>14, <3>1, <3>2 DEF Holding
    <2> QED  BY <1>3, <1>13, <1>14, <2>1, <2>2 DEF Holding
  <1>16. Counted'
    <2>1. Payload(b) \in DOMAIN live
      BY <1>1, <1>3, <1>4, HoldingMeans
    <2> QED  BY <1>2, <1>3, <1>14, <2>1, FS_RemoveElement DEF Counted
  <1> QED  BY <1>1, <1>2, <1>10, <1>15, <1>16, NoCallWalks DEF IInv

LEMMA IInvStep ==
  ASSUME IInv, [Next]_vars
  PROVE  IInv'
  <1>1. OutOfMemory => IInv'
    BY WalkKeeps, NoCallWalks DEF OutOfMemory
  <1>2. UNCHANGED vars => IInv'
    BY WalkKeeps DEF vars, Walking, IInv
  <1> QED
    BY <1>1, <1>2, KmallocStep, WalkStep, TakeStep, KfreeStep DEF Next

LEMMA IInvAlways == Spec => []IInv
  <1>1. IInv /\ [Next]_vars => IInv'
    BY IInvStep
  <1> QED  BY InitIInv, <1>1, PTL DEF Spec

-----------------------------------------------------------------------------
(* The properties.                                                         *)

\* The list of blocks tiles the heap after every split and every merge, so the
\* branches of the code for a corrupt list are not taken while callers stay in
\* their payloads.
THEOREM TilingCorrect == Spec => []Tiling
  <1>1. IInv => Tiling
    BY DEF IInv, Linked, Forward, Ordered, Tiling
  <1> QED  BY IInvAlways, <1>1, PTL

\* No two callers are given the same byte, and none is given a header: over all
\* the bytes asked for, or none at all when align16 wrapped the size to 0.
THEOREM PayloadsDisjointCorrect == Spec => []PayloadsDisjoint
  <1> DEFINE room(p) == Usable(live[p])
  <1>1. ASSUME IInv PROVE PayloadsDisjoint
    <2>1. Linked(hdr, blocks) /\ Holding(hdr, blocks, live)
      BY <1>1 DEF IInv
    <2>2. ASSUME NEW p \in DOMAIN live
          PROVE  \E b \in blocks : /\ p = b + Hdr /\ room(p) \in Nat
                                   /\ p + room(p) <= End(hdr, b)
      <3>1. PICK b \in blocks : ~hdr[b].free /\ p = Payload(b)
        BY <2>1 DEF Holding, InUse
      <3>2. room(p) <= hdr[b].size /\ room(p) \in Nat
        BY <2>1, <3>1, UsableBytes DEF Holding
      <3>3. b \in Nat /\ hdr[b].size \in Nat
        BY <2>1, HeaderOf DEF Linked, Typed
      <3> QED  BY <3>1, <3>2, <3>3, HeapAssumption DEF End, Payload
    <2>3. ASSUME NEW p \in DOMAIN live
          PROVE  /\ p + room(p) <= HeapSize
                 /\ \A q \in DOMAIN live : p < q => p + room(p) <= q
                 /\ \A b \in blocks : ~(b + Hdr > p /\ b < p + room(p))
      <3>1. PICK a \in blocks : p = a + Hdr /\ room(p) \in Nat /\ p + room(p) <= End(hdr, a)
        BY <2>2
      <3>2. a \in Nat /\ End(hdr, a) \in Nat /\ End(hdr, a) <= HeapSize
        BY <2>1, HeaderOf, EndInHeap DEF Linked, Typed
      <3>3. ASSUME NEW c \in blocks, a < c PROVE End(hdr, a) <= c
        BY <2>1, <3>3 DEF Linked, Ordered
      <3>4. ASSUME NEW q \in DOMAIN live, p < q PROVE p + room(p) <= q
        <4>1. PICK c \in blocks : q = c + Hdr
          BY <2>2
        <4>2. c \in Nat
          BY <2>1, HeaderOf DEF Linked, Typed
        <4> QED  BY <3>1, <3>2, <3>3, <3>4, <4>1, <4>2, HeapAssumption
      <3>5. ASSUME NEW c \in blocks, c + Hdr > p, c < p + room(p) PROVE FALSE
        <4>1. c \in Nat
          BY <2>1, HeaderOf DEF Linked, Typed
        <4> QED  BY <3>1, <3>2, <3>3, <3>5, <4>1, HeapAssumption
      <3> QED  BY <3>1, <3>2, <3>4, <3>5, HeapAssumption
    <2> QED  BY <2>3 DEF PayloadsDisjoint
  <1> QED  BY IInvAlways, <1>1, PTL

\* A set of numbers up to a bound has a largest member.
LEMMA LargestOf ==
  ASSUME NEW n \in Nat, NEW S, S # {}, S \subseteq 0..n
  PROVE  Max(S) \in S
  <1> DEFINE D == {d \in Nat : n - d \in S}
             R == OpToRel(<, Nat)
  <1>1. D # {}
    <2>1. PICK x \in S : TRUE
      OBVIOUS
    <2>2. n - x \in Nat /\ n - (n - x) = x
      OBVIOUS
    <2> QED  BY <2>2
  <1>2. IsWellFoundedOn(R, Nat) /\ D \subseteq Nat
    BY NatLessThanWellFounded, Zenon
  <1> HIDE DEF R
  <1>3. PICK d \in D : \A e \in D : ~(<<e, d>> \in R)
    BY <1>1, <1>2, WFMin
  <1>4. n - d \in S
    BY <1>3
  <1>5. \A y \in S : n - d >= y
    <2> SUFFICES ASSUME NEW y \in S, ~(n - d >= y) PROVE FALSE
      OBVIOUS
    <2>1. n - y \in D /\ n - y < d /\ d \in Nat
      OBVIOUS
    <2>2. <<n - y, d>> \in R
      BY <2>1 DEF R, OpToRel
    <2> QED  BY <1>3, <2>1, <2>2
  <1> QED  BY <1>4, <1>5 DEF Max

\* A block is in use exactly while a caller holds it, and kmalloc gives up only
\* when no free block is large enough.
THEOREM HeldIsInUseCorrect == Spec => []HeldIsInUse
  <1>1. ASSUME IInv PROVE HeldIsInUse
    <2>1. /\ Linked(hdr, blocks) /\ Separate(hdr, blocks, Null) /\ Holding(hdr, blocks, live)
          /\ Walking /\ held = Cardinality(DOMAIN live)
      BY <1>1 DEF IInv, Counted
    <2>2. \A c \in blocks : c \in Nat /\ c < HeapSize /\ hdr[c].size \in Nat /\ c # Null
                            /\ End(hdr, c) \in Nat /\ End(hdr, c) <= HeapSize /\ c < End(hdr, c)
      BY <2>1, HeaderOf, EndInHeap DEF Linked, Typed
    <2>3. ASSUME NEW b \in blocks, hdr[b].next = Null, NEW c \in blocks PROVE c <= b
      <3>1. End(hdr, b) = HeapSize
        BY <2>1, <2>3 DEF Linked, Forward
      <3>2. b < c => End(hdr, b) <= c
        BY <2>1 DEF Linked, Ordered
      <3> QED  BY <2>2, <3>1, <3>2, HeapAssumption
    <2>4. ASSUME live = <<>> PROVE blocks = {Head}
      <3>1. \A b \in blocks : hdr[b].free
        BY <2>1, <2>4 DEF Holding, InUse
      <3>2. Head \in blocks /\ Head \in blocks \ {Null}
        BY <2>1, <2>2 DEF Linked, Typed
      <3>3. hdr[Head].next # Null => hdr[Head].next \in blocks
        BY <2>1, <3>2 DEF Linked, Forward
      <3>4. hdr[Head].next = Null
        BY <2>1, <3>1, <3>2, <3>3 DEF Separate
      <3>5. \A c \in blocks : c <= Head
        BY <2>3, <3>2, <3>4
      <3> QED  BY <2>2, <3>2, <3>5 DEF Head
    <2>5. ASSUME call.at # Null, ~Fits(call.at), hdr[call.at].next = Null
          PROVE  Stats.largest < call.want \/ \A b \in blocks : ~hdr[b].free
      <3> DEFINE S == {0} \cup {hdr[b].size : b \in {c \in blocks : hdr[c].free}}
      <3>1. /\ call.at \in blocks /\ call.want \in Nat
            /\ \A c \in blocks : c < call.at /\ hdr[c].free => hdr[c].size < call.want
        BY <2>1, <2>5 DEF Walking
      <3>2. \A c \in blocks : hdr[c].free => hdr[c].size < call.want
        <4> SUFFICES ASSUME NEW c \in blocks, hdr[c].free PROVE hdr[c].size < call.want
          OBVIOUS
        <4>1. c <= call.at
          BY <2>3, <2>5, <3>1
        <4>2. CASE c = call.at
          BY <2>2, <2>5, <3>1, <4>2 DEF Fits
        <4> QED  BY <2>2, <3>1, <4>1, <4>2
      <3> SUFFICES ASSUME NEW b \in blocks, hdr[b].free PROVE Stats.largest < call.want
        OBVIOUS
      <3>3. 0 < call.want
        BY <2>2, <3>1, <3>2
      <3>4. S # {} /\ S \subseteq 0..call.want
        BY <2>2, <3>1, <3>2
      <3>5. \A x \in S : x < call.want
        BY <3>2, <3>3
      <3>6. Stats.largest = Max(S)
        BY DEF Stats
      <3> HIDE DEF S
      <3> QED  BY <3>1, <3>4, <3>5, <3>6, LargestOf
    <2>6. {Payload(b) : b \in {c \in blocks : ~hdr[c].free}} = DOMAIN live
      BY <2>1 DEF Holding, InUse
    <2> QED  BY <2>1, <2>4, <2>5, <2>6 DEF HeldIsInUse
  <1> QED  BY IInvAlways, <1>1, PTL

-----------------------------------------------------------------------------
(* The statistics.                                                         *)

\* The sum from block b on, if f tells those from the blocks after it.
SumAt(f, free, b) ==
  (IF hdr[b].free = free THEN hdr[b].size ELSE 0)
  + (IF hdr[b].next = Null THEN 0 ELSE f[hdr[b].next])

\* The blocks that lie within n bytes of the end of the heap.
Late(n) == {b \in blocks : HeapSize - b <= n}

LEMMA Least ==
  ASSUME NEW S, S \subseteq Nat, S # {}
  PROVE  \E n \in S : \A m \in S : n <= m
  <1>1. PICK n \in S : \A m \in S : ~(<<m, n>> \in OpToRel(<, Nat))
    BY NatLessThanWellFounded, WFMin, Zenon
  <1>2. ASSUME NEW m \in S, m < n PROVE FALSE
    <2>1. m \in Nat /\ n \in Nat
      OBVIOUS
    <2>2. <<m, n>> \in OpToRel(<, Nat)
      BY <1>2, <2>1, Zenon DEF OpToRel
    <2> QED  BY <1>1, <2>2, Zenon
  <1> QED  BY <1>2

\* What the walk of kmalloc_get_stats needs of the list.
LEMMA BlocksAre ==
  ASSUME Linked(hdr, blocks), NEW b \in blocks
  PROVE  /\ b \in Nat /\ b < HeapSize /\ hdr[b].size \in Nat /\ hdr[b].free \in BOOLEAN
         /\ End(hdr, b) = b + Hdr + hdr[b].size
         /\ IF hdr[b].next = Null THEN End(hdr, b) = HeapSize
            ELSE /\ hdr[b].next \in blocks /\ hdr[b].next = End(hdr, b)
                 /\ hdr[b].next \in Nat /\ hdr[b].next > b
  <1>1. b \in Nat /\ b < HeapSize /\ hdr[b].size \in Nat /\ hdr[b].free \in BOOLEAN
    BY HeaderOf, HeapAssumption DEF Linked, Typed, Addr
  <1>2. End(hdr, b) = b + Hdr + hdr[b].size
    BY DEF End
  <1>3. IF hdr[b].next = Null THEN End(hdr, b) = HeapSize
        ELSE hdr[b].next \in blocks /\ hdr[b].next = End(hdr, b)
    BY DEF Linked, Forward
  <1> QED  BY <1>1, <1>2, <1>3, HeapAssumption

LEMMA WalkIsDefined ==
  ASSUME Linked(hdr, blocks), NEW free \in BOOLEAN
  PROVE  \E f : f = [b \in blocks |-> SumAt(f, free, b)]
  <1> DEFINE Sums(f, n) == f = [b \in Late(n) |-> SumAt(f, free, b)]
             open == {n \in Nat : ~\E f : Sums(f, n)}
  <1>1. ASSUME NEW n \in Nat, \A m \in open : n <= m
        PROVE  n \notin open
    <2>1. CASE n = 0
      <3>1. Late(n) = {}
        BY <2>1, BlocksAre, HeapAssumption DEF Late
      <3> DEFINE none == [b \in Late(n) |-> 0]
      <3>2. none = [b \in Late(n) |-> SumAt(none, free, b)]
        BY <3>1
      <3> QED  BY <3>2, Zenon
    <2>2. CASE n > 0
      <3>1. n - 1 \in Nat /\ ~(n <= n - 1)
        BY <2>2
      <3>2. PICK g : Sums(g, n - 1)
        BY <1>1, <3>1
      <3> DEFINE more == [b \in Late(n) |-> SumAt(g, free, b)]
      <3>3. ASSUME NEW b \in Late(n)
            PROVE  SumAt(g, free, b) = SumAt(more, free, b)
        <4>1. b \in blocks /\ b \in Nat /\ HeapSize - b <= n
          BY BlocksAre DEF Late
        <4>2. CASE hdr[b].next = Null
          BY <4>2 DEF SumAt
        <4>3. CASE hdr[b].next # Null
          <5>1. hdr[b].next \in Late(n - 1) /\ hdr[b].next \in Late(n)
            BY <2>2, <4>1, <4>3, BlocksAre, HeapAssumption DEF Late
          <5>2. more[hdr[b].next] = g[hdr[b].next]
            BY <3>2, <5>1, Zenon
          <5> QED  BY <5>2, Zenon DEF SumAt
        <4> QED  BY <4>2, <4>3
      <3>4. more = [b \in Late(n) |-> SumAt(more, free, b)]
        BY <3>3, Zenon
      <3> QED  BY <3>4, Zenon
    <2> QED  BY <2>1, <2>2
  <1>2. open = {}
    <2> HIDE DEF open
    <2>1. ASSUME open # {} PROVE FALSE
      <3>1. open \subseteq Nat
        BY DEF open
      <3>2. PICK n \in open : \A m \in open : n <= m
        BY <2>1, <3>1, Least, Zenon
      <3> QED  BY <1>1, <3>1, <3>2, Zenon
    <2> QED  BY <2>1
  <1>3. HeapSize \in Nat /\ Late(HeapSize) = blocks
    BY BlocksAre, HeapAssumption DEF Late
  <1> QED  BY <1>2, <1>3, ZenonT(60)

LEMMA BytesFromIs ==
  ASSUME Linked(hdr, blocks), NEW free \in BOOLEAN, NEW b \in blocks
  PROVE  BytesFrom(free)[b] = SumAt(BytesFrom(free), free, b)
  <1> DEFINE Sums(f) == [c \in blocks |-> SumAt(f, free, c)]
             sum == CHOOSE f : f = Sums(f)
  <1>1. BytesFrom(free) = [c \in blocks |-> sum[c]]
    BY DEF BytesFrom, SumAt
  <1>2. sum = Sums(sum)
    BY WalkIsDefined, Zenon
  <1>3. BytesFrom(free) = sum
    <2>1. sum = [c \in blocks |-> sum[c]]
      <3> HIDE DEF sum
      <3> QED  BY <1>2
    <2> QED  BY <1>1, <2>1, Zenon
  <1> HIDE DEF sum
  <1> QED  BY <1>2, <1>3, Zenon

\* The blocks from b on fill the heap from b on.
From(b) == {c \in blocks : b <= c}
FillsFrom(b) ==
  /\ BytesFrom(FALSE)[b] \in Nat /\ BytesFrom(TRUE)[b] \in Nat
  /\ IsFiniteSet(From(b))
  /\ BytesFrom(FALSE)[b] + BytesFrom(TRUE)[b] + Hdr * Cardinality(From(b)) = HeapSize - b

LEMMA LastFills ==
  ASSUME Linked(hdr, blocks), NEW b \in blocks, hdr[b].next = Null
  PROVE  FillsFrom(b)
  <1>1. /\ b \in Nat /\ hdr[b].size \in Nat /\ hdr[b].free \in BOOLEAN
        /\ b + Hdr + hdr[b].size = HeapSize
    BY BlocksAre
  <1>2. \A free \in BOOLEAN :
          BytesFrom(free)[b] = IF hdr[b].free = free THEN hdr[b].size ELSE 0
    BY <1>1, BytesFromIs DEF SumAt
  <1>3. From(b) = {b}
    <2>1. ASSUME NEW c \in blocks, b < c PROVE FALSE
      <3>1. End(hdr, b) <= c
        BY <2>1 DEF Linked, Ordered
      <3>2. End(hdr, b) = HeapSize /\ c \in Nat /\ c < HeapSize
        BY BlocksAre
      <3> QED  BY <3>1, <3>2, HeapAssumption
    <2>2. \A c \in blocks : c \in Nat
      BY BlocksAre
    <2>3. ASSUME NEW c \in blocks PROVE b <= c <=> c = b
      <3>1. c \in Nat /\ ~(b < c)
        BY <2>1, <2>2, Zenon
      <3> QED  BY ONLY <1>1, <3>1, SMT
    <2> QED  BY <2>3, Zenon DEF From
  <1>4. IsFiniteSet(From(b)) /\ Cardinality(From(b)) = 1
    BY <1>3, FS_Singleton
  <1>5. PICK u \in Nat, f \in Nat :
          u = BytesFrom(FALSE)[b] /\ f = BytesFrom(TRUE)[b] /\ u + f = hdr[b].size
    <2>1. hdr[b].size + 0 = hdr[b].size /\ 0 + hdr[b].size = hdr[b].size /\ 0 \in Nat
      BY <1>1
    <2>2. CASE hdr[b].free = FALSE
      BY <1>1, <1>2, <2>1, <2>2, Zenon
    <2>3. CASE hdr[b].free = TRUE
      BY <1>1, <1>2, <2>1, <2>3, Zenon
    <2> QED  BY <1>1, <2>2, <2>3
  <1>6. u + f = hdr[b].size
    BY <1>5, Zenon
  <1>7. u + f + Hdr * 1 = HeapSize - b
    BY <1>1, <1>6, HeapAssumption
  <1> QED  BY <1>4, <1>5, <1>7, Zenon DEF FillsFrom

LEMMA NextFills ==
  ASSUME Linked(hdr, blocks), NEW b \in blocks, hdr[b].next # Null, FillsFrom(hdr[b].next)
  PROVE  FillsFrom(b)
  <1>1. PICK n \in blocks : n = hdr[b].next
    BY BlocksAre
  <1>2. /\ b \in Nat /\ n \in Nat /\ b < n /\ hdr[b].size \in Nat /\ hdr[b].free \in BOOLEAN
        /\ n = b + Hdr + hdr[b].size
    BY <1>1, BlocksAre
  <1>3. From(b) = From(n) \cup {b} /\ b \notin From(n)
    <2>1. \A c \in blocks : c \in Nat /\ (c < n => c <= b)
      BY <1>1, BlocksAre, NextIsAfter
    <2>2. \A c \in blocks : b <= c <=> n <= c \/ c = b
      BY <1>2, <2>1
    <2>3. ~(n <= b)
      BY <1>2
    <2> QED  BY <2>2, <2>3, Zenon DEF From
  <1>4. PICK k \in Nat : k = Cardinality(From(n)) /\ IsFiniteSet(From(n))
    BY <1>1, FS_CardinalityType DEF FillsFrom
  <1>5. IsFiniteSet(From(b)) /\ Cardinality(From(b)) = k + 1
    BY <1>3, <1>4, FS_AddElement
  <1>6. PICK u \in Nat, f \in Nat : /\ u = BytesFrom(FALSE)[n] /\ f = BytesFrom(TRUE)[n]
                                   /\ u + f + Hdr * k = HeapSize - n
    BY <1>1, <1>4 DEF FillsFrom
  <1>7. PICK s \in Nat : s = hdr[b].size
    BY <1>2
  <1>8. PICK v \in Nat, g \in Nat :
          v = BytesFrom(FALSE)[b] /\ g = BytesFrom(TRUE)[b] /\ v + g = u + f + s
    <2>1. \A free \in BOOLEAN : BytesFrom(free)[b] =
            (IF hdr[b].free = free THEN s ELSE 0) + BytesFrom(free)[n]
      BY <1>1, <1>7, BytesFromIs DEF SumAt
    <2>2. /\ s + u \in Nat /\ 0 + u \in Nat /\ s + f \in Nat /\ 0 + f \in Nat
          /\ (s + u) + (0 + f) = u + f + s /\ (0 + u) + (s + f) = u + f + s
      OBVIOUS
    <2>3. CASE hdr[b].free = FALSE
      <3>1. BytesFrom(FALSE)[b] = s + u /\ BytesFrom(TRUE)[b] = 0 + f
        BY <1>6, <2>1, <2>3, Zenon
      <3> QED  BY <2>2, <3>1, Zenon
    <2>4. CASE hdr[b].free = TRUE
      <3>1. BytesFrom(FALSE)[b] = 0 + u /\ BytesFrom(TRUE)[b] = s + f
        BY <1>6, <2>1, <2>4, Zenon
      <3> QED  BY <2>2, <3>1, Zenon
    <2> QED  BY <1>2, <2>3, <2>4
  <1>9. v + g + Hdr * (k + 1) = HeapSize - b
    <2>1. PICK p \in Nat : p = Hdr * k /\ Hdr * (k + 1) = p + Hdr
      BY HeapAssumption
    <2>2. u + f + p = HeapSize - n
      BY <1>6, <2>1, Zenon
    <2>3. v + g = u + f + s
      BY <1>8, Zenon
    <2> QED  BY <1>2, <1>7, <2>1, <2>2, <2>3, HeapAssumption
  <1> QED  BY <1>5, <1>8, <1>9, Zenon DEF FillsFrom

\* What kmalloc_get_stats counts, with the headers, is the heap.
LEMMA BytesAreTheHeap ==
  ASSUME Linked(hdr, blocks)
  PROVE  Bytes(FALSE) + Bytes(TRUE) + Hdr * Cardinality(blocks) = HeapSize
  <1> DEFINE open == {n \in Nat : \E b \in blocks : n = HeapSize - b /\ ~FillsFrom(b)}
  <1>1. ASSUME NEW b \in blocks, HeapSize - b \in open, \A m \in open : HeapSize - b <= m
        PROVE  FillsFrom(b)
    <2>1. CASE hdr[b].next = Null
      BY <2>1, LastFills
    <2>2. CASE hdr[b].next # Null
      <3>1. hdr[b].next \in blocks /\ hdr[b].next \in Nat /\ b \in Nat /\ hdr[b].next > b
            /\ hdr[b].next < HeapSize
        BY <2>2, BlocksAre
      <3>2. HeapSize - hdr[b].next \in Nat /\ ~(HeapSize - b <= HeapSize - hdr[b].next)
        BY <3>1, HeapAssumption
      <3>3. FillsFrom(hdr[b].next)
        BY <1>1, <3>1, <3>2
      <3> QED  BY <2>2, <3>3, NextFills
    <2> QED  BY <2>1, <2>2
  <1>2. open = {}
    <2>1. ASSUME open # {} PROVE FALSE
      <3>1. PICK n \in open : \A m \in open : n <= m
        BY <2>1, Least
      <3>2. PICK b \in blocks : n = HeapSize - b /\ ~FillsFrom(b)
        BY <3>1
      <3> QED  BY <1>1, <3>1, <3>2
    <2> QED  BY <2>1
  <1>3. Head \in blocks /\ HeapSize - Head \in Nat /\ HeapSize - Head = HeapSize
    BY HeapAssumption DEF Linked, Typed, Head
  <1>4. FillsFrom(Head)
    BY <1>2, <1>3
  <1>5. From(Head) = blocks
    BY BlocksAre DEF From, Head
  <1> QED  BY <1>3, <1>4, <1>5 DEF FillsFrom, Bytes

\* Whatever is given back, once or twice, is free again and merged, a kmalloc that fails
\* missed no block, and the statistics account for every byte of the heap.
THEOREM NothingLostCorrect == Spec => []NothingLost
  <1>1. IInv => Stats.used + Stats.free + Hdr * Cardinality(blocks) = HeapSize
    BY BytesAreTheHeap DEF IInv, Stats
  <1>2. IInv /\ HeldIsInUse => NothingLost
    BY <1>1 DEF NothingLost
  <1> QED  BY <1>2, IInvAlways, HeldIsInUseCorrect, PTL

=============================================================================
