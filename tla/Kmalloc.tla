------------------------------ MODULE Kmalloc ------------------------------
(***************************************************************************)
(* The kernel heap of src/kernel/memory/kmalloc.c: one list of blocks that *)
(* tile the heap, first fit, blocks split on allocation and merged with    *)
(* their free neighbours on release.                                       *)
(*                                                                         *)
(* Addresses are offsets from g_heap_start.  hdr maps an address to the    *)
(* header stored there; a header taken off the list by a merge stays in    *)
(* memory, KM_MAGIC included, until something is written over it.          *)
(*                                                                         *)
(* Callers are assumed to write in their own payload only.  That is an     *)
(* assumption about the rest of the kernel, and not all of it keeps to it: *)
(* the loader copies a file that is no ELF into the heap (loader.c:233),   *)
(* and exec may be given a block without a payload, or write before its    *)
(* own (cmd_exec.c:88, :123).  What such a caller does to the list is not  *)
(* modelled, and the corruption checks (hdr_sane), which are there for     *)
(* that, are left out.                                                     *)
(*                                                                         *)
(* Of the counters kmalloc_get_stats reads, which grow for ever, only the  *)
(* difference is kept.                                                     *)
(***************************************************************************)
EXTENDS Integers, Functions, FiniteSets, FiniteSetsExt

CONSTANTS
  HeapSize,  \* g_heap_size
  Hdr,       \* sizeof(block_hdr_t)
  Align,     \* the alignment of align16, also the least payload worth a split
  Modulus,   \* what a size_t counts to: sizes wrap at it
  Sizes      \* the sizes callers ask for

ASSUME HeapAssumption ==
  /\ HeapSize \in Nat /\ Hdr \in Nat \ {0} /\ Align \in Nat \ {0}
  /\ Hdr < HeapSize
  /\ Modulus \in Nat /\ HeapSize + Hdr + Align <= Modulus
  /\ Sizes \subseteq 1..(Modulus - 1)

VARIABLES
  hdr,     \* the headers in memory, by address
  blocks,  \* history: the addresses of the headers on the list
  call,    \* the kmalloc call in progress: how far its walk got
  held,    \* g_alloc_count - g_free_count
  live     \* history: payloads given out and not given back, with their sizes

vars == <<hdr, blocks, call, held, live>>

Addr == 0..(HeapSize - 1)
Null == -1
Head == 0

NoCall == [want |-> 0, size |-> 0, at |-> Null]
Idle   == call = NoCall

\* Mutant: the size is rounded down.
Align16Down(n) == (n \div Align) * Align

\* The sum wraps: one of the last sizes a size_t holds becomes 0.
Align16(n) == (((n + Align - 1) % Modulus) \div Align) * Align

\* The bytes of a payload asked for with size n that its caller may use: none
\* when align16 wrapped.
Usable(n) == IF n + Align - 1 < Modulus THEN n ELSE 0

Payload(b) == b + Hdr
End(h, b)  == b + Hdr + h[b].size

-----------------------------------------------------------------------------
(* Split and merge.                                                        *)

\* Mutant: b is linked to the remainder before the remainder takes b's next.
SplitBlockLinkedEarly(h, b, want) ==
  IF h[b].size <= want + Hdr + Align THEN h
  ELSE LET nb   == Payload(b) + want
           rest == [size |-> h[b].size - want - Hdr, free |-> TRUE,
                    next |-> nb, prev |-> b]
       IN  [a \in DOMAIN h \cup {nb} |->
              CASE a = nb        -> rest
                [] a = b         -> [h[a] EXCEPT !.size = want, !.next = nb]
                [] a = h[b].next -> [h[a] EXCEPT !.prev = nb]
                [] OTHER         -> h[a]]

\* Block b keeps want bytes; the rest becomes a free block after it, when it
\* holds a header and more than the least payload.
SplitBlock(h, b, want) ==
  IF h[b].size <= want + Hdr + Align THEN h
  ELSE LET nb   == Payload(b) + want
           rest == [size |-> h[b].size - want - Hdr, free |-> TRUE,
                    next |-> h[b].next, prev |-> b]
       IN  [a \in DOMAIN h \cup {nb} |->
              CASE a = nb        -> rest
                [] a = b         -> [h[a] EXCEPT !.size = want, !.next = nb]
                [] a = h[b].next -> [h[a] EXCEPT !.prev = nb]
                [] OTHER         -> h[a]]

\* Mutant: the block after the absorbed one keeps its prev.
AbsorbStalePrev(h, p, b) ==
  [h EXCEPT ![p].size = @ + Hdr + h[b].size, ![p].next = h[b].next]

\* Block p takes over the block b after it.
Absorb(h, p, b) ==
  [a \in DOMAIN h |->
     CASE a = p         -> [h[a] EXCEPT !.size = @ + Hdr + h[b].size,
                                        !.next = h[b].next]
       [] a = h[b].next -> [h[a] EXCEPT !.prev = p]
       [] OTHER         -> h[a]]

IsFree(h, b) == b \in DOMAIN h /\ h[b].free

MergeNext(h, b) == IF IsFree(h, h[b].next) THEN Absorb(h, b, h[b].next) ELSE h

Coalesce(h, b) ==
  IF IsFree(h, h[b].prev)
  THEN MergeNext(Absorb(h, h[b].prev, b), h[b].prev)
  ELSE MergeNext(h, b)

\* A header off the list is intact while nothing was written over it: no header
\* on the list and no payload in use touches its bytes.
Touches(a, first, last) == a <= last /\ first <= a + Hdr - 1
Intact(h, list, a) ==
  \A b \in list : ~Touches(a, b, IF h[b].free THEN b + Hdr - 1 ELSE End(h, b) - 1)
InMemory(h, list) ==
  Restrict(h, {a \in DOMAIN h : a \in list \/ Intact(h, list, a)})

-----------------------------------------------------------------------------
(* What kmalloc_get_stats counts on its walk over the list.                *)

\* The bytes of the blocks that are free, or not, from a block to the end of the list.
BytesFrom(free) ==
  LET sum[b \in blocks] == (IF hdr[b].free = free THEN hdr[b].size ELSE 0)
                           + (IF hdr[b].next = Null THEN 0 ELSE sum[hdr[b].next])
  IN  [b \in blocks |-> sum[b]]

Bytes(free) == BytesFrom(free)[Head]
Stats == [used |-> Bytes(FALSE), free |-> Bytes(TRUE),
          largest |-> Max({0} \cup {hdr[b].size : b \in {c \in blocks : hdr[c].free}})]

-----------------------------------------------------------------------------

\* kmalloc_init
Init ==
  /\ hdr = [a \in {Head} |-> [size |-> HeapSize - Hdr, free |-> TRUE,
                             next |-> Null, prev |-> Null]]
  /\ blocks = {Head}
  /\ call = NoCall
  /\ held = 0
  /\ live = <<>>

Kmalloc(size) ==
  /\ Idle
  /\ call' = [want |-> Align16(size), size |-> size, at |-> Head]
  /\ UNCHANGED <<hdr, blocks, held, live>>

Fits(b) == hdr[b].free /\ hdr[b].size >= call.want

\* The walk passes a block that is in use or too small.
Walk ==
  /\ call.at # Null
  /\ ~Fits(call.at)
  /\ hdr[call.at].next # Null
  /\ call' = [call EXCEPT !.at = hdr[call.at].next]
  /\ UNCHANGED <<hdr, blocks, held, live>>

\* The end of the list: kmalloc prints the statistics and returns 0.
OutOfMemory ==
  /\ call.at # Null
  /\ ~Fits(call.at)
  /\ hdr[call.at].next = Null
  /\ call' = NoCall
  /\ UNCHANGED <<hdr, blocks, held, live>>

Take ==
  /\ call.at # Null
  /\ Fits(call.at)
  /\ LET b    == call.at
         h    == SplitBlock(hdr, b, call.want)
         used == [h EXCEPT ![b].free = FALSE]
         list == blocks \cup ({h[b].next} \ {Null})
     IN  /\ blocks' = list
         /\ hdr' = InMemory(used, list)
         /\ live' = [p \in DOMAIN live \cup {Payload(b)} |->
                       IF p = Payload(b) THEN call.size ELSE live[p]]
  /\ held' = held + 1
  /\ call' = NoCall

\* Mutant: a block that is free already is merged again.
KfreeTwice(b) ==
  /\ Idle
  /\ b \in DOMAIN hdr
  /\ LET h    == Coalesce([hdr EXCEPT ![b].free = TRUE], b)
         gone == (IF IsFree(hdr, hdr[b].prev) THEN {b} ELSE {})
                   \cup (IF IsFree(hdr, hdr[b].next) THEN {hdr[b].next} ELSE {})
     IN  /\ blocks' = blocks \ gone
         /\ hdr' = InMemory(h, blocks')
  /\ held' = held - 1
  /\ live' = Restrict(live, DOMAIN live \ {Payload(b)})
  /\ UNCHANGED call

\* A caller gives back a payload, or gives one back again: any header that is
\* still in memory passes kfree's magic test.
Kfree(b) ==
  /\ Idle
  /\ b \in DOMAIN hdr
  /\ ~hdr[b].free
  /\ LET h    == Coalesce([hdr EXCEPT ![b].free = TRUE], b)
         gone == (IF IsFree(hdr, hdr[b].prev) THEN {b} ELSE {})
                   \cup (IF IsFree(hdr, hdr[b].next) THEN {hdr[b].next} ELSE {})
     IN  /\ blocks' = blocks \ gone
         /\ hdr' = InMemory(h, blocks')
  /\ held' = held - 1
  /\ live' = Restrict(live, DOMAIN live \ {Payload(b)})
  /\ UNCHANGED call

Next ==
  \/ \E size \in Sizes : Kmalloc(size)
  \/ Walk
  \/ OutOfMemory
  \/ Take
  \/ \E b \in DOMAIN hdr : Kfree(b)

Spec == Init /\ [][Next]_vars /\ WF_vars(Walk \/ OutOfMemory \/ Take)

-----------------------------------------------------------------------------
(* Properties.                                                             *)

\* The list tiles the heap: each block ends where the next begins, the last
\* one at the end of the heap, and prev undoes next.  So hdr_sane holds of
\* every block, as long as callers stay in their payloads.
Tiling ==
  /\ \A b \in blocks :
       IF hdr[b].next = Null THEN End(hdr, b) = HeapSize
       ELSE /\ hdr[b].next \in blocks
            /\ End(hdr, b) = hdr[b].next
            /\ hdr[hdr[b].next].prev = b
  /\ \A b, c \in blocks : b < c => End(hdr, b) <= c

\* Payloads in use lie in the heap, apart from each other and from every
\* header on the list, over all the bytes their callers asked for; a caller
\* whose size wrapped has none to use, and its pointer is that of the next header.
PayloadsDisjoint ==
  \A p \in DOMAIN live :
    /\ p + Usable(live[p]) <= HeapSize
    /\ \A q \in DOMAIN live : p < q => p + Usable(live[p]) <= q
    /\ \A b \in blocks : ~(b + Hdr > p /\ b < p + Usable(live[p]))

\* A block is in use exactly while a caller holds its payload, so when all is
\* given back, repeated calls of kfree included, the heap is one free block.  The
\* statistics account for every call, and a kmalloc that has seen the last block has
\* missed none that is large enough.
HeldIsInUse ==
  /\ {Payload(b) : b \in {c \in blocks : ~hdr[c].free}} = DOMAIN live
  /\ live = <<>> => blocks = {Head}
  /\ held = Cardinality(DOMAIN live)
  /\ call.at # Null /\ ~Fits(call.at) /\ hdr[call.at].next = Null
     => Stats.largest < call.want \/ \A b \in blocks : ~hdr[b].free

\* ... and the statistics account for every byte.
NothingLost ==
  /\ HeldIsInUse
  /\ Stats.used + Stats.free + Hdr * Cardinality(blocks) = HeapSize

\* Every call of kmalloc returns: the list it walks has no cycle.
KmallocReturns == ~Idle ~> Idle

=============================================================================
