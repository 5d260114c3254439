------------------------------- MODULE Ramfs -------------------------------
(***************************************************************************)
(* The memory file system of src/kernel/fs/ramfs.c: a table of nodes, a    *)
(* table of file descriptors, and a pool of bytes handed out in ascending  *)
(* order and never given back.  A file that outgrows its region is copied  *)
(* to a new one, twice as large until it fits.                             *)
(*                                                                         *)
(* A path longer than RAMFS_PATH_MAX is stored cut; Cut maps each path to  *)
(* the one the table keeps.                                                *)
(***************************************************************************)
EXTENDS Integers, Sequences, FiniteSets

CONSTANTS
  NodeIds,   \* 0 .. RAMFS_MAX_FILES - 1
  FdIds,     \* 0 .. RAMFS_MAX_FDS - 1
  PoolSize,  \* RAMFS_POOL_SIZE
  MinCap,    \* the capacity of a file's first region
  Paths, NoPath,
  Cut,       \* what the table keeps of each path
  Bytes,     \* what callers write
  Zero,      \* a byte of the pool never written
  MaxWrite   \* bound: the longest write

ASSUME RamfsAssumption ==
  /\ NodeIds \subseteq Nat /\ FdIds \subseteq Nat
  /\ PoolSize \in Nat /\ MinCap \in Nat \ {0} /\ MaxWrite \in Nat
  /\ Cut \in [Paths -> Paths]
  /\ Zero \notin Bytes /\ NoPath \notin Paths

VARIABLES
  nodes,  \* g_nodes
  pool,   \* g_pool
  top,    \* g_pool_top
  fds     \* g_fds

ramVars == <<nodes, pool, top, fds>>

NoNode == -1

FreeNode == [used |-> FALSE, path |-> NoPath, off |-> 0, cap |-> 0, size |-> 0,
             dir |-> FALSE]
FreeFd   == [used |-> FALSE, node |-> NoNode, pos |-> 0]

\* ramfs_init
RamInit ==
  /\ nodes = [n \in NodeIds |-> FreeNode]
  /\ pool = [i \in 0..(PoolSize - 1) |-> Zero]
  /\ top = 0
  /\ fds = [f \in FdIds |-> FreeFd]

Lowest(S) == {x \in S : \A y \in S : x <= y}

\* find_node, and the entries alloc_node and alloc_fd would take.
Find(p)   == Lowest({n \in NodeIds : nodes[n].used /\ nodes[n].path = p})
FreeNodes == Lowest({n \in NodeIds : ~nodes[n].used})
FreeFds   == Lowest({f \in FdIds : ~fds[f].used})
RamExists(p) == Find(p) # {}

\* alloc_node leaves the type of the entry as it was.
NewNode(n, p) ==
  [nodes[n] EXCEPT !.used = TRUE, !.off = 0, !.cap = 0, !.size = 0, !.path = Cut[p]]

\* The node that holds path p, found or created, and the table with it.
NodeFor(p, create) == Find(p) \cup IF create /\ ~RamExists(p) THEN FreeNodes ELSE {}
NodesWith(p, n) == IF nodes[n].used THEN nodes ELSE [nodes EXCEPT ![n] = NewNode(n, p)]

-----------------------------------------------------------------------------
(* Writing.                                                                *)

\* ensure_capacity: the capacity doubles until it is enough.  None above the size of the
\* pool ever fits.
Capacities(nd) ==
  {c \in 1..PoolSize :
     \E k \in 0..PoolSize : c = (IF nd.cap = 0 THEN MinCap ELSE nd.cap) * 2^k}
Enough(nd, need) == Lowest({c \in Capacities(nd) : c >= need})
NewCap(nd, need) == CHOOSE c \in Enough(nd, need) : TRUE

\* Mutant: the region of the file is not counted as taken.
NextTopKept(nd, need) == top

NextTop(nd, need) == IF need <= nd.cap THEN top ELSE top + NewCap(nd, need)

\* Mutant: a moved file leaves its last byte behind.
MovedShort(nd, off) ==
  [i \in 0..(PoolSize - 1) |->
     IF i \in off..(off + nd.size - 2) THEN pool[nd.off + i - off] ELSE pool[i]]

\* The pool after the file of node nd was copied to off.
Moved(nd, off) ==
  [i \in 0..(PoolSize - 1) |->
     IF i \in off..(off + nd.size - 1) THEN pool[nd.off + i - off] ELSE pool[i]]

Fits(nd, need) == need <= nd.cap \/ \E c \in Enough(nd, need) : top + c <= PoolSize

\* Bytes s are written at position pos of node n of the table nds.
Store(nds, n, pos, s) ==
  LET nd     == nds[n]
      end    == pos + Len(s)
      moves  == end > nd.cap
      off    == IF moves THEN top ELSE nd.off
      copied == IF moves THEN Moved(nd, top) ELSE pool
  IN  /\ pool' = [i \in 0..(PoolSize - 1) |->
                    IF i \in off + pos .. off + end - 1 THEN s[i - off - pos + 1]
                    ELSE copied[i]]
      /\ nodes' = [nds EXCEPT ![n].off = off,
                              ![n].cap = IF moves THEN NewCap(nd, end) ELSE @,
                              ![n].size = IF end > @ THEN end ELSE @]
      /\ top' = NextTop(nd, end)

-----------------------------------------------------------------------------
(* The operations.                                                         *)

\* ramfs_open: a node created stays even if no descriptor is left for it.
RamOpen(p, create, f) ==
  /\ f \in FreeFds
  /\ \E n \in NodeFor(p, create) :
       /\ nodes' = NodesWith(p, n)
       /\ fds' = [fds EXCEPT ![f] = [used |-> TRUE, node |-> n, pos |-> 0]]
  /\ UNCHANGED <<pool, top>>

RamRead(f, n) ==
  /\ fds[f].used
  /\ LET nd   == nodes[fds[f].node]
         left == nd.size - fds[f].pos
     IN  /\ left > 0
         /\ fds' = [fds EXCEPT ![f].pos = @ + (IF n > left THEN left ELSE n)]
  /\ UNCHANGED <<nodes, pool, top>>

\* A write the pool has no room for changes nothing.
RamWrite(f, s) ==
  /\ fds[f].used
  /\ s # <<>>
  /\ Fits(nodes[fds[f].node], fds[f].pos + Len(s))
  /\ Store(nodes, fds[f].node, fds[f].pos, s)
  /\ fds' = [fds EXCEPT ![f].pos = @ + Len(s)]

RamClose(f) ==
  /\ fds' = [fds EXCEPT ![f] = FreeFd]
  /\ UNCHANGED <<nodes, pool, top>>

\* ramfs_write_all: the file is emptied, then written if the pool has room;
\* its descriptor is taken and given back within the call.
RamWriteAll(p, s) ==
  /\ FreeFds # {}
  /\ \E n \in NodeFor(p, TRUE) :
       LET emptied == [NodesWith(p, n) EXCEPT ![n].size = 0]
       IN  IF s # <<>> /\ Fits(emptied[n], Len(s))
           THEN Store(emptied, n, 0, s)
           ELSE nodes' = emptied /\ UNCHANGED <<pool, top>>
  /\ UNCHANGED fds

RamMkdir(p) ==
  /\ ~RamExists(p)
  /\ \E n \in FreeNodes :
       nodes' = [nodes EXCEPT ![n] = [NewNode(n, p) EXCEPT !.dir = TRUE]]
  /\ UNCHANGED <<pool, top, fds>>

RamRename(p, q) ==
  /\ ~RamExists(q)
  /\ \E n \in Find(p) : nodes' = [nodes EXCEPT ![n].path = Cut[q]]
  /\ UNCHANGED <<pool, top, fds>>

=============================================================================
