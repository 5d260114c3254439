--------------------------- MODULE VfsFilesProofs ---------------------------
(***************************************************************************)
(* Proofs about open files and the memory file system, for every number of *)
(* nodes, descriptors and slots, and every size of the pool: the regions   *)
(* of files stay apart, no descriptor is lost, and the memory file system  *)
(* implements plain files.  The last part is about the programs loaded     *)
(* from files (Exec), which share no variable with them.                   *)
(*                                                                         *)
(* What is said of the tables is said of values, not of the variables, so  *)
(* that it holds of the tables before and after a step alike.              *)
(***************************************************************************)
EXTENDS Exec, VfsFiles, SequenceTheorems, TLAPS

Pool == 0 .. PoolSize - 1
AnyByte == Bytes \cup {Zero}

NodeState ==
  [used : BOOLEAN, path : Paths \cup {NoPath}, off : Nat, cap : Nat, size : Nat, dir : BOOLEAN]
FdState == [used : BOOLEAN, node : NodeIds \cup {NoNode}, pos : Nat]
SlotState == [back : {"none", "ram", "toy"}, fd : Int]
ToyFdState == [used : BOOLEAN, file : Nat, pos : Nat]

LEMMA Constants ==
  /\ NodeIds \subseteq Nat /\ FdIds \subseteq Nat /\ SlotIds \subseteq Nat /\ ToyFds \subseteq Nat
  /\ PoolSize \in Nat /\ Zero \notin Bytes /\ NoPath \notin Paths /\ Cut \in [Paths -> Paths]
  BY RamfsAssumption, VfsAssumption, ToyAssumption

-----------------------------------------------------------------------------
(* Nodes and the pool.                                                     *)

Apart(x, y) == x.cap = 0 \/ y.cap = 0 \/ x.off + x.cap <= y.off \/ y.off + y.cap <= x.off

\* What is in a file is its own: it ends within its region, the region below the top of
\* the pool.  The last byte of a file is one that was written to it, so that no file looks
\* like the one never written.
NodeFine(nd, pl, tp) ==
  /\ nd.size <= nd.cap /\ nd.off + nd.cap <= tp
  /\ nd.used => nd.path \in Paths
  /\ ~nd.used => nd.cap = 0
  /\ nd.size > 0 => pl[nd.off + nd.size - 1] \in Bytes

NodesFine(nds, pl, tp) ==
  /\ nds \in [NodeIds -> NodeState] /\ pl \in [Pool -> AnyByte] /\ tp \in 0 .. PoolSize
  /\ \A n \in NodeIds : NodeFine(nds[n], pl, tp)
  /\ \A m, n \in NodeIds : m # n => Apart(nds[m], nds[n])

\* A node as ramfs leaves it when it creates, renames or empties one: with no byte more
\* than it had.
Lighter(x, y) ==
  /\ x \in NodeState
  /\ x.size <= y.size /\ x.size \in {0, y.size}
  /\ (x.off = y.off /\ x.cap = y.cap) \/ (x.off = 0 /\ x.cap = 0)
  /\ x.size <= x.cap
  /\ x.used /\ x.path \in Paths

LEMMA LighterIsFine ==
  ASSUME NEW nds, NEW pl, NEW tp, NodesFine(nds, pl, tp), NEW n \in NodeIds, NEW x, Lighter(x, nds[n])
  PROVE  NodesFine([nds EXCEPT ![n] = x], pl, tp)
  <1> DEFINE new == [nds EXCEPT ![n] = x]
  <1>1. /\ nds \in [NodeIds -> NodeState] /\ pl \in [Pool -> AnyByte] /\ tp \in 0 .. PoolSize
        /\ PoolSize \in Nat /\ x \in NodeState /\ nds[n] \in NodeState
    BY Constants DEF NodesFine, Lighter
  <1>2. new \in [NodeIds -> NodeState] /\ new[n] = x /\ \A m \in NodeIds : m # n => new[m] = nds[m]
    BY <1>1
  <1>3. NodeFine(x, pl, tp)
    <2>1. NodeFine(nds[n], pl, tp)
      BY DEF NodesFine
    <2>2. x.size \in Nat /\ x.cap \in Nat /\ x.off \in Nat /\ nds[n].size \in Nat /\ nds[n].cap \in Nat /\ nds[n].off \in Nat
      BY <1>1 DEF NodeState
    <2> QED  BY <1>1, <2>1, <2>2 DEF NodeFine, Lighter
  <1>4. ASSUME NEW m \in NodeIds, m # n
        PROVE  Apart(x, nds[m]) /\ Apart(nds[m], x)
    <2>1. Apart(nds[n], nds[m]) /\ Apart(nds[m], nds[n])
      BY <1>4 DEF NodesFine
    <2> QED  BY <2>1 DEF Apart, Lighter
  <1> HIDE DEF new
  <1>5. \A m \in NodeIds : NodeFine(new[m], pl, tp)
    BY <1>2, <1>3 DEF NodesFine
  <1>6. \A k, m \in NodeIds : k # m => Apart(new[k], new[m])
    BY <1>2, <1>4 DEF NodesFine
  <1>7. NodesFine(new, pl, tp)
    BY <1>1, <1>2, <1>5, <1>6 DEF NodesFine
  <1> QED  BY <1>7 DEF new

LEMMA NewNodeIsLighter ==
  ASSUME nodes \in [NodeIds -> NodeState], NEW n \in NodeIds, NEW p \in Paths
  PROVE  /\ Lighter(NewNode(n, p), nodes[n])
         /\ Lighter([NewNode(n, p) EXCEPT !.dir = TRUE], nodes[n])
         /\ NewNode(n, p).used /\ NewNode(n, p).path = Cut[p] /\ NewNode(n, p).size = 0
         /\ [NewNode(n, p) EXCEPT !.dir = TRUE].path = Cut[p] /\ [NewNode(n, p) EXCEPT !.dir = TRUE].size = 0
  <1> DEFINE nd == nodes[n]
             q  == Cut[p]
             x  == [nd EXCEPT !.used = TRUE, !.off = 0, !.cap = 0, !.size = 0, !.path = q]
  <1>1. nd \in NodeState /\ q \in Paths
    BY Constants
  <1>2. NewNode(n, p) = x
    BY DEF NewNode
  <1> HIDE DEF nd, q
  <1>3. x \in NodeState /\ x.used /\ x.off = 0 /\ x.cap = 0 /\ x.size = 0 /\ x.path = q
    BY <1>1 DEF NodeState
  <1>4. nd.size \in Nat
    BY <1>1 DEF NodeState
  <1> HIDE DEF x
  <1>5. /\ [x EXCEPT !.dir = TRUE] \in NodeState /\ [x EXCEPT !.dir = TRUE].used /\ [x EXCEPT !.dir = TRUE].off = 0
        /\ [x EXCEPT !.dir = TRUE].cap = 0 /\ [x EXCEPT !.dir = TRUE].size = 0 /\ [x EXCEPT !.dir = TRUE].path = q
    BY <1>3 DEF NodeState
  <1> QED  BY <1>1, <1>2, <1>3, <1>4, <1>5 DEF Lighter, nd, q

\* What a write did: the node's region holds the bytes written and, elsewhere, those it
\* held before; the other regions are as they were.
Wrote(nds, pl, n, pos, s, nds2, pl2) ==
  LET end == pos + Len(s)
      nd  == nds[n]
      nd2 == nds2[n]
  IN  /\ \A m \in NodeIds : m # n => nds2[m] = nds[m]
      /\ nd2.used = nd.used /\ nd2.path = nd.path
      /\ nd2.size = IF end > nd.size THEN end ELSE nd.size
      /\ \A j \in pos .. end - 1 : pl2[nd2.off + j] = s[j - pos + 1]
      /\ \A j \in 0 .. nd.size - 1 : j \notin pos .. end - 1 => pl2[nd2.off + j] = pl[nd.off + j]
      /\ \A m \in NodeIds : m # n => \A i \in Region(nds[m]) : pl2[i] = pl[i]

LEMMA FitsMeans ==
  ASSUME NEW nd, NEW need, Fits(nd, need), need > nd.cap, NEW cap, cap = nd.cap, cap \in Nat, need \in Nat
  PROVE  NewCap(nd, need) \in 1 .. PoolSize /\ NewCap(nd, need) >= need /\ top + NewCap(nd, need) <= PoolSize
  <1>1. PICK c \in Enough(nd, need) : top + c <= PoolSize
    BY DEF Fits
  <1>2. NewCap(nd, need) \in Enough(nd, need)
    BY <1>1 DEF NewCap
  <1>3. \A x \in Enough(nd, need) : x \in 1 .. PoolSize /\ x >= need
    BY DEF Enough, Lowest, Capacities
  <1>4. NewCap(nd, need) = c
    BY <1>1, <1>2, <1>3, Constants DEF Enough, Lowest
  <1> QED  BY <1>1, <1>3, <1>4

LEMMA StoreMeans ==
  ASSUME NEW nds, NodesFine(nds, pool, top), NEW n \in NodeIds, nds[n].used,
         NEW pos \in Nat, NEW s \in Seq(Bytes), s # <<>>,
         Fits(nds[n], pos + Len(s)), Store(nds, n, pos, s)
  PROVE  NodesFine(nodes', pool', top') /\ Wrote(nds, pool, n, pos, s, nodes', pool')
  <1> DEFINE nd    == nds[n]
             end   == pos + Len(s)
             moves == end > nd.cap
             off   == IF moves THEN top ELSE nd.off
             cap   == IF moves THEN NewCap(nd, end) ELSE nd.cap
             size  == IF end > nd.size THEN end ELSE nd.size
             new   == [nd EXCEPT !.off = off, !.cap = cap, !.size = size]
             tp    == IF moves THEN top + NewCap(nd, end) ELSE top
  <1>1. /\ nds \in [NodeIds -> NodeState] /\ nd \in NodeState /\ pool \in [Pool -> AnyByte]
        /\ top \in 0 .. PoolSize /\ PoolSize \in Nat /\ NodeFine(nd, pool, top)
    BY Constants DEF NodesFine
  <1>2. /\ nd.off \in Nat /\ nd.cap \in Nat /\ nd.size \in Nat /\ Len(s) \in Nat \ {0} /\ top \in Nat
        /\ nd.size <= nd.cap /\ nd.off + nd.cap <= top /\ \A k \in 1 .. Len(s) : s[k] \in Bytes
    <2>1. Len(s) \in Nat \ {0} /\ \A k \in 1 .. Len(s) : s[k] \in Bytes
      OBVIOUS
    <2> QED  BY <1>1, <2>1 DEF NodeState, NodeFine
  <1>3. end \in Nat /\ pos < end
    BY <1>2
  <1>4. /\ off \in Nat /\ cap \in Nat /\ size \in Nat /\ tp \in 0 .. PoolSize /\ top <= tp
        /\ end <= cap /\ size <= cap /\ off + cap <= tp /\ end <= size /\ nd.size <= size
        /\ moves => off = top
        /\ ~moves => off = nd.off /\ cap = nd.cap /\ tp = top
    <2>1. CASE moves
      <3>1. NewCap(nd, end) \in 1 .. PoolSize /\ NewCap(nd, end) >= end /\ top + NewCap(nd, end) <= PoolSize
        BY <1>2, <1>3, <2>1, FitsMeans
      <3> QED  BY <1>1, <1>2, <1>3, <2>1, <3>1, SMTT(30)
    <2>2. CASE ~moves
      BY <1>1, <1>2, <1>3, <2>2
    <2> QED  BY <2>1, <2>2
  <1>5. nodes' = [nds EXCEPT ![n] = new] /\ top' = tp
    <2>1. nodes' = [nds EXCEPT ![n].off = off, ![n].cap = cap, ![n].size = size]
      BY DEF Store
    <2>2. top' = tp
      BY <1>2, <1>3 DEF Store, NextTop
    <2> HIDE DEF off, cap, size, tp, end, moves
    <2> QED  BY <1>1, <2>1, <2>2 DEF NodeState
  <1>6. /\ pool' \in [Pool -> AnyByte]
        /\ \A i \in Pool : pool'[i] = IF i \in off + pos .. off + end - 1 THEN s[i - off - pos + 1]
                                      ELSE IF moves /\ i \in off .. off + nd.size - 1 THEN pool[nd.off + i - off]
                                      ELSE pool[i]
    <2> DEFINE val(i) == IF i \in off + pos .. off + end - 1 THEN s[i - off - pos + 1]
                         ELSE IF moves /\ i \in off .. off + nd.size - 1 THEN pool[nd.off + i - off]
                         ELSE pool[i]
    <2>1. pool' = [i \in Pool |-> val(i)]
      BY DEF Store, Moved, Pool
    <2>2. ASSUME NEW i \in Pool PROVE val(i) \in AnyByte
      <3>1. CASE i \in off + pos .. off + end - 1
        <4>1. i - off - pos + 1 \in 1 .. Len(s)
          <5> HIDE DEF off, cap, size, tp, moves
          <5> QED  BY <1>2, <1>3, <1>4, <3>1
        <4>2. s[i - off - pos + 1] \in Bytes
          BY <1>2, <4>1
        <4> QED  BY <3>1, <4>2 DEF AnyByte
      <3>2. CASE i \notin off + pos .. off + end - 1 /\ moves /\ i \in off .. off + nd.size - 1
        <4>1. nd.off + i - off \in Pool
          <5> HIDE DEF off, cap, size, tp, moves, end
          <5> QED  BY <1>1, <1>2, <1>4, <3>2, SMTT(30) DEF Pool
        <4> QED  BY <1>1, <3>2, <4>1
      <3>3. CASE i \notin off + pos .. off + end - 1 /\ ~(moves /\ i \in off .. off + nd.size - 1)
        BY <1>1, <3>3
      <3> QED  BY <3>1, <3>2, <3>3
    <2> HIDE DEF val
    <2>3. pool' \in [Pool -> AnyByte] /\ \A i \in Pool : pool'[i] = val(i)
      BY <2>1, <2>2
    <2> QED  BY <2>3 DEF val
  <1> HIDE DEF end, moves, off, cap, size, tp
  <1>7. /\ new \in NodeState /\ new.off = off /\ new.cap = cap /\ new.size = size
        /\ new.used = nd.used /\ new.path = nd.path
    BY <1>1, <1>4 DEF NodeState
  <1> HIDE DEF nd, new
  <1>8. nodes' \in [NodeIds -> NodeState] /\ nodes'[n] = new /\ \A m \in NodeIds : m # n => nodes'[m] = nds[m]
    BY <1>1, <1>5, <1>7
  \* The bytes of the file, counted from the start of its region.
  <1>9. /\ \A j \in pos .. end - 1 : pool'[off + j] = s[j - pos + 1]
        /\ \A j \in 0 .. nd.size - 1 : j \notin pos .. end - 1 => pool'[off + j] = pool[nd.off + j]
    <2>1. ASSUME NEW j \in pos .. end - 1
          PROVE  pool'[off + j] = s[j - pos + 1]
      <3>1. off + j \in Pool /\ off + j \in off + pos .. off + end - 1 /\ (off + j) - off - pos + 1 = j - pos + 1
        BY <1>1, <1>2, <1>3, <1>4 DEF Pool
      <3> QED  BY <1>6, <3>1
    <2>2. ASSUME NEW j \in 0 .. nd.size - 1, j \notin pos .. end - 1
          PROVE  pool'[off + j] = pool[nd.off + j]
      <3>1. /\ off + j \in Pool /\ off + j \notin off + pos .. off + end - 1
            /\ off + j \in off .. off + nd.size - 1 /\ nd.off + (off + j) - off = nd.off + j
        BY <1>1, <1>2, <1>3, <1>4, <2>2, SMTT(30) DEF Pool
      <3>2. CASE moves
        BY <1>6, <3>1, <3>2
      <3>3. CASE ~moves
        BY <1>4, <1>6, <3>1, <3>3
      <3> QED  BY <3>2, <3>3
    <2> QED  BY <2>1, <2>2
  \* The others are apart from the old region and from the new one.
  <1>10. ASSUME NEW m \in NodeIds, m # n
         PROVE  /\ Apart(new, nds[m]) /\ Apart(nds[m], new)
                /\ nds[m].off \in Nat /\ nds[m].cap \in Nat /\ nds[m].size \in Nat
                /\ nds[m].size <= nds[m].cap /\ nds[m].off + nds[m].cap <= top
                /\ \A i \in Region(nds[m]) : i \in Pool /\ pool'[i] = pool[i]
    <2>1. NodeFine(nds[m], pool, top) /\ Apart(nd, nds[m]) /\ Apart(nds[m], nd) /\ nds[m] \in NodeState
      BY <1>1, <1>10 DEF NodesFine, nd
    <2>2. /\ nds[m].off \in Nat /\ nds[m].cap \in Nat /\ nds[m].size \in Nat
          /\ nds[m].size <= nds[m].cap /\ nds[m].off + nds[m].cap <= top
      BY <2>1 DEF NodeState, NodeFine
    <2>3. Apart(new, nds[m]) /\ Apart(nds[m], new)
      BY <1>2, <1>4, <1>7, <2>1, <2>2 DEF Apart
    <2>4. ASSUME NEW i \in Region(nds[m])
          PROVE  i \in Pool /\ pool'[i] = pool[i]
      <3>1. i \in Nat /\ nds[m].off <= i /\ i < nds[m].off + nds[m].cap /\ i \in Pool
        BY <1>1, <2>2 DEF Region, Pool
      <3>2. i < off \/ off + cap <= i
        BY <1>3, <1>4, <1>7, <2>2, <2>3, <3>1, SMTT(30) DEF Apart
      <3>3. i \notin off + pos .. off + end - 1
        BY <1>3, <1>4, <3>1, <3>2
      <3>4. nd.size \in Nat /\ nd.size <= cap
        BY <1>2, <1>4
      <3>5. i \notin off .. off + nd.size - 1
        BY <1>4, <3>1, <3>2, <3>4
      <3> QED  BY <1>6, <3>1, <3>3, <3>5
    <2> QED  BY <2>2, <2>3, <2>4
  <1>11. NodeFine(new, pool', tp)
    <2>1. new.size > 0 => pool'[new.off + new.size - 1] \in Bytes
      <3>1. CASE end > nd.size
        <4>1. end - 1 \in pos .. end - 1 /\ end - 1 - pos + 1 = Len(s) /\ size = end
          BY <1>2, <1>3, <3>1 DEF end, size
        <4>2. pool'[off + (end - 1)] = s[Len(s)]
          BY <1>9, <4>1
        <4>3. s[Len(s)] \in Bytes
          BY <1>2
        <4>4. off + (end - 1) = off + size - 1
          BY <1>3, <1>4, <4>1
        <4> QED  BY <1>7, <4>2, <4>3, <4>4
      <3>2. CASE ~(end > nd.size)
        <4>1. size = nd.size /\ size - 1 \in 0 .. nd.size - 1 /\ off + (size - 1) = off + size - 1
              /\ nd.off + (size - 1) = nd.off + nd.size - 1
          BY <1>2, <1>3, <1>4, <3>2, SMTT(30) DEF size
        <4>2. CASE size - 1 \in pos .. end - 1
          <5>1. pool'[off + (size - 1)] = s[(size - 1) - pos + 1]
            BY <1>9, <4>2
          <5>2. (size - 1) - pos + 1 \in 1 .. Len(s)
            BY <1>3, <1>4, <4>2 DEF end
          <5>3. s[(size - 1) - pos + 1] \in Bytes
            BY <1>2, <5>2
          <5> QED  BY <1>7, <4>1, <5>1, <5>3
        <4>3. CASE size - 1 \notin pos .. end - 1
          <5>1. pool'[off + (size - 1)] = pool[nd.off + (size - 1)]
            BY <1>9, <4>1, <4>3
          <5>2. pool[nd.off + nd.size - 1] \in Bytes
            BY <1>1, <1>2, <1>3, <3>2 DEF NodeFine
          <5> QED  BY <1>7, <4>1, <5>1, <5>2
        <4> QED  BY <4>2, <4>3
      <3> QED  BY <3>1, <3>2
    <2> QED  BY <1>1, <1>4, <1>7, <2>1 DEF NodeFine, nd
  <1>12. ASSUME NEW m \in NodeIds PROVE NodeFine(nodes'[m], pool', top')
    <2>1. CASE m = n
      BY <1>5, <1>8, <1>11, <2>1
    <2>2. CASE m # n
      <3>1. NodeFine(nds[m], pool, top)
        BY DEF NodesFine
      <3>2. nds[m].size > 0 => pool'[nds[m].off + nds[m].size - 1] = pool[nds[m].off + nds[m].size - 1]
        <4>1. SUFFICES ASSUME nds[m].size > 0
                       PROVE  nds[m].off + nds[m].size - 1 \in Region(nds[m])
          BY <1>10, <2>2
        <4>2. nds[m].off \in Nat /\ nds[m].cap \in Nat /\ nds[m].size \in Nat /\ nds[m].size <= nds[m].cap
          BY <1>10, <2>2
        <4> QED  BY <4>1, <4>2, SMTT(30) DEF Region
      <3>3. nds[m].off + nds[m].cap <= tp
        BY <1>2, <1>4, <1>10, <2>2, SMTT(30)
      <3>4. NodeFine(nds[m], pool', tp)
        BY <3>1, <3>2, <3>3 DEF NodeFine
      <3> QED  BY <1>5, <1>8, <2>2, <3>4
    <2> QED  BY <2>1, <2>2
  <1>13. \A k, m \in NodeIds : k # m => Apart(nodes'[k], nodes'[m])
    BY <1>8, <1>10 DEF NodesFine
  <1>14. NodesFine(nodes', pool', top')
    BY <1>4, <1>5, <1>6, <1>8, <1>12, <1>13 DEF NodesFine
  <1>15. Wrote(nds, pool, n, pos, s, nodes', pool')
    BY <1>7, <1>8, <1>9, <1>10 DEF Wrote, nd, end, size
  <1> QED  BY <1>14, <1>15

-----------------------------------------------------------------------------
(* The operations of the memory file system.                               *)

NodesInv == NodesFine(nodes, pool, top)

\* A descriptor in use is of a node in use: nodes are never given back.
FdsInv ==
  /\ fds \in [FdIds -> FdState]
  /\ \A f \in FdIds : fds[f].used => fds[f].node \in NodeIds /\ nodes[fds[f].node].used

RamInv == NodesInv /\ FdsInv

NodesKept(nds) == \A n \in NodeIds : nodes[n].used => nds[n].used

LEMMA NodesWithMeans ==
  ASSUME NodesInv, NEW p \in Paths, NEW create \in BOOLEAN, NEW n \in NodeFor(p, create)
  PROVE  /\ n \in NodeIds
         /\ NodesFine(NodesWith(p, n), pool, top)
         /\ NodesWith(p, n)[n].used
         /\ \A m \in NodeIds : m # n => NodesWith(p, n)[m] = nodes[m]
         /\ nodes[n].used => n \in Find(p) /\ NodesWith(p, n) = nodes
         /\ ~nodes[n].used => /\ create /\ Find(p) = {} /\ n \in FreeNodes
                              /\ NodesWith(p, n)[n].path = Cut[p] /\ NodesWith(p, n)[n].size = 0
  <1>0. n \in Find(p) \/ (create /\ Find(p) = {} /\ n \in FreeNodes)
    BY DEF NodeFor, RamExists
  <1>1. nodes \in [NodeIds -> NodeState] /\ n \in NodeIds
    BY <1>0 DEF NodesInv, NodesFine, Find, FreeNodes, Lowest
  <1>2. CASE nodes[n].used
    <2>1. n \in Find(p)
      BY <1>0, <1>2 DEF FreeNodes, Lowest
    <2>2. NodesWith(p, n) = nodes
      BY <1>2 DEF NodesWith
    <2> QED  BY <1>1, <1>2, <2>1, <2>2 DEF NodesInv
  <1>3. CASE ~nodes[n].used
    <2>1. create /\ Find(p) = {} /\ n \in FreeNodes
      BY <1>0, <1>3 DEF Find, Lowest
    <2>2. NodesWith(p, n) = [nodes EXCEPT ![n] = NewNode(n, p)]
      BY <1>3 DEF NodesWith
    <2>3. NodesFine(NodesWith(p, n), pool, top)
      <3>1. Lighter(NewNode(n, p), nodes[n])
        BY <1>1, NewNodeIsLighter
      <3>2. n \in NodeIds /\ NodesFine(nodes, pool, top)
        BY <1>1 DEF NodesInv
      <3>3. NodesFine([nodes EXCEPT ![n] = NewNode(n, p)], pool, top)
        BY <3>1, <3>2, LighterIsFine
      <3> QED  BY <2>2, <3>3
    <2>4. NodesWith(p, n)[n] = NewNode(n, p) /\ \A m \in NodeIds : m # n => NodesWith(p, n)[m] = nodes[m]
      BY <1>1, <2>2
    <2>5. NewNode(n, p).used /\ NewNode(n, p).path = Cut[p] /\ NewNode(n, p).size = 0
      BY <1>1, NewNodeIsLighter
    <2> QED  BY <1>1, <1>3, <2>1, <2>3, <2>4, <2>5
  <1> QED  BY <1>2, <1>3

LEMMA EmptiedIsFine ==
  ASSUME NEW nds, NEW pl, NEW tp, NodesFine(nds, pl, tp), NEW n \in NodeIds, nds[n].used
  PROVE  /\ NodesFine([nds EXCEPT ![n].size = 0], pl, tp)
         /\ [nds EXCEPT ![n].size = 0][n].used /\ [nds EXCEPT ![n].size = 0][n].path = nds[n].path
         /\ [nds EXCEPT ![n].size = 0][n].size = 0
         /\ \A m \in NodeIds : m # n => [nds EXCEPT ![n].size = 0][m] = nds[m]
  <1> DEFINE nd == nds[n]
             x  == [nd EXCEPT !.size = 0]
  <1>1. nds \in [NodeIds -> NodeState] /\ nd \in NodeState /\ NodeFine(nd, pl, tp)
    BY DEF NodesFine
  <1>2. [nds EXCEPT ![n].size = 0] = [nds EXCEPT ![n] = x]
    BY <1>1
  <1> HIDE DEF nd
  <1>3. x \in NodeState /\ x.size = 0 /\ x.used = nd.used /\ x.path = nd.path /\ x.off = nd.off /\ x.cap = nd.cap
    BY <1>1 DEF NodeState
  <1>4. nd.size \in Nat /\ nd.cap \in Nat /\ nd.used
    BY <1>1 DEF NodeState, nd
  <1> HIDE DEF x
  <1>5. Lighter(x, nd)
    BY <1>1, <1>3, <1>4 DEF Lighter, NodeFine
  <1> QED  BY <1>1, <1>2, <1>3, <1>4, <1>5, LighterIsFine DEF nd

LEMMA RamOpenKeeps ==
  ASSUME RamInv, NEW p \in Paths, NEW create \in BOOLEAN, NEW f \in FdIds, RamOpen(p, create, f)
  PROVE  RamInv' /\ NodesKept(nodes')
  <1>1. PICK n \in NodeFor(p, create) :
          /\ nodes' = NodesWith(p, n)
          /\ fds' = [fds EXCEPT ![f] = [used |-> TRUE, node |-> n, pos |-> 0]]
    BY DEF RamOpen
  <1>2. /\ n \in NodeIds /\ nodes'[n].used /\ NodesFine(nodes', pool, top)
        /\ \A m \in NodeIds : m # n => nodes'[m] = nodes[m]
    BY <1>1, NodesWithMeans DEF RamInv
  <1>3. NodesInv' /\ NodesKept(nodes')
    BY <1>2 DEF RamOpen, NodesInv, NodesKept
  <1>4. fds' \in [FdIds -> FdState]
    BY <1>1, <1>2 DEF RamInv, FdsInv, FdState
  <1>5. FdsInv'
    BY <1>1, <1>2, <1>3, <1>4 DEF RamInv, FdsInv, NodesKept
  <1> QED  BY <1>3, <1>5 DEF RamInv

\* The open that finds no room for a descriptor.
LEMMA NodeLeftKeeps ==
  ASSUME RamInv, NEW p \in Paths, NEW create \in BOOLEAN,
         \E n \in NodeFor(p, create) : nodes' = NodesWith(p, n), UNCHANGED <<pool, top, fds>>
  PROVE  RamInv' /\ NodesKept(nodes')
  <1>1. PICK n \in NodeFor(p, create) : nodes' = NodesWith(p, n)
    OBVIOUS
  <1>2. /\ n \in NodeIds /\ nodes'[n].used /\ NodesFine(nodes', pool, top)
        /\ \A m \in NodeIds : m # n => nodes'[m] = nodes[m]
    BY <1>1, NodesWithMeans DEF RamInv
  <1>3. NodesInv' /\ NodesKept(nodes')
    BY <1>2 DEF NodesInv, NodesKept
  <1>4. FdsInv'
    BY <1>3 DEF RamInv, FdsInv, NodesKept
  <1> QED  BY <1>3, <1>4 DEF RamInv

LEMMA RamReadKeeps ==
  ASSUME RamInv, NEW f \in FdIds, NEW n \in Nat, RamRead(f, n)
  PROVE  RamInv'
  <1> DEFINE nd   == nodes[fds[f].node]
             left == nd.size - fds[f].pos
             k    == IF n > left THEN left ELSE n
             pos  == fds[f].pos + k
  <1>1. nd.size \in Nat /\ fds[f].pos \in Nat /\ fds[f] \in FdState
    BY DEF RamRead, RamInv, NodesInv, NodesFine, FdsInv, NodeState, FdState
  <1>2. pos \in Nat
    BY <1>1 DEF RamRead
  <1>3. fds' = [fds EXCEPT ![f].pos = pos]
    BY DEF RamRead
  <1> HIDE DEF pos
  <1>4. fds' \in [FdIds -> FdState] /\ \A g \in FdIds : fds'[g].used = fds[g].used /\ fds'[g].node = fds[g].node
    BY <1>1, <1>2, <1>3 DEF RamInv, FdsInv, FdState
  <1> QED  BY <1>4 DEF RamRead, RamInv, NodesInv, FdsInv

LEMMA RamWriteKeeps ==
  ASSUME RamInv, NEW f \in FdIds, NEW s \in Seq(Bytes), RamWrite(f, s)
  PROVE  RamInv' /\ NodesKept(nodes')
  <1> DEFINE n   == fds[f].node
             pos == fds[f].pos
             end == pos + Len(s)
  <1>1. n \in NodeIds /\ nodes[n].used /\ pos \in Nat /\ fds[f] \in FdState /\ fds \in [FdIds -> FdState]
    BY DEF RamWrite, RamInv, FdsInv, FdState
  <1>2. NodesInv' /\ Wrote(nodes, pool, n, pos, s, nodes', pool')
    BY <1>1, StoreMeans DEF RamWrite, RamInv, NodesInv
  <1>3. end \in Nat
    BY <1>1
  <1>4. fds' = [fds EXCEPT ![f].pos = end]
    BY DEF RamWrite
  <1> HIDE DEF n, end
  <1>5. fds' \in [FdIds -> FdState] /\ \A g \in FdIds : fds'[g].used = fds[g].used /\ fds'[g].node = fds[g].node
    BY <1>1, <1>3, <1>4 DEF FdState
  <1>6. NodesKept(nodes')
    BY <1>1, <1>2 DEF Wrote, NodesKept
  <1>7. FdsInv'
    BY <1>5, <1>6 DEF RamInv, FdsInv, NodesKept
  <1> QED  BY <1>2, <1>6, <1>7 DEF RamInv

LEMMA RamCloseKeeps ==
  ASSUME RamInv, NEW f \in FdIds, RamClose(f)
  PROVE  RamInv'
  <1>1. fds' \in [FdIds -> FdState] /\ \A g \in FdIds : fds'[g].used => g # f /\ fds'[g] = fds[g]
    BY DEF RamClose, RamInv, FdsInv, FdState, FreeFd, NoNode
  <1> QED  BY <1>1 DEF RamClose, RamInv, NodesInv, FdsInv

LEMMA RamWriteAllKeeps ==
  ASSUME RamInv, NEW p \in Paths, NEW s \in Seq(Bytes), RamWriteAll(p, s)
  PROVE  RamInv' /\ NodesKept(nodes')
  <1>1. PICK n \in NodeFor(p, TRUE) :
          LET emptied == [NodesWith(p, n) EXCEPT ![n].size = 0]
          IN  IF s # <<>> /\ Fits(emptied[n], Len(s))
              THEN Store(emptied, n, 0, s)
              ELSE nodes' = emptied /\ UNCHANGED <<pool, top>>
    BY DEF RamWriteAll
  <1> DEFINE emptied == [NodesWith(p, n) EXCEPT ![n].size = 0]
  <1>2. /\ n \in NodeIds /\ NodesFine(NodesWith(p, n), pool, top) /\ NodesWith(p, n)[n].used
        /\ \A m \in NodeIds : m # n => NodesWith(p, n)[m] = nodes[m]
    BY NodesWithMeans DEF RamInv
  <1>3. /\ NodesFine(emptied, pool, top) /\ emptied[n].used
        /\ \A m \in NodeIds : m # n => emptied[m] = nodes[m]
    BY <1>2, EmptiedIsFine
  <1> HIDE DEF emptied
  <1>4. NodesInv' /\ nodes'[n].used /\ \A m \in NodeIds : m # n => nodes'[m] = nodes[m]
    <2>1. CASE s # <<>> /\ Fits(emptied[n], Len(s))
      <3>1. Store(emptied, n, 0, s) /\ 0 + Len(s) = Len(s)
        BY <1>1, <2>1 DEF emptied
      <3>2. NodesInv' /\ Wrote(emptied, pool, n, 0, s, nodes', pool')
        BY <1>2, <1>3, <2>1, <3>1, StoreMeans DEF NodesInv
      <3> QED  BY <1>3, <3>2 DEF Wrote
    <2>2. CASE ~(s # <<>> /\ Fits(emptied[n], Len(s)))
      <3>1. nodes' = emptied /\ UNCHANGED <<pool, top>>
        BY <1>1, <2>2 DEF emptied
      <3> QED  BY <1>3, <3>1 DEF NodesInv
    <2> QED  BY <2>1, <2>2
  <1>5. NodesKept(nodes')
    BY <1>4 DEF NodesKept
  <1>6. FdsInv'
    BY <1>5 DEF RamWriteAll, RamInv, FdsInv, NodesKept
  <1> QED  BY <1>4, <1>5, <1>6 DEF RamInv

LEMMA RamMkdirKeeps ==
  ASSUME RamInv, NEW p \in Paths, RamMkdir(p)
  PROVE  RamInv' /\ NodesKept(nodes')
  <1>1. PICK n \in FreeNodes : nodes' = [nodes EXCEPT ![n] = [NewNode(n, p) EXCEPT !.dir = TRUE]]
    BY DEF RamMkdir
  <1> DEFINE x == [NewNode(n, p) EXCEPT !.dir = TRUE]
  <1>2. n \in NodeIds /\ nodes \in [NodeIds -> NodeState]
    BY DEF FreeNodes, Lowest, RamInv, NodesInv, NodesFine
  <1>3. Lighter(x, nodes[n])
    BY <1>2, NewNodeIsLighter
  <1> HIDE DEF x
  <1>4. nodes' = [nodes EXCEPT ![n] = x]
    BY <1>1 DEF x
  <1>5. NodesFine(nodes', pool, top)
    BY <1>2, <1>3, <1>4, LighterIsFine DEF RamInv, NodesInv
  <1>6. NodesKept(nodes')
    BY <1>2, <1>3, <1>4 DEF NodesKept, Lighter
  <1> QED  BY <1>5, <1>6 DEF RamMkdir, RamInv, NodesInv, FdsInv, NodesKept

LEMMA RamRenameKeeps ==
  ASSUME RamInv, NEW p \in Paths, NEW q \in Paths, RamRename(p, q)
  PROVE  RamInv' /\ NodesKept(nodes')
  <1>1. PICK n \in Find(p) : nodes' = [nodes EXCEPT ![n].path = Cut[q]]
    BY DEF RamRename
  <1> DEFINE nd == nodes[n]
             r  == Cut[q]
             x  == [nd EXCEPT !.path = r]
  <1>2. /\ n \in NodeIds /\ nodes \in [NodeIds -> NodeState] /\ nd \in NodeState /\ nd.used /\ r \in Paths
        /\ NodeFine(nd, pool, top)
    BY Constants DEF Find, Lowest, RamInv, NodesInv, NodesFine
  <1>3. nodes' = [nodes EXCEPT ![n] = x]
    BY <1>1, <1>2
  <1> HIDE DEF nd, r
  <1>4. x \in NodeState /\ x.used /\ x.path = r /\ x.off = nd.off /\ x.cap = nd.cap /\ x.size = nd.size
    BY <1>2 DEF NodeState
  <1>5. nd.size \in Nat
    BY <1>2 DEF NodeState
  <1> HIDE DEF x
  <1>6. Lighter(x, nd)
    BY <1>2, <1>4, <1>5 DEF Lighter, NodeFine
  <1>7. NodesFine(nodes', pool, top)
    BY <1>2, <1>3, <1>6, LighterIsFine DEF RamInv, NodesInv, nd
  <1>8. NodesKept(nodes')
    BY <1>2, <1>3, <1>4 DEF NodesKept
  <1> QED  BY <1>7, <1>8 DEF RamRename, RamInv, NodesInv, FdsInv, NodesKept

-----------------------------------------------------------------------------
(* The files of the image, and the table of open files.                    *)

\* What the reads of a descriptor put out is the file up to its position.
GivenIs(files, fd, g) ==
  IF fd.used
  THEN fd.file \in DOMAIN files /\ g = [i \in 1 .. fd.pos |-> files[fd.file].off + i - 1]
  ELSE g = <<>>

ToyInv ==
  /\ \A i \in DOMAIN toyFiles : i \in Nat /\ toyFiles[i].off \in Nat /\ toyFiles[i].size \in Nat
  /\ toyFds \in [ToyFds -> ToyFdState]
  /\ DOMAIN given = ToyFds
  /\ \A f \in ToyFds : GivenIs(toyFiles, toyFds[f], given[f])

\* No two slots hold the same descriptor, and every descriptor in use has its slot.
SlotsFine(sl, rf, tf) ==
  /\ sl \in [SlotIds -> SlotState]
  /\ \A i \in SlotIds :
       /\ sl[i].back = "none" => sl[i] = NoFile
       /\ sl[i].back = "ram" => sl[i].fd \in FdIds /\ rf[sl[i].fd].used
       /\ sl[i].back = "toy" => sl[i].fd \in ToyFds /\ tf[sl[i].fd].used
  /\ \A f \in FdIds : rf[f].used => \E i \in SlotIds : sl[i] = [back |-> "ram", fd |-> f]
  /\ \A f \in ToyFds : tf[f].used => \E i \in SlotIds : sl[i] = [back |-> "toy", fd |-> f]
  /\ \A i, j \in SlotIds : i # j /\ sl[i] = sl[j] => sl[i].back = "none"

SlotsInv == SlotsFine(slots, fds, toyFds)

ToyTable == \A i \in DOMAIN toyFiles : i \in Nat /\ toyFiles[i].off \in Nat /\ toyFiles[i].size \in Nat

LEMMA ToyInitHolds ==
  ASSUME ToyInit
  PROVE  ToyInv
  <1>1. PICK im \in Images \cup {NoImage} : toyFiles = TableOf(im)
    BY DEF ToyInit
  <1>2. ToyTable
    <2>1. CASE im = NoImage \/ ~im.magic \/ im.count <= 0
      <3>1. toyFiles = <<>>
        BY <1>1, <2>1 DEF TableOf
      <3> QED  BY <3>1 DEF ToyTable
    <2>2. CASE ~(im = NoImage \/ ~im.magic \/ im.count <= 0)
      <3> DEFINE k == IF im.count > MaxFiles THEN MaxFiles ELSE im.count
      <3>1. toyFiles = [i \in 1 .. k |-> im.table[i]]
        BY <1>1, <2>2 DEF TableOf
      <3>2. /\ im.count \in Int /\ MaxFiles \in Nat
            /\ MaxFiles <= Len(im.table) \/ im.count <= Len(im.table)
            /\ \A i \in 1 .. Len(im.table) : im.table[i].off \in Nat /\ im.table[i].size \in Nat
        BY <2>2, ToyAssumption
      <3>3. k \in Int /\ k <= Len(im.table)
        BY <3>2
      <3> HIDE DEF k
      <3>4. \A i \in 1 .. k : i \in 1 .. Len(im.table)
        BY <3>3
      <3> QED  BY <3>1, <3>2, <3>3, <3>4 DEF ToyTable
    <2> QED  BY <2>1, <2>2
  <1>3. toyFds \in [ToyFds -> ToyFdState] /\ DOMAIN given = ToyFds
    BY DEF ToyInit, ToyFdState, FreeToyFd
  <1>4. \A f \in ToyFds : GivenIs(toyFiles, toyFds[f], given[f])
    BY DEF ToyInit, GivenIs, FreeToyFd
  <1> QED  BY <1>2, <1>3, <1>4 DEF ToyInv, ToyTable

LEMMA ToyOpenKeeps ==
  ASSUME ToyInv, NEW p, NEW f \in ToyFds, ToyOpen(p, f)
  PROVE  ToyInv' /\ f \in ToyFds /\ ~toyFds[f].used
  <1>1. PICK i \in ToyFind(p) : toyFds' = [toyFds EXCEPT ![f] = [used |-> TRUE, file |-> i, pos |-> 0]]
    BY DEF ToyOpen
  <1>2. i \in DOMAIN toyFiles /\ i \in Nat /\ ~toyFds[f].used /\ toyFiles' = toyFiles /\ given' = given
    BY DEF ToyOpen, ToyFind, FreeToyFds, LowestOf, ToyInv
  <1>3. /\ toyFds' \in [ToyFds -> ToyFdState] /\ toyFds'[f] = [used |-> TRUE, file |-> i, pos |-> 0]
        /\ \A g \in ToyFds : g # f => toyFds'[g] = toyFds[g]
    BY <1>1, <1>2 DEF ToyInv, ToyFdState
  <1>4. GivenIs(toyFiles, toyFds'[f], given[f])
    <2>1. given[f] = <<>>
      BY <1>2 DEF ToyInv, GivenIs
    <2>2. <<>> = [j \in 1 .. 0 |-> toyFiles[i].off + j - 1]
      OBVIOUS
    <2> QED  BY <1>2, <1>3, <2>1, <2>2 DEF GivenIs
  <1>5. \A g \in ToyFds : GivenIs(toyFiles', toyFds'[g], given'[g])
    BY <1>2, <1>3, <1>4 DEF ToyInv
  <1> QED  BY <1>2, <1>3, <1>5 DEF ToyInv

\* Consecutive numbers, and those that follow.
LEMMA RunsAppend ==
  ASSUME NEW a \in Nat, NEW p \in Nat, NEW m \in Nat
  PROVE  [i \in 1 .. p |-> a + i - 1] \o [i \in 1 .. m |-> a + p + i - 1] = [i \in 1 .. p + m |-> a + i - 1]
  <1> DEFINE s == [i \in 1 .. p |-> a + i - 1]
             t == [i \in 1 .. m |-> a + p + i - 1]
             u == [i \in 1 .. p + m |-> a + i - 1]
  <1>1. /\ s \in Seq(Int) /\ Len(s) = p /\ t \in Seq(Int) /\ Len(t) = m
        /\ u \in Seq(Int) /\ Len(u) = p + m
    <2>1. s \in Seq(Int) /\ Len(s) = p
      OBVIOUS
    <2>2. t \in Seq(Int) /\ Len(t) = m
      OBVIOUS
    <2>3. u \in Seq(Int) /\ Len(u) = p + m
      OBVIOUS
    <2> QED  BY <2>1, <2>2, <2>3
  <1>2. /\ s \o t \in Seq(Int) /\ Len(s \o t) = p + m
        /\ \A i \in 1 .. p + m : (s \o t)[i] = IF i <= p THEN s[i] ELSE t[i - p]
    <2> HIDE DEF s, t
    <2> QED  BY <1>1, ConcatProperties, ZenonT(60)
  <1>3. ASSUME NEW i \in 1 .. p + m
        PROVE  (s \o t)[i] = u[i]
    <2>1. u[i] = a + i - 1
      OBVIOUS
    <2>2. CASE i <= p
      <3>1. i \in 1 .. p
        BY <2>2
      <3>2. s[i] = a + i - 1
        BY <3>1
      <3> HIDE DEF s, t, u
      <3> QED  BY <1>2, <2>1, <2>2, <3>2
    <2>3. CASE ~(i <= p)
      <3>1. i - p \in 1 .. m
        BY <2>3
      <3>2. t[i - p] = a + p + (i - p) - 1
        BY <3>1
      <3>3. a + p + (i - p) - 1 = a + i - 1
        OBVIOUS
      <3> HIDE DEF s, t, u
      <3> QED  BY <1>2, <2>1, <2>3, <3>2, <3>3
    <2> QED  BY <2>2, <2>3
  <1> HIDE DEF s, t, u
  <1>4. s \o t = u
    BY <1>1, <1>2, <1>3, SeqEqual
  <1> QED  BY <1>4 DEF s, t, u

LEMMA ToyReadKeeps ==
  ASSUME ToyInv, NEW f \in ToyFds, NEW n \in Nat, ToyRead(f, n)
  PROVE  ToyInv' /\ \A g \in ToyFds : toyFds'[g].used = toyFds[g].used
  <1> DEFINE fl   == toyFiles[toyFds[f].file]
             pos  == toyFds[f].pos
             asks == IF n > fl.size - pos THEN fl.size - pos ELSE n
             from == fl.off + pos
  <1>1. /\ toyFds \in [ToyFds -> ToyFdState] /\ toyFds[f] \in ToyFdState /\ pos \in Nat
        /\ fl.off \in Nat /\ fl.size \in Nat /\ toyFds[f].file \in DOMAIN toyFiles /\ toyFds[f].used
        /\ given[f] = [i \in 1 .. pos |-> fl.off + i - 1] /\ toyFiles' = toyFiles
    BY SMTT(30) DEF ToyRead, ToyInv, GivenIs, ToyFdState
  <1>2. PICK m \in Stops(from, asks) :
          /\ toyFds' = [toyFds EXCEPT ![f].pos = pos + m]
          /\ given' = [given EXCEPT ![f] = given[f] \o [i \in 1..m |-> from + i - 1]]
    BY DEF ToyRead
  <1>3. m \in Nat /\ pos + m \in Nat /\ from \in Nat
    <2>1. asks \in Nat
      BY <1>1 DEF ToyRead
    <2> HIDE DEF asks
    <2>2. m \in Nat
      BY <1>2, <2>1, SMTT(30) DEF Stops
    <2> QED  BY <1>1, <2>2
  <1> DEFINE s == [i \in 1 .. pos |-> fl.off + i - 1]
             t == [i \in 1 .. m |-> from + i - 1]
             u == [i \in 1 .. pos + m |-> fl.off + i - 1]
             k == pos + m
  <1>4. s \o t = u
    <2> DEFINE a == fl.off
    <2>1. a \in Nat /\ pos \in Nat
      BY <1>1
    <2> HIDE DEF a, pos
    <2>2. [i \in 1 .. pos |-> a + i - 1] \o [i \in 1 .. m |-> a + pos + i - 1] = [i \in 1 .. pos + m |-> a + i - 1]
      BY <1>3, <2>1, RunsAppend
    <2> QED  BY <2>2 DEF a
  <1>5. /\ toyFds' \in [ToyFds -> ToyFdState] /\ toyFds'[f].used /\ toyFds'[f].file = toyFds[f].file
        /\ toyFds'[f].pos = k
        /\ \A g \in ToyFds : g # f => toyFds'[g] = toyFds[g]
    <2>1. k \in Nat /\ toyFds' = [toyFds EXCEPT ![f].pos = k]
      BY <1>2, <1>3
    <2> HIDE DEF k
    <2> QED  BY <1>1, <2>1 DEF ToyFdState
  <1>6. given'[f] = u /\ DOMAIN given' = ToyFds /\ \A g \in ToyFds : g # f => given'[g] = given[g]
    <2>1. DOMAIN given = ToyFds
      BY DEF ToyInv
    <2> HIDE DEF s, t, u, from
    <2>2. given' = [given EXCEPT ![f] = s \o t]
      BY <1>1, <1>2 DEF s, t
    <2> QED  BY <1>4, <2>1, <2>2
  <1>7. GivenIs(toyFiles, toyFds'[f], given'[f])
    BY <1>1, <1>5, <1>6 DEF GivenIs
  <1>8. \A g \in ToyFds : GivenIs(toyFiles', toyFds'[g], given'[g])
    BY <1>1, <1>5, <1>6, <1>7 DEF ToyInv
  <1>9. ToyInv'
    BY <1>1, <1>5, <1>6, <1>8 DEF ToyInv
  <1>10. \A g \in ToyFds : toyFds[g].used \in BOOLEAN /\ toyFds'[g].used \in BOOLEAN
    BY <1>1, <1>5 DEF ToyFdState
  <1>11. \A g \in ToyFds : toyFds'[g].used = toyFds[g].used
    BY <1>1, <1>5, <1>10
  <1> QED  BY <1>9, <1>11

LEMMA ToyCloseKeeps ==
  ASSUME ToyInv, NEW f \in ToyFds, ToyClose(f)
  PROVE  ToyInv'
  <1>1. /\ toyFds' \in [ToyFds -> ToyFdState] /\ ~toyFds'[f].used
        /\ \A g \in ToyFds : g # f => toyFds'[g] = toyFds[g]
    BY DEF ToyClose, ToyInv, ToyFdState, FreeToyFd
  <1>2. /\ DOMAIN given' = ToyFds /\ given'[f] = <<>> /\ toyFiles' = toyFiles
        /\ \A g \in ToyFds : g # f => given'[g] = given[g]
    BY DEF ToyClose, ToyInv
  <1>3. \A g \in ToyFds : GivenIs(toyFiles', toyFds'[g], given'[g])
    <2>1. GivenIs(toyFiles', toyFds'[f], given'[f])
      BY <1>1, <1>2 DEF GivenIs
    <2> QED  BY <1>1, <1>2, <2>1 DEF ToyInv
  <1> QED  BY <1>1, <1>2, <1>3 DEF ToyInv

\* Only whether a descriptor is in use matters to the slots.
SameUse(S, x, y) == \A f \in S : x[f].used <=> y[f].used
Opened(S, x, f, y) == f \in S /\ ~x[f].used /\ y[f].used /\ \A g \in S : g # f => (x[g].used <=> y[g].used)

LEMMA SlotsSame ==
  ASSUME NEW sl, NEW rf, NEW tf, NEW rf2, NEW tf2, SlotsFine(sl, rf, tf), SameUse(FdIds, rf, rf2), SameUse(ToyFds, tf, tf2)
  PROVE  SlotsFine(sl, rf2, tf2)
  BY DEF SlotsFine, SameUse

LEMMA SlotTaken ==
  ASSUME NEW sl, NEW rf, NEW tf, NEW rf2, NEW tf2, SlotsFine(sl, rf, tf),
         NEW i \in SlotIds, sl[i].back = "none", NEW f,
         NEW back \in {"ram", "toy"},
         back = "ram" => Opened(FdIds, rf, f, rf2) /\ SameUse(ToyFds, tf, tf2),
         back = "toy" => Opened(ToyFds, tf, f, tf2) /\ SameUse(FdIds, rf, rf2)
  PROVE  SlotsFine([sl EXCEPT ![i] = [back |-> back, fd |-> f]], rf2, tf2)
  <1> DEFINE x  == [back |-> back, fd |-> f]
             new == [sl EXCEPT ![i] = x]
  <1>1. f \in Int
    <2>1. f \in FdIds \/ f \in ToyFds
      BY DEF Opened
    <2>2. FdIds \subseteq Nat /\ ToyFds \subseteq Nat
      BY Constants
    <2>3. f \in Nat
      BY <2>1, <2>2
    <2> QED  BY <2>3
  <1>2. new \in [SlotIds -> SlotState] /\ new[i] = x /\ \A j \in SlotIds : j # i => new[j] = sl[j]
    BY <1>1 DEF SlotsFine, SlotState
  <1>3. \A j \in SlotIds : sl[j] # x
    <2>1. SUFFICES ASSUME NEW j \in SlotIds, sl[j] = x PROVE FALSE
      OBVIOUS
    <2>2. sl[j].back = back /\ sl[j].fd = f
      BY <2>1
    <2>3. CASE back = "ram"
      BY <2>2, <2>3 DEF SlotsFine, Opened
    <2>4. CASE back = "toy"
      BY <2>2, <2>4 DEF SlotsFine, Opened
    <2> QED  BY <2>3, <2>4
  <1> HIDE DEF new
  <1>4. ASSUME NEW j \in SlotIds
        PROVE  /\ new[j].back = "none" => new[j] = NoFile
               /\ new[j].back = "ram" => new[j].fd \in FdIds /\ rf2[new[j].fd].used
               /\ new[j].back = "toy" => new[j].fd \in ToyFds /\ tf2[new[j].fd].used
    <2>1. CASE j = i
      BY <1>2, <2>1 DEF Opened
    <2>2. CASE j # i
      <3>1. new[j] = sl[j]
        BY <1>2, <2>2
      <3> QED  BY <3>1 DEF SlotsFine, Opened, SameUse
    <2> QED  BY <2>1, <2>2
  <1>5. ASSUME NEW g \in FdIds, rf2[g].used
        PROVE  \E j \in SlotIds : new[j] = [back |-> "ram", fd |-> g]
    <2>1. CASE back = "ram" /\ g = f
      BY <1>2, <2>1
    <2>2. CASE ~(back = "ram" /\ g = f)
      <3>1. rf[g].used
        BY <1>5, <2>2 DEF Opened, SameUse
      <3>2. PICK j \in SlotIds : sl[j] = [back |-> "ram", fd |-> g]
        BY <3>1 DEF SlotsFine
      <3> QED  BY <1>2, <3>2
    <2> QED  BY <2>1, <2>2
  <1>6. ASSUME NEW g \in ToyFds, tf2[g].used
        PROVE  \E j \in SlotIds : new[j] = [back |-> "toy", fd |-> g]
    <2>1. CASE back = "toy" /\ g = f
      BY <1>2, <2>1
    <2>2. CASE ~(back = "toy" /\ g = f)
      <3>1. tf[g].used
        BY <1>6, <2>2 DEF Opened, SameUse
      <3>2. PICK j \in SlotIds : sl[j] = [back |-> "toy", fd |-> g]
        BY <3>1 DEF SlotsFine
      <3> QED  BY <1>2, <3>2
    <2> QED  BY <2>1, <2>2
  <1>7. \A j, k \in SlotIds : j # k /\ new[j] = new[k] => new[j].back = "none"
    BY <1>2, <1>3 DEF SlotsFine
  <1>8. SlotsFine(new, rf2, tf2)
    BY <1>2, <1>4, <1>5, <1>6, <1>7 DEF SlotsFine
  <1> QED  BY <1>8 DEF new

LEMMA SlotGiven ==
  ASSUME NEW sl, NEW rf, NEW tf, NEW rf2, NEW tf2, SlotsFine(sl, rf, tf),
         NEW i \in SlotIds, sl[i].back # "none",
         sl[i].back = "ram" => Opened(FdIds, rf2, sl[i].fd, rf) /\ SameUse(ToyFds, tf, tf2),
         sl[i].back = "toy" => Opened(ToyFds, tf2, sl[i].fd, tf) /\ SameUse(FdIds, rf, rf2)
  PROVE  SlotsFine([sl EXCEPT ![i] = NoFile], rf2, tf2)
  <1> DEFINE new == [sl EXCEPT ![i] = NoFile]
  <1>1. /\ new \in [SlotIds -> SlotState] /\ new[i] = NoFile /\ \A j \in SlotIds : j # i => new[j] = sl[j]
        /\ NoFile.back = "none"
    BY DEF SlotsFine, SlotState, NoFile
  <1>2. \A j \in SlotIds : j # i => sl[j] # sl[i]
    BY DEF SlotsFine
  <1>3. \A j \in SlotIds : sl[j] = [back |-> sl[j].back, fd |-> sl[j].fd] /\ sl[j].back \in {"none", "ram", "toy"}
    BY DEF SlotsFine, SlotState
  <1> HIDE DEF new
  <1>4. ASSUME NEW j \in SlotIds
        PROVE  /\ new[j].back = "none" => new[j] = NoFile
               /\ new[j].back = "ram" => new[j].fd \in FdIds /\ rf2[new[j].fd].used
               /\ new[j].back = "toy" => new[j].fd \in ToyFds /\ tf2[new[j].fd].used
    <2>1. CASE j = i
      BY <1>1, <2>1
    <2>2. CASE j # i
      <3>1. new[j] = sl[j] /\ sl[j] # sl[i]
        BY <1>1, <1>2, <2>2
      <3>2. CASE sl[j].back = "ram"
        <4>1. sl[j].fd \in FdIds /\ rf[sl[j].fd].used
          BY <3>2 DEF SlotsFine
        <4>2. rf2[sl[j].fd].used
          <5>1. CASE sl[i].back = "ram"
            <6>1. sl[j].fd # sl[i].fd
              BY <1>3, <3>1, <3>2, <5>1
            <6> QED  BY <4>1, <5>1, <6>1 DEF Opened
          <5>2. CASE sl[i].back = "toy"
            BY <4>1, <5>2 DEF SameUse
          <5> QED  BY <1>3, <5>1, <5>2
        <4> QED  BY <3>1, <3>2, <4>1, <4>2
      <3>3. CASE sl[j].back = "toy"
        <4>1. sl[j].fd \in ToyFds /\ tf[sl[j].fd].used
          BY <3>3 DEF SlotsFine
        <4>2. tf2[sl[j].fd].used
          <5>1. CASE sl[i].back = "toy"
            <6>1. sl[j].fd # sl[i].fd
              BY <1>3, <3>1, <3>3, <5>1
            <6> QED  BY <4>1, <5>1, <6>1 DEF Opened
          <5>2. CASE sl[i].back = "ram"
            BY <4>1, <5>2 DEF SameUse
          <5> QED  BY <1>3, <5>1, <5>2
        <4> QED  BY <3>1, <3>3, <4>1, <4>2
      <3>4. CASE sl[j].back = "none"
        BY <3>1, <3>4 DEF SlotsFine
      <3> QED  BY <1>3, <3>2, <3>3, <3>4
    <2> QED  BY <2>1, <2>2
  <1>5. ASSUME NEW g \in FdIds, rf2[g].used
        PROVE  \E j \in SlotIds : new[j] = [back |-> "ram", fd |-> g]
    <2>1. rf[g].used /\ sl[i] # [back |-> "ram", fd |-> g]
      <3>1. CASE sl[i].back = "ram"
        BY <1>5, <3>1 DEF Opened
      <3>2. CASE sl[i].back = "toy"
        BY <1>5, <3>2 DEF SameUse
      <3> QED  BY <1>3, <3>1, <3>2
    <2>2. PICK j \in SlotIds : sl[j] = [back |-> "ram", fd |-> g]
      BY <2>1 DEF SlotsFine
    <2> QED  BY <1>1, <2>1, <2>2
  <1>6. ASSUME NEW g \in ToyFds, tf2[g].used
        PROVE  \E j \in SlotIds : new[j] = [back |-> "toy", fd |-> g]
    <2>1. tf[g].used /\ sl[i] # [back |-> "toy", fd |-> g]
      <3>1. CASE sl[i].back = "toy"
        BY <1>6, <3>1 DEF Opened
      <3>2. CASE sl[i].back = "ram"
        BY <1>6, <3>2 DEF SameUse
      <3> QED  BY <1>3, <3>1, <3>2
    <2>2. PICK j \in SlotIds : sl[j] = [back |-> "toy", fd |-> g]
      BY <2>1 DEF SlotsFine
    <2> QED  BY <1>1, <2>1, <2>2
  <1>7. \A j, k \in SlotIds : j # k /\ new[j] = new[k] => new[j].back = "none"
    BY <1>1 DEF SlotsFine
  <1>8. SlotsFine(new, rf2, tf2)
    BY <1>1, <1>4, <1>5, <1>6, <1>7 DEF SlotsFine
  <1> QED  BY <1>8 DEF new

-----------------------------------------------------------------------------
(* The invariant.                                                          *)

IInv == RamInv /\ ToyInv /\ SlotsInv

LEMMA WritesAreSequences == Writes \subseteq Seq(Bytes)
  BY DEF Writes

LEMMA InitHolds ==
  ASSUME Init
  PROVE  IInv
  <1>1. NodesInv
    <2>1. FreeNode \in NodeState /\ ~FreeNode.used /\ FreeNode.off = 0 /\ FreeNode.cap = 0 /\ FreeNode.size = 0
      BY DEF FreeNode, NodeState
    <2> HIDE DEF FreeNode
    <2>2. /\ nodes \in [NodeIds -> NodeState] /\ \A n \in NodeIds : nodes[n] = FreeNode
          /\ pool \in [Pool -> AnyByte] /\ top = 0 /\ PoolSize \in Nat
      BY <2>1, Constants DEF Init, RamInit, Pool, AnyByte
    <2> QED  BY <2>1, <2>2 DEF NodesInv, NodesFine, NodeFine, Apart
  <1>2. FdsInv
    BY DEF Init, RamInit, FdsInv, FdState, FreeFd
  <1>3. ToyInv
    BY ToyInitHolds DEF Init
  <1>4. SlotsInv
    BY DEF Init, RamInit, ToyInit, SlotsInv, SlotsFine, SlotState, NoFile, FreeFd, FreeToyFd
  <1> QED  BY <1>1, <1>2, <1>3, <1>4 DEF IInv, RamInv

\* Whether descriptors are in use after a step that writes one of them.
LEMMA FdsUse ==
  ASSUME RamInv, NEW f \in FdIds
  PROVE  /\ \A n : RamRead(f, n) => SameUse(FdIds, fds, fds')
         /\ \A s : RamWrite(f, s) => SameUse(FdIds, fds, fds')
         /\ \A p, create : RamOpen(p, create, f) => Opened(FdIds, fds, f, fds')
         /\ fds[f].used /\ RamClose(f) => Opened(FdIds, fds', f, fds)
  <1>1. fds \in [FdIds -> FdState] /\ \A g \in FdIds : fds[g] \in FdState
    BY DEF RamInv, FdsInv
  <1>2. ASSUME NEW v, fds' = [fds EXCEPT ![f].pos = v]
        PROVE  SameUse(FdIds, fds, fds')
    BY <1>1, <1>2 DEF SameUse, FdState
  <1>3. ASSUME NEW n, RamRead(f, n) PROVE SameUse(FdIds, fds, fds')
    BY <1>2, <1>3 DEF RamRead
  <1>4. ASSUME NEW s, RamWrite(f, s) PROVE SameUse(FdIds, fds, fds')
    BY <1>2, <1>4 DEF RamWrite
  <1>5. ASSUME NEW p, NEW create, RamOpen(p, create, f) PROVE Opened(FdIds, fds, f, fds')
    <2>1. PICK n : fds' = [fds EXCEPT ![f] = [used |-> TRUE, node |-> n, pos |-> 0]]
      BY <1>5 DEF RamOpen
    <2>2. ~fds[f].used
      BY <1>5 DEF RamOpen, FreeFds, Lowest
    <2> QED  BY <1>1, <2>1, <2>2 DEF Opened
  <1>6. ASSUME fds[f].used, RamClose(f) PROVE Opened(FdIds, fds', f, fds)
    BY <1>1, <1>6 DEF RamClose, Opened, FreeFd
  <1> QED  BY <1>3, <1>4, <1>5, <1>6

LEMMA ToyFdsUse ==
  ASSUME ToyInv, NEW f \in ToyFds
  PROVE  /\ \A p : ToyOpen(p, f) => Opened(ToyFds, toyFds, f, toyFds')
         /\ toyFds[f].used /\ ToyClose(f) => Opened(ToyFds, toyFds', f, toyFds)
  <1>1. toyFds \in [ToyFds -> ToyFdState]
    BY DEF ToyInv
  <1>2. ASSUME NEW p, ToyOpen(p, f) PROVE Opened(ToyFds, toyFds, f, toyFds')
    <2>1. PICK i : toyFds' = [toyFds EXCEPT ![f] = [used |-> TRUE, file |-> i, pos |-> 0]]
      BY <1>2 DEF ToyOpen
    <2>2. ~toyFds[f].used
      BY <1>2 DEF ToyOpen, FreeToyFds, LowestOf
    <2> QED  BY <1>1, <2>1, <2>2 DEF Opened
  <1>3. ASSUME toyFds[f].used, ToyClose(f) PROVE Opened(ToyFds, toyFds', f, toyFds)
    BY <1>1, <1>3 DEF ToyClose, Opened, FreeToyFd
  <1> QED  BY <1>2, <1>3

LEMMA ToyStays ==
  ASSUME ToyInv, UNCHANGED toyVars
  PROVE  ToyInv'
  BY DEF ToyInv, toyVars

LEMMA RamStays ==
  ASSUME RamInv, UNCHANGED ramVars
  PROVE  RamInv'
  BY DEF RamInv, NodesInv, FdsInv, ramVars

LEMMA NextHolds ==
  ASSUME IInv, [Next]_vars
  PROVE  IInv'
  <1> USE DEF IInv
  <1>1. ASSUME NEW p \in Paths, NEW write \in BOOLEAN, NEW create \in BOOLEAN, OpenRam(p, write, create)
        PROVE  IInv'
    <2>1. PICK i \in FreeSlots, f \in FdIds :
            RamOpen(p, create, f) /\ slots' = [slots EXCEPT ![i] = [back |-> "ram", fd |-> f]]
      BY <1>1 DEF OpenRam
    <2>2. RamInv'
      BY <2>1, RamOpenKeeps
    <2>3. ToyInv' /\ SameUse(ToyFds, toyFds, toyFds')
      BY <1>1, ToyStays DEF OpenRam, toyVars, SameUse
    <2>4. i \in SlotIds /\ slots[i].back = "none" /\ Opened(FdIds, fds, f, fds')
      BY <2>1, FdsUse DEF FreeSlots, Lowest
    <2>5. SlotsInv'
      BY <2>1, <2>3, <2>4, SlotTaken DEF SlotsInv
    <2> QED  BY <2>2, <2>3, <2>5
  <1>2. ASSUME NEW p \in Paths, NEW write \in BOOLEAN, NEW create \in BOOLEAN, OpenRamFails(p, write, create)
        PROVE  IInv'
    <2>1. RamInv'
      BY <1>2, NodeLeftKeeps DEF OpenRamFails
    <2>2. ToyInv' /\ SlotsInv'
      BY <1>2, ToyStays DEF OpenRamFails, vfsVars, toyVars, SlotsInv
    <2> QED  BY <2>1, <2>2
  <1>3. ASSUME NEW p \in Paths, OpenToy(p)
        PROVE  IInv'
    <2>1. PICK i \in FreeSlots, f \in ToyFds :
            ToyOpen(p, f) /\ slots' = [slots EXCEPT ![i] = [back |-> "toy", fd |-> f]]
      BY <1>3 DEF OpenToy
    <2>2. RamInv' /\ SameUse(FdIds, fds, fds')
      BY <1>3, RamStays DEF OpenToy, ramVars, SameUse
    <2>3. ToyInv' /\ Opened(ToyFds, toyFds, f, toyFds')
      BY <2>1, ToyOpenKeeps, ToyFdsUse
    <2>4. i \in SlotIds /\ slots[i].back = "none"
      BY <2>1 DEF FreeSlots, Lowest
    <2>5. SlotsInv'
      BY <2>1, <2>2, <2>3, <2>4, SlotTaken DEF SlotsInv
    <2> QED  BY <2>2, <2>3, <2>5
  <1>4. ASSUME NEW i \in SlotIds, NEW n \in 1 .. MaxWrite, ReadRam(i, n)
        PROVE  IInv'
    <2>1. slots[i].fd \in FdIds /\ n \in Nat /\ RamRead(slots[i].fd, n)
      BY <1>4, RamfsAssumption DEF ReadRam, SlotsInv, SlotsFine
    <2>2. RamInv' /\ SameUse(FdIds, fds, fds')
      BY <2>1, RamReadKeeps, FdsUse
    <2>3. ToyInv' /\ SameUse(ToyFds, toyFds, toyFds') /\ slots' = slots
      BY <1>4, ToyStays DEF ReadRam, vfsVars, toyVars, SameUse
    <2> QED  BY <2>2, <2>3, SlotsSame DEF SlotsInv
  <1>5. ASSUME NEW i \in SlotIds, NEW n \in 1 .. MaxWrite, ReadToy(i, n)
        PROVE  IInv'
    <2>1. slots[i].fd \in ToyFds /\ n \in Nat /\ ToyRead(slots[i].fd, n)
      BY <1>5, RamfsAssumption DEF ReadToy, SlotsInv, SlotsFine
    <2>2. ToyInv' /\ SameUse(ToyFds, toyFds, toyFds')
      BY <2>1, ToyReadKeeps DEF SameUse
    <2>3. RamInv' /\ SameUse(FdIds, fds, fds') /\ slots' = slots
      BY <1>5, RamStays DEF ReadToy, ramVars, SameUse
    <2> QED  BY <2>2, <2>3, SlotsSame DEF SlotsInv
  <1>6. ASSUME NEW i \in SlotIds, NEW s \in Writes, Write(i, s)
        PROVE  IInv'
    <2>1. slots[i].fd \in FdIds /\ s \in Seq(Bytes) /\ RamWrite(slots[i].fd, s)
      BY <1>6, WritesAreSequences DEF Write, SlotsInv, SlotsFine
    <2>2. RamInv' /\ SameUse(FdIds, fds, fds')
      BY <2>1, RamWriteKeeps, FdsUse
    <2>3. ToyInv' /\ SameUse(ToyFds, toyFds, toyFds') /\ slots' = slots
      BY <1>6, ToyStays DEF Write, vfsVars, toyVars, SameUse
    <2> QED  BY <2>2, <2>3, SlotsSame DEF SlotsInv
  <1>7. ASSUME NEW i \in SlotIds, Close(i)
        PROVE  IInv'
    <2>1. CASE slots[i].back = "ram"
      <3>1. slots[i].fd \in FdIds /\ fds[slots[i].fd].used /\ RamClose(slots[i].fd) /\ UNCHANGED toyVars
        BY <1>7, <2>1 DEF Close, SlotsInv, SlotsFine
      <3>2. RamInv' /\ Opened(FdIds, fds', slots[i].fd, fds)
        BY <3>1, RamCloseKeeps, FdsUse
      <3>3. ToyInv' /\ SameUse(ToyFds, toyFds, toyFds')
        BY <3>1, ToyStays DEF toyVars, SameUse
      <3>4. SlotsInv'
        BY <1>7, <2>1, <3>2, <3>3, SlotGiven DEF Close, SlotsInv
      <3> QED  BY <3>2, <3>3, <3>4
    <2>2. CASE slots[i].back # "ram"
      <3>1. /\ slots[i].back = "toy" /\ slots[i].fd \in ToyFds /\ toyFds[slots[i].fd].used
            /\ ToyClose(slots[i].fd) /\ UNCHANGED ramVars
        BY <1>7, <2>2 DEF Close, SlotsInv, SlotsFine, SlotState
      <3>2. ToyInv' /\ Opened(ToyFds, toyFds', slots[i].fd, toyFds)
        BY <3>1, ToyCloseKeeps, ToyFdsUse
      <3>3. RamInv' /\ SameUse(FdIds, fds, fds')
        BY <3>1, RamStays DEF ramVars, SameUse
      <3>4. SlotsInv'
        BY <1>7, <3>1, <3>2, <3>3, SlotGiven DEF Close, SlotsInv
      <3> QED  BY <3>2, <3>3, <3>4
    <2> QED  BY <2>1, <2>2
  <1>8. ASSUME NEW p \in Paths, NEW s \in Writes, WriteAll(p, s)
        PROVE  IInv'
    <2>1. RamInv'
      BY <1>8, RamWriteAllKeeps, WritesAreSequences DEF WriteAll
    <2>2. ToyInv' /\ SlotsInv'
      BY <1>8, ToyStays DEF WriteAll, RamWriteAll, vfsVars, toyVars, SlotsInv
    <2> QED  BY <2>1, <2>2
  <1>9. ASSUME NEW p \in Paths, Mkdir(p)
        PROVE  IInv'
    <2>1. RamInv'
      BY <1>9, RamMkdirKeeps DEF Mkdir
    <2>2. ToyInv' /\ SlotsInv'
      BY <1>9, ToyStays DEF Mkdir, RamMkdir, vfsVars, toyVars, SlotsInv
    <2> QED  BY <2>1, <2>2
  <1>10. ASSUME NEW p \in Paths, NEW q \in Paths, Rename(p, q)
         PROVE  IInv'
    <2>1. RamInv'
      BY <1>10, RamRenameKeeps DEF Rename
    <2>2. ToyInv' /\ SlotsInv'
      BY <1>10, ToyStays DEF Rename, RamRename, vfsVars, toyVars, SlotsInv
    <2> QED  BY <2>1, <2>2
  <1>11. CASE UNCHANGED vars
    BY <1>11, ToyStays, RamStays DEF vars, ramVars, toyVars, SlotsInv
  <1> QED  BY <1>1, <1>2, <1>3, <1>4, <1>5, <1>6, <1>7, <1>8, <1>9, <1>10, <1>11 DEF Next

\* Every state of the open files and of the memory file system is of its type, and the
\* tables, the regions and the descriptors agree with each other.
THEOREM StateCorrect == Spec => []IInv
  BY InitHolds, NextHolds, PTL DEF Spec

\* RegionsDisjoint: the regions of two files of ramfs never share a byte, and never one
\* that is still to be handed out.
THEOREM RegionsCorrect == Spec => []RegionsDisjoint
  <1>1. ASSUME IInv PROVE RegionsDisjoint
    <2>1. ASSUME NEW m \in NodeIds
          PROVE  /\ nodes[m].off \in Nat /\ nodes[m].cap \in Nat /\ top \in Nat
                 /\ nodes[m].off + nodes[m].cap <= top
      BY <1>1, Constants DEF IInv, RamInv, NodesInv, NodesFine, NodeFine, NodeState
    <2>2. ASSUME NEW m \in NodeIds PROVE Region(nodes[m]) \subseteq 0 .. (top - 1)
      BY <2>1 DEF Region
    <2>3. ASSUME NEW m \in NodeIds, NEW n \in NodeIds, m # n
          PROVE  Region(nodes[m]) \cap Region(nodes[n]) = {}
      <3>1. Apart(nodes[m], nodes[n])
        BY <1>1, <2>3 DEF IInv, RamInv, NodesInv, NodesFine
      <3> QED  BY <2>1, <3>1 DEF Apart, Region
    <2> QED  BY <2>2, <2>3 DEF RegionsDisjoint
  <1> QED  BY <1>1, StateCorrect, PTL

\* NoDescriptorLost: each descriptor in use, of ramfs or of toyfs, belongs to exactly one
\* open file of vfs.c, and what a descriptor of toyfs read is the file in order.
THEOREM DescriptorsCorrect == Spec => []NoDescriptorLost
  <1>1. ASSUME IInv PROVE NoDescriptorLost
    <2>1. Held("ram") = {f \in FdIds : fds[f].used}
      <3>1. ASSUME NEW f \in Held("ram") PROVE f \in FdIds /\ fds[f].used
        <4>1. PICK i \in SlotIds : slots[i].back = "ram" /\ slots[i].fd = f
          BY <3>1 DEF Held
        <4> QED  BY <1>1, <4>1 DEF IInv, SlotsInv, SlotsFine
      <3>2. ASSUME NEW f \in FdIds, fds[f].used PROVE f \in Held("ram")
        <4>1. PICK i \in SlotIds : slots[i] = [back |-> "ram", fd |-> f]
          BY <1>1, <3>2 DEF IInv, SlotsInv, SlotsFine
        <4> QED  BY <4>1 DEF Held
      <3> QED  BY <3>1, <3>2
    <2>2. Held("toy") = {f \in ToyFds : toyFds[f].used}
      <3>1. ASSUME NEW f \in Held("toy") PROVE f \in ToyFds /\ toyFds[f].used
        <4>1. PICK i \in SlotIds : slots[i].back = "toy" /\ slots[i].fd = f
          BY <3>1 DEF Held
        <4> QED  BY <1>1, <4>1 DEF IInv, SlotsInv, SlotsFine
      <3>2. ASSUME NEW f \in ToyFds, toyFds[f].used PROVE f \in Held("toy")
        <4>1. PICK i \in SlotIds : slots[i] = [back |-> "toy", fd |-> f]
          BY <1>1, <3>2 DEF IInv, SlotsInv, SlotsFine
        <4> QED  BY <4>1 DEF Held
      <3> QED  BY <3>1, <3>2
    <2>3. GivenInOrder
      BY <1>1 DEF IInv, ToyInv, GivenIs, GivenInOrder
    <2>4. \A i, j \in SlotIds : slots[i] = slots[j] /\ i # j => slots[i].back = "none"
      BY <1>1 DEF IInv, SlotsInv, SlotsFine
    <2> QED  BY <2>1, <2>2, <2>3, <2>4 DEF NoDescriptorLost
  <1> QED  BY <1>1, StateCorrect, PTL

-----------------------------------------------------------------------------
(* The memory file system implements plain files, if no path is too long   *)
(* for its table.                                                          *)

Uncut == \A p \in Paths : Cut[p] = p

NamesApart(nds) ==
  \A m, n \in NodeIds : nds[m].used /\ nds[n].used /\ nds[m].path = nds[n].path => m = n

\* The files of a table and a pool, and the open ones, as RamFiles sees them.
Holders(nds, p)   == {n \in NodeIds : nds[n].used /\ nds[n].path = p}
Text(nds, pl, n)  == [i \in 1 .. nds[n].size |-> pl[nds[n].off + i - 1]]
TextsOf(nds, pl)  ==
  [p \in Paths |-> IF Lowest(Holders(nds, p)) # {}
                   THEN Text(nds, pl, CHOOSE n \in Lowest(Holders(nds, p)) : TRUE) ELSE <<Zero>>]
HandlesOf(nds, fs) ==
  [f \in FdIds |-> IF fs[f].used THEN [path |-> nds[fs[f].node].path, pos |-> fs[f].pos] ELSE NoFile]

LEMMA Views ==
  /\ Texts = TextsOf(nodes, pool) /\ Texts' = TextsOf(nodes', pool')
  /\ Handles = HandlesOf(nodes, fds) /\ Handles' = HandlesOf(nodes', fds')
  BY DEF Texts, TextsOf, Handles, HandlesOf, Content, Text, RamExists, Find, Holders

LEMMA FileAt ==
  ASSUME NEW nds, NEW pl, NEW tp, NodesFine(nds, pl, tp), NamesApart(nds), NEW n \in NodeIds, nds[n].used
  PROVE  /\ nds[n].path \in Paths /\ TextsOf(nds, pl)[nds[n].path] = Text(nds, pl, n)
         /\ Text(nds, pl, n) # <<Zero>>
         /\ nds[n].size \in Nat /\ Len(Text(nds, pl, n)) = nds[n].size
  <1> DEFINE p == nds[n].path
  <1>1. p \in Paths /\ nds[n].size \in Nat /\ NodeFine(nds[n], pl, tp)
    BY DEF NodesFine, NodeFine, NodeState
  <1>2. Holders(nds, p) = {n}
    BY DEF Holders, NamesApart
  <1>3. Lowest(Holders(nds, p)) = {n}
    <2>1. n <= n
      BY Constants
    <2> QED  BY <1>2, <2>1 DEF Lowest
  <1>4. TextsOf(nds, pl)[p] = Text(nds, pl, n)
    <2>1. TextsOf(nds, pl)[p] = Text(nds, pl, CHOOSE m \in {n} : TRUE)
      BY <1>1, <1>3 DEF TextsOf
    <2>2. (CHOOSE m \in {n} : TRUE) = n
      OBVIOUS
    <2> QED  BY <2>1, <2>2
  <1>5. DOMAIN Text(nds, pl, n) = 1 .. nds[n].size /\ \A i \in 1 .. nds[n].size : Text(nds, pl, n)[i] = pl[nds[n].off + i - 1]
    BY DEF Text
  <1>6. Text(nds, pl, n) # <<Zero>>
    <2>1. SUFFICES ASSUME Text(nds, pl, n) = <<Zero>> PROVE FALSE
      OBVIOUS
    <2>2. 1 .. nds[n].size = 1 .. 1 /\ <<Zero>>[1] = Zero
      BY <1>5, <2>1
    <2>3. nds[n].size = 1
      BY <1>1, <2>2
    <2>4. Text(nds, pl, n)[1] = pl[nds[n].off + 1 - 1]
      BY <1>5, <2>3
    <2>5. pl[nds[n].off + 1 - 1] \in Bytes
      BY <1>1, <2>3 DEF NodeFine
    <2> QED  BY <2>1, <2>2, <2>4, <2>5, Constants
  <1>7. Len(Text(nds, pl, n)) = nds[n].size
    BY <1>1 DEF Text
  <1> QED  BY <1>1, <1>4, <1>6, <1>7

LEMMA NoFileAt ==
  ASSUME NEW nds, NEW pl, NEW p \in Paths, \A n \in NodeIds : nds[n].used => nds[n].path # p
  PROVE  TextsOf(nds, pl)[p] = <<Zero>>
  <1>1. Lowest(Holders(nds, p)) = {}
    BY DEF Lowest, Holders
  <1> QED  BY <1>1 DEF TextsOf

\* What there is at every path of a table makes its files.
Holds(F, nds, pl) ==
  /\ F = [p \in Paths |-> F[p]]
  /\ \A n \in NodeIds : nds[n].used => F[nds[n].path] = Text(nds, pl, n)
  /\ \A p \in Paths : (\A n \in NodeIds : nds[n].used => nds[n].path # p) => F[p] = <<Zero>>

LEMMA TextsAre ==
  ASSUME NEW nds, NEW pl, NEW tp, NodesFine(nds, pl, tp), NamesApart(nds), NEW F, Holds(F, nds, pl)
  PROVE  TextsOf(nds, pl) = F
  <1>1. ASSUME NEW p \in Paths
        PROVE  TextsOf(nds, pl)[p] = F[p]
    <2>1. CASE \E n \in NodeIds : nds[n].used /\ nds[n].path = p
      BY <2>1, FileAt DEF Holds
    <2>2. CASE ~(\E n \in NodeIds : nds[n].used /\ nds[n].path = p)
      BY <2>2, NoFileAt DEF Holds
    <2> QED  BY <2>1, <2>2
  <1>2. TextsOf(nds, pl) = [p \in Paths |-> TextsOf(nds, pl)[p]]
    BY DEF TextsOf
  <1>3. F = [p \in Paths |-> F[p]]
    BY DEF Holds
  <1> QED  BY <1>1, <1>2, <1>3

LEMMA TextKept ==
  ASSUME NEW nds, NEW pl, NEW tp, NodesFine(nds, pl, tp), NEW n \in NodeIds,
         NEW nds2, NEW pl2, nds2[n] = nds[n], \A i \in Region(nds[n]) : pl2[i] = pl[i]
  PROVE  Text(nds2, pl2, n) = Text(nds, pl, n)
  <1>1. nds[n].size \in Nat /\ nds[n].cap \in Nat /\ nds[n].off \in Nat /\ nds[n].size <= nds[n].cap
    BY DEF NodesFine, NodeFine, NodeState
  <1>2. \A i \in 1 .. nds[n].size : nds[n].off + i - 1 \in Region(nds[n])
    BY <1>1 DEF Region
  <1> QED  BY <1>2 DEF Text

LEMMA TextsDomain ==
  ASSUME NEW nds, NEW pl
  PROVE  TextsOf(nds, pl) = [p \in Paths |-> TextsOf(nds, pl)[p]] /\ DOMAIN TextsOf(nds, pl) = Paths
  BY DEF TextsOf

LEMMA HoldersAre ==
  ASSUME NEW nds, NamesApart(nds), NEW p
  PROVE  Lowest(Holders(nds, p)) = Holders(nds, p)
  <1>1. Holders(nds, p) \subseteq Nat /\ \A m, n \in Holders(nds, p) : m = n
    BY Constants DEF Holders, NamesApart
  <1>2. \A m, n \in Holders(nds, p) : m <= n
    BY <1>1
  <1> QED  BY <1>2 DEF Lowest

\* One node changed, created or written: the file at its path did, and no other.
Changed(nds, pl, n, p, nds2, pl2) ==
  /\ nds[n].used => nds[n].path = p
  /\ ~nds[n].used => Holders(nds, p) = {}
  /\ nds2[n].used /\ nds2[n].path = p
  /\ \A m \in NodeIds : m # n => nds2[m] = nds[m] /\ \A i \in Region(nds[m]) : pl2[i] = pl[i]

LEMMA ChangedView ==
  ASSUME NEW nds, NEW pl, NEW tp, NodesFine(nds, pl, tp), NamesApart(nds),
         NEW nds2, NEW pl2, NEW tp2, NodesFine(nds2, pl2, tp2),
         NEW n \in NodeIds, NEW p \in Paths, Changed(nds, pl, n, p, nds2, pl2)
  PROVE  /\ NamesApart(nds2)
         /\ TextsOf(nds2, pl2) = [TextsOf(nds, pl) EXCEPT ![p] = Text(nds2, pl2, n)]
         /\ nds[n].used => TextsOf(nds, pl)[p] = Text(nds, pl, n)
         /\ ~nds[n].used => TextsOf(nds, pl)[p] = <<Zero>>
  <1> DEFINE t == Text(nds2, pl2, n)
             C == TextsOf(nds, pl)
             F == [C EXCEPT ![p] = t]
  <1>1. \A m \in NodeIds : m # n /\ nds[m].used => nds[m].path # p
    BY DEF Changed, NamesApart, Holders
  <1>2. NamesApart(nds2)
    BY <1>1 DEF Changed, NamesApart
  <1>3. C = [q \in Paths |-> C[q]]
    BY TextsDomain
  <1> HIDE DEF t, C
  <1>4. F = [q \in Paths |-> F[q]] /\ F[p] = t /\ \A q \in Paths : q # p => F[q] = C[q]
    BY <1>3
  <1> HIDE DEF F
  <1>5. ASSUME NEW m \in NodeIds, nds2[m].used
        PROVE  F[nds2[m].path] = Text(nds2, pl2, m)
    <2>1. CASE m = n
      BY <1>4, <2>1 DEF Changed, t
    <2>2. CASE m # n
      <3>1. nds2[m] = nds[m] /\ Text(nds2, pl2, m) = Text(nds, pl, m)
        BY <2>2, TextKept DEF Changed
      <3>2. nds[m].path \in Paths /\ C[nds[m].path] = Text(nds, pl, m) /\ nds[m].path # p
        BY <1>1, <1>5, <2>2, <3>1, FileAt DEF C
      <3> QED  BY <1>4, <3>1, <3>2
    <2> QED  BY <2>1, <2>2
  <1>6. ASSUME NEW q \in Paths, \A m \in NodeIds : nds2[m].used => nds2[m].path # q
        PROVE  F[q] = <<Zero>>
    <2>1. q # p /\ \A m \in NodeIds : nds[m].used => nds[m].path # q
      BY <1>6 DEF Changed
    <2> QED  BY <1>4, <2>1, NoFileAt DEF C
  <1>7. TextsOf(nds2, pl2) = F
    <2>1. Holds(F, nds2, pl2)
      BY <1>4, <1>5, <1>6 DEF Holds
    <2> QED  BY <1>2, <2>1, TextsAre
  <1>8. nds[n].used => C[p] = Text(nds, pl, n)
    BY FileAt DEF Changed, C
  <1>9. ~nds[n].used => C[p] = <<Zero>>
    BY NoFileAt DEF Changed, Holders, C
  <1> QED  BY <1>2, <1>7, <1>8, <1>9 DEF F, C, t

\* One node renamed.
Renamed(nds, n, q, nds2) ==
  /\ nds[n].used /\ Holders(nds, q) = {}
  /\ nds2[n].used /\ nds2[n].path = q /\ nds2[n].off = nds[n].off /\ nds2[n].size = nds[n].size
  /\ \A m \in NodeIds : m # n => nds2[m] = nds[m]

LEMMA RenamedView ==
  ASSUME NEW nds, NEW pl, NEW tp, NodesFine(nds, pl, tp), NamesApart(nds),
         NEW nds2, NodesFine(nds2, pl, tp),
         NEW n \in NodeIds, NEW q \in Paths, Renamed(nds, n, q, nds2)
  PROVE  /\ NamesApart(nds2)
         /\ TextsOf(nds, pl)[q] = <<Zero>> /\ TextsOf(nds, pl)[nds[n].path] # <<Zero>>
         /\ nds[n].path \in Paths
         /\ TextsOf(nds2, pl) = [TextsOf(nds, pl) EXCEPT ![q] = TextsOf(nds, pl)[nds[n].path],
                                                         ![nds[n].path] = <<Zero>>]
  <1> DEFINE p == nds[n].path
             C == TextsOf(nds, pl)
             t == C[p]
             F == [C EXCEPT ![q] = t, ![p] = <<Zero>>]
  <1>0. /\ nds[n].used /\ Holders(nds, q) = {}
        /\ nds2[n].used /\ nds2[n].path = q /\ nds2[n].off = nds[n].off /\ nds2[n].size = nds[n].size
        /\ \A m \in NodeIds : m # n => nds2[m] = nds[m]
    BY DEF Renamed
  <1>1. /\ \A m \in NodeIds : m # n /\ nds[m].used => nds[m].path # p
        /\ \A m \in NodeIds : nds[m].used => nds[m].path # q
    BY <1>0 DEF NamesApart, Holders
  <1>2. NamesApart(nds2)
    BY <1>0, <1>1 DEF NamesApart
  <1>3. C = [r \in Paths |-> C[r]] /\ C[q] = <<Zero>> /\ p \in Paths /\ t = Text(nds, pl, n) /\ t # <<Zero>> /\ p # q
    <2>1. C = [r \in Paths |-> C[r]]
      BY TextsDomain
    <2>2. C[q] = <<Zero>>
      BY <1>1, NoFileAt
    <2>3. p \in Paths /\ C[p] = Text(nds, pl, n) /\ C[p] # <<Zero>>
      <3>1. p \in Paths /\ C[p] = Text(nds, pl, n) /\ Text(nds, pl, n) # <<Zero>>
        BY <1>0, FileAt
      <3> HIDE DEF C, p
      <3> QED  BY <3>1
    <2>4. p # q
      BY <1>0, <1>1
    <2> HIDE DEF C, p
    <2> QED  BY <2>1, <2>2, <2>3, <2>4
  <1> HIDE DEF p, C, t
  <1>4. /\ F = [r \in Paths |-> F[r]] /\ F[p] = <<Zero>> /\ F[q] = t
        /\ \A r \in Paths : r # p /\ r # q => F[r] = C[r]
    BY <1>3
  <1> HIDE DEF F
  <1>5. ASSUME NEW m \in NodeIds, nds2[m].used
        PROVE  F[nds2[m].path] = Text(nds2, pl, m)
    <2>1. CASE m = n
      <3>1. Text(nds2, pl, n) = Text(nds, pl, n)
        BY <1>0 DEF Text
      <3> QED  BY <1>0, <1>3, <1>4, <2>1, <3>1
    <2>2. CASE m # n
      <3>1. nds2[m] = nds[m] /\ Text(nds2, pl, m) = Text(nds, pl, m)
        BY <1>0, <2>2, TextKept
      <3>2. nds[m].path \in Paths /\ C[nds[m].path] = Text(nds, pl, m)
        BY <1>5, <3>1, FileAt DEF C
      <3>3. nds[m].path # p /\ nds[m].path # q
        BY <1>0, <1>1, <1>5, <2>2, <3>1
      <3> QED  BY <1>4, <3>1, <3>2, <3>3
    <2> QED  BY <2>1, <2>2
  <1>6. ASSUME NEW r \in Paths, \A m \in NodeIds : nds2[m].used => nds2[m].path # r
        PROVE  F[r] = <<Zero>>
    <2>1. CASE r = p
      BY <1>4, <2>1
    <2>2. CASE r # p
      <3>1. r # q /\ \A m \in NodeIds : nds[m].used => nds[m].path # r
        BY <1>0, <1>6, <2>2 DEF p
      <3> QED  BY <1>4, <2>2, <3>1, NoFileAt DEF C
    <2> QED  BY <2>1, <2>2
  <1>7. TextsOf(nds2, pl) = F
    <2>1. Holds(F, nds2, pl)
      BY <1>4, <1>5, <1>6 DEF Holds
    <2> QED  BY <1>2, <2>1, TextsAre
  <1> QED  BY <1>2, <1>3, <1>7 DEF F, C, p, t

LEMMA HandlesKept ==
  ASSUME NEW nds, NEW nds2, NEW fs, \A f \in FdIds : fs[f].used => nds2[fs[f].node].path = nds[fs[f].node].path
  PROVE  HandlesOf(nds2, fs) = HandlesOf(nds, fs)
  BY DEF HandlesOf

\* The node written by ramfs_write_all ends with the bytes given, or with none.
LEMMA RewrittenView ==
  ASSUME RamInv, NamesApart(nodes), Uncut, NEW p \in Paths, NEW s \in Seq(Bytes), RamWriteAll(p, s)
  PROVE  \E n \in NodeIds : /\ Changed(nodes, pool, n, p, nodes', pool')
                            /\ Text(nodes', pool', n) \in {<<>>, s}
  <1>1. PICK n \in NodeFor(p, TRUE) :
          LET emptied == [NodesWith(p, n) EXCEPT ![n].size = 0]
          IN  IF s # <<>> /\ Fits(emptied[n], Len(s))
              THEN Store(emptied, n, 0, s)
              ELSE nodes' = emptied /\ UNCHANGED <<pool, top>>
    BY DEF RamWriteAll
  <1> DEFINE emptied == [NodesWith(p, n) EXCEPT ![n].size = 0]
  <1>2. /\ n \in NodeIds /\ NodesFine(NodesWith(p, n), pool, top) /\ NodesWith(p, n)[n].used
        /\ \A m \in NodeIds : m # n => NodesWith(p, n)[m] = nodes[m]
        /\ nodes[n].used => n \in Find(p) /\ NodesWith(p, n) = nodes
        /\ ~nodes[n].used => Find(p) = {} /\ NodesWith(p, n)[n].path = Cut[p]
    BY NodesWithMeans DEF RamInv
  <1>3. /\ nodes[n].used => nodes[n].path = p
        /\ ~nodes[n].used => Holders(nodes, p) = {}
        /\ NodesWith(p, n)[n].path = p
    <2>1. Find(p) = Lowest(Holders(nodes, p))
      BY DEF Find, Holders
    <2>2. Find(p) = Holders(nodes, p)
      BY <2>1, HoldersAre
    <2> QED  BY <1>2, <2>2 DEF Holders, Uncut
  <1>4. /\ NodesFine(emptied, pool, top) /\ emptied[n].used /\ emptied[n].path = p /\ emptied[n].size = 0
        /\ \A m \in NodeIds : m # n => emptied[m] = nodes[m]
    BY <1>2, <1>3, EmptiedIsFine
  <1> HIDE DEF emptied
  <1>5. CASE s # <<>> /\ Fits(emptied[n], Len(s))
    <2>1. Store(emptied, n, 0, s) /\ 0 + Len(s) = Len(s) /\ Len(s) \in Nat \ {0} /\ s = [i \in 1 .. Len(s) |-> s[i]]
      BY <1>1, <1>5 DEF emptied
    <2>2. Wrote(emptied, pool, n, 0, s, nodes', pool') /\ NodesFine(nodes', pool', top')
      <3>1. 0 \in Nat /\ Fits(emptied[n], 0 + Len(s)) /\ Store(emptied, n, 0, s) /\ s # <<>> /\ emptied[n].used
        BY <1>4, <1>5, <2>1
      <3> QED  BY <1>2, <1>4, <3>1, StoreMeans
    <2>3. Changed(nodes, pool, n, p, nodes', pool')
      BY <1>3, <1>4, <2>2 DEF Wrote, Changed
    <2>4. /\ nodes'[n].size = Len(s)
          /\ \A j \in 0 .. Len(s) - 1 : pool'[nodes'[n].off + j] = s[j - 0 + 1]
      BY <1>4, <2>1, <2>2 DEF Wrote
    <2>5. ASSUME NEW i \in 1 .. Len(s)
          PROVE  pool'[nodes'[n].off + i - 1] = s[i]
      <3>1. i - 1 \in 0 .. Len(s) - 1 /\ (i - 1) - 0 + 1 = i
        BY <2>1
      <3>2. nodes'[n].off \in Nat
        BY <1>2, <2>2 DEF NodesFine, NodeState
      <3>3. nodes'[n].off + (i - 1) = nodes'[n].off + i - 1
        BY <2>1, <3>2
      <3> QED  BY <2>4, <3>1, <3>3
    <2>6. Text(nodes', pool', n) = s
      BY <2>1, <2>4, <2>5 DEF Text
    <2> QED  BY <1>2, <2>3, <2>6
  <1>6. CASE ~(s # <<>> /\ Fits(emptied[n], Len(s)))
    <2>1. nodes' = emptied /\ UNCHANGED <<pool, top>>
      BY <1>1, <1>6 DEF emptied
    <2>2. Changed(nodes, pool, n, p, nodes', pool')
      BY <1>3, <1>4, <2>1 DEF Changed
    <2>3. Text(nodes', pool', n) = <<>>
      BY <1>4, <2>1 DEF Text
    <2> QED  BY <1>2, <2>2, <2>3
  <1> QED  BY <1>5, <1>6

\* The open files after a step that leaves their nodes at their paths.
PathsKept(nds, nds2) == \A n \in NodeIds : nds[n].used => nds2[n].path = nds[n].path

LEMMA HandlesAre ==
  ASSUME RamInv, PathsKept(nodes, nodes')
  PROVE  /\ \A f \in FdIds : fds[f].used =>
              Handles[f] = [path |-> nodes[fds[f].node].path, pos |-> fds[f].pos] /\ Handles[f] # NoFile
         /\ \A f \in FdIds : ~fds[f].used => Handles[f] = NoFile
         /\ UNCHANGED fds => UNCHANGED Handles
         /\ \A f \in FdIds : \A x : fds' = [fds EXCEPT ![f] = x] =>
              Handles' = [Handles EXCEPT ![f] = IF x.used THEN [path |-> nodes'[x.node].path, pos |-> x.pos]
                                                          ELSE NoFile]
  <1>1. ASSUME NEW f \in FdIds, fds[f].used
        PROVE  Handles[f] = [path |-> nodes[fds[f].node].path, pos |-> fds[f].pos] /\ Handles[f] # NoFile
    <2>1. Handles[f] = [path |-> nodes[fds[f].node].path, pos |-> fds[f].pos]
      BY <1>1 DEF Handles
    <2>2. DOMAIN Handles[f] = {"path", "pos"} /\ DOMAIN NoFile = {"back", "fd"}
      BY <2>1 DEF NoFile
    <2> QED  BY <2>1, <2>2
  <1>2. ASSUME NEW f \in FdIds, ~fds[f].used PROVE Handles[f] = NoFile
    BY <1>2 DEF Handles
  <1>3. \A f \in FdIds : fds[f].used => nodes'[fds[f].node].path = nodes[fds[f].node].path
    BY DEF RamInv, FdsInv, PathsKept
  <1>4. ASSUME UNCHANGED fds PROVE UNCHANGED Handles
    <2>1. HandlesOf(nodes', fds) = HandlesOf(nodes, fds)
      BY <1>3, HandlesKept
    <2> QED  BY <1>4, <2>1, Views
  <1>5. ASSUME NEW f \in FdIds, NEW x, fds' = [fds EXCEPT ![f] = x]
        PROVE  Handles' = [Handles EXCEPT ![f] = IF x.used THEN [path |-> nodes'[x.node].path, pos |-> x.pos]
                                                            ELSE NoFile]
    <2> DEFINE v == IF x.used THEN [path |-> nodes'[x.node].path, pos |-> x.pos] ELSE NoFile
    <2>1. Handles' = HandlesOf(nodes', fds') /\ Handles = HandlesOf(nodes, fds)
      BY Views
    <2>2. fds'[f] = x /\ \A g \in FdIds : g # f => fds'[g] = fds[g]
      BY <1>5 DEF RamInv, FdsInv
    <2>3. HandlesOf(nodes', fds')[f] = v
      BY <2>2 DEF HandlesOf
    <2>4. ASSUME NEW g \in FdIds, g # f
          PROVE  HandlesOf(nodes', fds')[g] = HandlesOf(nodes, fds)[g]
      <3>1. fds'[g] = fds[g]
        BY <2>2, <2>4
      <3> QED  BY <1>3, <3>1 DEF HandlesOf
    <2>5. /\ HandlesOf(nodes', fds') = [g \in FdIds |-> HandlesOf(nodes', fds')[g]]
          /\ HandlesOf(nodes, fds) = [g \in FdIds |-> HandlesOf(nodes, fds)[g]]
      BY DEF HandlesOf
    <2> HIDE DEF v
    <2>6. HandlesOf(nodes', fds') = [HandlesOf(nodes, fds) EXCEPT ![f] = v]
      BY <2>3, <2>4, <2>5
    <2> QED  BY <2>1, <2>6 DEF v
  <1> QED  BY <1>1, <1>2, <1>4, <1>5

\* A node found or created for a path: the file at that path was there, or is now.
LEMMA NodeForView ==
  ASSUME RamInv, NamesApart(nodes), Uncut, NEW p \in Paths, NEW create \in BOOLEAN,
         NEW n \in NodeFor(p, create), nodes' = NodesWith(p, n), pool' = pool
  PROVE  /\ NamesApart(nodes') /\ PathsKept(nodes, nodes')
         /\ n \in NodeIds /\ nodes'[n].path = p
         /\ Files!Create(p) \/ (Texts[p] # <<Zero>> /\ UNCHANGED Texts)
  <1>1. /\ n \in NodeIds /\ NodesFine(nodes', pool, top) /\ nodes'[n].used
        /\ \A m \in NodeIds : m # n => nodes'[m] = nodes[m]
        /\ nodes[n].used => n \in Find(p) /\ nodes' = nodes
        /\ ~nodes[n].used => Find(p) = {} /\ nodes'[n].path = Cut[p] /\ nodes'[n].size = 0
    BY NodesWithMeans DEF RamInv
  <1>2. Find(p) = Holders(nodes, p)
    <2>1. Find(p) = Lowest(Holders(nodes, p))
      BY DEF Find, Holders
    <2> QED  BY <2>1, HoldersAre
  <1>3. Changed(nodes, pool, n, p, nodes', pool')
    BY <1>1, <1>2 DEF Changed, Holders, Uncut
  <1>4. /\ NamesApart(nodes')
        /\ TextsOf(nodes', pool') = [TextsOf(nodes, pool) EXCEPT ![p] = Text(nodes', pool', n)]
        /\ ~nodes[n].used => TextsOf(nodes, pool)[p] = <<Zero>>
    <2>1. NodesFine(nodes, pool, top) /\ NodesFine(nodes', pool', top)
      BY <1>1 DEF RamInv, NodesInv
    <2> QED  BY <1>1, <1>3, <2>1, ChangedView
  <1>5. PathsKept(nodes, nodes') /\ nodes'[n].path = p
    BY <1>1, <1>3 DEF PathsKept, Changed
  <1>6. CASE nodes[n].used
    <2>1. nodes[n].path = p /\ nodes' = nodes
      BY <1>1, <1>3, <1>6 DEF Changed
    <2>2. TextsOf(nodes, pool)[p] # <<Zero>>
      <3>1. TextsOf(nodes, pool)[p] = Text(nodes, pool, n) /\ Text(nodes, pool, n) # <<Zero>>
        BY <1>1, <1>6, <2>1, FileAt DEF RamInv, NodesInv
      <3> QED  BY <3>1
    <2>3. Texts[p] # <<Zero>> /\ UNCHANGED Texts
      BY <2>1, <2>2, Views
    <2> QED  BY <1>1, <1>4, <1>5, <2>3
  <1>7. CASE ~nodes[n].used
    <2>1. Text(nodes', pool', n) = <<>>
      BY <1>1, <1>7 DEF Text
    <2>2. Texts[p] = <<Zero>> /\ Texts' = [Texts EXCEPT ![p] = <<>>]
      BY <1>4, <1>7, <2>1, Views
    <2>3. Files!Create(p)
      BY <2>2 DEF Files!Create, Files!Exists, Files!Set
    <2> QED  BY <1>1, <1>4, <1>5, <2>3
  <1> QED  BY <1>6, <1>7

LEMMA OpenView ==
  ASSUME RamInv, NamesApart(nodes), Uncut, NEW p \in Paths, NEW create \in BOOLEAN, NEW f \in FdIds,
         RamOpen(p, create, f)
  PROVE  NamesApart(nodes') /\ Files!Open(p, f)
  <1>1. PICK n \in NodeFor(p, create) :
          /\ nodes' = NodesWith(p, n)
          /\ fds' = [fds EXCEPT ![f] = [used |-> TRUE, node |-> n, pos |-> 0]]
    BY DEF RamOpen
  <1>2. pool' = pool /\ ~fds[f].used
    BY DEF RamOpen, FreeFds, Lowest
  <1>3. /\ NamesApart(nodes') /\ PathsKept(nodes, nodes') /\ nodes'[n].path = p
        /\ Files!Create(p) \/ (Texts[p] # <<Zero>> /\ UNCHANGED Texts)
    BY <1>1, <1>2, NodeForView
  <1>4. Handles[f] = NoFile
    BY <1>2, <1>3, HandlesAre
  <1>5. Handles' = [Handles EXCEPT ![f] = [path |-> p, pos |-> 0]]
    <2> DEFINE x == [used |-> TRUE, node |-> n, pos |-> 0]
    <2>1. x.used /\ x.node = n /\ x.pos = 0 /\ fds' = [fds EXCEPT ![f] = x]
      BY <1>1
    <2> HIDE DEF x
    <2>2. Handles' = [Handles EXCEPT ![f] = IF x.used THEN [path |-> nodes'[x.node].path, pos |-> x.pos] ELSE NoFile]
      BY <1>3, <2>1, HandlesAre
    <2> QED  BY <1>3, <2>1, <2>2
  <1> QED  BY <1>3, <1>4, <1>5 DEF Files!Open, Files!Exists

LEMMA PositionSet ==
  ASSUME NEW p, NEW x, NEW y
  PROVE  [[path |-> p, pos |-> x] EXCEPT !.pos = y] = [path |-> p, pos |-> y]
  OBVIOUS

LEMMA PathSet ==
  ASSUME NEW p, NEW q, NEW x
  PROVE  [[path |-> p, pos |-> x] EXCEPT !.path = q] = [path |-> q, pos |-> x]
  OBVIOUS

LEMMA ReadView ==
  ASSUME RamInv, NamesApart(nodes), NEW f \in FdIds, NEW n \in Nat \ {0}, RamRead(f, n)
  PROVE  NamesApart(nodes') /\ Files!Advance(f)
  <1> DEFINE m    == fds[f].node
             old  == fds[f].pos
             left == nodes[m].size - old
             k    == IF n > left THEN left ELSE n
             pos  == old + k
  <1>1. /\ fds[f].used /\ left > 0 /\ nodes' = nodes /\ pool' = pool
        /\ m \in NodeIds /\ nodes[m].used /\ old \in Nat /\ fds[f] \in FdState
    BY DEF RamRead, RamInv, FdsInv, FdState
  <1>2. PathsKept(nodes, nodes') /\ UNCHANGED Texts
    BY <1>1, Views DEF PathsKept
  <1>3. /\ Handles[f] = [path |-> nodes[m].path, pos |-> old] /\ Handles[f] # NoFile
    BY <1>1, <1>2, HandlesAre
  <1>4. Len(Texts[nodes[m].path]) = nodes[m].size /\ nodes[m].size \in Nat
    BY <1>1, FileAt, Views DEF RamInv, NodesInv
  <1>5. pos \in Handles[f].pos .. Len(Texts[Handles[f].path])
    BY <1>1, <1>3, <1>4
  <1>6. fds' = [fds EXCEPT ![f].pos = pos]
    BY DEF RamRead
  <1>7. Handles' = [Handles EXCEPT ![f].pos = pos]
    <2> DEFINE x == [fds[f] EXCEPT !.pos = pos]
    <2> HIDE DEF pos
    <2>1. fds' = [fds EXCEPT ![f] = x]
      BY <1>6
    <2>2. x.used /\ x.node = m /\ x.pos = pos
      BY <1>1 DEF FdState
    <2> HIDE DEF x
    <2>3. Handles' = [Handles EXCEPT ![f] = IF x.used THEN [path |-> nodes'[x.node].path, pos |-> x.pos] ELSE NoFile]
      BY <1>2, <2>1, HandlesAre
    <2>4. Handles' = [Handles EXCEPT ![f] = [path |-> nodes[m].path, pos |-> pos]]
      BY <1>1, <2>2, <2>3
    <2>5. [Handles[f] EXCEPT !.pos = pos] = [path |-> nodes[m].path, pos |-> pos]
      BY <1>3, PositionSet
    <2> QED  BY <2>4, <2>5
  <1> HIDE DEF pos
  <1> QED  BY <1>1, <1>2, <1>3, <1>5, <1>7 DEF Files!Advance

LEMMA CloseView ==
  ASSUME RamInv, NamesApart(nodes), NEW f \in FdIds, RamClose(f)
  PROVE  NamesApart(nodes') /\ Files!Close(f)
  <1>1. nodes' = nodes /\ pool' = pool /\ fds' = [fds EXCEPT ![f] = FreeFd] /\ ~FreeFd.used
    BY DEF RamClose, FreeFd
  <1>2. PathsKept(nodes, nodes') /\ UNCHANGED Texts
    BY <1>1, Views DEF PathsKept
  <1>3. Handles' = [Handles EXCEPT ![f] = IF FreeFd.used THEN [path |-> nodes'[FreeFd.node].path, pos |-> FreeFd.pos] ELSE NoFile]
    BY <1>1, <1>2, HandlesAre
  <1> QED  BY <1>1, <1>2, <1>3 DEF Files!Close

LEMMA WriteView ==
  ASSUME RamInv, NamesApart(nodes), NEW f \in FdIds, NEW s \in Seq(Bytes), RamWrite(f, s)
  PROVE  NamesApart(nodes') /\ Files!Write(f, s)
  <1> DEFINE m   == fds[f].node
             p   == nodes[m].path
             old == fds[f].pos
             end == old + Len(s)
  <1>1. /\ fds[f].used /\ m \in NodeIds /\ nodes[m].used /\ old \in Nat /\ fds[f] \in FdState
        /\ s # <<>> /\ Fits(nodes[m], old + Len(s)) /\ Store(nodes, m, old, s)
        /\ fds' = [fds EXCEPT ![f].pos = end] /\ Len(s) \in Nat
    BY DEF RamWrite, RamInv, FdsInv, FdState
  <1>2. NodesFine(nodes, pool, top) /\ NodesFine(nodes', pool', top') /\ Wrote(nodes, pool, m, old, s, nodes', pool')
    BY <1>1, StoreMeans DEF RamInv, NodesInv
  <1>3. p \in Paths
    BY <1>1, <1>2, FileAt
  <1>4. Changed(nodes, pool, m, p, nodes', pool')
    BY <1>1, <1>2 DEF Changed, Wrote
  <1>5. /\ NamesApart(nodes') /\ Texts[p] = Text(nodes, pool, m)
        /\ Texts' = [Texts EXCEPT ![p] = Text(nodes', pool', m)]
    BY <1>1, <1>2, <1>3, <1>4, ChangedView, Views
  <1>6. PathsKept(nodes, nodes')
    BY <1>4 DEF Changed, PathsKept
  <1>7. /\ Handles[f] = [path |-> p, pos |-> old] /\ Handles[f] # NoFile
    BY <1>1, <1>6, HandlesAre
  <1>8. Handles' = [Handles EXCEPT ![f].pos = end]
    <2> DEFINE x == [fds[f] EXCEPT !.pos = end]
    <2> HIDE DEF end
    <2>1. fds' = [fds EXCEPT ![f] = x]
      BY <1>1
    <2>2. x.used /\ x.node = m /\ x.pos = end
      BY <1>1 DEF FdState
    <2> HIDE DEF x
    <2>3. Handles' = [Handles EXCEPT ![f] = IF x.used THEN [path |-> nodes'[x.node].path, pos |-> x.pos] ELSE NoFile]
      BY <1>6, <2>1, HandlesAre
    <2>4. Handles' = [Handles EXCEPT ![f] = [path |-> p, pos |-> end]]
      BY <1>1, <1>6, <2>2, <2>3 DEF PathsKept
    <2>5. [Handles[f] EXCEPT !.pos = end] = [path |-> p, pos |-> end]
      BY <1>7, PositionSet
    <2> QED  BY <2>4, <2>5
  <1>9. Files!Overwrites(Text(nodes, pool, m), Text(nodes', pool', m), old, s)
    <2> DEFINE nd  == nodes[m]
               nd2 == nodes'[m]
               t   == Text(nodes, pool, m)
               t2  == Text(nodes', pool', m)
    <2>1. /\ nd.size \in Nat /\ nd2.size \in Nat /\ nd.off \in Nat /\ nd2.off \in Nat
          /\ nd2.size = IF end > nd.size THEN end ELSE nd.size
      BY <1>1, <1>2 DEF NodesFine, NodeState, Wrote
    <2>2. /\ Len(t) = nd.size /\ \A i \in 1 .. nd.size : t[i] = pool[nd.off + i - 1]
          /\ Len(t2) = nd2.size /\ \A i \in 1 .. nd2.size : t2[i] = pool'[nd2.off + i - 1]
      <3>1. Len(t) = nd.size /\ \A i \in 1 .. nd.size : t[i] = pool[nd.off + i - 1]
        BY <2>1, SMTT(30) DEF Text
      <3>2. Len(t2) = nd2.size /\ \A i \in 1 .. nd2.size : t2[i] = pool'[nd2.off + i - 1]
        BY <2>1, SMTT(30) DEF Text
      <3> QED  BY <3>1, <3>2
    <2>3. /\ \A j \in old .. end - 1 : pool'[nd2.off + j] = s[j - old + 1]
          /\ \A j \in 0 .. nd.size - 1 : j \notin old .. end - 1 => pool'[nd2.off + j] = pool[nd.off + j]
      BY <1>2 DEF Wrote
    <2> HIDE DEF t, t2, nd, nd2
    <2>4. ASSUME NEW i \in 1 .. Len(s)
          PROVE  t2[old + i] = s[i]
      <3>1. /\ old + i \in 1 .. nd2.size /\ old + i - 1 \in old .. end - 1
            /\ (old + i - 1) - old + 1 = i /\ nd2.off + (old + i) - 1 = nd2.off + (old + i - 1)
        <4>1. old \in Nat /\ Len(s) \in Nat /\ end = old + Len(s) /\ i \in Nat /\ 1 <= i /\ i <= Len(s)
          BY <1>1
        <4> HIDE DEF old, end
        <4>2. old + i \in 1 .. nd2.size /\ old + i - 1 \in old .. end - 1
          BY <2>1, <4>1
        <4>3. (old + i - 1) - old + 1 = i /\ nd2.off + (old + i) - 1 = nd2.off + (old + i - 1)
          BY <2>1, <4>1
        <4> QED  BY <4>2, <4>3
      <3> QED  BY <2>2, <2>3, <3>1
    <2>5. ASSUME NEW i \in 1 .. Len(t), i \notin (old + 1) .. (old + Len(s))
          PROVE  t2[i] = t[i]
      <3>1. /\ i \in 1 .. nd2.size /\ i \in 1 .. nd.size /\ i - 1 \in 0 .. nd.size - 1 /\ i - 1 \notin old .. end - 1
            /\ nd2.off + i - 1 = nd2.off + (i - 1) /\ nd.off + i - 1 = nd.off + (i - 1)
        BY <1>1, <2>1, <2>2, <2>5, SMTT(30)
      <3>2. t2[i] = pool'[nd2.off + (i - 1)] /\ t[i] = pool[nd.off + (i - 1)]
        BY <2>2, <3>1
      <3> QED  BY <2>3, <3>1, <3>2
    <2>6. Len(t2) = IF old + Len(s) > Len(t) THEN old + Len(s) ELSE Len(t)
      BY <2>1, <2>2
    <2>7. Files!Overwrites(t, t2, old, s)
      BY <2>4, <2>5, <2>6 DEF Files!Overwrites
    <2> QED  BY <2>7 DEF t, t2
  <1>10. Texts'[p] = Text(nodes', pool', m)
    BY <1>3, <1>5, Views, TextsDomain
  <1> HIDE DEF end
  <1>11. Handles' = [Handles EXCEPT ![f].pos = Handles[f].pos + Len(s)]
    BY <1>7, <1>8 DEF end
  <1>12. Handles[f].path = p /\ Handles[f].pos = old
    BY <1>7
  <1>13. Texts' = [Texts EXCEPT ![p] = Texts'[p]] /\ Files!Overwrites(Texts[p], Texts'[p], old, s)
    <2>1. Texts[p] = Text(nodes, pool, m) /\ Texts'[p] = Text(nodes', pool', m)
      BY <1>5, <1>10
    <2> HIDE DEF m, p, old
    <2> QED  BY <1>5, <1>9, <2>1
  <1> HIDE DEF p, old, m
  <1> QED  BY <1>5, <1>7, <1>11, <1>12, <1>13 DEF Files!Write, Files!Set

LEMMA WriteAllView ==
  ASSUME RamInv, NamesApart(nodes), Uncut, NEW p \in Paths, NEW s \in Writes, RamWriteAll(p, s)
  PROVE  NamesApart(nodes') /\ UNCHANGED Handles /\ Files!WriteAll(p)
  <1>1. s \in Seq(Bytes) /\ <<>> \in Writes
    <2>1. s \in Seq(Bytes)
      BY WritesAreSequences
    <2>2. <<>> \in [1 .. 0 -> Bytes] /\ 0 \in 0 .. MaxWrite
      BY RamfsAssumption
    <2>3. <<>> \in Writes
      BY <2>2 DEF Writes
    <2> QED  BY <2>1, <2>3
  <1>2. PICK n \in NodeIds : /\ Changed(nodes, pool, n, p, nodes', pool')
                             /\ Text(nodes', pool', n) \in {<<>>, s}
    BY <1>1, RewrittenView
  <1>3. NodesFine(nodes, pool, top) /\ NodesFine(nodes', pool', top')
    BY <1>1, RamWriteAllKeeps DEF RamInv, NodesInv
  <1>4. NamesApart(nodes') /\ Texts' = [Texts EXCEPT ![p] = Text(nodes', pool', n)]
    BY <1>2, <1>3, ChangedView, Views
  <1>5. Texts'[p] = Text(nodes', pool', n)
    BY <1>4, Views, TextsDomain
  <1>6. PathsKept(nodes, nodes') /\ UNCHANGED fds
    BY <1>2 DEF Changed, PathsKept, RamWriteAll
  <1>7. UNCHANGED Handles
    BY <1>6, HandlesAre
  <1> QED  BY <1>1, <1>2, <1>4, <1>5, <1>7 DEF Files!WriteAll, Files!Set

LEMMA MkdirView ==
  ASSUME RamInv, NamesApart(nodes), Uncut, NEW p \in Paths, RamMkdir(p)
  PROVE  NamesApart(nodes') /\ UNCHANGED Handles /\ Files!Create(p)
  <1>1. PICK n \in FreeNodes : nodes' = [nodes EXCEPT ![n] = [NewNode(n, p) EXCEPT !.dir = TRUE]]
    BY DEF RamMkdir
  <1> DEFINE x == [NewNode(n, p) EXCEPT !.dir = TRUE]
  <1>2. /\ n \in NodeIds /\ nodes \in [NodeIds -> NodeState] /\ ~nodes[n].used
        /\ UNCHANGED <<pool, top, fds>>
    BY DEF FreeNodes, Lowest, RamInv, NodesInv, NodesFine, RamMkdir
  <1>3. x.used /\ x.path = p /\ x.size = 0
    BY <1>2, NewNodeIsLighter, ZenonT(60) DEF Lighter, Uncut
  <1> HIDE DEF x
  <1>4. nodes' = [nodes EXCEPT ![n] = x]
    BY <1>1 DEF x
  <1>5. Holders(nodes, p) = {}
    <2>1. Lowest(Holders(nodes, p)) = {}
      BY DEF RamMkdir, RamExists, Find, Holders
    <2> QED  BY <2>1, HoldersAre
  <1>6. Changed(nodes, pool, n, p, nodes', pool')
    BY <1>2, <1>3, <1>4, <1>5 DEF Changed
  <1>7. NodesFine(nodes, pool, top) /\ NodesFine(nodes', pool', top')
    BY RamMkdirKeeps DEF RamInv, NodesInv
  <1>8. /\ NamesApart(nodes') /\ Texts' = [Texts EXCEPT ![p] = Text(nodes', pool', n)]
        /\ Texts[p] = <<Zero>>
    BY <1>2, <1>6, <1>7, ChangedView, Views
  <1>9. Text(nodes', pool', n) = <<>>
    BY <1>2, <1>3, <1>4 DEF Text
  <1>10. UNCHANGED Handles
    <2>1. PathsKept(nodes, nodes')
      BY <1>2, <1>4 DEF PathsKept
    <2> QED  BY <1>2, <2>1, HandlesAre
  <1> QED  BY <1>8, <1>9, <1>10 DEF Files!Create, Files!Exists, Files!Set

LEMMA RenameView ==
  ASSUME RamInv, NamesApart(nodes), Uncut, NEW p \in Paths, NEW q \in Paths, RamRename(p, q)
  PROVE  NamesApart(nodes') /\ Files!Rename(p, q)
  <1>1. PICK n \in Find(p) : nodes' = [nodes EXCEPT ![n].path = Cut[q]]
    BY DEF RamRename
  <1>2. /\ n \in NodeIds /\ nodes[n].used /\ nodes[n].path = p /\ nodes \in [NodeIds -> NodeState]
        /\ UNCHANGED <<pool, top, fds>> /\ nodes[n] \in NodeState
    BY DEF Find, Lowest, RamInv, NodesInv, NodesFine, RamRename
  <1>3. nodes' = [nodes EXCEPT ![n] = [nodes[n] EXCEPT !.path = q]]
    BY <1>1, <1>2 DEF Uncut
  <1>4. /\ nodes'[n].used /\ nodes'[n].path = q /\ nodes'[n].off = nodes[n].off /\ nodes'[n].size = nodes[n].size
        /\ \A m \in NodeIds : m # n => nodes'[m] = nodes[m]
    BY <1>2, <1>3 DEF NodeState
  <1>5. Holders(nodes, q) = {}
    <2>1. Lowest(Holders(nodes, q)) = {}
      BY DEF RamRename, RamExists, Find, Holders
    <2> QED  BY <2>1, HoldersAre
  <1>6. NodesFine(nodes, pool, top) /\ NodesFine(nodes', pool, top)
    BY <1>2, RamRenameKeeps DEF RamInv, NodesInv
  <1>7. /\ NamesApart(nodes') /\ Texts[q] = <<Zero>> /\ Texts[p] # <<Zero>>
        /\ Texts' = [Texts EXCEPT ![q] = Texts[p], ![p] = <<Zero>>]
    <2>1. /\ NamesApart(nodes') /\ TextsOf(nodes, pool)[q] = <<Zero>>
          /\ TextsOf(nodes, pool)[nodes[n].path] # <<Zero>>
          /\ TextsOf(nodes', pool) = [TextsOf(nodes, pool) EXCEPT ![q] = TextsOf(nodes, pool)[nodes[n].path],
                                                                ![nodes[n].path] = <<Zero>>]
      <3>1. Renamed(nodes, n, q, nodes')
        BY <1>2, <1>4, <1>5 DEF Renamed
      <3>2. n \in NodeIds
        BY <1>2
      <3> QED  BY ONLY <1>6, <3>1, <3>2, p \in Paths, q \in Paths, NamesApart(nodes), RenamedView
    <2>2. Texts = TextsOf(nodes, pool) /\ Texts' = TextsOf(nodes', pool) /\ nodes[n].path = p
      BY <1>2, Views
    <2> QED  BY <2>1, <2>2
  <1>8. Handles' = [h \in FdIds |-> IF Handles[h] # NoFile /\ Handles[h].path = p
                                    THEN [Handles[h] EXCEPT !.path = q] ELSE Handles[h]]
    <2> DEFINE new(h) == IF Handles[h] # NoFile /\ Handles[h].path = p
                         THEN [Handles[h] EXCEPT !.path = q] ELSE Handles[h]
    <2>1. Handles' = [h \in FdIds |-> HandlesOf(nodes', fds)[h]]
      BY <1>2, Views DEF HandlesOf
    <2>2. ASSUME NEW h \in FdIds
          PROVE  HandlesOf(nodes', fds)[h] = new(h)
      <3> DEFINE m == fds[h].node
      <3>1. CASE ~fds[h].used
        <4>1. Handles[h] = NoFile /\ HandlesOf(nodes', fds)[h] = NoFile
          BY <3>1, Views DEF HandlesOf
        <4> QED  BY <4>1
      <3>2. CASE fds[h].used
        <4>1. m \in NodeIds /\ nodes[m].used
          BY <3>2 DEF RamInv, FdsInv
        <4>2. Handles[h] = [path |-> nodes[m].path, pos |-> fds[h].pos]
          BY <3>2 DEF Handles
        <4>3. HandlesOf(nodes', fds)[h] = [path |-> nodes'[m].path, pos |-> fds[h].pos]
          BY <3>2 DEF HandlesOf
        <4>4. DOMAIN Handles[h] = {"path", "pos"} /\ DOMAIN NoFile = {"back", "fd"}
          BY <4>2 DEF NoFile
        <4>5. Handles[h] # NoFile
          BY <4>4
        <4>6. CASE m = n
          <5>1. Handles[h].path = p
            BY <1>2, <4>2, <4>6
          <5>2. [Handles[h] EXCEPT !.path = q] = [path |-> q, pos |-> fds[h].pos]
            BY <4>2, PathSet
          <5>3. HandlesOf(nodes', fds)[h] = [path |-> q, pos |-> fds[h].pos]
            BY <1>4, <4>3, <4>6
          <5> HIDE DEF m
          <5> QED  BY <4>5, <5>1, <5>2, <5>3
        <4>7. CASE m # n
          <5>1. nodes'[m] = nodes[m] /\ nodes[m].path # p
            BY <1>2, <1>4, <4>1, <4>7 DEF NamesApart
          <5> QED  BY <4>2, <4>3, <5>1
        <4> QED  BY <4>6, <4>7
      <3> QED  BY <3>1, <3>2
    <2> HIDE DEF new
    <2>3. Handles' = [h \in FdIds |-> new(h)]
      BY <2>1, <2>2
    <2> QED  BY <2>3 DEF new
  <1> QED  BY <1>7, <1>8 DEF Files!Rename, Files!Exists

FilesStep == [Files!Next]_(Files!vars)

LEMMA NextView ==
  ASSUME IInv, NamesApart(nodes), Uncut, [Next]_vars
  PROVE  NamesApart(nodes') /\ FilesStep
  <1>0. RamInv /\ SlotsInv
    BY DEF IInv
  <1>1. ASSUME UNCHANGED ramVars PROVE NamesApart(nodes') /\ FilesStep
    BY <1>1, Views DEF ramVars, FilesStep, Files!vars
  <1>2. ASSUME NEW p \in Paths, NEW write \in BOOLEAN, NEW create \in BOOLEAN, OpenRam(p, write, create)
        PROVE  NamesApart(nodes') /\ FilesStep
    <2>1. PICK f \in FdIds : RamOpen(p, create, f)
      BY <1>2 DEF OpenRam
    <2>2. NamesApart(nodes') /\ Files!Open(p, f)
      BY <1>0, <2>1, OpenView
    <2> QED  BY <2>2 DEF FilesStep, Files!Next
  <1>3. ASSUME NEW p \in Paths, NEW write \in BOOLEAN, NEW create \in BOOLEAN, OpenRamFails(p, write, create)
        PROVE  NamesApart(nodes') /\ FilesStep
    <2>1. PICK n \in NodeFor(p, create) : nodes' = NodesWith(p, n)
      BY <1>3 DEF OpenRamFails
    <2>2. UNCHANGED fds /\ pool' = pool
      BY <1>3 DEF OpenRamFails
    <2>3. /\ NamesApart(nodes') /\ PathsKept(nodes, nodes')
          /\ Files!Create(p) \/ (Texts[p] # <<Zero>> /\ UNCHANGED Texts)
      BY <1>0, <2>1, <2>2, NodeForView
    <2>4. UNCHANGED Handles
      BY <1>0, <2>2, <2>3, HandlesAre
    <2> QED  BY <2>3, <2>4 DEF FilesStep, Files!Next, Files!vars
  <1>4. ASSUME NEW i \in SlotIds, NEW n \in 1 .. MaxWrite, ReadRam(i, n)
        PROVE  NamesApart(nodes') /\ FilesStep
    <2>1. slots[i].fd \in FdIds /\ n \in Nat \ {0} /\ RamRead(slots[i].fd, n)
      BY <1>0, <1>4, RamfsAssumption DEF ReadRam, SlotsInv, SlotsFine
    <2>2. NamesApart(nodes') /\ Files!Advance(slots[i].fd)
      BY <1>0, <2>1, ReadView
    <2> QED  BY <2>1, <2>2 DEF FilesStep, Files!Next
  <1>5. ASSUME NEW i \in SlotIds, NEW s \in Writes, Write(i, s)
        PROVE  NamesApart(nodes') /\ FilesStep
    <2>1. slots[i].fd \in FdIds /\ s \in Seq(Bytes) /\ RamWrite(slots[i].fd, s)
      BY <1>0, <1>5, WritesAreSequences DEF Write, SlotsInv, SlotsFine
    <2>2. NamesApart(nodes') /\ Files!Write(slots[i].fd, s)
      BY <1>0, <2>1, WriteView
    <2> QED  BY <2>1, <2>2 DEF FilesStep, Files!Next
  <1>6. ASSUME NEW i \in SlotIds, Close(i)
        PROVE  NamesApart(nodes') /\ FilesStep
    <2>1. CASE slots[i].back = "ram"
      <3>1. slots[i].fd \in FdIds /\ RamClose(slots[i].fd)
        BY <1>0, <1>6, <2>1 DEF Close, SlotsInv, SlotsFine
      <3>2. NamesApart(nodes') /\ Files!Close(slots[i].fd)
        BY <1>0, <3>1, CloseView
      <3> QED  BY <3>1, <3>2 DEF FilesStep, Files!Next
    <2>2. CASE slots[i].back # "ram"
      BY <1>1, <1>6, <2>2 DEF Close
    <2> QED  BY <2>1, <2>2
  <1>7. ASSUME NEW p \in Paths, NEW s \in Writes, WriteAll(p, s)
        PROVE  NamesApart(nodes') /\ FilesStep
    <2>1. NamesApart(nodes') /\ UNCHANGED Handles /\ Files!WriteAll(p)
      BY <1>0, <1>7, WriteAllView DEF WriteAll
    <2> QED  BY <2>1 DEF FilesStep, Files!Next
  <1>8. ASSUME NEW p \in Paths, Mkdir(p)
        PROVE  NamesApart(nodes') /\ FilesStep
    <2>1. NamesApart(nodes') /\ UNCHANGED Handles /\ Files!Create(p)
      BY <1>0, <1>8, MkdirView DEF Mkdir
    <2> QED  BY <2>1 DEF FilesStep, Files!Next
  <1>9. ASSUME NEW p \in Paths, NEW q \in Paths, Rename(p, q)
        PROVE  NamesApart(nodes') /\ FilesStep
    <2>1. NamesApart(nodes') /\ Files!Rename(p, q)
      BY <1>0, <1>9, RenameView DEF Rename
    <2> QED  BY <2>1 DEF FilesStep, Files!Next
  <1>10. ASSUME NEW p \in Paths, OpenToy(p) PROVE NamesApart(nodes') /\ FilesStep
    BY <1>1, <1>10 DEF OpenToy
  <1>11. ASSUME NEW i \in SlotIds, NEW n \in 1 .. MaxWrite, ReadToy(i, n) PROVE NamesApart(nodes') /\ FilesStep
    BY <1>1, <1>11 DEF ReadToy
  <1>12. CASE UNCHANGED vars
    BY <1>1, <1>12 DEF vars, ramVars
  <1> QED  BY <1>2, <1>3, <1>4, <1>5, <1>6, <1>7, <1>8, <1>9, <1>10, <1>11, <1>12 DEF Next

\* ImplementsFiles: with paths that fit the table, the memory file system behind vfs.c, its
\* pool, its nodes and the files moving about in it, implements plain files: an operation
\* changes no file but its own, a read and a write see the bytes last written.
THEOREM FilesImplemented ==
  ASSUME \A p \in Paths : Cut[p] = p
  PROVE  Spec => ImplementsFiles
  <1>1. Uncut
    BY DEF Uncut
  <1>2. Init => Files!Init /\ NamesApart(nodes)
    <2> SUFFICES ASSUME Init PROVE Files!Init /\ NamesApart(nodes)
      OBVIOUS
    <2>1. \A n \in NodeIds : ~nodes[n].used
      BY DEF Init, RamInit, FreeNode
    <2>2. \A p \in Paths : TextsOf(nodes, pool)[p] = <<Zero>>
      BY <2>1, NoFileAt
    <2>3. Texts = [p \in Paths |-> <<Zero>>]
      BY <2>2, Views, TextsDomain
    <2>4. Handles = [f \in FdIds |-> NoFile]
      BY DEF Handles, Init, RamInit, FreeFd
    <2> QED  BY <2>1, <2>3, <2>4 DEF Files!Init, NamesApart
  <1>3. IInv /\ NamesApart(nodes) /\ [Next]_vars => NamesApart(nodes)' /\ FilesStep
    BY <1>1, NextView
  <1>4. Init => IInv
    BY InitHolds
  <1>5. IInv /\ [Next]_vars => IInv'
    BY NextHolds
  <1> QED  BY <1>2, <1>3, <1>4, <1>5, PTL DEF Spec, ImplementsFiles, Files!Spec, FilesStep

-----------------------------------------------------------------------------
(***************************************************************************)
(* Programs in memory: the module Exec.                                    *)
(***************************************************************************)

\* The steps at which a call holds memory.
Holding == {"code", "table", "relocate", "start", "read", "draw"}

TasksTyped ==
  tasks \in [1..MaxTasks -> [active : BOOLEAN, id : Nat, buffer : Buffers \cup {None}]]

Ops   == {"none", "exec", "exec &", "driver", "command", "desktop", "login", "kls", "picture"}
Steps == Holding \cup {"none", "header", "memory", "init"}
CallNames == Names \cup {None, "unknown"}
Call == [op : Ops, step : Steps, buffer : Buffers \cup {None}, name : CallNames]
CallTyped == call \in Call

\* A call holds memory exactly at those steps.
HeldByStep == IF call.step \in Holding THEN call.buffer \in Buffers ELSE call.buffer = None

\* Identifiers are given in order, so the next one is new.
IdsBelowNext ==
  /\ nextId \in Nat
  /\ \A t \in 1..MaxTasks : tasks[t].active => tasks[t].id < nextId

\* The inductive invariant.
ExecInv ==
  /\ TasksTyped
  /\ CallTyped
  /\ HeldByStep
  /\ IdsBelowNext
  /\ live \subseteq Buffers
  /\ MemoryHasOneOwner

-----------------------------------------------------------------------------
(* The shapes of steps.                                                    *)

\* Between calls the record of the call is one of a call.
LEMMA NoCallTyped == NoCall \in Call
  <1>1. "none" \in Ops /\ "none" \in Steps
    BY DEF Ops, Steps
  <1>2. None \in CallNames
    BY DEF CallNames
  <1>3. QED
    BY <1>1, <1>2 DEF NoCall, Call

\* A call that starts holds nothing.
LEMMA StartKeeps ==
  ASSUME ExecInv, Idle, NEW op \in Ops, NEW step \in Steps \ Holding,
         NEW name \in CallNames, Begin(op, step, name)
  PROVE  ExecInv'
  <1>1. call.buffer = None /\ call'.buffer = None /\ call'.step = step
    BY DEF Begin, Idle, NoCall
  <1>2. CallTyped'
    BY DEF Begin, CallTyped, Call
  <1>3. TasksTyped' /\ IdsBelowNext' /\ (live \subseteq Buffers)'
    BY DEF ExecInv, Begin, TasksTyped, IdsBelowNext
  <1>4. HeldByStep'
    BY <1>1 DEF HeldByStep
  <1>5. MemoryHasOneOwner'
    BY <1>1 DEF ExecInv, Begin, MemoryHasOneOwner, ActiveTasks
  <1>6. QED
    BY <1>2, <1>3, <1>4, <1>5 DEF ExecInv

\* A step that only goes on holds what the call held.
LEMMA StepKeeps ==
  ASSUME ExecInv, NEW next \in Steps, next \in Holding <=> call.step \in Holding,
         Step(next)
  PROVE  ExecInv'
  <1>1. call'.buffer = call.buffer /\ call'.step = next
    BY DEF ExecInv, CallTyped, Call, Step
  <1>2. CallTyped'
    BY DEF ExecInv, Step, CallTyped, Call
  <1>3. TasksTyped' /\ IdsBelowNext' /\ (live \subseteq Buffers)'
    BY DEF ExecInv, Step, TasksTyped, IdsBelowNext
  <1>4. HeldByStep'
    BY <1>1 DEF ExecInv, HeldByStep
  <1>5. MemoryHasOneOwner'
    BY <1>1 DEF ExecInv, Step, MemoryHasOneOwner, ActiveTasks
  <1>6. QED
    BY <1>2, <1>3, <1>4, <1>5 DEF ExecInv

\* The payload kmalloc gives is new to the table of tasks.
LEMMA KmallocKeeps ==
  ASSUME ExecInv, call.step \notin Holding, NEW next \in Steps, next \in Holding,
         Kmalloc(next)
  PROVE  ExecInv'
  <1>1. call.buffer = None
    BY DEF ExecInv, HeldByStep
  <1>2. CASE call' = NoCall /\ UNCHANGED <<live, tasks, nextId, drivers, running>>
    <2>1. call'.buffer = None /\ call'.step \notin Holding
      BY <1>2 DEF NoCall, Holding
    <2>2. CallTyped'
      BY <1>2, NoCallTyped DEF CallTyped
    <2>3. TasksTyped' /\ IdsBelowNext' /\ (live \subseteq Buffers)'
      BY <1>2 DEF ExecInv, TasksTyped, IdsBelowNext
    <2>4. MemoryHasOneOwner'
      BY <1>1, <1>2, <2>1 DEF ExecInv, MemoryHasOneOwner, ActiveTasks
    <2>5. QED
      BY <2>1, <2>2, <2>3, <2>4 DEF ExecInv, HeldByStep
  <1>3. CASE /\ \E b \in Buffers \ live :
                  /\ live' = live \cup {b}
                  /\ call' = [call EXCEPT !.buffer = b, !.step = next]
             /\ UNCHANGED <<tasks, nextId, drivers, running>>
    <2>1. PICK b \in Buffers \ live :
            live' = live \cup {b} /\ call' = [call EXCEPT !.buffer = b, !.step = next]
      BY <1>3
    <2>2. call'.buffer = b /\ call'.step = next
      BY <2>1 DEF ExecInv, CallTyped, Call
    <2>3. CallTyped'
      BY <2>1 DEF ExecInv, CallTyped, Call
    <2>4. TasksTyped' /\ IdsBelowNext' /\ (live \subseteq Buffers)'
      BY <1>3, <2>1 DEF ExecInv, TasksTyped, IdsBelowNext
    <2>5. b # None
      BY ExecAssumption DEF None
    <2>6. \A t \in ActiveTasks : tasks[t].buffer \in live
      BY DEF ExecInv, MemoryHasOneOwner
    <2>7. MemoryHasOneOwner'
      BY <1>1, <1>3, <2>1, <2>2, <2>5, <2>6 DEF ExecInv, MemoryHasOneOwner, ActiveTasks
    <2>8. QED
      BY <2>2, <2>3, <2>4, <2>7 DEF ExecInv, HeldByStep
  <1>4. QED
    BY <1>2, <1>3 DEF Kmalloc

\* A call that ends gives back what it held and nothing else.
LEMMA FailsKeeps ==
  ASSUME ExecInv, Fails
  PROVE  ExecInv'
  <1>1. call'.buffer = None /\ call'.step \notin Holding
    BY DEF Fails, NoCall, Holding
  <1>2. CallTyped'
    BY NoCallTyped DEF Fails, CallTyped
  <1>3. TasksTyped' /\ IdsBelowNext' /\ (live \subseteq Buffers)'
    BY DEF ExecInv, Fails, TasksTyped, IdsBelowNext
  <1>4. \A t \in ActiveTasks : tasks[t].buffer \in live /\ tasks[t].buffer # call.buffer
    BY DEF ExecInv, MemoryHasOneOwner
  <1>5. None \notin live
    BY ExecAssumption DEF ExecInv, None
  <1>6. live' = {tasks[t].buffer : t \in ActiveTasks}
    BY <1>4, <1>5 DEF ExecInv, Fails, MemoryHasOneOwner
  <1>7. MemoryHasOneOwner'
    BY <1>1, <1>4, <1>5, <1>6 DEF ExecInv, Fails, MemoryHasOneOwner, ActiveTasks
  <1>8. QED
    BY <1>1, <1>2, <1>3, <1>7 DEF ExecInv, HeldByStep

-----------------------------------------------------------------------------
(* The actions.                                                            *)

\* In the beginning nothing is held and every entry is free.
LEMMA ExecInitHolds == ExecInit => ExecInv
  <1> SUFFICES ASSUME ExecInit PROVE ExecInv
    OBVIOUS
  <1>1. TasksTyped /\ IdsBelowNext
    BY DEF ExecInit, Free, TasksTyped, IdsBelowNext
  <1>2. CallTyped /\ HeldByStep
    BY NoCallTyped DEF ExecInit, CallTyped, HeldByStep, NoCall, Holding
  <1>3. MemoryHasOneOwner
    BY DEF ExecInit, Free, NoCall, MemoryHasOneOwner, ActiveTasks
  <1>4. QED
    BY <1>1, <1>2, <1>3 DEF ExecInit, ExecInv

\* Every call starts at a step that holds nothing.
LEMMA StartsKeep ==
  ASSUME ExecInv,
         \/ Exec \/ Insmod \/ LoadCommand \/ LoadDesktop \/ LoadLogin \/ LoadKls \/ RenderKbi
         \/ \E name \in Names : LoadDriver(name)
  PROVE  ExecInv'
  <1>1. /\ "header" \in Steps \ Holding /\ "memory" \in Steps \ Holding
        /\ {None, "unknown"} \subseteq CallNames /\ Names \subseteq CallNames
    BY DEF Steps, Holding, CallNames
  <1>2. PICK op \in Ops, step \in Steps \ Holding, name \in CallNames :
          Idle /\ Begin(op, step, name)
    BY <1>1 DEF Exec, Insmod, LoadCommand, LoadDesktop, LoadLogin, LoadKls, RenderKbi,
                LoadDriver, AtPrompt, Runs, Ops
  <1>3. QED
    BY <1>2, StartKeeps

\* exec up to the start of its program, and its end by kfree.
LEMMA ExecStepsKeep ==
  ASSUME ExecInv,
         \/ ExecHeader \/ ExecMemory \/ ExecCode \/ ExecTable \/ ExecRelocate
         \/ ExecFull \/ ExecRun
  PROVE  ExecInv'
  <1>1. /\ {"header", "memory", "init"} \cap Holding = {}
        /\ {"code", "table", "relocate", "start"} \subseteq Holding
        /\ {"header", "memory", "code", "table", "relocate", "start"} \subseteq Steps
    BY DEF Steps, Holding
  <1>2. CASE Fails
    BY <1>2, FailsKeeps
  <1>3. CASE ExecHeader
    BY <1>1, <1>3, FailsKeeps, StepKeeps DEF ExecHeader, Execs, Doing
  <1>4. CASE ExecMemory
    BY <1>1, <1>4, KmallocKeeps DEF ExecMemory, Execs, Doing
  <1>5. CASE ExecCode
    BY <1>1, <1>5, FailsKeeps, StepKeeps DEF ExecCode, Execs, Doing
  <1>6. CASE ExecTable
    BY <1>1, <1>6, FailsKeeps, StepKeeps DEF ExecTable, Execs, Doing
  <1>7. CASE ExecRelocate
    BY <1>1, <1>7, FailsKeeps, StepKeeps DEF ExecRelocate, Execs, Doing
  <1>8. CASE ExecFull \/ ExecRun
    BY <1>2, <1>8 DEF ExecFull, ExecRun
  <1>9. QED
    BY <1>3, <1>4, <1>5, <1>6, <1>7, <1>8

\* The buffer passes from the call to the entry of the table.
LEMMA ExecSavedKeeps ==
  ASSUME ExecInv, ExecSaved
  PROVE  ExecInv'
  <1>1. call.buffer \in Buffers
    BY DEF ExecInv, HeldByStep, ExecSaved, Doing, Holding
  <1>2. call.buffer # None
    BY <1>1, ExecAssumption DEF None
  <1>3. PICK t \in FreeTasks :
          tasks' = [tasks EXCEPT ![t] = [active |-> TRUE, id |-> nextId, buffer |-> call.buffer]]
    BY DEF ExecSaved
  <1>4. t \in 1..MaxTasks /\ ~tasks[t].active
    BY DEF FreeTasks
  <1>5. /\ tasks'[t].active /\ tasks'[t].id = nextId /\ tasks'[t].buffer = call.buffer
        /\ \A u \in 1..MaxTasks : u # t => tasks'[u] = tasks[u]
    BY <1>3, <1>4 DEF ExecInv, TasksTyped
  <1>6. ActiveTasks' = ActiveTasks \cup {t}
    BY <1>4, <1>5, Zenon DEF ActiveTasks
  <1>7. TasksTyped'
    BY <1>1, <1>3, <1>4 DEF ExecInv, TasksTyped, IdsBelowNext
  <1>8. IdsBelowNext'
    <2>1. nextId' = nextId + 1 /\ nextId \in Nat
      BY DEF ExecInv, IdsBelowNext, ExecSaved
    <2>2. ASSUME NEW u \in 1..MaxTasks, tasks'[u].active
          PROVE  tasks'[u].id < nextId'
      <3>1. CASE u = t
        BY <2>1, <3>1, <1>5
      <3>2. CASE u # t
        <4>1. tasks[u].active /\ tasks'[u] = tasks[u]
          BY <1>5, <2>2, <3>2
        <4>2. tasks[u].id < nextId /\ tasks[u].id \in Nat
          BY <4>1 DEF ExecInv, IdsBelowNext, TasksTyped
        <4>3. QED
          BY <2>1, <4>1, <4>2
      <3>3. QED
        BY <3>1, <3>2
    <2>3. QED
      BY <2>1, <2>2 DEF IdsBelowNext
  <1>9. call'.buffer = None /\ CallTyped' /\ HeldByStep'
    BY NoCallTyped DEF ExecSaved, NoCall, CallTyped, HeldByStep, Holding
  <1>10. t \notin ActiveTasks /\ \A u \in ActiveTasks : tasks'[u] = tasks[u]
    BY <1>4, <1>5 DEF ActiveTasks
  <1>11. live' = live /\ (live \subseteq Buffers)'
    BY DEF ExecInv, ExecSaved
  <1>12. MemoryHasOneOwner'
    <2>1. live' = {tasks'[u].buffer : u \in ActiveTasks'} \cup ({call'.buffer} \ {None})
      BY <1>2, <1>5, <1>6, <1>9, <1>10, <1>11 DEF ExecInv, MemoryHasOneOwner
    <2>2. \A u \in ActiveTasks' : tasks'[u].buffer \in Buffers
      BY <1>1, <1>5, <1>6, <1>10 DEF ExecInv, MemoryHasOneOwner
    <2>3. \A u \in ActiveTasks' : tasks'[u].buffer # call'.buffer
      BY <1>9, <2>2, ExecAssumption DEF None
    <2>4. \A u \in ActiveTasks : tasks[u].id \in Nat /\ tasks[u].id # nextId
      BY DEF ExecInv, IdsBelowNext, TasksTyped, ActiveTasks
    <2>5. \A u, w \in ActiveTasks' :
            u # w => tasks'[u].buffer # tasks'[w].buffer /\ tasks'[u].id # tasks'[w].id
      BY <1>5, <1>6, <1>10, <2>4 DEF ExecInv, MemoryHasOneOwner
    <2>6. QED
      BY <2>1, <2>3, <2>5 DEF MemoryHasOneOwner
  <1>13. QED
    BY <1>7, <1>8, <1>9, <1>11, <1>12 DEF ExecInv

\* kill gives back the buffer of its task and no other's.
LEMMA KillKeeps ==
  ASSUME ExecInv, NEW id, Kill(id)
  PROVE  ExecInv'
  <1>1. call.buffer = None /\ call' = call
    BY DEF Kill, AtPrompt, Idle, NoCall
  <1>2. PICK t \in 1..MaxTasks :
          /\ tasks[t].active
          /\ live' = live \ {tasks[t].buffer}
          /\ tasks' = [tasks EXCEPT ![t] = Free]
    BY DEF Kill
  <1>3. /\ ~tasks'[t].active
        /\ \A u \in 1..MaxTasks : u # t => tasks'[u] = tasks[u]
    BY <1>2 DEF ExecInv, TasksTyped, Free
  <1>4. ActiveTasks' = ActiveTasks \ {t}
    BY <1>2, <1>3, Zenon DEF ActiveTasks
  <1>5. t \in ActiveTasks /\ \A u \in ActiveTasks' : u \in ActiveTasks /\ u # t /\ tasks'[u] = tasks[u]
    BY <1>2, <1>3, <1>4 DEF ActiveTasks
  <1>6. TasksTyped'
    BY <1>2 DEF ExecInv, TasksTyped, Free
  <1>7. IdsBelowNext'
    BY <1>3 DEF ExecInv, IdsBelowNext, Kill
  <1>8. CallTyped' /\ HeldByStep' /\ (live \subseteq Buffers)'
    BY <1>1, <1>2 DEF ExecInv, CallTyped, HeldByStep
  <1>9. MemoryHasOneOwner'
    <2>1. live' = {tasks'[u].buffer : u \in ActiveTasks'} \cup ({call'.buffer} \ {None})
      BY <1>1, <1>2, <1>4, <1>5 DEF ExecInv, MemoryHasOneOwner
    <2>2. \A u \in ActiveTasks' : tasks'[u].buffer # call'.buffer
      BY <1>1, <1>5 DEF ExecInv, MemoryHasOneOwner
    <2>3. \A u, w \in ActiveTasks' :
            u # w => tasks'[u].buffer # tasks'[w].buffer /\ tasks'[u].id # tasks'[w].id
      BY <1>5 DEF ExecInv, MemoryHasOneOwner
    <2>4. QED
      BY <2>1, <2>2, <2>3 DEF MemoryHasOneOwner
  <1>10. QED
    BY <1>6, <1>7, <1>8, <1>9 DEF ExecInv

\* The loaders: kmalloc, the file read or not, and the buffer given back.
LEMMA LoadStepsKeep ==
  ASSUME ExecInv, LoadMemory \/ LoadRead \/ DriverInit \/ PictureMemory \/ PictureDrawn
  PROVE  ExecInv'
  <1>1. /\ {"memory", "init"} \cap Holding = {} /\ {"read", "draw"} \subseteq Holding
        /\ Holding \subseteq Steps /\ "init" \in Steps
    BY DEF Steps, Holding
  <1>2. CASE LoadMemory \/ PictureMemory
    BY <1>1, <1>2, KmallocKeeps DEF LoadMemory, PictureMemory, Doing
  <1>3. CASE Fails
    BY <1>3, FailsKeeps
  <1>4. CASE LoadRead /\ ~Fails
    <2>1. live' = live \ {call.buffer} /\ UNCHANGED <<tasks, nextId>>
      BY <1>4 DEF LoadRead
    <2>2. /\ call' = NoCall \/ call' = [call EXCEPT !.buffer = None, !.step = "init"]
          /\ call'.buffer = None /\ call'.step \notin Holding
      <3>1. call' = NoCall \/ call' = [call EXCEPT !.buffer = None, !.step = "init"]
        BY <1>4, Zenon DEF LoadRead
      <3>2. CASE call' = NoCall
        BY <3>2 DEF NoCall, Holding
      <3>3. CASE call' = [call EXCEPT !.buffer = None, !.step = "init"]
        BY <1>1, <3>3 DEF ExecInv, CallTyped, Call
      <3>4. QED
        BY <3>1, <3>2, <3>3
    <2>3. CallTyped'
      BY <1>1, <2>2, NoCallTyped DEF ExecInv, CallTyped, Call
    <2>4. TasksTyped' /\ IdsBelowNext' /\ (live \subseteq Buffers)'
      BY <2>1 DEF ExecInv, TasksTyped, IdsBelowNext
    <2>5. \A t \in ActiveTasks : tasks[t].buffer \in live /\ tasks[t].buffer # call.buffer
      BY DEF ExecInv, MemoryHasOneOwner
    <2>6. None \notin live
      BY ExecAssumption DEF ExecInv, None
    <2>7. live' = {tasks[t].buffer : t \in ActiveTasks}
      BY <2>1, <2>5, <2>6 DEF ExecInv, MemoryHasOneOwner
    <2>8. MemoryHasOneOwner'
      BY <2>1, <2>2, <2>5, <2>6, <2>7 DEF ExecInv, MemoryHasOneOwner, ActiveTasks
    <2>9. QED
      BY <2>2, <2>3, <2>4, <2>8 DEF ExecInv, HeldByStep
  <1>5. CASE DriverInit
    <2>1. call.buffer = None /\ call'.buffer = None /\ call'.step \notin Holding
      BY <1>1, <1>5 DEF ExecInv, HeldByStep, DriverInit, Doing, NoCall, Holding
    <2>2. CallTyped'
      BY <1>5, NoCallTyped DEF DriverInit, CallTyped
    <2>3. TasksTyped' /\ IdsBelowNext' /\ (live \subseteq Buffers)'
      BY <1>5 DEF ExecInv, DriverInit, TasksTyped, IdsBelowNext
    <2>4. MemoryHasOneOwner'
      BY <1>5, <2>1 DEF ExecInv, DriverInit, MemoryHasOneOwner, ActiveTasks
    <2>5. QED
      BY <2>1, <2>2, <2>3, <2>4 DEF ExecInv, HeldByStep
  <1>6. CASE PictureDrawn
    BY <1>3, <1>6 DEF PictureDrawn
  <1>7. QED
    BY <1>2, <1>3, <1>4, <1>5, <1>6

\* A step that touches none of memory, tasks and the call.
LEMMA UnchangedKeeps ==
  ASSUME ExecInv, UNCHANGED <<live, tasks, nextId, call>>
  PROVE  ExecInv'
  BY DEF ExecInv, TasksTyped, CallTyped, HeldByStep, IdsBelowNext, MemoryHasOneOwner, ActiveTasks

\* Memory has one owner at every moment: what kmalloc gave out belongs to a task
\* or to the call in progress, whichever of its steps failed (cmd_exec.c,
\* cmd_kill.c, loader.c).
THEOREM OneOwner == ExecSpec => []MemoryHasOneOwner
  <1>1. ExecInv /\ [ExecNext]_execVars => ExecInv'
    <2> SUFFICES ASSUME ExecInv, [ExecNext]_execVars PROVE ExecInv'
      OBVIOUS
    <2>1. CASE \/ Exec \/ Insmod \/ LoadCommand \/ LoadDesktop \/ LoadLogin \/ LoadKls \/ RenderKbi
               \/ \E name \in Names : LoadDriver(name)
      BY <2>1, StartsKeep
    <2>2. CASE \/ ExecHeader \/ ExecMemory \/ ExecCode \/ ExecTable \/ ExecRelocate
               \/ ExecFull \/ ExecRun
      BY <2>2, ExecStepsKeep
    <2>3. CASE ExecSaved
      BY <2>3, ExecSavedKeeps
    <2>4. CASE \E id \in 0..MaxIds : Kill(id)
      BY <2>4, KillKeeps
    <2>5. CASE LoadMemory \/ LoadRead \/ DriverInit \/ PictureMemory \/ PictureDrawn
      BY <2>5, LoadStepsKeep
    <2>6. CASE Returns \/ UNCHANGED execVars
      BY <2>6, UnchangedKeeps DEF Returns, execVars
    <2>7. QED
      BY <2>1, <2>2, <2>3, <2>4, <2>5, <2>6 DEF ExecNext
  <1>2. ExecInv => MemoryHasOneOwner
    BY DEF ExecInv
  <1>3. QED
    BY ExecInitHolds, <1>1, <1>2, PTL DEF ExecSpec

=============================================================================
