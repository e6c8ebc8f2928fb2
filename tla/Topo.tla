------------------------------- MODULE Topo -------------------------------
(***************************************************************************)
(* TopoHelper (src/tracker/topo.py): the tree, parent and ring maps that   *)
(* Tracker.__init__ builds for nworker ranks with get_link_map.            *)
(*                                                                         *)
(* find_share_ring iterates over a Python set of child ranks; its order is *)
(* CPython's hash-table order, not the order the spec names.  The model    *)
(* lets it be any order: ShareRings(...) is the set of every list the     *)
(* code can return, and the state (n, lst) ranges over all of them for    *)
(* every n up to MaxN.  The properties compare what get_link_map makes of *)
(* each list with a reference definition of a ring and of a tree.         *)
(***************************************************************************)
EXTENDS Integers, Sequences, SequencesExt, Functions

CONSTANT MaxN   \* bound: largest nworker checked

VARIABLES n, lst

vars == <<n, lst>>

\* get_neighbor: parent and children of rank r in the binary heap.
GetNeighbor(r, nw) ==
  LET k == r + 1 IN
  (IF k > 1 THEN <<k \div 2 - 1>> ELSE <<>>)
    \o (IF k * 2 - 1 < nw THEN <<k * 2 - 1>> ELSE <<>>)
    \o (IF k * 2 < nw THEN <<k * 2>> ELSE <<>>)

\* get_tree: tree_map and parent_map.
TreeMap(nw) == [r \in 0..(nw - 1) |-> GetNeighbor(r, nw)]
ParentMap(nw) == [r \in 0..(nw - 1) |-> (r + 1) \div 2 - 1]

\* The rank lists for children visited in order ord: every list but the
\* last kept, the last one reversed.
RECURSIVE ShareRings(_, _, _), SubtreeLists(_, _, _)

SubtreeLists(tm, pm, ord) ==
  IF Len(ord) = 1
    THEN {Reverse(l) : l \in ShareRings(tm, pm, ord[1])}
    ELSE {l \o rest : l \in ShareRings(tm, pm, Head(ord)),
                      rest \in SubtreeLists(tm, pm, Tail(ord))}

\* Mutation of ShareRings: the last child's list is not reversed.
ShareRingsNoReverse(tm, pm, r) ==
  LET cset == ToSet(tm[r]) \ {pm[r]}
      Plain(ord) == LET F[i \in 0..Len(ord)] ==
                          IF i = 0 THEN {<<>>}
                          ELSE {a \o b : a \in F[i - 1],
                                         b \in ShareRings(tm, pm, ord[i])}
                    IN F[Len(ord)]
  IN IF cset = {} THEN {<<r>>}
     ELSE UNION {{<<r>> \o l : l \in Plain(ord)} : ord \in SetToSeqs(cset)}

\* Mutation of ShareRings: rlst is restarted for every child.
ShareRingsKeepLast(tm, pm, r) ==
  LET cset == ToSet(tm[r]) \ {pm[r]}
  IN IF cset = {} THEN {<<r>>}
     ELSE UNION {{<<r>> \o Reverse(l) : l \in ShareRings(tm, pm, ord[Len(ord)])}
                   : ord \in SetToSeqs(cset)}

\* find_share_ring(tree_map, parent_map, r), for every order of cset.
ShareRings(tm, pm, r) ==
  LET cset == ToSet(tm[r]) \ {pm[r]}
  IN IF cset = {} THEN {<<r>>}
     ELSE UNION {{<<r>> \o l : l \in SubtreeLists(tm, pm, ord)}
                   : ord \in SetToSeqs(cset)}

\* Position of the last occurrence of v in s: a dict written in the order
\* of s keeps the last value written for a key.
LastIndex(s, v) ==
  CHOOSE i \in DOMAIN s : s[i] = v /\ \A j \in DOMAIN s : s[j] = v => j <= i

\* get_ring: each rank of rlst to its (previous, next) in rlst.
GetRing(rlst) ==
  LET len == Len(rlst)
      Before(i) == ((i - 2 + len) % len) + 1
      After(i) == (i % len) + 1
  IN [v \in ToSet(rlst) |->
        LET i == LastIndex(rlst, v) IN <<rlst[Before(i)], rlst[After(i)]>>]

\* Mutation of RingWalk: the walk follows the previous rank.
RECURSIVE RingWalkBack(_, _, _)
RingWalkBack(ring, k, m) ==
  IF m = 0 THEN <<>> ELSE <<k>> \o RingWalkBack(ring, ring[k][1], m - 1)

\* get_link_map's walk: 0, then m - 1 steps to the next rank of the ring.
RECURSIVE RingWalk(_, _, _)
RingWalk(ring, k, m) ==
  IF m = 0 THEN <<>> ELSE <<k>> \o RingWalk(ring, ring[k][2], m - 1)

\* rmap: the new label of each rank is its place in the walk.
RMap(ring, nw) ==
  LET w == RingWalk(ring, 0, nw) IN [k \in ToSet(w) |-> LastIndex(w, k) - 1]

\* The old rank that rmap relabels to x.
Old(rmap, x) == CHOOSE k \in DOMAIN rmap : rmap[k] = x

\* Mutation of RelabelParent: the parent is left under its old label.
RelabelParentUnmapped(pm, rmap) ==
  [x \in Range(rmap) |-> IF Old(rmap, x) # 0 THEN pm[Old(rmap, x)] ELSE -1]

\* parent_map_ of get_link_map.
RelabelParent(pm, rmap) ==
  [x \in Range(rmap) |->
     IF Old(rmap, x) # 0 THEN rmap[pm[Old(rmap, x)]] ELSE -1]

\* tree_map_ and ring_map_ of get_link_map.
RelabelTree(tm, rmap) ==
  [x \in Range(rmap) |-> LET v == tm[Old(rmap, x)] IN
                           [i \in DOMAIN v |-> rmap[v[i]]]]
RelabelRing(ring, rmap) ==
  [x \in Range(rmap) |-> LET v == ring[Old(rmap, x)] IN
                           <<rmap[v[1]], rmap[v[2]]>>]

\* get_link_map(n) for the share-ring list l.
LinkMap(nw, l) ==
  LET ring == GetRing(l)
      rmap == RMap(ring, nw)
  IN [tree   |-> RelabelTree(TreeMap(nw), rmap),
      parent |-> RelabelParent(ParentMap(nw), rmap),
      ring   |-> RelabelRing(ring, rmap),
      rmap   |-> rmap]

\* Tracker.__init__ builds the maps for its nworker.
Init ==
  /\ n \in 1..MaxN
  /\ lst \in ShareRings(TreeMap(n), ParentMap(n), 0)

\* The maps never change once built.
Built == UNCHANGED vars

Next == Built

Spec == Init /\ [][Next]_vars

-----------------------------------------------------------------------------
Out == LinkMap(n, lst)

(* find_share_ring lists every rank exactly once (get_ring only asserts   *)
(* the length), whatever order the set of children is visited in.         *)
ShareRingIsPermutation ==
  Len(lst) = n /\ ToSet(lst) = 0..(n - 1)

(* Reference ring: walking ring_map from 0 and relabelling in walk order *)
(* visits every rank once (rmap is a bijection of 0..n-1), and the        *)
(* relabelled ring_map_ is the ring i -> (i-1, i+1) mod n.                *)
LinkRing ==
  /\ DOMAIN Out.rmap = 0..(n - 1)
  /\ IsInjective(Out.rmap)
  /\ Out.ring = [i \in 0..(n - 1) |-> <<(i + n - 1) % n, (i + 1) % n>>]

\* The chain of parents from x up to the root, at most n links long.
RECURSIVE Ancestry(_, _, _)
Ancestry(pm, x, fuel) ==
  IF x = -1 \/ fuel = 0 THEN {} ELSE {x} \cup Ancestry(pm, pm[x], fuel - 1)

(* Reference tree: after relabelling, parent_map_ is a tree rooted at 0   *)
(* (every chain of parents reaches 0 and stops at -1), and tree_map_ of   *)
(* each rank lists exactly its parent and the ranks whose parent it is.   *)
LinkTree ==
  LET pm == Out.parent
      Children(x) == {y \in 0..(n - 1) : y # 0 /\ pm[y] = x}
  IN /\ pm[0] = -1
     /\ \A x \in 0..(n - 1) : 0 \in Ancestry(pm, x, n)
     /\ \A x \in 0..(n - 1) :
          ToSet(Out.tree[x]) = Children(x) \cup (IF x = 0 THEN {} ELSE {pm[x]})

(* The share ring reuses tree links (topo.py: "a ring structure that      *)
(* tends to share nodes with the tree"): reversing the last child's list  *)
(* makes at least n \div 2 + 1 of the n ring links tree links, for every  *)
(* order of visiting the children.                                        *)
RingSharesTree ==
  LET TreeLink(x, y) == x \in ToSet(Out.tree[y])
  IN n >= 2 =>
       Cardinality({i \in 0..(n - 1) : TreeLink(i, (i + 1) % n)}) >= n \div 2 + 1

=============================================================================
