------------------------------- MODULE Merkle -------------------------------
(***************************************************************************)
(* The bounded Merkle tree (pkg/merkle): a compact range for the root, the *)
(* leaves in a LeafStore behind an LRU, and internal nodes in an LRU from  *)
(* which any may have been evicted when a proof needs it.  It is checked   *)
(* against the tree hash of RFC 6962.                                      *)
(*                                                                         *)
(* The tree is only used under Log.mu, so the steps are whole calls.  The  *)
(* hash of leaf i is <<i>> and the hash of two children is their pair: a   *)
(* hash is right when the whole subtree is.  The node lists of a proof and *)
(* its verification are those of transparency-dev/merkle.                  *)
(***************************************************************************)
EXTENDS Integers, Sequences, SequencesExt

CONSTANTS
    maxInternal,  \* internal nodes kept in memory, 0 = all
    maxLeaf,      \* leaves kept in memory, 0 = all
    MaxLeaves     \* bound: leaves appended

VARIABLES
    rng,      \* compact.Range: hashes of the perfect subtrees, left to right
    size,     \* rng.End()
    lru,      \* internal: [id, hash], most recent first
    leafLRU,  \* leaves resident in memory: [id, hash], most recent first
    store     \* the LeafStore: the leaf hashes

vars == <<rng, size, lru, leafLRU, store>>

HashLeaf(i) == <<i>>
HashChildren(l, r) == <<l, r>>
NodeID(level, index) == <<level, index>>

-----------------------------------------------------------------------------
(* Reference: RFC 6962 section 2.1                                         *)

\* The largest power of two smaller than n
SplitPoint(n) ==
    CHOOSE k \in {2 ^ e : e \in 0 .. n} : k < n /\ n <= 2 * k

RECURSIVE MTH(_, _)
MTH(b, e) ==
    IF e = b + 1 THEN HashLeaf(b)
    ELSE LET m == b + SplitPoint(e - b) IN HashChildren(MTH(b, m), MTH(m, e))

-----------------------------------------------------------------------------
(* The library: node lists and verification (transparency-dev/merkle)      *)

\* proof.Inclusion: the subtrees beside the path from leaf i, bottom up, as
\* ranges of leaves
RECURSIVE InclusionRanges(_, _, _)
InclusionRanges(i, b, e) ==
    IF e = b + 1 THEN <<>>
    ELSE LET m == b + SplitPoint(e - b)
         IN IF i < m THEN Append(InclusionRanges(i, b, m), <<m, e>>)
                     ELSE Append(InclusionRanges(i, m, e), <<b, m>>)

\* proof.Consistency: the subtrees that hash to both roots; "whole" while the
\* first n leaves of the range are the whole old tree
RECURSIVE ConsistencyRanges(_, _, _, _)
ConsistencyRanges(n, b, e, whole) ==
    IF n = e THEN IF whole THEN <<>> ELSE << <<b, e>> >>
    ELSE LET m == b + SplitPoint(e - b)
         IN IF n <= m
            THEN Append(ConsistencyRanges(n, b, m, whole), <<m, e>>)
            ELSE Append(ConsistencyRanges(n, m, e, FALSE), <<b, m>>)

\* compact.RangeNodes: a range as perfect subtrees, left to right
RECURSIVE RangeNodes(_, _)
RangeNodes(b, e) ==
    IF b = e THEN <<>>
    ELSE LET fits == {l \in 0 .. e : b % 2 ^ l = 0 /\ b + 2 ^ l <= e}
             l == CHOOSE l \in fits : \A k \in fits : k <= l
         IN <<NodeID(l, b \div 2 ^ l)>> \o RangeNodes(b + 2 ^ l, e)

\* Nodes.Rehash and Range.GetRootHash: perfect subtrees, right to left
Rehash(hashes) ==
    FoldRight(HashChildren, SubSeq(hashes, 1, Len(hashes) - 1),
              hashes[Len(hashes)])

\* proof.VerifyInclusion: the root the proof leads to
RECURSIVE RootFromInclusion(_, _, _, _, _)
RootFromInclusion(i, b, e, h, prf) ==
    IF e = b + 1 THEN h
    ELSE LET m == b + SplitPoint(e - b)
             rest == SubSeq(prf, 1, Len(prf) - 1)
             top == prf[Len(prf)]
         IN IF i < m
            THEN HashChildren(RootFromInclusion(i, b, m, h, rest), top)
            ELSE HashChildren(top, RootFromInclusion(i, m, e, h, rest))

\* proof.VerifyConsistency: the two roots the proof leads to, from the old root
RECURSIVE RootsFromConsistency(_, _, _, _, _, _)
RootsFromConsistency(n, b, e, whole, old, prf) ==
    IF n = e THEN IF whole THEN <<old, old>> ELSE <<prf[1], prf[1]>>
    ELSE LET m == b + SplitPoint(e - b)
             rest == SubSeq(prf, 1, Len(prf) - 1)
             top == prf[Len(prf)]
         IN IF n <= m
            THEN LET r == RootsFromConsistency(n, b, m, whole, old, rest)
                 IN <<r[1], HashChildren(r[2], top)>>
            ELSE LET r == RootsFromConsistency(n, m, e, FALSE, old, rest)
                 IN <<HashChildren(top, r[1]), HashChildren(top, r[2])>>

-----------------------------------------------------------------------------
(* The two LRUs                                                            *)

Resident(cache, id) == \E i \in DOMAIN cache : cache[i].id = id

CachedHash(cache, id) ==
    cache[CHOOSE i \in DOMAIN cache : cache[i].id = id].hash

\* putNode and putLeaf: to the front; beyond the cap the back is evicted.
PushFront(cache, max, id, hash) ==
    LET others == SelectSeq(cache, LAMBDA n : n.id # id)
        new == <<[id |-> id, hash |-> hash]>> \o others
    IN IF ~Resident(cache, id) /\ max > 0 /\ Len(new) > max
       THEN SubSeq(new, 1, Len(new) - 1)
       ELSE new

\* nodeHash of a leaf: the LRU, then the store; either way it is now resident.
LeafHash(s, i) ==
    IF Resident(s.leaves, i) THEN CachedHash(s.leaves, i) ELSE store[i + 1]

TouchLeaf(s, i) ==
    [s EXCEPT !.leaves = PushFront(@, maxLeaf, i, LeafHash(s, i))]

-----------------------------------------------------------------------------
(* Proofs.  The caches s that a call has left so far are threaded through. *)

\* mutant: the loop of subRoot never runs
SubRootSplit_One(n) == 1

\* The loop of subRoot: k doubles while 2k is below the span.
SubRootSplit(n) == CHOOSE k \in {2 ^ e : e \in 0 .. n} :
    k * 2 >= n /\ \A j \in {2 ^ e : e \in 0 .. n} : j < k => j * 2 < n

RECURSIVE SubRoot(_, _, _)
SubRoot(s, b, e) ==
    IF b + 1 = e THEN LeafHash(s, b)
    ELSE LET m == b + SubRootSplit(e - b)
         IN HashChildren(SubRoot(s, b, m), SubRoot(s, m, e))

Coverage(id) == <<id[2] * 2 ^ id[1], (id[2] + 1) * 2 ^ id[1]>>

\* nodeHash, else computeNode
NodeHash(s, id) ==
    IF id[1] = 0 THEN LeafHash(s, id[2])
    ELSE IF Resident(s.nodes, id) THEN CachedHash(s.nodes, id)
    ELSE SubRoot(s, Coverage(id)[1], Coverage(id)[2])

\* What nodeHash and computeNode do to the LRUs: a hit moves to the front, a
\* recomputed node reads its leaves in order and is not cached again.
TouchNode(s, id) ==
    IF id[1] > 0 /\ Resident(s.nodes, id)
    THEN [s EXCEPT !.nodes = PushFront(@, maxInternal, id, CachedHash(@, id))]
    ELSE FoldLeft(TouchLeaf, s,
                  [k \in 1 .. 2 ^ id[1] |-> Coverage(id)[1] + k - 1])

Caches == [nodes |-> lru, leaves |-> leafLRU]

\* materialise: every range is rehashed from its perfect subtrees.
Materialise(ranges) ==
    [r \in DOMAIN ranges |->
        LET ids == RangeNodes(ranges[r][1], ranges[r][2])
        IN Rehash([j \in DOMAIN ids |-> NodeHash(Caches, ids[j])])]

TouchRange(s, range) == FoldLeft(TouchNode, s, RangeNodes(range[1], range[2]))

InclusionProof(i, n) == Materialise(InclusionRanges(i, 0, n))

ConsistencyProof(m, n) ==
    IF m = 0 \/ m = n THEN <<>> ELSE Materialise(ConsistencyRanges(m, 0, n, TRUE))

Root == IF size = 0 THEN <<>> ELSE Rehash(rng)

-----------------------------------------------------------------------------
(* Operations                                                              *)

Init ==
    /\ rng = <<>>
    /\ size = 0
    /\ lru = <<>>
    /\ leafLRU = <<>>
    /\ store = <<>>

\* compact.Range.Append: the new leaf merges with the perfect subtrees it
\* completes, and each merged node is visited, bottom up.
RECURSIVE Merged(_, _, _)
Merged(hashes, h, level) ==
    IF (size + 1) % 2 ^ (level + 1) # 0 THEN [range |-> Append(hashes, h), visited |-> <<>>]
    ELSE LET up == HashChildren(hashes[Len(hashes)], h)
             rest == Merged(SubSeq(hashes, 1, Len(hashes) - 1), up, level + 1)
         IN [rest EXCEPT !.visited =
               <<[id |-> NodeID(level + 1, size \div 2 ^ (level + 1)), hash |-> up]>> \o @]

\* mutant: a merged node is filed one place too far to the right
VisitNode_NextIndex(cache, node) ==
    PushFront(cache, maxInternal, NodeID(node.id[1], node.id[2] + 1), node.hash)

VisitNode(cache, node) == PushFront(cache, maxInternal, node.id, node.hash)

AppendLeafHash ==
    /\ size < MaxLeaves
    /\ LET h == HashLeaf(size)
           m == Merged(rng, h, 0)
       IN /\ rng' = m.range
          /\ lru' = FoldLeft(VisitNode, lru, m.visited)
          /\ leafLRU' = PushFront(leafLRU, maxLeaf, size, h)
          /\ store' = Append(store, h)
    /\ size' = size + 1

\* A proof changes the LRUs only.
Serve(ranges) ==
    /\ LET s == FoldLeft(TouchRange, Caches, ranges)
       IN /\ lru' = s.nodes
          /\ leafLRU' = s.leaves
    /\ UNCHANGED <<rng, size, store>>

ServeInclusion(i, n) == Serve(InclusionRanges(i, 0, n))

ServeConsistency(m, n) == Serve(ConsistencyRanges(m, 0, n, TRUE))

Next ==
    \/ AppendLeafHash
    \/ \E n \in 1 .. size : \E i \in 0 .. n - 1 : ServeInclusion(i, n)
    \/ \E n \in 1 .. size : \E m \in 1 .. n - 1 : ServeConsistency(m, n)

Spec == Init /\ [][Next]_vars

-----------------------------------------------------------------------------
(* Properties                                                              *)

NoDuplicates(cache) ==
    \A i, j \in DOMAIN cache : cache[i].id = cache[j].id => i = j

\* Sizes agree, an LRU holds a node once and no more nodes than its cap.
TypeOK ==
    /\ size \in 0 .. MaxLeaves
    /\ Len(store) = size
    /\ NoDuplicates(lru) /\ NoDuplicates(leafLRU)
    /\ maxInternal > 0 => Len(lru) <= maxInternal
    /\ maxLeaf > 0 => Len(leafLRU) <= maxLeaf

\* What a client holds as the root of the first n leaves: the tree hash of RFC
\* 6962, and for the tree as it is now what Root returns.
RootAt(n) == IF n = size THEN Root ELSE MTH(0, n)

\* An inclusion proof for any leaf in any past size of the tree leads to the
\* root the log had at that size, and the root built one append at a time is
\* that of RFC 6962, whatever was evicted from the LRUs.
InclusionVerifies ==
    \A n \in 1 .. size :
        /\ RootAt(n) = MTH(0, n)
        /\ \A i \in 0 .. n - 1 :
             RootFromInclusion(i, 0, n, HashLeaf(i), InclusionProof(i, n)) = RootAt(n)

\* A consistency proof between any two past sizes leads from the old root to
\* both roots, whatever was evicted from the LRUs.
ConsistencyVerifies ==
    \A n \in 1 .. size : \A m \in 1 .. n :
        RootsFromConsistency(m, 0, n, TRUE, RootAt(m), ConsistencyProof(m, n))
            = <<RootAt(m), RootAt(n)>>

=============================================================================
