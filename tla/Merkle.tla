-------------------------------- MODULE Merkle --------------------------------
(***************************************************************************)
(* The Merkle tree of the transparency log: services/transparency_format.py.*)
(* SHA-256 is taken to be free of collisions: a hash is the term it was     *)
(* computed from, tagged with its domain (0x00 leaves, 0x01 nodes).         *)
(*                                                                         *)
(* The verifiers at the end belong to the relying party (the open SDK, not  *)
(* in this repository).  They walk the tree bottom up over the binary       *)
(* expansion of the sizes, as RFC 9162 does, where the generators recurse   *)
(* top down: that the two agree is the point of checking them.              *)
(***************************************************************************)
EXTENDS Naturals, Sequences, SequencesExt

leaf_hash(d) == <<"leaf", d>>
node_hash(l, r) == <<"node", l, r>>
empty_tree_hash == <<"empty">>

leaf_hashes(digests) == [i \in 1..Len(digests) |-> leaf_hash(digests[i])]

RECURSIVE PowerBelow(_, _)
PowerBelow(p, n) == IF 2 * p < n THEN PowerBelow(2 * p, n) ELSE p

\* 1 << ((value - 1).bit_length() - 1), for value >= 2
largest_power_of_two_less_than(n) == PowerBelow(1, n)

RECURSIVE merkle_root(_)
merkle_root(hs) ==
    IF hs = <<>> THEN empty_tree_hash
    ELSE IF Len(hs) = 1 THEN hs[1]
    ELSE LET k == largest_power_of_two_less_than(Len(hs))
         IN node_hash(merkle_root(SubSeq(hs, 1, k)), merkle_root(SubSeq(hs, k + 1, Len(hs))))

\* Leaf indices count from 0, as in the code.
RECURSIVE inclusion_path(_, _)
inclusion_path(hs, index) ==
    IF Len(hs) = 1 THEN <<>>
    ELSE LET k == largest_power_of_two_less_than(Len(hs))
             left == SubSeq(hs, 1, k)
             right == SubSeq(hs, k + 1, Len(hs))
         IN IF index < k THEN Append(inclusion_path(left, index), merkle_root(right))
                         ELSE Append(inclusion_path(right, index - k), merkle_root(left))

RECURSIVE ConsistencyNodes(_, _, _)
ConsistencyNodes(old, hs, includeOldRoot) ==
    IF old = Len(hs) THEN IF includeOldRoot THEN <<>> ELSE <<merkle_root(hs)>>
    ELSE LET k == largest_power_of_two_less_than(Len(hs))
             left == SubSeq(hs, 1, k)
             right == SubSeq(hs, k + 1, Len(hs))
         IN IF old <= k
            THEN Append(ConsistencyNodes(old, left, includeOldRoot), merkle_root(right))
            ELSE Append(ConsistencyNodes(old - k, right, FALSE), merkle_root(left))

consistency_path(hs, old, new) ==
    IF old = 0 \/ old = new THEN <<>>
    ELSE ConsistencyNodes(old, SubSeq(hs, 1, new), TRUE)

-----------------------------------------------------------------------------
(* The relying party's verifiers *)

Odd(n) == n % 2 = 1

RECURSIVE ShiftWhileEven(_, _)
ShiftWhileEven(fn, sn) ==
    IF fn = 0 \/ Odd(fn) THEN <<fn, sn>> ELSE ShiftWhileEven(fn \div 2, sn \div 2)

RECURSIVE ShiftWhileOdd(_, _)
ShiftWhileOdd(fn, sn) == IF Odd(fn) THEN ShiftWhileOdd(fn \div 2, sn \div 2) ELSE <<fn, sn>>

RECURSIVE PowerOfTwo(_)
PowerOfTwo(n) == n = 1 \/ (~Odd(n) /\ n > 0 /\ PowerOfTwo(n \div 2))

\* One node of a proof joined to the walk: fr is the hash of the old tree (or
\* of the leaf), sr the hash of the whole tree.
Join(walk, c) ==
    LET onRight == Odd(walk.fn) \/ walk.fn = walk.sn
        at == IF onRight /\ ~Odd(walk.fn) THEN ShiftWhileEven(walk.fn, walk.sn)
                                          ELSE <<walk.fn, walk.sn>>
    IN [fn |-> at[1] \div 2, sn |-> at[2] \div 2, ok |-> walk.ok /\ walk.sn # 0,
        fr |-> IF onRight THEN node_hash(c, walk.fr) ELSE walk.fr,
        sr |-> IF onRight THEN node_hash(c, walk.sr) ELSE node_hash(walk.sr, c)]

VerifyInclusion(leaf, index, size, path, root) ==
    /\ index < size
    /\ LET end == FoldLeft(Join, [fn |-> index, sn |-> size - 1, ok |-> TRUE,
                                  fr |-> leaf, sr |-> leaf], path)
       IN end.ok /\ end.sn = 0 /\ end.sr = root

VerifyConsistency(old, new, path, oldRoot, newRoot) ==
    IF old = new THEN path = <<>> /\ oldRoot = newRoot
    ELSE LET nodes == IF PowerOfTwo(old) THEN <<oldRoot>> \o path ELSE path
             at == ShiftWhileOdd(old - 1, new - 1)
             end == FoldLeft(Join, [fn |-> at[1], sn |-> at[2], ok |-> TRUE,
                                    fr |-> nodes[1], sr |-> nodes[1]], Tail(nodes))
         IN nodes # <<>> /\ end.ok /\ end.sn = 0 /\ end.fr = oldRoot /\ end.sr = newRoot
=============================================================================
