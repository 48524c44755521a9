-------------------------- MODULE MCTransparencyLog ---------------------------
EXTENDS TransparencyLog, Merkle, TLC

RootOf(digests) == merkle_root(leaf_hashes(digests))

\* The generators against the verifiers, for trees larger than the run grows.
HashesUpTo(n) == [i \in 1..n |-> leaf_hash(i)]
ASSUME PathsVerify ==
    \A n \in 1..9 : \A m \in 1..n :
        /\ VerifyInclusion(leaf_hash(m), m - 1, n, inclusion_path(HashesUpTo(n), m - 1),
                           merkle_root(HashesUpTo(n)))
        /\ VerifyConsistency(m, n, consistency_path(HashesUpTo(n), m, n),
                             merkle_root(HashesUpTo(m)), merkle_root(HashesUpTo(n)))

Symmetry == Permutations(Sessions) \cup Permutations(Digests)

\* A proof served from an intact log convinces the relying party: the path the
\* generators of transparency_format.py compute from leaves read after the
\* checkpoint record leads to the root in that record, for the digest's own
\* leaf and for no other.
ServedProofsVerify ==
    \A s \in Sessions :
        LET tree == sess[s].tree
            hashes == leaf_hashes(tree)
            n == sess[s].size
        IN (sess[s].step = "served" /\ corruptions = 0) =>
            IF sess[s].digest = NoDigest
            THEN VerifyConsistency(sess[s].old, n, consistency_path(hashes, sess[s].old, n),
                                   checkpoint[sess[s].old].root, checkpoint[n].root)
            ELSE \E i \in 1..Len(tree) : \A d \in Digests :
                    VerifyInclusion(leaf_hash(d), i - 1, n, inclusion_path(hashes, i - 1),
                                    checkpoint[n].root) <=> d = sess[s].digest
=============================================================================
