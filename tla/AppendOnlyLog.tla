---------------------------- MODULE AppendOnlyLog -----------------------------
(***************************************************************************)
(* What the transparency log promises to a relying party: the tree behind   *)
(* each new checkpoint extends the tree behind the one before it.           *)
(***************************************************************************)
EXTENDS Sequences, SequencesExt

CONSTANT Digests    \* receipt digests

VARIABLE witnessed  \* the leaves under the latest checkpoint

LogInit == witnessed = <<>>

\* A checkpoint over a longer tree is published.
Extend ==
    /\ witnessed' \in Seq(Digests)
    /\ IsStrictPrefix(witnessed, witnessed')

LogSpec == LogInit /\ [][Extend]_witnessed
=============================================================================
