--------------------------- MODULE TransparencyLog ----------------------------
(***************************************************************************)
(* The operated transparency log: services/transparency_log.py, its tables  *)
(* (models/transparency.py) and its endpoints (api/transparency.py).        *)
(*                                                                         *)
(* Appends, publications and audits SELECT the log's state row FOR UPDATE   *)
(* and hold it to the end of their transaction.  The row does not exist     *)
(* before the first append: whoever looks for it then locks nothing.        *)
(* Proofs are served without a lock, from SELECTs of their own.             *)
(*                                                                         *)
(* A hash is what it was computed from: the append chain of a leaf is the   *)
(* sequence of digests up to it, the digest of a checkpoint is its size and *)
(* root.  MerkleRoot is a parameter; Merkle defines it as the code does.    *)
(* Left out: the signature and key of a checkpoint, timestamps, actors, and *)
(* the check of the configured log identity.                                *)
(***************************************************************************)
EXTENDS Naturals, Sequences, SequencesExt, FiniteSets

CONSTANTS
    Sessions,           \* database sessions
    Digests,            \* receipt digests
    MerkleRoot(_),      \* merkle_root of the leaf hashes of a sequence of digests
    MaxCorruptions,     \* bound on changes to the tables from outside the code
    MaxFailures,        \* bound on signatures that fail
    NoSession, NoDigest

\* The sequences of digests the unique constraints on the leaves allow.
Trees == UNION {{t \in [1..n -> Digests] : \A i, j \in 1..n : t[i] = t[j] => i = j} :
                n \in 0..Cardinality(Digests)}

ASSUME LogAssumption ==
    /\ IsFiniteSet(Digests)
    /\ \A s, t \in Trees : MerkleRoot(s) = MerkleRoot(t) => s = t
    /\ MaxCorruptions \in Nat
    /\ MaxFailures \in Nat
    /\ NoSession \notin Sessions
    /\ NoDigest \notin Digests

VARIABLES
    state,          \* transparency_log_states: the log's row
    leaves,         \* transparency_log_leaves, by leaf_index
    checkpoint,     \* transparency_checkpoint_records, by tree_size
    event,          \* transparency_integrity_events: the codes of the last one
    lock,           \* the session whose transaction holds the state row
    sess,           \* what each session has read and is about to do
    witnessed,      \* the tree of the checkpoint completed last
    corruptions,    \* how often the tables were changed from outside
    failures        \* how many signatures failed

vars == <<state, leaves, checkpoint, event, lock, sess, witnessed, corruptions, failures>>

-----------------------------------------------------------------------------

Sizes == 1..Cardinality(Digests)

\* The digest of a checkpoint artifact; size 0: none.
Artifact == [size : Nat, root : {MerkleRoot(t) : t \in Trees}]
NoArtifact == [size |-> 0, root |-> MerkleRoot(<<>>)]

\* latest: latest_checkpoint_size and latest_checkpoint_digest
TransparencyLogState == [exists : BOOLEAN, next : Nat, head : Trees, latest : Artifact]

NoState == [exists |-> FALSE, next |-> 0, head |-> <<>>, latest |-> NoArtifact]

\* requested is flushed and never committed.
TransparencyCheckpointStatus == {"none", "failed", "completed"}
TransparencyCheckpointRecord ==
    [status : TransparencyCheckpointStatus, root : {MerkleRoot(t) : t \in Trees},
     prior : Artifact]

IntegrityCode ==
    {"TREE_SIZE_STATE_MISMATCH", "APPEND_CHAIN_HEAD_MISMATCH", "LOG_STATE_MISSING",
     "CHECKPOINT_AHEAD_OF_LOG", "CHECKPOINT_ROOT_MISMATCH", "CHECKPOINT_CHAIN_MISMATCH",
     "LATEST_CHECKPOINT_MISMATCH"}

\* digest: of an append or of an inclusion proof; old, size: the tree sizes of
\* a proof; seen: the state row as loaded; tree: the leaves read.
Session ==
    [step : {"idle", "create", "append", "publish", "sign", "audit", "check", "prove", "served"},
     digest : Digests \cup {NoDigest}, old : Nat, size : Nat,
     seen : TransparencyLogState, tree : Trees]

Idle == [step |-> "idle", digest |-> NoDigest, old |-> 0, size |-> 0,
         seen |-> NoState, tree |-> <<>>]

TypeOK ==
    /\ state \in TransparencyLogState
    /\ leaves \in Trees
    /\ checkpoint \in [Sizes -> TransparencyCheckpointRecord]
    /\ event \subseteq IntegrityCode
    /\ lock \in Sessions \cup {NoSession}
    /\ sess \in [Sessions -> Session]
    /\ witnessed \in Trees
    /\ corruptions \in 0..MaxCorruptions
    /\ failures \in 0..MaxFailures

Init ==
    /\ state = NoState
    /\ leaves = <<>>
    /\ checkpoint = [n \in Sizes |->
                        [status |-> "none", root |-> MerkleRoot(<<>>), prior |-> NoArtifact]]
    /\ event = {}
    /\ lock = NoSession
    /\ sess = [s \in Sessions |-> Idle]
    /\ witnessed = <<>>
    /\ corruptions = 0
    /\ failures = 0

-----------------------------------------------------------------------------
(* Helpers *)

\* The session starts with the state row it loaded.
Begins(s, step, d) ==
    sess' = [sess EXCEPT ![s] = [Idle EXCEPT !.step = step, !.digest = d, !.seen = state]]
Ends(s) == sess' = [sess EXCEPT ![s] = Idle]
Unlocks(s) == lock' = IF lock = s THEN NoSession ELSE lock

\* _locked_state: the row is visible once committed, and then locked.
TakesRow(s) == IF state.exists THEN lock = NoSession /\ lock' = s ELSE UNCHANGED lock

append_chain_hash(head, d) == Append(head, d)

\* build_checkpoint_statement
Statement(tree) == [size |-> Len(tree), root |-> MerkleRoot(tree)]

Completed == {n \in Sizes : checkpoint[n].status = "completed"}
ArtifactOf(n) == [size |-> n, root |-> checkpoint[n].root]

\* The checkpoint the ordered scan of audit_integrity met before n.
Before(n) ==
    LET smaller == {m \in Completed : m < n}
    IN IF smaller = {} THEN NoArtifact
       ELSE ArtifactOf(CHOOSE m \in smaller : \A k \in smaller : k <= m)

Latest ==
    IF Completed = {} THEN NoArtifact
    ELSE ArtifactOf(CHOOSE m \in Completed : \A k \in Completed : k <= m)

Codes(code, condition) == IF condition THEN {code} ELSE {}

\* audit_integrity of a state row, leaves and the completed checkpoints.  A
\* leaf's own hashes are recomputed from its digest and its index, so only
\* the head of the chain can disagree with the rows.
IntegrityErrors(row, tree) ==
    LET within == {n \in Completed : n <= Len(tree)} IN
    UNION {
        Codes("LOG_STATE_MISSING", ~row.exists /\ (tree # <<>> \/ Completed # {})),
        Codes("TREE_SIZE_STATE_MISMATCH", row.exists /\ row.next # Len(tree)),
        Codes("APPEND_CHAIN_HEAD_MISMATCH", row.exists /\ row.head # tree),
        Codes("CHECKPOINT_AHEAD_OF_LOG", within # Completed),
        Codes("CHECKPOINT_ROOT_MISMATCH",
              \E n \in within : checkpoint[n].root # MerkleRoot(SubSeq(tree, 1, n))),
        Codes("CHECKPOINT_CHAIN_MISMATCH", \E n \in within : checkpoint[n].prior # Before(n)),
        Codes("LATEST_CHECKPOINT_MISMATCH", row.exists /\ row.latest # Latest)}

-----------------------------------------------------------------------------
(* append_receipt_digest *)

LockAppend(s, d) ==
    /\ sess[s].step = "idle"
    /\ TakesRow(s)
    /\ Begins(s, IF state.exists THEN "append" ELSE "create", d)
    /\ UNCHANGED <<state, leaves, checkpoint, event, witnessed, corruptions, failures>>

\* The INSERT of the state row waits for another session's, and fails when
\* that one was committed: the request ends with an error.
InsertState(s) ==
    /\ sess[s].step = "create"
    /\ state.exists \/ lock = NoSession
    /\ IF state.exists THEN Ends(s) /\ UNCHANGED lock
       ELSE sess' = [sess EXCEPT ![s].step = "append"] /\ lock' = s
    /\ UNCHANGED <<state, leaves, checkpoint, event, witnessed, corruptions, failures>>

\* The digest is a leaf already: nothing is written.
ReplayAppend(s) ==
    /\ sess[s].step = "append"
    /\ \E i \in 1..Len(leaves) : leaves[i] = sess[s].digest
    /\ Ends(s) /\ Unlocks(s)
    /\ UNCHANGED <<state, leaves, checkpoint, event, witnessed, corruptions, failures>>

CommitAppendKeepHead(s) ==
    /\ sess[s].step = "append"
    /\ \A i \in 1..Len(leaves) : leaves[i] # sess[s].digest
    /\ sess[s].seen.next = Len(leaves)
    /\ leaves' = Append(leaves, sess[s].digest)
    /\ state' = [state EXCEPT !.exists = TRUE, !.next = sess[s].seen.next + 1]
    /\ Ends(s) /\ Unlocks(s)
    /\ UNCHANGED <<checkpoint, event, witnessed, corruptions, failures>>

\* The leaf and the row in one transaction.  uq_transparency_leaf_index would
\* refuse an index that is taken.
CommitAppend(s) ==
    /\ sess[s].step = "append"
    /\ \A i \in 1..Len(leaves) : leaves[i] # sess[s].digest
    /\ sess[s].seen.next = Len(leaves)
    /\ leaves' = Append(leaves, sess[s].digest)
    /\ state' = [state EXCEPT !.exists = TRUE, !.next = sess[s].seen.next + 1,
                              !.head = append_chain_hash(sess[s].seen.head, sess[s].digest)]
    /\ Ends(s) /\ Unlocks(s)
    /\ UNCHANGED <<checkpoint, event, witnessed, corruptions, failures>>

-----------------------------------------------------------------------------
(* publish_checkpoint *)

LockPublish(s) ==
    /\ sess[s].step = "idle"
    /\ state.exists /\ state.next > 0
    /\ TakesRow(s)
    /\ Begins(s, "publish", NoDigest)
    /\ UNCHANGED <<state, leaves, checkpoint, event, witnessed, corruptions, failures>>

\* The audit fails: its event is committed, which releases the row.
RefusePublish(s) ==
    /\ sess[s].step = "publish"
    /\ IntegrityErrors(sess[s].seen, leaves) # {}
    /\ event' = IntegrityErrors(sess[s].seen, leaves)
    /\ Ends(s) /\ Unlocks(s)
    /\ UNCHANGED <<state, leaves, checkpoint, witnessed, corruptions, failures>>

\* This tree has its checkpoint.
ReplayPublish(s) ==
    /\ sess[s].step = "publish"
    /\ IntegrityErrors(sess[s].seen, leaves) = {}
    /\ Len(leaves) \in Completed
    /\ Ends(s) /\ Unlocks(s)
    /\ UNCHANGED <<state, leaves, checkpoint, event, witnessed, corruptions, failures>>

\* The record is flushed as requested, the statement goes to the provider.
RequestCheckpointUnaudited(s) ==
    /\ sess[s].step = "publish"
    /\ Len(leaves) \notin Completed
    /\ sess' = [sess EXCEPT ![s].step = "sign", ![s].tree = leaves]
    /\ UNCHANGED <<state, leaves, checkpoint, event, lock, witnessed, corruptions, failures>>
RequestCheckpoint(s) ==
    /\ sess[s].step = "publish"
    /\ IntegrityErrors(sess[s].seen, leaves) = {}
    /\ Len(leaves) \notin Completed
    /\ sess' = [sess EXCEPT ![s].step = "sign", ![s].tree = leaves]
    /\ UNCHANGED <<state, leaves, checkpoint, event, lock, witnessed, corruptions, failures>>

\* What the session's transaction leaves in the record of its tree size.
Writes(s, status) ==
    checkpoint' = [checkpoint EXCEPT ![Len(sess[s].tree)] =
        [status |-> status, root |-> Statement(sess[s].tree).root,
         prior |-> sess[s].seen.latest]]

\* The managed signer, an external service, fails.
FailCheckpoint(s) ==
    /\ sess[s].step = "sign"
    /\ failures < MaxFailures /\ failures' = failures + 1
    /\ Writes(s, "failed")
    /\ Ends(s) /\ Unlocks(s)
    /\ UNCHANGED <<state, leaves, event, witnessed, corruptions>>

CompleteCheckpoint(s) ==
    /\ sess[s].step = "sign"
    /\ Writes(s, "completed")
    /\ state' = [state EXCEPT !.latest = Statement(sess[s].tree)]
    /\ witnessed' = sess[s].tree
    /\ Ends(s) /\ Unlocks(s)
    /\ UNCHANGED <<leaves, event, corruptions, failures>>

-----------------------------------------------------------------------------
(* audit_integrity, as the integrity endpoint runs it: three SELECTs *)

AuditStateUnlocked(s) ==
    /\ sess[s].step = "idle"
    /\ Begins(s, "audit", NoDigest)
    /\ UNCHANGED <<state, leaves, checkpoint, event, lock, witnessed, corruptions, failures>>
AuditState(s) ==
    /\ sess[s].step = "idle"
    /\ TakesRow(s)
    /\ Begins(s, "audit", NoDigest)
    /\ UNCHANGED <<state, leaves, checkpoint, event, witnessed, corruptions, failures>>

AuditLeaves(s) ==
    /\ sess[s].step = "audit"
    /\ sess' = [sess EXCEPT ![s].step = "check", ![s].tree = leaves]
    /\ UNCHANGED <<state, leaves, checkpoint, event, lock, witnessed, corruptions, failures>>

AuditCheckpoints(s) ==
    /\ sess[s].step = "check"
    /\ LET errors == IntegrityErrors(sess[s].seen, sess[s].tree)
       IN event' = IF errors = {} THEN event ELSE errors
    /\ Ends(s) /\ Unlocks(s)
    /\ UNCHANGED <<state, leaves, checkpoint, witnessed, corruptions, failures>>

-----------------------------------------------------------------------------
(* inclusion_proof, consistency_proof and monitor_update *)

\* The checkpoint record(s); an inclusion proof has old 0.
SelectCheckpoints(s, d, m, n) ==
    /\ sess[s].step = "idle"
    /\ n \in Completed
    /\ \/ d \in Digests /\ m = 0
       \/ d = NoDigest /\ m \in Completed /\ m <= n
    /\ sess' = [sess EXCEPT ![s] = [Idle EXCEPT !.step = "prove", !.digest = d,
                                                !.old = m, !.size = n]]
    /\ UNCHANGED <<state, leaves, checkpoint, event, lock, witnessed, corruptions, failures>>

\* _leaves(limit): the rows with leaf_index < limit
LeavesUnlimited(n) == leaves
LeavesBelow(n) == SubSeq(leaves, 1, IF n <= Len(leaves) THEN n ELSE Len(leaves))

\* The leaves of the tree, and the proof computed from them; without the
\* digest among them, or with fewer than asked for, the answer is not found.
ServeProof(s) ==
    /\ sess[s].step = "prove"
    /\ LET tree == LeavesBelow(sess[s].size)
           found == IF sess[s].digest = NoDigest THEN Len(tree) >= sess[s].size
                    ELSE \E i \in 1..Len(tree) : tree[i] = sess[s].digest
       IN IF found THEN sess' = [sess EXCEPT ![s].step = "served", ![s].tree = tree]
                   ELSE Ends(s)
    /\ UNCHANGED <<state, leaves, checkpoint, event, lock, witnessed, corruptions, failures>>

EndProof(s) ==
    /\ sess[s].step = "served"
    /\ Ends(s)
    /\ UNCHANGED <<state, leaves, checkpoint, event, lock, witnessed, corruptions, failures>>

-----------------------------------------------------------------------------
(* Failures *)

\* The request or its process dies: the transaction is rolled back.
Abort(s) ==
    /\ sess[s].step # "idle"
    /\ Ends(s) /\ Unlocks(s)
    /\ UNCHANGED <<state, leaves, checkpoint, event, witnessed, corruptions, failures>>

\* From outside the code: the leaves from i on are lost, or replaced by d,
\* and the row is made to agree with what is left.  The checkpoint records
\* are not touched.
Corrupt(i, d) ==
    /\ corruptions < MaxCorruptions
    /\ lock = NoSession
    /\ i \in 1..Len(leaves)
    /\ leaves' \in {SubSeq(leaves, 1, i - 1), Append(SubSeq(leaves, 1, i - 1), d)} \cap Trees
    /\ leaves' # leaves
    /\ state' = [state EXCEPT !.next = Len(leaves'), !.head = leaves']
    /\ corruptions' = corruptions + 1
    /\ UNCHANGED <<checkpoint, event, lock, sess, witnessed, failures>>

Step(s) ==
    \/ \E d \in Digests : LockAppend(s, d)
    \/ InsertState(s) \/ ReplayAppend(s) \/ CommitAppend(s)
    \/ LockPublish(s) \/ RefusePublish(s) \/ ReplayPublish(s) \/ RequestCheckpoint(s)
    \/ FailCheckpoint(s) \/ CompleteCheckpoint(s)
    \/ AuditState(s) \/ AuditLeaves(s) \/ AuditCheckpoints(s)
    \/ \E d \in Digests \cup {NoDigest}, m \in 0..Cardinality(Digests), n \in Sizes :
          SelectCheckpoints(s, d, m, n)
    \/ ServeProof(s) \/ EndProof(s)
    \/ Abort(s)

Next ==
    \/ \E s \in Sessions : Step(s)
    \/ \E i \in Sizes, d \in Digests : Corrupt(i, d)

Spec == Init /\ [][Next]_vars

-----------------------------------------------------------------------------
(* Properties *)

\* What the transactions leave behind passes the log's own audit
\* (audit_integrity), whichever of them failed, crashed or raced.
IntactLogAudits ==
    TypeOK /\ (corruptions = 0 => IntegrityErrors(state, leaves) = {})

\* Without corruption an integrity event is raised only by an audit that found
\* no state row to lock, and read the leaves after the first append.
FalseAlarmsOnlyAtBirth ==
    (corruptions = 0 /\ event # {}) => "LOG_STATE_MISSING" \in event

\* A tree whose checkpoint was completed is never rewritten under a later one:
\* the audit before publication holds it back even when leaves were replaced
\* together with the state row.
Witness == INSTANCE AppendOnlyLog
CheckpointsExtend == Witness!LogSpec
=============================================================================
