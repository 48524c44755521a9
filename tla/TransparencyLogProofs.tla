------------------------- MODULE TransparencyLogProofs -------------------------
(***************************************************************************)
(* Proofs about TransparencyLog: what audit_integrity accepts, and what the *)
(* log keeps for any sessions, digests, failures and corruptions.           *)
(***************************************************************************)
EXTENDS TransparencyLog, FiniteSetTheorems, WellFoundedInduction, TLAPS

-----------------------------------------------------------------------------
(* Trees *)

LEMMA DigestCount == Cardinality(Digests) \in Nat
    BY LogAssumption, FS_CardinalityType DEF LogAssumption

\* A tree is a sequence of digests without repetition.
LEMMA TreeIs ==
    ASSUME NEW t \in Trees
    PROVE  /\ t \in Seq(Digests) /\ Len(t) \in Nat /\ Len(t) <= Cardinality(Digests)
           /\ \A i, j \in 1..Len(t) : t[i] = t[j] => i = j
<1>1. PICK n \in 0..Cardinality(Digests) :
         t \in {f \in [1..n -> Digests] : \A i, j \in 1..n : f[i] = f[j] => i = j}
    BY DEF Trees
<1>2. n \in Nat /\ n <= Cardinality(Digests)
    BY DigestCount
<1>3. t \in Seq(Digests) /\ Len(t) = n
    BY <1>1, <1>2
<1>. QED  BY <1>1, <1>2, <1>3

LEMMA IsTree ==
    ASSUME NEW t \in Seq(Digests), Len(t) <= Cardinality(Digests),
           \A i, j \in 1..Len(t) : t[i] = t[j] => i = j
    PROVE  t \in Trees
<1>1. Len(t) \in 0..Cardinality(Digests)
    BY DigestCount
<1>2. t \in {f \in [1..Len(t) -> Digests] : \A i, j \in 1..Len(t) : f[i] = f[j] => i = j}
    OBVIOUS
<1>. QED  BY <1>1, <1>2 DEF Trees

LEMMA EmptyTree == <<>> \in Trees
<1>1. <<>> \in Seq(Digests) /\ Len(<<>>) = 0
    OBVIOUS
<1>2. Len(<<>>) <= Cardinality(Digests)
    BY <1>1, DigestCount
<1>3. \A i, j \in 1..Len(<<>>) : <<>>[i] = <<>>[j] => i = j
    BY <1>1
<1>. QED  BY <1>1, <1>2, <1>3, IsTree

LEMMA PrefixIsTree ==
    ASSUME NEW t \in Trees, NEW n \in 0..Len(t)
    PROVE  /\ SubSeq(t, 1, n) \in Trees /\ Len(SubSeq(t, 1, n)) = n
           /\ \A i \in 1..n : SubSeq(t, 1, n)[i] = t[i]
<1>1. /\ t \in Seq(Digests) /\ Len(t) \in Nat /\ Len(t) <= Cardinality(Digests)
      /\ \A i, j \in 1..Len(t) : t[i] = t[j] => i = j
    BY TreeIs
<1>2. /\ SubSeq(t, 1, n) \in Seq(Digests) /\ Len(SubSeq(t, 1, n)) = n
      /\ \A i \in 1..n : SubSeq(t, 1, n)[i] = t[i]
    BY <1>1
<1>3. n <= Cardinality(Digests) /\ 1..n \subseteq 1..Len(t)
    BY <1>1, DigestCount
<1>4. \A i, j \in 1..n : SubSeq(t, 1, n)[i] = SubSeq(t, 1, n)[j] => i = j
    BY <1>1, <1>2, <1>3
<1>. QED  BY <1>2, <1>3, <1>4, IsTree

\* A new digest fits: the leaves are fewer than the digests.
LEMMA Appendable ==
    ASSUME NEW t \in Trees, NEW d \in Digests, \A i \in 1..Len(t) : t[i] # d
    PROVE  Append(t, d) \in Trees
<1>1. /\ t \in Seq(Digests) /\ Len(t) \in Nat
      /\ \A i, j \in 1..Len(t) : t[i] = t[j] => i = j
    BY TreeIs
<1>2. PICK u : u = Append(t, d)
    OBVIOUS
<1>3. /\ u \in Seq(Digests) /\ Len(u) = Len(t) + 1 /\ u[Len(t) + 1] = d
      /\ \A i \in 1..Len(t) : u[i] = t[i]
    BY <1>1, <1>2
<1>4. \A i, j \in 1..Len(u) : u[i] = u[j] => i = j
    BY <1>1, <1>3
<1>5. u \in Injection(1..Len(u), Digests)
    BY <1>3, <1>4 DEF Injection, IsInjective
<1>6. Cardinality(1..Len(u)) <= Cardinality(Digests)
    BY <1>5, LogAssumption, FS_Injection DEF LogAssumption
<1>7. Cardinality(1..Len(u)) = Len(u)
    BY <1>1, <1>3, FS_Interval
<1>. QED  BY <1>2, <1>3, <1>4, <1>6, <1>7, IsTree

-----------------------------------------------------------------------------
(* The checkpoints before one, and the latest *)

LEMMA GreatestSize ==
    ASSUME NEW S \in SUBSET Sizes, S # {}
    PROVE  \E m \in S : \A k \in S : k <= m
<1>. DEFINE N == Cardinality(Digests)
<1>1. N \in Nat /\ \A k \in S : k \in Nat /\ k <= N
    BY DigestCount DEF Sizes
<1>. HIDE DEF N
<1>2. PICK T : T = {N - k : k \in S}
    OBVIOUS
<1>3. T \subseteq Nat /\ T # {}
    BY <1>1, <1>2
<1>4. PICK x \in T : \A y \in T : ~(<<y, x>> \in OpToRel(<, Nat))
    BY <1>3, NatLessThanWellFounded, WFMin
<1>5. PICK m \in S : x = N - m
    BY <1>2, <1>4
<1>6. ASSUME NEW k \in S  PROVE k <= m
    <2>1. N - k \in T /\ N - k \in Nat /\ x \in Nat
        BY <1>2, <1>3, <1>4
    <2>2. ~(N - k < x)
        BY <1>4, <2>1 DEF OpToRel
    <2>. QED  BY <1>1, <1>5, <2>1, <2>2
<1>. QED  BY <1>6

\* What CHOOSE picks of a set of sizes is its greatest element.
LEMMA GreatestChosen ==
    ASSUME NEW S \in SUBSET Sizes, S # {}
    PROVE  LET m == CHOOSE x \in S : \A k \in S : k <= x
           IN  m \in S /\ \A k \in S : k <= m
    BY GreatestSize

LEMMA GreatestIs ==
    ASSUME NEW S \in SUBSET Sizes, NEW n \in S, \A k \in S : k <= n
    PROVE  (CHOOSE m \in S : \A k \in S : k <= m) = n
<1>1. PICK m : m = CHOOSE x \in S : \A k \in S : k <= x
    OBVIOUS
<1>2. m \in S /\ \A k \in S : k <= m
    BY <1>1
<1>3. m <= n /\ n <= m /\ m \in Nat /\ n \in Nat
    BY <1>2, DigestCount DEF Sizes
<1>. QED  BY <1>1, <1>3

\* The completed checkpoints stay as they are.
Keeps ==
    /\ Completed' = Completed
    /\ \A n \in Completed : checkpoint'[n] = checkpoint[n]

LEMMA KeepsBefore ==
    ASSUME Keeps, NEW n
    PROVE  Before(n)' = Before(n) /\ Latest' = Latest
<1>1. ASSUME NEW S \in SUBSET Completed, S # {}
      PROVE  ArtifactOf(CHOOSE m \in S : \A k \in S : k <= m)'
               = ArtifactOf(CHOOSE m \in S : \A k \in S : k <= m)
    <2>1. PICK m : m = CHOOSE x \in S : \A k \in S : k <= x
        OBVIOUS
    <2>2. m \in Completed
        BY <1>1, <2>1, GreatestChosen DEF Completed
    <2>3. ArtifactOf(m)' = ArtifactOf(m)
        BY <2>2 DEF Keeps, ArtifactOf
    <2>. QED  BY <2>1, <2>3
<1>2. PICK S : S = {m \in Completed : m < n}
    OBVIOUS
<1>3. {m \in Completed' : m < n} = S
    BY <1>2 DEF Keeps
<1>4. Before(n)' = Before(n)
    BY <1>1, <1>2, <1>3 DEF Before
<1>5. Latest' = Latest
    <2>1. PICK C : C = Completed
        OBVIOUS
    <2>2. Completed' = C
        BY <2>1 DEF Keeps
    <2>. QED  BY <1>1, <2>1, <2>2 DEF Latest
<1>. QED  BY <1>4, <1>5

-----------------------------------------------------------------------------
(* audit_integrity *)

\* A state row and leaves that agree with each other and with the checkpoints.
Intact(row, tree) ==
    /\ row.exists => row.next = Len(tree) /\ row.head = tree /\ row.latest = Latest
    /\ ~row.exists => tree = <<>> /\ Completed = {}
    /\ \A n \in Completed :
         /\ n <= Len(tree)
         /\ checkpoint[n].root = MerkleRoot(SubSeq(tree, 1, n))
         /\ checkpoint[n].prior = Before(n)

\* audit_integrity reports nothing exactly when the row, the leaves and the
\* checkpoints agree: no combination of its checks leaves a disagreement out.
THEOREM AuditIsComplete ==
    ASSUME NEW row, NEW tree
    PROVE  IntegrityErrors(row, tree) = {} <=> Intact(row, tree)
<1>. DEFINE within == {n \in Completed : n <= Len(tree)}
<1>1. \A code, condition : Codes(code, condition) = {} <=> ~condition
    BY DEF Codes
<1>2. IntegrityErrors(row, tree) = {} <=>
        /\ ~(~row.exists /\ (tree # <<>> \/ Completed # {}))
        /\ ~(row.exists /\ row.next # Len(tree))
        /\ ~(row.exists /\ row.head # tree)
        /\ ~(within # Completed)
        /\ ~(\E n \in within : checkpoint[n].root # MerkleRoot(SubSeq(tree, 1, n)))
        /\ ~(\E n \in within : checkpoint[n].prior # Before(n))
        /\ ~(row.exists /\ row.latest # Latest)
    BY DEF IntegrityErrors, Codes
<1>3. within = Completed <=> \A n \in Completed : n <= Len(tree)
    OBVIOUS
<1>. QED  BY <1>2, <1>3 DEF Intact

\* Every disagreement under a missing row comes with the code that says so.
LEMMA MissingRowReported ==
    ASSUME NEW row, ~row.exists, NEW tree, IntegrityErrors(row, tree) # {}
    PROVE  "LOG_STATE_MISSING" \in IntegrityErrors(row, tree)
<1>1. tree # <<>> \/ Completed # {}
    BY AuditIsComplete DEF Intact
<1>2. "LOG_STATE_MISSING" \in
         Codes("LOG_STATE_MISSING", ~row.exists /\ (tree # <<>> \/ Completed # {}))
    BY <1>1 DEF Codes
<1>. QED  BY <1>2 DEF IntegrityErrors

LEMMA KeepsIntact ==
    ASSUME Keeps, NEW row, NEW tree
    PROVE  Intact(row, tree)' <=> Intact(row, tree)
<1>1. Latest' = Latest /\ \A n : Before(n)' = Before(n)
    BY KeepsBefore
<1>. QED  BY <1>1 DEF Intact, Keeps

-----------------------------------------------------------------------------
(* The inductive invariant *)

\* A session holds the state row it read, or it found none: what it goes by is
\* still so when it commits.
SessionSound(s, q) ==
    /\ q.step = "create" => q.seen = NoState
    /\ q.step \in {"create", "append"} => q.digest \in Digests
    /\ q.step \in {"append", "publish", "sign"} => lock = s /\ q.seen = state
    /\ q.step \in {"publish", "sign"} => state.exists /\ state.next > 0
    /\ q.step = "sign" =>
         q.tree = leaves /\ Intact(state, leaves) /\ Len(leaves) \notin Completed
    /\ q.step \in {"audit", "check"} => q.seen = NoState \/ (lock = s /\ q.seen = state)
    /\ q.step = "check" /\ q.seen # NoState => q.tree = leaves

\* The tree witnessed last is that of the greatest checkpoint.
Witnessing ==
    /\ witnessed # <<>> =>
         /\ Len(witnessed) \in Completed
         /\ checkpoint[Len(witnessed)].root = MerkleRoot(witnessed)
    /\ \A n \in Completed : n <= Len(witnessed)

LogInv ==
    /\ TypeOK
    /\ state.next = Len(leaves) /\ state.head = leaves
    /\ ~state.exists => state = NoState /\ leaves = <<>> /\ Completed = {}
    /\ \A s \in Sessions : SessionSound(s, sess[s])
    /\ Witnessing
    /\ corruptions = 0 => Intact(state, leaves)
    /\ FalseAlarmsOnlyAtBirth

-----------------------------------------------------------------------------
(* What the steps have in common *)

LEMMA Constants ==
    /\ NoArtifact \in Artifact /\ NoState \in TransparencyLogState /\ ~NoState.exists
    /\ NoState.next = 0 /\ NoState.head = <<>> /\ NoState.latest = NoArtifact
    /\ Idle \in Session /\ Idle.step = "idle"
<1>1. MerkleRoot(<<>>) \in {MerkleRoot(t) : t \in Trees}
    BY EmptyTree
<1>2. NoArtifact \in Artifact
    BY <1>1 DEF NoArtifact, Artifact
<1>3. NoState \in TransparencyLogState /\ ~NoState.exists /\ NoState.next = 0
      /\ NoState.head = <<>> /\ NoState.latest = NoArtifact
    BY <1>2, EmptyTree DEF NoState, TransparencyLogState
<1>. QED  BY <1>2, <1>3, EmptyTree DEF Idle, Session

\* Session t goes on as new; whoever else holds the row is left alone.
Others(t) ==
    \A s \in Sessions \ {t} : lock = s => UNCHANGED <<state, leaves, checkpoint, lock>>

Turn(t, new) ==
    /\ sess' = [sess EXCEPT ![t] = new]
    /\ new \in Session
    /\ Others(t)
    /\ SessionSound(t, new)'

LEMMA KeepsAll ==
    ASSUME UNCHANGED checkpoint
    PROVE  Keeps
    BY DEF Keeps, Completed

LEMMA SessionFrame ==
    ASSUME NEW s \in Sessions, NEW q, SessionSound(s, q),
           lock = s => UNCHANGED <<state, leaves, checkpoint, lock>>
    PROVE  SessionSound(s, q)'
<1>1. CASE lock # s
    BY <1>1 DEF SessionSound
<1>2. CASE lock = s
    <2>1. UNCHANGED <<state, leaves, checkpoint, lock>>
        BY <1>2
    <2>2. Keeps
        BY <2>1, KeepsAll
    <2>3. PICK row, tree : row = state /\ tree = leaves
        OBVIOUS
    <2>4. Intact(row, tree)' <=> Intact(row, tree)
        BY <2>2, KeepsIntact
    <2>5. Intact(state, leaves)' <=> Intact(state, leaves)
        BY <2>1, <2>3, <2>4 DEF Intact
    <2>. QED  BY <2>1, <2>2, <2>5 DEF SessionSound, Keeps
<1>. QED  BY <1>1, <1>2

LEMMA SessionsAfter ==
    ASSUME LogInv, NEW t \in Sessions, NEW new, Turn(t, new)
    PROVE  /\ sess' \in [Sessions -> Session]
           /\ \A s \in Sessions : SessionSound(s, sess[s])'
<1>1. sess \in [Sessions -> Session] /\ \A s \in Sessions : SessionSound(s, sess[s])
    BY DEF LogInv, TypeOK
<1>2. sess' \in [Sessions -> Session]
    BY <1>1 DEF Turn
<1>3. ASSUME NEW s \in Sessions  PROVE SessionSound(s, sess[s])'
    <2>1. PICK q : q = sess'[s]
        OBVIOUS
    <2>2. CASE s = t
        <3>1. q = new
            BY <1>1, <2>1, <2>2 DEF Turn
        <3>2. SessionSound(s, q)'
            BY <2>2, <3>1 DEF Turn
        <3>. QED  BY <2>1, <3>2
    <2>3. CASE s # t
        <3>1. q = sess[s]
            BY <1>1, <2>1, <2>3 DEF Turn
        <3>2. SessionSound(s, q) /\ (lock = s => UNCHANGED <<state, leaves, checkpoint, lock>>)
            BY <1>1, <2>3, <3>1 DEF Turn, Others
        <3>3. SessionSound(s, q)'
            BY <3>2, SessionFrame
        <3>. QED  BY <2>1, <3>3
    <2>. QED  BY <2>2, <2>3
<1>. QED  BY <1>2, <1>3

LEMMA IdleSound ==
    ASSUME NEW s
    PROVE  SessionSound(s, Idle)'
    BY Constants DEF SessionSound

\* Steps that change no leaf, no state row and no completed checkpoint.
Quiet ==
    /\ UNCHANGED <<state, leaves, witnessed, corruptions>>
    /\ Keeps
    /\ checkpoint' \in [Sizes -> TransparencyCheckpointRecord]
    /\ lock' \in Sessions \cup {NoSession}
    /\ event' \subseteq IntegrityCode
    /\ corruptions = 0 /\ event' # {} => "LOG_STATE_MISSING" \in event'
    /\ failures' \in 0..MaxFailures

LEMMA QuietStep ==
    ASSUME LogInv, NEW t \in Sessions, NEW new, Turn(t, new), Quiet
    PROVE  LogInv'
<1>1. TypeOK /\ Witnessing /\ (corruptions = 0 => Intact(state, leaves))
    BY DEF LogInv
<1>2. /\ sess' \in [Sessions -> Session]
      /\ \A s \in Sessions : SessionSound(s, sess[s])'
    BY SessionsAfter
<1>3. TypeOK'
    BY <1>1, <1>2 DEF TypeOK, Quiet
<1>4. Witnessing'
    BY <1>1 DEF Witnessing, Quiet, Keeps
<1>5. corruptions' = 0 => Intact(state, leaves)'
    <2>1. PICK row, tree : row = state /\ tree = leaves
        OBVIOUS
    <2>2. Intact(row, tree)' <=> Intact(row, tree)
        BY KeepsIntact DEF Quiet
    <2>3. corruptions' = 0 => Intact(row, tree)'
        BY <1>1, <2>1, <2>2 DEF Quiet
    <2>. QED  BY <2>1, <2>3 DEF Quiet, Intact
<1>6. FalseAlarmsOnlyAtBirth'
    BY DEF FalseAlarmsOnlyAtBirth, Quiet
<1>7. /\ state'.next = Len(leaves') /\ state'.head = leaves'
      /\ ~state'.exists => state' = NoState /\ leaves' = <<>> /\ Completed' = {}
    BY DEF LogInv, Quiet, Keeps
<1>. QED  BY <1>2, <1>3, <1>4, <1>5, <1>6, <1>7 DEF LogInv

\* Most steps touch no table.
LEMMA ReadingStep ==
    ASSUME LogInv, NEW t \in Sessions, NEW new, Turn(t, new),
           UNCHANGED <<state, leaves, checkpoint, event, witnessed, corruptions, failures>>,
           lock' \in Sessions \cup {NoSession}
    PROVE  LogInv'
<1>1. Quiet
    BY KeepsAll DEF Quiet, LogInv, TypeOK, FalseAlarmsOnlyAtBirth
<1>. QED  BY <1>1, QuietStep

LEMMA EndsTurn ==
    ASSUME NEW t \in Sessions, Ends(t), Others(t)
    PROVE  Turn(t, Idle)
    BY Constants, IdleSound DEF Turn, Ends

LEMMA UnlocksOthers ==
    ASSUME LogInv, NEW t \in Sessions, Unlocks(t), UNCHANGED <<state, leaves, checkpoint>>
    PROVE  Others(t) /\ lock' \in Sessions \cup {NoSession}
    BY DEF Unlocks, Others, LogInv, TypeOK

LEMMA TakesRowOthers ==
    ASSUME LogInv, NEW t \in Sessions, TakesRow(t), UNCHANGED <<state, leaves, checkpoint>>
    PROVE  /\ Others(t) /\ lock' \in Sessions \cup {NoSession}
           /\ state.exists => lock' = t
    BY LogAssumption DEF TakesRow, Others, LogInv, TypeOK, LogAssumption

LEMMA Begun ==
    ASSUME LogInv, NEW t \in Sessions, NEW step, NEW d \in Digests \cup {NoDigest},
           step \in {"create", "append", "publish", "audit"}, Begins(t, step, d)
    PROVE  \E new \in Session :
             /\ sess' = [sess EXCEPT ![t] = new]
             /\ new.step = step /\ new.digest = d /\ new.seen = state
<1>1. PICK new : new = [Idle EXCEPT !.step = step, !.digest = d, !.seen = state]
    OBVIOUS
<1>2. new \in Session /\ new.step = step /\ new.digest = d /\ new.seen = state
    BY <1>1, Constants DEF Idle, Session, LogInv, TypeOK
<1>. QED  BY <1>1, <1>2 DEF Begins

-----------------------------------------------------------------------------
(* The steps that write nothing *)

LEMMA LockAppendStep ==
    ASSUME LogInv, NEW t \in Sessions, NEW d \in Digests, LockAppend(t, d)
    PROVE  LogInv'
<1>. DEFINE step == IF state.exists THEN "append" ELSE "create"
<1>1. UNCHANGED <<state, leaves, checkpoint, event, witnessed, corruptions, failures>>
    BY DEF LockAppend
<1>2. /\ Others(t) /\ lock' \in Sessions \cup {NoSession}
      /\ state.exists => lock' = t
    BY <1>1, TakesRowOthers DEF LockAppend
<1>3. PICK new \in Session : /\ sess' = [sess EXCEPT ![t] = new]
                             /\ new.step = step /\ new.digest = d /\ new.seen = state
    BY Begun DEF LockAppend
<1>4. SessionSound(t, new)'
    <2>1. CASE state.exists
        BY <1>1, <1>2, <1>3, <2>1 DEF SessionSound
    <2>2. CASE ~state.exists
        BY <1>1, <1>3, <2>2 DEF SessionSound, LogInv
    <2>. QED  BY <2>1, <2>2
<1>5. Turn(t, new)
    BY <1>2, <1>3, <1>4 DEF Turn
<1>. QED  BY <1>1, <1>2, <1>5, ReadingStep

LEMMA InsertStateStep ==
    ASSUME LogInv, NEW t \in Sessions, InsertState(t)
    PROVE  LogInv'
<1>1. UNCHANGED <<state, leaves, checkpoint, event, witnessed, corruptions, failures>>
    BY DEF InsertState
<1>2. sess \in [Sessions -> Session] /\ SessionSound(t, sess[t])
      /\ lock \in Sessions \cup {NoSession}
    BY DEF LogInv, TypeOK
<1>3. CASE state.exists
    <2>1. Ends(t) /\ UNCHANGED lock
        BY <1>3 DEF InsertState
    <2>2. Others(t)
        BY <1>1, <2>1 DEF Others
    <2>3. Turn(t, Idle)
        BY <2>1, <2>2, EndsTurn
    <2>. QED  BY <1>1, <1>2, <2>1, <2>3, ReadingStep
<1>4. CASE ~state.exists
    <2>1. PICK new : new = [sess[t] EXCEPT !.step = "append"]
        OBVIOUS
    <2>2. sess' = [sess EXCEPT ![t] = new] /\ lock' = t /\ lock = NoSession
        BY <1>2, <1>4, <2>1 DEF InsertState
    <2>3. new \in Session /\ new.step = "append"
          /\ new.digest = sess[t].digest /\ new.seen = sess[t].seen
        BY <1>2, <2>1 DEF Session
    <2>4. sess[t].digest \in Digests /\ sess[t].seen = NoState /\ state = NoState
        BY <1>2, <1>4 DEF SessionSound, InsertState, LogInv
    <2>5. SessionSound(t, new)'
        BY <1>1, <2>2, <2>3, <2>4 DEF SessionSound
    <2>6. Others(t)
        BY <2>2, LogAssumption DEF Others, LogAssumption
    <2>7. Turn(t, new)
        BY <2>2, <2>3, <2>5, <2>6 DEF Turn
    <2>. QED  BY <1>1, <2>2, <2>7, ReadingStep
<1>. QED  BY <1>3, <1>4

\* The session's transaction ends and has written nothing.
Closes(t) ==
    /\ Ends(t) /\ Unlocks(t)
    /\ UNCHANGED <<state, leaves, checkpoint, event, witnessed, corruptions, failures>>

LEMMA ClosesStep ==
    ASSUME LogInv, NEW t \in Sessions, Closes(t)
    PROVE  LogInv'
<1>1. Ends(t) /\ Unlocks(t)
      /\ UNCHANGED <<state, leaves, checkpoint, event, witnessed, corruptions, failures>>
    BY DEF Closes
<1>2. Others(t) /\ lock' \in Sessions \cup {NoSession}
    BY <1>1, UnlocksOthers
<1>3. Turn(t, Idle)
    BY <1>1, <1>2, EndsTurn
<1>. QED  BY <1>1, <1>2, <1>3, ReadingStep

LEMMA LockPublishStep ==
    ASSUME LogInv, NEW t \in Sessions, LockPublish(t)
    PROVE  LogInv'
<1>1. UNCHANGED <<state, leaves, checkpoint, event, witnessed, corruptions, failures>>
      /\ state.exists /\ state.next > 0
    BY DEF LockPublish
<1>2. Others(t) /\ lock' \in Sessions \cup {NoSession} /\ lock' = t
    BY <1>1, TakesRowOthers DEF LockPublish
<1>3. PICK new \in Session : /\ sess' = [sess EXCEPT ![t] = new]
                             /\ new.step = "publish" /\ new.digest = NoDigest
                             /\ new.seen = state
    BY Begun DEF LockPublish
<1>4. SessionSound(t, new)'
    BY <1>1, <1>2, <1>3 DEF SessionSound
<1>5. Turn(t, new)
    BY <1>2, <1>3, <1>4 DEF Turn
<1>. QED  BY <1>1, <1>2, <1>5, ReadingStep

LEMMA AuditStateStep ==
    ASSUME LogInv, NEW t \in Sessions, AuditState(t)
    PROVE  LogInv'
<1>1. UNCHANGED <<state, leaves, checkpoint, event, witnessed, corruptions, failures>>
    BY DEF AuditState
<1>2. /\ Others(t) /\ lock' \in Sessions \cup {NoSession}
      /\ state.exists => lock' = t
    BY <1>1, TakesRowOthers DEF AuditState
<1>3. PICK new \in Session : /\ sess' = [sess EXCEPT ![t] = new]
                             /\ new.step = "audit" /\ new.digest = NoDigest
                             /\ new.seen = state
    BY Begun DEF AuditState
<1>4. SessionSound(t, new)'
    <2>1. CASE state.exists
        BY <1>1, <1>2, <1>3, <2>1 DEF SessionSound
    <2>2. CASE ~state.exists
        BY <1>1, <1>3, <2>2 DEF SessionSound, LogInv
    <2>. QED  BY <2>1, <2>2
<1>5. Turn(t, new)
    BY <1>2, <1>3, <1>4 DEF Turn
<1>. QED  BY <1>1, <1>2, <1>5, ReadingStep

\* Steps within a transaction: the lock stays where it is.
LEMMA WithinStep ==
    ASSUME LogInv, NEW t \in Sessions, NEW new \in Session,
           sess' = [sess EXCEPT ![t] = new], SessionSound(t, new)',
           UNCHANGED <<state, leaves, checkpoint, event, lock, witnessed, corruptions, failures>>
    PROVE  LogInv'
<1>1. Turn(t, new)
    BY DEF Turn, Others
<1>. QED  BY <1>1, ReadingStep DEF LogInv, TypeOK

LEMMA AuditLeavesStep ==
    ASSUME LogInv, NEW t \in Sessions, AuditLeaves(t)
    PROVE  LogInv'
<1>1. sess \in [Sessions -> Session] /\ SessionSound(t, sess[t]) /\ leaves \in Trees
    BY DEF LogInv, TypeOK
<1>2. PICK new : new = [sess[t] EXCEPT !.step = "check", !.tree = leaves]
    OBVIOUS
<1>3. new \in Session /\ new.step = "check" /\ new.tree = leaves /\ new.seen = sess[t].seen
    BY <1>1, <1>2 DEF Session
<1>4. sess' = [sess EXCEPT ![t] = new]
      /\ UNCHANGED <<state, leaves, checkpoint, event, lock, witnessed, corruptions, failures>>
    BY <1>1, <1>2 DEF AuditLeaves
<1>5. sess[t].seen = NoState \/ (lock = t /\ sess[t].seen = state)
    BY <1>1 DEF SessionSound, AuditLeaves
<1>6. SessionSound(t, new)'
    BY <1>3, <1>4, <1>5 DEF SessionSound
<1>. QED  BY <1>3, <1>4, <1>6, WithinStep

LEMMA RequestCheckpointStep ==
    ASSUME LogInv, NEW t \in Sessions, RequestCheckpoint(t)
    PROVE  LogInv'
<1>1. sess \in [Sessions -> Session] /\ SessionSound(t, sess[t]) /\ leaves \in Trees
    BY DEF LogInv, TypeOK
<1>2. PICK new : new = [sess[t] EXCEPT !.step = "sign", !.tree = leaves]
    OBVIOUS
<1>3. new \in Session /\ new.step = "sign" /\ new.tree = leaves /\ new.seen = sess[t].seen
    BY <1>1, <1>2 DEF Session
<1>4. /\ sess' = [sess EXCEPT ![t] = new]
      /\ UNCHANGED <<state, leaves, checkpoint, event, lock, witnessed, corruptions, failures>>
      /\ Len(leaves) \notin Completed
    BY <1>1, <1>2 DEF RequestCheckpoint
<1>5. lock = t /\ sess[t].seen = state /\ state.exists /\ state.next > 0
    BY <1>1 DEF SessionSound, RequestCheckpoint
<1>6. PICK row, tree : row = state /\ tree = leaves
    OBVIOUS
<1>7. Intact(row, tree)
    BY <1>5, <1>6, AuditIsComplete DEF RequestCheckpoint
<1>8. Intact(state, leaves)'
    <2>1. Intact(row, tree)'
        BY <1>4, <1>7, KeepsAll, KeepsIntact
    <2>. QED  BY <1>4, <1>6, <2>1 DEF Intact
<1>9. (Len(leaves) \notin Completed)'
    BY <1>4 DEF Completed
<1>10. SessionSound(t, new)'
    BY <1>3, <1>4, <1>5, <1>8, <1>9 DEF SessionSound
<1>. QED  BY <1>3, <1>4, <1>10, WithinStep

LEMMA SelectCheckpointsStep ==
    ASSUME LogInv, NEW t \in Sessions, NEW d \in Digests \cup {NoDigest},
           NEW m \in 0..Cardinality(Digests), NEW n \in Sizes, SelectCheckpoints(t, d, m, n)
    PROVE  LogInv'
<1>1. PICK new : new = [Idle EXCEPT !.step = "prove", !.digest = d, !.old = m, !.size = n]
    OBVIOUS
<1>2. m \in Nat /\ n \in Nat
    BY DigestCount DEF Sizes
<1>3. new \in Session /\ new.step = "prove"
    BY <1>1, <1>2, Constants DEF Session, Idle
<1>4. sess' = [sess EXCEPT ![t] = new]
      /\ UNCHANGED <<state, leaves, checkpoint, event, lock, witnessed, corruptions, failures>>
    BY <1>1 DEF SelectCheckpoints
<1>5. SessionSound(t, new)'
    BY <1>3 DEF SessionSound
<1>. QED  BY <1>3, <1>4, <1>5, WithinStep

LEMMA ServeProofStep ==
    ASSUME LogInv, NEW t \in Sessions, ServeProof(t)
    PROVE  LogInv'
<1>1. sess \in [Sessions -> Session] /\ leaves \in Trees
    BY DEF LogInv, TypeOK
<1>2. UNCHANGED <<state, leaves, checkpoint, event, lock, witnessed, corruptions, failures>>
    BY DEF ServeProof
<1>3. PICK tree : tree = LeavesBelow(sess[t].size)
    OBVIOUS
<1>4. tree \in Trees
    <2>1. PICK k : k = IF sess[t].size <= Len(leaves) THEN sess[t].size ELSE Len(leaves)
        OBVIOUS
    <2>2. k \in 0..Len(leaves)
        BY <1>1, <2>1, TreeIs DEF Session
    <2>. QED  BY <1>1, <1>3, <2>1, <2>2, PrefixIsTree DEF LeavesBelow
<1>5. PICK new : new = [sess[t] EXCEPT !.step = "served", !.tree = tree]
    OBVIOUS
<1>6. new \in Session /\ new.step = "served"
    BY <1>1, <1>4, <1>5 DEF Session
<1>7. sess' = [sess EXCEPT ![t] = new] \/ sess' = [sess EXCEPT ![t] = Idle]
    BY <1>1, <1>3, <1>5 DEF ServeProof, Ends
<1>8. SessionSound(t, new)' /\ SessionSound(t, Idle)'
    BY <1>6, IdleSound DEF SessionSound
<1>. QED  BY <1>2, <1>6, <1>7, <1>8, Constants, WithinStep

LEMMA EndProofStep ==
    ASSUME LogInv, NEW t \in Sessions, EndProof(t)
    PROVE  LogInv'
<1>1. sess' = [sess EXCEPT ![t] = Idle]
      /\ UNCHANGED <<state, leaves, checkpoint, event, lock, witnessed, corruptions, failures>>
    BY DEF EndProof, Ends
<1>. QED  BY <1>1, Constants, IdleSound, WithinStep

-----------------------------------------------------------------------------
(* The audits that report, and the signature that fails *)

LEMMA ErrorsAreCodes ==
    ASSUME NEW row, NEW tree
    PROVE  IntegrityErrors(row, tree) \subseteq IntegrityCode
    BY DEF IntegrityErrors, Codes, IntegrityCode

LEMMA RefusePublishStep ==
    ASSUME LogInv, NEW t \in Sessions, RefusePublish(t)
    PROVE  LogInv'
<1>1. /\ UNCHANGED <<state, leaves, checkpoint, witnessed, corruptions, failures>>
      /\ Ends(t) /\ Unlocks(t)
      /\ event' = IntegrityErrors(sess[t].seen, leaves) /\ event' # {}
    BY DEF RefusePublish
<1>2. Others(t) /\ lock' \in Sessions \cup {NoSession}
    BY <1>1, UnlocksOthers
<1>3. Turn(t, Idle)
    BY <1>1, <1>2, EndsTurn
<1>4. sess[t].seen = state
    BY DEF RefusePublish, LogInv, SessionSound
<1>5. corruptions # 0
    BY <1>1, <1>4, AuditIsComplete DEF LogInv
<1>6. event' \subseteq IntegrityCode
    BY <1>1, ErrorsAreCodes
<1>7. Quiet
    BY <1>1, <1>2, <1>5, <1>6, KeepsAll DEF Quiet, LogInv, TypeOK
<1>. QED  BY <1>3, <1>7, QuietStep

LEMMA AuditCheckpointsStep ==
    ASSUME LogInv, NEW t \in Sessions, AuditCheckpoints(t)
    PROVE  LogInv'
<1>1. PICK row, tree, errors : /\ row = sess[t].seen /\ tree = sess[t].tree
                               /\ errors = IntegrityErrors(row, tree)
    OBVIOUS
<1>2. /\ UNCHANGED <<state, leaves, checkpoint, witnessed, corruptions, failures>>
      /\ Ends(t) /\ Unlocks(t)
      /\ event' = IF errors = {} THEN event ELSE errors
    BY <1>1 DEF AuditCheckpoints
<1>3. Others(t) /\ lock' \in Sessions \cup {NoSession}
    BY <1>2, UnlocksOthers
<1>4. Turn(t, Idle)
    BY <1>2, <1>3, EndsTurn
<1>5. row = NoState \/ (row = state /\ tree = leaves)
    BY <1>1 DEF AuditCheckpoints, LogInv, SessionSound
<1>6. corruptions = 0 /\ errors # {} => "LOG_STATE_MISSING" \in errors
    <2>1. CASE row = NoState
        BY <1>1, <2>1, Constants, MissingRowReported
    <2>2. CASE row = state /\ tree = leaves
        BY <1>1, <2>2, AuditIsComplete DEF LogInv
    <2>. QED  BY <1>5, <2>1, <2>2
<1>7. errors \subseteq IntegrityCode /\ event \subseteq IntegrityCode
      /\ (corruptions = 0 /\ event # {} => "LOG_STATE_MISSING" \in event)
    BY <1>1, ErrorsAreCodes DEF LogInv, TypeOK, FalseAlarmsOnlyAtBirth
<1>8. Quiet
    BY <1>2, <1>3, <1>6, <1>7, KeepsAll DEF Quiet, LogInv, TypeOK
<1>. QED  BY <1>4, <1>8, QuietStep

\* What a session that signs goes by.
LEMMA Signing ==
    ASSUME LogInv, NEW t \in Sessions, sess[t].step = "sign"
    PROVE  /\ lock = t /\ sess[t].seen = state /\ sess[t].tree = leaves /\ state.exists
           /\ Intact(state, leaves)
           /\ Len(leaves) \in Sizes /\ Len(leaves) \notin Completed
<1>1. SessionSound(t, sess[t]) /\ leaves \in Trees /\ state.next = Len(leaves)
    BY DEF LogInv, TypeOK
<1>2. /\ lock = t /\ sess[t].seen = state /\ sess[t].tree = leaves /\ state.exists
      /\ Intact(state, leaves) /\ Len(leaves) \notin Completed /\ Len(leaves) > 0
    BY <1>1 DEF SessionSound
<1>3. Len(leaves) \in Sizes
    BY <1>1, <1>2, TreeIs, DigestCount DEF Sizes
<1>. QED  BY <1>2, <1>3

\* The record that its transaction leaves.
LEMMA Recorded ==
    ASSUME LogInv, NEW t \in Sessions, sess[t].step = "sign",
           NEW status \in TransparencyCheckpointStatus, Writes(t, status)
    PROVE  /\ checkpoint' = [checkpoint EXCEPT ![Len(leaves)] =
                [status |-> status, root |-> MerkleRoot(leaves), prior |-> state.latest]]
           /\ checkpoint' \in [Sizes -> TransparencyCheckpointRecord]
<1>1. sess[t].seen = state /\ sess[t].tree = leaves
    BY Signing
<1>2. Statement(leaves).root = MerkleRoot(leaves)
    BY DEF Statement
<1>3. PICK r : r = [status |-> status, root |-> MerkleRoot(leaves), prior |-> state.latest]
    OBVIOUS
<1>4. checkpoint' = [checkpoint EXCEPT ![Len(leaves)] = r]
    BY <1>1, <1>2, <1>3 DEF Writes
<1>5. state.latest \in Artifact /\ leaves \in Trees
      /\ checkpoint \in [Sizes -> TransparencyCheckpointRecord]
    BY DEF LogInv, TypeOK, TransparencyLogState
<1>6. r \in TransparencyCheckpointRecord
    BY <1>3, <1>5 DEF TransparencyCheckpointRecord
<1>. QED  BY <1>3, <1>4, <1>5, <1>6

LEMMA FailCheckpointStep ==
    ASSUME LogInv, NEW t \in Sessions, FailCheckpoint(t)
    PROVE  LogInv'
<1>1. /\ UNCHANGED <<state, leaves, event, witnessed, corruptions>>
      /\ Ends(t) /\ Unlocks(t) /\ Writes(t, "failed") /\ sess[t].step = "sign"
      /\ failures < MaxFailures /\ failures' = failures + 1
    BY DEF FailCheckpoint
<1>2. lock = t /\ Len(leaves) \in Sizes /\ Len(leaves) \notin Completed
    BY <1>1, Signing
<1>3. Others(t) /\ lock' \in Sessions \cup {NoSession}
    BY <1>1, <1>2 DEF Others, Unlocks
<1>4. Turn(t, Idle)
    BY <1>1, <1>3, EndsTurn
<1>5. "failed" \in TransparencyCheckpointStatus
    BY DEF TransparencyCheckpointStatus
<1>6. PICK r : r = [status |-> "failed", root |-> MerkleRoot(leaves), prior |-> state.latest]
    OBVIOUS
<1>7. /\ checkpoint' = [checkpoint EXCEPT ![Len(leaves)] = r]
      /\ checkpoint' \in [Sizes -> TransparencyCheckpointRecord]
    BY <1>1, <1>5, <1>6, Recorded
<1>8. r.status = "failed" /\ checkpoint \in [Sizes -> TransparencyCheckpointRecord]
    BY <1>6 DEF LogInv, TypeOK
<1>9. Keeps
    BY <1>2, <1>7, <1>8 DEF Keeps, Completed
<1>10. failures' \in 0..MaxFailures
    BY <1>1, LogAssumption DEF LogInv, TypeOK, LogAssumption
<1>11. Quiet
    BY <1>1, <1>3, <1>7, <1>9, <1>10
       DEF Quiet, LogInv, TypeOK, FalseAlarmsOnlyAtBirth
<1>. QED  BY <1>4, <1>11, QuietStep

-----------------------------------------------------------------------------
(* The steps that write *)

LEMMA CommitAppendStep ==
    ASSUME LogInv, NEW t \in Sessions, CommitAppend(t)
    PROVE  LogInv'
<1>1. PICK d, new : d = sess[t].digest /\ new = Append(leaves, d)
    OBVIOUS
<1>2. /\ TypeOK /\ state \in TransparencyLogState /\ leaves \in Trees
      /\ state.next = Len(leaves) /\ state.head = leaves
      /\ SessionSound(t, sess[t]) /\ Witnessing
    BY DEF LogInv, TypeOK
<1>3. d \in Digests /\ lock = t /\ sess[t].seen = state
    BY <1>1, <1>2 DEF SessionSound, CommitAppend
<1>4. new \in Trees
    BY <1>1, <1>2, <1>3, Appendable DEF CommitAppend
<1>5. leaves \in Seq(Digests) /\ Len(leaves) \in Nat /\ Len(new) = Len(leaves) + 1
      /\ \A n \in 0..Len(leaves) : SubSeq(new, 1, n) = SubSeq(leaves, 1, n)
    <2>1. leaves \in Seq(Digests) /\ Len(leaves) \in Nat
        BY <1>2, TreeIs
    <2>2. Len(new) = Len(leaves) + 1
        BY <1>1, <1>3, <2>1
    <2>3. ASSUME NEW n \in 0..Len(leaves)
          PROVE  SubSeq(new, 1, n) = SubSeq(leaves, 1, n)
        BY <1>1, <1>3, <2>1
    <2>. QED  BY <2>1, <2>2, <2>3
<1>6. /\ leaves' = new /\ Ends(t) /\ Unlocks(t)
      /\ state' = [state EXCEPT !.exists = TRUE, !.next = Len(new), !.head = new]
      /\ UNCHANGED <<checkpoint, event, witnessed, corruptions, failures>>
    BY <1>1, <1>2, <1>3, <1>5 DEF CommitAppend, append_chain_hash
<1>7. /\ state' \in TransparencyLogState /\ state'.exists /\ state'.next = Len(new)
      /\ state'.head = new /\ state'.latest = state.latest
    <2>1. Len(new) \in Nat
        BY <1>4, TreeIs
    <2>. QED  BY <1>2, <1>4, <1>6, <2>1 DEF TransparencyLogState
<1>8. Others(t) /\ lock' \in Sessions \cup {NoSession}
    BY <1>3, <1>6 DEF Others, Unlocks
<1>9. Turn(t, Idle)
    BY <1>6, <1>8, EndsTurn
<1>10. /\ sess' \in [Sessions -> Session]
       /\ \A s \in Sessions : SessionSound(s, sess[s])'
    BY <1>9, SessionsAfter
<1>11. TypeOK'
    BY <1>2, <1>4, <1>6, <1>7, <1>8, <1>10 DEF TypeOK
<1>12. Keeps
    BY <1>6, KeepsAll
<1>13. Witnessing'
    BY <1>2, <1>6, <1>12 DEF Witnessing, Keeps
<1>14. corruptions = 0 => Intact(state, leaves)'
    <2>. SUFFICES ASSUME corruptions = 0  PROVE Intact(state, leaves)'
        OBVIOUS
    <2>1. Latest' = Latest /\ \A n : Before(n)' = Before(n)
        BY <1>12, KeepsBefore
    <2>2. Intact(state, leaves)
        BY DEF LogInv
    <2>3. state.latest = Latest
        <3>1. CASE state.exists
            BY <2>2, <3>1 DEF Intact
        <3>2. CASE ~state.exists
            BY <3>2, Constants DEF LogInv, Latest
        <3>. QED  BY <3>1, <3>2
    <2>4. ASSUME NEW n \in Completed'
          PROVE  /\ n <= Len(leaves')
                 /\ checkpoint'[n].root = MerkleRoot(SubSeq(leaves', 1, n))
                 /\ checkpoint'[n].prior = Before(n)'
        <3>1. n \in Completed /\ n \in Nat
            BY <1>12, DigestCount DEF Keeps, Completed, Sizes
        <3>2. n <= Len(leaves) /\ checkpoint[n].root = MerkleRoot(SubSeq(leaves, 1, n))
              /\ checkpoint[n].prior = Before(n)
            BY <2>2, <3>1 DEF Intact
        <3>3. n \in 0..Len(leaves) /\ n <= Len(new)
            BY <1>5, <3>1, <3>2
        <3>. QED  BY <1>5, <1>6, <2>1, <3>2, <3>3
    <2>. QED  BY <1>6, <1>7, <2>1, <2>3, <2>4 DEF Intact
<1>15. FalseAlarmsOnlyAtBirth'
    BY <1>6 DEF LogInv, FalseAlarmsOnlyAtBirth
<1>. QED  BY <1>6, <1>7, <1>10, <1>11, <1>13, <1>14, <1>15 DEF LogInv

LEMMA CorruptStep ==
    ASSUME LogInv, NEW i \in Sizes, NEW d \in Digests, Corrupt(i, d)
    PROVE  LogInv'
<1>1. PICK new : new = leaves'
    OBVIOUS
<1>2. /\ TypeOK /\ state \in TransparencyLogState /\ leaves \in Trees
      /\ Witnessing /\ lock = NoSession
      /\ \A s \in Sessions : SessionSound(s, sess[s])
    BY DEF LogInv, TypeOK, Corrupt
<1>3. new \in Trees /\ state' = [state EXCEPT !.next = Len(new), !.head = new]
      /\ UNCHANGED <<checkpoint, event, lock, sess, witnessed, failures>>
    BY <1>1 DEF Corrupt
<1>4. Len(new) \in Nat
    BY <1>3, TreeIs
<1>5. /\ state' \in TransparencyLogState /\ state'.next = Len(new) /\ state'.head = new
      /\ state'.exists = state.exists
    BY <1>2, <1>3, <1>4 DEF TransparencyLogState
<1>6. state.exists
    <2>1. leaves # <<>>
        BY DEF Corrupt
    <2>. QED  BY <2>1 DEF LogInv
<1>7. corruptions' \in 0..MaxCorruptions /\ corruptions' # 0
    BY LogAssumption DEF LogInv, TypeOK, Corrupt, LogAssumption
<1>8. TypeOK'
    BY <1>1, <1>2, <1>3, <1>5, <1>7 DEF TypeOK
<1>9. ASSUME NEW s \in Sessions  PROVE SessionSound(s, sess[s])'
    <2>1. PICK q : q = sess[s]
        OBVIOUS
    <2>2. SessionSound(s, q) /\ lock # s
        BY <1>2, <2>1, LogAssumption DEF LogAssumption
    <2>3. SessionSound(s, q)'
        BY <2>2, SessionFrame
    <2>. QED  BY <1>3, <2>1, <2>3
<1>10. Witnessing'
    BY <1>2, <1>3 DEF Witnessing, Completed
<1>. QED  BY <1>1, <1>5, <1>6, <1>7, <1>8, <1>9, <1>10 DEF LogInv, FalseAlarmsOnlyAtBirth

\* With the checkpoint of the whole tree the scan of the others is as before.
LEMMA CompleteCheckpointStep ==
    ASSUME LogInv, NEW t \in Sessions, CompleteCheckpoint(t)
    PROVE  LogInv'
<1>1. PICK L, r : /\ L = Len(leaves)
                  /\ r = [status |-> "completed", root |-> MerkleRoot(leaves),
                          prior |-> state.latest]
    OBVIOUS
<1>2. /\ TypeOK /\ state \in TransparencyLogState /\ leaves \in Trees
      /\ checkpoint \in [Sizes -> TransparencyCheckpointRecord]
      /\ state.next = L /\ state.head = leaves
    BY <1>1 DEF LogInv, TypeOK
<1>3. /\ Ends(t) /\ Unlocks(t) /\ Writes(t, "completed") /\ sess[t].step = "sign"
      /\ UNCHANGED <<leaves, event, corruptions, failures>>
    BY DEF CompleteCheckpoint
<1>4. /\ lock = t /\ sess[t].tree = leaves /\ state.exists /\ Intact(state, leaves)
      /\ L \in Sizes /\ L \notin Completed /\ L \in Nat /\ L > 0
    BY <1>1, <1>3, Signing, DigestCount DEF Sizes
<1>5. Others(t) /\ lock' \in Sessions \cup {NoSession}
    BY <1>3, <1>4 DEF Others, Unlocks
<1>6. Turn(t, Idle)
    BY <1>3, <1>5, EndsTurn
<1>7. /\ sess' \in [Sessions -> Session]
      /\ \A s \in Sessions : SessionSound(s, sess[s])'
    BY <1>6, SessionsAfter
<1>8. /\ checkpoint' = [checkpoint EXCEPT ![L] = r]
      /\ checkpoint' \in [Sizes -> TransparencyCheckpointRecord]
    <2>1. "completed" \in TransparencyCheckpointStatus
        BY DEF TransparencyCheckpointStatus
    <2>. QED  BY <1>1, <1>3, <2>1, Recorded
<1>9. /\ checkpoint'[L].status = "completed" /\ checkpoint'[L].root = MerkleRoot(leaves)
      /\ checkpoint'[L].prior = state.latest
      /\ \A n \in Sizes \ {L} : checkpoint'[n] = checkpoint[n]
    BY <1>1, <1>2, <1>4, <1>8
<1>10. PICK C : C = Completed
    OBVIOUS
<1>11. /\ C \subseteq Sizes /\ L \notin C /\ Completed' = C \cup {L}
       /\ \A n \in C : checkpoint'[n] = checkpoint[n]
    BY <1>4, <1>9, <1>10 DEF Completed
<1>12. \A n \in C : n \in Nat /\ n < L
    <2>1. \A n \in C : n \in Nat /\ n <= L /\ n # L
        BY <1>1, <1>4, <1>10, <1>11, DigestCount DEF Intact, Sizes
    <2>. QED  BY <1>4, <2>1
<1>13. ASSUME NEW S \in SUBSET C, S # {}
       PROVE  ArtifactOf(CHOOSE m \in S : \A k \in S : k <= m)'
                = ArtifactOf(CHOOSE m \in S : \A k \in S : k <= m)
    <2>1. PICK m : m = CHOOSE x \in S : \A k \in S : k <= x
        OBVIOUS
    <2>2. m \in C
        BY <1>11, <1>13, <2>1, GreatestChosen
    <2>3. ArtifactOf(m)' = ArtifactOf(m)
        BY <1>11, <2>2 DEF ArtifactOf
    <2>. QED  BY <2>1, <2>3
<1>14. ASSUME NEW n \in C  PROVE Before(n)' = Before(n)
    <2>1. PICK S : S = {m \in C : m < n}
        OBVIOUS
    <2>2. {m \in C \cup {L} : m < n} = S
        BY <1>4, <1>12, <2>1
    <2>. QED  BY <1>10, <1>11, <1>13, <2>1, <2>2 DEF Before
<1>15. Before(L)' = Latest
    <2>1. {m \in C \cup {L} : m < L} = C
        BY <1>4, <1>12
    <2>. QED  BY <1>10, <1>11, <1>13, <2>1 DEF Before, Latest
<1>16. Latest' = Statement(leaves)
    <2>1. PICK D : D = C \cup {L}
        OBVIOUS
    <2>2. D \in SUBSET Sizes /\ L \in D /\ \A k \in D : k <= L
        BY <1>4, <1>11, <1>12, <2>1
    <2>3. (CHOOSE m \in D : \A k \in D : k <= m) = L
        BY <2>2, GreatestIs
    <2>4. Latest' = ArtifactOf(L)'
        BY <1>11, <2>1, <2>2, <2>3 DEF Latest
    <2>. QED  BY <1>1, <1>9, <2>4 DEF ArtifactOf, Statement
<1>17. state' = [state EXCEPT !.latest = Statement(leaves)] /\ witnessed' = leaves
    BY <1>4 DEF CompleteCheckpoint
<1>18. Statement(leaves) \in Artifact
    BY <1>1, <1>2, <1>4 DEF Statement, Artifact
<1>19. /\ state' \in TransparencyLogState /\ state'.exists /\ state'.next = L
       /\ state'.head = leaves /\ state'.latest = Statement(leaves)
    BY <1>2, <1>4, <1>17, <1>18 DEF TransparencyLogState
<1>20. TypeOK'
    BY <1>2, <1>3, <1>5, <1>7, <1>8, <1>17, <1>19 DEF TypeOK
<1>21. Intact(state, leaves)'
    <2>1. ASSUME NEW n \in Completed'
          PROVE  /\ n <= Len(leaves')
                 /\ checkpoint'[n].root = MerkleRoot(SubSeq(leaves', 1, n))
                 /\ checkpoint'[n].prior = Before(n)'
        <3>1. CASE n = L
            <4>1. SubSeq(leaves, 1, L) = leaves
                BY <1>1, <1>2, TreeIs
            <4>2. state.latest = Latest
                BY <1>4 DEF Intact
            <4>3. L <= Len(leaves') /\ SubSeq(leaves', 1, L) = leaves
                BY <1>1, <1>3, <1>4, <4>1
            <4>4. checkpoint'[L].prior = Before(L)'
                BY <1>9, <1>15, <4>2
            <4>. QED  BY <1>9, <3>1, <4>3, <4>4
        <3>2. CASE n \in C
            <4>1. n <= Len(leaves) /\ checkpoint[n].root = MerkleRoot(SubSeq(leaves, 1, n))
                  /\ checkpoint[n].prior = Before(n)
                BY <1>4, <1>10, <3>2 DEF Intact
            <4>. QED  BY <1>3, <1>11, <1>14, <3>2, <4>1
        <3>. QED  BY <1>11, <3>1, <3>2
    <2>. QED  BY <1>1, <1>3, <1>16, <1>19, <2>1 DEF Intact
<1>22. Witnessing'
    <2>1. L \in Completed' /\ \A n \in Completed' : n <= L
        BY <1>4, <1>11, <1>12
    <2>. QED  BY <1>1, <1>9, <1>17, <2>1 DEF Witnessing
<1>23. FalseAlarmsOnlyAtBirth'
    BY <1>3 DEF LogInv, FalseAlarmsOnlyAtBirth
<1>. QED  BY <1>1, <1>3, <1>7, <1>19, <1>20, <1>21, <1>22, <1>23 DEF LogInv

-----------------------------------------------------------------------------
(* The invariant *)

LEMMA Initially == Init => LogInv
<1>. SUFFICES ASSUME Init  PROVE LogInv
    OBVIOUS
<1>1. 0 \in 0..MaxCorruptions /\ 0 \in 0..MaxFailures
    BY LogAssumption DEF LogAssumption
<1>2. PICK r : r = [status |-> "none", root |-> MerkleRoot(<<>>), prior |-> NoArtifact]
    OBVIOUS
<1>3. r \in TransparencyCheckpointRecord /\ r.status = "none"
    BY <1>2, EmptyTree, Constants
       DEF TransparencyCheckpointRecord, TransparencyCheckpointStatus
<1>4. checkpoint = [n \in Sizes |-> r]
    BY <1>2 DEF Init
<1>5. Completed = {}
    BY <1>3, <1>4 DEF Completed
<1>6. TypeOK
    BY <1>1, <1>3, <1>4, EmptyTree, Constants DEF Init, TypeOK
<1>7. \A s \in Sessions : SessionSound(s, sess[s])
    BY Constants DEF Init, SessionSound
<1>8. Witnessing
    BY <1>5 DEF Init, Witnessing
<1>9. Intact(state, leaves)
    BY <1>5, Constants DEF Init, Intact
<1>10. FalseAlarmsOnlyAtBirth
    BY DEF Init, FalseAlarmsOnlyAtBirth
<1>11. state = NoState /\ leaves = <<>> /\ Len(leaves) = 0
    BY DEF Init
<1>. QED  BY <1>5, <1>6, <1>7, <1>8, <1>9, <1>10, <1>11, Constants DEF LogInv

LEMMA Inductive == LogInv /\ [Next]_vars => LogInv'
<1>. SUFFICES ASSUME LogInv, [Next]_vars  PROVE LogInv'
    OBVIOUS
<1>1. CASE UNCHANGED vars
    <2>1. UNCHANGED <<state, leaves, checkpoint, event, lock, sess, witnessed, corruptions,
                      failures>>
        BY <1>1 DEF vars
    <2>2. Completed' = Completed
        BY <2>1 DEF Completed
    <2>3. Latest' = Latest /\ \A n : Before(n)' = Before(n)
        BY <2>1, KeepsAll, KeepsBefore
    <2>4. Intact(state, leaves)' = Intact(state, leaves)
        BY <2>1, <2>2, <2>3 DEF Intact
    <2>5. ASSUME NEW s \in Sessions  PROVE SessionSound(s, sess[s])'
        <3>1. SessionSound(s, sess[s])
            BY DEF LogInv
        <3>. QED  BY <2>1, <2>2, <2>4, <3>1 DEF SessionSound
    <2>6. TypeOK' /\ Witnessing' /\ FalseAlarmsOnlyAtBirth'
        BY <2>1, <2>2 DEF LogInv, TypeOK, Witnessing, FalseAlarmsOnlyAtBirth
    <2>. QED  BY <2>1, <2>2, <2>4, <2>5, <2>6 DEF LogInv
<1>2. ASSUME NEW s \in Sessions, Step(s)  PROVE LogInv'
    <2>1. CASE \E d \in Digests : LockAppend(s, d)
        BY <2>1, LockAppendStep
    <2>2. CASE InsertState(s)
        BY <2>2, InsertStateStep
    <2>3. CASE ReplayAppend(s) \/ ReplayPublish(s) \/ Abort(s)
        <3>1. Closes(s)
            BY <2>3 DEF Closes, ReplayAppend, ReplayPublish, Abort
        <3>. QED  BY <3>1, ClosesStep
    <2>4. CASE CommitAppend(s)
        BY <2>4, CommitAppendStep
    <2>5. CASE LockPublish(s)
        BY <2>5, LockPublishStep
    <2>6. CASE RefusePublish(s)
        BY <2>6, RefusePublishStep
    <2>7. CASE RequestCheckpoint(s)
        BY <2>7, RequestCheckpointStep
    <2>8. CASE FailCheckpoint(s)
        BY <2>8, FailCheckpointStep
    <2>9. CASE CompleteCheckpoint(s)
        BY <2>9, CompleteCheckpointStep
    <2>10. CASE AuditState(s)
        BY <2>10, AuditStateStep
    <2>11. CASE AuditLeaves(s)
        BY <2>11, AuditLeavesStep
    <2>12. CASE AuditCheckpoints(s)
        BY <2>12, AuditCheckpointsStep
    <2>13. CASE \E d \in Digests \cup {NoDigest}, m \in 0..Cardinality(Digests), n \in Sizes :
                  SelectCheckpoints(s, d, m, n)
        BY <2>13, SelectCheckpointsStep
    <2>14. CASE ServeProof(s)
        BY <2>14, ServeProofStep
    <2>15. CASE EndProof(s)
        BY <2>15, EndProofStep
    <2>. QED  BY <1>2, <2>1, <2>2, <2>3, <2>4, <2>5, <2>6, <2>7, <2>8, <2>9, <2>10,
                 <2>11, <2>12, <2>13, <2>14, <2>15 DEF Step
<1>3. ASSUME NEW i \in Sizes, NEW d \in Digests, Corrupt(i, d)  PROVE LogInv'
    BY <1>3, CorruptStep
<1>. QED  BY <1>1, <1>2, <1>3 DEF Next

\* The inductive invariant: what a session that holds the state row has read
\* is still so, and without corruption the tables agree with each other.
THEOREM Invariant == Spec => []LogInv
    BY Initially, Inductive, PTL DEF Spec

\* The transactions never leave tables that audit_integrity would report, for
\* any number of sessions, digests, failed signatures and aborted requests.
THEOREM IntactAudits == Spec => []IntactLogAudits
<1>1. LogInv => IntactLogAudits
    BY AuditIsComplete DEF LogInv, IntactLogAudits
<1>. QED  BY <1>1, Invariant, PTL

\* Without corruption the only false alarm is the audit that looked for the
\* state row before the first append had inserted it.
THEOREM FalseAlarms == Spec => []FalseAlarmsOnlyAtBirth
<1>1. LogInv => FalseAlarmsOnlyAtBirth
    BY DEF LogInv
<1>. QED  BY <1>1, Invariant, PTL

-----------------------------------------------------------------------------
(* Implementation of AppendOnlyLog *)

\* The record of the greatest checkpoint was found to be that of the leaves it
\* covers, and MerkleRoot tells trees apart: the leaves still begin with them.
LEMMA CompleteExtends ==
    ASSUME LogInv, NEW t \in Sessions, CompleteCheckpoint(t)
    PROVE  Witness!Extend
<1>1. PICK W : W = witnessed
    OBVIOUS
<1>2. W \in Trees /\ leaves \in Trees /\ Witnessing
    BY <1>1 DEF LogInv, TypeOK
<1>3. W \in Seq(Digests) /\ Len(W) \in Nat /\ leaves \in Seq(Digests) /\ Len(leaves) \in Nat
    BY <1>2, TreeIs
<1>4. /\ sess[t].tree = leaves /\ Intact(state, leaves)
      /\ Len(leaves) \in Sizes /\ Len(leaves) \notin Completed
    BY Signing DEF CompleteCheckpoint
<1>5. witnessed' = leaves
    BY <1>4 DEF CompleteCheckpoint
<1>6. SubSeq(W, 1, Len(W)) = W
    BY <1>3
<1>7. CASE W = <<>>
    <2>1. Len(W) = 0 /\ leaves # W
        BY <1>3, <1>4, <1>7, DigestCount DEF Sizes
    <2>2. SubSeq(leaves, 1, Len(W)) = W
        BY <1>3, <1>7, <2>1
    <2>3. Len(W) <= Len(leaves)
        BY <1>3, <2>1
    <2>. QED  BY <1>1, <1>3, <1>5, <1>6, <2>1, <2>2, <2>3
              DEF Witness!Extend, Witness!IsStrictPrefix, Witness!IsPrefix
<1>8. CASE W # <<>>
    <2>1. Len(W) \in Completed /\ checkpoint[Len(W)].root = MerkleRoot(W)
        BY <1>1, <1>2, <1>8 DEF Witnessing
    <2>2. /\ Len(W) <= Len(leaves)
          /\ MerkleRoot(SubSeq(leaves, 1, Len(W))) = MerkleRoot(W)
        BY <1>4, <2>1 DEF Intact
    <2>3. Len(W) \in 0..Len(leaves)
        BY <1>3, <2>2
    <2>4. SubSeq(leaves, 1, Len(W)) \in Trees
        BY <1>2, <2>3, PrefixIsTree
    <2>5. SubSeq(leaves, 1, Len(W)) = W
        BY <1>2, <2>2, <2>4, LogAssumption DEF LogAssumption
    <2>6. leaves # W
        BY <1>4, <2>1
    <2>. QED  BY <1>1, <1>3, <1>5, <1>6, <2>2, <2>5, <2>6
              DEF Witness!Extend, Witness!IsStrictPrefix, Witness!IsPrefix
<1>. QED  BY <1>7, <1>8

LEMMA NextExtends == LogInv /\ [Next]_vars => [Witness!Extend]_witnessed
<1>. SUFFICES ASSUME LogInv, [Next]_vars  PROVE Witness!Extend \/ UNCHANGED witnessed
    OBVIOUS
<1>1. CASE UNCHANGED vars
    BY <1>1 DEF vars
<1>2. ASSUME NEW s \in Sessions, Step(s)  PROVE Witness!Extend \/ UNCHANGED witnessed
    <2>1. CASE CompleteCheckpoint(s)
        BY <2>1, CompleteExtends
    <2>2. CASE ~CompleteCheckpoint(s)
        BY <1>2, <2>2
           DEF Step, LockAppend, InsertState, ReplayAppend, CommitAppend, LockPublish,
               RefusePublish, ReplayPublish, RequestCheckpoint, FailCheckpoint,
               AuditState, AuditLeaves, AuditCheckpoints, SelectCheckpoints,
               ServeProof, EndProof, Abort
    <2>. QED  BY <2>1, <2>2
<1>3. ASSUME NEW i \in Sizes, NEW d \in Digests, Corrupt(i, d)  PROVE UNCHANGED witnessed
    BY <1>3 DEF Corrupt
<1>. QED  BY <1>1, <1>2, <1>3 DEF Next

\* The log implements the append-only log: no checkpoint is completed over a
\* tree that does not extend the one witnessed before, even after leaves were
\* replaced together with the state row, since the audit before a publication
\* compares the leaves with every completed checkpoint.
THEOREM ExtendsWitnessed == Spec => CheckpointsExtend
<1>1. Init => Witness!LogInit
    BY DEF Init, Witness!LogInit
<1>. QED  BY <1>1, NextExtends, Invariant, PTL DEF Spec, CheckpointsExtend, Witness!LogSpec
=============================================================================
