---------------------------- MODULE IssuanceProofs ----------------------------
(***************************************************************************)
(* Proofs about ProofIssuance, for any sets of sessions, intents, scopes,  *)
(* principals, evidence, keys and proofs, any quorum, TTL and clock.       *)
(***************************************************************************)
EXTENDS ProofIssuance, FiniteSetTheorems, TLAPS

-----------------------------------------------------------------------------
(* Types and monotonicity *)

LEMMA IssuingFields ==
    ASSUME NEW st \in Issuing
    PROVE  /\ st.step \in {"idle", "approval", "evidence", "search", "insert", "resolve", "sign"}
           /\ st.intent \in Intents \cup {NoIntent}
           /\ st.scope \in Scopes \cup {NoScope}
           /\ st.asked \in Nat
           /\ st.approved \in BOOLEAN /\ st.late \in BOOLEAN /\ st.evidenced \in BOOLEAN
           /\ st.stale \in Proofs \cup {NoProof}
           /\ st.seen \in Keys \cup {NoKey} /\ st.seenActive \in BOOLEAN
           /\ st.proof \in Proofs \cup {NoProof}
           /\ st.key \in Keys \cup {NoKey}
           /\ st.dark \subseteq Keys
    BY DEF Issuing

LEMMA IdleFacts ==
    /\ Idle \in Issuing
    /\ Idle.step = "idle" /\ Idle.intent = NoIntent /\ Idle.asked = 0
    /\ Idle.approved = FALSE /\ Idle.evidenced = FALSE /\ Idle.stale = NoProof
    /\ Idle.seenActive = FALSE /\ Idle.proof = NoProof /\ Idle.key = NoKey /\ Idle.dark = {}
    /\ ~Signing(Idle)
    BY DEF Idle, Issuing, Signing

LEMMA RowFields ==
    ASSUME NEW r \in IssuedProof
    PROVE  /\ r.status \in ProofIssuanceStatus \cup {"none"}
           /\ r.intent \in Intents \cup {NoIntent}
           /\ r.scope \in Scopes \cup {NoScope}
           /\ r.key \in Keys \cup {NoKey}
           /\ r.asked \in Nat /\ r.issued \in Nat /\ r.expires \in Nat
    BY DEF IssuedProof

LEMMA SameCardinality ==
    ASSUME NEW S
    PROVE  Ballot!Cardinality(S) = Cardinality(S)
    BY DEF Cardinality, Ballot!Cardinality

LEMMA ApproversFinite ==
    ASSUME IssuanceAssumption, NEW D \in SUBSET Ballot!Decision
    PROVE  /\ IsFiniteSet(Ballot!Approvers(D))
           /\ Ballot!Cardinality(Ballot!Approvers(D)) \in Nat
<1>1. Ballot!Approvers(D) \subseteq Principals
    BY DEF Ballot!Approvers, Ballot!Decision
<1>2. IsFiniteSet(Ballot!Approvers(D))
    BY <1>1, FS_Subset DEF IssuanceAssumption
<1>. QED  BY <1>2, FS_CardinalityType, SameCardinality

\* More decisions never mean fewer approvals.
LEMMA QuorumGrows ==
    ASSUME IssuanceAssumption, NEW i \in Intents, NEW D \in SUBSET Ballot!Decision,
           NEW E \in SUBSET Ballot!Decision, D \subseteq E, Ballot!Quorum(i, D)
    PROVE  Ballot!Quorum(i, E)
<1>1. Ballot!Approvers(D) \subseteq Ballot!Approvers(E)
    BY DEF Ballot!Approvers
<1>2. Cardinality(Ballot!Approvers(D)) <= Cardinality(Ballot!Approvers(E))
    BY <1>1, ApproversFinite, FS_Subset
<1>3. Ballot!Cardinality(Ballot!Approvers(D)) <= Ballot!Cardinality(Ballot!Approvers(E))
    BY <1>2, SameCardinality
<1>. QED  BY <1>3, ApproversFinite DEF Ballot!Quorum, IssuanceAssumption

\* Evidence that is current at a time was current before, and stays on record.
LEMMA EvidenceGrows ==
    ASSUME IssuanceAssumption, NEW i \in Intents, NEW t \in Nat, NEW u \in Nat, u <= t,
           TypeOK, EnoughEvidence(i, t)
    PROVE  EnoughEvidence(i, u)
<1>1. CurrentEvidence(i, t) \subseteq CurrentEvidence(i, u)
    BY DEF CurrentEvidence, TypeOK, EvidenceObject
<1>2. IsFiniteSet(CurrentEvidence(i, t)) /\ IsFiniteSet(CurrentEvidence(i, u))
    <2>1. CurrentEvidence(i, t) \in SUBSET EvidenceIds /\ CurrentEvidence(i, u) \in SUBSET EvidenceIds
        BY DEF CurrentEvidence
    <2>. QED  BY <2>1, FS_Subset DEF IssuanceAssumption
<1>3. /\ Cardinality(CurrentEvidence(i, t)) <= Cardinality(CurrentEvidence(i, u))
      /\ Cardinality(CurrentEvidence(i, t)) \in Nat /\ Cardinality(CurrentEvidence(i, u)) \in Nat
    BY <1>1, <1>2, FS_Subset, FS_CardinalityType
<1>. QED  BY <1>3 DEF EnoughEvidence, IssuanceAssumption

LEMMA EvidenceStays ==
    ASSUME IssuanceAssumption, TypeOK, NEW e \in EvidenceIds, NEW j \in Intents, NEW x \in Nat,
           RegisterEvidence(e, j, x), NEW i \in Intents, NEW t \in Nat, EnoughEvidence(i, t)
    PROVE  EnoughEvidence(i, t)'
<1>1. CurrentEvidence(i, t) \subseteq CurrentEvidence(i, t)'
    BY DEF CurrentEvidence, RegisterEvidence, TypeOK, EvidenceObject, IssuanceAssumption
<1>2. IsFiniteSet(CurrentEvidence(i, t)) /\ IsFiniteSet(CurrentEvidence(i, t)')
    <2>1. CurrentEvidence(i, t) \in SUBSET EvidenceIds /\ CurrentEvidence(i, t)' \in SUBSET EvidenceIds
        BY DEF CurrentEvidence
    <2>. QED  BY <2>1, FS_Subset DEF IssuanceAssumption
<1>3. /\ Cardinality(CurrentEvidence(i, t)) <= Cardinality(CurrentEvidence(i, t)')
      /\ Cardinality(CurrentEvidence(i, t)) \in Nat /\ Cardinality(CurrentEvidence(i, t)') \in Nat
    BY <1>1, <1>2, FS_Subset, FS_CardinalityType
<1>. QED  BY <1>3 DEF EnoughEvidence, IssuanceAssumption

-----------------------------------------------------------------------------
(* Steps that only read *)

\* A step of one session that changes no table.
LEMMA LoadStep ==
    ASSUME IssuanceInv, NEW s \in Sessions, NEW st \in Issuing,
           ReadsSound(st), KeySound(st), StaleSound(st), SlotSound(st),
           st.proof = issuing[s].proof, Signing(st) <=> Signing(issuing[s]),
           issuing' = [issuing EXCEPT ![s] = st],
           UNCHANGED <<status, decisions, evidence, activeKeys, proof, now>>
    PROVE  IssuanceInv'
<1>1. TypeOK' /\ BallotSound' /\ OneIssued' /\ OneValidProof'
    BY DEF IssuanceInv, TypeOK, BallotSound, OneIssued, OneValidProof, EverIssued
<1>2. \A z \in Sessions : issuing'[z] = IF z = s THEN st ELSE issuing[z]
    BY DEF IssuanceInv, TypeOK
<1>3. ASSUME NEW z \in Sessions
      PROVE  (ReadsSound(issuing[z]) /\ KeySound(issuing[z])
                /\ StaleSound(issuing[z]) /\ SlotSound(issuing[z]))'
    <2>. DEFINE y == IF z = s THEN st ELSE issuing[z]
    <2>1. ReadsSound(y) /\ KeySound(y) /\ StaleSound(y) /\ SlotSound(y)
        BY DEF IssuanceInv
    <2>2. issuing'[z] = y
        BY <1>2
    <2>. HIDE DEF y
    <2>. QED  BY <2>1, <2>2, ZenonT(40) DEF ReadsSound, KeySound, StaleSound, SlotSound,
                                EnoughEvidence, CurrentEvidence, Signing
<1>4. \A p \in Proofs : RowSound(p)'
    BY DEF IssuanceInv, RowSound, EverIssued, EnoughEvidence, CurrentEvidence
<1>5. OneSignerPerRow'
    BY <1>2 DEF IssuanceInv, OneSignerPerRow, Signing
<1>6. RequestedInFlight'
    BY <1>2 DEF IssuanceInv, RequestedInFlight, Signing
<1>. QED  BY <1>1, <1>3, <1>4, <1>5, <1>6 DEF IssuanceInv

\* A session that does not sign goes away.
LEMMA EndStep ==
    ASSUME IssuanceInv, IssuanceAssumption, NEW s \in Sessions, ~Signing(issuing[s]), Ends(s),
           UNCHANGED <<status, decisions, evidence, activeKeys, proof, now>>
    PROVE  IssuanceInv'
<1>1. ReadsSound(Idle) /\ KeySound(Idle) /\ StaleSound(Idle) /\ SlotSound(Idle)
    BY IdleFacts DEF ReadsSound, KeySound, StaleSound, SlotSound, IssuanceInv, TypeOK
<1>2. issuing[s].proof = NoProof
    BY DEF IssuanceInv, SlotSound
<1>. QED  BY <1>1, <1>2, IdleFacts, LoadStep DEF Ends

LEMMA AskKeeps ==
    ASSUME IssuanceInv, IssuanceAssumption, NEW s \in Sessions, NEW i \in Intents,
           NEW x \in Scopes, Ask(s, i, x)
    PROVE  IssuanceInv'
<1>. DEFINE st == [Idle EXCEPT !.step = "approval", !.intent = i, !.scope = x,
                               !.asked = now, !.dark = Keys \ activeKeys]
<1>1. /\ st \in Issuing
      /\ st.step = "approval" /\ st.intent = i /\ st.asked = now /\ st.dark = Keys \ activeKeys
      /\ st.approved = FALSE /\ st.evidenced = FALSE /\ st.stale = NoProof
      /\ st.seenActive = FALSE /\ st.proof = NoProof /\ st.key = NoKey
    BY DEF Idle, Issuing, IssuanceInv, TypeOK
<1>2. ~Signing(issuing[s]) /\ issuing[s].proof = NoProof
    BY DEF Ask, Signing, IssuanceInv, SlotSound
<1>3. /\ issuing' = [issuing EXCEPT ![s] = st]
      /\ UNCHANGED <<status, decisions, evidence, activeKeys, proof, now>>
    BY DEF Ask
<1>. HIDE DEF st
<1>4. ReadsSound(st) /\ KeySound(st) /\ StaleSound(st) /\ SlotSound(st) /\ ~Signing(st)
    BY <1>1 DEF ReadsSound, KeySound, StaleSound, SlotSound, Signing, IssuanceInv, TypeOK,
                IssuanceAssumption
<1>. QED  BY <1>1, <1>2, <1>3, <1>4, LoadStep

\* A session that is not idle has asked for a proof of some intent.
LEMMA Asked ==
    ASSUME IssuanceInv, NEW s \in Sessions
    PROVE  /\ issuing[s] \in Issuing
           /\ issuing[s].step # "idle" => issuing[s].intent \in Intents
           /\ ReadsSound(issuing[s]) /\ KeySound(issuing[s])
           /\ StaleSound(issuing[s]) /\ SlotSound(issuing[s])
    BY DEF IssuanceInv, TypeOK, ReadsSound

LEMMA SelectApprovalKeeps ==
    ASSUME IssuanceInv, IssuanceAssumption, NEW s \in Sessions, SelectApproval(s)
    PROVE  IssuanceInv'
<1>. DEFINE i == issuing[s].intent
            approved == (RequiredCount[i] = 0 \/ status[i] = "satisfied")
<1>1. PICK late \in BOOLEAN :
        issuing' = [issuing EXCEPT ![s].step = "evidence", ![s].late = late,
                                   ![s].approved = approved]
    BY DEF SelectApproval
<1>0. approved \in BOOLEAN
    OBVIOUS
<1>. DEFINE st == [issuing[s] EXCEPT !.step = "evidence", !.late = late, !.approved = approved]
<1>2. issuing[s] \in Issuing /\ issuing[s].step = "approval" /\ i \in Intents
    BY Asked DEF SelectApproval
<1>3. /\ st \in Issuing /\ issuing' = [issuing EXCEPT ![s] = st]
      /\ st.step = "evidence" /\ st.approved = approved
      /\ st.intent = i /\ st.asked = issuing[s].asked /\ st.dark = issuing[s].dark
      /\ st.evidenced = issuing[s].evidenced /\ st.stale = issuing[s].stale
      /\ st.seen = issuing[s].seen /\ st.seenActive = issuing[s].seenActive
      /\ st.proof = issuing[s].proof /\ st.key = issuing[s].key
    <2>. HIDE DEF approved, i
    <2>. QED  BY <1>0, <1>1, <1>2, ZenonT(40) DEF Issuing, IssuanceInv, TypeOK, i
<1>4. approved => Ballot!Quorum(i, decisions[i])
    <2>1. CASE RequiredCount[i] = 0
        <3>1. decisions[i] \in SUBSET Ballot!Decision
            BY <1>2 DEF IssuanceInv, TypeOK
        <3>. QED  BY <2>1, <3>1, ApproversFinite DEF Ballot!Quorum
    <2>2. CASE status[i] = "satisfied"
        BY <1>2, <2>2 DEF IssuanceInv, BallotSound
    <2>. QED  BY <2>1, <2>2
<1>. HIDE DEF st, approved
<1>5. ReadsSound(st) /\ KeySound(st) /\ StaleSound(st) /\ SlotSound(st) /\ ~Signing(st)
      /\ ~Signing(issuing[s])
    BY <1>2, <1>3, <1>4, Asked DEF ReadsSound, KeySound, StaleSound, SlotSound, Signing
<1>. QED  BY <1>3, <1>5, LoadStep DEF SelectApproval

LEMMA SelectEvidenceKeeps ==
    ASSUME IssuanceInv, IssuanceAssumption, NEW s \in Sessions, SelectEvidence(s)
    PROVE  IssuanceInv'
<1>. DEFINE i == issuing[s].intent
            evidenced == (MinimumCount[i] <= Cardinality(CurrentEvidence(i, now)))
            st == [issuing[s] EXCEPT !.step = "search", !.evidenced = evidenced]
<1>2. issuing[s] \in Issuing /\ issuing[s].step = "evidence" /\ i \in Intents
    BY Asked DEF SelectEvidence
<1>3. /\ st \in Issuing /\ issuing' = [issuing EXCEPT ![s] = st]
      /\ st.step = "search" /\ st.approved = issuing[s].approved
      /\ st.intent = i /\ st.asked = issuing[s].asked /\ st.dark = issuing[s].dark
      /\ st.evidenced = evidenced /\ st.stale = issuing[s].stale
      /\ st.seen = issuing[s].seen /\ st.seenActive = issuing[s].seenActive
      /\ st.proof = issuing[s].proof /\ st.key = issuing[s].key
    <2>1. evidenced \in BOOLEAN
        OBVIOUS
    <2>2. issuing' = [issuing EXCEPT ![s].step = "search", ![s].evidenced = evidenced]
        BY DEF SelectEvidence
    <2>. HIDE DEF evidenced
    <2>. QED  BY <1>2, <2>1, <2>2, ZenonT(40) DEF Issuing, IssuanceInv, TypeOK
<1>4. evidenced => EnoughEvidence(i, issuing[s].asked)
    <2>1. issuing[s].asked \in Nat /\ now \in Nat /\ issuing[s].asked <= now
        BY <1>2, Asked, IssuingFields DEF IssuanceInv, TypeOK, ReadsSound
    <2>2. evidenced => EnoughEvidence(i, now)
        BY DEF EnoughEvidence
    <2>. HIDE DEF evidenced, i
    <2>. QED  BY <1>2, <2>1, <2>2, EvidenceGrows DEF IssuanceInv
<1>. HIDE DEF st, evidenced
<1>5. ReadsSound(st) /\ KeySound(st) /\ StaleSound(st) /\ SlotSound(st) /\ ~Signing(st)
      /\ ~Signing(issuing[s])
    BY <1>2, <1>3, <1>4, Asked DEF ReadsSound, KeySound, StaleSound, SlotSound, Signing
<1>. QED  BY <1>3, <1>5, LoadStep DEF SelectEvidence

LEMMA FindNoneKeeps ==
    ASSUME IssuanceInv, IssuanceAssumption, NEW s \in Sessions, FindNone(s)
    PROVE  IssuanceInv'
<1>. DEFINE st == [issuing[s] EXCEPT !.step = "insert"]
<1>2. issuing[s] \in Issuing /\ issuing[s].step = "search" /\ issuing[s].intent \in Intents
    BY Asked DEF FindNone
<1>3. /\ st \in Issuing /\ issuing' = [issuing EXCEPT ![s] = st]
      /\ st.step = "insert" /\ st.approved = issuing[s].approved
      /\ st.intent = issuing[s].intent /\ st.asked = issuing[s].asked
      /\ st.evidenced = issuing[s].evidenced /\ st.stale = issuing[s].stale
      /\ st.seen = issuing[s].seen /\ st.seenActive = issuing[s].seenActive
      /\ st.proof = issuing[s].proof /\ st.key = issuing[s].key /\ st.dark = issuing[s].dark
    BY <1>2 DEF FindNone, Moves, Issuing, IssuanceInv, TypeOK
<1>. HIDE DEF st
<1>5. ReadsSound(st) /\ KeySound(st) /\ StaleSound(st) /\ SlotSound(st) /\ ~Signing(st)
      /\ ~Signing(issuing[s])
    BY <1>2, <1>3, Asked DEF ReadsSound, KeySound, StaleSound, SlotSound, Signing
<1>. QED  BY <1>3, <1>5, LoadStep DEF FindNone

LEMMA FindOverdueKeeps ==
    ASSUME IssuanceInv, IssuanceAssumption, NEW s \in Sessions, NEW p \in Proofs, FindOverdue(s, p)
    PROVE  IssuanceInv'
<1>. DEFINE active == (proof[p].key \in activeKeys)
            st == [issuing[s] EXCEPT !.step = "insert", !.stale = p, !.seen = proof[p].key,
                                     !.seenActive = active]
<1>2. issuing[s] \in Issuing /\ issuing[s].step = "search" /\ issuing[s].intent \in Intents
    BY Asked DEF FindOverdue
<1>3. /\ st \in Issuing /\ issuing' = [issuing EXCEPT ![s] = st]
      /\ st.step = "insert" /\ st.approved = issuing[s].approved
      /\ st.intent = issuing[s].intent /\ st.asked = issuing[s].asked
      /\ st.evidenced = issuing[s].evidenced /\ st.stale = p
      /\ st.seen = proof[p].key /\ st.seenActive = active
      /\ st.proof = issuing[s].proof /\ st.key = issuing[s].key /\ st.dark = issuing[s].dark
    <2>1. active \in BOOLEAN
        OBVIOUS
    <2>2. issuing' = [issuing EXCEPT ![s].step = "insert", ![s].stale = p,
                                     ![s].seen = proof[p].key, ![s].seenActive = active]
        BY DEF FindOverdue
    <2>. HIDE DEF active
    <2>. QED  BY <1>2, <2>1, <2>2, RowFields DEF Issuing, IssuanceInv, TypeOK
<1>4. proof[p].status = "issued" /\ proof[p].expires <= now
    BY DEF FindOverdue, Overdue
<1>. HIDE DEF st
<1>5. ReadsSound(st) /\ KeySound(st) /\ StaleSound(st) /\ SlotSound(st) /\ ~Signing(st)
      /\ ~Signing(issuing[s])
    BY <1>2, <1>3, <1>4, Asked DEF ReadsSound, KeySound, StaleSound, SlotSound, Signing
<1>. QED  BY <1>3, <1>5, LoadStep DEF FindOverdue

LEMMA ResolveKeyKeeps ==
    ASSUME IssuanceInv, IssuanceAssumption, NEW s \in Sessions, NEW k \in Keys, ResolveKey(s, k)
    PROVE  IssuanceInv'
<1>. DEFINE st == [issuing[s] EXCEPT !.step = "sign", !.key = k]
<1>2. issuing[s] \in Issuing /\ issuing[s].step = "resolve" /\ issuing[s].intent \in Intents
    BY Asked DEF ResolveKey
<1>3. /\ st \in Issuing /\ issuing' = [issuing EXCEPT ![s] = st]
      /\ st.step = "sign" /\ st.approved = issuing[s].approved
      /\ st.intent = issuing[s].intent /\ st.scope = issuing[s].scope
      /\ st.asked = issuing[s].asked
      /\ st.evidenced = issuing[s].evidenced /\ st.stale = issuing[s].stale
      /\ st.seen = issuing[s].seen /\ st.seenActive = issuing[s].seenActive
      /\ st.proof = issuing[s].proof /\ st.key = k /\ st.dark = issuing[s].dark
    BY <1>2, ZenonT(40) DEF ResolveKey, Issuing, IssuanceInv, TypeOK
<1>4. k \notin issuing[s].dark
    BY Asked DEF ResolveKey, Usable, KeySound
<1>. HIDE DEF st
<1>5. ReadsSound(st) /\ KeySound(st) /\ StaleSound(st) /\ SlotSound(st) /\ Signing(st)
      /\ Signing(issuing[s])
    BY <1>2, <1>3, <1>4, Asked DEF ReadsSound, KeySound, StaleSound, SlotSound, Signing
<1>. QED  BY <1>3, <1>5, LoadStep DEF ResolveKey

-----------------------------------------------------------------------------
(* Steps of the other services *)

LEMMA BallotEffect ==
    ASSUME IssuanceInv, IssuanceAssumption, Ballot!BallotNext
    PROVE  /\ status' \in [Intents -> {"none", "pending", "satisfied", "rejected", "expired"}]
           /\ decisions' \in [Intents -> SUBSET Ballot!Decision]
           /\ \A j \in Intents : decisions[j] \subseteq decisions'[j]
           /\ BallotSound'
<1>1. /\ status \in [Intents -> {"none", "pending", "satisfied", "rejected", "expired"}]
      /\ decisions \in [Intents -> SUBSET Ballot!Decision]
    BY DEF IssuanceInv, TypeOK
<1>2. ASSUME NEW i \in Intents, Ballot!Open(i) \/ Ballot!Expire(i)
      PROVE  /\ status' \in [Intents -> {"none", "pending", "satisfied", "rejected", "expired"}]
             /\ decisions' = decisions
             /\ BallotSound'
    BY <1>1, <1>2 DEF Ballot!Open, Ballot!Expire, IssuanceInv, BallotSound, Ballot!Quorum
<1>3. ASSUME NEW i \in Intents, NEW d \in Ballot!Decision, Ballot!Vote(i, d)
      PROVE  /\ status' \in [Intents -> {"none", "pending", "satisfied", "rejected", "expired"}]
             /\ decisions' \in [Intents -> SUBSET Ballot!Decision]
             /\ \A j \in Intents : decisions[j] \subseteq decisions'[j]
             /\ BallotSound'
    <2>. DEFINE D == decisions[i] \cup {d}
    <2>1. PICK v \in Ballot!Verdicts(i, d, D) : status' = [status EXCEPT ![i] = v]
        BY <1>3 DEF Ballot!Vote
    <2>2. decisions' = [decisions EXCEPT ![i] = D] /\ d.by \in Eligible[i]
        BY <1>3 DEF Ballot!Vote
    <2>3. D \in SUBSET Ballot!Decision /\ decisions[i] \in SUBSET Ballot!Decision
        BY <1>1, <1>3
    <2>4. v = "satisfied" => Ballot!Quorum(i, D)
        <3>1. status[i] = "satisfied" => Ballot!Quorum(i, D)
            BY <2>3, QuorumGrows DEF IssuanceInv, BallotSound
        <3>. QED  BY <2>1, <3>1 DEF Ballot!Verdicts
    <2>5. v \in {"none", "pending", "satisfied", "rejected", "expired"}
        BY <1>1, <2>1 DEF Ballot!Verdicts
    <2>6. \A e \in D : e.by \in Eligible[i]
        BY <2>2 DEF IssuanceInv, BallotSound
    <2>. HIDE DEF D
    <2>7. BallotSound'
        BY <1>1, <2>1, <2>2, <2>4, <2>6 DEF IssuanceInv, BallotSound, Ballot!Quorum
    <2>8. \A j \in Intents : decisions[j] \subseteq decisions'[j]
        BY <1>1, <2>2 DEF D
    <2>. QED  BY <1>1, <2>1, <2>2, <2>3, <2>5, <2>7, <2>8
<1>. QED  BY <1>1, <1>2, <1>3 DEF Ballot!BallotNext

LEMMA QuorumStays ==
    ASSUME IssuanceInv, IssuanceAssumption, NEW i \in Intents,
           decisions' \in [Intents -> SUBSET Ballot!Decision],
           \A j \in Intents : decisions[j] \subseteq decisions'[j],
           Ballot!Quorum(i, decisions[i])
    PROVE  Ballot!Quorum(i, decisions'[i])
<1>1. decisions[i] \in SUBSET Ballot!Decision /\ decisions'[i] \in SUBSET Ballot!Decision
    BY DEF IssuanceInv, TypeOK
<1>. QED  BY <1>1, QuorumGrows

LEMMA DecideOrExpireKeeps ==
    ASSUME IssuanceInv, IssuanceAssumption, DecideOrExpire
    PROVE  IssuanceInv'
<1>0. UNCHANGED <<evidence, activeKeys, proof, issuing, now>> /\ Ballot!BallotNext
    BY DEF DecideOrExpire
<1>1. /\ status' \in [Intents -> {"none", "pending", "satisfied", "rejected", "expired"}]
      /\ decisions' \in [Intents -> SUBSET Ballot!Decision]
      /\ \A j \in Intents : decisions[j] \subseteq decisions'[j]
      /\ BallotSound'
    BY <1>0, BallotEffect
<1>2. TypeOK' /\ OneIssued' /\ OneValidProof' /\ OneSignerPerRow' /\ RequestedInFlight'
    BY <1>0, <1>1 DEF IssuanceInv, TypeOK, OneIssued, OneValidProof, EverIssued,
                      OneSignerPerRow, Signing, RequestedInFlight
<1>3. ASSUME NEW z \in Sessions
      PROVE  (ReadsSound(issuing[z]) /\ KeySound(issuing[z])
                /\ StaleSound(issuing[z]) /\ SlotSound(issuing[z]))'
    <2>1. issuing[z].approved => issuing[z].intent \in Intents
        BY Asked DEF ReadsSound
    <2>2. issuing[z].approved => Ballot!Quorum(issuing[z].intent, decisions'[issuing[z].intent])
        BY <1>1, <2>1, QuorumStays, Asked DEF ReadsSound
    <2>3. ReadsSound(issuing[z])'
        BY <1>0, <2>2, Asked DEF ReadsSound, EnoughEvidence, CurrentEvidence, Ballot!Quorum
    <2>4. (KeySound(issuing[z]) /\ StaleSound(issuing[z]) /\ SlotSound(issuing[z]))'
        BY <1>0, Asked DEF KeySound, StaleSound, SlotSound, Signing
    <2>. QED  BY <2>3, <2>4
<1>4. ASSUME NEW p \in Proofs  PROVE RowSound(p)'
    <2>1. EverIssued(p) => proof[p].intent \in Intents
        BY DEF IssuanceInv, RowSound, IssuanceAssumption
    <2>2. EverIssued(p) => Ballot!Quorum(proof[p].intent, decisions'[proof[p].intent])
        BY <1>1, <2>1, QuorumStays DEF IssuanceInv, RowSound
    <2>. QED  BY <1>0, <2>2 DEF IssuanceInv, RowSound, EverIssued, EnoughEvidence,
                               CurrentEvidence, Ballot!Quorum
<1>. QED  BY <1>1, <1>2, <1>3, <1>4 DEF IssuanceInv

LEMMA RegisterEvidenceKeeps ==
    ASSUME IssuanceInv, IssuanceAssumption, NEW e \in EvidenceIds, NEW j \in Intents,
           NEW x \in 0..MaxTime, RegisterEvidence(e, j, x)
    PROVE  IssuanceInv'
<1>0. /\ UNCHANGED <<status, decisions, activeKeys, proof, issuing, now>>
      /\ x \in Nat
    BY DEF RegisterEvidence, IssuanceAssumption
<1>E. \A i \in Intents, t \in Nat : EnoughEvidence(i, t) => EnoughEvidence(i, t)'
    BY <1>0, EvidenceStays DEF IssuanceInv
<1>1. TypeOK'
    BY <1>0 DEF RegisterEvidence, IssuanceInv, TypeOK, EvidenceObject
<1>2. BallotSound' /\ OneIssued' /\ OneValidProof' /\ OneSignerPerRow' /\ RequestedInFlight'
    BY <1>0 DEF IssuanceInv, BallotSound, OneIssued, OneValidProof, EverIssued,
                OneSignerPerRow, Signing, RequestedInFlight
<1>3. ASSUME NEW z \in Sessions
      PROVE  (ReadsSound(issuing[z]) /\ KeySound(issuing[z])
                /\ StaleSound(issuing[z]) /\ SlotSound(issuing[z]))'
    <2>1. issuing[z].evidenced => /\ issuing[z].intent \in Intents /\ issuing[z].asked \in Nat
                                  /\ EnoughEvidence(issuing[z].intent, issuing[z].asked)
        BY Asked, IssuingFields DEF ReadsSound
    <2>2. (issuing[z].evidenced => EnoughEvidence(issuing[z].intent, issuing[z].asked))'
        <3>. SUFFICES ASSUME issuing[z].evidenced
                      PROVE  EnoughEvidence(issuing[z].intent, issuing[z].asked)'
            BY <1>0
        <3>1. PICK i \in Intents, t \in Nat : i = issuing[z].intent /\ t = issuing[z].asked
            BY <2>1
        <3>2. EnoughEvidence(i, t)'
            BY <1>E, <2>1, <3>1
        <3>3. i = issuing'[z].intent /\ t = issuing'[z].asked
            BY <1>0, <3>1
        <3>. QED  BY <3>2, <3>3 DEF EnoughEvidence, CurrentEvidence
    <2>3. ReadsSound(issuing[z])'
        BY <1>0, <2>2, Asked DEF ReadsSound
    <2>4. (KeySound(issuing[z]) /\ StaleSound(issuing[z]) /\ SlotSound(issuing[z]))'
        BY <1>0, Asked DEF KeySound, StaleSound, SlotSound, Signing
    <2>. QED  BY <2>3, <2>4
<1>4. ASSUME NEW p \in Proofs  PROVE RowSound(p)'
    <2>1. EverIssued(p) => proof[p].intent \in Intents /\ proof[p].asked \in Nat
        BY RowFields DEF IssuanceInv, TypeOK, RowSound, IssuanceAssumption
    <2>2. EverIssued(p) => EnoughEvidence(proof[p].intent, proof[p].asked)
        BY DEF IssuanceInv, RowSound
    <2>3. EverIssued(p) => EnoughEvidence(proof[p].intent, proof[p].asked)'
        BY <1>0, <1>E, <2>1, <2>2, SMTT(30) DEF EnoughEvidence, CurrentEvidence
    <2>. QED  BY <1>0, <2>3 DEF IssuanceInv, RowSound, EverIssued
<1>. QED  BY <1>1, <1>2, <1>3, <1>4 DEF IssuanceInv

LEMMA ActivateKeyKeeps ==
    ASSUME IssuanceInv, IssuanceAssumption, NEW k \in Keys, ActivateKey(k)
    PROVE  IssuanceInv'
<1>0. UNCHANGED <<status, decisions, evidence, proof, now>> /\ activeKeys' = activeKeys \cup {k}
    BY DEF ActivateKey
<1>1. ASSUME NEW z \in Sessions
      PROVE  /\ issuing'[z] \in Issuing
             /\ issuing'[z].dark = issuing[z].dark \ {k}
             /\ issuing'[z].step = issuing[z].step /\ issuing'[z].intent = issuing[z].intent
             /\ issuing'[z].scope = issuing[z].scope /\ issuing'[z].asked = issuing[z].asked
             /\ issuing'[z].approved = issuing[z].approved
             /\ issuing'[z].evidenced = issuing[z].evidenced
             /\ issuing'[z].stale = issuing[z].stale /\ issuing'[z].seen = issuing[z].seen
             /\ issuing'[z].seenActive = issuing[z].seenActive
             /\ issuing'[z].proof = issuing[z].proof /\ issuing'[z].key = issuing[z].key
    <2>1. issuing'[z] = [issuing[z] EXCEPT !.dark = @ \ {k}] /\ issuing[z] \in Issuing
        BY DEF ActivateKey, IssuanceInv, TypeOK
    <2>. QED  BY <2>1 DEF Issuing
<1>2. TypeOK'
    BY <1>0, <1>1 DEF ActivateKey, IssuanceInv, TypeOK
<1>3. BallotSound' /\ OneIssued' /\ OneValidProof' /\ \A p \in Proofs : RowSound(p)'
    BY <1>0 DEF IssuanceInv, BallotSound, OneIssued, OneValidProof, EverIssued, RowSound,
                EnoughEvidence, CurrentEvidence
<1>4. OneSignerPerRow' /\ RequestedInFlight'
    BY <1>0, <1>1 DEF IssuanceInv, OneSignerPerRow, Signing, RequestedInFlight
<1>5. ASSUME NEW z \in Sessions
      PROVE  (ReadsSound(issuing[z]) /\ KeySound(issuing[z])
                /\ StaleSound(issuing[z]) /\ SlotSound(issuing[z]))'
    <2>1. (ReadsSound(issuing[z]) /\ StaleSound(issuing[z]) /\ SlotSound(issuing[z]))'
        <3>1. ReadsSound(issuing[z])'
            <4>1. EnoughEvidence(issuing[z].intent, issuing[z].asked)'
                    <=> EnoughEvidence(issuing[z].intent, issuing[z].asked)
                <5>1. PICK i, t : i = issuing[z].intent /\ t = issuing[z].asked
                    OBVIOUS
                <5>2. EnoughEvidence(i, t)' <=> EnoughEvidence(i, t)
                    BY <1>0 DEF EnoughEvidence, CurrentEvidence
                <5>3. issuing'[z].intent = i /\ issuing'[z].asked = t
                    BY <1>1, <5>1
                <5>. QED  BY <5>1, <5>2, <5>3 DEF EnoughEvidence, CurrentEvidence
            <4>. QED  BY <1>0, <1>1, <4>1, Asked DEF ReadsSound
        <3>2. StaleSound(issuing[z])'
            BY <1>0, <1>1, Asked DEF StaleSound
        <3>3. SlotSound(issuing[z])'
            BY <1>0, <1>1, Asked DEF SlotSound, Signing
        <3>. QED  BY <3>1, <3>2, <3>3
    <2>2. KeySound(issuing[z])'
        BY <1>0, <1>1, Asked DEF KeySound
    <2>. QED  BY <2>1, <2>2
<1>. QED  BY <1>2, <1>3, <1>4, <1>5 DEF IssuanceInv

LEMMA QuietKeeps ==
    ASSUME IssuanceInv, IssuanceAssumption,
           (\E k \in Keys : SuspendKey(k)) \/ Tick \/ UNCHANGED vars
    PROVE  IssuanceInv'
<1>0. /\ UNCHANGED <<status, decisions, evidence, proof, issuing>>
      /\ now \in Nat /\ now' \in Nat /\ now <= now' /\ activeKeys' \subseteq activeKeys
    BY DEF SuspendKey, Tick, vars, IssuanceInv, TypeOK
<1>1. TypeOK' /\ BallotSound' /\ OneIssued' /\ OneValidProof' /\ OneSignerPerRow'
      /\ RequestedInFlight'
    BY <1>0 DEF IssuanceInv, TypeOK, BallotSound, OneIssued, OneValidProof, EverIssued,
                OneSignerPerRow, Signing, RequestedInFlight
<1>2. ASSUME NEW z \in Sessions
      PROVE  (ReadsSound(issuing[z]) /\ KeySound(issuing[z])
                /\ StaleSound(issuing[z]) /\ SlotSound(issuing[z]))'
    <2>1. /\ issuing[z].asked \in Nat
          /\ issuing[z].stale # NoProof => proof[issuing[z].stale].expires \in Nat
        BY Asked, IssuingFields, RowFields DEF IssuanceInv, TypeOK
    <2>2. ReadsSound(issuing[z])'
        <3>1. (issuing[z].evidenced => EnoughEvidence(issuing[z].intent, issuing[z].asked))'
            BY <1>0, Asked DEF ReadsSound, EnoughEvidence, CurrentEvidence
        <3>. QED  BY <1>0, <2>1, <3>1, Asked DEF ReadsSound
    <2>3. (KeySound(issuing[z]) /\ StaleSound(issuing[z]) /\ SlotSound(issuing[z]))'
        BY <1>0, <2>1, Asked DEF KeySound, StaleSound, SlotSound, Signing
    <2>. QED  BY <2>2, <2>3
<1>3. ASSUME NEW p \in Proofs  PROVE RowSound(p)'
    <2>1. proof[p].issued \in Nat /\ proof[p].expires \in Nat
        BY RowFields DEF IssuanceInv, TypeOK
    <2>2. (EverIssued(p) => EnoughEvidence(proof[p].intent, proof[p].asked))'
        BY <1>0 DEF IssuanceInv, RowSound, EverIssued, EnoughEvidence, CurrentEvidence
    <2>. QED  BY <1>0, <2>1, <2>2 DEF IssuanceInv, RowSound, EverIssued
<1>. QED  BY <1>1, <1>2, <1>3 DEF IssuanceInv

-----------------------------------------------------------------------------
(* Steps that write issued_proofs *)

\* What a session relies on survives a write of other rows: issued and expired
\* rows stay so, its own row is left alone and its slot gets no new claimant.
LEMMA BystanderSound ==
    ASSUME IssuanceInv, NEW z \in Sessions, issuing'[z] = issuing[z],
           UNCHANGED <<decisions, evidence, activeKeys, now>>,
           \A q \in Proofs : proof[q].status \in {"issued", "expired"} =>
                /\ proof'[q].status \in {"issued", "expired"}
                /\ proof'[q].expires = proof[q].expires,
           Signing(issuing[z]) =>
                /\ proof'[issuing[z].proof].status = "requested"
                /\ proof'[issuing[z].proof].intent = proof[issuing[z].proof].intent
                /\ proof'[issuing[z].proof].scope = proof[issuing[z].proof].scope
                /\ proof'[issuing[z].proof].asked = proof[issuing[z].proof].asked,
           Signing(issuing[z]) => \A q \in Proofs :
                /\ proof'[q].status \in ActiveStatus
                /\ proof'[q].intent = issuing[z].intent /\ proof'[q].scope = issuing[z].scope
                => q \in {issuing[z].proof, issuing[z].stale}
    PROVE  (ReadsSound(issuing[z]) /\ KeySound(issuing[z])
              /\ StaleSound(issuing[z]) /\ SlotSound(issuing[z]))'
<1>1. (ReadsSound(issuing[z]) /\ KeySound(issuing[z]))'
    BY Asked DEF ReadsSound, KeySound, EnoughEvidence, CurrentEvidence
<1>2. StaleSound(issuing[z])'
    BY Asked, IssuingFields DEF StaleSound
<1>3. SlotSound(issuing[z])'
    BY Asked DEF SlotSound, Signing
<1>. QED  BY <1>1, <1>2, <1>3

\* So does what an issued row stands for.
LEMMA RowStays ==
    ASSUME IssuanceInv, NEW q \in Proofs, UNCHANGED <<decisions, evidence, now>>,
           proof'[q].status \in {"issued", "expired"} =>
                /\ EverIssued(q)
                /\ proof'[q].intent = proof[q].intent /\ proof'[q].asked = proof[q].asked
                /\ proof'[q].issued = proof[q].issued,
           proof'[q].status = "expired" => proof'[q].expires <= now
    PROVE  RowSound(q)'
<1>1. (EverIssued(q) => EnoughEvidence(proof[q].intent, proof[q].asked))'
    BY DEF IssuanceInv, RowSound, EverIssued, EnoughEvidence, CurrentEvidence
<1>2. (EverIssued(q) => /\ proof[q].intent \in Permitted
                        /\ Ballot!Quorum(proof[q].intent, decisions[proof[q].intent])
                        /\ proof[q].issued <= now)'
    BY DEF IssuanceInv, RowSound, EverIssued, Ballot!Quorum
<1>. QED  BY <1>1, <1>2 DEF RowSound

LEMMA IdleSound ==
    ASSUME IssuanceInv, IssuanceAssumption, NEW s \in Sessions, Ends(s),
           UNCHANGED <<decisions, evidence, activeKeys, now>>
    PROVE  /\ issuing'[s] = Idle
           /\ (ReadsSound(issuing[s]) /\ KeySound(issuing[s])
                /\ StaleSound(issuing[s]) /\ SlotSound(issuing[s]))'
           /\ \A z \in Sessions : z # s => issuing'[z] = issuing[z]
           /\ issuing' \in [Sessions -> Issuing]
<1>1. /\ issuing'[s] = Idle /\ issuing' \in [Sessions -> Issuing]
      /\ \A z \in Sessions : z # s => issuing'[z] = issuing[z]
    BY IdleFacts DEF Ends, IssuanceInv, TypeOK
<1>2. (ReadsSound(issuing[s]) /\ KeySound(issuing[s])
          /\ StaleSound(issuing[s]) /\ SlotSound(issuing[s]))'
    BY <1>1, IdleFacts DEF ReadsSound, KeySound, StaleSound, SlotSound, Signing, IssuanceInv, TypeOK
<1>. QED  BY <1>1, <1>2

LEMMA ExpireOnReadKeeps ==
    ASSUME IssuanceInv, IssuanceAssumption, NEW p \in Proofs, ExpireOnRead(p)
    PROVE  IssuanceInv'
<1>0. /\ UNCHANGED <<status, decisions, evidence, activeKeys, issuing, now>>
      /\ proof[p].status = "issued" /\ proof[p].expires <= now
    BY DEF ExpireOnRead, Overdue
<1>1. /\ proof' \in [Proofs -> IssuedProof]
      /\ proof'[p].status = "expired"
      /\ \A q \in Proofs : /\ q # p => proof'[q] = proof[q]
                           /\ proof'[q].intent = proof[q].intent
                           /\ proof'[q].scope = proof[q].scope
                           /\ proof'[q].asked = proof[q].asked
                           /\ proof'[q].issued = proof[q].issued
                           /\ proof'[q].expires = proof[q].expires
    BY DEF ExpireOnRead, IssuanceInv, TypeOK, IssuedProof, ProofIssuanceStatus
<1>2. TypeOK' /\ BallotSound' /\ OneSignerPerRow'
    BY <1>0, <1>1 DEF IssuanceInv, TypeOK, BallotSound, OneSignerPerRow, Signing
<1>3. ASSUME NEW z \in Sessions
      PROVE  (ReadsSound(issuing[z]) /\ KeySound(issuing[z])
                /\ StaleSound(issuing[z]) /\ SlotSound(issuing[z]))'
    <2>1. Signing(issuing[z]) => /\ issuing[z].proof \in Proofs
                                 /\ proof[issuing[z].proof].status = "requested"
        BY Asked DEF SlotSound
    <2>2. \A q \in Proofs : proof'[q].status \in ActiveStatus => proof[q].status \in ActiveStatus
        BY <1>0, <1>1 DEF ActiveStatus
    <2>3. Signing(issuing[z]) => \A q \in Proofs :
                /\ proof'[q].status \in ActiveStatus
                /\ proof'[q].intent = issuing[z].intent /\ proof'[q].scope = issuing[z].scope
                => q \in {issuing[z].proof, issuing[z].stale}
        BY <1>1, <2>2, Asked DEF SlotSound
    <2>. QED  BY <1>0, <1>1, <2>1, <2>3, BystanderSound
<1>4. ASSUME NEW q \in Proofs  PROVE RowSound(q)'
    BY <1>0, <1>1, RowStays DEF EverIssued, IssuanceInv, RowSound
<1>5. OneIssued' /\ OneValidProof'
    BY <1>0, <1>1 DEF IssuanceInv, OneIssued, OneValidProof, EverIssued
<1>6. RequestedInFlight'
    BY <1>0, <1>1 DEF IssuanceInv, RequestedInFlight
<1>. QED  BY <1>2, <1>3, <1>4, <1>5, <1>6 DEF IssuanceInv

\* What a commit does to the table, field by field.
LEMMA SettleEffect ==
    ASSUME IssuanceInv, IssuanceAssumption, NEW s \in Sessions, Signing(issuing[s]),
           NEW verdict \in {"issued", "rejected", "failed"}, NEW k \in Keys \cup {NoKey},
           NEW t \in Nat, Settles(s, verdict, k, t)
    PROVE  /\ issuing[s].proof \in Proofs /\ issuing[s].proof # issuing[s].stale
           /\ proof' \in [Proofs -> IssuedProof]
           /\ proof'[issuing[s].proof].status = verdict
           /\ proof'[issuing[s].proof].issued = t
           /\ \A q \in Proofs :
                /\ q # issuing[s].proof =>
                      /\ proof'[q].status = IF q = issuing[s].stale THEN "expired" ELSE proof[q].status
                      /\ proof'[q].issued = proof[q].issued
                /\ proof'[q].intent = proof[q].intent
                /\ proof'[q].scope = proof[q].scope
                /\ proof'[q].asked = proof[q].asked
                /\ proof'[q].expires = proof[q].expires
<1>. DEFINE p == issuing[s].proof
            b == issuing[s].stale
            W == WithoutStale(s)
<1>1. p \in Proofs /\ proof[p].status = "requested" /\ p # b
    BY Asked, IssuingFields DEF SlotSound, StaleSound, IssuanceAssumption
<1>2. \A q \in Proofs : proof[q] \in IssuedProof
    BY DEF IssuanceInv, TypeOK
<1>3. /\ W \in [Proofs -> IssuedProof]
      /\ \A q \in Proofs : /\ W[q].status = IF q = b THEN "expired" ELSE proof[q].status
                           /\ W[q].issued = proof[q].issued /\ W[q].intent = proof[q].intent
                           /\ W[q].scope = proof[q].scope /\ W[q].asked = proof[q].asked
                           /\ W[q].expires = proof[q].expires
    BY <1>2 DEF WithoutStale, IssuedProof, ProofIssuanceStatus
<1>4. proof' = [W EXCEPT ![p].status = verdict, ![p].key = k, ![p].issued = t]
    BY DEF Settles
<1>. HIDE DEF p, b, W
<1>5. proof' = [W EXCEPT ![p] = [W[p] EXCEPT !.status = verdict, !.key = k, !.issued = t]]
    BY <1>1, <1>3, <1>4
<1>. DEFINE r == [W[p] EXCEPT !.status = verdict, !.key = k, !.issued = t]
<1>6. /\ r \in IssuedProof /\ r.status = verdict /\ r.issued = t
      /\ r.intent = W[p].intent /\ r.scope = W[p].scope /\ r.asked = W[p].asked
      /\ r.expires = W[p].expires
    <2>1. W[p] \in IssuedProof
        BY <1>1, <1>3
    <2>. QED  BY <2>1 DEF IssuedProof, ProofIssuanceStatus
<1>7. proof' \in [Proofs -> IssuedProof] /\ \A q \in Proofs : proof'[q] = IF q = p THEN r ELSE W[q]
    BY <1>1, <1>3, <1>5, <1>6
<1>. HIDE DEF r
<1>. QED  BY <1>1, <1>3, <1>6, <1>7 DEF p, b

LEMMA SettleKeeps ==
    ASSUME IssuanceInv, IssuanceAssumption, NEW s \in Sessions, Signing(issuing[s]),
           NEW verdict \in {"issued", "rejected", "failed"}, NEW k \in Keys \cup {NoKey},
           NEW t \in Nat, verdict = "issued" => t = now, Settles(s, verdict, k, t), Ends(s),
           UNCHANGED <<status, decisions, evidence, activeKeys, now>>
    PROVE  IssuanceInv'
<1>. DEFINE p == issuing[s].proof
            b == issuing[s].stale
<1>1. /\ p \in Proofs /\ p # b
      /\ proof' \in [Proofs -> IssuedProof]
      /\ proof'[p].status = verdict /\ proof'[p].issued = t
      /\ \A q \in Proofs :
            /\ q # p => /\ proof'[q].status = IF q = b THEN "expired" ELSE proof[q].status
                        /\ proof'[q].issued = proof[q].issued
            /\ proof'[q].intent = proof[q].intent
            /\ proof'[q].scope = proof[q].scope
            /\ proof'[q].asked = proof[q].asked
            /\ proof'[q].expires = proof[q].expires
    BY SettleEffect
<1>2. /\ proof[p].status = "requested"
      /\ proof[p].intent = issuing[s].intent /\ proof[p].scope = issuing[s].scope
      /\ proof[p].asked = issuing[s].asked
      /\ issuing[s].intent \in Permitted /\ issuing[s].approved /\ issuing[s].evidenced
      /\ Ballot!Quorum(issuing[s].intent, decisions[issuing[s].intent])
      /\ EnoughEvidence(issuing[s].intent, issuing[s].asked)
      /\ \A q \in Proofs : /\ proof[q].status \in ActiveStatus
                           /\ proof[q].intent = proof[p].intent /\ proof[q].scope = proof[p].scope
                           => q \in {p, b}
    BY Asked DEF SlotSound, ReadsSound
<1>3. \A q \in Proofs : q = b => proof[q].status \in {"issued", "expired"} /\ proof[q].expires <= now
    BY Asked DEF StaleSound, IssuanceAssumption
<1>4. /\ issuing'[s] = Idle /\ issuing' \in [Sessions -> Issuing]
      /\ (ReadsSound(issuing[s]) /\ KeySound(issuing[s])
            /\ StaleSound(issuing[s]) /\ SlotSound(issuing[s]))'
      /\ \A z \in Sessions : z # s => issuing'[z] = issuing[z]
    BY IdleSound
<1>5. \A z \in Sessions : z # s /\ Signing(issuing[z]) =>
        /\ issuing[z].proof \in Proofs \ {p, b}
        /\ proof[issuing[z].proof].status = "requested"
    BY <1>1, <1>3, Asked DEF SlotSound, IssuanceInv, OneSignerPerRow
<1>. HIDE DEF p, b
<1>6. TypeOK' /\ BallotSound'
    BY <1>1, <1>4 DEF IssuanceInv, TypeOK, BallotSound
<1>7. OneSignerPerRow'
    BY <1>4, IdleFacts DEF IssuanceInv, OneSignerPerRow, Signing
<1>8. RequestedInFlight'
    <2>. SUFFICES ASSUME NEW q \in Proofs, proof'[q].status = "requested"
                  PROVE  \E z \in Sessions : /\ issuing'[z].proof = q
                                             /\ issuing'[z].step \in {"resolve", "sign"}
        BY DEF RequestedInFlight
    <2>1. q # p /\ proof[q].status = "requested"
        BY <1>1
    <2>2. PICK z \in Sessions : issuing[z].proof = q /\ issuing[z].step \in {"resolve", "sign"}
        BY <2>1 DEF IssuanceInv, RequestedInFlight
    <2>3. z # s
        BY <2>1, <2>2 DEF p
    <2>. QED  BY <1>4, <2>2, <2>3
<1>9. \A q \in Proofs : proof'[q].status \in ActiveStatus => proof[q].status \in ActiveStatus
    BY <1>1, <1>2 DEF ActiveStatus
<1>10. ASSUME NEW z \in Sessions
       PROVE  (ReadsSound(issuing[z]) /\ KeySound(issuing[z])
                 /\ StaleSound(issuing[z]) /\ SlotSound(issuing[z]))'
    <2>1. CASE z = s
        BY <1>4, <2>1
    <2>2. CASE z # s
        <3>1. Signing(issuing[z]) => \A q \in Proofs :
                /\ proof'[q].status \in ActiveStatus
                /\ proof'[q].intent = issuing[z].intent /\ proof'[q].scope = issuing[z].scope
                => q \in {issuing[z].proof, issuing[z].stale}
            BY <1>1, <1>9, Asked DEF SlotSound
        <3>2. \A q \in Proofs : proof[q].status \in {"issued", "expired"} =>
                /\ proof'[q].status \in {"issued", "expired"}
                /\ proof'[q].expires = proof[q].expires
            BY <1>1, <1>2
        <3>3. Signing(issuing[z]) =>
                /\ proof'[issuing[z].proof].status = "requested"
                /\ proof'[issuing[z].proof].intent = proof[issuing[z].proof].intent
                /\ proof'[issuing[z].proof].scope = proof[issuing[z].proof].scope
                /\ proof'[issuing[z].proof].asked = proof[issuing[z].proof].asked
            BY <1>1, <1>5, <2>2
        <3>4. issuing'[z] = issuing[z]
            BY <1>4, <2>2
        <3>. QED  BY <3>1, <3>2, <3>3, <3>4, BystanderSound
    <2>. QED  BY <2>1, <2>2
<1>11. ASSUME NEW q \in Proofs  PROVE RowSound(q)'
    <2>1. CASE q = p
        <3>1. EnoughEvidence(proof[q].intent, proof[q].asked)'
            <4>1. /\ proof'[q].intent = issuing[s].intent /\ proof'[q].asked = issuing[s].asked
                  /\ EnoughEvidence(issuing[s].intent, issuing[s].asked)
                BY <1>1, <1>2, <2>1
            <4>. QED  BY <4>1 DEF EnoughEvidence, CurrentEvidence
        <3>2. Ballot!Quorum(proof[q].intent, decisions[proof[q].intent])'
            BY <1>1, <1>2, <2>1 DEF Ballot!Quorum
        <3>3. (EverIssued(q) => proof[q].intent \in Permitted /\ proof[q].issued <= now)'
            BY <1>1, <1>2, <2>1 DEF EverIssued, IssuanceInv, TypeOK
        <3>4. proof'[q].status # "expired"
            BY <1>1, <2>1
        <3>. QED  BY <3>1, <3>2, <3>3, <3>4 DEF RowSound
    <2>2. CASE q # p
        <3>1. /\ proof'[q].status \in {"issued", "expired"} =>
                    /\ EverIssued(q)
                    /\ proof'[q].intent = proof[q].intent /\ proof'[q].asked = proof[q].asked
                    /\ proof'[q].issued = proof[q].issued
              /\ proof'[q].status = "expired" => proof'[q].expires <= now
            BY <1>1, <1>3, <2>2 DEF EverIssued, IssuanceInv, RowSound
        <3>. QED  BY <3>1, RowStays
    <2>. QED  BY <2>1, <2>2
<1>12. ASSUME NEW q \in Proofs, q # p, proof'[q].status = "issued",
              proof'[q].intent = proof'[p].intent, proof'[q].scope = proof'[p].scope
       PROVE  FALSE
    <2>1. proof[q].status = "issued" /\ q # b
        BY <1>1, <1>12
    <2>. QED  BY <1>1, <1>2, <1>12, <2>1 DEF ActiveStatus
<1>13. OneIssued'
    <2>. SUFFICES ASSUME NEW q \in Proofs, NEW r \in Proofs, q # r,
                         proof'[q].status = "issued", proof'[r].status = "issued",
                         proof'[q].intent = proof'[r].intent, proof'[q].scope = proof'[r].scope
                  PROVE  FALSE
        BY DEF OneIssued
    <2>1. CASE q = p
        BY <1>12, <2>1
    <2>2. CASE r = p
        BY <1>12, <2>2
    <2>3. CASE q # p /\ r # p
        <3>1. /\ proof[q].status = "issued" /\ proof[r].status = "issued"
              /\ proof[q].intent = proof[r].intent /\ proof[q].scope = proof[r].scope
            BY <1>1, <2>3
        <3>. QED  BY <3>1 DEF IssuanceInv, OneIssued
    <2>. QED  BY <2>1, <2>2, <2>3
<1>14. ASSUME NEW q \in Proofs, q # p, proof'[p].status \in {"issued", "expired"},
              proof'[q].status \in {"issued", "expired"},
              proof'[q].intent = proof'[p].intent, proof'[q].scope = proof'[p].scope
       PROVE  proof'[q].expires <= proof'[p].issued
    <2>1. proof'[q].status = "expired" /\ proof'[p].issued = now
        BY <1>1, <1>12, <1>14
    <2>2. proof'[q].expires <= now
        BY <1>11, <2>1 DEF RowSound
    <2>. QED  BY <2>1, <2>2
<1>15. OneValidProof'
    <2>. SUFFICES ASSUME NEW q \in Proofs, NEW r \in Proofs, q # r,
                         proof'[q].status \in {"issued", "expired"},
                         proof'[r].status \in {"issued", "expired"},
                         proof'[q].intent = proof'[r].intent, proof'[q].scope = proof'[r].scope
                  PROVE  \/ proof'[q].expires <= proof'[r].issued
                         \/ proof'[r].expires <= proof'[q].issued
        BY DEF OneValidProof, EverIssued
    <2>1. CASE q = p
        BY <1>14, <2>1
    <2>2. CASE r = p
        BY <1>14, <2>2
    <2>3. CASE q # p /\ r # p
        <3>1. EverIssued(q) /\ EverIssued(r)
            BY <1>1, <1>3, <2>3 DEF EverIssued
        <3>2. /\ proof[q].intent = proof[r].intent /\ proof[q].scope = proof[r].scope
              /\ proof'[q].expires = proof[q].expires /\ proof'[r].expires = proof[r].expires
              /\ proof'[q].issued = proof[q].issued /\ proof'[r].issued = proof[r].issued
            BY <1>1, <2>3
        <3>. QED  BY <3>1, <3>2 DEF IssuanceInv, OneValidProof
    <2>. QED  BY <2>1, <2>2, <2>3
<1>. QED  BY <1>6, <1>7, <1>8, <1>10, <1>11, <1>13, <1>15 DEF IssuanceInv

LEMMA AbortKeeps ==
    ASSUME IssuanceInv, IssuanceAssumption, NEW s \in Sessions, Abort(s)
    PROVE  IssuanceInv'
<1>0. Ends(s) /\ UNCHANGED <<status, decisions, evidence, activeKeys, now>>
    BY DEF Abort
<1>. DEFINE p == issuing[s].proof
<1>1. CASE ~Signing(issuing[s])
    <2>1. p = NoProof
        BY <1>1, Asked DEF SlotSound
    <2>2. proof' = proof
        BY <2>1 DEF Abort, IssuanceInv, TypeOK, IssuanceAssumption
    <2>. QED  BY <1>0, <1>1, <2>2, EndStep
<1>2. CASE Signing(issuing[s])
    <2>1. p \in Proofs /\ proof[p].status = "requested"
        BY <1>2, Asked DEF SlotSound
    <2>2. /\ proof' \in [Proofs -> IssuedProof]
          /\ proof'[p] = NoRow
          /\ \A q \in Proofs : q # p => proof'[q] = proof[q]
        <3>1. NoRow \in IssuedProof
            BY DEF NoRow, IssuedProof
        <3>. QED  BY <2>1, <3>1 DEF Abort, IssuanceInv, TypeOK
    <2>3. NoRow.status = "none"
        BY DEF NoRow
    <2>4. /\ issuing'[s] = Idle /\ issuing' \in [Sessions -> Issuing]
          /\ (ReadsSound(issuing[s]) /\ KeySound(issuing[s])
                /\ StaleSound(issuing[s]) /\ SlotSound(issuing[s]))'
          /\ \A z \in Sessions : z # s => issuing'[z] = issuing[z]
        BY <1>0, IdleSound
    <2>5. \A z \in Sessions : z # s /\ Signing(issuing[z]) => issuing[z].proof \in Proofs \ {p}
        BY <1>2, Asked DEF SlotSound, IssuanceInv, OneSignerPerRow
    <2>6. RequestedInFlight'
        <3>. SUFFICES ASSUME NEW q \in Proofs, proof'[q].status = "requested"
                      PROVE  \E z \in Sessions : /\ issuing'[z].proof = q
                                                 /\ issuing'[z].step \in {"resolve", "sign"}
            BY DEF RequestedInFlight
        <3>1. q # p /\ proof[q].status = "requested"
            BY <2>1, <2>2, <2>3
        <3>2. PICK z \in Sessions : issuing[z].proof = q /\ issuing[z].step \in {"resolve", "sign"}
            BY <3>1 DEF IssuanceInv, RequestedInFlight
        <3>. QED  BY <2>4, <3>1, <3>2
    <2>. HIDE DEF p
    <2>7. TypeOK' /\ BallotSound'
        BY <1>0, <2>2, <2>4 DEF IssuanceInv, TypeOK, BallotSound
    <2>8. OneSignerPerRow'
        BY <2>4, IdleFacts DEF IssuanceInv, OneSignerPerRow, Signing
    <2>9. ASSUME NEW z \in Sessions
          PROVE  (ReadsSound(issuing[z]) /\ KeySound(issuing[z])
                    /\ StaleSound(issuing[z]) /\ SlotSound(issuing[z]))'
        <3>1. CASE z = s
            BY <2>4, <3>1
        <3>2. CASE z # s
            <4>1. Signing(issuing[z]) => \A q \in Proofs :
                    /\ proof'[q].status \in ActiveStatus
                    /\ proof'[q].intent = issuing[z].intent /\ proof'[q].scope = issuing[z].scope
                    => q \in {issuing[z].proof, issuing[z].stale}
                BY <2>1, <2>2, <2>3, Asked DEF SlotSound, ActiveStatus
            <4>2. \A q \in Proofs : proof[q].status \in {"issued", "expired"} => proof'[q] = proof[q]
                BY <2>1, <2>2
            <4>3. Signing(issuing[z]) => /\ proof'[issuing[z].proof] = proof[issuing[z].proof]
                                         /\ proof[issuing[z].proof].status = "requested"
                BY <2>2, <2>5, <3>2, Asked DEF SlotSound
            <4>4. issuing'[z] = issuing[z]
                BY <2>4, <3>2
            <4>. QED  BY <1>0, <4>1, <4>2, <4>3, <4>4, BystanderSound
        <3>. QED  BY <3>1, <3>2
    <2>10. ASSUME NEW q \in Proofs  PROVE RowSound(q)'
        BY <1>0, <2>1, <2>2, <2>3, RowStays DEF IssuanceInv, RowSound, EverIssued
    <2>11. OneIssued' /\ OneValidProof'
        <3>1. \A q \in Proofs : proof'[q].status \in {"issued", "expired"} => proof'[q] = proof[q]
            BY <2>1, <2>2, <2>3
        <3>. QED  BY <3>1 DEF IssuanceInv, OneIssued, OneValidProof, EverIssued
    <2>. QED  BY <2>6, <2>7, <2>8, <2>9, <2>10, <2>11 DEF IssuanceInv
<1>. QED  BY <1>1, <1>2

LEMMA InsertRejectedKeeps ==
    ASSUME IssuanceInv, IssuanceAssumption, NEW s \in Sessions, NEW p \in Proofs,
           InsertRejected(s, p)
    PROVE  IssuanceInv'
<1>0. /\ Ends(s) /\ UNCHANGED <<decisions, evidence, activeKeys, now>>
      /\ proof[p].status = "none" /\ ~Signing(issuing[s]) /\ issuing[s].intent \in Intents
      /\ issuing[s].proof = NoProof
    BY Asked DEF InsertRejected, Signing, SlotSound
<1>. DEFINE b == issuing[s].stale
<1>1. /\ p # b
      /\ \A q \in Proofs : q = b => /\ proof[q].status \in {"issued", "expired"}
                                    /\ proof[q].expires <= now
    BY <1>0, Asked DEF StaleSound, IssuanceAssumption
<1>2. /\ proof' \in [Proofs -> IssuedProof]
      /\ proof'[p].status = "rejected"
      /\ \A q \in Proofs : q # p =>
            /\ proof'[q].status = IF q = b THEN "expired" ELSE proof[q].status
            /\ proof'[q].intent = proof[q].intent
            /\ proof'[q].scope = proof[q].scope
            /\ proof'[q].asked = proof[q].asked
            /\ proof'[q].issued = proof[q].issued
            /\ proof'[q].expires = proof[q].expires
    <2>. DEFINE W == WithoutStale(s)
                r == NewProof(s, "rejected")
    <2>1. proof' = [W EXCEPT ![p] = r]
        BY DEF InsertRejected
    <2>2. \A q \in Proofs : proof[q] \in IssuedProof
        BY DEF IssuanceInv, TypeOK
    <2>3. /\ W \in [Proofs -> IssuedProof]
          /\ \A q \in Proofs : /\ W[q].status = IF q = b THEN "expired" ELSE proof[q].status
                               /\ W[q].issued = proof[q].issued /\ W[q].intent = proof[q].intent
                               /\ W[q].scope = proof[q].scope /\ W[q].asked = proof[q].asked
                               /\ W[q].expires = proof[q].expires
        BY <2>2 DEF WithoutStale, IssuedProof, ProofIssuanceStatus
    <2>4. r \in IssuedProof /\ r.status = "rejected"
        BY Asked, IssuingFields DEF NewProof, NoRow, IssuedProof, ProofIssuanceStatus
    <2>. HIDE DEF W, r
    <2>. QED  BY <2>1, <2>3, <2>4
<1>3. /\ status' \in [Intents -> {"none", "pending", "satisfied", "rejected", "expired"}]
      /\ \A i \in Intents : status'[i] \in {status[i], "expired"}
    BY <1>0 DEF InsertRejected, IssuanceInv, TypeOK
<1>4. /\ issuing'[s] = Idle /\ issuing' \in [Sessions -> Issuing]
      /\ (ReadsSound(issuing[s]) /\ KeySound(issuing[s])
            /\ StaleSound(issuing[s]) /\ SlotSound(issuing[s]))'
      /\ \A z \in Sessions : z # s => issuing'[z] = issuing[z]
    BY <1>0, IdleSound
<1>5. \A z \in Sessions : Signing(issuing[z]) =>
        /\ issuing[z].proof \in Proofs \ {p, b}
        /\ proof[issuing[z].proof].status = "requested"
    BY <1>0, <1>1, Asked DEF SlotSound
<1>6. RequestedInFlight'
    <2>. SUFFICES ASSUME NEW q \in Proofs, proof'[q].status = "requested"
                  PROVE  \E z \in Sessions : /\ issuing'[z].proof = q
                                             /\ issuing'[z].step \in {"resolve", "sign"}
        BY DEF RequestedInFlight
    <2>1. proof[q].status = "requested"
        BY <1>2
    <2>2. PICK z \in Sessions : issuing[z].proof = q /\ issuing[z].step \in {"resolve", "sign"}
        BY <2>1 DEF IssuanceInv, RequestedInFlight
    <2>. QED  BY <1>0, <1>4, <2>2 DEF Signing
<1>. HIDE DEF b
<1>7. TypeOK'
    BY <1>0, <1>2, <1>3, <1>4 DEF IssuanceInv, TypeOK
<1>8. BallotSound'
    BY <1>0, <1>3 DEF IssuanceInv, BallotSound
<1>9. OneSignerPerRow'
    BY <1>4, IdleFacts DEF IssuanceInv, OneSignerPerRow, Signing
<1>10. ASSUME NEW z \in Sessions
       PROVE  (ReadsSound(issuing[z]) /\ KeySound(issuing[z])
                 /\ StaleSound(issuing[z]) /\ SlotSound(issuing[z]))'
    <2>1. CASE z = s
        BY <1>4, <2>1
    <2>2. CASE z # s
        <3>1. Signing(issuing[z]) => \A q \in Proofs :
                /\ proof'[q].status \in ActiveStatus
                /\ proof'[q].intent = issuing[z].intent /\ proof'[q].scope = issuing[z].scope
                => q \in {issuing[z].proof, issuing[z].stale}
            BY <1>2, Asked DEF SlotSound, ActiveStatus
        <3>2. \A q \in Proofs : proof[q].status \in {"issued", "expired"} =>
                /\ proof'[q].status \in {"issued", "expired"}
                /\ proof'[q].expires = proof[q].expires
            BY <1>0, <1>2
        <3>3. Signing(issuing[z]) =>
                /\ proof'[issuing[z].proof].status = "requested"
                /\ proof'[issuing[z].proof].intent = proof[issuing[z].proof].intent
                /\ proof'[issuing[z].proof].scope = proof[issuing[z].proof].scope
                /\ proof'[issuing[z].proof].asked = proof[issuing[z].proof].asked
            BY <1>2, <1>5
        <3>4. issuing'[z] = issuing[z]
            BY <1>4, <2>2
        <3>. QED  BY <1>0, <3>1, <3>2, <3>3, <3>4, BystanderSound
    <2>. QED  BY <2>1, <2>2
<1>11. \A q \in Proofs : proof'[q].status \in {"issued", "expired"} =>
            /\ EverIssued(q) /\ q # p
            /\ proof'[q].intent = proof[q].intent /\ proof'[q].scope = proof[q].scope
            /\ proof'[q].asked = proof[q].asked /\ proof'[q].issued = proof[q].issued
            /\ proof'[q].expires = proof[q].expires
    BY <1>1, <1>2 DEF EverIssued
<1>12. ASSUME NEW q \in Proofs  PROVE RowSound(q)'
    <2>1. proof'[q].status = "expired" => proof'[q].expires <= now
        BY <1>1, <1>2 DEF IssuanceInv, RowSound
    <2>. QED  BY <1>0, <1>11, <2>1, RowStays
<1>13. OneIssued'
    BY <1>2 DEF IssuanceInv, OneIssued
<1>14. OneValidProof'
    BY <1>11 DEF IssuanceInv, OneValidProof, EverIssued
<1>. QED  BY <1>6, <1>7, <1>8, <1>9, <1>10, <1>12, <1>13, <1>14 DEF IssuanceInv

LEMMA InsertRequestedKeeps ==
    ASSUME IssuanceInv, IssuanceAssumption, NEW s \in Sessions, NEW p \in Proofs,
           NEW ttl \in 1..MaxTtl, InsertRequested(s, p, ttl)
    PROVE  IssuanceInv'
<1>. DEFINE st == [issuing[s] EXCEPT !.step = "resolve", !.proof = p]
            r == [NewProof(s, "requested") EXCEPT !.asked = issuing[s].asked, !.expires = now + ttl]
<1>0. /\ UNCHANGED <<status, decisions, evidence, activeKeys, now>>
      /\ issuing[s].step = "insert" /\ issuing[s] \in Issuing /\ issuing[s].intent \in Intents
      /\ proof[p].status = "none" /\ ~Signing(issuing[s])
      /\ issuing[s].intent \in Permitted /\ issuing[s].approved /\ issuing[s].evidenced
    BY Asked DEF InsertRequested, Signing, EligibleToIssue
<1>1. /\ r \in IssuedProof /\ r.status = "requested"
      /\ r.intent = issuing[s].intent /\ r.scope = issuing[s].scope /\ r.asked = issuing[s].asked
    <2>1. now + ttl \in Nat
        BY DEF IssuanceInv, TypeOK, IssuanceAssumption
    <2>. QED  BY <1>0, <2>1, IssuingFields DEF NewProof, NoRow, IssuedProof, ProofIssuanceStatus
<1>2. /\ proof' \in [Proofs -> IssuedProof] /\ proof'[p] = r
      /\ \A q \in Proofs : q # p => proof'[q] = proof[q]
    <2>1. proof' = [proof EXCEPT ![p] = r]
        BY DEF InsertRequested
    <2>. HIDE DEF r
    <2>. QED  BY <1>1, <2>1 DEF IssuanceInv, TypeOK
<1>3. /\ st \in Issuing /\ issuing' = [issuing EXCEPT ![s] = st]
      /\ st.step = "resolve" /\ st.proof = p
      /\ st.intent = issuing[s].intent /\ st.scope = issuing[s].scope
      /\ st.asked = issuing[s].asked /\ st.approved = issuing[s].approved
      /\ st.evidenced = issuing[s].evidenced /\ st.stale = issuing[s].stale
      /\ st.seen = issuing[s].seen /\ st.seenActive = issuing[s].seenActive
      /\ st.key = issuing[s].key /\ st.dark = issuing[s].dark
    BY <1>0 DEF InsertRequested, Issuing, IssuanceInv, TypeOK
<1>4. /\ issuing' \in [Sessions -> Issuing] /\ issuing'[s] = st
      /\ \A z \in Sessions : z # s => issuing'[z] = issuing[z]
    BY <1>3 DEF IssuanceInv, TypeOK
<1>. HIDE DEF st, r
<1>5. \A q \in Proofs : /\ proof[q].status \in ActiveStatus
                        /\ proof[q].intent = issuing[s].intent /\ proof[q].scope = issuing[s].scope
                        => q = issuing[s].stale
    BY DEF InsertRequested, IndexAdmits, Slot
<1>6. \A z \in Sessions : Signing(issuing[z]) =>
        /\ issuing[z].proof \in Proofs \ {p}
        /\ proof[issuing[z].proof].status = "requested"
    BY <1>0, Asked DEF SlotSound
\* Another session that signs in this slot would be in the way of the INSERT.
<1>7. ASSUME NEW z \in Sessions, Signing(issuing[z]), issuing[z].intent = issuing[s].intent,
             issuing[z].scope = issuing[s].scope
      PROVE  FALSE
    <2>1. issuing[z].proof = issuing[s].stale /\ proof[issuing[z].proof].status = "requested"
        BY <1>5, <1>6, <1>7, Asked DEF SlotSound, ActiveStatus
    <2>2. issuing[s].stale # NoProof
        BY <1>6, <1>7, <2>1 DEF IssuanceAssumption
    <2>. QED  BY <2>1, <2>2, Asked DEF StaleSound
<1>8. ASSUME NEW z \in Sessions, z # s
      PROVE  (ReadsSound(issuing[z]) /\ KeySound(issuing[z])
                /\ StaleSound(issuing[z]) /\ SlotSound(issuing[z]))'
    <2>1. Signing(issuing[z]) => \A q \in Proofs :
            /\ proof'[q].status \in ActiveStatus
            /\ proof'[q].intent = issuing[z].intent /\ proof'[q].scope = issuing[z].scope
            => q \in {issuing[z].proof, issuing[z].stale}
        BY <1>1, <1>2, <1>7, Asked DEF SlotSound
    <2>2. \A q \in Proofs : proof[q].status \in {"issued", "expired"} => proof'[q] = proof[q]
        BY <1>0, <1>2
    <2>3. Signing(issuing[z]) => /\ proof'[issuing[z].proof] = proof[issuing[z].proof]
                                 /\ proof[issuing[z].proof].status = "requested"
        BY <1>2, <1>6
    <2>4. issuing'[z] = issuing[z]
        BY <1>4, <1>8
    <2>. QED  BY <1>0, <2>1, <2>2, <2>3, <2>4, BystanderSound
<1>9. (ReadsSound(issuing[s]) /\ KeySound(issuing[s])
          /\ StaleSound(issuing[s]) /\ SlotSound(issuing[s]))'
    <2>1. (ReadsSound(issuing[s]) /\ KeySound(issuing[s]))'
        <3>1. EnoughEvidence(issuing[s].intent, issuing[s].asked)'
            <4>1. /\ issuing'[s].intent = issuing[s].intent /\ issuing'[s].asked = issuing[s].asked
                  /\ EnoughEvidence(issuing[s].intent, issuing[s].asked)
                BY <1>0, <1>3, <1>4, Asked DEF ReadsSound
            <4>. QED  BY <1>0, <4>1 DEF EnoughEvidence, CurrentEvidence
        <3>2. ReadsSound(issuing[s])'
            BY <1>0, <1>3, <1>4, <3>1, Asked DEF ReadsSound
        <3>3. KeySound(issuing[s])'
            BY <1>0, <1>3, <1>4, Asked DEF KeySound
        <3>. QED  BY <3>2, <3>3
    <2>2. StaleSound(issuing[s])'
        BY <1>0, <1>2, <1>3, <1>4, Asked, IssuingFields DEF StaleSound
    <2>3. SlotSound(issuing[s])'
        <3>1. /\ issuing'[s].proof = p /\ issuing'[s].step = "resolve"
              /\ issuing'[s].approved /\ issuing'[s].evidenced
              /\ issuing'[s].intent = issuing[s].intent /\ issuing'[s].scope = issuing[s].scope
              /\ issuing'[s].asked = issuing[s].asked /\ issuing'[s].stale = issuing[s].stale
            BY <1>0, <1>3, <1>4
        <3>2. \A q \in Proofs :
                /\ proof'[q].status \in ActiveStatus
                /\ proof'[q].intent = issuing[s].intent /\ proof'[q].scope = issuing[s].scope
                => q \in {p, issuing[s].stale}
            BY <1>2, <1>5
        <3>3. /\ proof'[p].status = "requested" /\ proof'[p].intent = issuing[s].intent
              /\ proof'[p].scope = issuing[s].scope /\ proof'[p].asked = issuing[s].asked
            BY <1>1, <1>2
        <3>. QED  BY <1>0, <3>1, <3>2, <3>3 DEF SlotSound, Signing
    <2>. QED  BY <2>1, <2>2, <2>3
<1>10. OneSignerPerRow'
    BY <1>3, <1>4, <1>6 DEF IssuanceInv, OneSignerPerRow, Signing
<1>11. RequestedInFlight'
    <2>. SUFFICES ASSUME NEW q \in Proofs, proof'[q].status = "requested"
                  PROVE  \E z \in Sessions : /\ issuing'[z].proof = q
                                             /\ issuing'[z].step \in {"resolve", "sign"}
        BY DEF RequestedInFlight
    <2>1. CASE q = p
        BY <1>3, <1>4, <2>1
    <2>2. CASE q # p
        <3>1. PICK z \in Sessions : issuing[z].proof = q /\ issuing[z].step \in {"resolve", "sign"}
            BY <1>2, <2>2 DEF IssuanceInv, RequestedInFlight
        <3>. QED  BY <1>0, <1>4, <3>1
    <2>. QED  BY <2>1, <2>2
<1>12. \A q \in Proofs : proof'[q].status \in {"issued", "expired"} => proof'[q] = proof[q]
    BY <1>1, <1>2
<1>13. ASSUME NEW q \in Proofs  PROVE RowSound(q)'
    BY <1>0, <1>12, RowStays DEF IssuanceInv, RowSound, EverIssued
<1>14. OneIssued' /\ OneValidProof'
    BY <1>12 DEF IssuanceInv, OneIssued, OneValidProof, EverIssued
<1>15. TypeOK' /\ BallotSound'
    BY <1>0, <1>2, <1>4 DEF IssuanceInv, TypeOK, BallotSound
<1>. QED  BY <1>8, <1>9, <1>10, <1>11, <1>13, <1>14, <1>15 DEF IssuanceInv

-----------------------------------------------------------------------------
(* The invariant *)

LEMMA IssuanceInvStep ==
    ASSUME IssuanceInv, IssuanceAssumption, [Next]_vars
    PROVE  IssuanceInv'
<1>1. ASSUME NEW s \in Sessions, Read(s)  PROVE IssuanceInv'
    <2>1. CASE Replay(s)
        BY <2>1, EndStep DEF Replay, Signing
    <2>. QED  BY <1>1, <2>1, AskKeeps, SelectApprovalKeeps, SelectEvidenceKeeps, FindNoneKeeps,
                 FindOverdueKeeps DEF Read
<1>2. ASSUME NEW s \in Sessions, Write(s)  PROVE IssuanceInv'
    <2>1. CASE ConflictInsert(s)
        BY <2>1, EndStep DEF ConflictInsert, Signing
    <2>2. CASE RefuseKey(s)
        BY <2>2, SettleKeeps DEF RefuseKey, Signing
    <2>3. CASE CommitIssued(s)
        <3>1. issuing[s].key \in Keys \cup {NoKey} /\ now \in Nat
            BY Asked, IssuingFields DEF IssuanceInv, TypeOK
        <3>. QED  BY <2>3, <3>1, SettleKeeps DEF CommitIssued, Signing
    <2>4. CASE CommitFailed(s)
        <3>1. issuing[s].key \in Keys \cup {NoKey}
            BY Asked, IssuingFields
        <3>. QED  BY <2>4, <3>1, SettleKeeps DEF CommitFailed, Signing
    <2>. QED  BY <1>2, <2>1, <2>2, <2>3, <2>4, InsertRejectedKeeps, InsertRequestedKeeps,
                 ResolveKeyKeeps DEF Write
<1>3. ASSUME Surroundings  PROVE IssuanceInv'
    BY <1>3, DecideOrExpireKeeps, RegisterEvidenceKeeps, ActivateKeyKeeps, QuietKeeps,
       ExpireOnReadKeeps DEF Surroundings
<1>. QED  BY <1>1, <1>2, <1>3, AbortKeeps, QuietKeeps DEF Next

LEMMA IssuanceInvInit ==
    ASSUME IssuanceAssumption, Init
    PROVE  IssuanceInv
<1>1. NoRow \in IssuedProof /\ NoRow.status = "none"
    BY DEF NoRow, IssuedProof
<1>2. TypeOK
    BY <1>1, IdleFacts DEF Init, TypeOK, Ballot!BallotInit, EvidenceObject
<1>3. BallotSound
    BY DEF Init, BallotSound, Ballot!BallotInit
<1>4. \A s \in Sessions : /\ ReadsSound(issuing[s]) /\ KeySound(issuing[s])
                          /\ StaleSound(issuing[s]) /\ SlotSound(issuing[s])
    BY IdleFacts DEF Init, ReadsSound, KeySound, StaleSound, SlotSound
<1>5. \A p \in Proofs : RowSound(p)
    BY <1>1 DEF Init, RowSound, EverIssued
<1>6. OneIssued /\ OneValidProof /\ RequestedInFlight /\ OneSignerPerRow
    BY <1>1, IdleFacts DEF Init, OneIssued, OneValidProof, EverIssued, RequestedInFlight,
                           OneSignerPerRow
<1>. QED  BY <1>2, <1>3, <1>4, <1>5, <1>6 DEF IssuanceInv

LEMMA IssuanceInvHolds == Spec => []IssuanceInv
<1>1. Init => IssuanceInv
    BY IssuanceInvInit, IssuanceAssumption
<1>2. IssuanceInv /\ [Next]_vars => IssuanceInv'
    BY IssuanceInvStep, IssuanceAssumption
<1>. QED  BY <1>1, <1>2, PTL DEF Spec

-----------------------------------------------------------------------------
(* The theorems *)

\* The tables and every session of ProofIssuance keep their types.
THEOREM TypeCorrect == Spec => []TypeOK
<1>1. IssuanceInv => TypeOK
    BY DEF IssuanceInv
<1>. QED  BY <1>1, IssuanceInvHolds, PTL

\* issue_proof never issues a proof without a permitting policy and a quorum
\* of eligible approvals, however decisions, expiries and retries overlap.
THEOREM IssuedOnQuorum == Spec => []IssuedBehindQuorum
<1>1. IssuanceInv => IssuedBehindQuorum
    <2>. SUFFICES ASSUME IssuanceInv, NEW p \in Proofs, EverIssued(p)
                  PROVE  /\ proof[p].intent \in Permitted
                         /\ Ballot!Quorum(proof[p].intent, decisions[proof[p].intent])
                         /\ Ballot!Approvers(decisions[proof[p].intent])
                              \subseteq Eligible[proof[p].intent]
        BY DEF IssuedBehindQuorum
    <2>1. /\ proof[p].intent \in Permitted /\ proof[p].intent \in Intents
          /\ Ballot!Quorum(proof[p].intent, decisions[proof[p].intent])
        BY IssuanceAssumption DEF IssuanceInv, RowSound, IssuanceAssumption
    <2>2. \A d \in decisions[proof[p].intent] : d.by \in Eligible[proof[p].intent]
        BY <2>1 DEF IssuanceInv, BallotSound
    <2>. QED  BY <2>1, <2>2 DEF Ballot!Approvers
<1>. QED  BY <1>1, IssuanceInvHolds, PTL

\* issue_proof never issues a proof on evidence that had expired before the
\* request for the proof arrived.
THEOREM IssuedOnEvidence == Spec => []EvidenceWasCurrent
<1>1. IssuanceInv => EvidenceWasCurrent
    BY DEF IssuanceInv, RowSound, EvidenceWasCurrent, EnoughEvidence, CurrentEvidence
<1>. QED  BY <1>1, IssuanceInvHolds, PTL

\* The partial unique index and lazy expiry together leave one proof of a slot
\* valid at a time, through races, renewals, failures and crashes.
THEOREM OneValid == Spec => []OneValidProof
<1>1. IssuanceInv => OneValidProof
    BY DEF IssuanceInv
<1>. QED  BY <1>1, IssuanceInvHolds, PTL

\* No requested row outlives the session that inserted it.
THEOREM NoOrphanRequest == Spec => []RequestedInFlight
<1>1. IssuanceInv => RequestedInFlight
    BY DEF IssuanceInv
<1>. QED  BY <1>1, IssuanceInvHolds, PTL

\* resolve_key never hands out a key that was not active at any time since the
\* request arrived, stale copies included.
THEOREM KeysWereActive == Spec => []KeyWasActive
<1>1. IssuanceInv => KeyWasActive
    BY DEF IssuanceInv, KeySound, KeyWasActive
<1>. QED  BY <1>1, IssuanceInvHolds, PTL
=============================================================================
