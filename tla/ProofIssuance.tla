----------------------------- MODULE ProofIssuance -----------------------------
(***************************************************************************)
(* Proof issuance: src/app/services/issuance.py, with what it reads of     *)
(* approvals (ApprovalBallot), evidence (services/evidence.py) and signing *)
(* keys (services/signing.py).                                             *)
(*                                                                         *)
(* issue_proof is one database session.  It SELECTs the approval request,  *)
(* the evidence and an issued proof of the same slot one after the other,  *)
(* and other sessions commit in between.  It then inserts its proof as     *)
(* requested, without committing, and signs; the commit that follows makes *)
(* the proof issued, rejected or failed.  Nobody reads a requested row but *)
(* the partial unique index, so the table holds it from the INSERT on.     *)
(*                                                                         *)
(* Left out: approval_state and evidence_state of the intent, which the    *)
(* handler recomputes from the rows and never trusts, and the expired flag *)
(* of evidence, which says nothing that expires_at does not say.           *)
(***************************************************************************)
EXTENDS Naturals, FiniteSets

CONSTANTS
    Sessions,       \* database sessions that issue proofs
    Intents,        \* Action Intents
    Permitted,      \* intents with a valid contract that policy does not deny
    Scopes,         \* (proof_kind, audience, scope_hash) of a proof
    Principals, Eligible, RequiredCount,    \* see ApprovalBallot
    MinimumCount,   \* evidence_requirement.minimum_count, 0: no requirement
    EvidenceIds,    \* evidence objects of an allowed type
    Keys,           \* signing keys of the tenant
    Proofs,         \* issued_proof_id values
    MaxTtl,         \* settings.proof_max_ttl_seconds
    MaxTime,        \* bound on the clock
    NoIntent, NoScope, NoProof, NoKey

ASSUME IssuanceAssumption ==
    /\ Permitted \subseteq Intents
    /\ IsFiniteSet(Principals)
    /\ IsFiniteSet(EvidenceIds)
    /\ Eligible \in [Intents -> SUBSET Principals]
    /\ RequiredCount \in [Intents -> Nat]
    /\ MinimumCount \in [Intents -> Nat]
    /\ MaxTtl \in Nat \ {0}
    /\ MaxTime \in Nat
    /\ NoIntent \notin Intents
    /\ NoScope \notin Scopes
    /\ NoProof \notin Proofs
    /\ NoKey \notin Keys

VARIABLES
    status,         \* approval_requests.status
    decisions,      \* approval_decisions
    evidence,       \* evidence_objects: the intent and expires_at
    activeKeys,     \* signing_key_references with status active
    proof,          \* issued_proofs
    issuing,        \* what each session has read and is about to write
    now             \* the clock, utc_now()

vars == <<status, decisions, evidence, activeKeys, proof, issuing, now>>

Ballot == INSTANCE ApprovalBallot

-----------------------------------------------------------------------------

\* The code writes no "revoked".
ProofIssuanceStatus == {"requested", "issued", "rejected", "failed", "expired"}

\* The statuses uq_issued_proofs_active_idempotency covers.
ActiveStatus == {"requested", "issued"}

\* asked: when the request that wrote the row arrived; issued: issued_at.
IssuedProof ==
    [status : ProofIssuanceStatus \cup {"none"}, intent : Intents \cup {NoIntent},
     scope : Scopes \cup {NoScope}, key : Keys \cup {NoKey},
     asked : Nat, issued : Nat, expires : Nat]

NoRow == [status |-> "none", intent |-> NoIntent, scope |-> NoScope, key |-> NoKey,
          asked |-> 0, issued |-> 0, expires |-> 0]

\* expires 0: no expires_at; intent NoIntent: not registered yet.
EvidenceObject == [intent : Intents \cup {NoIntent}, expires : Nat]

\* approved, late, evidenced: what the session read; stale: the overdue proof
\* it is about to mark expired; seen: the key loaded with that proof, and
\* whether it was active then; dark: the keys that have not been active since
\* the request arrived.
Issuing ==
    [step : {"idle", "approval", "evidence", "search", "insert", "resolve", "sign"},
     intent : Intents \cup {NoIntent}, scope : Scopes \cup {NoScope}, asked : Nat,
     approved : BOOLEAN, late : BOOLEAN, evidenced : BOOLEAN,
     stale : Proofs \cup {NoProof}, seen : Keys \cup {NoKey}, seenActive : BOOLEAN,
     proof : Proofs \cup {NoProof}, key : Keys \cup {NoKey}, dark : SUBSET Keys]

Idle == [step |-> "idle", intent |-> NoIntent, scope |-> NoScope, asked |-> 0,
         approved |-> FALSE, late |-> FALSE, evidenced |-> FALSE,
         stale |-> NoProof, seen |-> NoKey, seenActive |-> FALSE,
         proof |-> NoProof, key |-> NoKey, dark |-> {}]

TypeOK ==
    /\ status \in [Intents -> {"none", "pending", "satisfied", "rejected", "expired"}]
    /\ decisions \in [Intents -> SUBSET Ballot!Decision]
    /\ evidence \in [EvidenceIds -> EvidenceObject]
    /\ activeKeys \subseteq Keys
    /\ proof \in [Proofs -> IssuedProof]
    /\ issuing \in [Sessions -> Issuing]
    /\ now \in Nat

Init ==
    /\ Ballot!BallotInit
    /\ evidence = [e \in EvidenceIds |-> [intent |-> NoIntent, expires |-> 0]]
    /\ activeKeys = {}
    /\ proof = [p \in Proofs |-> NoRow]
    /\ issuing = [s \in Sessions |-> Idle]
    /\ now = 0

-----------------------------------------------------------------------------
(* Helpers *)

Moves(s, step) == issuing' = [issuing EXCEPT ![s].step = step]
Ends(s) == issuing' = [issuing EXCEPT ![s] = Idle]

\* EvidenceService.synchronize_action_intent_state: the evidence that counts
CurrentEvidenceAny(i, t) == {e \in EvidenceIds : evidence[e].intent = i}
CurrentEvidence(i, t) ==
    {e \in EvidenceIds : /\ evidence[e].intent = i
                         /\ evidence[e].expires = 0 \/ evidence[e].expires > t}

\* _refresh_if_expired
Overdue(p) == proof[p].status = "issued" /\ proof[p].expires <= now

Slot(s) == {p \in Proofs : /\ proof[p].intent = issuing[s].intent
                           /\ proof[p].scope = issuing[s].scope}

\* The rows of the session's slot that _find_existing_proof SELECTs
IssuedInSlot(s) == {p \in Slot(s) : proof[p].status = "issued"}

\* _evaluate_eligibility
EligibleUnapproved(s) == issuing[s].intent \in Permitted /\ issuing[s].evidenced
EligibleToIssue(s) ==
    /\ issuing[s].intent \in Permitted
    /\ issuing[s].approved
    /\ issuing[s].evidenced

\* Another session's INSERT into the slot is not decided yet: the index makes
\* this one wait.
SlotTaken(s) == \E p \in Slot(s) : proof[p].status = "requested"

\* uq_issued_proofs_active_idempotency admits the INSERT.  The flush sends the
\* UPDATE that expires the stale proof first.
IndexAdmitsAlways(s) == TRUE
IndexAdmits(s) == \A p \in Slot(s) : proof[p].status \in ActiveStatus => p = issuing[s].stale

\* The UPDATE of a session that inserted its proof locks the stale one.
RowLocked(p) ==
    /\ p \in Proofs
    /\ \E s \in Sessions : issuing[s].step \in {"resolve", "sign"} /\ issuing[s].stale = p

\* The stale proof as the commit leaves it.
WithoutStale(s) ==
    [p \in Proofs |-> IF p = issuing[s].stale THEN [proof[p] EXCEPT !.status = "expired"]
                      ELSE proof[p]]

\* The session's own row settled, and the stale one with it.
Settles(s, verdict, k, t) ==
    proof' = [WithoutStale(s) EXCEPT ![issuing[s].proof].status = verdict,
                                     ![issuing[s].proof].key = k,
                                     ![issuing[s].proof].issued = t]

NewProof(s, verdict) ==
    [NoRow EXCEPT !.status = verdict, !.intent = issuing[s].intent,
                  !.scope = issuing[s].scope]

-----------------------------------------------------------------------------
(* issue_proof.  Its API handler reads the intent first (get_record), which  *)
(* may expire the approval request: a step of the ballot.                    *)

Ask(s, i, x) ==
    /\ issuing[s].step = "idle"
    /\ status[i] # "none" \/ RequiredCount[i] = 0
    /\ issuing' = [issuing EXCEPT ![s] =
            [Idle EXCEPT !.step = "approval", !.intent = i, !.scope = x,
                         !.asked = now, !.dark = Keys \ activeKeys]]
    /\ UNCHANGED <<status, decisions, evidence, activeKeys, proof, now>>

\* ApprovalService.synchronize_action_intent_state.  A pending request may
\* turn out to be past its expires_at.
SelectApproval(s) ==
    /\ issuing[s].step = "approval"
    /\ LET i == issuing[s].intent IN
       \E late \in IF status[i] = "pending" THEN BOOLEAN ELSE {FALSE} :
          issuing' = [issuing EXCEPT ![s].step = "evidence", ![s].late = late,
                ![s].approved = (RequiredCount[i] = 0 \/ status[i] = "satisfied")]
    /\ UNCHANGED <<status, decisions, evidence, activeKeys, proof, now>>

SelectEvidence(s) ==
    /\ issuing[s].step = "evidence"
    /\ LET i == issuing[s].intent IN
       issuing' = [issuing EXCEPT ![s].step = "search",
            ![s].evidenced = (MinimumCount[i] <= Cardinality(CurrentEvidence(i, now)))]
    /\ UNCHANGED <<status, decisions, evidence, activeKeys, proof, now>>

\* _find_existing_proof finds a valid proof: an idempotent replay, and nothing
\* is committed.
Replay(s) ==
    /\ issuing[s].step = "search"
    /\ \E p \in IssuedInSlot(s) : ~Overdue(p)
    /\ Ends(s)
    /\ UNCHANGED <<status, decisions, evidence, activeKeys, proof, now>>

FindNone(s) ==
    /\ issuing[s].step = "search"
    /\ IssuedInSlot(s) = {}
    /\ Moves(s, "insert")
    /\ UNCHANGED <<status, decisions, evidence, activeKeys, proof, now>>

\* It finds one that is overdue, and its key with it (selectinload).
FindOverdue(s, p) ==
    /\ issuing[s].step = "search"
    /\ p \in IssuedInSlot(s)
    /\ Overdue(p)
    /\ issuing' = [issuing EXCEPT ![s].step = "insert", ![s].stale = p,
            ![s].seen = proof[p].key, ![s].seenActive = (proof[p].key \in activeKeys)]
    /\ UNCHANGED <<status, decisions, evidence, activeKeys, proof, now>>

\* Not eligible: a rejected record, committed with what the session refreshed.
InsertRejected(s, p) ==
    /\ issuing[s].step = "insert"
    /\ ~EligibleToIssue(s)
    /\ proof[p].status = "none"
    /\ ~RowLocked(issuing[s].stale)
    /\ proof' = [WithoutStale(s) EXCEPT ![p] = NewProof(s, "rejected")]
    /\ status' = IF issuing[s].late
                 THEN [status EXCEPT ![issuing[s].intent] = "expired"] ELSE status
    /\ Ends(s)
    /\ UNCHANGED <<decisions, evidence, activeKeys, now>>

\* Eligible: the flush inserts the requested row and holds the slot.
InsertRequested(s, p, ttl) ==
    /\ issuing[s].step = "insert"
    /\ EligibleToIssue(s)
    /\ proof[p].status = "none"
    /\ IndexAdmits(s)
    /\ proof' = [proof EXCEPT ![p] =
            [NewProof(s, "requested") EXCEPT !.asked = issuing[s].asked, !.expires = now + ttl]]
    /\ issuing' = [issuing EXCEPT ![s].step = "resolve", ![s].proof = p]
    /\ UNCHANGED <<status, decisions, evidence, activeKeys, now>>

\* IntegrityError: rollback, then a replay of the winner or an error.
ConflictInsert(s) ==
    /\ issuing[s].step = "insert"
    /\ EligibleToIssue(s)
    /\ ~IndexAdmits(s)
    /\ ~SlotTaken(s)
    /\ Ends(s)
    /\ UNCHANGED <<status, decisions, evidence, activeKeys, proof, now>>

\* SigningService.resolve_key: the key the caller named or an active one of the
\* tenant.  For the named key the session may still hold the object it loaded
\* with the stale proof, and trust the status it had then.
UsableAny(s, k) == TRUE
Usable(s, k) ==
    \/ k \in activeKeys
    \/ k = issuing[s].seen /\ issuing[s].seenActive

ResolveKey(s, k) ==
    /\ issuing[s].step = "resolve"
    /\ Usable(s, k)
    /\ issuing' = [issuing EXCEPT ![s].step = "sign", ![s].key = k]
    /\ UNCHANGED <<status, decisions, evidence, activeKeys, proof, now>>

\* SigningKeyNotFoundError, SigningKeyStateError: no key is active, or the one
\* that the caller named is not, is unknown, or is another tenant's.
RefuseKey(s) ==
    /\ issuing[s].step = "resolve"
    /\ Settles(s, "rejected", NoKey, 0)
    /\ Ends(s)
    /\ UNCHANGED <<status, decisions, evidence, activeKeys, now>>

\* sign_proof and _mark_proof_issued, or the failure of the signing backend.
\* What follows the signature is one commit.
CommitIssued(s) ==
    /\ issuing[s].step = "sign"
    /\ Settles(s, "issued", issuing[s].key, now)
    /\ Ends(s)
    /\ UNCHANGED <<status, decisions, evidence, activeKeys, now>>

CommitFailed(s) ==
    /\ issuing[s].step = "sign"
    /\ Settles(s, "failed", issuing[s].key, 0)
    /\ Ends(s)
    /\ UNCHANGED <<status, decisions, evidence, activeKeys, now>>

-----------------------------------------------------------------------------
(* get_proof and list_proofs: a proof found overdue is marked expired.  Once *)
(* it is overdue nothing else can happen to it, so the SELECT and the commit *)
(* are one step.                                                             *)
ExpireOnRead(p) ==
    /\ Overdue(p)
    /\ ~RowLocked(p)
    /\ proof' = [proof EXCEPT ![p].status = "expired"]
    /\ UNCHANGED <<status, decisions, evidence, activeKeys, issuing, now>>

\* Database.session: rollback.  An INSERT that was not committed is undone.
AbortKeepingRow(s) ==
    /\ issuing[s].step # "idle"
    /\ Ends(s)
    /\ UNCHANGED <<status, decisions, evidence, activeKeys, proof, now>>
Abort(s) ==
    /\ issuing[s].step # "idle"
    /\ proof' = [p \in Proofs |-> IF p = issuing[s].proof THEN NoRow ELSE proof[p]]
    /\ Ends(s)
    /\ UNCHANGED <<status, decisions, evidence, activeKeys, now>>

-----------------------------------------------------------------------------
(* The other services *)

DecideOrExpire ==
    /\ Ballot!BallotNext
    /\ UNCHANGED <<evidence, activeKeys, proof, issuing, now>>

\* register_evidence and upload_evidence, as seen once they are committed
RegisterEvidence(e, i, expires) ==
    /\ evidence[e].intent = NoIntent
    /\ evidence' = [evidence EXCEPT ![e] = [intent |-> i, expires |-> expires]]
    /\ UNCHANGED <<status, decisions, activeKeys, proof, issuing, now>>

\* register_key, activate_key: the key is active from the commit on.
ActivateKey(k) ==
    /\ activeKeys' = activeKeys \cup {k}
    /\ issuing' = [s \in Sessions |-> [issuing[s] EXCEPT !.dark = @ \ {k}]]
    /\ UNCHANGED <<status, decisions, evidence, proof, now>>

SuspendKey(k) ==
    /\ activeKeys' = activeKeys \ {k}
    /\ UNCHANGED <<status, decisions, evidence, proof, issuing, now>>

Tick ==
    /\ now < MaxTime
    /\ now' = now + 1
    /\ UNCHANGED <<status, decisions, evidence, activeKeys, proof, issuing>>

-----------------------------------------------------------------------------

Read(s) ==
    \/ \E i \in Intents, x \in Scopes : Ask(s, i, x)
    \/ SelectApproval(s) \/ SelectEvidence(s)
    \/ Replay(s) \/ FindNone(s) \/ \E p \in Proofs : FindOverdue(s, p)

Write(s) ==
    \/ \E p \in Proofs : InsertRejected(s, p) \/ \E ttl \in 1..MaxTtl : InsertRequested(s, p, ttl)
    \/ ConflictInsert(s) \/ RefuseKey(s) \/ \E k \in Keys : ResolveKey(s, k)
    \/ CommitIssued(s) \/ CommitFailed(s)

Surroundings ==
    \/ DecideOrExpire
    \/ \E e \in EvidenceIds, i \in Intents, t \in 0..MaxTime : RegisterEvidence(e, i, t)
    \/ \E k \in Keys : ActivateKey(k) \/ SuspendKey(k)
    \/ \E p \in Proofs : ExpireOnRead(p)
    \/ Tick

Next == Surroundings \/ \E s \in Sessions : Read(s) \/ Write(s) \/ Abort(s)

Spec == Init /\ [][Next]_vars

-----------------------------------------------------------------------------
(* Properties *)

EverIssued(p) == proof[p].status \in {"issued", "expired"}

\* No proof was ever issued for an intent that policy does not permit or that
\* lacks its quorum of approvals by eligible principals, although the request
\* was read long before the commit and verdicts overwrite each other.
IssuedBehindQuorum ==
    \A p \in Proofs : EverIssued(p) =>
        /\ proof[p].intent \in Permitted
        /\ Ballot!Quorum(proof[p].intent, decisions[proof[p].intent])
        /\ Ballot!Approvers(decisions[proof[p].intent]) \subseteq Eligible[proof[p].intent]

\* No proof was ever issued on evidence that had expired before the request
\* for it arrived.
EvidenceWasCurrent ==
    \A p \in Proofs : EverIssued(p) =>
        MinimumCount[proof[p].intent] <=
            Cardinality({e \in EvidenceIds :
                /\ evidence[e].intent = proof[p].intent
                /\ evidence[e].expires = 0 \/ evidence[e].expires > proof[p].asked})

\* At no time are two proofs of a slot valid: requests that race, renew or
\* retry after a crash get one proof until it expires.
OneValidProof ==
    \A p, q \in Proofs :
        /\ p # q /\ EverIssued(p) /\ EverIssued(q)
        /\ proof[p].intent = proof[q].intent /\ proof[p].scope = proof[q].scope
        => proof[p].expires <= proof[q].issued \/ proof[q].expires <= proof[p].issued

\* A requested row belongs to a request in flight: a crash between the INSERT
\* and the commit does not leave the slot blocked by a row nobody will settle.
RequestedInFlight ==
    \A p \in Proofs : proof[p].status = "requested" =>
        \E s \in Sessions : issuing[s].proof = p /\ issuing[s].step \in {"resolve", "sign"}

\* The key a proof is being signed with was active at some time since the
\* request arrived: a stale copy in the session is never older than that.
KeyWasActive ==
    \A s \in Sessions : issuing[s].key \notin issuing[s].dark

-----------------------------------------------------------------------------
(* Inductive strengthening, used by IssuanceProofs *)

BallotSound ==
    \A i \in Intents :
        /\ status[i] = "satisfied" => Ballot!Quorum(i, decisions[i])
        /\ \A d \in decisions[i] : d.by \in Eligible[i]

EnoughEvidence(i, t) == MinimumCount[i] <= Cardinality(CurrentEvidence(i, t))

Signing(st) == st.step \in {"resolve", "sign"}

\* What a session read is still justified by the tables.
ReadsSound(st) ==
    /\ st.step = "idle" => ~st.approved /\ ~st.evidenced
    /\ st.step # "idle" => st.intent \in Intents
    /\ st.asked <= now
    /\ st.approved => Ballot!Quorum(st.intent, decisions[st.intent])
    /\ st.evidenced => EnoughEvidence(st.intent, st.asked)

KeySound(st) ==
    /\ st.dark \cap activeKeys = {}
    /\ st.seenActive => st.seen \notin st.dark
    /\ st.key \notin st.dark

\* The proof it is about to expire is overdue for good.
StaleSound(st) ==
    st.stale # NoProof =>
        /\ proof[st.stale].status \in {"issued", "expired"}
        /\ proof[st.stale].expires <= now

\* A session that signs holds its slot against everything but the stale proof.
SlotSound(st) ==
    /\ ~Signing(st) => st.proof = NoProof
    /\ Signing(st) =>
          /\ st.proof \in Proofs
          /\ st.intent \in Permitted /\ st.approved /\ st.evidenced
          /\ proof[st.proof].status = "requested"
          /\ proof[st.proof].intent = st.intent
          /\ proof[st.proof].scope = st.scope
          /\ proof[st.proof].asked = st.asked
          /\ \A q \in Proofs :
                /\ proof[q].status \in ActiveStatus
                /\ proof[q].intent = st.intent /\ proof[q].scope = st.scope
                => q \in {st.proof, st.stale}

OneSignerPerRow ==
    \A s, z \in Sessions :
        s # z /\ Signing(issuing[s]) /\ Signing(issuing[z]) => issuing[s].proof # issuing[z].proof

RowSound(p) ==
    /\ EverIssued(p) =>
          /\ proof[p].intent \in Permitted
          /\ Ballot!Quorum(proof[p].intent, decisions[proof[p].intent])
          /\ EnoughEvidence(proof[p].intent, proof[p].asked)
          /\ proof[p].issued <= now
    /\ proof[p].status = "expired" => proof[p].expires <= now

OneIssued ==
    \A p, q \in Proofs :
        /\ proof[p].status = "issued" /\ proof[q].status = "issued"
        /\ proof[p].intent = proof[q].intent /\ proof[p].scope = proof[q].scope
        => p = q

IssuanceInv ==
    /\ TypeOK
    /\ BallotSound
    /\ \A s \in Sessions : /\ ReadsSound(issuing[s]) /\ KeySound(issuing[s])
                           /\ StaleSound(issuing[s]) /\ SlotSound(issuing[s])
    /\ OneSignerPerRow
    /\ \A p \in Proofs : RowSound(p)
    /\ OneIssued
    /\ OneValidProof
    /\ RequestedInFlight
=============================================================================
