---------------------------- MODULE ApprovalsProofs ----------------------------
(***************************************************************************)
(* Proofs about Approvals, for any sets of sessions, intents and           *)
(* principals, any quorum and any clock.                                   *)
(***************************************************************************)
EXTENDS Approvals, FiniteSetTheorems, TLAPS

-----------------------------------------------------------------------------
(* Types of what a session holds *)

LEMMA SessionFields ==
    ASSUME NEW st \in SessionState
    PROVE  /\ st.op \in {"idle", "request", "decide", "refresh", "expire", "intent", "sync"}
           /\ st.op = "idle" <=> st = Idle
           /\ st # Idle => st.intent \in Intents
           /\ st.op = "request" => /\ st.by \in Principals \cup {NoPrincipal}
                                   /\ st.decision \in {"approve", "reject"}
           /\ st.op = "decide" => /\ st.by \in Principals
                                  /\ st.decision \in {"approve", "reject"}
                                  /\ st.seen \subseteq ApprovalDecision
           /\ st.op \in {"decide", "refresh", "expire", "intent", "sync"} =>
                st.mirror \in ApprovalState
           /\ st.op = "sync" => /\ st.loaded \in ApprovalRequestStatus
                                /\ st.own \in ApprovalRequestStatus
    BY DEF SessionState, Idle

LEMMA IdleType == Idle \in SessionState /\ Idle.op = "idle"
    BY DEF SessionState, Idle

\* More decisions never mean fewer approvals.
LEMMA QuorumGrows ==
    ASSUME ApprovalAssumption, NEW i \in Intents, NEW D \in SUBSET ApprovalDecision,
           NEW E \in SUBSET ApprovalDecision, D \subseteq E, HasQuorum(i, D)
    PROVE  HasQuorum(i, E)
<1>1. ApprovedBy(E) \subseteq Principals /\ ApprovedBy(D) \subseteq ApprovedBy(E)
    BY DEF ApprovedBy, ApprovalDecision
<1>2. IsFiniteSet(ApprovedBy(E))
    BY <1>1, FS_Subset DEF ApprovalAssumption
<1>3. Cardinality(ApprovedBy(D)) <= Cardinality(ApprovedBy(E)) /\ IsFiniteSet(ApprovedBy(D))
    BY <1>1, <1>2, FS_Subset
<1>4. Cardinality(ApprovedBy(D)) \in Nat /\ Cardinality(ApprovedBy(E)) \in Nat
    BY <1>2, <1>3, FS_CardinalityType
<1>. QED  BY <1>3, <1>4 DEF HasQuorum, ApprovalAssumption

-----------------------------------------------------------------------------
(* The two kinds of steps *)

\* A step that only loads or ends a session.
LEMMA LoadStep ==
    ASSUME ApprovalInv, NEW s \in Sessions, NEW st \in SessionState, Grounded(st),
           session' = [session EXCEPT ![s] = st],
           UNCHANGED <<status, expiresAt, decisions, approvalState, now>>
    PROVE  ApprovalInv'
<1>1. TypeOK' /\ QuorumBehindSatisfied' /\ OneDecisionPerPrincipal'
      /\ EligibleDecisions' /\ RequestExists'
    BY DEF ApprovalInv, TypeOK, QuorumBehindSatisfied, OneDecisionPerPrincipal,
           EligibleDecisions, RequestExists
<1>2. ASSUME NEW z \in Sessions  PROVE Grounded(session[z])'
    BY DEF ApprovalInv, TypeOK, Grounded, HasQuorum
<1>. QED  BY <1>1, <1>2 DEF ApprovalInv

LEMMA EndStep ==
    ASSUME ApprovalInv, NEW s \in Sessions, Ends(s),
           UNCHANGED <<status, expiresAt, decisions, approvalState, now>>
    PROVE  ApprovalInv'
<1>1. Grounded(Idle)
    BY IdleType DEF Grounded
<1>. QED  BY <1>1, IdleType, LoadStep DEF Ends

\* A commit that writes the request of intent i, its decisions and its mirror.
LEMMA WriteStep ==
    ASSUME ApprovalInv, ApprovalAssumption, NEW s \in Sessions, NEW st \in SessionState,
           NEW i \in Intents, status[i] # "none",
           st = Idle \/ (st.op = "refresh" /\ st.intent = i),
           NEW D \in SUBSET ApprovalDecision, decisions[i] \subseteq D,
           \A d, e \in D : d.by = e.by => d = e,
           \A d \in D : d.by \in Eligible[i],
           NEW v \in ApprovalRequestStatus, NEW m \in ApprovalRequestStatus,
           v = "satisfied" \/ m = "satisfied" => HasQuorum(i, D),
           status' = [status EXCEPT ![i] = v],
           decisions' = [decisions EXCEPT ![i] = D],
           approvalState' = [approvalState EXCEPT ![i] = m],
           session' = [session EXCEPT ![s] = st],
           UNCHANGED <<expiresAt, now>>
    PROVE  ApprovalInv'
<1>0. /\ v # "none" /\ m \notin {"none", "not_required"} /\ v \in ApprovalRequestStatus \cup {"none"}
      /\ m \in ApprovalState
    BY DEF ApprovalRequestStatus, ApprovalState
<1>1. TypeOK'
    BY <1>0 DEF ApprovalInv, TypeOK
<1>2. QuorumBehindSatisfied'
    <2>1. ApprovedBy(D) \subseteq Eligible[i]
        BY DEF ApprovedBy
    <2>. QED  BY <2>1 DEF ApprovalInv, TypeOK, QuorumBehindSatisfied, HasQuorum
<1>3. OneDecisionPerPrincipal' /\ EligibleDecisions'
    BY DEF ApprovalInv, TypeOK, OneDecisionPerPrincipal, EligibleDecisions
<1>4. RequestExists'
    BY <1>0 DEF ApprovalInv, TypeOK, RequestExists
<1>5. ASSUME NEW z \in Sessions  PROVE Grounded(session[z])'
    <2>1. CASE z = s
        BY <2>1, <1>0, IdleType DEF ApprovalInv, TypeOK, Grounded
    <2>2. CASE z # s
        <3>. DEFINE t == session[z]
        <3>1. session'[z] = t /\ t \in SessionState /\ Grounded(t)
            BY <2>2 DEF ApprovalInv, TypeOK
        <3>2. t # Idle => status'[t.intent] # "none"
            BY <3>1, <1>0, SessionFields DEF Grounded, ApprovalInv, TypeOK
        <3>3. t.op = "decide" => t.seen \subseteq decisions'[t.intent]
            BY <3>1, SessionFields, IdleType DEF Grounded, ApprovalInv, TypeOK
        <3>4. t.op = "sync" /\ t.own = "satisfied" =>
                HasQuorum(t.intent, decisions[t.intent])'
            <4>. SUFFICES ASSUME t.op = "sync", t.own = "satisfied"
                          PROVE  HasQuorum(t.intent, decisions'[t.intent])
                BY <3>1 DEF HasQuorum
            <4>1. t.intent \in Intents /\ HasQuorum(t.intent, decisions[t.intent])
                BY <3>1, SessionFields, IdleType DEF Grounded
            <4>2. /\ decisions[t.intent] \in SUBSET ApprovalDecision
                  /\ decisions'[t.intent] \in SUBSET ApprovalDecision
                  /\ decisions[t.intent] \subseteq decisions'[t.intent]
                BY <4>1 DEF ApprovalInv, TypeOK
            <4>. QED  BY <4>1, <4>2, QuorumGrows
        <3>. QED  BY <3>1, <3>2, <3>3, <3>4 DEF Grounded, HasQuorum
    <2>. QED  BY <2>1, <2>2
<1>. QED  BY <1>1, <1>2, <1>3, <1>4, <1>5 DEF ApprovalInv
-----------------------------------------------------------------------------
(* The invariant, action by action *)

\* What a decision may rely on when it is committed, although the session
\* counted decisions it had loaded earlier.
LEMMA DecisionFacts ==
    ASSUME ApprovalInv, ApprovalAssumption, NEW s \in Sessions, session[s].op = "decide",
           NEW i, i = session[s].intent,
           NEW d, d = [by |-> session[s].by, decision |-> session[s].decision],
           NEW own, own = Refreshed(i, StatusAfterDecision(i, session[s].seen, d))
    PROVE  /\ i \in Intents /\ status[i] # "none"
           /\ d \in ApprovalDecision /\ d.by \in Eligible[i]
           /\ decisions[i] \cup {d} \in SUBSET ApprovalDecision
           /\ own \in ApprovalRequestStatus
           /\ own = "rejected" => d.decision = "reject"
           /\ own = "satisfied" => d.decision = "approve" /\ HasQuorum(i, decisions[i] \cup {d})
<1>. DEFINE st == session[s]
            after == StatusAfterDecision(i, st.seen, d)
<1>1. /\ st \in SessionState /\ st # Idle /\ i \in Intents
      /\ st.by \in Principals /\ st.decision \in {"approve", "reject"}
      /\ st.seen \subseteq ApprovalDecision
    BY SessionFields, IdleType DEF ApprovalInv, TypeOK
<1>2. status[i] # "none" /\ st.by \in Eligible[i] /\ st.seen \subseteq decisions[i]
    BY <1>1 DEF ApprovalInv, Grounded
<1>3. d \in ApprovalDecision /\ d.by \in Eligible[i]
    BY <1>1, <1>2 DEF ApprovalDecision
<1>4. decisions[i] \cup {d} \in SUBSET ApprovalDecision
    BY <1>1, <1>3 DEF ApprovalInv, TypeOK
<1>5. /\ after \in {"rejected", "satisfied", "pending"}
      /\ after = "rejected" => d.decision = "reject"
      /\ after = "satisfied" => d.decision = "approve" /\ HasQuorum(i, st.seen \cup {d})
    BY <1>1 DEF StatusAfterDecision, HasQuorum
<1>6. after = "satisfied" => HasQuorum(i, decisions[i] \cup {d})
    <2>1. st.seen \cup {d} \in SUBSET ApprovalDecision /\ st.seen \cup {d} \subseteq decisions[i] \cup {d}
        BY <1>1, <1>2, <1>3
    <2>. QED  BY <1>1, <1>4, <1>5, <2>1, QuorumGrows
<1>7. own \in {after, "expired"}
    BY DEF Refreshed
<1>. QED  BY <1>1, <1>2, <1>3, <1>4, <1>5, <1>6, <1>7 DEF ApprovalRequestStatus

LEMMA InitializeKeeps ==
    ASSUME ApprovalInv, ApprovalAssumption, NEW i \in Intents, InitializeForActionIntent(i)
    PROVE  ApprovalInv'
<1>1. TypeOK'
    BY DEF InitializeForActionIntent, ApprovalInv, TypeOK, ApprovalAssumption,
           ApprovalState, ApprovalRequestStatus
<1>2. QuorumBehindSatisfied' /\ OneDecisionPerPrincipal' /\ EligibleDecisions'
    BY DEF InitializeForActionIntent, ApprovalInv, TypeOK, QuorumBehindSatisfied,
           OneDecisionPerPrincipal, EligibleDecisions
<1>3. RequestExists'
    BY DEF InitializeForActionIntent, ApprovalInv, TypeOK, RequestExists
<1>4. ASSUME NEW z \in Sessions  PROVE Grounded(session[z])'
    <2>1. session[z] # Idle => session[z].intent \in Intents
        BY SessionFields DEF ApprovalInv, TypeOK
    <2>2. session[z] # Idle => status'[session[z].intent] # "none"
        BY <2>1 DEF InitializeForActionIntent, ApprovalInv, TypeOK, Grounded
    <2>3. Grounded(session[z]) /\ session' = session /\ decisions' = decisions
        BY DEF InitializeForActionIntent, ApprovalInv
    <2>. QED  BY <2>2, <2>3 DEF Grounded, HasQuorum
<1>. QED  BY <1>1, <1>2, <1>3, <1>4 DEF ApprovalInv

LEMMA SelectRequestKeeps ==
    ASSUME ApprovalInv, NEW s \in Sessions, NEW i \in Intents,
           NEW a \in Principals \cup {NoPrincipal}, NEW d \in {"approve", "reject"},
           SelectRequest(s, i, a, d)
    PROVE  ApprovalInv'
<1>. DEFINE st == [op |-> "request", intent |-> i, by |-> a, decision |-> d]
<1>1. st \in SessionState
    BY DEF SessionState
<1>2. Grounded(st)
    BY DEF Grounded, SelectRequest, ValidActor
<1>. QED  BY <1>1, <1>2, LoadStep DEF SelectRequest, Loads

LEMMA SelectRelatedKeeps ==
    ASSUME ApprovalInv, NEW s \in Sessions, SelectRelated(s)
    PROVE  ApprovalInv'
<1>. DEFINE i == session[s].intent
            a == session[s].by
            expire == [op |-> "expire", intent |-> i, mirror |-> approvalState[i]]
            decide == [op |-> "decide", intent |-> i, by |-> a,
                       decision |-> session[s].decision,
                       seen |-> decisions[i], mirror |-> approvalState[i]]
<1>0. /\ session[s] \in SessionState /\ session[s].op = "request" /\ session[s] # Idle
      /\ i \in Intents /\ status[i] # "none"
      /\ UNCHANGED <<status, expiresAt, decisions, approvalState, now>>
    BY SessionFields, IdleType DEF SelectRelated, ApprovalInv, TypeOK, Grounded
<1>1. CASE Loads(s, expire)
    <2>1. expire \in SessionState
        BY <1>0 DEF SessionState, ApprovalInv, TypeOK
    <2>2. Grounded(expire)
        BY <1>0 DEF Grounded
    <2>. QED  BY <1>0, <1>1, <2>1, <2>2, LoadStep DEF Loads
<1>2. CASE a # NoPrincipal /\ Loads(s, decide)
    <2>1. a \in Principals /\ a \in Eligible[i] /\ session[s].decision \in {"approve", "reject"}
        BY <1>0, <1>2, SessionFields DEF ApprovalInv, Grounded
    <2>2. decide \in SessionState
        BY <1>0, <2>1 DEF SessionState, ApprovalInv, TypeOK
    <2>3. Grounded(decide)
        BY <1>0, <2>1 DEF Grounded
    <2>. QED  BY <1>0, <1>2, <2>2, <2>3, LoadStep DEF Loads
<1>3. CASE Ends(s)
    BY <1>0, <1>3, EndStep
<1>. QED  BY <1>1, <1>2, <1>3 DEF SelectRelated

LEMMA CommitDecisionKeeps ==
    ASSUME ApprovalInv, ApprovalAssumption, NEW s \in Sessions, CommitDecision(s)
    PROVE  ApprovalInv'
<1>. DEFINE i == session[s].intent
            d == [by |-> session[s].by, decision |-> session[s].decision]
            own == Refreshed(i, StatusAfterDecision(i, session[s].seen, d))
            v == Flush(status[i], "pending", own)
            m == Flush(approvalState[i], session[s].mirror, own)
            D == decisions[i] \cup {d}
            refresh == [op |-> "refresh", intent |-> i, mirror |-> own]
<1>1. /\ i \in Intents /\ status[i] # "none"
      /\ d \in ApprovalDecision /\ d.by \in Eligible[i]
      /\ D \in SUBSET ApprovalDecision
      /\ own \in ApprovalRequestStatus
      /\ own = "satisfied" => HasQuorum(i, D)
    <2>1. /\ session[s].op = "decide" /\ i = session[s].intent
          /\ d = [by |-> session[s].by, decision |-> session[s].decision]
          /\ own = Refreshed(i, StatusAfterDecision(i, session[s].seen, d))
        BY DEF CommitDecision
    <2>. HIDE DEF i, d, own
    <2>. QED  BY <2>1, DecisionFacts
<1>2. v \in ApprovalRequestStatus /\ m \in ApprovalRequestStatus
    BY <1>1 DEF Flush, ApprovalInv, TypeOK, RequestExists, ApprovalState
<1>3. v = "satisfied" \/ m = "satisfied" => HasQuorum(i, D)
    <2>1. status[i] = "satisfied" \/ approvalState[i] = "satisfied" => HasQuorum(i, decisions[i])
        BY <1>1 DEF ApprovalInv, QuorumBehindSatisfied, HasQuorum
    <2>2. decisions[i] \in SUBSET ApprovalDecision /\ decisions[i] \subseteq D
        BY <1>1 DEF ApprovalInv, TypeOK
    <2>3. HasQuorum(i, decisions[i]) => HasQuorum(i, D)
        BY <1>1, <2>2, QuorumGrows
    <2>. QED  BY <1>1, <2>1, <2>3 DEF Flush
<1>4. \A e \in D : e.by \in Eligible[i]
    BY <1>1 DEF ApprovalInv, EligibleDecisions
<1>5. \A e, f \in D : e.by = f.by => e = f
    <2>1. \A e \in decisions[i] : e.by # d.by
        BY DEF CommitDecision, InsertAdmitted, Decided
    <2>. QED  BY <1>1, <2>1 DEF ApprovalInv, OneDecisionPerPrincipal
<1>6. /\ status' = [status EXCEPT ![i] = v]
      /\ decisions' = [decisions EXCEPT ![i] = D]
      /\ approvalState' = [approvalState EXCEPT ![i] = m]
      /\ UNCHANGED <<expiresAt, now>>
    BY DEF CommitDecision
<1>7. PICK st \in {Idle, refresh} : session' = [session EXCEPT ![s] = st]
    BY DEF CommitDecision, Loads, Ends
<1>8. refresh \in SessionState
    BY <1>1 DEF SessionState, ApprovalState
<1>9. st \in SessionState /\ (st = Idle \/ (st.op = "refresh" /\ st.intent = i))
    <2>1. refresh.op = "refresh" /\ refresh.intent = i
        OBVIOUS
    <2>. HIDE DEF i, refresh
    <2>. QED  BY <2>1, <1>7, <1>8, IdleType
<1>. HIDE DEF i, d, own, v, m, D, refresh
<1>. QED  BY <1>1, <1>2, <1>3, <1>4, <1>5, <1>6, <1>7, <1>9, WriteStep DEF D

\* A commit of a session that changes no decision.
LEMMA VerdictKeeps ==
    ASSUME ApprovalInv, ApprovalAssumption, NEW s \in Sessions, NEW i \in Intents,
           status[i] # "none",
           NEW v \in ApprovalRequestStatus, NEW m \in ApprovalRequestStatus,
           v = "satisfied" \/ m = "satisfied" => HasQuorum(i, decisions[i]),
           status' = [status EXCEPT ![i] = v],
           approvalState' = [approvalState EXCEPT ![i] = m],
           Ends(s), UNCHANGED <<expiresAt, decisions, now>>
    PROVE  ApprovalInv'
<1>. DEFINE D == decisions[i]
<1>1. /\ D \in SUBSET ApprovalDecision /\ decisions[i] \subseteq D
      /\ decisions' = [decisions EXCEPT ![i] = D]
      /\ session' = [session EXCEPT ![s] = Idle]
    BY DEF ApprovalInv, TypeOK, Ends
<1>2. /\ \A d, e \in D : d.by = e.by => d = e
      /\ \A d \in D : d.by \in Eligible[i]
      /\ v = "satisfied" \/ m = "satisfied" => HasQuorum(i, D)
    BY DEF ApprovalInv, OneDecisionPerPrincipal, EligibleDecisions
<1>. HIDE DEF D
<1>. QED  BY <1>1, <1>2, IdleType, WriteStep

LEMMA RefreshKeeps ==
    ASSUME ApprovalInv, NEW s \in Sessions, RefreshAfterDecision(s)
    PROVE  ApprovalInv'
<1>. DEFINE st == [op |-> "expire", intent |-> session[s].intent, mirror |-> session[s].mirror]
<1>1. /\ session[s] \in SessionState /\ session[s] # Idle /\ session[s].op = "refresh"
      /\ session[s].intent \in Intents /\ session[s].mirror \in ApprovalState
      /\ status[session[s].intent] # "none"
    BY SessionFields, IdleType DEF RefreshAfterDecision, ApprovalInv, TypeOK, Grounded
<1>2. st \in SessionState /\ Grounded(st)
    BY <1>1 DEF SessionState, Grounded
<1>. QED  BY <1>2, LoadStep, EndStep DEF RefreshAfterDecision, Loads

LEMMA CommitExpireKeeps ==
    ASSUME ApprovalInv, ApprovalAssumption, NEW s \in Sessions, CommitExpire(s)
    PROVE  ApprovalInv' /\ session[s].intent \in Intents /\ status[session[s].intent] # "none"
<1>. DEFINE i == session[s].intent
            m == Flush(approvalState[i], session[s].mirror, "expired")
<1>1. i \in Intents /\ status[i] # "none"
    BY SessionFields, IdleType DEF CommitExpire, ApprovalInv, TypeOK, Grounded
<1>2. m \in ApprovalRequestStatus /\ "expired" \in ApprovalRequestStatus
    BY <1>1 DEF Flush, ApprovalInv, TypeOK, RequestExists, ApprovalState, ApprovalRequestStatus
<1>3. m = "satisfied" => HasQuorum(i, decisions[i])
    BY <1>1 DEF Flush, ApprovalInv, QuorumBehindSatisfied, HasQuorum
<1>4. /\ status' = [status EXCEPT ![i] = "expired"]
      /\ approvalState' = [approvalState EXCEPT ![i] = m]
      /\ Ends(s) /\ UNCHANGED <<expiresAt, decisions, now>>
    BY DEF CommitExpire
<1>. HIDE DEF i, m
<1>. QED  BY <1>1, <1>2, <1>3, <1>4, VerdictKeeps DEF i

LEMMA SelectIntentKeeps ==
    ASSUME ApprovalInv, NEW s \in Sessions, NEW i \in Intents, SelectIntent(s, i)
    PROVE  ApprovalInv'
<1>. DEFINE st == [op |-> "intent", intent |-> i, mirror |-> approvalState[i]]
<1>1. st \in SessionState
    BY DEF SessionState, ApprovalInv, TypeOK
<1>2. Grounded(st)
    BY DEF Grounded, SelectIntent, ApprovalInv, RequestExists
<1>. QED  BY <1>1, <1>2, LoadStep DEF SelectIntent, Loads

LEMMA SelectRequestOfIntentKeeps ==
    ASSUME ApprovalInv, NEW s \in Sessions, SelectRequestOfIntent(s)
    PROVE  ApprovalInv'
<1>. DEFINE i == session[s].intent
            own == Refreshed(i, status[i])
            st == [op |-> "sync", intent |-> i, mirror |-> session[s].mirror,
                   loaded |-> status[i], own |-> own]
<1>1. i \in Intents /\ status[i] # "none" /\ session[s].mirror \in ApprovalState
    BY SessionFields, IdleType DEF SelectRequestOfIntent, ApprovalInv, TypeOK, Grounded
<1>2. own \in {status[i], "expired"} /\ status[i] \in ApprovalRequestStatus
    BY <1>1 DEF Refreshed, ApprovalInv, TypeOK
<1>3. st \in SessionState
    BY <1>1, <1>2 DEF SessionState, ApprovalRequestStatus
<1>4. Grounded(st)
    BY <1>1, <1>2 DEF Grounded, ApprovalInv, QuorumBehindSatisfied, HasQuorum
<1>. QED  BY <1>3, <1>4, LoadStep DEF SelectRequestOfIntent, Loads

LEMMA CommitSyncKeeps ==
    ASSUME ApprovalInv, ApprovalAssumption, NEW s \in Sessions, CommitSync(s)
    PROVE  ApprovalInv'
<1>. DEFINE i == session[s].intent
            v == Flush(status[i], session[s].loaded, session[s].own)
            m == Flush(approvalState[i], session[s].mirror, session[s].own)
<1>1. /\ i \in Intents /\ status[i] # "none" /\ session[s].own \in ApprovalRequestStatus
      /\ session[s].own = "satisfied" => HasQuorum(i, decisions[i])
    BY SessionFields, IdleType DEF CommitSync, ApprovalInv, TypeOK, Grounded
<1>2. v \in ApprovalRequestStatus /\ m \in ApprovalRequestStatus
    BY <1>1 DEF Flush, ApprovalInv, TypeOK, RequestExists, ApprovalState
<1>3. v = "satisfied" \/ m = "satisfied" => HasQuorum(i, decisions[i])
    BY <1>1 DEF Flush, ApprovalInv, QuorumBehindSatisfied, HasQuorum
<1>4. /\ status' = [status EXCEPT ![i] = v]
      /\ approvalState' = [approvalState EXCEPT ![i] = m]
      /\ Ends(s) /\ UNCHANGED <<expiresAt, decisions, now>>
    BY DEF CommitSync
<1>. HIDE DEF i, v, m
<1>. QED  BY <1>1, <1>2, <1>3, <1>4, VerdictKeeps

LEMMA QuietKeeps ==
    ASSUME ApprovalInv, Tick \/ UNCHANGED vars
    PROVE  ApprovalInv'
<1>1. UNCHANGED <<status, expiresAt, decisions, approvalState, session>> /\ now' \in Nat
    BY DEF ApprovalInv, TypeOK, Tick, vars
<1>. QED  BY <1>1 DEF ApprovalInv, TypeOK, QuorumBehindSatisfied, OneDecisionPerPrincipal,
                      EligibleDecisions, RequestExists, Grounded, HasQuorum

LEMMA ApprovalInvStep ==
    ASSUME ApprovalInv, ApprovalAssumption, [Next]_vars
    PROVE  ApprovalInv'
<1>1. ASSUME NEW i \in Intents, InitializeForActionIntent(i)  PROVE ApprovalInv'
    BY <1>1, InitializeKeeps
<1>2. ASSUME NEW s \in Sessions, Decide(s)  PROVE ApprovalInv'
    BY <1>2, SelectRequestKeeps, SelectRelatedKeeps, CommitDecisionKeeps, EndStep,
       RefreshKeeps, CommitExpireKeeps DEF Decide, RefuseDecision
<1>3. ASSUME NEW s \in Sessions, Synchronize(s)  PROVE ApprovalInv'
    BY <1>3, SelectIntentKeeps, SelectRequestOfIntentKeeps, CommitSyncKeeps DEF Synchronize
<1>4. ASSUME NEW s \in Sessions, Abort(s)  PROVE ApprovalInv'
    BY <1>4, EndStep DEF Abort
<1>. QED  BY <1>1, <1>2, <1>3, <1>4, QuietKeeps DEF Next

LEMMA ApprovalInvInit ==
    ASSUME ApprovalAssumption, Init
    PROVE  ApprovalInv
<1>1. TypeOK
    BY IdleType DEF Init, TypeOK, ApprovalState
<1>2. \A s \in Sessions : Grounded(session[s])
    BY IdleType DEF Init, Grounded
<1>. QED  BY <1>1, <1>2 DEF Init, ApprovalInv, QuorumBehindSatisfied, OneDecisionPerPrincipal,
                           EligibleDecisions, RequestExists

LEMMA ApprovalInvHolds == Spec => []ApprovalInv
<1>1. Init => ApprovalInv
    BY ApprovalInvInit, ApprovalAssumption
<1>2. ApprovalInv /\ [Next]_vars => ApprovalInv'
    BY ApprovalInvStep, ApprovalAssumption
<1>. QED  BY <1>1, <1>2, PTL DEF Spec

-----------------------------------------------------------------------------
(* The theorems *)

\* The tables and every session of Approvals keep their types.
THEOREM TypeCorrect == Spec => []TypeOK
<1>1. ApprovalInv => TypeOK
    BY DEF ApprovalInv
<1>. QED  BY <1>1, ApprovalInvHolds, PTL

\* However decisions overlap, neither the request nor the intent says
\* satisfied without a quorum of eligible principals in approval_decisions.
THEOREM QuorumHolds == Spec => []QuorumBehindSatisfied
<1>1. ApprovalInv => QuorumBehindSatisfied
    BY DEF ApprovalInv
<1>. QED  BY <1>1, ApprovalInvHolds, PTL

\* A principal that submits two decisions at once has at most one recorded.
THEOREM OneDecisionHolds == Spec => []OneDecisionPerPrincipal
<1>1. ApprovalInv => OneDecisionPerPrincipal
    BY DEF ApprovalInv
<1>. QED  BY <1>1, ApprovalInvHolds, PTL

LEMMA SameWords ==
    /\ ApprovalDecision = Ballot!Decision
    /\ \A i \in Intents, D \in SUBSET ApprovalDecision : HasQuorum(i, D) <=> Ballot!Quorum(i, D)
<1>1. ApprovalDecision = Ballot!Decision
    BY DEF ApprovalDecision, Ballot!Decision
<1>2. ASSUME NEW i \in Intents, NEW D \in SUBSET ApprovalDecision
      PROVE  HasQuorum(i, D) <=> Ballot!Quorum(i, D)
    <2>1. ApprovedBy(D) = Ballot!Approvers(D)
        BY DEF ApprovedBy, Ballot!Approvers
    <2>. QED  BY <2>1 DEF HasQuorum, Ballot!Quorum, Cardinality, Ballot!Cardinality
<1>. QED  BY <1>1, <1>2

LEMMA DecisionIsVote ==
    ASSUME ApprovalInv, ApprovalAssumption, NEW s \in Sessions, CommitDecision(s)
    PROVE  Ballot!BallotNext
<1>. DEFINE i == session[s].intent
            d == [by |-> session[s].by, decision |-> session[s].decision]
            own == Refreshed(i, StatusAfterDecision(i, session[s].seen, d))
            v == Flush(status[i], "pending", own)
            D == decisions[i] \cup {d}
<1>1. /\ i \in Intents /\ status[i] # "none"
      /\ d \in ApprovalDecision /\ d.by \in Eligible[i]
      /\ D \in SUBSET ApprovalDecision
      /\ own \in ApprovalRequestStatus
      /\ own = "rejected" => d.decision = "reject"
      /\ own = "satisfied" => d.decision = "approve" /\ HasQuorum(i, D)
    <2>1. /\ session[s].op = "decide" /\ i = session[s].intent
          /\ d = [by |-> session[s].by, decision |-> session[s].decision]
          /\ own = Refreshed(i, StatusAfterDecision(i, session[s].seen, d))
        BY DEF CommitDecision
    <2>. HIDE DEF i, d, own
    <2>. QED  BY <2>1, DecisionFacts
<1>2. \A e \in decisions[i] : e.by # d.by
    BY DEF CommitDecision, InsertAdmitted, Decided
<1>3. /\ status' = [status EXCEPT ![i] = v]
      /\ decisions' = [decisions EXCEPT ![i] = D]
    BY DEF CommitDecision
<1>4. v \in Ballot!Verdicts(i, d, D)
    <2>1. own = "pending" => v = status[i]
        BY DEF Flush
    <2>2. v \in {status[i], own}
        BY DEF Flush
    <2>3. own = "satisfied" => Ballot!Quorum(i, D)
        BY <1>1, SameWords
    <2>. HIDE DEF i, d, own, v, D
    <2>. QED  BY <1>1, <2>1, <2>2, <2>3 DEF Ballot!Verdicts, ApprovalRequestStatus
<1>5. Ballot!Vote(i, d)
    <2>1. D = decisions[i] \cup {d}
        OBVIOUS
    <2>. HIDE DEF i, d, own, v, D
    <2>. QED  BY <1>1, <1>2, <1>3, <1>4, <2>1 DEF Ballot!Vote
<1>. HIDE DEF i, d
<1>. QED  BY <1>1, <1>5, SameWords DEF Ballot!BallotNext

LEMMA BallotStep ==
    ASSUME ApprovalInv, ApprovalAssumption, [Next]_vars
    PROVE  [Ballot!BallotNext]_<<status, decisions>>
<1>1. ASSUME NEW i \in Intents, InitializeForActionIntent(i)
      PROVE  [Ballot!BallotNext]_<<status, decisions>>
    <2>1. CASE RequiredCount[i] = 0
        BY <1>1, <2>1 DEF InitializeForActionIntent
    <2>2. CASE RequiredCount[i] # 0
        <3>1. Ballot!Open(i)
            BY <1>1, <2>2 DEF InitializeForActionIntent, ApprovalInv, RequestExists, Ballot!Open
        <3>. QED  BY <3>1 DEF Ballot!BallotNext
    <2>. QED  BY <2>1, <2>2
<1>2. ASSUME NEW s \in Sessions, CommitExpire(s)
      PROVE  [Ballot!BallotNext]_<<status, decisions>>
    <2>1. Ballot!Expire(session[s].intent) /\ session[s].intent \in Intents
        BY <1>2, CommitExpireKeeps DEF CommitExpire, Ballot!Expire
    <2>. QED  BY <2>1 DEF Ballot!BallotNext
<1>3. ASSUME NEW s \in Sessions, CommitSync(s)
      PROVE  [Ballot!BallotNext]_<<status, decisions>>
    <2>. DEFINE i == session[s].intent
    <2>1. /\ i \in Intents /\ status[i] # "none"
          /\ session[s].own \in {session[s].loaded, "expired"}
        BY <1>3, SessionFields, IdleType DEF CommitSync, ApprovalInv, TypeOK, Grounded
    <2>2. CASE session[s].own = session[s].loaded
        BY <1>3, <2>1, <2>2 DEF CommitSync, Flush, ApprovalInv, TypeOK
    <2>3. CASE session[s].own # session[s].loaded
        <3>1. Ballot!Expire(i)
            BY <1>3, <2>1, <2>3 DEF CommitSync, Flush, Ballot!Expire
        <3>. QED  BY <2>1, <3>1 DEF Ballot!BallotNext
    <2>. QED  BY <2>2, <2>3
<1>4. ASSUME NEW s \in Sessions, Decide(s) \/ Synchronize(s) \/ Abort(s),
             ~CommitDecision(s), ~CommitExpire(s), ~CommitSync(s)
      PROVE  UNCHANGED <<status, decisions>>
    BY <1>4 DEF Decide, Synchronize, Abort, SelectRequest, SelectRelated, RefuseDecision,
                RefreshAfterDecision, SelectIntent, SelectRequestOfIntent
<1>. QED  BY <1>1, <1>2, <1>3, <1>4, DecisionIsVote DEF Next, Tick, vars

\* Approvals refines the ballot: what a reader of approval_requests and
\* approval_decisions sees is a sequence of votes by eligible principals and
\* of expiries, and a request that closed never opens again.
THEOREM ApprovalsImplementBallot == Spec => ImplementsBallot
<1>1. Init => Ballot!BallotInit
    BY DEF Init, Ballot!BallotInit
<1>2. ApprovalInv /\ [Next]_vars => [Ballot!BallotNext]_<<status, decisions>>
    BY BallotStep, ApprovalAssumption
<1>. QED  BY <1>1, <1>2, ApprovalInvHolds, PTL DEF Spec, ImplementsBallot, Ballot!BallotSpec
=============================================================================
