------------------------------- MODULE Approvals -------------------------------
(***************************************************************************)
(* The approval workflow: src/app/services/approvals.py.                   *)
(*                                                                         *)
(* Intake opens one ApprovalRequest per Action Intent that needs approval, *)
(* so a request is named by its intent.  A principal approves or rejects   *)
(* it; the request is satisfied when enough principals approved, rejected  *)
(* when one rejected, expired when it was still pending at expires_at.     *)
(* The intent's approval_state mirrors the request.                        *)
(*                                                                         *)
(* The database session of a handler does not autoflush and its objects    *)
(* are not refreshed by a commit.  A read of a request is several SELECTs  *)
(* (_request_query: the request, then its decisions and its intent), and   *)
(* a write updates the columns whose new value differs from the one the    *)
(* session loaded, and no others.  Other sessions commit between any two   *)
(* of these steps.                                                         *)
(***************************************************************************)
EXTENDS Naturals, FiniteSets

CONSTANTS
    Sessions,       \* database sessions, each serving one request at a time
    Intents,        \* Action Intents
    Principals,     \* who may decide
    Eligible,       \* per intent: assigned, in an eligible role, not the requester
    RequiredCount,  \* approval_requirement.required_decision_count, 0: no requirement
    Ttl,            \* approval_requirement.expires_in_seconds, 0: no expiry
    MaxTime,        \* bound on the clock
    NoPrincipal

ASSUME ApprovalAssumption ==
    /\ IsFiniteSet(Principals)
    /\ Eligible \in [Intents -> SUBSET Principals]
    /\ RequiredCount \in [Intents -> Nat]
    /\ Ttl \in [Intents -> Nat]
    /\ MaxTime \in Nat
    /\ NoPrincipal \notin Principals

VARIABLES
    status,         \* approval_requests.status
    expiresAt,      \* approval_requests.expires_at, 0: none
    decisions,      \* approval_decisions of each request
    approvalState,  \* action_intent_records.approval_state
    session,        \* what each session has loaded
    now             \* the clock, utc_now()

vars == <<status, expiresAt, decisions, approvalState, session, now>>

-----------------------------------------------------------------------------

ApprovalRequestStatus == {"pending", "satisfied", "rejected", "expired"}

\* "none": the intent has not been taken in yet.
ApprovalState == ApprovalRequestStatus \cup {"not_required", "none"}

ApprovalDecision == [by : Principals, decision : {"approve", "reject"}]

Idle == [op |-> "idle"]
SessionState ==
    {Idle}
    \* the request was SELECTed as pending; a decision, or a read (by NoPrincipal)
    \cup [op : {"request"}, intent : Intents, by : Principals \cup {NoPrincipal},
          decision : {"approve", "reject"}]
    \* its decisions and its intent were SELECTed too
    \cup [op : {"decide"}, intent : Intents, by : Principals,
          decision : {"approve", "reject"}, seen : SUBSET ApprovalDecision,
          mirror : ApprovalState]
    \* the decision is committed, the request is about to be read again
    \cup [op : {"refresh"}, intent : Intents, mirror : ApprovalState]
    \cup [op : {"expire"}, intent : Intents, mirror : ApprovalState]
    \* an intent was SELECTed, then its request
    \cup [op : {"intent"}, intent : Intents, mirror : ApprovalState]
    \cup [op : {"sync"}, intent : Intents, mirror : ApprovalState,
          loaded : ApprovalRequestStatus, own : ApprovalRequestStatus]

TypeOK ==
    /\ status \in [Intents -> ApprovalRequestStatus \cup {"none"}]
    /\ expiresAt \in [Intents -> Nat]
    /\ decisions \in [Intents -> SUBSET ApprovalDecision]
    /\ approvalState \in [Intents -> ApprovalState]
    /\ session \in [Sessions -> SessionState]
    /\ now \in Nat

Init ==
    /\ status = [i \in Intents |-> "none"]
    /\ expiresAt = [i \in Intents |-> 0]
    /\ decisions = [i \in Intents |-> {}]
    /\ approvalState = [i \in Intents |-> "none"]
    /\ session = [s \in Sessions |-> Idle]
    /\ now = 0

-----------------------------------------------------------------------------
(* Helpers of ApprovalService *)

\* _refresh_request_if_expired, for a request still pending
PastExpiry(i) == expiresAt[i] # 0 /\ expiresAt[i] <= now

\* _update_request_status_after_decision.  The collection a session counts is
\* the one it loaded, with its own decision added to it.
ApprovedBy(D) == {d.by : d \in {e \in D : e.decision = "approve"}}

StatusOneShort(i, seen, own) ==
    IF own.decision = "reject" THEN "rejected"
    ELSE IF Cardinality(ApprovedBy(seen)) + 2 >= RequiredCount[i] THEN "satisfied"
    ELSE "pending"
StatusAfterDecision(i, seen, own) ==
    CASE own.decision = "reject" -> "rejected"
      [] /\ own.decision = "approve"
         /\ Cardinality(ApprovedBy(seen \cup {own})) >= RequiredCount[i] -> "satisfied"
      [] OTHER -> "pending"

\* _refresh_request_if_expired on the session's own copy of the request
Refreshed(i, own) == IF own = "pending" /\ PastExpiry(i) THEN "expired" ELSE own

\* The flush writes a column only when the session changed it.
FlushAlways(current, loaded, own) == own
Flush(current, loaded, own) == IF own = loaded THEN current ELSE own

\* _validate_actor
ValidActor(i, a) == a \in Eligible[i]

Loads(s, state) == session' = [session EXCEPT ![s] = state]
Ends(s) == session' = [session EXCEPT ![s] = Idle]

-----------------------------------------------------------------------------
(* initialize_for_action_intent, inside the transaction of the intake *)

InitializeForActionIntent(i) ==
    /\ approvalState[i] = "none"
    /\ IF RequiredCount[i] = 0
       THEN /\ approvalState' = [approvalState EXCEPT ![i] = "not_required"]
            /\ UNCHANGED <<status, expiresAt>>
       ELSE /\ approvalState' = [approvalState EXCEPT ![i] = "pending"]
            /\ status' = [status EXCEPT ![i] = "pending"]
            /\ expiresAt' = [expiresAt EXCEPT ![i] = IF Ttl[i] = 0 THEN 0 ELSE now + Ttl[i]]
    /\ UNCHANGED <<decisions, session, now>>

-----------------------------------------------------------------------------
(* record_decision and get_request *)

\* A request that is not pending is an error for a decision and no change for
\* a read.
SelectRequest(s, i, a, d) ==
    /\ session[s] = Idle
    /\ status[i] = "pending"
    /\ a = NoPrincipal \/ ValidActor(i, a)
    /\ Loads(s, [op |-> "request", intent |-> i, by |-> a, decision |-> d])
    /\ UNCHANGED <<status, expiresAt, decisions, approvalState, now>>

Decided(a, D) == \E d \in D : d.by = a

SelectRelated(s) ==
    /\ session[s].op = "request"
    /\ LET i == session[s].intent
           a == session[s].by
       IN  \/ /\ PastExpiry(i)
              /\ Loads(s, [op |-> "expire", intent |-> i, mirror |-> approvalState[i]])
           \/ /\ ~PastExpiry(i)
              /\ a # NoPrincipal
              /\ ~Decided(a, decisions[i])
              /\ Loads(s, [op |-> "decide", intent |-> i, by |-> a,
                           decision |-> session[s].decision,
                           seen |-> decisions[i], mirror |-> approvalState[i]])
           \/ /\ ~PastExpiry(i)
              /\ a = NoPrincipal \/ Decided(a, decisions[i])
              /\ Ends(s)
    /\ UNCHANGED <<status, expiresAt, decisions, approvalState, now>>

\* uq_approval_decisions_request_principal admits the INSERT.
InsertAdmitted(i, a) == ~Decided(a, decisions[i])

\* The INSERT, the new status, the mirror and the commit.
CommitDecision(s) ==
    /\ session[s].op = "decide"
    /\ LET i == session[s].intent
           d == [by |-> session[s].by, decision |-> session[s].decision]
           own == Refreshed(i, StatusAfterDecision(i, session[s].seen, d))
       IN  /\ InsertAdmitted(i, d.by)
           /\ decisions' = [decisions EXCEPT ![i] = @ \cup {d}]
           /\ status' = [status EXCEPT ![i] = Flush(@, "pending", own)]
           /\ approvalState' = [approvalState EXCEPT ![i] = Flush(@, session[s].mirror, own)]
           /\ IF own = "pending"
              THEN Loads(s, [op |-> "refresh", intent |-> i, mirror |-> own])
              ELSE Ends(s)
    /\ UNCHANGED <<expiresAt, now>>

\* IntegrityError: the handler fails and the session is rolled back.
RefuseDecision(s) ==
    /\ session[s].op = "decide"
    /\ ~InsertAdmitted(session[s].intent, session[s].by)
    /\ Ends(s)
    /\ UNCHANGED <<status, expiresAt, decisions, approvalState, now>>

\* get_request at the end of record_decision looks at the same object again.
RefreshAfterDecision(s) ==
    /\ session[s].op = "refresh"
    /\ IF PastExpiry(session[s].intent)
       THEN Loads(s, [op |-> "expire", intent |-> session[s].intent,
                      mirror |-> session[s].mirror])
       ELSE Ends(s)
    /\ UNCHANGED <<status, expiresAt, decisions, approvalState, now>>

\* The commit in get_request and list_requests after a refresh that expired.
CommitExpire(s) ==
    /\ session[s].op = "expire"
    /\ LET i == session[s].intent IN
        /\ status' = [status EXCEPT ![i] = "expired"]
        /\ approvalState' = [approvalState EXCEPT ![i] = Flush(@, session[s].mirror, "expired")]
    /\ Ends(s)
    /\ UNCHANGED <<expiresAt, decisions, now>>

-----------------------------------------------------------------------------
(* synchronize_action_intent_state as a read of the intent calls it *)

SelectIntent(s, i) ==
    /\ session[s] = Idle
    /\ approvalState[i] \notin {"none", "not_required"}
    /\ Loads(s, [op |-> "intent", intent |-> i, mirror |-> approvalState[i]])
    /\ UNCHANGED <<status, expiresAt, decisions, approvalState, now>>

SelectRequestOfIntent(s) ==
    /\ session[s].op = "intent"
    /\ LET i == session[s].intent IN
        Loads(s, [op |-> "sync", intent |-> i, mirror |-> session[s].mirror,
                  loaded |-> status[i], own |-> Refreshed(i, status[i])])
    /\ UNCHANGED <<status, expiresAt, decisions, approvalState, now>>

CommitSync(s) ==
    /\ session[s].op = "sync"
    /\ LET i == session[s].intent IN
        /\ status' = [status EXCEPT ![i] = Flush(@, session[s].loaded, session[s].own)]
        /\ approvalState' =
             [approvalState EXCEPT ![i] = Flush(@, session[s].mirror, session[s].own)]
    /\ Ends(s)
    /\ UNCHANGED <<expiresAt, decisions, now>>

-----------------------------------------------------------------------------

\* Database.session: an exception, a lost connection or a crash rolls back.
Abort(s) ==
    /\ session[s] # Idle
    /\ Ends(s)
    /\ UNCHANGED <<status, expiresAt, decisions, approvalState, now>>

Tick ==
    /\ now < MaxTime
    /\ now' = now + 1
    /\ UNCHANGED <<status, expiresAt, decisions, approvalState, session>>

Decide(s) ==
    \/ \E i \in Intents, a \in Principals \cup {NoPrincipal}, d \in {"approve", "reject"} :
          SelectRequest(s, i, a, d)
    \/ SelectRelated(s) \/ CommitDecision(s) \/ RefuseDecision(s)
    \/ RefreshAfterDecision(s) \/ CommitExpire(s)

Synchronize(s) ==
    \/ \E i \in Intents : SelectIntent(s, i)
    \/ SelectRequestOfIntent(s) \/ CommitSync(s)

Next ==
    \/ \E i \in Intents : InitializeForActionIntent(i)
    \/ \E s \in Sessions : Decide(s) \/ Synchronize(s) \/ Abort(s)
    \/ Tick

Spec == Init /\ [][Next]_vars

-----------------------------------------------------------------------------
(* Properties *)

\* A satisfied request has the approvals the policy asked for, of that many
\* different eligible principals, whatever decisions raced.
QuorumBehindSatisfied ==
    \A i \in Intents :
        status[i] = "satisfied" \/ approvalState[i] = "satisfied" =>
            /\ Cardinality(ApprovedBy(decisions[i])) >= RequiredCount[i]
            /\ ApprovedBy(decisions[i]) \subseteq Eligible[i]

\* No principal has two decisions on a request, even if both of its requests
\* passed _has_existing_decision.
OneDecisionPerPrincipal ==
    \A i \in Intents : \A d, e \in decisions[i] : d.by = e.by => d = e

InFlight(i) == \E s \in Sessions : session[s] # Idle /\ session[s].intent = i

\* "once the required decision count is met, the request becomes `satisfied`":
\* docs/APPROVAL_WORKFLOW.md.  Not asked of a request with a rejection or one
\* that expired.
QuorumSatisfies ==
    \A i \in Intents :
        /\ status[i] # "none" /\ ~InFlight(i) /\ ~PastExpiry(i)
        /\ Cardinality(ApprovedBy(decisions[i])) >= RequiredCount[i]
        /\ \A d \in decisions[i] : d.decision = "approve"
        => status[i] # "pending"

-----------------------------------------------------------------------------
(* Inductive strengthening, used by ApprovalsProofs *)

EligibleDecisions == \A i \in Intents : \A d \in decisions[i] : d.by \in Eligible[i]

RequestExists ==
    \A i \in Intents : status[i] = "none" <=> approvalState[i] \in {"none", "not_required"}

HasQuorum(i, D) == Cardinality(ApprovedBy(D)) >= RequiredCount[i]

\* What a session loaded may be out of date, but never justifies more than the
\* tables do.
Grounded(st) ==
    /\ st # Idle => status[st.intent] # "none"
    /\ st.op = "request" /\ st.by # NoPrincipal => st.by \in Eligible[st.intent]
    /\ st.op = "decide" => /\ st.by \in Eligible[st.intent]
                           /\ st.seen \subseteq decisions[st.intent]
    /\ st.op = "sync" =>
          /\ st.own \in {st.loaded, "expired"}
          /\ st.own = "satisfied" => HasQuorum(st.intent, decisions[st.intent])

ApprovalInv ==
    /\ TypeOK
    /\ QuorumBehindSatisfied
    /\ OneDecisionPerPrincipal
    /\ EligibleDecisions
    /\ RequestExists
    /\ \A s \in Sessions : Grounded(session[s])

-----------------------------------------------------------------------------
(* The promise it implements *)

Ballot == INSTANCE ApprovalBallot

\* Whatever handlers overlap, what a reader of the request sees is a ballot:
\* one decision per eligible principal, none taken back, no verdict without
\* the decisions that justify it and no reopening.
ImplementsBallot == Ballot!BallotSpec
=============================================================================
