-------------------------------- MODULE Intake --------------------------------
(***************************************************************************)
(* Policies, their evaluation and the intake of Action Intents:             *)
(* services/policy_engine.py and services/action_intents.py, for one tenant *)
(* and one workflow.                                                        *)
(*                                                                         *)
(* Policies are created as drafts, updated, activated and retired while     *)
(* intakes look for the active one.  No row is locked: an update and an     *)
(* activation go by the policy as loaded, and their UPDATE writes the       *)
(* columns that differ from it.  Unique constraints guard the policy        *)
(* versions and the idempotency keys.                                       *)
(*                                                                         *)
(* A payload is what evaluation reads of it.  Left out: tenants that are    *)
(* not active (refused before anything is read), the caller's permission,   *)
(* the descriptive columns, and the synchronisation of a replayed record,   *)
(* which is modelled in Approvals and ProofIssuance.                        *)
(***************************************************************************)
EXTENDS Naturals, Sequences

CONSTANTS
    Sessions,       \* requests in flight
    Policies,       \* policy_id values
    ActionClasses,  \* finance_action_classes values
    RuleLists,      \* rules values
    Defaults,       \* default_decision values
    Keys,           \* idempotency_key values
    Payloads,       \* what is sent, under any key
    MaxSteps,       \* bound on the policy requests made
    None            \* a field that is absent, no policy, no rule

ASSUME IntakeAssumption ==
    /\ MaxSteps \in Nat
    /\ None \notin Policies

VARIABLES
    policy,         \* policies: policy_id -> row
    record,         \* action_intent_records: idempotency_key -> row
    session,        \* what each request does
    answered,       \* the answers given to intakes
    wasActive,      \* what each policy said at the times it was active
    steps           \* policy requests made so far

vars == <<policy, record, session, answered, wasActive, steps>>

-----------------------------------------------------------------------------
(* Policies and records *)

\* What a policy says, column by column.
Contents == [classes : ActionClasses, rules : RuleLists, default : Defaults]

PolicyStatus == {"draft", "active", "retired"}
Policy == [status : PolicyStatus \cup {"none"}, version : Nat, content : Contents \cup {None}]
NoPolicy == [status |-> "none", version |-> 0, content |-> None]

DecisionState == {"allow", "deny", "approval_required", "needs_evidence",
                  "structurally_non_executable"}
PolicyDecision ==
    [state : DecisionState, rule : Nat, policy : Policies \cup {None},
     approval : BOOLEAN, evidence : BOOLEAN]

ContractValidationStatus == {"valid", "invalid", "unsupported"}

\* version: that of the policy when it decided.
ActionIntentRecord ==
    [payload : Payloads, decision : PolicyDecision, version : Nat,
     contract : ContractValidationStatus, approval_state : {"not_required", "pending"},
     evidence_state : {"not_required", "pending"}]

\* What the request models admit: PolicyRule, default_decision, the contract's
\* validation.
ASSUME PolicyAssumption ==
    /\ Defaults \subseteq DecisionState
    /\ \A rules \in RuleLists :
         /\ DOMAIN rules \subseteq Nat \ {0}
         /\ \A n \in DOMAIN rules :
              /\ rules[n].priority \in Nat /\ rules[n].decision \in DecisionState
              /\ rules[n].approval \in BOOLEAN /\ rules[n].evidence \in BOOLEAN
    /\ \A x \in Payloads : x.contract \in ContractValidationStatus
    /\ None \notin Payloads

-----------------------------------------------------------------------------
(* PolicyEngine.evaluate *)

\* A rule is [priority, all_conditions, decision, approval, evidence], a condition
\* [field, operator, value]; rule 0 is none.  PolicyCondition admits no other
\* operator, and for "exists" a Boolean value or none, which stands for true.
_apply_operator(operator, actual, expected) ==
    CASE operator = "equals" -> actual = expected
      [] operator = "not_equals" -> actual # expected
      [] operator = "gte" -> actual # None /\ actual >= expected
      [] operator = "gt" -> actual # None /\ actual > expected
      [] operator = "lte" -> actual # None /\ actual <= expected
      [] operator = "lt" -> actual # None /\ actual < expected
      [] operator = "in" -> actual \in expected
      [] operator = "contains" -> actual # None /\ expected \in actual
      [] operator = "exists" -> (actual # None) = (expected \in {TRUE, None})

\* _resolve_path: an absent field is None.
Matches(rule, fields) ==
    \A i \in DOMAIN rule.all_conditions :
        LET c == rule.all_conditions[i] IN
        _apply_operator(c.operator,
                        IF c.field \in DOMAIN fields THEN fields[c.field] ELSE None, c.value)

\* The rules in the order of priority, then of position: the first that matches.
FirstMatch(rules, fields) ==
    LET matching == {n \in DOMAIN rules : Matches(rules[n], fields)} IN
    IF matching = {} THEN 0
    ELSE CHOOSE n \in matching :
            \A m \in matching :
                \/ rules[n].priority < rules[m].priority
                \/ rules[n].priority = rules[m].priority /\ n <= m

\* A requirement is the rule's, or comes with the decision.
Decision(state, rule, p, approval, evidence) ==
    [state |-> state, rule |-> rule, policy |-> p,
     approval |-> approval \/ state = "approval_required",
     evidence |-> evidence \/ state = "needs_evidence"]

\* The hints sent beside the payload contradict it.
Conflicts(hint, value) == hint # None /\ value # None /\ hint # value
Mismatch(payload) ==
    Conflicts(payload.profile, payload.workflow) \/ Conflicts(payload.routing, payload.class)

NonExecutable(payload) ==
    \/ payload.contract # "valid"
    \/ Mismatch(payload)
    \/ payload.source = payload.destination

Governed(payload, content, p) ==
    LET n == FirstMatch(content.rules, payload.fields)
        rule == content.rules[n] IN
    CASE content.classes # {} /\ payload.class \notin content.classes ->
            Decision("deny", 0, p, FALSE, FALSE)
      [] (content.classes = {} \/ payload.class \in content.classes) /\ n = 0 ->
            Decision(content.default, 0, p, FALSE, FALSE)
      [] OTHER -> Decision(rule.decision, n, p, rule.approval, rule.evidence)

evaluate(payload, p, content) ==
    IF NonExecutable(payload) THEN Decision("structurally_non_executable", 0, None, FALSE, FALSE)
    ELSE IF p = None THEN Decision("deny", 0, None, FALSE, FALSE)
    ELSE Governed(payload, content, p)

-----------------------------------------------------------------------------

Session ==
    [step : {"idle", "version", "update", "actives", "activate", "policy", "insert"},
     policy : Policies \cup {None}, loaded : Policy, actives : SUBSET Policies,
     content : Contents \cup {None}, key : Keys \cup {None}, payload : Payloads \cup {None},
     decision : PolicyDecision \cup {None}]
Idle == [step |-> "idle", policy |-> None, loaded |-> NoPolicy, actives |-> {},
         content |-> None, key |-> None, payload |-> None, decision |-> None]

TypeOK ==
    /\ policy \in [Policies -> Policy]
    /\ DOMAIN record \subseteq Keys
    /\ \A k \in DOMAIN record : record[k] \in ActionIntentRecord
    /\ session \in [Sessions -> Session]
    /\ wasActive \in [Policies -> SUBSET Contents]
    /\ steps \in 0..MaxSteps

Init ==
    /\ policy = [p \in Policies |-> NoPolicy]
    /\ record = <<>>
    /\ session = [s \in Sessions |-> Idle]
    /\ answered = {}
    /\ wasActive = [p \in Policies |-> {}]
    /\ steps = 0

Actives == {p \in Policies : policy[p].status = "active"}
Ends(s) == session' = [session EXCEPT ![s] = Idle]

\* A commit leaves the rows new.
Commits(new) ==
    /\ policy' = new
    /\ wasActive' = [p \in Policies |->
          wasActive[p] \cup (IF new[p].status = "active" THEN {new[p].content} ELSE {})]

Begins(s, start) ==
    /\ session[s].step = "idle"
    /\ steps < MaxSteps
    /\ steps' = steps + 1
    /\ session' = [session EXCEPT ![s] = start]

-----------------------------------------------------------------------------
(* PolicyManagementService *)

\* create_policy: the next version, and the draft under it
ReadVersion(s, p, c) ==
    /\ policy[p] = NoPolicy
    /\ \A t \in Sessions : session[t].policy # p
    /\ \E latest \in {policy[q].version : q \in Policies} :
          /\ \A q \in Policies : policy[q].version <= latest
          /\ Begins(s, [Idle EXCEPT !.step = "version", !.policy = p, !.content = c,
                                    !.loaded = [NoPolicy EXCEPT !.version = latest + 1]])
    /\ UNCHANGED <<policy, record, answered, wasActive>>

\* uq_policies_tenant_workflow_version refuses a version taken meanwhile.
InsertPolicy(s) ==
    LET q == session[s] IN
    /\ q.step = "version"
    /\ \A p \in Policies : policy[p].version # q.loaded.version
    /\ Commits([policy EXCEPT ![q.policy] = [status |-> "draft", version |-> q.loaded.version,
                                             content |-> q.content]])
    /\ Ends(s)
    /\ UNCHANGED <<record, answered, steps>>

\* update_policy: only drafts, as loaded; the columns that change are written
LoadDraft(s, p, c) ==
    /\ policy[p].status = "draft"
    /\ Begins(s, [Idle EXCEPT !.step = "update", !.policy = p, !.loaded = policy[p],
                              !.content = c])
    /\ UNCHANGED <<policy, record, answered, wasActive>>

CommitUpdate(s) ==
    LET q == session[s] IN
    /\ q.step = "update"
    /\ Commits([policy EXCEPT ![q.policy].content =
            [column \in DOMAIN q.content |->
                IF q.content[column] = q.loaded.content[column] THEN @[column]
                ELSE q.content[column]]])
    /\ Ends(s)
    /\ UNCHANGED <<record, answered, steps>>

\* activate_policy: the policy, then the others that are active
LoadForActivation(s, p) ==
    /\ policy[p].status \in {"draft", "active"}
    /\ Begins(s, [Idle EXCEPT !.step = "actives", !.policy = p, !.loaded = policy[p]])
    /\ UNCHANGED <<policy, record, answered, wasActive>>

SelectActives(s) ==
    /\ session[s].step = "actives"
    /\ session' = [session EXCEPT ![s].step = "activate",
                                  ![s].actives = Actives \ {session[s].policy}]
    /\ UNCHANGED <<policy, record, answered, wasActive, steps>>

\* A status is written where it differs from the loaded one.
CommitActivation(s) ==
    LET q == session[s] IN
    /\ q.step = "activate"
    /\ Commits([p \in Policies |->
            [policy[p] EXCEPT
                !.status = CASE p \in q.actives -> "retired"
                             [] p = q.policy /\ q.loaded.status # "active" -> "active"
                             [] OTHER -> @]])
    /\ Ends(s)
    /\ UNCHANGED <<record, answered, steps>>

-----------------------------------------------------------------------------
(* ActionIntentService.intake *)

\* The record stored under the key, if there is one, is the answer, whatever
\* payload is sent with the key this time.
ReplayRecord(s, k) ==
    /\ session[s].step = "idle"
    /\ k \in DOMAIN record
    /\ answered' = answered \cup {[key |-> k, decision |-> record[k].decision]}
    /\ UNCHANGED <<policy, record, session, wasActive, steps>>

LookupKey(s, k, x) ==
    /\ session[s].step = "idle"
    /\ k \notin DOMAIN record
    /\ session' = [session EXCEPT ![s] = [Idle EXCEPT !.step = "policy", !.key = k,
                                                   !.payload = x]]
    /\ UNCHANGED <<policy, record, answered, wasActive, steps>>

\* get_active_policy: the active policy of the highest version
get_active_policyOrDraft ==
    IF \A p \in Policies : policy[p].status = "none" THEN {None}
    ELSE {p \in Policies : policy[p].status # "none"
                           /\ \A q \in Policies : policy[q].version <= policy[p].version}
get_active_policy ==
    IF Actives = {} THEN {None}
    ELSE {p \in Actives : \A q \in Actives : policy[q].version <= policy[p].version}

EvaluatePolicy(s) ==
    /\ session[s].step = "policy"
    /\ \E p \in get_active_policy :
          session' = [session EXCEPT
              ![s].step = "insert",
              ![s].loaded = IF p = None THEN NoPolicy ELSE policy[p],
              ![s].decision = evaluate(session[s].payload, p,
                                       IF p = None THEN None ELSE policy[p].content)]
    /\ UNCHANGED <<policy, record, answered, wasActive, steps>>

\* With the states approval_service and evidence_service initialise.
RecordOf(s) ==
    LET d == session[s].decision IN
    [payload |-> session[s].payload, decision |-> d,
     version |-> IF d.policy = None THEN 0 ELSE session[s].loaded.version,
     contract |-> session[s].payload.contract,
     approval_state |-> IF d.approval THEN "pending" ELSE "not_required",
     evidence_state |-> IF d.evidence THEN "pending" ELSE "not_required"]

InsertRecordUnguarded(s) ==
    LET k == session[s].key IN
    /\ session[s].step = "insert"
    /\ record' = [j \in DOMAIN record \cup {k} |-> IF j = k THEN RecordOf(s) ELSE record[j]]
    /\ answered' = answered \cup {[key |-> k, decision |-> session[s].decision]}
    /\ Ends(s)
    /\ UNCHANGED <<policy, wasActive, steps>>
\* uq_action_intent_records_tenant_idempotency_key
InsertRecord(s) ==
    LET k == session[s].key IN
    /\ session[s].step = "insert"
    /\ k \notin DOMAIN record
    /\ record' = [j \in DOMAIN record \cup {k} |-> IF j = k THEN RecordOf(s) ELSE record[j]]
    /\ answered' = answered \cup {[key |-> k, decision |-> session[s].decision]}
    /\ Ends(s)
    /\ UNCHANGED <<policy, wasActive, steps>>

\* A constraint refuses the request, or it dies; its transaction rolls back.
Fails(s) ==
    /\ session[s].step # "idle"
    /\ Ends(s)
    /\ UNCHANGED <<policy, record, answered, wasActive, steps>>

-----------------------------------------------------------------------------

Manages(s) ==
    \/ \E p \in Policies :
          \/ \E c \in Contents : ReadVersion(s, p, c) \/ LoadDraft(s, p, c)
          \/ LoadForActivation(s, p)
    \/ InsertPolicy(s) \/ CommitUpdate(s) \/ SelectActives(s) \/ CommitActivation(s)

TakesIn(s) ==
    \/ \E k \in Keys : ReplayRecord(s, k) \/ \E x \in Payloads : LookupKey(s, k, x)
    \/ EvaluatePolicy(s) \/ InsertRecord(s)

Next == \E s \in Sessions : Manages(s) \/ TakesIn(s) \/ Fails(s)

Spec == Init /\ [][Next]_vars

-----------------------------------------------------------------------------
(* Properties *)

\* Whatever became of the policies meanwhile, an idempotency key gets one answer:
\* overlapping intakes of one key, of one payload or of two, never both decide it.
OneDecisionPerKey ==
    \A x, y \in answered : x.key = y.key => x.decision = y.decision

\* A stored decision is what its policy said at some time at which it was active,
\* and without a policy nothing is let through, although the policy is read before
\* the insertion and a stale update may have changed what it says since.
DecisionExplained ==
    /\ TypeOK
    /\ \A k \in DOMAIN record :
         LET d == record[k].decision IN
         /\ d.policy = None => d = evaluate(record[k].payload, None, None)
         /\ d.policy # None =>
               /\ policy[d.policy].version = record[k].version
               /\ \E c \in wasActive[d.policy] : d = evaluate(record[k].payload, d.policy, c)
=============================================================================
