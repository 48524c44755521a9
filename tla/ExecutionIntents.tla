--------------------------- MODULE ExecutionIntents ---------------------------
(***************************************************************************)
(* The AuthorisedExecutionIntent surface: api/intents.py, the durable store *)
(* behind Permit's IntentManager (services/intent_store.py) and the         *)
(* reconciliation worker of services/permit_gateway_bridge.py.              *)
(*                                                                         *)
(* A row keeps the lifecycle state and the linked proof twice, in columns   *)
(* of their own and inside the JSON body.  The endpoints go by the columns, *)
(* the store and the worker by the body.  No request locks the row: each    *)
(* loads it, validates the transition against what it loaded and, perhaps   *)
(* after a remote call, commits an UPDATE of the columns that differ from   *)
(* the loaded ones, the body as a whole.                                    *)
(*                                                                         *)
(* External: the transition table, the coordinator of brokered execution    *)
(* and the resource boundary.  Nothing is assumed of the last two beyond    *)
(* this: an action reported as succeeded was performed, a refused one was   *)
(* not.  Left out: expiry, metadata, attempt ids and submission references, *)
(* which no transition reads, and the checks of tenant and permission,      *)
(* which only refuse.                                                       *)
(***************************************************************************)
EXTENDS Naturals, FiniteSets

CONSTANTS
    Requests,       \* concurrent API requests
    Intents,        \* intent_id values; all are created under one idempotency_key
    Mode,           \* requested_execution_mode of each
    Registered,     \* the intents whose target_id has a resource client
    Malformed,      \* those whose resource may answer with a state it should not know
    Transitions,    \* the table of validate_transition: pairs <<from, to>>
    MaxRequests,    \* bound on the requests made
    NoIntent

IntentLifecycle ==
    {"created", "evaluating", "requires_approval", "authorised", "denied", "proof_issued",
     "executing", "submitted", "succeeded", "failed", "refused", "outcome_unknown",
     "cancelled", "expired"}

Terminal == {"succeeded", "failed", "refused"}
NonFinal == {"submitted", "outcome_unknown"}

ASSUME ExecutionIntentsAssumption ==
    /\ Mode \in [Intents -> {"brokered", "resource_owned"}]
    /\ Registered \subseteq Intents /\ Malformed \subseteq Intents
    /\ Transitions \subseteq IntentLifecycle \X IntentLifecycle
    /\ \A t \in Transitions :
         /\ t[1] \notin Terminal \cup {"denied", "cancelled", "expired"}
         /\ t[2] = "proof_issued" => t[1] = "authorised"
         /\ t[2] \in {"executing", "submitted", "outcome_unknown"} \cup Terminal =>
                t[1] \in {"proof_issued", "executing", "submitted", "outcome_unknown"}
    /\ MaxRequests \in Nat
    /\ NoIntent \notin Intents

VARIABLES
    row,            \* authorised_execution_intents
    request,        \* what each request does
    worker,         \* what the reconciliation worker does
    performed,      \* the intents a provider or resource acted on, and at whose call
    granted,        \* the intents that were once authorised, as committed
    made            \* the requests made so far

vars == <<row, request, worker, performed, granted, made>>

-----------------------------------------------------------------------------

Body == [state : IntentLifecycle, proof : BOOLEAN]
AuthorisedExecutionIntentRecord == [state : IntentLifecycle, proof : BOOLEAN, body : Body]
NoRow == [state |-> "expired", proof |-> FALSE, body |-> [state |-> "expired", proof |-> FALSE]]

Operation == {"create", "approve", "deny", "cancel", "proof", "execute", "submit", "link"}

\* loaded: the ORM object; target: the state the request is about to commit.
Request ==
    [step : {"idle", "insert", "commit", "refresh", "coordinate", "resource", "put"},
     op : Operation \cup {"none"}, intent : Intents \cup {NoIntent},
     loaded : AuthorisedExecutionIntentRecord, target : IntentLifecycle]
Idle == [step |-> "idle", op |-> "none", intent |-> NoIntent, loaded |-> NoRow,
         target |-> "expired"]

\* todo: the intents of the pass that are not reconciled yet; intent: the one it
\* is at, or was at last.
Worker == [step : {"off", "pass", "submitted", "commit", "aborted"}, todo : SUBSET Intents,
           intent : Intents \cup {NoIntent}, loaded : AuthorisedExecutionIntentRecord,
           target : IntentLifecycle]
Waiting == [step |-> "pass", todo |-> {}, intent |-> NoIntent, loaded |-> NoRow,
            target |-> "expired"]
Off == [Waiting EXCEPT !.step = "off"]
Caller == {"execute", "submit", "worker"}

Init ==
    /\ row = <<>>
    /\ request = [r \in Requests |-> Idle]
    /\ worker = Off
    /\ performed = {}
    /\ granted = {}
    /\ made = 0

-----------------------------------------------------------------------------
(* Rows and transitions *)

validate_transition(from, to) == <<from, to>> \in Transitions

Ends(r) == request' = [request EXCEPT ![r] = Idle]

\* The body keeps what it was loaded with, except the state.
BodyIn(loaded, state) == [loaded.body EXCEPT !.state = state]

\* UPDATE skips a column whose value is the loaded one.
Written(column, loaded, new) == IF new = loaded THEN column ELSE new

\* What the commit of _transition_state leaves of a row.
Transitioned(current, loaded, state, proof) ==
    [state |-> Written(current.state, loaded.state, state),
     proof |-> Written(current.proof, loaded.proof, proof),
     body  |-> Written(current.body, loaded.body, BodyIn(loaded, state))]

Commits(i, new) ==
    /\ row' = [row EXCEPT ![i] = new]
    /\ granted' = granted \cup (IF new.state = "authorised" THEN {i} ELSE {})

-----------------------------------------------------------------------------
(* Requests *)

\* create_intent: the scan for the idempotency_key
ScanKey(r) ==
    /\ request[r].step = "idle" /\ made < MaxRequests
    /\ DOMAIN row = {}
    /\ request' = [request EXCEPT ![r] = [Idle EXCEPT !.step = "insert", !.op = "create"]]
    /\ made' = made + 1
    /\ UNCHANGED <<row, worker, performed, granted>>

InsertIntent(r) ==
    /\ request[r].step = "insert"
    /\ \E i \in Intents \ DOMAIN row :
          row' = [j \in DOMAIN row \cup {i} |->
                    IF j = i THEN [state |-> "created", proof |-> FALSE,
                                   body |-> [state |-> "created", proof |-> FALSE]]
                    ELSE row[j]]
    /\ Ends(r)
    /\ UNCHANGED <<worker, performed, granted, made>>

\* The state an operation transitions a record to, as loaded; none: it answers
\* with the record as it is (the idempotent returns).
FirstTarget(op, loaded) ==
    CASE op \in {"approve", "deny"} /\ loaded.state = "created" -> "evaluating"
      [] op = "approve" /\ loaded.state # "created" -> "authorised"
      [] op = "deny" /\ loaded.state # "created" -> "denied"
      [] op = "cancel" -> "cancelled"
      [] op = "proof" -> "proof_issued"
      [] op = "execute" -> "executing"

Replays(op, loaded) ==
    \/ op = "approve" /\ loaded.state = "authorised"
    \/ op = "deny" /\ loaded.state = "denied"
    \/ op = "proof" /\ loaded.proof
    \/ op \in {"execute", "submit"} /\ loaded.state \in Terminal

\* approve_intent, deny_intent, cancel_intent, issue_proof and execute_intent up
\* to the first transition; an illegal one is answered with 409.
LoadIntentUnchecked(r, i, op) ==
    /\ request[r].step = "idle" /\ made < MaxRequests
    /\ i \in DOMAIN row /\ ~Replays(op, row[i])
    /\ request' = [request EXCEPT ![r] =
                     [step |-> "commit", op |-> op, intent |-> i, loaded |-> row[i],
                      target |-> FirstTarget(op, row[i])]]
    /\ made' = made + 1
    /\ UNCHANGED <<row, worker, performed, granted>>
LoadIntent(r, i, op) ==
    /\ request[r].step = "idle" /\ made < MaxRequests
    /\ i \in DOMAIN row /\ ~Replays(op, row[i])
    /\ validate_transition(row[i].state, FirstTarget(op, row[i]))
    /\ request' = [request EXCEPT ![r] =
                     [step |-> "commit", op |-> op, intent |-> i, loaded |-> row[i],
                      target |-> FirstTarget(op, row[i])]]
    /\ made' = made + 1
    /\ UNCHANGED <<row, worker, performed, granted>>

\* The commit of _transition_state, then its refresh where the handler goes on.
CommitTransition(r) ==
    LET q == request[r] IN
    /\ q.step = "commit"
    /\ Commits(q.intent, Transitioned(row[q.intent], q.loaded, q.target,
                                      q.loaded.proof \/ q.op = "proof"))
    /\ request' = [request EXCEPT ![r] =
                     IF q.target \in {"evaluating", "executing"} THEN [q EXCEPT !.step = "refresh"]
                     ELSE Idle]
    /\ UNCHANGED <<worker, performed, made>>

\* approve_intent and deny_intent validate their second transition against the
\* refreshed record, execute_intent makes its remote call next.
Refresh(r) ==
    LET q == request[r]
        loaded == row[q.intent]
        second == IF q.op = "approve" THEN "authorised" ELSE "denied" IN
    /\ q.step = "refresh"
    /\ request' = [request EXCEPT ![r] =
         CASE q.op = "execute" -> [q EXCEPT !.step = "coordinate", !.loaded = loaded]
           [] q.op # "execute" /\ validate_transition(loaded.state, second) ->
                [q EXCEPT !.step = "commit", !.loaded = loaded, !.target = second]
           [] OTHER -> Idle]
    /\ UNCHANGED <<row, worker, performed, granted, made>>

\* The provider or the resource has acted, has not, or may have.
Acts(i, caller, state) ==
    LET acted == performed \cup {<<i, caller>>} IN
    performed' \in CASE state = "succeeded" -> {acted}
                     [] state = "refused" -> {performed}
                     [] OTHER -> {performed, acted}

\* The state an answer is mapped to; any other answer counts as succeeded.
ExecutionState == Terminal \cup {"outcome_unknown", "other"}
Outcome(state) == IF state = "other" THEN "succeeded" ELSE state

\* The record goes to its outcome if the table lets the loaded record go there;
\* otherwise the answer is 409.
Concludes(r, state) ==
    request' = [request EXCEPT ![r] =
        IF validate_transition(@.loaded.state, state)
        THEN [@ EXCEPT !.step = "commit", !.target = state] ELSE Idle]

\* execute_intent: brokered_coordinator.coordinate under the intent's own key
Coordinate(r) ==
    /\ request[r].step = "coordinate"
    /\ \E result \in ExecutionState :
          /\ Acts(request[r].intent, "execute", result)
          /\ Concludes(r, Outcome(result))
    /\ UNCHANGED <<row, worker, granted, made>>

\* The call raises, perhaps after the provider acted: the intent has failed.
CoordinateRaises(r) ==
    /\ request[r].step = "coordinate"
    /\ Acts(request[r].intent, "execute", "failed")
    /\ Concludes(r, "failed")
    /\ UNCHANGED <<row, worker, granted, made>>

\* No bridge, or no adapter for the action: stub execution, reported as success.
StubExecution(r) ==
    /\ request[r].step = "coordinate"
    /\ Concludes(r, "succeeded")
    /\ UNCHANGED <<row, worker, performed, granted, made>>

\* submit_intent up to the call of the resource
LoadSubmit(r, i) ==
    /\ request[r].step = "idle" /\ made < MaxRequests
    /\ i \in DOMAIN row /\ Mode[i] = "resource_owned" /\ ~Replays("submit", row[i])
    /\ request' = [request EXCEPT ![r] = [Idle EXCEPT !.step = "resource", !.op = "submit",
                                                      !.intent = i, !.loaded = row[i]]]
    /\ made' = made + 1
    /\ UNCHANGED <<row, worker, performed, granted>>

\* The resource is called whatever the lifecycle state, short of a final one.
\* It answers with a final state or outcome_unknown.  A transition the
\* table forbids raises inside the try: like any exception of the bridge, and
\* like a missing bridge, it falls back to the stub, a transition to submitted.
SubmitAnswered(r) ==
    /\ request[r].step = "resource"
    /\ \E state \in Terminal \cup {"outcome_unknown"} :
          /\ Acts(request[r].intent, "submit", state)
          /\ Concludes(r, IF validate_transition(request[r].loaded.state, state) THEN state
                          ELSE "submitted")
    /\ UNCHANGED <<row, worker, granted, made>>

SubmitStub(r) ==
    /\ request[r].step = "resource"
    /\ Acts(request[r].intent, "submit", "submitted")
    /\ Concludes(r, "submitted")
    /\ UNCHANGED <<row, worker, granted, made>>

\* Still not final: the reference is stored in the body as it was loaded, and
\* the lifecycle column is left alone.
SubmitPending(r) ==
    LET q == request[r] IN
    /\ q.step = "resource"
    /\ Acts(q.intent, "submit", "submitted")
    /\ row' = [row EXCEPT ![q.intent].body = q.loaded.body]
    /\ Ends(r)
    /\ UNCHANGED <<worker, granted, made>>

\* IntentManager.link_proof (external) over DurableCloudIntentStore.get and put:
\* two sessions; put writes every column from the body it read.
GetForLink(r, i) ==
    /\ request[r].step = "idle" /\ made < MaxRequests
    /\ i \in DOMAIN row
    /\ request' = [request EXCEPT ![r] = [Idle EXCEPT !.step = "put", !.op = "link",
                                                      !.intent = i, !.loaded = row[i]]]
    /\ made' = made + 1
    /\ UNCHANGED <<row, worker, performed, granted>>

PutLinked(r) ==
    LET q == request[r]
        body == [q.loaded.body EXCEPT !.proof = TRUE] IN
    /\ q.step = "put"
    /\ Commits(q.intent, [state |-> body.state, proof |-> TRUE, body |-> body])
    /\ Ends(r)
    /\ UNCHANGED <<worker, performed, made>>

\* A request dies at its next await or database call.
Dies(r) ==
    /\ request[r].step # "idle"
    /\ Ends(r)
    /\ UNCHANGED <<row, worker, performed, granted, made>>

-----------------------------------------------------------------------------
(* The reconciliation worker *)

\* startup with run_worker; the application itself never calls it
startup ==
    /\ worker.step = "off"
    /\ worker' = Waiting
    /\ UNCHANGED <<row, request, performed, granted, made>>

\* shutdown, or the death of the process
shutdown ==
    /\ worker.step # "off"
    /\ worker' = Off
    /\ UNCHANGED <<row, request, performed, granted, made>>

\* _reconcile_once: the bodies as listed decide what the pass looks at; it skips
\* an intent without a client for its target or without a linked proof.
Begins(states) ==
    /\ worker.step \in {"pass", "aborted"} /\ worker.todo = {}
    /\ worker' = [Waiting EXCEPT !.todo =
            {i \in DOMAIN row \cap Registered : row[i].body.state \in states /\ row[i].body.proof}]
    /\ UNCHANGED <<row, request, performed, granted, made>>
ListNonFinalSubmitted == Begins({"submitted"})
ListNonFinal == Begins(NonFinal)

\* _reconcile_intent: the resource answers with a final state
ResubmitFinal(i) ==
    /\ worker.step = "pass" /\ i \in worker.todo
    /\ \E state \in Terminal :
          /\ Acts(i, "worker", state)
          /\ worker' = [worker EXCEPT !.step = "submitted", !.intent = i, !.target = state,
                                      !.todo = @ \ {i}]
    /\ UNCHANGED <<row, request, granted, made>>

\* It has none yet, or the call raises.
ResubmitPending(i) ==
    /\ worker.step = "pass" /\ i \in worker.todo
    /\ Acts(i, "worker", "submitted")
    /\ worker' = [worker EXCEPT !.intent = i, !.todo = @ \ {i}]
    /\ UNCHANGED <<row, request, granted, made>>

\* A state the worker does not know raises outside the try: the pass is over for
\* the intents behind this one too.
ResubmitMalformed(i) ==
    /\ worker.step = "pass" /\ i \in worker.todo \cap Malformed
    /\ Acts(i, "worker", "submitted")
    /\ worker' = [Waiting EXCEPT !.step = "aborted"]
    /\ UNCHANGED <<row, request, granted, made>>

\* mgr.transition: update_state reads and validates the column, in a session of
\* its own; a transition that is not allowed is logged and dropped.
NextOf(w) == [Waiting EXCEPT !.todo = w.todo]

ReadForUpdate ==
    /\ worker.step = "submitted"
    /\ worker' = IF validate_transition(row[worker.intent].state, worker.target)
                 THEN [worker EXCEPT !.step = "commit", !.loaded = row[worker.intent]]
                 ELSE NextOf(worker)
    /\ UNCHANGED <<row, request, performed, granted, made>>

update_state ==
    /\ worker.step = "commit"
    /\ Commits(worker.intent, Transitioned(row[worker.intent], worker.loaded, worker.target,
                                           worker.loaded.proof))
    /\ worker' = NextOf(worker)
    /\ UNCHANGED <<request, performed, made>>

-----------------------------------------------------------------------------

Endpoint(r) ==
    \/ ScanKey(r)
    \/ \E i \in Intents :
          \/ \E op \in {"approve", "deny", "cancel", "proof", "execute"} : LoadIntent(r, i, op)
          \/ LoadSubmit(r, i) \/ GetForLink(r, i)

Continues(r) ==
    \/ InsertIntent(r) \/ CommitTransition(r) \/ Refresh(r)
    \/ Coordinate(r) \/ CoordinateRaises(r) \/ StubExecution(r)
    \/ SubmitAnswered(r) \/ SubmitStub(r) \/ SubmitPending(r) \/ PutLinked(r) \/ Dies(r)

\* The steps of a worker that runs, one pass after the other.
Reconciles ==
    \/ ListNonFinal \/ ReadForUpdate \/ update_state
    \/ \E i \in Intents : ResubmitFinal(i) \/ ResubmitPending(i) \/ ResubmitMalformed(i)

Next ==
    \/ \E r \in Requests : Endpoint(r) \/ Continues(r)
    \/ Reconciles \/ startup \/ shutdown

Spec == Init /\ [][Next]_vars

\* A worker that runs goes on: a loop with a timer.  Nothing is assumed of who
\* starts it, of the requests or of the resource's answers.
FairSpec == Spec /\ WF_vars(Reconciles)

-----------------------------------------------------------------------------
(* Properties *)

TypeOK ==
    /\ DOMAIN row \subseteq Intents
    /\ row \in [DOMAIN row -> AuthorisedExecutionIntentRecord]
    /\ request \in [Requests -> Request]
    /\ worker \in Worker
    /\ performed \subseteq Intents \X Caller
    /\ granted \subseteq Intents
    /\ made \in 0..MaxRequests

\* No intent reaches an outcome, is executed by the coordinator or asked about
\* by the worker unless it was authorised once: stale writers bring states back,
\* but only states an authorised intent was in.  A resource called by
\* submit_intent is not covered: it is called before any lifecycle check.
OutcomeWasAuthorised ==
    /\ TypeOK
    /\ \A i \in Intents :
         <<i, "execute">> \in performed \/ <<i, "worker">> \in performed => i \in granted
    /\ \A i \in DOMAIN row :
         {row[i].state, row[i].body.state} \cap
             ({"proof_issued", "executing", "submitted", "outcome_unknown"} \cup Terminal) # {}
         => i \in granted

Reconcilable(i) ==
    /\ i \in DOMAIN row \cap Registered
    /\ row[i].body.proof /\ row[i].body.state \in NonFinal /\ row[i].state \in NonFinal

\* Once the worker runs, an intent that is submitted or unknown, by column and
\* body, whose target has a client and whose body a proof, is taken out of that
\* state or the resource is asked and has no final answer; unless the worker
\* stops or an answer it does not know aborts its pass.
NonFinalIsReconciled ==
    \A i \in Intents : Reconcilable(i) ~>
        \/ ~Reconcilable(i)
        \/ worker.step = "pass" /\ worker.intent = i
        \/ worker.step \in {"off", "aborted"}
=============================================================================
