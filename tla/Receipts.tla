------------------------------- MODULE Receipts -------------------------------
(***************************************************************************)
(* Receipt ingestion, reconciliation and the action trace:                  *)
(* services/receipts.py and services/audit.py.                              *)
(*                                                                         *)
(* An ingestion is one transaction: the rows it flushes (the receipt, one   *)
(* reconciliation record and one audit event per hook) stay its own until   *)
(* the commit, which also writes the mirror columns of the Action Intent    *)
(* it loaded at the start.  UPDATE writes only the columns whose value      *)
(* differs from the loaded one.  The same payload may be delivered several  *)
(* times and at once; uq_receipt_records_tenant_digest decides.  A trace is *)
(* read table by table, each read seeing what is committed by then.         *)
(*                                                                         *)
(* A payload is reduced to the fields the checks compare: "digest" stands   *)
(* for action_intent_digest, "terms" for intent_id, action_type, amount and *)
(* currency, "nonce" for proof_nonce and audience.  The outcome of schema   *)
(* validation is stored and never refuses a receipt, so it is left out.     *)
(*                                                                         *)
(* ExecutionProofs extends this module and others, hence the prefixes.      *)
(***************************************************************************)
EXTENDS Naturals, FiniteSets

CONSTANTS
    Sessions,       \* sessions that ingest
    Readers,        \* sessions that build a trace
    Payloads,       \* kernel receipts; distinct payloads have distinct digests
    Claims,         \* what a payload says: Payloads -> [Fields -> Values]
    Outcomes,       \* its outcome: Payloads -> {"succeeded", "failed", "other"}
    Links,          \* what its sender links it to: Payloads -> SUBSET {"proof", "escrow"}
    MaxFailures,    \* bound on requests that die
    None            \* a field that is absent

Fields == {"digest", "terms", "nonce", "scope", "provider"}
Values == {"right", "wrong", None}

ASSUME ReceiptsAssumption ==
    /\ Claims \in [Payloads -> [Fields -> Values]]
    /\ Outcomes \in [Payloads -> {"succeeded", "failed", "other"}]
    /\ Links \in [Payloads -> SUBSET {"proof", "escrow"}]
    /\ MaxFailures \in Nat
    /\ None \notin {"right", "wrong"}

VARIABLES
    receipt,        \* receipt_records: receipt_id -> row
    reconciliation, \* reconciliation_records
    audit,          \* audit_events
    intent,         \* the mirror columns of the Action Intent
    providerRef,    \* provider_execution_ref of its escrow record
    session,        \* what each ingestion does
    reader,         \* what each trace has read so far
    answered,       \* the answers given: payload and receipt_id
    failures        \* requests that died

receiptsVars ==
    <<receipt, reconciliation, audit, intent, providerRef, session, reader, answered, failures>>

-----------------------------------------------------------------------------

ReceiptState == {"none", "received", "indexed", "reconciled"}
ReconciliationType == {"intent", "proof", "escrow"}
ReconciliationStatus == {"matched", "mismatch", "manual_review_required"}

IntentExecutionState ==
    {"dispatch_requested", "dispatch_confirmed", "result_observed", "failure_observed"}

\* receipt_id values are drawn in order; 0 is no receipt.
ReceiptId == Nat
ReceiptRecord == [payload : Payloads, state : ReceiptState]
ReconciliationRecord ==
    [receipt : ReceiptId, type : ReconciliationType, status : ReconciliationStatus]
AuditEvent == [receipt : ReceiptId, type : {"ingested"} \cup ReconciliationType]
Mirror == [latest : ReceiptId, receipt : ReceiptState, execution : IntentExecutionState]

\* loaded: the Action Intent as read; todo: the hooks still to run.
Session ==
    [step : {"idle", "lookup", "insert", "hooks", "commit", "answer"},
     payload : Payloads \cup {None}, ref : Values, loaded : Mirror, id : ReceiptId,
     todo : SUBSET ReconciliationType, records : SUBSET ReconciliationRecord,
     events : SUBSET AuditEvent]

Fresh == [latest |-> 0, receipt |-> "none", execution |-> "dispatch_requested"]
IdleSession ==
    [step |-> "idle", payload |-> None, ref |-> None, loaded |-> Fresh, id |-> 0,
     todo |-> {}, records |-> {}, events |-> {}]

Trace == [step : {"idle", "receipts", "records", "events", "built"}, latest : ReceiptId,
          receipts : SUBSET ReceiptId, records : SUBSET ReconciliationRecord,
          events : SUBSET AuditEvent]
NoTrace == [step |-> "idle", latest |-> 0, receipts |-> {}, records |-> {}, events |-> {}]

ReceiptsTypeOK ==
    /\ DOMAIN receipt \subseteq ReceiptId
    /\ \A r \in DOMAIN receipt : receipt[r] \in ReceiptRecord
    /\ reconciliation \subseteq ReconciliationRecord
    /\ audit \subseteq AuditEvent
    /\ intent \in Mirror
    /\ providerRef \in Values
    /\ session \in [Sessions -> Session]
    /\ reader \in [Readers -> Trace]
    /\ answered \subseteq [payload : Payloads, receipt : ReceiptId]
    /\ failures \in Nat

ReceiptsInit ==
    /\ receipt = [r \in {} |-> None]
    /\ reconciliation = {} /\ audit = {}
    /\ intent = Fresh
    /\ providerRef = None
    /\ session = [s \in Sessions |-> IdleSession]
    /\ reader = [t \in Readers |-> NoTrace]
    /\ answered = {}
    /\ failures = 0

tables == <<receipt, reconciliation, audit, intent, providerRef>>

-----------------------------------------------------------------------------
(* Reconciliation *)

\* _check
Check(expected, actual, required) ==
    CASE expected = None /\ actual = None -> "skipped"
      [] actual = None /\ expected # None -> IF required THEN "missing" ELSE "not_provided"
      [] actual # None /\ expected = actual -> "matched"
      [] OTHER -> "mismatch"

Required == {"digest", "terms"}

\* What a hook compares, and the value it expects: the records of the intent
\* hold the right ones.
Compared(type) ==
    CASE type = "intent" -> {"digest", "terms"}
      [] type = "proof" -> {"digest", "nonce", "scope"}
      [] type = "escrow" -> {"digest", "scope", "provider"}
Expected(field, ref) == IF field = "provider" THEN ref ELSE "right"

\* _run_reconciliation_hooks: the intent, then the proof, then the escrow record
Hooks(p) == {"intent"} \cup Links[p]
Before(a, b) == a = "intent" \/ a = b \/ b = "escrow"

Checks(type, p, ref) ==
    {Check(Expected(f, ref), Claims[p][f], f \in Required) : f \in Compared(type)}

\* _reconciliation_status
StatusOf(statuses) ==
    CASE statuses \cap {"mismatch", "missing"} # {} -> "mismatch"
      [] statuses \subseteq {"matched", "skipped"} /\ "matched" \in statuses -> "matched"
      [] OTHER -> "manual_review_required"

\* receipt_state after the hooks
StateAfter(records) ==
    IF records # {} /\ \A x \in records : x.status = "matched" THEN "reconciled" ELSE "indexed"

-----------------------------------------------------------------------------
(* ingest_receipt *)

\* Rows of the table and of transactions that have not ended.
Inserted == {[receipt |-> r, payload |-> receipt[r].payload] : r \in DOMAIN receipt}
Pending == {s \in Sessions : session[s].step \in {"hooks", "commit"}}
NextId ==
    LET used == DOMAIN receipt \cup {session[s].id : s \in Pending} IN
    CHOOSE n \in 1..(Cardinality(used) + 1) : n \notin used

EndSession(s) == session' = [session EXCEPT ![s] = IdleSession]

\* _get_action_intent
LoadActionIntent(s, p) ==
    /\ session[s].step = "idle"
    /\ session' = [session EXCEPT ![s] = [IdleSession EXCEPT !.step = "lookup", !.payload = p,
                                                             !.loaded = intent]]
    /\ UNCHANGED <<tables, reader, answered, failures>>

\* The lookup by tenant and digest
ExistingReceived(p) ==
    {r \in DOMAIN receipt : receipt[r].payload = p /\ receipt[r].state = "received"}
Existing(p) == {r \in DOMAIN receipt : receipt[r].payload = p}

ReplayExisting(s) ==
    /\ session[s].step = "lookup"
    /\ \E r \in Existing(session[s].payload) :
          answered' = answered \cup {[payload |-> session[s].payload, receipt |-> r]}
    /\ EndSession(s)
    /\ UNCHANGED <<tables, reader, failures>>

\* _get_issued_proof and _get_escrow_record
LoadLinks(s) ==
    /\ session[s].step = "lookup"
    /\ Existing(session[s].payload) = {}
    /\ session' = [session EXCEPT ![s].step = "insert", ![s].ref = providerRef]
    /\ UNCHANGED <<tables, reader, answered, failures>>

\* The flush: the unique index makes it wait for an open transaction that
\* inserted the digest, and refuses it once that one committed.
InsertReceiptUnindexed(s) ==
    /\ session[s].step = "insert"
    /\ session' = [session EXCEPT ![s].step = "hooks", ![s].id = NextId,
                       ![s].todo = Hooks(session[s].payload),
                       ![s].events = {[receipt |-> NextId, type |-> "ingested"]}]
    /\ UNCHANGED <<tables, reader, answered, failures>>
InsertReceipt(s) ==
    /\ session[s].step = "insert"
    /\ ~ \E x \in Inserted : x.payload = session[s].payload
    /\ ~ \E t \in Pending : session[t].payload = session[s].payload
    /\ session' = [session EXCEPT ![s].step = "hooks", ![s].id = NextId,
                       ![s].todo = Hooks(session[s].payload),
                       ![s].events = {[receipt |-> NextId, type |-> "ingested"]}]
    /\ UNCHANGED <<tables, reader, answered, failures>>

\* IntegrityError: there is no replay branch, the request fails.
InsertRefused(s) ==
    /\ session[s].step = "insert"
    /\ \E x \in Inserted : x.payload = session[s].payload
    /\ EndSession(s)
    /\ UNCHANGED <<tables, reader, answered, failures>>

\* _create_reconciliation_record; record_event flushes and does not commit.
RunHook(s, type) ==
    /\ session[s].step = "hooks"
    /\ type \in session[s].todo /\ \A other \in session[s].todo : Before(type, other)
    /\ LET status == StatusOf(Checks(type, session[s].payload, session[s].ref)) IN
       session' = [session EXCEPT ![s].todo = @ \ {type},
            ![s].records = @ \cup {[receipt |-> session[s].id, type |-> type, status |-> status]},
            ![s].events = @ \cup {[receipt |-> session[s].id, type |-> type]},
            ![s].step = IF session[s].todo = {type} THEN "commit" ELSE @]
    /\ UNCHANGED <<tables, reader, answered, failures>>

\* _apply_lifecycle_effects, as the UPDATE leaves the row: columns that do not
\* differ from the loaded object keep what is in the table.
Observed(outcome) ==
    CASE outcome = "succeeded" -> "result_observed"
      [] outcome = "failed" -> "failure_observed"
      [] OTHER -> "dispatch_confirmed"

Updated(column, loaded, new) == IF loaded = new THEN column ELSE new

CommitReceipt(s) ==
    /\ session[s].step = "commit"
    /\ LET x == session[s]
           state == StateAfter(x.records)
       IN  /\ receipt' = [r \in DOMAIN receipt \cup {x.id} |->
                    IF r = x.id THEN [payload |-> x.payload, state |-> state]
                    ELSE receipt[r]]
           /\ reconciliation' = reconciliation \cup x.records
           /\ audit' = audit \cup x.events
           /\ intent' =
                [latest |-> x.id,
                 receipt |-> Updated(intent.receipt, x.loaded.receipt, state),
                 execution |-> Updated(intent.execution, x.loaded.execution,
                                       Observed(Outcomes[x.payload]))]
           /\ session' = [session EXCEPT ![s] = [IdleSession EXCEPT !.step = "answer",
                                                    !.payload = x.payload, !.id = x.id]]
    /\ UNCHANGED <<providerRef, reader, answered, failures>>

\* The refresh and the response: the sender has its acknowledgement.
Acknowledge(s) ==
    /\ session[s].step = "answer"
    /\ answered' = answered \cup {[payload |-> session[s].payload, receipt |-> session[s].id]}
    /\ EndSession(s)
    /\ UNCHANGED <<tables, reader, failures>>

\* An exception or the death of the process: a transaction is rolled back, an
\* answer that was due after the commit is lost.
IngestionFails(s) ==
    /\ session[s].step # "idle"
    /\ failures < MaxFailures
    /\ failures' = failures + 1
    /\ EndSession(s)
    /\ UNCHANGED <<tables, reader, answered>>

\* The other writer of the mirror: the escrow service confirms the dispatch,
\* with the provider's reference.
ConfirmDispatch ==
    /\ providerRef = None
    /\ providerRef' = "right"
    /\ intent' = [intent EXCEPT !.execution = "dispatch_confirmed"]
    /\ UNCHANGED <<receipt, reconciliation, audit, session, reader, answered, failures>>

-----------------------------------------------------------------------------
(* build_action_trace: the intent first, the events last *)

ReadIntent(t) ==
    /\ reader[t].step = "idle"
    /\ reader' = [reader EXCEPT ![t] = [NoTrace EXCEPT !.step = "receipts", !.latest = intent.latest]]
    /\ UNCHANGED <<tables, session, answered, failures>>

ReadReceipts(t) ==
    /\ reader[t].step = "receipts"
    /\ reader' = [reader EXCEPT ![t].step = "records", ![t].receipts = DOMAIN receipt]
    /\ UNCHANGED <<tables, session, answered, failures>>

ReadRecords(t) ==
    /\ reader[t].step = "records"
    /\ reader' = [reader EXCEPT ![t].step = "events", ![t].records = reconciliation]
    /\ UNCHANGED <<tables, session, answered, failures>>

ReadEventsAndReceipts(t) ==
    /\ reader[t].step = "events"
    /\ reader' = [reader EXCEPT ![t].step = "built", ![t].events = audit,
                                ![t].receipts = DOMAIN receipt]
    /\ UNCHANGED <<tables, session, answered, failures>>
ReadEvents(t) ==
    /\ reader[t].step = "events"
    /\ reader' = [reader EXCEPT ![t].step = "built", ![t].events = audit]
    /\ UNCHANGED <<tables, session, answered, failures>>

ReturnTrace(t) ==
    /\ reader[t].step = "built"
    /\ reader' = [reader EXCEPT ![t] = NoTrace]
    /\ UNCHANGED <<tables, session, answered, failures>>

-----------------------------------------------------------------------------

Proceeds(s) ==
    \/ ReplayExisting(s) \/ LoadLinks(s) \/ InsertReceipt(s) \/ InsertRefused(s)
    \/ CommitReceipt(s) \/ Acknowledge(s)
    \/ \E type \in ReconciliationType : RunHook(s, type)

Reads(t) == ReadIntent(t) \/ ReadReceipts(t) \/ ReadRecords(t) \/ ReadEvents(t) \/ ReturnTrace(t)

ReceiptsNext ==
    \/ \E s \in Sessions :
          Proceeds(s) \/ IngestionFails(s) \/ \E p \in Payloads : LoadActionIntent(s, p)
    \/ \E t \in Readers : Reads(t)
    \/ ConfirmDispatch

ReceiptsSpec == ReceiptsInit /\ [][ReceiptsNext]_receiptsVars

\* Requests make progress, and a sender repeats a receipt that was not
\* acknowledged.
Unanswered(p) == ~ \E x \in answered : x.payload = p
Resend(p) == Unanswered(p) /\ \E s \in Sessions : LoadActionIntent(s, p)
ReceiptsFairSpec ==
    /\ ReceiptsSpec
    /\ \A s \in Sessions : WF_receiptsVars(Proceeds(s))
    /\ \A p \in Payloads : SF_receiptsVars(Resend(p))

-----------------------------------------------------------------------------
(* Properties *)

RecordsOf(r) == {x \in reconciliation : x.receipt = r}

\* What the checks must amount to: a hook is matched when nothing it compares
\* is contradicted, no expected field is absent, and something was compared.
Bound(type, p, ref) ==
    \A f \in Compared(type) : Claims[p][f] = Expected(f, ref)

\* Whoever delivers it and however often, a payload has at most one receipt;
\* the receipt is visible only with all its reconciliation records and audit
\* events, past the state received, and it is reconciled only if its payload
\* bears out everything it is linked to (provider_execution_ref as it was when
\* the links were read).
WholeIngestions ==
    /\ ReceiptsTypeOK
    /\ \A q, r \in DOMAIN receipt : receipt[q].payload = receipt[r].payload => q = r
    /\ \A r \in DOMAIN receipt :
        /\ {x.type : x \in RecordsOf(r)} = Hooks(receipt[r].payload)
        /\ Cardinality(RecordsOf(r)) = Cardinality(Hooks(receipt[r].payload))
        /\ {e.type : e \in {e \in audit : e.receipt = r}} =
               {"ingested"} \cup Hooks(receipt[r].payload)
        /\ receipt[r].state # "received"
        /\ receipt[r].state = "reconciled" =>
               \A type \in Hooks(receipt[r].payload) :
                   \E ref \in {None, providerRef} : Bound(type, receipt[r].payload, ref)
    /\ {x.receipt : x \in reconciliation} \cup {e.receipt : e \in audit} = DOMAIN receipt
    /\ intent.latest \in DOMAIN receipt \cup {0}
    /\ \A x, y \in answered : x.payload = y.payload => x.receipt = y.receipt

\* A trace is closed although it is read while receipts are ingested: it holds
\* the receipt the intent names as latest, and with every receipt its
\* reconciliation records and audit events.
TraceIsClosed ==
    \A t \in Readers : reader[t].step = "built" =>
        /\ reader[t].latest \in reader[t].receipts \cup {0}
        /\ \A r \in reader[t].receipts :
            /\ RecordsOf(r) \subseteq reader[t].records
            /\ \A e \in audit : e.receipt = r => e \in reader[t].events

\* A receipt its sender repeats is acknowledged in the end, also when the first
\* answer was lost after the commit: the repetition finds the receipt and is a
\* replay, as is the repetition of a request that lost the race on the digest.
EveryReceiptAcknowledged == \A p \in Payloads : <>(~Unanswered(p))
=============================================================================
