# Actenon Cloud in TLA+

This directory holds a TLA+ development of the control plane in `src/app`: the
modules that model it, the TLC configurations that check them on small
instances, and proofs of the central results that TLAPS checks for every
instance. `PROJECT.json` maps each definition to the source lines it models and
lists the runs, the mutants that show that each property can fail, the findings,
the hazards and the theorems.

## 1. The system

An **Action Intent** is taken in, checked against a policy, possibly put up for
**approval**, backed by **evidence**, and answered with a signed **proof**
(PCCB). From an issued proof a **capability escrow** record is created; it is
held, released (a token is handed out once) and consumed (once), and the
execution is then observed. Receipts reconcile what happened with what was
authorised. A brokered **execution worker** carries out actions for clients that
do not execute themselves. Around this core are the signing keys, the issuer
registry, counter-signing, a transparency log, and the HTTP layer.

All state is in a relational database. No component talks to another by
messages: they share tables and call each other inside one database session.

### 1.1 What every component rests on: the database session

`src/app/database.py` gives every HTTP request one SQLAlchemy session.

| fact | consequence in the models |
|---|---|
| one session per request, any number of requests at once (lines 33-50) | every handler is split where it lets other sessions commit: a *Load* (SELECT) step and a *Commit* step |
| `autoflush=False` | a SELECT does not see the session's own pending changes in its WHERE and ORDER BY; the object it returns is the changed one, by identity |
| `expire_on_commit=False` | objects loaded before a commit are not refreshed after it; `session.get()` returns the stale object |
| ORM change tracking | a flush writes exactly the columns whose value differs from the loaded one, with no condition on the row |
| `UPDATE ... WHERE status = ...` with `rowcount` | a claim: the condition is evaluated on the current row, under its lock |
| exception: rollback | `Abort` steps: nothing that was not committed survives |
| READ COMMITTED (PostgreSQL); SQLite in tests | two SELECTs of one handler may see different commits |

### 1.2 Inventory

| component | state | operations | what is hard | what makes it correct |
|---|---|---|---|---|
| Capability escrow (`services/escrow.py`) | `escrow_records`, `escrow_transition_records`, the intent's `execution_state` | create_hold, release, consume, revoke, quarantine, record_execution_update, expiry on read | races between handlers that check one read and write later; only release and consume claim the row; several records per intent | single use; dead records stay dead; one token, returned once; the history explains the row; the intent keeps up with the record |
| Approval workflow (`services/approvals.py`) | `approval_requests`, `approval_decisions`, the intent's `approval_state` | initialize, record_decision, get/list_request, synchronize | decisions counted from a stale collection; expiry on read; separate SELECTs | satisfied means a quorum; one decision per principal; closed stays closed; status follows the decisions |
| Execution worker (`services/execution_worker.py`) | `execution_jobs`, the provider's effects | submit, run, cancel, recover | crash between commits, retries, two processes on one job, stale copies, timeouts with unknown outcome | a success was performed; bounded attempts; a recorded answer stays; a run settles its job; only open jobs are cancelled (it does not hold: section 6) |
| Proof issuance (`services/issuance.py`) | `issued_proofs`, the intent's `issuance_state` | issue_proof, expiry on read, lookup | eligibility read before the insert; partial unique index over requested and issued; signer failure; renewal | at most one active proof per intent; no proof without approval and evidence |
| Evidence (`services/evidence.py`) | `evidence_records`, blobs, the intent's `evidence_state` | register, upload, verify, expiry | blob written outside the transaction; state recomputed from a stale set | the state is satisfied only with the required evidence valid |
| Action Intent intake (`services/action_intents.py`) | `action_intent_records` | create, read, idempotent replay | concurrent replays of one idempotency key; conflict then rollback | one decision per key; a replay answers the stored record, whatever payload it carries (the code compares no digest) |
| Signing keys (`services/signing.py`) | `signing_keys` | register, activate, rotate, suspend, revoke | two activations; default key | one active default per tenant and purpose |
| Policy engine (`services/policy_engine.py`) | `policies` | create, update, activate, evaluate | activations and updates that go by the policy as loaded; rule precedence | a decision is what an active policy said; one policy is active (it does not hold: section 6) |
| Receipts (`services/receipts.py`) | `receipt_records`, `reconciliation_records`, the intent's mirror columns | ingest, reconcile | duplicate and overlapping delivery; an intent loaded before others wrote it | a receipt is ingested once and whole; mismatches are never reconciled; a receipt sent again, also after a lost answer, is acknowledged |
| Audit (`services/audit.py`) | `audit_events` | append, build traces | events inside the callers' transactions; a trace read table by table | a trace holds what it refers to |
| Transparency log (`services/transparency_log.py`) | state row, leaves, checkpoints, integrity events | append, publish, audit, prove | no row to lock before the first append; signer failure and retry; proofs without a lock | the log passes its audit; proofs verify; checkpoints extend one another |
| Issuer registry (`services/issuer_registry.py`) | issuers, status publications, audit events | register, change standing, publish, answer | the signature is made between two locks | a publication states the standing of its moment; revocation is final |
| Counter-signing (`services/countersigning*.py`, `key_set_publisher.py`) | keys, provider keys, published key set | provision, rotate, revoke, sign | three places that change one after the other; a shared temporary file; a rotation of a key that is being revoked | revoked keys cannot sign; every signer was published; a revocation stays on record |
| AEI intents (`api/intents.py`, `services/intent_store.py`, `services/permit_gateway_bridge.py`) | intent rows (columns and JSON body) | lifecycle transitions, reconciliation | load, check, remote call, write without a condition; columns and body that come apart; a worker that skips and aborts | no outcome for an intent nobody authorised; a running worker settles what it can see; legal transitions only (it does not hold: section 6) |
| Credentials, kernel bridge, access control, usage, shell, UI | see `PROJECT.json` | | | not modelled: section 7 |

How they interact: intake calls policy evaluation and `initialize_for_action_intent`
in its own transaction; reads of an intent call `synchronize_action_intent_state`;
issuance reads the approval and evidence state; escrow reads the issued proof and
writes the intent; receipts read the escrow record and write the intent. The one
shared mutable row is the Action Intent, which each service updates with a mirror
of its own state.

## 2. Modules

| module | role |
|---|---|
| `Escrow` | the capability escrow, every handler |
| `CapabilityLedger` | what the escrow promises: a single-use capability with one key |
| `EscrowProofs` | TLAPS proofs about `Escrow` |
| `MCEscrow` | instances for TLC |
| `Approvals` | the approval workflow |
| `ApprovalBallot` | what the approval workflow promises to those who read a request |
| `ApprovalsProofs` | TLAPS proofs about `Approvals` |
| `MCApprovals` | instances for TLC |
| `ProofIssuance` | proof issuance, with the evidence and the keys it reads; composes `ApprovalBallot` |
| `IssuanceProofs` | TLAPS proofs about `ProofIssuance` |
| `MCProofIssuance` | instances for TLC |
| `ExecutionWorker`, `MCExecutionWorker` | the brokered worker, its clients and the provider |
| `TransparencyLog`, `MCTransparencyLog`, `TransparencyLogProofs` | the transparency log |
| `AppendOnlyLog` | what the log promises: each checkpoint's tree extends the one before |
| `Merkle` | the Merkle tree of the log and its proofs, as operators, with the relying party's verifiers |
| `CounterSigning`, `MCCounterSigning`, `CounterSigningProofs` | the keys of counter-signing, their provider, the published files and signing |
| `IssuerRegistry`, `MCIssuerRegistry`, `IssuerRegistryProofs` | standing changes, status publication, the public status request |
| `Receipts`, `MCReceipts` | receipt ingestion with reconciliation and audit, and the action trace |
| `ExecutionIntents`, `MCExecutionIntents` | the AEI endpoints, the durable store and the reconciliation worker |
| `ExecutionProofs` | TLAPS proofs about the two ways to execute, `ExecutionIntents` and `ExecutionWorker`, and about `Receipts`, where the result is reported |
| `Intake`, `MCIntake`, `IntakeProofs` | policies, their evaluation, and the intake of Action Intents |

### 2.1 Escrow

`escrow[p]` is the row of proof `p` (the table has a unique constraint on the
issued proof, so a record is named by its proof), `history[p]` its transition
rows, `intentExec[i]` the intent's mirror, `latest[i]` which record of the intent
has the largest `updated_at`. `minted`, `returned` and `confirmed` are history
variables about tokens signed, tokens sent to a client and answers of
`create_hold`.

Each handler is `LoadX` (get_record, the checks, early returns), `Synchronize` (the
intent is loaded and its `execution_state` assigned) and `CommitX` (the write, the
transition row, the UPDATE of the intent and the commit: one transaction under the
row lock). `release_capability` has one more step, the response, because a crash
after the commit loses the token. `LoseRelease`, `LoseConsume` and `ConflictCreate`
are the branches for `rowcount != 1` and for the `IntegrityError`. A handler that
finds the record overdue expires it and then fails on the expired status; this is
`LoadOverdue`/`CommitExpire`, for one record or, as in `list_records`, several.

`SyncValue` is what `_synchronize_action_intent_execution_state` assigns: after a
flush or a Core UPDATE its query finds the record just written; before the flush it
orders by the old `updated_at` values and may find another record (`MirrorPending`).
`sync[s]` keeps the value and whether it differs from the one loaded; `FlushesIntents`
writes only what differs, so a session that found the column as it wants it leaves
whatever another has written since. `IngestReceipt` is the other writer of that
column, the receipt service, which looks at no escrow record; `observed` says which
intents it wrote last.

In release and consume the claim comes before the synchronization in the code and
with the commit in the model: the claim locks the row, so no other writer of that
record commits in between. `updated_at` values follow the order of the commits, and
`list_records` expires what one SELECT found.

Abstracted: token signing and digest (a token is a fresh value and stands for its
digest), actors and reasons, audit rows, tenant checks. `external_managed` release
mode only refuses to release and is a constant.

### 2.2 Approvals

The request, its decisions and its intent are read by separate SELECTs
(`SelectRequest`, `SelectRelated`), and the decision is inserted and the status
written by `CommitDecision`. The status that is written is computed from the
collection that the session loaded plus its own decision. `Flush(current, loaded,
own)` is change tracking: a column is written only if the session's value differs
from the loaded one, so a session that loaded `pending` and concludes `pending`
writes no status. `record_decision` ends in a second `get_request` on the same
object, `RefreshAfterDecision`. `synchronize_action_intent_state` reads the intent
and then its request. `list_requests` is the same read over several requests;
since each intent has one request and their writes are independent, it is modelled
one intent at a time. Assignments, roles and the ban on self-approval are the set
`Eligible[i]`; reasons, evidence citations and audit rows are left out.

`ApprovalBallot` is the promise: a request collects one decision per eligible
principal, becomes satisfied only by an approval that completes the quorum and
rejected only by a rejection, and never opens again. It allows one closed verdict
to replace another, because the code does (section 6). `ImplementsBallot` says that
`Approvals` implements it.

### 2.3 ExecutionWorker

`job[j]` is the row, `process[w]` a process with the copies it loaded, `effects`
what the provider has carried out, `calls[j]` how often the executor was called.
Each commit of `run_job` is a step: the move to `running` (`StartJob`), the
incremented `attempt_count` (`BeginAttempt`), the call (`CallExecutor`, external),
and the answer (`SettleJob`, or `DeadLetter` when no attempt is left).
`recover_pending_jobs` loads every open job at once and runs them one after the
other on copies that age. `Crash` drops the copies and leaves the rows. Unknown
and retryable answers may or may not have had their effect. `submit_job` and
`cancel_job` are a SELECT and a commit of a client's session. Nothing in `src/app`
constructs the worker: who calls `run_job` and `recover_pending_jobs`, and when, is
left open.

### 2.4 ProofIssuance

`proof[p]` is a row of `issued_proofs`, `issuing[s]` what a session running
`issue_proof` has read and is about to write. The steps follow the statements that
let others commit: `Ask` (the API handler reads the intent), `SelectApproval`,
`SelectEvidence`, the search for an issued proof of the same slot (`Replay`,
`FindNone`, `FindOverdue`), the flush (`InsertRequested`, `InsertRejected`,
`ConflictInsert`), `ResolveKey` or `RefuseKey`, and the commit after the signature
(`CommitIssued`, `CommitFailed`).

A *slot* is an intent with a proof kind, audience and scope: the columns of
`uq_issued_proofs_active_idempotency`. The requested row is in the table from the
INSERT on, before the commit, because the index already sees it: a second INSERT
into the slot waits (`SlotTaken`) and then conflicts. The same flush updates the
overdue proof the search found (UPDATEs go before INSERTs), which locks that row
until the commit (`RowLocked`). `Abort` is the rollback and removes the row.

The approval workflow around issuance is `ApprovalBallot`, so what is shown here
holds for `Approvals` and for anything else that implements the ballot. Evidence
is registered in one step and expires with the clock. Its `expired` flag repeats
what `expires_at` says and is left out, as are `approval_state` and
`evidence_state` of the intent: the handler recomputes both from the rows before it
uses them. Whether a pending request is past its expiry is a free choice (`late`).
A key named by the caller may be one that the session already loaded with the
overdue proof; `session.get` then trusts the status it had (`seen`, `seenActive`).
Reactivation of retired keys, which the code refuses, is not excluded: the results
hold with more freedom than the code has. The `rejected` branch after `sign_proof`
has no step: `sign_proof` repeats the test that `resolve_key` has just made on the
same object, and the backend raises neither of the errors it names. Nor has the
`IntegrityError` after the signature: the row is in the index already.

### 2.5 TransparencyLog, Merkle, AppendOnlyLog

`state` is the log's row, `leaves` and `checkpoint` the tables, `event` the codes of
the last integrity event. Appends, publications and audits take the row's lock
(`TakesRow`) to the end of their transaction; before the first append there is no
row, and whoever looks for it locks nothing (`_locked_state`). A publication is
`LockPublish`, which audits, then `RefusePublish`, `ReplayPublish` or
`RequestCheckpoint`, and after the signer's answer `FailCheckpoint` or
`CompleteCheckpoint`; the requested record is flushed and never committed as such.
Proofs are served from two SELECTs without a lock (`SelectCheckpoints`,
`ServeProof`). `Corrupt` is not the code's: it replaces leaves and makes the state
row agree, so that only the checkpoints can tell; it is there for the audit to have
something to find.

A hash is the term it was computed from, so collisions are excluded by construction
and stated as an assumption on `MerkleRoot`. `Merkle` has the generators of
`transparency_format.py` (top down, recursive) and the verifiers of RFC 9162
(bottom up), which belong to the relying party; `MCTransparencyLog` checks one
against the other for all trees up to nine leaves. Merkle is recursive and therefore
kept out of `TransparencyLog`, where the root is a parameter.

### 2.6 CounterSigning

`key` is the committed table, `provider` the HSM or KMS (external), `current`,
`temporary` and `versioned` the published files, `op[o]` an operator's lifecycle
operation and `signing[g]` a signature request. A provision or rotation goes through
the provider (`ProvisionKey`), the flush (`FlushKeys`), the version file
(`WriteVersion`), the current document through a temporary file (`OpenTemporary`,
`WriteTemporary`, `ReplaceCurrent`) and the commit (`CommitLifecycle`); a revocation
starts with `DisableKey` and `StampRevoked`. `FailLifecycle` ends it anywhere. The key
set is built from the rows as the session holds them (`View`), and the flush writes the
columns the operation changed (`RowAfter`): a rotation writes `retired` over a `revoked`
that was committed after it loaded the key, and leaves `revoked_at` alone. The rows
that record an operation's authorisation, denial and failure are left out. The
temporary path is the same for every publication, so files are modelled by what
`open`, `write` and `rename` do to a path that others may have open.

### 2.7 IssuerRegistry

`issuer[i]` has a standing and a version, `publication[p]` a status publication,
`audit[i]` the events in commit order. `LockChange`/`StampChange`/`CommitChange` are
`_change_standing`; a revocation commits and then publishes. A publication is
`RequestPublication` (under the lock, whose commit releases it), `BuildStatement`,
`StatusSigned` or `SigningFails`, `Relock`, and `CompletePublication` if the version
is still the one signed, or `DiscardPublication`. `LockStatus`/`AnswerStatus` are the
public endpoint.

### 2.8 Receipts

An ingestion is one transaction: `LoadActionIntent`, the lookup by digest (`ReplayExisting`
or `LoadLinks`), the flush (`InsertReceipt`, which waits for an open transaction with
the same digest, or `InsertRefused`), a `RunHook` per reconciliation in the code's
order, `CommitReceipt`, and after it the answer, `Acknowledge`. `IngestionFails` before the
commit rolls back; after it the receipt is there and the answer lost. The payload is reduced to the fields the checks compare. The
commit writes the mirror columns of the intent that differ from what was loaded;
`ConfirmDispatch` is the other writer of that row, in the escrow service. A trace is
four reads. `MCReceipts` checks the status of a reconciliation against its meaning
for every payload and every expected value.

### 2.9 ExecutionIntents

A row has its lifecycle state and its linked proof twice: in columns, which the
endpoints use, and in the JSON body, which the store and the worker use. `LoadIntent`
is every endpoint up to its first transition, `CommitTransition` the commit of
`_transition_state`, `Refresh` what follows where the handler goes on. Execution is
`Coordinate`, `CoordinateRaises` or the stub; submission is `LoadSubmit` and
`SubmitAnswered`, `SubmitPending` or `SubmitStub`. `GetForLink`/`PutLinked` are
`IntentManager.link_proof` over the durable store.

`submit_intent` calls the resource before any lifecycle check, short of a final state:
`performed` records who acted on an intent at whose call, and for submissions nothing is
shown about it. The worker is started and stopped (`startup`, `shutdown`; the
application itself starts none), lists the intents that are not final, have a client for
their target and a linked proof in the body (`ListNonFinal`; the others are skipped),
asks the resource (`ResubmitFinal`, `ResubmitPending`), and writes (`ReadForUpdate`,
`update_state`). An answer whose state is not in the enumeration raises outside the `try`
and ends the pass for the intents behind it (`ResubmitMalformed`).

The transition table is in the external `actenon_permit` package. The module takes it
as a parameter with three assumptions that the properties need; `MCExecutionIntents`
gives the table that this repository's callers and tests rely on. The coordinator and
the resource are external too. Their callers hand them `idempotency_key = intent_id` or
the linked proof and expect them to act once; the code has no guard of its own, so the
model lets them act at every call (`Acts`), and nothing is claimed about how often.

### 2.10 Intake

`policy` and `record` are the tables of one tenant and workflow, `session` the
requests. Policies are created (`ReadVersion`, `InsertPolicy`), updated (`LoadDraft`,
`CommitUpdate`) and activated (`LoadForActivation`, `SelectActives`,
`CommitActivation`), each by the rows as loaded. An intake is `ReplayRecord` or
`LookupKey`, `EvaluatePolicy`, `InsertRecord`. `evaluate` is the policy engine: hints
that contradict the payload, contracts that are not valid, actions that are not
executable, classes the policy does not govern, then the rules by priority and
position, then the default. `MCIntake` checks `FirstMatch` against a sort followed by
a scan. `wasActive` records what each policy said whenever it was active. The payload is
independent of the key: a key sent again with another payload is answered with the
stored record. `_apply_operator` has the operators that `PolicyCondition` admits
(`api/policies.py:45-60`); the `raise` for any other is out of reach of the API.

## 3. Runs

| run | shows |
|---|---|
| `Escrow_race` | three sessions, one record, every handler: one winner per claim, the token returned once, a hold is what every client was told and within its proof, dead is final, the transition table explains the row, the intent keeps up with its record beside receipts that write it too, refinement of `CapabilityLedger` |
| `Approvals_race` | three sessions and an expiry: quorum behind every `satisfied`, refinement of `ApprovalBallot` (one decision per principal, closed is final, a verdict has its decision) |
| `Approvals_quorum` | violation, section 6 |
| `ExecutionWorker_crash` | one process runs and recovers two jobs and crashes between any two commits, a client submits and cancels: the attempt budget holds, a success was performed, a recorded answer stays although a cancellation may overwrite the status, and a job that a run took up is settled unless the process crashes or the executor never returns |
| `ProofIssuance_race` | two sessions issue and renew a proof of one slot while approvals, evidence, keys and the clock move: no proof without quorum and current evidence, one valid proof at a time, no orphaned row, a key that was active during the request |
| `TransparencyLog_race` | two sessions append, publish, audit and prove, a signature fails, the tables are once rewritten from outside: an intact log passes its audit, false alarms come only before the first append is committed, proofs verify, refinement of `AppendOnlyLog` |
| `CounterSigning_overlap` | two operators and a signer, any call may fail: revoked keys are disabled, no signature is dated after its key's revocation, every signer was published, a completed revocation keeps its `revoked_at` and its key disabled |
| `CounterSigning_recovery` | violation, section 6 |
| `IssuerRegistry_publish` | three sessions change, publish and ask for one issuer: the audit replays to the record, publications and answers state the standing of their moment, artifacts of an earlier standing expire, revocation is final |
| `Receipts_delivery` | two payloads delivered at once and again while a trace is read and requests die: one whole receipt per payload, closed traces, every receipt acknowledged although answers get lost |
| `ExecutionIntents_overlap` | two overlapping requests and a worker that starts, stops and aborts: no outcome, execution or resubmission of an intent nobody authorised; a running worker settles an eligible intent or has asked about it |
| `Intake_race` | two requests on two policies, two payloads under one key: decisions are explained by an active policy, one decision per key |

**Bounds.** The races here are between a check and a write, so two sessions show
each one; `Escrow_race` and `Approvals_race` have three, so that a third can act
between the two. Two tokens and two bindings tell a winner from a loser. The clock
needs a value before and one after each expiry. Two required approvals out of three eligible principals
leave room for a quorum, a duplicate and a rejection, and the requester is there
as the ineligible one. `MaxRetries = 1` gives a first attempt and a retry, and
two crashes let a process die in two different places. One process is the
premise of `AttemptBudget` and `AnswerKept`; that a success was performed also when two
processes run the same jobs is left to the theorem. `ProofIssuance_race` has
two proof identifiers, a proof and its renewal, and a clock of three values: issued,
overdue, renewed. One principal, one piece of evidence and one key are enough
there, since what can go wrong is when they are read, not how many there are.
Three digests give the log a tree whose two sides differ in size and two
consistency proofs; one corruption and one failed signature are one more than none,
and each can fall anywhere. Two keys are a key and its successor. Three sessions let
a standing change and a status request fall into one publication, and three versions
let a standing change twice. Two payloads that differ in the provider's reference and
in their links reach every status of a reconciliation. Six requests take an intent
from creation to an outcome with one stale request beside it. Six policy requests
create, update and activate both policies with one to spare. One key is enough: records of
different keys never meet, and two payloads show that the first one sent decides. One
intent with a client and one without show what the worker skips.
`MaxTime`, `MaxCrashes`, `MaxFailures`, `MaxCorruptions`, `MaxVersion`, `MaxRequests`
and `MaxSteps` bound counters that are unbounded in the code. Symmetry is used in the
safety runs only. `CHECK_DEADLOCK FALSE` is set, except in `Intake_race`, because
requests may simply stop coming and the bounded counters stop.

**Fairness.** `ExecutionWorker`: `WorkerFairSpec` assumes `WF(OwnStep(w))`: `run_job` is
a synchronous loop that always goes on to its next statement. Nothing is assumed of the
executor, whose timeout is handed over and not enforced, nor of anybody calling
`run_job` or `recover_pending_jobs`: in the repository only the tests do. `RunSettlesJob`
therefore speaks of jobs that a run has loaded, and excepts a crash and a call that never
returns.

`Receipts`: a request makes progress (`WF(Proceeds(s))`), and a sender repeats a
receipt that was not acknowledged (`SF(Resend(p))`, strong because both sessions may
be busy in between). The second is an assumption on the sender: the server has no
queue of its own.

`ExecutionIntents`: `WF(Reconciles)`: a worker that runs is a loop with a timer and goes
on. That one is started, that it is not stopped, that a resource has a final answer and
that anybody calls the API is not assumed; `NonFinalIsReconciled` excepts a worker that
is off or whose pass was aborted, and is content with a resource that was asked.

## 4. Proofs

`EscrowProofs` proves, for any sets of sessions, proofs, tokens and bindings, any
expiry times and any clock bound, from `ConstantsAssumption` alone:

| theorem | result |
|---|---|
| `TypeCorrect` | `Spec => []TypeOK` |
| `DeadIsFinal` | `Spec => DeadStaysDead` |
| `TokenOnce` | `Spec => []TokenReturnedOnce` |
| `SingleUseHolds` | `Spec => []SingleUse` |
| `HoldsAsConfirmed` | `Spec => []HoldAsConfirmed` |
| `SoleMirrored` | `Spec => []SoleRecordMirrored` |
| `HistoryExplains` | `Spec => []HistoryExplainsRecord` |
| `EscrowImplementsLedger` | `Spec => ImplementsLedger`, the refinement |

The argument. `TypeOK` is not inductive: `MirrorPending` reads
`escrow[latest[i]]`, so a write in flight needs `latest[i]` to be a proof.
`BaseInv` adds `TargetsExist` (a session that is past its SELECT works on a record
that exists) and `LatestKnown` (an intent with a record has a latest one, of its
own). `DeadIsFinal` then follows action by action: the claims require a live
status, the ORM writes of revoke, quarantine and expiry write a dead one, and the
execution update writes no status.

`TokenInv` says where a token can be: signed and in the hands of one releasing
session, then in one row, then in the response. It rules out that two records keep
one digest, which `TokenReturnedOnce` cannot rule out on its own.

`HistoryInv` relates the status to the transition table (`HistoryFits`): a record
that is held has no release entry, one that is released has one and no consume
entry. With it a claim that succeeds adds the first entry of its kind, after the
entry of the phase before it, and `OnePass` is preserved. Without it `SingleUse`
is not inductive, because nothing ties what the claim tests (the row) to what the
property speaks of (the table).

`HoldAsConfirmed` needs to know of a creation in flight that the expiry it is about
to write is within the proof's (`ConfirmInv`). `HistoryExplainsRecord` needs to know
that an execution update on its way is for a record that was consumed, although the
row may have been overwritten since (`ExplainInv`): the consume entry stays in the
table, the status need not. `SoleRecordMirrored` needs to know what a session's copy of
the intent can be (`MirrorInv`): the value assigned is the record's new one, since for an
intent with one proof the query before the flush and the one after it find the same
record, and it was found unchanged only if the record had already got that far
(`Reached`), from where it never goes back.

The refinement maps a status to a phase (`PhaseOf`) and the digest to the key;
each step of `Escrow` is one step of the ledger or a stutter, expiry of several
records included.

`ApprovalsProofs` proves, from `ApprovalAssumption` alone:

| theorem | result |
|---|---|
| `TypeCorrect` | `Spec => []TypeOK` |
| `QuorumHolds` | `Spec => []QuorumBehindSatisfied` |
| `OneDecisionHolds` | `Spec => []OneDecisionPerPrincipal` |
| `ApprovalsImplementBallot` | `Spec => ImplementsBallot`, the refinement |

`ApprovalInv` adds to the two invariants what a session in flight may rely on
(`Grounded`): the decisions it loaded are still in the table, since decisions are
never deleted, so a quorum counted on the copy is a quorum of the row; a status it
is about to mirror as satisfied has its quorum; and it works on a request that
exists. Only so does `QuorumBehindSatisfied` survive writes computed from stale
copies.

`IssuanceProofs` proves, from `IssuanceAssumption` alone:

| theorem | result |
|---|---|
| `TypeCorrect` | `Spec => []TypeOK` |
| `IssuedOnQuorum` | `Spec => []IssuedBehindQuorum` |
| `IssuedOnEvidence` | `Spec => []EvidenceWasCurrent` |
| `OneValid` | `Spec => []OneValidProof` |
| `NoOrphanRequest` | `Spec => []RequestedInFlight` |
| `KeysWereActive` | `Spec => []KeyWasActive` |

`IssuanceInv` has four parts. `BallotSound` and `ReadsSound` carry a quorum and
enough evidence from the read to the commit: decisions and evidence are only ever
added, and a clock that moves on does not change what was current when the request
arrived. `StaleSound` says that the proof a session is about to expire is overdue
for good. `SlotSound` says that a session that signs holds its slot against every
active row but that one, which with `OneSignerPerRow` gives `OneIssued`, and with the
expiry times `OneValidProof`. `KeySound` says that the keys which have not been
active since the request arrived are neither active, nor in the session's copy, nor
chosen.

`IssuerRegistryProofs` proves, from `RegistryAssumption` alone:

| theorem | result |
|---|---|
| `AuditExplains` | `Spec => []AuditExplainsRecord` |
| `PublishedInVersion` | `Spec => []PublishedInItsVersion` |
| `EarlierExpires` | `Spec => []EarlierStandingExpires` |
| `AnswersCurrent` | `Spec => []AnswersCurrentStanding` |
| `RevocationFinal` | `Spec => RevocationIsFinal`, an action property |

`RegistryInv` says what the row lock protects: a session past its lock holds it
(`HoldersLock`) and has the row as it is (`Sound`); a publication is in the hands of
one session (`OnePublisher`); a requested or signed publication carries a version that
the issuer had, with the standing it had then (`PublicationSound`), and the audit's
last event is the row (`AuditSound`). The signature is made without the lock, so that
part of the invariant must hold while versions move on; `Relock` compares them again,
and only then does "was current" become "is current".

`CounterSigningProofs` proves, from `CounterSigningAssumption` alone:

| theorem | result |
|---|---|
| `RevokedDisabled` | `Spec => []RevokedIsDisabled` |
| `SignaturesPrecede` | `Spec => []SignaturesPrecedeRevocation` |
| `SignerPublished` | `Spec => []SignerWasPublished` |
| `RevokedAtKept` | `Spec => []RevokedAtIsKept` |

`SigningInv` follows a key through the three places that know it. `KeySound`: whoever
says that a key is revoked, the row, a file (the half-written temporary one included)
or a document that an operator is about to write, says so after the provider disabled
it. `OperationSound` does the same for operations in flight, `RowsLocked` says that
rows flushed and not committed are locked, `StampsKept` that no operation takes back a
`revoked_at` (a rotation that had loaded the key writes its status over the revocation's,
but not that column), and `SigningSound` that a signature under way is
dated in the past and by a key that some version lists.

`ExecutionProofs` proves three components. Of `ExecutionIntents`, from `ExecutionIntentsAssumption` (which holds the
assumptions on the external transition table, section 2.9):

| theorem | result |
|---|---|
| `OutcomesAuthorised` | `Spec => []OutcomeWasAuthorised` |

The property speaks of rows; what makes it inductive is that every copy of a row, in
an endpoint, in `link_proof` and in the worker's list, is *warranted*: its state, in the
column and in the body, could be reached only behind an authorisation that is on
record (`Warranted`, `RequestSound`, `WorkerSound`). Writing back an old copy then
never takes away the warrant. What a resource does at the call of `submit_intent` is not
part of the property: that call comes before the check. The theorem is about `Spec`;
fairness plays no part.

Of `ExecutionWorker`, from `WorkerAssumption`:

| theorem | result |
|---|---|
| `SuccessPerformed` | `WorkerSpec => []SuccessWasPerformed` |
| `AttemptsBounded` | `WorkerSpec => []AttemptBudget` |
| `AnswersKept` | `WorkerSpec => AnswerKept` |

`BrokerInv` has what every number of processes keeps: a row is inserted before any
session or process has a copy of it and keeps its key, a process works on one of the
jobs it loaded, and a positive answer that it is about to write down is true
(`ProcessSound`). An old copy can then be written over a newer row without making a
success up. `BudgetInv` is about a single process, the premise of `AttemptBudget`: the
row counts a call before it is made, and the copy in the process's memory, which decides
about the next attempt, has the row's count (`CountSound`). A crash between the commit
and the call loses an attempt and never adds one. `AnswerInv`, of a single process too,
says that a job with an answer is settled or cancelled and no longer in the process's
memory, so that nobody can load or write it again but a cancellation, whose UPDATE does
not have the column. With two processes it fails: the second runs its copy again.

Of `Receipts`, from `ReceiptsAssumption`:

| theorem | result |
|---|---|
| `MatchedIsBound` | `StatusOf(Checks(type, p, ref)) = "matched" <=> Bound(type, p, ref)` |
| `IngestionsWhole` | `ReceiptsSpec => []WholeIngestions` |
| `TracesClosed` | `ReceiptsSpec => []TraceIsClosed` |

`MatchedIsBound` says that the checks of a hook and the rule that sums them up amount to
the agreement of every field compared. `ReceiptsInv` says that open transactions have
ids and payloads that no other transaction and no row has (`Apart`, `SessionSound`),
that their records and events are those of the hooks that ran, all against one value
of the provider's reference, which is still the row's or was absent (`ReceiptSound` says
the same of committed rows), and that a reader is closed as far as it has read
(`ReaderSound`): it reads the intent first and the events last, and all rows of a
receipt appear with it.
The ids in use are finitely many, so that the next one is always new.

The three modules have no name in common, so that `ExecutionProofs` can extend them all;
`WorkerSpec`, `ReceiptsSpec` and their like are prefixed for that reason.

`IntakeProofs` proves, from `IntakeAssumption` and `PolicyAssumption` (rules, defaults
and payloads have the types that `PolicyRule` and its neighbours in `api/policies.py`
validate):

| theorem | result |
|---|---|
| `FirstMatchIsFirst` | what `FirstMatch` finds, for every list of rules |
| `DecisionsExplained` | `Spec => []DecisionExplained` |
| `OneDecision` | `Spec => []OneDecisionPerKey` |

`FirstMatchIsFirst` is the one about an algorithm: the rule chosen matches, no matching
rule precedes it in priority and position, and there is one whenever some rule matches.
`IntakeInv` says that a policy is active only with what `wasActive` has on record
(`PolicySound`), that an intake in flight carries an evaluation of its payload so
explained (`SessionSound`), and that the policy a session is about to insert is its own
(`OwnInsertions`).

`TransparencyLogProofs` proves, from `LogAssumption` (finitely many digests, and a root
that tells trees apart, which is what a collision-free hash gives):

| theorem | result |
|---|---|
| `AuditIsComplete` | `IntegrityErrors(row, tree) = {} <=> Intact(row, tree)` |
| `IntactAudits` | `Spec => []IntactLogAudits` |
| `FalseAlarms` | `Spec => []FalseAlarmsOnlyAtBirth` |
| `ExtendsWitnessed` | `Spec => CheckpointsExtend`, the refinement of `AppendOnlyLog` |

`Intact` states the agreement of the state row, the leaves and the checkpoints in one
place, and `AuditIsComplete` that the seven checks of `audit_integrity` amount to it.
`LogInv` says that a session with the row's lock has the row as it is, that an audit
without it found no row (the one way to a false alarm), and that a session that waits
for its signature has audited the very leaves it signs: they cannot change under the
lock. The tree witnessed last belongs to the greatest checkpoint (`Witnessing`). With
that the refinement needs no assumption on corruption: a publication passes its audit
only if the leaves under the greatest checkpoint have its root, hence are the leaves
that were witnessed.

`TypeOK` of `Escrow`, `Approvals` and `ProofIssuance` and `OneDecisionPerPrincipal` are
proved and not listed in a run; in the other modules a run checks `TypeOK` as a conjunct
of a stronger invariant, and it is a conjunct of the inductive one. The inductive
invariants `RegistryInv`, `SigningInv`, `IntentsInv`, `IntakeInv`, `LogInv`,
`BrokerInv`, `BudgetInv`, `AnswerInv` and `ReceiptsInv` were found with the help of TLC on the
instances of section 3 before they were proved.

**Only model-checked.** Liveness (`RunSettlesJob`, `EveryReceiptAcknowledged`,
`NonFinalIsReconciled`) is outside what the prover handles. `ServedProofsVerify`
compares the recursive operators of `Merkle`, whose induction over trees is out of its
reach too. Every other invariant and action property of a passing run is stated by a
theorem.

## 5. Hazards

`PROJECT.json` lists them by line. They fall into four families: a status checked
on a copy and written without a condition; a count or a mirror computed from a
stale or unflushed read; a crash or a failed response between two commits; and an
identifier that is looked up first and inserted later. To
these the newer modules add a state kept in two places (files and rows, columns and
body), a lock given up while a signature is made, and rows read one table at a time.
For each the list names the properties that would catch it, and says what they would
not catch. Three have none: duplicate job submissions and repeated executions of one
intent, where the code gives no guarantee of its own to check, and the default signing
key, which is not modelled.

## 6. Where the code and its documentation disagree

Two are exhibited by a run as a counterexample.

| run | what happens | what is said |
|---|---|---|
| `Approvals_quorum` | two overlapping approvals both see one decision; the request stays `pending` and neither principal may decide again (`approvals.py:441`) | `docs/APPROVAL_WORKFLOW.md:96`: once the required decision count is met, the request becomes `satisfied` |
| `CounterSigning_recovery` | a rotation that loaded the key before its revocation turns its status from `revoked` to `retired` and publishes a current key set in which it has no `revoked_at` (`countersigning.py:515-526`, `:643-651`); the column and the disabled provider key remain (`RevokedAtIsKept`) | `docs/operations/COUNTERSIGNING_KEY_COMPROMISE_RECOVERY.md:43`: the key set contains the suspected key with the chosen `revoked_at` |

Others are only listed; most have the same pattern, a check on a copy and a write without
a condition on the row. The models contain all of these behaviours, and the properties
of section 3 hold in their presence.

| where | what the model does, as the code | what is said |
|---|---|---|
| `escrow.py:479`, also `:690` | revoke loads `released`, another session consumes, the revocation overwrites `consumed`; an expiry can do the same | `docs/CAPABILITY_ESCROW.md:104`: before it is consumed |
| `escrow.py:754` | a change to the older of two records leaves the intent with the state of the newer one, because the query runs before the flush | `docs/LIFECYCLE_STATE_MODEL.md:139`: mirror of the latest relevant observation |
| `escrow.py:580` | an update that loaded the record before a quarantine leaves `result_observed` on it | `docs/LIFECYCLE_STATE_MODEL.md:127` pairs the two as `quarantined` |
| `approvals.py:446` | an approval that completes the quorum overwrites a rejection | `docs/APPROVAL_WORKFLOW.md:97`: a single reject rejects |
| `execution_worker.py:146` | two overlapping submissions of a key create two jobs: the index is not unique | docstring at `:134`: idempotent |
| `execution_worker.py:277` | a cancellation loads a running job and turns the success that is committed meanwhile into `cancelled`; the answer itself stays (`AnswerKept`) | docstring at `:271`: only jobs in non-terminal states can be cancelled |
| `execution_worker.py:317` | a process that recovers while another one runs the same job calls the executor from its own count and may settle the job again, or take it back to `running` | docstring at `:52`: pending, running, then a terminal status |
| `api/intents.py:935` | two requests that loaded the same state both commit; a cancelled intent goes back to `evaluating`, an edge the table does not have | docstring at `:923`: two concurrent requests cannot both transition the same intent |
| `receipts.py:643`, `escrow.py:754` | a receipt sets the intent's `execution_state` without a look at the escrow record; two overlapping writers of a consumed or dead record may leave the state of the last but one, because a column found as wanted is not written | `docs/LIFECYCLE_STATE_MODEL.md:139`, as above |
| `policy_engine.py:144` | overlapping activations do not see each other and leave two policies active, or none, and a retired policy can become active again | `docs/POLICY_MANAGEMENT_API.md:53`: any previously active policy is retired automatically; `:147`: retired policies may not be reactivated |
| `policy_engine.py:119` | an update that loaded a draft changes the policy after its activation | `:131`: only draft policies may be updated |
| `api/intents.py:648` | `submit_intent` calls the resource for an intent that is merely created; `tests/unit/test_permit_gateway_bridge.py:109` gets `succeeded` back | module docstring, `:5`, `:10`: lifecycle transitions are enforced; Cloud issues proofs under authorised conditions and delegates execution |
| `permit_gateway_bridge.py:319` | an answer with an unknown state raises outside the `try` and the intents behind it in the list are not looked at, pass after pass | |
| `api/intents.py:232` | two overlapping creations under one key create two intents | docstring: idempotent on idempotency_key |
| `api/intents.py:531`, `:556`, `:691` | without a bridge or an adapter, execution and submission are stubs that report `succeeded` and `submitted` | `README.md:134`, `:139`: succeeded means a verified Receipt; no "assumed success" state |
| `api/intents.py:450` | `issue_proof` writes the column and not the body, where the worker looks (`permit_gateway_bridge.py:275`): intents whose proof was issued through the API are never reconciled | `NonFinalIsReconciled` speaks of the intents the worker can see |
| `countersigning.py:523` | overlapping publications: the current key set can be replaced by one that lacks a key which is then activated, so `SignerWasPublished` speaks of the version files | `docs/COUNTERSIGNING_SERVICE.md:102` |
| `receipts.py:641` | an older receipt that arrives late becomes the latest one | `docs/DATA_MODEL.md:127`: most recent linked receipt |

None of these touches the proved results, which are theorems about models that contain
these behaviours. In the escrow, for one, a record overwritten in this way goes to a dead
status, never back to a usable one.

## 7. Not modelled

Signatures, digests, schema validation and canonical JSON are libraries and are
left abstract. Storage backends, HTTP routing, metrics, usage queries, migrations,
scripts and user interfaces hold no protocol of their own. Access control looks
permissions up anew for each request; the models leave out requests it refuses.
The kernel bridge and evidence bundles are stateless translations, the credential
store keeps independent rows behind an encryption library. Of the Permit bridge only
the reconciliation worker is in the repository's own hands. The parts of `Evidence`
and `Signing keys` that issuance does not read, the default key among them, are in
the plan.

## 8. Plan

1. `SigningKeys`: activation and rotation against the single-default rule, with the
   key file that is written before the row (`signing.py:244`).
2. `Evidence`: the blob written outside the transaction.
3. A composition of `ProofIssuance` and `Escrow`: a capability only behind an issued
   proof, hence behind a quorum.
