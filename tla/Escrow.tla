-------------------------------- MODULE Escrow --------------------------------
(***************************************************************************)
(* Capability escrow: src/app/services/escrow.py over the table of         *)
(* src/app/models/escrow.py.                                               *)
(*                                                                         *)
(* Every HTTP request runs in a database session of its own.  A handler    *)
(* first SELECTs the record it works on (get_record) and checks what it    *)
(* read; then it loads the Action Intent, whose execution_state mirrors    *)
(* the record's, and computes the new value of that column; last it writes *)
(* and commits.  Other sessions commit in between.  The model therefore    *)
(* splits a handler into a Load, a Synchronize and a Commit step.  The     *)
(* write, the transition row and the UPDATE of the intent are one          *)
(* transaction and one step: the row lock taken by the UPDATE is held      *)
(* until the commit, so that the claim of release and consume may stand    *)
(* there too.                                                              *)
(*                                                                         *)
(* release and consume write with UPDATE ... WHERE status = ...; revoke,   *)
(* quarantine, execution updates and expiry write the ORM object they      *)
(* loaded, whatever the row has become since.                              *)
(*                                                                         *)
(* uq_escrow_records_issued_proof allows one record per issued proof, so   *)
(* a record is named by its proof.                                         *)
(***************************************************************************)
EXTENDS Naturals, Sequences

CONSTANTS
    Sessions,       \* database sessions, each serving one request at a time
    Proofs,         \* issued proofs
    Intents,        \* Action Intents
    IntentOf,       \* the intent a proof was issued for
    ProofExpiry,    \* expires_at of a proof
    Bindings,       \* (capability_kind, protected_resource_ref) pairs
    Tokens,         \* capability tokens, one per signing nonce
    Reported,       \* the execution states that receipts report
    ReleaseMode,    \* settings.capability_release_mode
    MaxTtl,         \* settings.capability_max_ttl_seconds
    MaxTime,        \* bound on the clock
    NoProof, NoBinding, NoToken

ASSUME ConstantsAssumption ==
    /\ IntentOf \in [Proofs -> Intents]
    /\ ProofExpiry \in [Proofs -> Nat]
    /\ MaxTtl \in Nat \ {0}
    /\ MaxTime \in Nat
    /\ Reported \subseteq {"dispatch_confirmed", "result_observed", "failure_observed"}
    /\ ReleaseMode \in {"development_simulated", "external_managed"}
    /\ NoProof \notin Proofs
    /\ NoBinding \notin Bindings
    /\ NoToken \notin Tokens

VARIABLES
    escrow,         \* the escrow_records row of each proof
    history,        \* escrow_transition_records of each proof, oldest first
    intentExec,     \* action_intent_records.execution_state
    observed,       \* the intents whose execution_state a receipt wrote last
    latest,         \* the proof whose record of this intent was written last
    session,        \* what each session has loaded and is about to write
    sync,           \* the intents it has loaded, with their new execution_state
    minted,         \* tokens signed so far
    returned,       \* (proof, token) pairs sent back to a client
    confirmed,      \* (proof, binding) pairs create_hold answered with success
    now             \* the clock, utc_now()

vars == <<escrow, history, intentExec, observed, latest, session, sync, minted,
          returned, confirmed, now>>

-----------------------------------------------------------------------------

EscrowStatus == {"held", "released", "consumed", "revoked", "quarantined", "expired"}

ExecutionState ==
    {"not_requested", "capability_held", "capability_released",
     "dispatch_requested", "dispatch_confirmed", "result_observed",
     "failure_observed", "revoked", "quarantined", "expired"}

EscrowTransitionType ==
    {"hold_created", "released", "consumed", "revoked", "quarantined",
     "execution_update", "expired"}

Live == {"held", "released"}
Dead == {"revoked", "quarantined", "expired"}
Observations == {"dispatch_confirmed", "result_observed", "failure_observed"}
Dispatched == {"dispatch_requested"} \cup Observations

EscrowRecord ==
    [status : EscrowStatus \cup {"none"}, exec : ExecutionState,
     binding : Bindings \cup {NoBinding}, expires : Nat,
     digest : Tokens \cup {NoToken}]

NoRecord == [status |-> "none", exec |-> "not_requested", binding |-> NoBinding,
             expires |-> 0, digest |-> NoToken]

EscrowTransitionRecord ==
    [type : EscrowTransitionType, from : EscrowStatus \cup {"none"},
     to : EscrowStatus, exec : ExecutionState]

Transition(type, from, to, exec) ==
    [type |-> type, from |-> from, to |-> to, exec |-> exec]

\* What a session holds between its SELECT and its commit.
Idle == [op |-> "idle"]
SessionState ==
    {Idle}
    \cup [op : {"create"}, proof : Proofs, binding : Bindings, expires : Nat]
    \cup [op : {"release"}, proof : Proofs, token : Tokens]
    \cup [op : {"respond"}, proof : Proofs, token : Tokens]
    \cup [op : {"consume"}, proof : Proofs, token : Tokens]
    \cup [op : {"revoke"}, proof : Proofs, from : Live]
    \cup [op : {"quarantine"}, proof : Proofs, from : Live \cup {"consumed"}]
    \cup [op : {"update"}, proof : Proofs, exec : Observations]
    \cup [op : {"expire"}, from : UNION {[S -> Live] : S \in SUBSET Proofs}]

\* The Action Intents in the session, with the execution_state assigned to
\* each and whether that changed the value loaded.
NoSync == [i \in {} |-> "not_requested"]
SyncState ==
    UNION {[I -> [value : ExecutionState, changed : BOOLEAN]] : I \in SUBSET Intents}

TypeOK ==
    /\ escrow \in [Proofs -> EscrowRecord]
    /\ history \in [Proofs -> Seq(EscrowTransitionRecord)]
    /\ intentExec \in [Intents -> ExecutionState]
    /\ observed \subseteq Intents
    /\ latest \in [Intents -> Proofs \cup {NoProof}]
    /\ session \in [Sessions -> SessionState]
    /\ sync \in [Sessions -> SyncState]
    /\ minted \subseteq Tokens
    /\ returned \subseteq Proofs \X Tokens
    /\ confirmed \subseteq Proofs \X Bindings
    /\ now \in Nat

Init ==
    /\ escrow = [p \in Proofs |-> NoRecord]
    /\ history = [p \in Proofs |-> <<>>]
    /\ intentExec = [i \in Intents |-> "not_requested"]
    /\ observed = {}
    /\ latest = [i \in Intents |-> NoProof]
    /\ session = [s \in Sessions |-> Idle]
    /\ sync = [s \in Sessions |-> NoSync]
    /\ minted = {}
    /\ returned = {}
    /\ confirmed = {}
    /\ now = 0

-----------------------------------------------------------------------------
(* Helpers of EscrowService *)

\* _ensure_active_issued_proof: issued and not expired.  The expiry it marks
\* on the proof object is rolled back with the error it raises.
ActiveProof(p) == ProofExpiry[p] > now

\* _refresh_if_expired: the condition under which a read expires the record.
Overdue(p) == escrow[p].status \in Live /\ escrow[p].expires <= now

\* The record as get_record hands it to a handler that goes on with it.
Readable(p) == escrow[p].status # "none" /\ ~Overdue(p)

\* _resolve_expires_at
ResolveExpiresAtUncapped(p, ttl) == now + ttl
ResolveExpiresAt(p, ttl) ==
    IF now + ttl <= ProofExpiry[p] THEN now + ttl ELSE ProofExpiry[p]

\* _is_allowed_execution_progression
AllowedProgression(current, new) ==
    \/ current = "dispatch_requested" /\ new \in Observations
    \/ current = "dispatch_confirmed" /\ new \in {"result_observed", "failure_observed"}

\* _synchronize_action_intent_execution_state, called with the change to the
\* records of S still pending.  Sessions do not autoflush, so the SELECT
\* orders the intent's records by the updated_at values in the database; if it
\* finds one of S it finds the session's own changed object.
MirrorPendingReread(i, S, exec) ==
    escrow[latest[i]].exec
MirrorPending(i, S, exec) ==
    IF latest[i] \in S THEN exec ELSE escrow[latest[i]].exec

\* _append_transition
AppendTransitionOfStatus(p, t) ==
    history' = IF t.type = "execution_update" THEN history
               ELSE [history EXCEPT ![p] = Append(@, t)]
AppendTransition(p, t) == history' = [history EXCEPT ![p] = Append(@, t)]

Loads(s, state) ==
    /\ session[s] = Idle
    /\ session' = [session EXCEPT ![s] = state]
    /\ UNCHANGED sync

Becomes(s, state) ==
    /\ session' = [session EXCEPT ![s] = state]
    /\ sync' = [sync EXCEPT ![s] = NoSync]

Ends(s) == Becomes(s, Idle)

\* The records a session in state st is about to write, the execution state
\* it writes into them, and the intents it synchronizes.
Targets(st) ==
    CASE st.op = "idle" -> {}
      [] st.op = "expire" -> DOMAIN st.from
      [] OTHER -> {st.proof}

NewExec(st) ==
    CASE st.op = "create" -> "capability_held"
      [] st.op = "release" -> "capability_released"
      [] st.op = "consume" -> "dispatch_requested"
      [] st.op = "revoke" -> "revoked"
      [] st.op = "quarantine" -> "quarantined"
      [] st.op = "update" -> st.exec
      [] OTHER -> "expired"

Touched(st) == {IntentOf[p] : p \in Targets(st)}

\* The value assigned to the intent.  create_hold, release and consume have
\* flushed their record by then, and the SELECT finds it as the newest.
SyncValue(i, st) ==
    IF st.op \in {"create", "release", "consume"} THEN NewExec(st)
    ELSE MirrorPending(i, Targets(st), NewExec(st))

Synchronize(s) ==
    /\ session[s].op \notin {"idle", "respond"}
    /\ sync[s] = NoSync
    /\ sync' = [sync EXCEPT ![s] = [i \in Touched(session[s]) |->
                    [value |-> SyncValue(i, session[s]),
                     changed |-> SyncValue(i, session[s]) # intentExec[i]]]]
    /\ UNCHANGED <<escrow, history, intentExec, observed, latest, session, minted,
                   returned, confirmed, now>>

Synchronized(s) == DOMAIN sync[s] = Touched(session[s])

\* The commit's UPDATE of the intents: a column whose value was not changed is
\* not written.
Changed(s) == {i \in DOMAIN sync[s] : sync[s][i].changed}

FlushesIntents(s) ==
    /\ Synchronized(s)
    /\ intentExec' = [i \in Intents |->
            IF i \in Changed(s) THEN sync[s][i].value ELSE intentExec[i]]
    /\ observed' = observed \ Changed(s)

\* The commit of session s, which wrote p's record.
CommitsRecord(s, p, record, t) ==
    /\ escrow' = [escrow EXCEPT ![p] = record]
    /\ AppendTransition(p, t)
    /\ FlushesIntents(s)
    /\ latest' = [latest EXCEPT ![IntentOf[p]] = p]

-----------------------------------------------------------------------------
(* create_hold *)

\* No record yet: the handler builds one.
LoadCreate(s, p, b, ttl) ==
    /\ ActiveProof(p)
    /\ escrow[p].status = "none"
    /\ Loads(s, [op |-> "create", proof |-> p, binding |-> b,
                 expires |-> ResolveExpiresAt(p, ttl)])
    /\ UNCHANGED <<escrow, history, intentExec, observed, latest, minted, returned, confirmed, now>>

\* A record exists: an idempotent replay if it has the same binding, an error
\* (and no step) otherwise.
ReplayCreate(s, p, b) ==
    /\ session[s] = Idle
    /\ ActiveProof(p)
    /\ Readable(p)
    /\ escrow[p].binding = b
    /\ confirmed' = confirmed \cup {<<p, b>>}
    /\ UNCHANGED <<escrow, history, intentExec, observed, latest, session, sync, minted, returned, now>>

\* The INSERT: the unique constraint admits it only when no other session's
\* record for the proof was committed first.
InsertAdmitted(p) == escrow[p].status = "none"

CommitCreate(s) ==
    /\ session[s].op = "create"
    /\ LET p == session[s].proof IN
        /\ InsertAdmitted(p)
        /\ CommitsRecord(s, p,
             [status |-> "held", exec |-> "capability_held",
              binding |-> session[s].binding, expires |-> session[s].expires,
              digest |-> NoToken],
             Transition("hold_created", "none", "held", "capability_held"))
        /\ confirmed' = confirmed \cup {<<p, session[s].binding>>}
    /\ Ends(s)
    /\ UNCHANGED <<minted, returned, now>>

\* IntegrityError: rollback, read the winner's record, replay it or fail.
ConflictCreate(s) ==
    /\ session[s].op = "create"
    /\ LET p == session[s].proof IN
        /\ ~InsertAdmitted(p)
        /\ confirmed' = IF escrow[p].binding = session[s].binding
                        THEN confirmed \cup {<<p, session[s].binding>>}
                        ELSE confirmed
    /\ Ends(s)
    /\ UNCHANGED <<escrow, history, intentExec, observed, latest, minted, returned, now>>

-----------------------------------------------------------------------------
(* release_capability *)

LoadRelease(s, p, t) ==
    /\ Readable(p)
    /\ ActiveProof(p)
    /\ escrow[p].status = "held"
    /\ ReleaseMode # "external_managed"
    /\ t \notin minted
    /\ minted' = minted \cup {t}
    /\ Loads(s, [op |-> "release", proof |-> p, token |-> t])
    /\ UNCHANGED <<escrow, history, intentExec, observed, latest, returned, confirmed, now>>

\* UPDATE ... WHERE escrow_record_id = ... AND status = 'held'
ReleaseClaimById(p) == TRUE
ReleaseClaim(p) == escrow[p].status = "held"

CommitRelease(s) ==
    /\ session[s].op = "release"
    /\ LET p == session[s].proof IN
        /\ ReleaseClaim(p)
        /\ CommitsRecord(s, p,
             [escrow[p] EXCEPT !.status = "released", !.exec = "capability_released",
                               !.digest = session[s].token],
             Transition("released", "held", "released", "capability_released"))
        /\ Becomes(s, [op |-> "respond", proof |-> p, token |-> session[s].token])
    /\ UNCHANGED <<minted, returned, confirmed, now>>

\* rowcount # 1: rollback, the token is dropped unseen.
LoseRelease(s) ==
    /\ session[s].op = "release"
    /\ ~ReleaseClaim(session[s].proof)
    /\ Ends(s)
    /\ UNCHANGED <<escrow, history, intentExec, observed, latest, minted, returned, confirmed, now>>

\* The response carries the only copy of the raw token.
RespondRelease(s) ==
    /\ session[s].op = "respond"
    /\ returned' = returned \cup {<<session[s].proof, session[s].token>>}
    /\ Ends(s)
    /\ UNCHANGED <<escrow, history, intentExec, observed, latest, minted, confirmed, now>>

-----------------------------------------------------------------------------
(* consume_capability *)

\* The caller presents a token some release returned, of this record or of
\* another one.
LoadConsume(s, p, t) ==
    /\ \E q \in Proofs : <<q, t>> \in returned
    /\ Readable(p)
    /\ ActiveProof(p)
    /\ escrow[p].status = "released"
    /\ escrow[p].digest = t
    /\ Loads(s, [op |-> "consume", proof |-> p, token |-> t])
    /\ UNCHANGED <<escrow, history, intentExec, observed, latest, minted, returned, confirmed, now>>

\* UPDATE ... WHERE status = 'released' AND capability_token_digest = ...
ConsumeClaimByDigest(p, t) == escrow[p].digest = t
ConsumeClaim(p, t) == escrow[p].status = "released" /\ escrow[p].digest = t

CommitConsume(s) ==
    /\ session[s].op = "consume"
    /\ LET p == session[s].proof IN
        /\ ConsumeClaim(p, session[s].token)
        /\ CommitsRecord(s, p,
             [escrow[p] EXCEPT !.status = "consumed", !.exec = "dispatch_requested"],
             Transition("consumed", "released", "consumed", "dispatch_requested"))
    /\ Ends(s)
    /\ UNCHANGED <<minted, returned, confirmed, now>>

LoseConsume(s) ==
    /\ session[s].op = "consume"
    /\ ~ConsumeClaim(session[s].proof, session[s].token)
    /\ Ends(s)
    /\ UNCHANGED <<escrow, history, intentExec, observed, latest, minted, returned, confirmed, now>>

-----------------------------------------------------------------------------
(* revoke_capability, quarantine_capability, record_execution_update *)

LoadRevoke(s, p) ==
    /\ Readable(p)
    /\ escrow[p].status \in Live
    /\ Loads(s, [op |-> "revoke", proof |-> p, from |-> escrow[p].status])
    /\ UNCHANGED <<escrow, history, intentExec, observed, latest, minted, returned, confirmed, now>>

CommitRevoke(s) ==
    /\ session[s].op = "revoke"
    /\ LET p == session[s].proof IN
        CommitsRecord(s, p,
            [escrow[p] EXCEPT !.status = "revoked", !.exec = "revoked"],
            Transition("revoked", session[s].from, "revoked", "revoked"))
    /\ Ends(s)
    /\ UNCHANGED <<minted, returned, confirmed, now>>

LoadQuarantine(s, p) ==
    /\ Readable(p)
    /\ escrow[p].status \notin Dead
    /\ Loads(s, [op |-> "quarantine", proof |-> p, from |-> escrow[p].status])
    /\ UNCHANGED <<escrow, history, intentExec, observed, latest, minted, returned, confirmed, now>>

CommitQuarantine(s) ==
    /\ session[s].op = "quarantine"
    /\ LET p == session[s].proof IN
        CommitsRecord(s, p,
            [escrow[p] EXCEPT !.status = "quarantined", !.exec = "quarantined"],
            Transition("quarantined", session[s].from, "quarantined", "quarantined"))
    /\ Ends(s)
    /\ UNCHANGED <<minted, returned, confirmed, now>>

UpdateAccepts(p, e) ==
    /\ escrow[p].status = "consumed"
    /\ AllowedProgression(escrow[p].exec, e)

LoadUpdate(s, p, e) ==
    /\ Readable(p)
    /\ UpdateAccepts(p, e)
    /\ Loads(s, [op |-> "update", proof |-> p, exec |-> e])
    /\ UNCHANGED <<escrow, history, intentExec, observed, latest, minted, returned, confirmed, now>>

\* Only execution_state changed on the object, so only that column is written.
\* The transition row records the status the session loaded.
UpdatedWholeRow(p, e) == [escrow[p] EXCEPT !.status = "consumed", !.exec = e]
Updated(p, e) == [escrow[p] EXCEPT !.exec = e]

CommitUpdate(s) ==
    /\ session[s].op = "update"
    /\ LET p == session[s].proof
           e == session[s].exec
       IN  CommitsRecord(s, p, Updated(p, e),
                         Transition("execution_update", "consumed", "consumed", e))
    /\ Ends(s)
    /\ UNCHANGED <<minted, returned, confirmed, now>>

-----------------------------------------------------------------------------
(* Expiry on read: get_record (one record) and list_records (all that the  *)
(* query matched), which every other operation calls first.                *)

LoadOverdue(s, S) ==
    /\ S # {}
    /\ \A p \in S : Overdue(p)
    /\ Loads(s, [op |-> "expire", from |-> [p \in S |-> escrow[p].status]])
    /\ UNCHANGED <<escrow, history, intentExec, observed, latest, minted, returned, confirmed, now>>

CommitExpire(s) ==
    /\ session[s].op = "expire"
    /\ LET from == session[s].from
           S == DOMAIN from
           touched == Touched(session[s])
       IN  /\ escrow' = [p \in Proofs |->
                IF p \in S
                THEN [escrow[p] EXCEPT !.status = "expired", !.exec = "expired"]
                ELSE escrow[p]]
           /\ history' = [p \in Proofs |->
                IF p \in S
                THEN Append(history[p], Transition("expired", from[p], "expired", "expired"))
                ELSE history[p]]
           /\ FlushesIntents(s)
           \* the order in which the flush stamps several records is its own
           /\ \E last \in [Intents -> Proofs \cup {NoProof}] :
                /\ \A i \in Intents :
                     IF i \in touched
                     THEN last[i] \in S /\ IntentOf[last[i]] = i
                     ELSE last[i] = latest[i]
                /\ latest' = last
    /\ Ends(s)
    /\ UNCHANGED <<minted, returned, confirmed, now>>

-----------------------------------------------------------------------------
(* The session is closed by an exception, a lost connection or a crash     *)
(* (Database.session): what was not committed is rolled back.              *)
Abort(s) ==
    /\ session[s] # Idle
    /\ Ends(s)
    /\ UNCHANGED <<escrow, history, intentExec, observed, latest, minted, returned, confirmed, now>>

(* The other writer of the column: an ingested receipt sets it to what the *)
(* receipt reports, without a look at the escrow record                    *)
(* (ReceiptService._apply_lifecycle_effects, module Receipts).             *)
IngestReceipt(i, e) ==
    /\ intentExec' = [intentExec EXCEPT ![i] = e]
    /\ observed' = observed \cup {i}
    /\ UNCHANGED <<escrow, history, latest, session, sync, minted, returned, confirmed, now>>

Tick ==
    /\ now < MaxTime
    /\ now' = now + 1
    /\ UNCHANGED <<escrow, history, intentExec, observed, latest, session, sync, minted, returned, confirmed>>

Create(s) ==
    \/ \E p \in Proofs, b \in Bindings :
          ReplayCreate(s, p, b) \/ \E ttl \in 1..MaxTtl : LoadCreate(s, p, b, ttl)
    \/ CommitCreate(s)
    \/ ConflictCreate(s)

ReleaseOrConsume(s) ==
    \/ \E p \in Proofs, t \in Tokens : LoadRelease(s, p, t) \/ LoadConsume(s, p, t)
    \/ CommitRelease(s) \/ LoseRelease(s) \/ RespondRelease(s)
    \/ CommitConsume(s) \/ LoseConsume(s)

Intervene(s) ==
    \/ \E p \in Proofs : LoadRevoke(s, p) \/ LoadQuarantine(s, p)
    \/ \E p \in Proofs, e \in Observations : LoadUpdate(s, p, e)
    \/ CommitRevoke(s) \/ CommitQuarantine(s) \/ CommitUpdate(s)

Expire(s) ==
    \/ \E S \in SUBSET Proofs : LoadOverdue(s, S)
    \/ CommitExpire(s)

Next ==
    \/ \E s \in Sessions :
          \/ Create(s) \/ ReleaseOrConsume(s) \/ Intervene(s) \/ Expire(s)
          \/ Synchronize(s) \/ Abort(s)
    \/ \E i \in Intents, e \in Reported : IngestReceipt(i, e)
    \/ Tick

Spec == Init /\ [][Next]_vars

-----------------------------------------------------------------------------
(* Properties *)

Entries(p, type) == {n \in DOMAIN history[p] : history[p][n].type = type}

\* A capability is released at most once and consumed at most once, and it is
\* consumed only after the release: whatever requests race, the transition
\* table shows one winner of each claim.
OnePass(p) ==
    /\ \A type \in {"hold_created", "released", "consumed"} :
          \A m, n \in Entries(p, type) : m = n
    /\ \A n \in Entries(p, "consumed") : \E m \in Entries(p, "released") : m < n
    /\ \A n \in Entries(p, "released") : \E m \in Entries(p, "hold_created") : m < n

SingleUse == \A p \in Proofs : OnePass(p)

\* Revoked, quarantined and expired are final: no late release, consume or
\* execution update brings such a record back to life.
DeadStaysDead ==
    [][\A p \in Proofs : escrow[p].status \in Dead => escrow'[p].status \in Dead]_vars

\* The raw token of a record is sent to a client at most once, and it is the
\* token whose digest the row keeps.
TokenReturnedOnce ==
    \A p, q \in Proofs, t, u \in Tokens :
        /\ <<p, t>> \in returned => escrow[p].digest = t
        /\ <<p, t>> \in returned /\ <<q, u>> \in returned /\ t = u => p = q

StatusEntries(p) ==
    {n \in DOMAIN history[p] : history[p][n].type # "execution_update"}

\* The transition table explains the row: the newest entry carries its
\* execution state, the newest entry that is not an execution update carries
\* its status, and an execution observation has a consumption before it, even
\* when writers overwrote each other.
HistoryExplainsRecord ==
    \A p \in Proofs : escrow[p].status # "none" =>
        /\ history[p] # <<>>
        /\ history[p][Len(history[p])].exec = escrow[p].exec
        /\ \E n \in StatusEntries(p) :
              /\ \A m \in StatusEntries(p) : m <= n
              /\ history[p][n].to = escrow[p].status
        /\ escrow[p].exec \in Dispatched => Entries(p, "consumed") # {}

\* A hold is what create_hold told every client it is, even when two clients
\* inserted at once, and never outlives the proof it was created from.
HoldAsConfirmed ==
    \A p \in Proofs : escrow[p].status # "none" =>
        /\ \A b \in Bindings : <<p, b>> \in confirmed => escrow[p].binding = b
        /\ escrow[p].expires <= ProofExpiry[p]

\* What the intent of a record at this status may show.  Writers of a consumed
\* or dead record overwrite each other and skip a column they found as they
\* want it, so the state of the last but one of them may stay.
Shows(status) ==
    CASE status = "none" -> {"not_requested"}
      [] status = "held" -> {"capability_held"}
      [] status = "released" -> {"capability_released"}
      [] status = "consumed" -> Dispatched
      [] OTHER -> Dead \cup Observations

\* The record of p is the only one of its intent.
Sole(p) == \A q \in Proofs : IntentOf[q] = IntentOf[p] => q = p

\* An intent with one proof keeps up with its record, unless a receipt wrote
\* the column last: it is never shown as held once the capability is released,
\* nor as held, released or dispatched once it is revoked, quarantined or
\* expired, whichever sessions loaded the intent before.
SoleRecordMirrored ==
    \A p \in Proofs : Sole(p) /\ IntentOf[p] \notin observed =>
        intentExec[IntentOf[p]] \in Shows(escrow[p].status)

-----------------------------------------------------------------------------
(* Inductive strengthenings, used by EscrowProofs *)

TargetsExist ==
    \A s \in Sessions : session[s].op \notin {"idle", "create"} =>
        \A p \in Targets(session[s]) : escrow[p].status # "none"

LatestKnown ==
    /\ \A p \in Proofs : escrow[p].status # "none" => latest[IntentOf[p]] \in Proofs
    /\ \A i \in Intents : latest[i] \in Proofs =>
          IntentOf[latest[i]] = i /\ escrow[latest[i]].status # "none"

BaseInv == TypeOK /\ TargetsExist /\ LatestKnown

\* A token is signed once, reaches at most one row, and reaches it before the
\* response carries it to the client.
TokenInv ==
    /\ \A p \in Proofs : escrow[p].status \in {"none", "held"} => escrow[p].digest = NoToken
    /\ \A p \in Proofs : escrow[p].digest \in minted \cup {NoToken}
    /\ \A p, q \in Proofs : p # q /\ escrow[p].digest # NoToken
                                => escrow[p].digest # escrow[q].digest
    /\ \A s \in Sessions : session[s].op = "release" =>
          /\ session[s].token \in minted
          /\ \A p \in Proofs : escrow[p].digest # session[s].token
          /\ \A z \in Sessions : z # s /\ session[z].op = "release"
                                    => session[z].token # session[s].token
    /\ \A s \in Sessions : session[s].op = "respond" =>
          escrow[session[s].proof].digest = session[s].token
    /\ \A p \in Proofs, t \in Tokens : <<p, t>> \in returned => escrow[p].digest = t

\* What the transition table of a record must and must not hold at a status.
HistoryFits(p) ==
    /\ escrow[p].status = "none" => history[p] = <<>>
    /\ escrow[p].status # "none" => Entries(p, "hold_created") # {}
    /\ escrow[p].status \in {"none", "held"} => Entries(p, "released") = {}
    /\ escrow[p].status = "released" => Entries(p, "released") # {}
    /\ escrow[p].status \in {"none", "held", "released"} => Entries(p, "consumed") = {}

HistoryInv == \A p \in Proofs : HistoryFits(p) /\ OnePass(p)

-----------------------------------------------------------------------------
(* The promise it implements *)

PhaseOf(status) ==
    CASE status = "none" -> "absent"
      [] status = "held" -> "held"
      [] status = "released" -> "released"
      [] status = "consumed" -> "used"
      [] OTHER -> "void"

Ledger == INSTANCE CapabilityLedger WITH
    Capabilities <- Proofs, Keys <- Tokens, NoKey <- NoToken,
    phase <- [p \in Proofs |-> PhaseOf(escrow[p].status)],
    key <- [p \in Proofs |-> escrow[p].digest]

\* Under every interleaving the records behave as single-use capabilities.
ImplementsLedger == Ledger!LedgerSpec
=============================================================================
