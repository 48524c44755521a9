----------------------------- MODULE EscrowProofs -----------------------------
(***************************************************************************)
(* Proofs about Escrow, for any sets of sessions, proofs, intents and      *)
(* tokens and any clock.                                                   *)
(***************************************************************************)
EXTENDS Escrow, TLAPS

-----------------------------------------------------------------------------
(* Type correctness *)

LEMMA RecordFields ==
    ASSUME NEW r \in EscrowRecord
    PROVE  /\ r.status \in EscrowStatus \cup {"none"}
           /\ r.exec \in ExecutionState
           /\ r.binding \in Bindings \cup {NoBinding}
           /\ r.expires \in Nat
           /\ r.digest \in Tokens \cup {NoToken}
           /\ \A st \in EscrowStatus, e \in ExecutionState :
                [r EXCEPT !.status = st, !.exec = e] \in EscrowRecord
           /\ \A e \in ExecutionState : [r EXCEPT !.exec = e] \in EscrowRecord
           /\ \A st \in EscrowStatus, e \in ExecutionState, t \in Tokens :
                [r EXCEPT !.status = st, !.exec = e, !.digest = t] \in EscrowRecord
    BY DEF EscrowRecord

LEMMA SessionFields ==
    ASSUME NEW st \in SessionState
    PROVE  /\ st.op \in {"idle", "create", "release", "respond", "consume", "revoke",
                        "quarantine", "update", "expire"}
           /\ st.op = "create" => /\ st.proof \in Proofs
                                  /\ st.binding \in Bindings
                                  /\ st.expires \in Nat
           /\ st.op \in {"release", "respond", "consume"} =>
                /\ st.proof \in Proofs
                /\ st.token \in Tokens
           /\ st.op = "revoke" => st.proof \in Proofs /\ st.from \in Live
           /\ st.op = "quarantine" => st.proof \in Proofs /\ st.from \in Live \cup {"consumed"}
           /\ st.op = "update" => st.proof \in Proofs /\ st.exec \in Observations
           /\ st.op = "expire" => /\ DOMAIN st.from \subseteq Proofs
                                  /\ st.from \in [DOMAIN st.from -> Live]
    BY DEF SessionState, Idle

LEMMA NoSyncType == NoSync \in SyncState /\ DOMAIN NoSync = {}
<1>1. NoSync \in [{} -> [value : ExecutionState, changed : BOOLEAN]]
    BY DEF NoSync
<1>. QED  BY <1>1 DEF SyncState, NoSync

LEMMA SyncFields ==
    ASSUME NEW y \in SyncState
    PROVE  /\ DOMAIN y \subseteq Intents
           /\ \A i \in DOMAIN y : y[i].value \in ExecutionState /\ y[i].changed \in BOOLEAN
    BY DEF SyncState

\* A session that ends, or goes on to answer, forgets its intents.
LEMMA BecomesType ==
    ASSUME TypeOK, NEW s \in Sessions, NEW st \in SessionState, Becomes(s, st)
    PROVE  /\ session' \in [Sessions -> SessionState]
           /\ sync' \in [Sessions -> SyncState]
    BY NoSyncType DEF Becomes, TypeOK

\* The UPDATE of the intents keeps their column well typed.
LEMMA FlushType ==
    ASSUME TypeOK, NEW s \in Sessions, FlushesIntents(s)
    PROVE  /\ intentExec' \in [Intents -> ExecutionState]
           /\ observed' \subseteq Intents
<1>1. \A i \in Changed(s) : sync[s][i].value \in ExecutionState
    BY SyncFields DEF TypeOK, Changed
<1>. QED  BY <1>1 DEF FlushesIntents, TypeOK

\* Every commit keeps the tables well typed.
LEMMA CommitType ==
    ASSUME TypeOK, ConstantsAssumption, NEW s \in Sessions, NEW p \in Proofs,
           NEW r \in EscrowRecord, NEW t \in EscrowTransitionRecord,
           CommitsRecord(s, p, r, t)
    PROVE  /\ escrow' \in [Proofs -> EscrowRecord]
           /\ history' \in [Proofs -> Seq(EscrowTransitionRecord)]
           /\ intentExec' \in [Intents -> ExecutionState]
           /\ observed' \subseteq Intents
           /\ latest' \in [Intents -> Proofs \cup {NoProof}]
<1>1. escrow' \in [Proofs -> EscrowRecord]
    BY DEF TypeOK, CommitsRecord
<1>2. history' \in [Proofs -> Seq(EscrowTransitionRecord)]
    <2>1. Append(history[p], t) \in Seq(EscrowTransitionRecord)
        BY DEF TypeOK
    <2>. QED  BY <2>1 DEF TypeOK, CommitsRecord, AppendTransition
<1>3. intentExec' \in [Intents -> ExecutionState] /\ observed' \subseteq Intents
    BY FlushType DEF CommitsRecord
<1>4. latest' \in [Intents -> Proofs \cup {NoProof}]
    BY DEF TypeOK, CommitsRecord, ConstantsAssumption
<1>. QED  BY <1>1, <1>2, <1>3, <1>4

LEMMA TransitionType ==
    ASSUME NEW type \in EscrowTransitionType, NEW from \in EscrowStatus \cup {"none"},
           NEW to \in EscrowStatus, NEW exec \in ExecutionState
    PROVE  Transition(type, from, to, exec) \in EscrowTransitionRecord
    BY DEF Transition, EscrowTransitionRecord

\* A step that only loads or ends a session.
LEMMA SessionOnlyType ==
    ASSUME TypeOK, NEW s \in Sessions, NEW st \in SessionState,
           session' = [session EXCEPT ![s] = st],
           sync' \in [Sessions -> SyncState],
           UNCHANGED <<escrow, history, intentExec, observed, latest, now>>,
           minted' \subseteq Tokens, returned' \subseteq Proofs \X Tokens,
           confirmed' \subseteq Proofs \X Bindings
    PROVE  TypeOK'
    BY DEF TypeOK

LEMMA LoadCreateType ==
    ASSUME TypeOK, ConstantsAssumption, NEW s \in Sessions, NEW p \in Proofs,
           NEW b \in Bindings, NEW ttl \in 1..MaxTtl, LoadCreate(s, p, b, ttl)
    PROVE  TypeOK'
<1>1. ResolveExpiresAt(p, ttl) \in Nat
    BY DEF ResolveExpiresAt, TypeOK, ConstantsAssumption
<1>2. [op |-> "create", proof |-> p, binding |-> b,
       expires |-> ResolveExpiresAt(p, ttl)] \in SessionState
    BY <1>1 DEF SessionState
<1>. QED  BY <1>2, SessionOnlyType DEF LoadCreate, Loads, TypeOK

LEMMA LoadReleaseType ==
    ASSUME TypeOK, ConstantsAssumption, NEW s \in Sessions, NEW p \in Proofs, NEW t \in Tokens,
           LoadRelease(s, p, t)
    PROVE  TypeOK'
<1>1. [op |-> "release", proof |-> p, token |-> t] \in SessionState
    BY DEF LoadRelease, SessionState, TypeOK
<1>. QED  BY <1>1, SessionOnlyType DEF LoadRelease, Loads, TypeOK

LEMMA LoadConsumeType ==
    ASSUME TypeOK, ConstantsAssumption, NEW s \in Sessions, NEW p \in Proofs, NEW t \in Tokens,
           LoadConsume(s, p, t)
    PROVE  TypeOK'
<1>1. [op |-> "consume", proof |-> p, token |-> t] \in SessionState
    BY DEF LoadConsume, SessionState, TypeOK
<1>. QED  BY <1>1, SessionOnlyType DEF LoadConsume, Loads, TypeOK

LEMMA LoadRevokeType ==
    ASSUME TypeOK, ConstantsAssumption, NEW s \in Sessions, NEW p \in Proofs,
           LoadRevoke(s, p)
    PROVE  TypeOK'
<1>1. [op |-> "revoke", proof |-> p, from |-> escrow[p].status] \in SessionState
    BY DEF LoadRevoke, SessionState, TypeOK
<1>. QED  BY <1>1, SessionOnlyType DEF LoadRevoke, Loads, TypeOK

LEMMA LoadQuarantineType ==
    ASSUME TypeOK, ConstantsAssumption, NEW s \in Sessions, NEW p \in Proofs,
           LoadQuarantine(s, p)
    PROVE  TypeOK'
<1>1. escrow[p].status \in Live \cup {"consumed"}
    BY RecordFields DEF LoadQuarantine, Readable, TypeOK, EscrowStatus, Live, Dead
<1>2. [op |-> "quarantine", proof |-> p, from |-> escrow[p].status] \in SessionState
    BY <1>1 DEF SessionState
<1>. QED  BY <1>2, SessionOnlyType DEF LoadQuarantine, Loads, TypeOK

LEMMA LoadUpdateType ==
    ASSUME TypeOK, ConstantsAssumption, NEW s \in Sessions, NEW p \in Proofs, NEW e \in Observations,
           LoadUpdate(s, p, e)
    PROVE  TypeOK'
<1>1. [op |-> "update", proof |-> p, exec |-> e] \in SessionState
    BY DEF LoadUpdate, SessionState, TypeOK
<1>. QED  BY <1>1, SessionOnlyType DEF LoadUpdate, Loads, TypeOK

LEMMA LoadOverdueType ==
    ASSUME TypeOK, ConstantsAssumption, NEW s \in Sessions, NEW S \in SUBSET Proofs,
           LoadOverdue(s, S)
    PROVE  TypeOK'
<1>1. [p \in S |-> escrow[p].status] \in [S -> Live]
    BY DEF LoadOverdue, Overdue
<1>2. [op |-> "expire", from |-> [p \in S |-> escrow[p].status]] \in SessionState
    BY <1>1 DEF SessionState
<1>. QED  BY <1>2, SessionOnlyType DEF LoadOverdue, Loads, TypeOK

LEMMA IdleType == Idle \in SessionState
    BY DEF SessionState

LEMMA CommitCreateType ==
    ASSUME TypeOK, ConstantsAssumption, NEW s \in Sessions, CommitCreate(s)
    PROVE  TypeOK'
<1>. DEFINE p == session[s].proof
            r == [status |-> "held", exec |-> "capability_held",
                  binding |-> session[s].binding, expires |-> session[s].expires,
                  digest |-> NoToken]
            t == Transition("hold_created", "none", "held", "capability_held")
<1>1. p \in Proofs /\ session[s].binding \in Bindings /\ session[s].expires \in Nat
    BY SessionFields DEF CommitCreate, TypeOK
<1>2. r \in EscrowRecord
    BY <1>1 DEF EscrowStatus, ExecutionState, EscrowRecord
<1>3. t \in EscrowTransitionRecord
    BY <1>1, TransitionType DEF EscrowTransitionType, EscrowStatus, ExecutionState, Live, Observations
<1>4. CommitsRecord(s, p, r, t)
    BY DEF CommitCreate
<1>5. /\ escrow' \in [Proofs -> EscrowRecord]
      /\ history' \in [Proofs -> Seq(EscrowTransitionRecord)]
      /\ intentExec' \in [Intents -> ExecutionState]
      /\ observed' \subseteq Intents
      /\ latest' \in [Intents -> Proofs \cup {NoProof}]
    BY <1>1, <1>2, <1>3, <1>4, CommitType
<1>6. session' \in [Sessions -> SessionState] /\ sync' \in [Sessions -> SyncState]
    BY IdleType, BecomesType DEF CommitCreate, Ends, Becomes
<1>7. confirmed' \subseteq Proofs \X Bindings
    BY <1>1 DEF CommitCreate, TypeOK
<1>. QED  BY <1>5, <1>6, <1>7 DEF CommitCreate, TypeOK

LEMMA CommitReleaseType ==
    ASSUME TypeOK, ConstantsAssumption, NEW s \in Sessions, CommitRelease(s)
    PROVE  TypeOK'
<1>. DEFINE p == session[s].proof
            r == [escrow[p] EXCEPT !.status = "released", !.exec = "capability_released",
                                !.digest = session[s].token]
            t == Transition("released", "held", "released", "capability_released")
<1>1. p \in Proofs /\ session[s].token \in Tokens
    BY SessionFields DEF CommitRelease, TypeOK
<1>2. r \in EscrowRecord
    <2>1. escrow[p] \in EscrowRecord
        BY <1>1 DEF TypeOK
    <2>. QED  BY <1>1, <2>1 DEF EscrowRecord, EscrowStatus, ExecutionState
<1>3. t \in EscrowTransitionRecord
    BY <1>1, TransitionType DEF EscrowTransitionType, EscrowStatus, ExecutionState, Live, Observations
<1>4. CommitsRecord(s, p, r, t)
    BY DEF CommitRelease
<1>5. /\ escrow' \in [Proofs -> EscrowRecord]
      /\ history' \in [Proofs -> Seq(EscrowTransitionRecord)]
      /\ intentExec' \in [Intents -> ExecutionState]
      /\ observed' \subseteq Intents
      /\ latest' \in [Intents -> Proofs \cup {NoProof}]
    BY <1>1, <1>2, <1>3, <1>4, CommitType
<1>6. [op |-> "respond", proof |-> p, token |-> session[s].token] \in SessionState
    BY <1>1 DEF SessionState
<1>7. session' \in [Sessions -> SessionState] /\ sync' \in [Sessions -> SyncState]
    BY <1>6, BecomesType DEF CommitRelease
<1>. QED  BY <1>5, <1>7 DEF CommitRelease, TypeOK

LEMMA CommitConsumeType ==
    ASSUME TypeOK, ConstantsAssumption, NEW s \in Sessions, CommitConsume(s)
    PROVE  TypeOK'
<1>. DEFINE p == session[s].proof
            r == [escrow[p] EXCEPT !.status = "consumed", !.exec = "dispatch_requested"]
            t == Transition("consumed", "released", "consumed", "dispatch_requested")
<1>1. p \in Proofs
    BY SessionFields DEF CommitConsume, TypeOK
<1>2. r \in EscrowRecord
    BY <1>1, RecordFields DEF TypeOK, EscrowStatus, ExecutionState, Observations
<1>3. t \in EscrowTransitionRecord
    BY <1>1, TransitionType DEF EscrowTransitionType, EscrowStatus, ExecutionState, Live, Observations
<1>4. CommitsRecord(s, p, r, t)
    BY DEF CommitConsume
<1>5. /\ escrow' \in [Proofs -> EscrowRecord]
      /\ history' \in [Proofs -> Seq(EscrowTransitionRecord)]
      /\ intentExec' \in [Intents -> ExecutionState]
      /\ observed' \subseteq Intents
      /\ latest' \in [Intents -> Proofs \cup {NoProof}]
    BY <1>1, <1>2, <1>3, <1>4, CommitType
<1>6. session' \in [Sessions -> SessionState] /\ sync' \in [Sessions -> SyncState]
    BY IdleType, BecomesType DEF CommitConsume, Ends, Becomes
<1>. QED  BY <1>5, <1>6 DEF CommitConsume, TypeOK

LEMMA CommitRevokeType ==
    ASSUME TypeOK, ConstantsAssumption, NEW s \in Sessions, CommitRevoke(s)
    PROVE  TypeOK'
<1>. DEFINE p == session[s].proof
            r == [escrow[p] EXCEPT !.status = "revoked", !.exec = "revoked"]
            t == Transition("revoked", session[s].from, "revoked", "revoked")
<1>1. p \in Proofs /\ session[s].from \in Live
    BY SessionFields DEF CommitRevoke, TypeOK
<1>2. r \in EscrowRecord
    BY <1>1, RecordFields DEF TypeOK, EscrowStatus, ExecutionState, Observations
<1>3. t \in EscrowTransitionRecord
    BY <1>1, TransitionType DEF EscrowTransitionType, EscrowStatus, ExecutionState, Live, Observations
<1>4. CommitsRecord(s, p, r, t)
    BY DEF CommitRevoke
<1>5. /\ escrow' \in [Proofs -> EscrowRecord]
      /\ history' \in [Proofs -> Seq(EscrowTransitionRecord)]
      /\ intentExec' \in [Intents -> ExecutionState]
      /\ observed' \subseteq Intents
      /\ latest' \in [Intents -> Proofs \cup {NoProof}]
    BY <1>1, <1>2, <1>3, <1>4, CommitType
<1>6. session' \in [Sessions -> SessionState] /\ sync' \in [Sessions -> SyncState]
    BY IdleType, BecomesType DEF CommitRevoke, Ends, Becomes
<1>. QED  BY <1>5, <1>6 DEF CommitRevoke, TypeOK

LEMMA CommitQuarantineType ==
    ASSUME TypeOK, ConstantsAssumption, NEW s \in Sessions, CommitQuarantine(s)
    PROVE  TypeOK'
<1>. DEFINE p == session[s].proof
            r == [escrow[p] EXCEPT !.status = "quarantined", !.exec = "quarantined"]
            t == Transition("quarantined", session[s].from, "quarantined", "quarantined")
<1>1. p \in Proofs /\ session[s].from \in Live \cup {"consumed"}
    BY SessionFields DEF CommitQuarantine, TypeOK
<1>2. r \in EscrowRecord
    BY <1>1, RecordFields DEF TypeOK, EscrowStatus, ExecutionState, Observations
<1>3. t \in EscrowTransitionRecord
    BY <1>1, TransitionType DEF EscrowTransitionType, EscrowStatus, ExecutionState, Live, Observations
<1>4. CommitsRecord(s, p, r, t)
    BY DEF CommitQuarantine
<1>5. /\ escrow' \in [Proofs -> EscrowRecord]
      /\ history' \in [Proofs -> Seq(EscrowTransitionRecord)]
      /\ intentExec' \in [Intents -> ExecutionState]
      /\ observed' \subseteq Intents
      /\ latest' \in [Intents -> Proofs \cup {NoProof}]
    BY <1>1, <1>2, <1>3, <1>4, CommitType
<1>6. session' \in [Sessions -> SessionState] /\ sync' \in [Sessions -> SyncState]
    BY IdleType, BecomesType DEF CommitQuarantine, Ends, Becomes
<1>. QED  BY <1>5, <1>6 DEF CommitQuarantine, TypeOK

LEMMA CommitUpdateType ==
    ASSUME TypeOK, ConstantsAssumption, NEW s \in Sessions, CommitUpdate(s)
    PROVE  TypeOK'
<1>. DEFINE p == session[s].proof
            r == Updated(p, session[s].exec)
            t == Transition("execution_update", "consumed", "consumed", session[s].exec)
<1>1. p \in Proofs /\ session[s].exec \in Observations
    BY SessionFields DEF CommitUpdate, TypeOK
<1>2. r \in EscrowRecord
    <2>1. escrow[p] \in EscrowRecord /\ session[s].exec \in ExecutionState
        BY <1>1 DEF TypeOK, ExecutionState, Observations
    <2>. QED  BY <2>1, RecordFields DEF Updated
<1>3. t \in EscrowTransitionRecord
    BY <1>1, TransitionType DEF EscrowTransitionType, EscrowStatus, ExecutionState, Live, Observations
<1>4. CommitsRecord(s, p, r, t)
    BY DEF CommitUpdate
<1>5. /\ escrow' \in [Proofs -> EscrowRecord]
      /\ history' \in [Proofs -> Seq(EscrowTransitionRecord)]
      /\ intentExec' \in [Intents -> ExecutionState]
      /\ observed' \subseteq Intents
      /\ latest' \in [Intents -> Proofs \cup {NoProof}]
    BY <1>1, <1>2, <1>3, <1>4, CommitType
<1>6. session' \in [Sessions -> SessionState] /\ sync' \in [Sessions -> SyncState]
    BY IdleType, BecomesType DEF CommitUpdate, Ends, Becomes
<1>. QED  BY <1>5, <1>6 DEF CommitUpdate, TypeOK

LEMMA CommitExpireType ==
    ASSUME TypeOK, ConstantsAssumption, NEW s \in Sessions, CommitExpire(s)
    PROVE  TypeOK'
<1>. DEFINE from == session[s].from
            S == DOMAIN from
<1>1. S \subseteq Proofs /\ from \in [S -> Live]
    BY SessionFields DEF CommitExpire, TypeOK
<1>2. escrow' \in [Proofs -> EscrowRecord]
    <2>1. \A p \in Proofs :
            [escrow[p] EXCEPT !.status = "expired", !.exec = "expired"] \in EscrowRecord
        BY RecordFields DEF TypeOK, EscrowStatus, ExecutionState
    <2>. QED  BY <2>1 DEF CommitExpire, TypeOK
<1>3. history' \in [Proofs -> Seq(EscrowTransitionRecord)]
    <2>1. \A p \in S : Transition("expired", from[p], "expired", "expired")
                            \in EscrowTransitionRecord
        BY <1>1 DEF Transition, EscrowTransitionRecord, EscrowTransitionType,
                    EscrowStatus, ExecutionState, Live
    <2>2. \A p \in S : Append(history[p], Transition("expired", from[p], "expired", "expired"))
                            \in Seq(EscrowTransitionRecord)
        BY <1>1, <2>1 DEF TypeOK
    <2>3. history' = [p \in Proofs |->
                IF p \in S
                THEN Append(history[p], Transition("expired", from[p], "expired", "expired"))
                ELSE history[p]]
        BY DEF CommitExpire
    <2>. QED  BY <2>2, <2>3 DEF TypeOK
<1>4. intentExec' \in [Intents -> ExecutionState] /\ observed' \subseteq Intents
    BY FlushType DEF CommitExpire
<1>5. latest' \in [Intents -> Proofs \cup {NoProof}]
    BY DEF CommitExpire
<1>6. session' \in [Sessions -> SessionState] /\ sync' \in [Sessions -> SyncState]
    BY IdleType, BecomesType DEF CommitExpire, Ends, Becomes
<1>. QED  BY <1>2, <1>3, <1>4, <1>5, <1>6 DEF CommitExpire, TypeOK

\* Steps that end a session without writing to a record, and the clock.
LEMMA QuietType ==
    ASSUME TypeOK, ConstantsAssumption,
           \/ \E s \in Sessions, p \in Proofs, b \in Bindings : ReplayCreate(s, p, b)
           \/ \E s \in Sessions : ConflictCreate(s) \/ LoseRelease(s)
                 \/ RespondRelease(s) \/ LoseConsume(s) \/ Abort(s)
           \/ Tick
           \/ \E i \in Intents, e \in Reported : IngestReceipt(i, e)
           \/ UNCHANGED vars
    PROVE  TypeOK'
<1>1. ASSUME NEW s \in Sessions, NEW p \in Proofs, NEW b \in Bindings,
             ReplayCreate(s, p, b)
      PROVE  TypeOK'
    BY <1>1 DEF ReplayCreate, TypeOK
<1>2. ASSUME NEW s \in Sessions, ConflictCreate(s)
      PROVE  TypeOK'
    <2>1. session[s].proof \in Proofs /\ session[s].binding \in Bindings
        BY <1>2, SessionFields DEF ConflictCreate, TypeOK
    <2>2. confirmed' \subseteq Proofs \X Bindings
        BY <1>2, <2>1 DEF ConflictCreate, TypeOK
    <2>. QED  BY <1>2, <2>2, IdleType, BecomesType, SessionOnlyType
              DEF ConflictCreate, Ends, Becomes, TypeOK
<1>3. ASSUME NEW s \in Sessions, LoseRelease(s) \/ LoseConsume(s) \/ Abort(s)
      PROVE  TypeOK'
    BY <1>3, IdleType, BecomesType, SessionOnlyType DEF LoseRelease, LoseConsume, Abort, Ends, Becomes, TypeOK
<1>4. ASSUME NEW s \in Sessions, RespondRelease(s)
      PROVE  TypeOK'
    <2>1. session[s].proof \in Proofs /\ session[s].token \in Tokens
        BY <1>4, SessionFields DEF RespondRelease, TypeOK
    <2>2. returned' \subseteq Proofs \X Tokens
        BY <1>4, <2>1 DEF RespondRelease, TypeOK
    <2>. QED  BY <1>4, <2>2, IdleType, BecomesType, SessionOnlyType
              DEF RespondRelease, Ends, Becomes, TypeOK
<1>5. CASE Tick
    BY <1>5 DEF Tick, TypeOK
<1>6. CASE UNCHANGED vars
    BY <1>6 DEF vars, TypeOK
<1>7. ASSUME NEW i \in Intents, NEW e \in Reported, IngestReceipt(i, e)
      PROVE  TypeOK'
    <2>1. e \in ExecutionState
        BY <1>7 DEF ConstantsAssumption, ExecutionState
    <2>. QED  BY <1>7, <2>1 DEF IngestReceipt, TypeOK
<1>. QED  BY <1>1, <1>2, <1>3, <1>4, <1>5, <1>6, <1>7

\* The steps that concern no record and no session's request.
Elsewhere ==
    \/ Tick
    \/ \E s \in Sessions : Synchronize(s)
    \/ \E i \in Intents, e \in Reported : IngestReceipt(i, e)
    \/ UNCHANGED vars

LEMMA ElsewhereSame ==
    ASSUME Elsewhere
    PROVE  UNCHANGED <<escrow, history, latest, session, minted, returned, confirmed>>
    BY DEF Elsewhere, Tick, Synchronize, IngestReceipt, vars

-----------------------------------------------------------------------------
(* The base invariant: types, and what makes the synchronization of an     *)
(* intent well defined (a session writes only to a record that exists, and *)
(* the intent of a record knows its latest record).                        *)

\* What the committing steps do to the record they write.
LEMMA ExceptFields ==
    ASSUME NEW r \in EscrowRecord, NEW st, NEW e, NEW t
    PROVE  /\ [r EXCEPT !.status = st, !.exec = e].status = st
           /\ [r EXCEPT !.status = st, !.exec = e].exec = e
           /\ [r EXCEPT !.status = st, !.exec = e].digest = r.digest
           /\ [r EXCEPT !.status = st, !.exec = e].binding = r.binding
           /\ [r EXCEPT !.status = st, !.exec = e].expires = r.expires
           /\ [r EXCEPT !.exec = e].status = r.status
           /\ [r EXCEPT !.exec = e].exec = e
           /\ [r EXCEPT !.exec = e].digest = r.digest
           /\ [r EXCEPT !.exec = e].binding = r.binding
           /\ [r EXCEPT !.exec = e].expires = r.expires
           /\ [r EXCEPT !.status = st, !.exec = e, !.digest = t].status = st
           /\ [r EXCEPT !.status = st, !.exec = e, !.digest = t].exec = e
           /\ [r EXCEPT !.status = st, !.exec = e, !.digest = t].digest = t
           /\ [r EXCEPT !.status = st, !.exec = e, !.digest = t].binding = r.binding
           /\ [r EXCEPT !.status = st, !.exec = e, !.digest = t].expires = r.expires
    BY DEF EscrowRecord

\* A session commits the record with status st, execution state e and token
\* digest d for the proof it loaded; the other records stay.
Writes(s, st, e, d) ==
    /\ session[s].proof \in Proofs
    /\ escrow'[session[s].proof].status = st
    /\ escrow'[session[s].proof].exec = e
    /\ escrow'[session[s].proof].digest = d
    /\ \A q \in Proofs : q # session[s].proof => escrow'[q] = escrow[q]

LEMMA CommitCreateEffect ==
    ASSUME TypeOK, NEW s \in Sessions, CommitCreate(s)
    PROVE  /\ Writes(s, "held", "capability_held", NoToken)
           /\ escrow[session[s].proof].status = "none"
<1>. DEFINE p == session[s].proof
            r == [status |-> "held", exec |-> "capability_held",
                  binding |-> session[s].binding, expires |-> session[s].expires,
                  digest |-> NoToken]
<1>1. p \in Proofs
    BY SessionFields DEF CommitCreate, TypeOK
<1>2. escrow[p] \in EscrowRecord
    BY <1>1 DEF TypeOK
<1>3. r.status = "held" /\ r.exec = "capability_held" /\ r.digest = NoToken
    BY <1>2, ExceptFields
<1>4. escrow' = [escrow EXCEPT ![p] = r]
    BY DEF CommitCreate, CommitsRecord
<1>. HIDE DEF r
<1>5. Writes(s, "held", "capability_held", NoToken)
    BY <1>1, <1>3, <1>4 DEF Writes, TypeOK
<1>. QED  BY <1>5 DEF CommitCreate, InsertAdmitted

LEMMA CommitReleaseEffect ==
    ASSUME TypeOK, NEW s \in Sessions, CommitRelease(s)
    PROVE  /\ Writes(s, "released", "capability_released", session[s].token)
           /\ escrow[session[s].proof].status = "held"
<1>. DEFINE p == session[s].proof
            r == [escrow[p] EXCEPT !.status = "released", !.exec = "capability_released",
                                !.digest = session[s].token]
<1>1. p \in Proofs
    BY SessionFields DEF CommitRelease, TypeOK
<1>2. escrow[p] \in EscrowRecord
    BY <1>1 DEF TypeOK
<1>3. r.status = "released" /\ r.exec = "capability_released" /\ r.digest = session[s].token
    BY <1>2, ExceptFields
<1>4. escrow' = [escrow EXCEPT ![p] = r]
    BY DEF CommitRelease, CommitsRecord
<1>. HIDE DEF r
<1>5. Writes(s, "released", "capability_released", session[s].token)
    BY <1>1, <1>3, <1>4 DEF Writes, TypeOK
<1>. QED  BY <1>5 DEF CommitRelease, ReleaseClaim

LEMMA CommitConsumeEffect ==
    ASSUME TypeOK, NEW s \in Sessions, CommitConsume(s)
    PROVE  /\ Writes(s, "consumed", "dispatch_requested", escrow[session[s].proof].digest)
           /\ escrow[session[s].proof].status = "released"
<1>. DEFINE p == session[s].proof
            r == [escrow[p] EXCEPT !.status = "consumed", !.exec = "dispatch_requested"]
<1>1. p \in Proofs
    BY SessionFields DEF CommitConsume, TypeOK
<1>2. escrow[p] \in EscrowRecord
    BY <1>1 DEF TypeOK
<1>3. r.status = "consumed" /\ r.exec = "dispatch_requested" /\ r.digest = escrow[p].digest
    BY <1>2, ExceptFields
<1>4. escrow' = [escrow EXCEPT ![p] = r]
    BY DEF CommitConsume, CommitsRecord
<1>. HIDE DEF r
<1>5. Writes(s, "consumed", "dispatch_requested", escrow[session[s].proof].digest)
    BY <1>1, <1>3, <1>4 DEF Writes, TypeOK
<1>. QED  BY <1>5 DEF CommitConsume, ConsumeClaim

LEMMA CommitRevokeEffect ==
    ASSUME TypeOK, NEW s \in Sessions, CommitRevoke(s)
    PROVE  Writes(s, "revoked", "revoked", escrow[session[s].proof].digest)
<1>. DEFINE p == session[s].proof
            r == [escrow[p] EXCEPT !.status = "revoked", !.exec = "revoked"]
<1>1. p \in Proofs
    BY SessionFields DEF CommitRevoke, TypeOK
<1>2. escrow[p] \in EscrowRecord
    BY <1>1 DEF TypeOK
<1>3. r.status = "revoked" /\ r.exec = "revoked" /\ r.digest = escrow[p].digest
    BY <1>2, ExceptFields
<1>4. escrow' = [escrow EXCEPT ![p] = r]
    BY DEF CommitRevoke, CommitsRecord
<1>. HIDE DEF r
<1>5. Writes(s, "revoked", "revoked", escrow[session[s].proof].digest)
    BY <1>1, <1>3, <1>4 DEF Writes, TypeOK
<1>. QED  BY <1>5

LEMMA CommitQuarantineEffect ==
    ASSUME TypeOK, NEW s \in Sessions, CommitQuarantine(s)
    PROVE  Writes(s, "quarantined", "quarantined", escrow[session[s].proof].digest)
<1>. DEFINE p == session[s].proof
            r == [escrow[p] EXCEPT !.status = "quarantined", !.exec = "quarantined"]
<1>1. p \in Proofs
    BY SessionFields DEF CommitQuarantine, TypeOK
<1>2. escrow[p] \in EscrowRecord
    BY <1>1 DEF TypeOK
<1>3. r.status = "quarantined" /\ r.exec = "quarantined" /\ r.digest = escrow[p].digest
    BY <1>2, ExceptFields
<1>4. escrow' = [escrow EXCEPT ![p] = r]
    BY DEF CommitQuarantine, CommitsRecord
<1>. HIDE DEF r
<1>5. Writes(s, "quarantined", "quarantined", escrow[session[s].proof].digest)
    BY <1>1, <1>3, <1>4 DEF Writes, TypeOK
<1>. QED  BY <1>5

LEMMA CommitUpdateEffect ==
    ASSUME TypeOK, NEW s \in Sessions, CommitUpdate(s)
    PROVE  Writes(s, escrow[session[s].proof].status, session[s].exec, escrow[session[s].proof].digest)
<1>. DEFINE p == session[s].proof
            r == Updated(p, session[s].exec)
<1>1. p \in Proofs
    BY SessionFields DEF CommitUpdate, TypeOK
<1>2. escrow[p] \in EscrowRecord
    BY <1>1 DEF TypeOK
<1>3. r.status = escrow[p].status /\ r.exec = session[s].exec /\ r.digest = escrow[p].digest
    BY <1>2, ExceptFields DEF Updated
<1>4. escrow' = [escrow EXCEPT ![p] = r]
    BY DEF CommitUpdate, CommitsRecord
<1>. HIDE DEF r
<1>5. Writes(s, escrow[session[s].proof].status, session[s].exec, escrow[session[s].proof].digest)
    BY <1>1, <1>3, <1>4 DEF Writes, TypeOK
<1>. QED  BY <1>5

LEMMA ExpireEffect ==
    ASSUME TypeOK, NEW s \in Sessions, CommitExpire(s), NEW p \in Proofs
    PROVE  /\ p \in DOMAIN session[s].from =>
                /\ escrow'[p].status = "expired"
                /\ escrow'[p].exec = "expired"
                /\ escrow'[p].digest = escrow[p].digest
           /\ p \notin DOMAIN session[s].from => escrow'[p] = escrow[p]
<1>. DEFINE r == [escrow[p] EXCEPT !.status = "expired", !.exec = "expired"]
<1>1. r.status = "expired" /\ r.exec = "expired" /\ r.digest = escrow[p].digest
    BY ExceptFields DEF TypeOK
<1>2. escrow'[p] = IF p \in DOMAIN session[s].from THEN r ELSE escrow[p]
    BY DEF CommitExpire
<1>. HIDE DEF r
<1>. QED  BY <1>1, <1>2

\* The steps that write one record.
Commits(s) ==
    \/ CommitCreate(s) \/ CommitRelease(s) \/ CommitConsume(s)
    \/ CommitRevoke(s) \/ CommitQuarantine(s) \/ CommitUpdate(s)

LEMMA StepShape ==
    ASSUME [Next]_vars
    PROVE  \/ UNCHANGED <<escrow, history, latest>>
           \/ \E s \in Sessions : Commits(s) \/ CommitExpire(s)
<1>. DEFINE Same == UNCHANGED <<escrow, history, latest>>
<1>1. ASSUME NEW s \in Sessions, Create(s)
      PROVE  Same \/ CommitCreate(s)
    BY <1>1 DEF Create, ReplayCreate, LoadCreate, ConflictCreate
<1>2. ASSUME NEW s \in Sessions, ReleaseOrConsume(s)
      PROVE  Same \/ CommitRelease(s) \/ CommitConsume(s)
    BY <1>2 DEF ReleaseOrConsume, LoadRelease, LoadConsume, LoseRelease,
                RespondRelease, LoseConsume
<1>3. ASSUME NEW s \in Sessions, Intervene(s)
      PROVE  Same \/ CommitRevoke(s) \/ CommitQuarantine(s) \/ CommitUpdate(s)
    BY <1>3 DEF Intervene, LoadRevoke, LoadQuarantine, LoadUpdate
<1>4. ASSUME NEW s \in Sessions, Expire(s)
      PROVE  Same \/ CommitExpire(s)
    BY <1>4 DEF Expire, LoadOverdue
<1>5. ASSUME NEW s \in Sessions, Abort(s)
      PROVE  Same
    BY <1>5 DEF Abort
<1>6. ASSUME Elsewhere
      PROVE  Same
    BY <1>6, ElsewhereSame
<1>. QED  BY <1>1, <1>2, <1>3, <1>4, <1>5, <1>6 DEF Next, Commits, Elsewhere

\* No step deletes a record.
LEMMA RecordsStay ==
    ASSUME TypeOK, [Next]_vars, NEW q \in Proofs, escrow[q].status # "none"
    PROVE  escrow'[q].status # "none"
<1>1. CASE UNCHANGED <<escrow, history, latest>>
    BY <1>1
<1>2. ASSUME NEW s \in Sessions, Commits(s)
      PROVE  escrow'[q].status # "none"
    BY <1>2, CommitCreateEffect, CommitReleaseEffect, CommitConsumeEffect,
       CommitRevokeEffect, CommitQuarantineEffect, CommitUpdateEffect DEF Commits, Writes
<1>3. ASSUME NEW s \in Sessions, CommitExpire(s)
      PROVE  escrow'[q].status # "none"
    BY <1>3, ExpireEffect
<1>. QED  BY <1>1, <1>2, <1>3, StepShape

LEMMA TargetsExistStep ==
    ASSUME TypeOK, TargetsExist, [Next]_vars
    PROVE  TargetsExist'
<1>. SUFFICES ASSUME NEW z \in Sessions, session'[z].op \notin {"idle", "create"},
                     NEW q \in Targets(session'[z])
              PROVE  escrow'[q].status # "none"
    BY DEF TargetsExist
<1>t. ASSUME NEW s \in Sessions, session[s] \in SessionState, session[s].op \notin {"idle", "create"}
      PROVE  Targets(session[s]) \subseteq Proofs
    <2>1. session[s].op \in {"release", "respond", "consume", "revoke", "quarantine",
                            "update", "expire"}
        BY <1>t, SessionFields
    <2>2. session[s].op = "expire" => Targets(session[s]) = DOMAIN session[s].from
        BY DEF Targets
    <2>3. session[s].op # "expire" => Targets(session[s]) = {session[s].proof}
        BY <1>t DEF Targets
    <2>. QED  BY <1>t, <2>1, <2>2, <2>3, SessionFields
<1>k. ASSUME session'[z] = session[z]
      PROVE  escrow'[q].status # "none"
    <2>1. session[z].op \notin {"idle", "create"} /\ q \in Targets(session[z])
        BY <1>k
    <2>2. q \in Proofs /\ escrow[q].status # "none"
        BY <2>1, <1>t DEF TargetsExist, TypeOK
    <2>. QED  BY <2>2, RecordsStay
<1>n. ASSUME NEW p \in Proofs, Readable(p), UNCHANGED escrow, q = p
      PROVE  escrow'[q].status # "none"
    BY <1>n DEF Readable
<1>1. ASSUME NEW s \in Sessions, Create(s)
      PROVE  escrow'[q].status # "none"
    <2>1. ASSUME NEW p \in Proofs, NEW b \in Bindings, NEW ttl \in 1..MaxTtl,
                 LoadCreate(s, p, b, ttl)
          PROVE  escrow'[q].status # "none"
        BY <2>1, <1>k DEF LoadCreate, Loads, TypeOK
    <2>2. ASSUME NEW p \in Proofs, NEW b \in Bindings, ReplayCreate(s, p, b)
          PROVE  escrow'[q].status # "none"
        BY <2>2, <1>k DEF ReplayCreate
    <2>3. ASSUME CommitCreate(s) \/ ConflictCreate(s)
          PROVE  escrow'[q].status # "none"
        BY <2>3, <1>k DEF CommitCreate, ConflictCreate, Ends, Becomes, Idle, TypeOK
    <2>. QED  BY <1>1, <2>1, <2>2, <2>3 DEF Create
<1>2. ASSUME NEW s \in Sessions, ReleaseOrConsume(s)
      PROVE  escrow'[q].status # "none"
    <2>1. ASSUME NEW p \in Proofs, NEW t \in Tokens, LoadRelease(s, p, t)
          PROVE  escrow'[q].status # "none"
        <3>1. CASE z = s
            <4>1. session'[z] = [op |-> "release", proof |-> p, token |-> t]
                BY <2>1, <3>1 DEF LoadRelease, Loads, TypeOK
            <4>. QED  BY <2>1, <4>1, <1>n DEF LoadRelease, Targets
        <3>. QED  BY <2>1, <3>1, <1>k DEF LoadRelease, Loads, TypeOK
    <2>2. ASSUME NEW p \in Proofs, NEW t \in Tokens, LoadConsume(s, p, t)
          PROVE  escrow'[q].status # "none"
        <3>1. CASE z = s
            <4>1. session'[z] = [op |-> "consume", proof |-> p, token |-> t]
                BY <2>2, <3>1 DEF LoadConsume, Loads, TypeOK
            <4>. QED  BY <2>2, <4>1, <1>n DEF LoadConsume, Targets
        <3>. QED  BY <2>2, <3>1, <1>k DEF LoadConsume, Loads, TypeOK
    <2>3. ASSUME CommitRelease(s)
          PROVE  escrow'[q].status # "none"
        <3>1. CASE z = s
            <4>1. session'[z] = [op |-> "respond", proof |-> session[s].proof,
                                 token |-> session[s].token]
                BY <2>3, <3>1 DEF CommitRelease, Becomes, TypeOK
            <4>. QED  BY <2>3, <4>1, CommitReleaseEffect DEF Targets, Writes
        <3>. QED  BY <2>3, <3>1, <1>k DEF CommitRelease, Becomes, TypeOK
    <2>4. ASSUME LoseRelease(s) \/ RespondRelease(s) \/ CommitConsume(s) \/ LoseConsume(s)
          PROVE  escrow'[q].status # "none"
        BY <2>4, <1>k DEF LoseRelease, RespondRelease, CommitConsume, LoseConsume,
                          Ends, Becomes, Idle, TypeOK
    <2>. QED  BY <1>2, <2>1, <2>2, <2>3, <2>4 DEF ReleaseOrConsume
<1>3. ASSUME NEW s \in Sessions, Intervene(s)
      PROVE  escrow'[q].status # "none"
    <2>1. ASSUME NEW p \in Proofs, LoadRevoke(s, p)
          PROVE  escrow'[q].status # "none"
        <3>1. CASE z = s
            <4>1. session'[z] = [op |-> "revoke", proof |-> p, from |-> escrow[p].status]
                BY <2>1, <3>1 DEF LoadRevoke, Loads, TypeOK
            <4>. QED  BY <2>1, <4>1, <1>n DEF LoadRevoke, Targets
        <3>. QED  BY <2>1, <3>1, <1>k DEF LoadRevoke, Loads, TypeOK
    <2>2. ASSUME NEW p \in Proofs, LoadQuarantine(s, p)
          PROVE  escrow'[q].status # "none"
        <3>1. CASE z = s
            <4>1. session'[z] = [op |-> "quarantine", proof |-> p, from |-> escrow[p].status]
                BY <2>2, <3>1 DEF LoadQuarantine, Loads, TypeOK
            <4>. QED  BY <2>2, <4>1, <1>n DEF LoadQuarantine, Targets
        <3>. QED  BY <2>2, <3>1, <1>k DEF LoadQuarantine, Loads, TypeOK
    <2>3. ASSUME NEW p \in Proofs, NEW e \in Observations, LoadUpdate(s, p, e)
          PROVE  escrow'[q].status # "none"
        <3>1. CASE z = s
            <4>1. session'[z] = [op |-> "update", proof |-> p, exec |-> e]
                BY <2>3, <3>1 DEF LoadUpdate, Loads, TypeOK
            <4>. QED  BY <2>3, <4>1, <1>n DEF LoadUpdate, Targets
        <3>. QED  BY <2>3, <3>1, <1>k DEF LoadUpdate, Loads, TypeOK
    <2>4. ASSUME CommitRevoke(s) \/ CommitQuarantine(s) \/ CommitUpdate(s)
          PROVE  escrow'[q].status # "none"
        BY <2>4, <1>k DEF CommitRevoke, CommitQuarantine, CommitUpdate, Ends, Becomes, Idle, TypeOK
    <2>. QED  BY <1>3, <2>1, <2>2, <2>3, <2>4 DEF Intervene
<1>4. ASSUME NEW s \in Sessions, Expire(s)
      PROVE  escrow'[q].status # "none"
    <2>1. ASSUME NEW S \in SUBSET Proofs, LoadOverdue(s, S)
          PROVE  escrow'[q].status # "none"
        <3>1. CASE z = s
            <4>1. session'[z] = [op |-> "expire", from |-> [p \in S |-> escrow[p].status]]
                BY <2>1, <3>1 DEF LoadOverdue, Loads, TypeOK
            <4>2. q \in S
                BY <4>1 DEF Targets
            <4>. QED  BY <2>1, <4>2 DEF LoadOverdue, Overdue, Live
        <3>. QED  BY <2>1, <3>1, <1>k DEF LoadOverdue, Loads, TypeOK
    <2>2. ASSUME CommitExpire(s)
          PROVE  escrow'[q].status # "none"
        BY <2>2, <1>k DEF CommitExpire, Ends, Becomes, Idle, TypeOK
    <2>. QED  BY <1>4, <2>1, <2>2 DEF Expire
<1>5. ASSUME NEW s \in Sessions, Abort(s)
      PROVE  escrow'[q].status # "none"
    BY <1>5, <1>k DEF Abort, Ends, Becomes, Idle, TypeOK
<1>6. ASSUME Elsewhere
      PROVE  escrow'[q].status # "none"
    BY <1>6, <1>k, ElsewhereSame
<1>. QED  BY <1>1, <1>2, <1>3, <1>4, <1>5, <1>6 DEF Next, Elsewhere

LEMMA LatestKnownStep ==
    ASSUME TypeOK, ConstantsAssumption, TargetsExist, LatestKnown, [Next]_vars
    PROVE  LatestKnown'
<1>1. CASE UNCHANGED <<escrow, history, latest>>
    BY <1>1 DEF LatestKnown
<1>2. ASSUME NEW s \in Sessions, Commits(s)
      PROVE  LatestKnown'
    <2>. DEFINE p == session[s].proof
    <2>1. p \in Proofs /\ (\A q \in Proofs : q # p => escrow'[q] = escrow[q])
        BY <1>2, CommitCreateEffect, CommitReleaseEffect, CommitConsumeEffect,
           CommitRevokeEffect, CommitQuarantineEffect, CommitUpdateEffect DEF Commits, Writes
    <2>2. latest' = [latest EXCEPT ![IntentOf[p]] = p]
        BY <1>2 DEF Commits, CommitCreate, CommitRelease, CommitConsume, CommitRevoke,
                    CommitQuarantine, CommitUpdate, CommitsRecord
    <2>3. latest'[IntentOf[p]] = p
        BY <2>1, <2>2 DEF TypeOK, ConstantsAssumption
    <2>4. escrow'[p].status # "none"
        <3>1. CASE CommitUpdate(s)
            <4>1. session[s].op = "update"
                BY <3>1 DEF CommitUpdate
            <4>2. escrow[p].status # "none"
                BY <4>1, <2>1 DEF TargetsExist, Targets
            <4>. QED  BY <2>1, <4>2, RecordsStay
        <3>. QED  BY <1>2, <3>1, CommitCreateEffect, CommitReleaseEffect,
                     CommitConsumeEffect, CommitRevokeEffect, CommitQuarantineEffect
                  DEF Commits, Writes
    <2>5. ASSUME NEW q \in Proofs, escrow'[q].status # "none"
          PROVE  latest'[IntentOf[q]] \in Proofs
        <3>1. CASE IntentOf[q] = IntentOf[p]
            BY <3>1, <2>1, <2>3
        <3>2. CASE IntentOf[q] # IntentOf[p]
            <4>1. escrow'[q] = escrow[q] /\ latest'[IntentOf[q]] = latest[IntentOf[q]]
                BY <3>2, <2>1, <2>2 DEF TypeOK, ConstantsAssumption
            <4>. QED  BY <4>1, <2>5 DEF LatestKnown
        <3>. QED  BY <3>1, <3>2
    <2>6. ASSUME NEW i \in Intents, latest'[i] \in Proofs
          PROVE  IntentOf[latest'[i]] = i /\ escrow'[latest'[i]].status # "none"
        <3>1. CASE i = IntentOf[p]
            BY <3>1, <2>3, <2>4
        <3>2. CASE i # IntentOf[p]
            <4>1. latest'[i] = latest[i]
                BY <3>2, <2>2 DEF TypeOK
            <4>. QED  BY <4>1, <2>6, RecordsStay DEF LatestKnown
        <3>. QED  BY <3>1, <3>2
    <2>. QED  BY <2>5, <2>6 DEF LatestKnown
<1>3. ASSUME NEW s \in Sessions, CommitExpire(s)
      PROVE  LatestKnown'
    <2>. DEFINE S == DOMAIN session[s].from
                touched == {IntentOf[p] : p \in S}
    <2>1. S \subseteq Proofs
        BY <1>3, SessionFields DEF CommitExpire, TypeOK
    <2>2. \A i \in Intents :
              IF i \in touched THEN latest'[i] \in S /\ IntentOf[latest'[i]] = i
                                ELSE latest'[i] = latest[i]
        BY <1>3 DEF CommitExpire, Touched, Targets
    <2>. HIDE DEF S
    <2>3. ASSUME NEW q \in Proofs, escrow'[q].status # "none"
          PROVE  latest'[IntentOf[q]] \in Proofs
        <3>1. CASE q \in S
            BY <3>1, <2>1, <2>2 DEF ConstantsAssumption
        <3>2. CASE q \notin S
            <4>1. escrow[q].status # "none"
                BY <1>3, <2>3, <3>2, ExpireEffect DEF S
            <4>. QED  BY <4>1, <2>1, <2>2 DEF LatestKnown, ConstantsAssumption
        <3>. QED  BY <3>1, <3>2
    <2>4. ASSUME NEW i \in Intents, latest'[i] \in Proofs
          PROVE  IntentOf[latest'[i]] = i /\ escrow'[latest'[i]].status # "none"
        <3>1. CASE i \in touched
            <4>1. latest'[i] \in S /\ IntentOf[latest'[i]] = i
                BY <3>1, <2>2
            <4>. QED  BY <1>3, <2>1, <4>1, ExpireEffect DEF S
        <3>2. CASE i \notin touched
            <4>1. latest'[i] = latest[i]
                BY <3>2, <2>2
            <4>. QED  BY <4>1, <2>4, RecordsStay DEF LatestKnown
        <3>. QED  BY <3>1, <3>2
    <2>. QED  BY <2>3, <2>4 DEF LatestKnown
<1>. QED  BY <1>1, <1>2, <1>3, StepShape

\* What a session is about to write, and to which intents.
LEMMA TargetsKnown ==
    ASSUME ConstantsAssumption, TypeOK, NEW s \in Sessions,
           session[s].op \notin {"idle", "respond"}
    PROVE  /\ Targets(session[s]) \subseteq Proofs
           /\ Touched(session[s]) \subseteq Intents
           /\ NewExec(session[s]) \in ExecutionState
<1>1. session[s] \in SessionState
    BY DEF TypeOK
<1>2. Targets(session[s]) \subseteq Proofs
    BY <1>1, SessionFields DEF Targets
<1>3. NewExec(session[s]) \in ExecutionState
    BY <1>1, SessionFields DEF NewExec, ExecutionState, Observations
<1>. QED  BY <1>2, <1>3 DEF Touched, ConstantsAssumption

LEMMA SynchronizeType ==
    ASSUME ConstantsAssumption, BaseInv, NEW s \in Sessions, Synchronize(s)
    PROVE  TypeOK'
<1>. TypeOK /\ TargetsExist /\ LatestKnown
    BY DEF BaseInv
<1>. DEFINE st == session[s]
            I == Touched(st)
            y == [i \in I |-> [value |-> SyncValue(i, st),
                               changed |-> SyncValue(i, st) # intentExec[i]]]
<1>1. I \subseteq Intents /\ NewExec(st) \in ExecutionState /\ Targets(st) \subseteq Proofs
    BY TargetsKnown DEF Synchronize
<1>2. ASSUME NEW i \in I
      PROVE  SyncValue(i, st) \in ExecutionState
    <2>1. CASE st.op \in {"create", "release", "consume"}
        BY <1>1, <2>1 DEF SyncValue
    <2>2. CASE st.op \notin {"create", "release", "consume"}
        <3>1. PICK p \in Targets(st) : i = IntentOf[p]
            BY DEF Touched
        <3>2. escrow[p].status # "none" /\ p \in Proofs
            BY <1>1, <2>2, <3>1 DEF TargetsExist, Synchronize
        <3>3. latest[i] \in Proofs
            BY <3>1, <3>2 DEF LatestKnown
        <3>4. escrow[latest[i]].exec \in ExecutionState
            BY <3>3, RecordFields DEF TypeOK
        <3>. QED  BY <1>1, <2>2, <3>4 DEF SyncValue, MirrorPending
    <2>. QED  BY <2>1, <2>2
<1>3. y \in [I -> [value : ExecutionState, changed : BOOLEAN]]
    BY <1>2
<1>4. y \in SyncState
    BY <1>1, <1>3 DEF SyncState
<1>5. sync' = [sync EXCEPT ![s] = y]
    BY DEF Synchronize
<1>. HIDE DEF y
<1>. QED  BY <1>4, <1>5 DEF Synchronize, TypeOK

LEMMA BaseStep ==
    ASSUME ConstantsAssumption, BaseInv, [Next]_vars
    PROVE  BaseInv'
<1>. TypeOK /\ TargetsExist /\ LatestKnown
    BY DEF BaseInv
<1>1. ASSUME NEW s \in Sessions, Create(s)
      PROVE  TypeOK'
    BY <1>1, LoadCreateType, CommitCreateType, QuietType DEF Create
<1>2. ASSUME NEW s \in Sessions, ReleaseOrConsume(s)
      PROVE  TypeOK'
    BY <1>2, LoadReleaseType, LoadConsumeType, CommitReleaseType, CommitConsumeType,
       QuietType DEF ReleaseOrConsume
<1>3. ASSUME NEW s \in Sessions, Intervene(s)
      PROVE  TypeOK'
    BY <1>3, LoadRevokeType, LoadQuarantineType, LoadUpdateType,
       CommitRevokeType, CommitQuarantineType, CommitUpdateType DEF Intervene
<1>4. ASSUME NEW s \in Sessions, Expire(s)
      PROVE  TypeOK'
    BY <1>4, LoadOverdueType, CommitExpireType DEF Expire
<1>5. ASSUME NEW s \in Sessions, Synchronize(s)
      PROVE  TypeOK'
    BY <1>5, SynchronizeType
<1>6. TypeOK'
    BY <1>1, <1>2, <1>3, <1>4, <1>5, QuietType DEF Next
<1>. QED  BY <1>6, TargetsExistStep, LatestKnownStep DEF BaseInv

LEMMA BaseHolds == Spec => []BaseInv
<1>. USE ConstantsAssumption
<1>1. Init => BaseInv
    BY NoSyncType DEF Init, BaseInv, TypeOK, TargetsExist, LatestKnown, NoRecord, EscrowRecord,
           ExecutionState, SessionState, Idle
<1>2. BaseInv /\ [Next]_vars => BaseInv'
    BY BaseStep
<1>. QED  BY <1>1, <1>2, PTL DEF Spec

\* Every reachable state is well typed: the record, the transition table, the
\* intent's execution state and each session's pending write stay within the
\* columns' domains (src/app/models/escrow.py).
THEOREM TypeCorrect == Spec => []TypeOK
<1>1. BaseInv => TypeOK
    BY DEF BaseInv
<1>. QED  BY <1>1, BaseHolds, PTL

\* Revoked, quarantined and expired records never come back to life: the
\* guarded UPDATEs of release_capability and consume_capability cannot match
\* such a row, and every unguarded writer keeps it dead or leaves its status.
THEOREM DeadIsFinal == Spec => DeadStaysDead
<1>1. ASSUME BaseInv, [Next]_vars, NEW p \in Proofs, escrow[p].status \in Dead
      PROVE  escrow'[p].status \in Dead
    <2>. TypeOK
        BY <1>1 DEF BaseInv
    <2>1. CASE UNCHANGED <<escrow, history, latest>>
        BY <1>1, <2>1
    <2>2. ASSUME NEW s \in Sessions, Commits(s)
          PROVE  escrow'[p].status \in Dead
        BY <1>1, <2>2, CommitCreateEffect, CommitReleaseEffect, CommitConsumeEffect,
           CommitRevokeEffect, CommitQuarantineEffect, CommitUpdateEffect
        DEF Commits, Writes, Dead
    <2>3. ASSUME NEW s \in Sessions, CommitExpire(s)
          PROVE  escrow'[p].status \in Dead
        BY <1>1, <2>3, ExpireEffect DEF Dead
    <2>. QED  BY <1>1, <2>1, <2>2, <2>3, StepShape
<1>2. BaseInv /\ [Next]_vars =>
        [\A p \in Proofs : escrow[p].status \in Dead => escrow'[p].status \in Dead]_vars
    BY <1>1
<1>3. Spec => []BaseInv
    BY BaseHolds
<1>. QED  BY <1>2, <1>3, PTL DEF Spec, DeadStaysDead

-----------------------------------------------------------------------------
(* Tokens *)

\* A step that mints and returns no token, changes no digest, brings no record
\* back to held and puts no session into release or respond.
LEMMA TokenQuiet ==
    ASSUME TypeOK, TokenInv, UNCHANGED <<minted, returned>>,
           \A p \in Proofs : escrow'[p].digest = escrow[p].digest,
           \A p \in Proofs : escrow'[p].status \in {"none", "held"} =>
                                escrow[p].status \in {"none", "held"},
           \A z \in Sessions : session'[z].op \in {"release", "respond"} =>
                                session'[z] = session[z]
    PROVE  TokenInv'
<1>1. /\ \A p \in Proofs : escrow'[p].status \in {"none", "held"} => escrow'[p].digest = NoToken
      /\ \A p \in Proofs : escrow'[p].digest \in minted' \cup {NoToken}
      /\ \A p, q \in Proofs : p # q /\ escrow'[p].digest # NoToken
                                    => escrow'[p].digest # escrow'[q].digest
      /\ \A p \in Proofs, t \in Tokens : <<p, t>> \in returned' => escrow'[p].digest = t
    BY DEF TokenInv
<1>2. \A s \in Sessions : session'[s].op = "release" =>
          /\ session'[s].token \in minted'
          /\ \A p \in Proofs : escrow'[p].digest # session'[s].token
          /\ \A z \in Sessions : z # s /\ session'[z].op = "release"
                                    => session'[z].token # session'[s].token
    BY DEF TokenInv
<1>3. ASSUME NEW s \in Sessions, session'[s].op = "respond"
      PROVE  escrow'[session'[s].proof].digest = session'[s].token
    <2>1. session'[s] = session[s]
        BY <1>3
    <2>2. session[s].op = "respond" /\ session[s].proof \in Proofs
        BY <1>3, <2>1, SessionFields DEF TypeOK
    <2>3. escrow[session[s].proof].digest = session[s].token
        BY <2>2 DEF TokenInv
    <2>. QED  BY <2>1, <2>2, <2>3
<1>. QED  BY <1>1, <1>2, <1>3 DEF TokenInv

LEMMA SessionMoves ==
    ASSUME TypeOK, NEW s \in Sessions, NEW st, session' = [session EXCEPT ![s] = st]
    PROVE  session'[s] = st /\ \A z \in Sessions : z # s => session'[z] = session[z]
    BY DEF TypeOK

LEMMA TokenStep ==
    ASSUME ConstantsAssumption, BaseInv, TokenInv, [Next]_vars
    PROVE  TokenInv'
<1>. TypeOK /\ TargetsExist
    BY DEF BaseInv
<1>1. ASSUME NEW s \in Sessions, Create(s)
      PROVE  TokenInv'
    <2>1. ASSUME CommitCreate(s)
          PROVE  TokenInv'
        <3>1. /\ \A p \in Proofs : escrow'[p].digest = escrow[p].digest
              /\ \A p \in Proofs : escrow'[p].status \in {"none", "held"} =>
                                    escrow[p].status \in {"none", "held"}
            BY <2>1, CommitCreateEffect DEF Writes, TokenInv
        <3>2. session'[s] = Idle /\ \A z \in Sessions : z # s => session'[z] = session[z]
            BY <2>1, SessionMoves DEF CommitCreate, Ends, Becomes
        <3>. QED  BY <2>1, <3>1, <3>2, TokenQuiet DEF CommitCreate, Idle
    <2>2. ASSUME ConflictCreate(s)
          PROVE  TokenInv'
        <3>1. session'[s] = Idle /\ \A z \in Sessions : z # s => session'[z] = session[z]
            BY <2>2, SessionMoves DEF ConflictCreate, Ends, Becomes
        <3>. QED  BY <2>2, <3>1, TokenQuiet DEF ConflictCreate, Idle
    <2>3. ASSUME NEW p \in Proofs, NEW b \in Bindings, NEW ttl \in 1..MaxTtl,
                 LoadCreate(s, p, b, ttl)
          PROVE  TokenInv'
        <3>1. session'[s] = [op |-> "create", proof |-> p, binding |-> b,
                             expires |-> ResolveExpiresAt(p, ttl)]
            BY <2>3, SessionMoves DEF LoadCreate, Loads
        <3>2. \A z \in Sessions : z # s => session'[z] = session[z]
            BY <2>3, SessionMoves DEF LoadCreate, Loads
        <3>. QED  BY <2>3, <3>1, <3>2, TokenQuiet DEF LoadCreate
    <2>4. ASSUME NEW p \in Proofs, NEW b \in Bindings, ReplayCreate(s, p, b)
          PROVE  TokenInv'
        BY <2>4, TokenQuiet DEF ReplayCreate
    <2>. QED  BY <1>1, <2>1, <2>2, <2>3, <2>4 DEF Create
<1>2. ASSUME NEW s \in Sessions, NEW p \in Proofs, NEW t \in Tokens, LoadRelease(s, p, t)
      PROVE  TokenInv'
    <2>1. session'[s] = [op |-> "release", proof |-> p, token |-> t]
        BY <1>2, SessionMoves DEF LoadRelease, Loads
    <2>2. \A z \in Sessions : z # s => session'[z] = session[z]
        BY <1>2, SessionMoves DEF LoadRelease, Loads
    <2>3. t \notin minted /\ t # NoToken /\ minted' = minted \cup {t}
        BY <1>2 DEF LoadRelease, ConstantsAssumption
    <2>4. UNCHANGED <<escrow, returned>>
        BY <1>2 DEF LoadRelease
    <2>. QED  BY <2>1, <2>2, <2>3, <2>4 DEF TokenInv
<1>3. ASSUME NEW s \in Sessions, CommitRelease(s)
      PROVE  TokenInv'
    <2>. DEFINE p == session[s].proof
                t == session[s].token
    <2>1. p \in Proofs /\ t \in Tokens /\ session[s].op = "release"
        BY <1>3, SessionFields DEF CommitRelease, TypeOK
    <2>2. /\ escrow[p].status = "held"
          /\ escrow'[p].status = "released"
          /\ escrow'[p].digest = t
          /\ \A q \in Proofs : q # p => escrow'[q] = escrow[q]
        BY <1>3, CommitReleaseEffect DEF Writes
    <2>3. session'[s] = [op |-> "respond", proof |-> p, token |-> t]
        BY <1>3, SessionMoves DEF CommitRelease, Becomes
    <2>4. \A z \in Sessions : z # s => session'[z] = session[z]
        BY <1>3, SessionMoves DEF CommitRelease, Becomes
    <2>5. UNCHANGED <<minted, returned>> /\ t \in minted
        BY <1>3, <2>1 DEF CommitRelease, TokenInv
    <2>6. escrow[p].digest = NoToken /\ t # NoToken
        BY <2>1, <2>2 DEF TokenInv, ConstantsAssumption
    <2>. HIDE DEF p, t
    <2>7. /\ \A q \in Proofs : escrow'[q].status \in {"none", "held"} =>
                                    escrow'[q].digest = NoToken
          /\ \A q \in Proofs : escrow'[q].digest \in minted' \cup {NoToken}
        BY <2>1, <2>2, <2>5 DEF TokenInv
    <2>8. \A q, r \in Proofs : q # r /\ escrow'[q].digest # NoToken
                                    => escrow'[q].digest # escrow'[r].digest
        <3>1. \A q \in Proofs : escrow[q].digest # t
            BY <2>1 DEF TokenInv, t
        <3>. QED  BY <2>1, <2>2, <3>1 DEF TokenInv
    <2>9. \A z \in Sessions : session'[z].op = "release" =>
              /\ session'[z].token \in minted'
              /\ \A q \in Proofs : escrow'[q].digest # session'[z].token
              /\ \A y \in Sessions : y # z /\ session'[y].op = "release"
                                        => session'[y].token # session'[z].token
        <3>. SUFFICES ASSUME NEW z \in Sessions, session'[z].op = "release"
                      PROVE  /\ session'[z].token \in minted'
                             /\ \A q \in Proofs : escrow'[q].digest # session'[z].token
                             /\ \A y \in Sessions : y # z /\ session'[y].op = "release"
                                        => session'[y].token # session'[z].token
            OBVIOUS
        <3>1. z # s /\ session'[z] = session[z]
            BY <2>3, <2>4
        <3>2. session[z].token # t /\ session[z].token \in minted
            BY <3>1, <2>1 DEF TokenInv, t
        <3>3. \A q \in Proofs : escrow'[q].digest # session[z].token
            BY <3>1, <3>2, <2>2 DEF TokenInv
        <3>4. \A y \in Sessions : y # z /\ session'[y].op = "release"
                                        => session'[y].token # session'[z].token
            BY <3>1, <2>3, <2>4 DEF TokenInv
        <3>. QED  BY <3>1, <3>2, <3>3, <3>4, <2>5
    <2>10. \A z \in Sessions : session'[z].op = "respond" =>
               escrow'[session'[z].proof].digest = session'[z].token
        <3>. SUFFICES ASSUME NEW z \in Sessions, session'[z].op = "respond", z # s
                      PROVE  escrow'[session'[z].proof].digest = session'[z].token
            BY <2>2, <2>3
        <3>1. session'[z] = session[z]
            BY <2>4
        <3>2. session[z].proof \in Proofs /\ session[z].token \in Tokens
            BY <3>1, SessionFields DEF TypeOK
        <3>3. escrow[session[z].proof].digest = session[z].token
            BY <3>1 DEF TokenInv
        <3>4. session[z].proof # p
            BY <3>2, <3>3, <2>6 DEF ConstantsAssumption
        <3>. QED  BY <3>1, <3>2, <3>3, <3>4, <2>2
    <2>11. \A q \in Proofs, u \in Tokens : <<q, u>> \in returned' => escrow'[q].digest = u
        <3>. SUFFICES ASSUME NEW q \in Proofs, NEW u \in Tokens, <<q, u>> \in returned
                      PROVE  escrow'[q].digest = u
            BY <2>5
        <3>1. escrow[q].digest = u
            BY DEF TokenInv
        <3>2. q # p
            BY <3>1, <2>6 DEF ConstantsAssumption
        <3>. QED  BY <3>1, <3>2, <2>2
    <2>. QED  BY <2>7, <2>8, <2>9, <2>10, <2>11 DEF TokenInv
<1>4. ASSUME NEW s \in Sessions, RespondRelease(s)
      PROVE  TokenInv'
    <2>1. session'[s] = Idle /\ \A z \in Sessions : z # s => session'[z] = session[z]
        BY <1>4, SessionMoves DEF RespondRelease, Ends, Becomes
    <2>2. /\ session[s].op = "respond"
          /\ UNCHANGED <<escrow, minted>>
          /\ returned' = returned \cup {<<session[s].proof, session[s].token>>}
        BY <1>4 DEF RespondRelease
    <2>3. \A q \in Proofs, u \in Tokens : <<q, u>> \in returned' => escrow'[q].digest = u
        BY <2>2 DEF TokenInv
    <2>. QED  BY <2>1, <2>2, <2>3 DEF TokenInv, Idle
<1>5. ASSUME NEW s \in Sessions,
             \/ \E p \in Proofs, t \in Tokens : LoadConsume(s, p, t)
             \/ \E p \in Proofs : LoadRevoke(s, p) \/ LoadQuarantine(s, p)
             \/ \E p \in Proofs, e \in Observations : LoadUpdate(s, p, e)
             \/ \E S \in SUBSET Proofs : LoadOverdue(s, S)
      PROVE  TokenInv'
    <2>1. session'[s].op \notin {"release", "respond"}
        <3>1. ASSUME NEW p \in Proofs, NEW t \in Tokens, LoadConsume(s, p, t)
              PROVE  session'[s].op = "consume"
            BY <3>1 DEF LoadConsume, Loads, TypeOK
        <3>2. ASSUME NEW p \in Proofs, LoadRevoke(s, p)
              PROVE  session'[s].op = "revoke"
            BY <3>2 DEF LoadRevoke, Loads, TypeOK
        <3>3. ASSUME NEW p \in Proofs, LoadQuarantine(s, p)
              PROVE  session'[s].op = "quarantine"
            BY <3>3 DEF LoadQuarantine, Loads, TypeOK
        <3>4. ASSUME NEW p \in Proofs, NEW e \in Observations, LoadUpdate(s, p, e)
              PROVE  session'[s].op = "update"
            BY <3>4 DEF LoadUpdate, Loads, TypeOK
        <3>5. ASSUME NEW S \in SUBSET Proofs, LoadOverdue(s, S)
              PROVE  session'[s].op = "expire"
            BY <3>5 DEF LoadOverdue, Loads, TypeOK
        <3>. QED  BY <1>5, <3>1, <3>2, <3>3, <3>4, <3>5
    <2>2. \A z \in Sessions : z # s => session'[z] = session[z]
        BY <1>5, SessionMoves DEF LoadConsume, LoadRevoke, LoadQuarantine, LoadUpdate,
                                  LoadOverdue, Loads
    <2>3. UNCHANGED <<escrow, minted, returned>>
        BY <1>5 DEF LoadConsume, LoadRevoke, LoadQuarantine, LoadUpdate, LoadOverdue
    <2>. QED  BY <2>1, <2>2, <2>3, TokenQuiet
<1>6. ASSUME NEW s \in Sessions,
             LoseRelease(s) \/ LoseConsume(s) \/ Abort(s)
      PROVE  TokenInv'
    <2>1. session'[s] = Idle /\ \A z \in Sessions : z # s => session'[z] = session[z]
        BY <1>6, SessionMoves DEF LoseRelease, LoseConsume, Abort, Ends, Becomes
    <2>2. UNCHANGED <<escrow, minted, returned>>
        BY <1>6 DEF LoseRelease, LoseConsume, Abort
    <2>. QED  BY <2>1, <2>2, TokenQuiet DEF Idle
<1>7. ASSUME NEW s \in Sessions,
             CommitConsume(s) \/ CommitRevoke(s) \/ CommitQuarantine(s) \/ CommitUpdate(s)
      PROVE  TokenInv'
    <2>1. session'[s] = Idle /\ \A z \in Sessions : z # s => session'[z] = session[z]
        BY <1>7, SessionMoves DEF CommitConsume, CommitRevoke, CommitQuarantine,
                                  CommitUpdate, Ends, Becomes
    <2>2. UNCHANGED <<minted, returned>>
        BY <1>7 DEF CommitConsume, CommitRevoke, CommitQuarantine, CommitUpdate
    <2>3. /\ \A p \in Proofs : escrow'[p].digest = escrow[p].digest
          /\ \A p \in Proofs : escrow'[p].status \in {"none", "held"} =>
                                escrow[p].status \in {"none", "held"}
        BY <1>7, CommitConsumeEffect, CommitRevokeEffect, CommitQuarantineEffect,
           CommitUpdateEffect DEF Writes
    <2>. QED  BY <2>1, <2>2, <2>3, TokenQuiet DEF Idle
<1>8. ASSUME NEW s \in Sessions, CommitExpire(s)
      PROVE  TokenInv'
    <2>1. session'[s] = Idle /\ \A z \in Sessions : z # s => session'[z] = session[z]
        BY <1>8, SessionMoves DEF CommitExpire, Ends, Becomes
    <2>2. UNCHANGED <<minted, returned>>
        BY <1>8 DEF CommitExpire
    <2>3. /\ \A p \in Proofs : escrow'[p].digest = escrow[p].digest
          /\ \A p \in Proofs : escrow'[p].status \in {"none", "held"} =>
                                escrow[p].status \in {"none", "held"}
        BY <1>8, ExpireEffect
    <2>. QED  BY <2>1, <2>2, <2>3, TokenQuiet DEF Idle
<1>9. ASSUME Elsewhere
      PROVE  TokenInv'
    BY <1>9, TokenQuiet, ElsewhereSame
<1>10. ASSUME NEW s \in Sessions, ReleaseOrConsume(s)
       PROVE  TokenInv'
    BY <1>10, <1>2, <1>3, <1>4, <1>5, <1>6, <1>7 DEF ReleaseOrConsume
<1>11. ASSUME NEW s \in Sessions, Intervene(s) \/ Expire(s) \/ Abort(s)
       PROVE  TokenInv'
    BY <1>11, <1>5, <1>6, <1>7, <1>8 DEF Intervene, Expire
<1>. QED  BY <1>1, <1>9, <1>10, <1>11 DEF Next, Elsewhere

LEMMA TokenHolds == Spec => [](BaseInv /\ TokenInv)
<1>. USE ConstantsAssumption
<1>1. Init => TokenInv
    BY DEF Init, TokenInv, NoRecord, Idle
<1>2. BaseInv /\ TokenInv /\ [Next]_vars => TokenInv'
    BY TokenStep
<1>. QED  BY <1>1, <1>2, BaseHolds, PTL DEF Spec

\* release_capability sends a raw token out at most once per record, never the
\* same token for two records, and always the one whose digest the row keeps.
THEOREM TokenOnce == Spec => []TokenReturnedOnce
<1>1. BaseInv /\ TokenInv => TokenReturnedOnce
    BY ConstantsAssumption DEF TokenInv, TokenReturnedOnce, ConstantsAssumption
<1>. QED  BY <1>1, TokenHolds, PTL

-----------------------------------------------------------------------------
(* Escrow implements CapabilityLedger *)

LEMMA LedgerStep ==
    ASSUME ConstantsAssumption, BaseInv, TokenInv, [Next]_vars
    PROVE  [Ledger!LedgerNext]_(Ledger!ledgerVars)
<1>. TypeOK /\ TargetsExist
    BY DEF BaseInv
<1>. DEFINE ph == [p \in Proofs |-> PhaseOf(escrow[p].status)]
            ky == [p \in Proofs |-> escrow[p].digest]
<1>d. ASSUME NEW S \in SUBSET Proofs,
             \A c \in S : escrow[c].status # "none" /\ escrow'[c].status \in Dead,
             \A c \in Proofs : c \notin S => escrow'[c].status = escrow[c].status,
             \A c \in Proofs : escrow'[c].digest = escrow[c].digest
      PROVE  Ledger!VoidAll(S)
    <2>1. \A c \in S : ph[c] # "absent"
        BY <1>d DEF PhaseOf
    <2>2. ph' = [c \in Proofs |-> IF c \in S THEN "void" ELSE ph[c]]
        BY <1>d DEF PhaseOf, Dead
    <2>3. ky' = ky
        BY <1>d
    <2>. QED  BY <2>1, <2>2, <2>3 DEF Ledger!VoidAll
<1>1. CASE UNCHANGED <<escrow, history, latest>>
    BY <1>1 DEF Ledger!ledgerVars
<1>2. ASSUME NEW s \in Sessions, CommitCreate(s)
      PROVE  Ledger!LedgerNext
    <2>. DEFINE p == session[s].proof
    <2>1. /\ p \in Proofs /\ escrow[p].status = "none" /\ escrow'[p].status = "held"
          /\ escrow'[p].digest = NoToken
          /\ \A q \in Proofs : q # p => escrow'[q] = escrow[q]
        BY <1>2, CommitCreateEffect DEF Writes
    <2>. HIDE DEF p
    <2>2. escrow[p].digest = NoToken
        BY <2>1 DEF TokenInv
    <2>3. ph[p] = "absent" /\ ph' = [ph EXCEPT ![p] = "held"]
        BY <2>1 DEF PhaseOf
    <2>4. ky' = ky
        BY <2>1, <2>2
    <2>5. Ledger!Hold(p)
        BY <2>3, <2>4 DEF Ledger!Hold
    <2>. QED  BY <2>1, <2>5 DEF Ledger!LedgerNext
<1>3. ASSUME NEW s \in Sessions, CommitRelease(s)
      PROVE  Ledger!LedgerNext
    <2>. DEFINE p == session[s].proof
                t == session[s].token
    <2>0. session[s].op = "release" /\ t \in Tokens
        BY <1>3, SessionFields DEF CommitRelease, TypeOK
    <2>1. /\ p \in Proofs /\ escrow[p].status = "held" /\ escrow'[p].status = "released"
          /\ escrow'[p].digest = t
          /\ \A q \in Proofs : q # p => escrow'[q] = escrow[q]
        BY <1>3, CommitReleaseEffect DEF Writes
    <2>2. \A q \in Proofs : escrow[q].digest # t
        BY <2>0 DEF TokenInv
    <2>. HIDE DEF p, t
    <2>3. ph[p] = "held" /\ ph' = [ph EXCEPT ![p] = "released"]
        BY <2>1 DEF PhaseOf
    <2>4. ky' = [ky EXCEPT ![p] = t] /\ \A q \in Proofs : ky[q] # t
        BY <2>1, <2>2
    <2>5. Ledger!Release(p, t)
        BY <2>3, <2>4 DEF Ledger!Release
    <2>6. \E c \in Proofs, k \in Tokens : Ledger!Release(c, k)
        BY <2>0, <2>1, <2>5, ZenonT(40) DEF Ledger!Release
    <2>. QED  BY <2>6 DEF Ledger!LedgerNext
<1>4. ASSUME NEW s \in Sessions, CommitConsume(s)
      PROVE  Ledger!LedgerNext
    <2>. DEFINE p == session[s].proof
    <2>1. /\ p \in Proofs /\ escrow[p].status = "released" /\ escrow'[p].status = "consumed"
          /\ escrow'[p].digest = escrow[p].digest
          /\ \A q \in Proofs : q # p => escrow'[q] = escrow[q]
        BY <1>4, CommitConsumeEffect DEF Writes
    <2>. HIDE DEF p
    <2>2. ph[p] = "released" /\ ph' = [ph EXCEPT ![p] = "used"]
        BY <2>1 DEF PhaseOf
    <2>3. ky' = ky
        BY <2>1
    <2>4. Ledger!Use(p)
        BY <2>2, <2>3 DEF Ledger!Use
    <2>. QED  BY <2>1, <2>4 DEF Ledger!LedgerNext
<1>5. ASSUME NEW s \in Sessions, CommitRevoke(s) \/ CommitQuarantine(s)
      PROVE  Ledger!LedgerNext
    <2>. DEFINE p == session[s].proof
    <2>1. /\ p \in Proofs /\ escrow'[p].status \in Dead
          /\ escrow'[p].digest = escrow[p].digest
          /\ \A q \in Proofs : q # p => escrow'[q] = escrow[q]
        BY <1>5, CommitRevokeEffect, CommitQuarantineEffect DEF Writes, Dead
    <2>2. session[s].op \in {"revoke", "quarantine"}
        BY <1>5 DEF CommitRevoke, CommitQuarantine
    <2>3. escrow[p].status # "none"
        BY <2>1, <2>2 DEF TargetsExist, Targets
    <2>. HIDE DEF p
    <2>4. Ledger!VoidAll({p})
        BY <2>1, <2>3, <1>d
    <2>. QED  BY <2>1, <2>4 DEF Ledger!LedgerNext
<1>6. ASSUME NEW s \in Sessions, CommitUpdate(s)
      PROVE  UNCHANGED Ledger!ledgerVars
    <2>1. \A q \in Proofs : /\ escrow'[q].status = escrow[q].status
                           /\ escrow'[q].digest = escrow[q].digest
        BY <1>6, CommitUpdateEffect DEF Writes
    <2>2. ph' = ph /\ ky' = ky
        BY <2>1
    <2>. QED  BY <2>2 DEF Ledger!ledgerVars
<1>7. ASSUME NEW s \in Sessions, CommitExpire(s)
      PROVE  Ledger!LedgerNext
    <2>. DEFINE S == DOMAIN session[s].from
    <2>1. session[s].op = "expire" /\ S \subseteq Proofs
        BY <1>7, SessionFields DEF CommitExpire, TypeOK
    <2>2. \A c \in S : escrow[c].status # "none"
        BY <2>1 DEF TargetsExist, Targets
    <2>3. /\ \A c \in S : escrow'[c].status \in Dead
          /\ \A c \in Proofs : c \notin S => escrow'[c].status = escrow[c].status
          /\ \A c \in Proofs : escrow'[c].digest = escrow[c].digest
        BY <1>7, <2>1, ExpireEffect DEF Dead
    <2>. HIDE DEF S
    <2>4. Ledger!VoidAll(S)
        BY <2>1, <2>2, <2>3, <1>d
    <2>. QED  BY <2>1, <2>4 DEF Ledger!LedgerNext
<1>. QED  BY <1>1, <1>2, <1>3, <1>4, <1>5, <1>6, <1>7, StepShape DEF Commits

\* Whatever sessions interleave, the escrow table behaves as a ledger of
\* single-use capabilities: held, released once under a token of its own, used
\* at most once, void for good once void.
THEOREM EscrowImplementsLedger == Spec => ImplementsLedger
<1>. USE ConstantsAssumption
<1>1. Init => Ledger!LedgerInit
    <2>. SUFFICES ASSUME Init
                  PROVE  Ledger!LedgerInit
        OBVIOUS
    <2>1. \A p \in Proofs : escrow[p].status = "none" /\ escrow[p].digest = NoToken
        BY DEF Init, NoRecord
    <2>. QED  BY <2>1 DEF Ledger!LedgerInit, PhaseOf
<1>2. BaseInv /\ TokenInv /\ [Next]_vars => [Ledger!LedgerNext]_(Ledger!ledgerVars)
    BY LedgerStep
<1>. QED  BY <1>1, <1>2, TokenHolds, PTL DEF Spec, ImplementsLedger, Ledger!LedgerSpec

-----------------------------------------------------------------------------
(* Single use, on the transition table *)

LEMMA AppendEntries ==
    ASSUME NEW h \in Seq(EscrowTransitionRecord), NEW t \in EscrowTransitionRecord,
           NEW type
    PROVE  {n \in DOMAIN Append(h, t) : Append(h, t)[n].type = type}
             = {n \in DOMAIN h : h[n].type = type}
               \cup (IF t.type = type THEN {Len(h) + 1} ELSE {})
<1>1. DOMAIN Append(h, t) = 1..(Len(h) + 1) /\ DOMAIN h = 1..Len(h) /\ Len(h) \in Nat
    OBVIOUS
<1>2. Append(h, t)[Len(h) + 1] = t /\ \A n \in 1..Len(h) : Append(h, t)[n] = h[n]
    OBVIOUS
<1>3. 1..(Len(h) + 1) = (1..Len(h)) \cup {Len(h) + 1}
    BY <1>1
<1>. QED  BY <1>1, <1>2, <1>3

LEMMA Appended ==
    ASSUME TypeOK, NEW p \in Proofs, NEW t \in EscrowTransitionRecord,
           history'[p] = Append(history[p], t)
    PROVE  /\ Len(history[p]) \in Nat
           /\ \A type : Entries(p, type)' = Entries(p, type)
                \cup (IF t.type = type THEN {Len(history[p]) + 1} ELSE {})
           /\ \A type : Entries(p, type) \subseteq 1..Len(history[p])
<1>1. history[p] \in Seq(EscrowTransitionRecord)
    BY DEF TypeOK
<1>2. \A type : Entries(p, type)' = Entries(p, type)
                \cup (IF t.type = type THEN {Len(history[p]) + 1} ELSE {})
    BY <1>1, AppendEntries DEF Entries
<1>3. \A type : Entries(p, type) \subseteq 1..Len(history[p])
    BY <1>1 DEF Entries
<1>. QED  BY <1>1, <1>2, <1>3

\* A record's table gains the entry t, which tells the change of the record.
Logged(p, t) ==
    /\ t \in EscrowTransitionRecord
    /\ history'[p] = Append(history[p], t)
    /\ t.exec = escrow'[p].exec
    /\ t.type # "execution_update" => t.to = escrow'[p].status
    /\ \/ /\ t.type = "hold_created" /\ t.exec = "capability_held"
          /\ escrow[p].status = "none" /\ escrow'[p].status = "held"
       \/ /\ t.type = "released" /\ t.exec = "capability_released"
          /\ escrow[p].status = "held" /\ escrow'[p].status = "released"
       \/ /\ t.type = "consumed" /\ t.exec = "dispatch_requested"
          /\ escrow[p].status = "released" /\ escrow'[p].status = "consumed"
       \/ /\ t.type \in Dead /\ t.exec \in Dead
          /\ escrow[p].status # "none" /\ escrow'[p].status \in Dead
       \/ /\ t.type = "execution_update"
          /\ escrow[p].status # "none" /\ escrow'[p].status = escrow[p].status
          /\ \E s \in Sessions : session[s].op = "update" /\ session[s].proof = p

LEMMA HistoryGrows ==
    ASSUME TypeOK, HistoryInv, NEW p \in Proofs, NEW t, Logged(p, t)
    PROVE  (HistoryFits(p) /\ OnePass(p))'
<1>. USE DEF Logged, Dead
<1>. DEFINE L == Len(history[p])
            H == Entries(p, "hold_created")
            R == Entries(p, "released")
            C == Entries(p, "consumed")
<1>1. L \in Nat
    BY Appended
<1>2. H' = H \cup (IF t.type = "hold_created" THEN {L + 1} ELSE {})
    BY Appended
<1>3. R' = R \cup (IF t.type = "released" THEN {L + 1} ELSE {})
    BY Appended
<1>4. C' = C \cup (IF t.type = "consumed" THEN {L + 1} ELSE {})
    BY Appended
<1>5. H \subseteq 1..L /\ R \subseteq 1..L /\ C \subseteq 1..L
    BY Appended
<1>6. HistoryFits(p) /\ OnePass(p)
    BY DEF HistoryInv
<1>7. escrow[p].status = "none" => H = {} /\ R = {} /\ C = {}
    BY <1>6 DEF HistoryFits, Entries
<1>. HIDE DEF L, H, R, C
<1>8. /\ escrow[p].status # "none" => H # {}
      /\ escrow[p].status \in {"none", "held"} => R = {}
      /\ escrow[p].status = "released" => R # {}
      /\ escrow[p].status \in {"none", "held", "released"} => C = {}
    BY <1>6 DEF HistoryFits, H, R, C
<1>9. /\ \A m, n \in H : m = n
      /\ \A m, n \in R : m = n
      /\ \A m, n \in C : m = n
      /\ \A n \in C : \E m \in R : m < n
      /\ \A n \in R : \E m \in H : m < n
    BY <1>6 DEF OnePass, H, R, C
<1>10. HistoryFits(p)'
    <2>1. escrow'[p].status # "none"
        BY DEF Dead
    <2>2. H' # {}
        BY <1>2, <1>8
    <2>3. escrow'[p].status \in {"none", "held"} => R' = {}
        BY <1>3, <1>7, <1>8 DEF Dead
    <2>4. escrow'[p].status = "released" => R' # {}
        BY <1>3, <1>8 DEF Dead
    <2>5. escrow'[p].status \in {"none", "held", "released"} => C' = {}
        BY <1>4, <1>7, <1>8 DEF Dead
    <2>. QED  BY <2>1, <2>2, <2>3, <2>4, <2>5 DEF HistoryFits, H, R, C
<1>11. OnePass(p)'
    <2>1. \A m, n \in H' : m = n
        BY <1>2, <1>7, <1>9
    <2>2. \A m, n \in R' : m = n
        BY <1>3, <1>8, <1>9
    <2>3. \A m, n \in C' : m = n
        BY <1>4, <1>8, <1>9
    <2>4. ASSUME NEW n \in C'  PROVE \E m \in R' : m < n
        <3>1. R \subseteq R'
            BY <1>3
        <3>2. CASE n \in C
            BY <3>1, <3>2, <1>9
        <3>3. CASE n \notin C
            <4>1. n = L + 1 /\ R # {}
                BY <3>3, <1>4, <1>8
            <4>2. PICK m \in R : TRUE
                BY <4>1
            <4>3. m \in 1..L
                BY <1>5
            <4>4. m < n
                BY <4>1, <4>3, <1>1
            <4>. QED  BY <4>2, <4>4, <3>1
        <3>. QED  BY <3>2, <3>3
    <2>5. ASSUME NEW n \in R'  PROVE \E m \in H' : m < n
        <3>1. H \subseteq H'
            BY <1>2
        <3>2. CASE n \in R
            BY <3>1, <3>2, <1>9
        <3>3. CASE n \notin R
            <4>1. n = L + 1 /\ H # {}
                BY <3>3, <1>3, <1>8
            <4>2. PICK m \in H : TRUE
                BY <4>1
            <4>3. m \in 1..L
                BY <1>5
            <4>4. m < n
                BY <4>1, <4>3, <1>1
            <4>. QED  BY <4>2, <4>4, <3>1
        <3>. QED  BY <3>2, <3>3
    <2>. QED  BY <2>1, <2>2, <2>3, <2>4, <2>5 DEF OnePass, H, R, C
<1>. QED  BY <1>10, <1>11

LEMMA HistorySame ==
    ASSUME HistoryInv, NEW p \in Proofs, history'[p] = history[p], escrow'[p] = escrow[p]
    PROVE  (HistoryFits(p) /\ OnePass(p))'
<1>1. \A type : Entries(p, type)' = Entries(p, type)
    BY DEF Entries
<1>. QED  BY <1>1 DEF HistoryInv, HistoryFits, OnePass

\* Whatever a step does to a record, its table tells it.
LEMMA LoggedStep ==
    ASSUME BaseInv, [Next]_vars, NEW q \in Proofs
    PROVE  \/ history'[q] = history[q] /\ escrow'[q] = escrow[q]
           \/ \E t : Logged(q, t)
<1>. TypeOK /\ TargetsExist
    BY DEF BaseInv
<1>. DEFINE Told == \/ history'[q] = history[q] /\ escrow'[q] = escrow[q]
                    \/ \E t : Logged(q, t)
<1>1. CASE UNCHANGED <<escrow, history, latest>>
    BY <1>1
<1>2. ASSUME NEW s \in Sessions, NEW st, NEW e, NEW d, Writes(s, st, e, d),
             NEW t, history' = [history EXCEPT ![session[s].proof] = Append(@, t)]
      PROVE  /\ history'[session[s].proof] = Append(history[session[s].proof], t)
             /\ q # session[s].proof => history'[q] = history[q] /\ escrow'[q] = escrow[q]
    BY <1>2 DEF Writes, TypeOK
<1>3. ASSUME NEW s \in Sessions, CommitCreate(s)
      PROVE  Told
    <2>. DEFINE t == Transition("hold_created", "none", "held", "capability_held")
    <2>1. /\ t \in EscrowTransitionRecord /\ t.type = "hold_created"
          /\ t.exec = "capability_held" /\ t.to = "held"
        BY DEF Transition, EscrowTransitionRecord, EscrowTransitionType, EscrowStatus,
               ExecutionState
    <2>2. history' = [history EXCEPT ![session[s].proof] = Append(@, t)]
        BY <1>3 DEF CommitCreate, CommitsRecord, AppendTransition
    <2>. HIDE DEF t
    <2>3. q = session[s].proof => Logged(q, t)
        BY <1>2, <1>3, <2>1, <2>2, CommitCreateEffect, ZenonT(40) DEF Writes, Logged, Dead
    <2>. QED  BY <1>2, <1>3, <2>2, <2>3, CommitCreateEffect
<1>4. ASSUME NEW s \in Sessions, CommitRelease(s)
      PROVE  Told
    <2>. DEFINE t == Transition("released", "held", "released", "capability_released")
    <2>1. /\ t \in EscrowTransitionRecord /\ t.type = "released"
          /\ t.exec = "capability_released" /\ t.to = "released"
        BY DEF Transition, EscrowTransitionRecord, EscrowTransitionType, EscrowStatus,
               ExecutionState
    <2>2. history' = [history EXCEPT ![session[s].proof] = Append(@, t)]
        BY <1>4 DEF CommitRelease, CommitsRecord, AppendTransition
    <2>. HIDE DEF t
    <2>3. q = session[s].proof => Logged(q, t)
        BY <1>2, <1>4, <2>1, <2>2, CommitReleaseEffect, ZenonT(40) DEF Writes, Logged, Dead
    <2>. QED  BY <1>2, <1>4, <2>2, <2>3, CommitReleaseEffect
<1>5. ASSUME NEW s \in Sessions, CommitConsume(s)
      PROVE  Told
    <2>. DEFINE t == Transition("consumed", "released", "consumed", "dispatch_requested")
    <2>1. /\ t \in EscrowTransitionRecord /\ t.type = "consumed"
          /\ t.exec = "dispatch_requested" /\ t.to = "consumed"
        BY DEF Transition, EscrowTransitionRecord, EscrowTransitionType, EscrowStatus,
               ExecutionState
    <2>2. history' = [history EXCEPT ![session[s].proof] = Append(@, t)]
        BY <1>5 DEF CommitConsume, CommitsRecord, AppendTransition
    <2>. HIDE DEF t
    <2>3. q = session[s].proof => Logged(q, t)
        BY <1>2, <1>5, <2>1, <2>2, CommitConsumeEffect, ZenonT(40) DEF Writes, Logged, Dead
    <2>. QED  BY <1>2, <1>5, <2>2, <2>3, CommitConsumeEffect
<1>6. ASSUME NEW s \in Sessions, session[s].op \in {"revoke", "quarantine", "update"}
      PROVE  session[s].proof \in Proofs /\ escrow[session[s].proof].status # "none"
    <2>1. session[s].proof \in Proofs
        BY <1>6, SessionFields DEF TypeOK
    <2>. QED  BY <1>6, <2>1 DEF TargetsExist, Targets
<1>7. ASSUME NEW s \in Sessions, CommitRevoke(s)
      PROVE  Told
    <2>. DEFINE t == Transition("revoked", session[s].from, "revoked", "revoked")
    <2>0. session[s].op = "revoke" /\ session[s].from \in Live
        BY <1>7, SessionFields DEF CommitRevoke, TypeOK
    <2>1. /\ t \in EscrowTransitionRecord /\ t.type = "revoked"
          /\ t.exec = "revoked" /\ t.to = "revoked"
        BY <2>0 DEF Transition, EscrowTransitionRecord, EscrowTransitionType, EscrowStatus,
               ExecutionState, Live
    <2>2. history' = [history EXCEPT ![session[s].proof] = Append(@, t)]
        BY <1>7 DEF CommitRevoke, CommitsRecord, AppendTransition
    <2>. HIDE DEF t
    <2>3. q = session[s].proof => Logged(q, t)
        BY <1>2, <1>6, <1>7, <2>0, <2>1, <2>2, CommitRevokeEffect DEF Writes, Logged, Dead
    <2>. QED  BY <1>2, <1>7, <2>2, <2>3, CommitRevokeEffect
<1>8. ASSUME NEW s \in Sessions, CommitQuarantine(s)
      PROVE  Told
    <2>. DEFINE t == Transition("quarantined", session[s].from, "quarantined", "quarantined")
    <2>0. session[s].op = "quarantine" /\ session[s].from \in Live \cup {"consumed"}
        BY <1>8, SessionFields DEF CommitQuarantine, TypeOK
    <2>1. /\ t \in EscrowTransitionRecord /\ t.type = "quarantined"
          /\ t.exec = "quarantined" /\ t.to = "quarantined"
        BY <2>0 DEF Transition, EscrowTransitionRecord, EscrowTransitionType, EscrowStatus,
               ExecutionState, Live
    <2>2. history' = [history EXCEPT ![session[s].proof] = Append(@, t)]
        BY <1>8 DEF CommitQuarantine, CommitsRecord, AppendTransition
    <2>. HIDE DEF t
    <2>3. q = session[s].proof => Logged(q, t)
        BY <1>2, <1>6, <1>8, <2>0, <2>1, <2>2, CommitQuarantineEffect DEF Writes, Logged, Dead
    <2>. QED  BY <1>2, <1>8, <2>2, <2>3, CommitQuarantineEffect
<1>9. ASSUME NEW s \in Sessions, CommitUpdate(s)
      PROVE  Told
    <2>. DEFINE t == Transition("execution_update", "consumed", "consumed", session[s].exec)
    <2>0. session[s].op = "update" /\ session[s].exec \in Observations
        BY <1>9, SessionFields DEF CommitUpdate, TypeOK
    <2>1. /\ t \in EscrowTransitionRecord /\ t.type = "execution_update"
          /\ t.exec = session[s].exec
        BY <2>0 DEF Transition, EscrowTransitionRecord, EscrowTransitionType, EscrowStatus,
               ExecutionState, Observations
    <2>2. history' = [history EXCEPT ![session[s].proof] = Append(@, t)]
        BY <1>9 DEF CommitUpdate, CommitsRecord, AppendTransition
    <2>. HIDE DEF t
    <2>3. q = session[s].proof => Logged(q, t)
        BY <1>2, <1>6, <1>9, <2>0, <2>1, <2>2, CommitUpdateEffect, ZenonT(40) DEF Writes, Logged, Dead
    <2>. QED  BY <1>2, <1>9, <2>2, <2>3, CommitUpdateEffect
<1>10. ASSUME NEW s \in Sessions, CommitExpire(s)
       PROVE  Told
    <2>. DEFINE S == DOMAIN session[s].from
                t == Transition("expired", session[s].from[q], "expired", "expired")
    <2>0. session[s].op = "expire" /\ S \subseteq Proofs /\ session[s].from \in [S -> Live]
        BY <1>10, SessionFields DEF CommitExpire, TypeOK
    <2>1. CASE q \notin S
        <3>1. history'[q] = history[q] /\ escrow'[q] = escrow[q]
            BY <1>10, <2>1, ExpireEffect DEF CommitExpire
        <3>. QED  BY <3>1
    <2>2. CASE q \in S
        <3>1. /\ t \in EscrowTransitionRecord /\ t.type = "expired"
              /\ t.exec = "expired" /\ t.to = "expired"
            BY <2>0, <2>2 DEF Transition, EscrowTransitionRecord, EscrowTransitionType,
                              EscrowStatus, ExecutionState, Live
        <3>2. history'[q] = Append(history[q], t)
            BY <1>10, <2>2 DEF CommitExpire
        <3>3. /\ escrow[q].status # "none" /\ escrow'[q].status = "expired"
              /\ escrow'[q].exec = "expired"
            BY <1>10, <2>0, <2>2, ExpireEffect DEF TargetsExist, Targets
        <3>. HIDE DEF t
        <3>4. Logged(q, t)
            BY <3>1, <3>2, <3>3 DEF Logged, Dead
        <3>. QED  BY <3>4
    <2>. QED  BY <2>1, <2>2
<1>. QED  BY <1>1, <1>3, <1>4, <1>5, <1>7, <1>8, <1>9, <1>10, StepShape DEF Commits

LEMMA HistoryStep ==
    ASSUME BaseInv, HistoryInv, [Next]_vars
    PROVE  HistoryInv'
<1>. SUFFICES ASSUME NEW q \in Proofs
              PROVE  (HistoryFits(q) /\ OnePass(q))'
    BY DEF HistoryInv
<1>. QED  BY LoggedStep, HistoryGrows, HistorySame DEF BaseInv

LEMMA HistoryHolds == Spec => [](BaseInv /\ HistoryInv)
<1>1. Init => HistoryInv
    BY DEF Init, HistoryInv, HistoryFits, OnePass, Entries, NoRecord
<1>2. BaseInv /\ HistoryInv /\ [Next]_vars => HistoryInv'
    BY HistoryStep
<1>. QED  BY <1>1, <1>2, BaseHolds, PTL DEF Spec

\* Of all the concurrent create_hold, release_capability and consume_capability
\* requests for a proof, at most one of each takes effect, in that order.
THEOREM SingleUseHolds == Spec => []SingleUse
<1>1. HistoryInv => SingleUse
    BY DEF HistoryInv, SingleUse
<1>. QED  BY <1>1, HistoryHolds, PTL

-----------------------------------------------------------------------------
(* What create_hold confirms *)

\* What a step may make of a session that goes on to create or to update.
LEMMA SessionShape ==
    ASSUME TypeOK, [Next]_vars, NEW z \in Sessions, session'[z] # session[z]
    PROVE  \/ session'[z].op \notin {"create", "update"}
           \/ \E p \in Proofs, b \in Bindings, ttl \in 1..MaxTtl :
                 /\ LoadCreate(z, p, b, ttl)
                 /\ session'[z] = [op |-> "create", proof |-> p, binding |-> b,
                                   expires |-> ResolveExpiresAt(p, ttl)]
           \/ \E p \in Proofs, e \in Observations :
                 LoadUpdate(z, p, e) /\ session'[z] = [op |-> "update", proof |-> p, exec |-> e]
<1>. DEFINE Goal ==
           \/ session'[z].op \notin {"create", "update"}
           \/ \E p \in Proofs, b \in Bindings, ttl \in 1..MaxTtl :
                 /\ LoadCreate(z, p, b, ttl)
                 /\ session'[z] = [op |-> "create", proof |-> p, binding |-> b,
                                   expires |-> ResolveExpiresAt(p, ttl)]
           \/ \E p \in Proofs, e \in Observations :
                 LoadUpdate(z, p, e) /\ session'[z] = [op |-> "update", proof |-> p, exec |-> e]
<1>1. ASSUME NEW s \in Sessions, NEW st, session' = [session EXCEPT ![s] = st]
      PROVE  s = z /\ session'[z] = st
    BY <1>1, SessionMoves
<1>2. ASSUME NEW s \in Sessions, Ends(s)  PROVE Goal
    <2>1. s = z /\ session'[z] = Idle
        BY <1>1, <1>2 DEF Ends, Becomes
    <2>. QED  BY <2>1 DEF Idle
<1>3. ASSUME NEW s \in Sessions, Create(s)  PROVE Goal
    <2>1. ASSUME NEW p \in Proofs, NEW b \in Bindings, NEW ttl \in 1..MaxTtl,
                 LoadCreate(s, p, b, ttl)
          PROVE  Goal
        <3>1. s = z /\ session'[z] = [op |-> "create", proof |-> p, binding |-> b,
                                     expires |-> ResolveExpiresAt(p, ttl)]
            BY <1>1, <2>1 DEF LoadCreate, Loads
        <3>. QED  BY <2>1, <3>1
    <2>2. ASSUME NEW p \in Proofs, NEW b \in Bindings, ReplayCreate(s, p, b)  PROVE Goal
        BY <2>2 DEF ReplayCreate
    <2>3. ASSUME CommitCreate(s) \/ ConflictCreate(s)  PROVE Goal
        BY <1>2, <2>3 DEF CommitCreate, ConflictCreate
    <2>. QED  BY <1>3, <2>1, <2>2, <2>3 DEF Create
<1>4. ASSUME NEW s \in Sessions, ReleaseOrConsume(s)  PROVE Goal
    <2>1. ASSUME NEW p \in Proofs, NEW t \in Tokens, LoadRelease(s, p, t)  PROVE Goal
        <3>1. session'[z] = [op |-> "release", proof |-> p, token |-> t]
            BY <1>1, <2>1 DEF LoadRelease, Loads
        <3>. QED  BY <3>1
    <2>2. ASSUME NEW p \in Proofs, NEW t \in Tokens, LoadConsume(s, p, t)  PROVE Goal
        <3>1. session'[z] = [op |-> "consume", proof |-> p, token |-> t]
            BY <1>1, <2>2 DEF LoadConsume, Loads
        <3>. QED  BY <3>1
    <2>3. ASSUME CommitRelease(s)  PROVE Goal
        <3>1. session'[z] = [op |-> "respond", proof |-> session[s].proof,
                             token |-> session[s].token]
            BY <1>1, <2>3 DEF CommitRelease, Becomes
        <3>. QED  BY <3>1
    <2>4. ASSUME LoseRelease(s) \/ RespondRelease(s) \/ CommitConsume(s) \/ LoseConsume(s)
          PROVE  Goal
        BY <1>2, <2>4 DEF LoseRelease, RespondRelease, CommitConsume, LoseConsume
    <2>. QED  BY <1>4, <2>1, <2>2, <2>3, <2>4 DEF ReleaseOrConsume
<1>5. ASSUME NEW s \in Sessions, Intervene(s)  PROVE Goal
    <2>1. ASSUME NEW p \in Proofs, LoadRevoke(s, p)  PROVE Goal
        <3>1. session'[z] = [op |-> "revoke", proof |-> p, from |-> escrow[p].status]
            BY <1>1, <2>1 DEF LoadRevoke, Loads
        <3>. QED  BY <3>1
    <2>2. ASSUME NEW p \in Proofs, LoadQuarantine(s, p)  PROVE Goal
        <3>1. session'[z] = [op |-> "quarantine", proof |-> p, from |-> escrow[p].status]
            BY <1>1, <2>2 DEF LoadQuarantine, Loads
        <3>. QED  BY <3>1
    <2>3. ASSUME NEW p \in Proofs, NEW e \in Observations, LoadUpdate(s, p, e)  PROVE Goal
        <3>1. s = z /\ session'[z] = [op |-> "update", proof |-> p, exec |-> e]
            BY <1>1, <2>3 DEF LoadUpdate, Loads
        <3>. QED  BY <2>3, <3>1
    <2>4. ASSUME CommitRevoke(s) \/ CommitQuarantine(s) \/ CommitUpdate(s)  PROVE Goal
        BY <1>2, <2>4 DEF CommitRevoke, CommitQuarantine, CommitUpdate
    <2>. QED  BY <1>5, <2>1, <2>2, <2>3, <2>4 DEF Intervene
<1>6. ASSUME NEW s \in Sessions, Expire(s)  PROVE Goal
    <2>1. ASSUME NEW S \in SUBSET Proofs, LoadOverdue(s, S)  PROVE Goal
        <3>1. session'[z] = [op |-> "expire", from |-> [p \in S |-> escrow[p].status]]
            BY <1>1, <2>1 DEF LoadOverdue, Loads
        <3>. QED  BY <3>1
    <2>. QED  BY <1>2, <1>6, <2>1 DEF Expire, CommitExpire
<1>7. ASSUME NEW s \in Sessions, Abort(s)  PROVE Goal
    BY <1>2, <1>7 DEF Abort
<1>8. CASE Elsewhere
    BY <1>8, ElsewhereSame
<1>. QED  BY <1>3, <1>4, <1>5, <1>6, <1>7, <1>8 DEF Next, Elsewhere

\* No step changes the binding or the expiry of a record.
LEMMA HoldStays ==
    ASSUME TypeOK, [Next]_vars, NEW q \in Proofs, escrow[q].status # "none"
    PROVE  escrow'[q].binding = escrow[q].binding /\ escrow'[q].expires = escrow[q].expires
<1>0. escrow[q] \in EscrowRecord
    BY DEF TypeOK
<1>1. CASE UNCHANGED <<escrow, history, latest>>
    BY <1>1
<1>2. ASSUME NEW s \in Sessions, Commits(s)
      PROVE  escrow'[q].binding = escrow[q].binding /\ escrow'[q].expires = escrow[q].expires
    <2>1. CASE CommitCreate(s)
        BY <2>1, CommitCreateEffect DEF Writes
    <2>2. CASE CommitRelease(s)
        BY <1>0, <2>2, ExceptFields DEF CommitRelease, CommitsRecord, TypeOK
    <2>3. CASE CommitConsume(s)
        BY <1>0, <2>3, ExceptFields DEF CommitConsume, CommitsRecord, TypeOK
    <2>4. CASE CommitRevoke(s)
        BY <1>0, <2>4, ExceptFields DEF CommitRevoke, CommitsRecord, TypeOK
    <2>6. CASE CommitQuarantine(s)
        BY <1>0, <2>6, ExceptFields DEF CommitQuarantine, CommitsRecord, TypeOK
    <2>5. CASE CommitUpdate(s)
        BY <1>0, <2>5, ExceptFields DEF CommitUpdate, Updated, CommitsRecord, TypeOK
    <2>. QED  BY <1>2, <2>1, <2>2, <2>3, <2>4, <2>5, <2>6 DEF Commits
<1>3. ASSUME NEW s \in Sessions, CommitExpire(s)
      PROVE  escrow'[q].binding = escrow[q].binding /\ escrow'[q].expires = escrow[q].expires
    <2>1. \/ escrow'[q] = [escrow[q] EXCEPT !.status = "expired", !.exec = "expired"]
          \/ escrow'[q] = escrow[q]
        BY <1>3 DEF CommitExpire
    <2>2. CASE escrow'[q] = [escrow[q] EXCEPT !.status = "expired", !.exec = "expired"]
        BY <1>0, <2>2, ExceptFields
    <2>. QED  BY <2>1, <2>2
<1>. QED  BY <1>1, <1>2, <1>3, StepShape

\* Only a record is confirmed, with its binding, and a session about to insert
\* one keeps within the expiry of the proof.
ConfirmInv ==
    /\ \A p \in Proofs, b \in Bindings : <<p, b>> \in confirmed =>
          escrow[p].status # "none" /\ escrow[p].binding = b
    /\ \A p \in Proofs : escrow[p].status # "none" => escrow[p].expires <= ProofExpiry[p]
    /\ \A s \in Sessions : session[s].op = "create" =>
          session[s].expires <= ProofExpiry[session[s].proof]

\* What a step adds to confirmed is what the record says after it.
LEMMA Confirmations ==
    ASSUME TypeOK, [Next]_vars, NEW p \in Proofs, NEW b \in Bindings,
           <<p, b>> \in confirmed', <<p, b>> \notin confirmed
    PROVE  escrow'[p].status # "none" /\ escrow'[p].binding = b
<1>1. ASSUME NEW s \in Sessions, Create(s)
      PROVE  escrow'[p].status # "none" /\ escrow'[p].binding = b
    <2>1. ASSUME NEW q \in Proofs, NEW c \in Bindings, ReplayCreate(s, q, c)
          PROVE  escrow'[p].status # "none" /\ escrow'[p].binding = b
        BY <2>1 DEF ReplayCreate, Readable
    <2>2. ASSUME NEW q \in Proofs, NEW c \in Bindings, NEW ttl \in 1..MaxTtl,
                 LoadCreate(s, q, c, ttl)
          PROVE  FALSE
        BY <2>2 DEF LoadCreate
    <2>3. CASE CommitCreate(s)
        <3>1. p = session[s].proof /\ b = session[s].binding
            BY <2>3 DEF CommitCreate
        <3>. QED  BY <2>3, <3>1 DEF CommitCreate, CommitsRecord, TypeOK
    <2>4. CASE ConflictCreate(s)
        BY <2>4 DEF ConflictCreate, InsertAdmitted
    <2>. QED  BY <1>1, <2>1, <2>2, <2>3, <2>4 DEF Create
<1>2. ASSUME NEW s \in Sessions, ReleaseOrConsume(s)  PROVE FALSE
    BY <1>2 DEF ReleaseOrConsume, LoadRelease, LoadConsume, CommitRelease, LoseRelease,
                RespondRelease, CommitConsume, LoseConsume
<1>3. ASSUME NEW s \in Sessions, Intervene(s)  PROVE FALSE
    BY <1>3 DEF Intervene, LoadRevoke, LoadQuarantine, LoadUpdate, CommitRevoke,
                CommitQuarantine, CommitUpdate
<1>4. ASSUME NEW s \in Sessions, Expire(s)  PROVE FALSE
    BY <1>4 DEF Expire, LoadOverdue, CommitExpire
<1>5. ASSUME NEW s \in Sessions, Abort(s)  PROVE FALSE
    BY <1>5 DEF Abort
<1>6. ASSUME Elsewhere  PROVE FALSE
    BY <1>6, ElsewhereSame
<1>. QED  BY <1>1, <1>2, <1>3, <1>4, <1>5, <1>6 DEF Next, Elsewhere

\* A record appears only by create_hold's INSERT.
LEMMA RecordsAppear ==
    ASSUME BaseInv, [Next]_vars, NEW p \in Proofs, escrow[p].status = "none",
           escrow'[p].status # "none"
    PROVE  \E s \in Sessions : CommitCreate(s) /\ session[s].proof = p
<1>. TypeOK /\ TargetsExist
    BY DEF BaseInv
<1>1. CASE UNCHANGED <<escrow, history, latest>>
    BY <1>1
<1>2. ASSUME NEW s \in Sessions, Commits(s)
      PROVE  CommitCreate(s) /\ session[s].proof = p
    <2>1. p = session[s].proof
        BY <1>2, CommitCreateEffect, CommitReleaseEffect, CommitConsumeEffect,
           CommitRevokeEffect, CommitQuarantineEffect, CommitUpdateEffect DEF Commits, Writes
    <2>2. ~CommitRelease(s) /\ ~CommitConsume(s)
        BY <2>1, CommitReleaseEffect, CommitConsumeEffect
    <2>3. ~(CommitRevoke(s) \/ CommitQuarantine(s) \/ CommitUpdate(s))
        <3>1. session[s].op \in {"revoke", "quarantine", "update"} =>
                 escrow[session[s].proof].status # "none"
            BY DEF TargetsExist, Targets
        <3>. QED  BY <2>1, <3>1 DEF CommitRevoke, CommitQuarantine, CommitUpdate
    <2>. QED  BY <1>2, <2>1, <2>2, <2>3 DEF Commits
<1>3. ASSUME NEW s \in Sessions, CommitExpire(s)  PROVE FALSE
    <2>1. p \in DOMAIN session[s].from
        BY <1>3, ExpireEffect
    <2>. QED  BY <1>3, <2>1 DEF TargetsExist, Targets, CommitExpire
<1>. QED  BY <1>1, <1>2, <1>3, StepShape

LEMMA ConfirmStep ==
    ASSUME ConstantsAssumption, BaseInv, ConfirmInv, [Next]_vars
    PROVE  ConfirmInv'
<1>. TypeOK
    BY DEF BaseInv
<1>1. ASSUME NEW p \in Proofs, NEW b \in Bindings, <<p, b>> \in confirmed'
      PROVE  escrow'[p].status # "none" /\ escrow'[p].binding = b
    <2>1. CASE <<p, b>> \in confirmed
        BY <2>1, RecordsStay, HoldStays DEF ConfirmInv
    <2>2. CASE <<p, b>> \notin confirmed
        BY <1>1, <2>2, Confirmations
    <2>. QED  BY <2>1, <2>2
<1>2. ASSUME NEW p \in Proofs, escrow'[p].status # "none"
      PROVE  escrow'[p].expires <= ProofExpiry[p]
    <2>1. CASE escrow[p].status # "none"
        BY <2>1, HoldStays DEF ConfirmInv
    <2>2. CASE escrow[p].status = "none"
        <3>1. PICK s \in Sessions : CommitCreate(s) /\ session[s].proof = p
            BY <1>2, <2>2, RecordsAppear
        <3>2. escrow'[p].expires = session[s].expires
            BY <3>1 DEF CommitCreate, CommitsRecord, TypeOK
        <3>. QED  BY <3>1, <3>2 DEF ConfirmInv, CommitCreate
    <2>. QED  BY <2>1, <2>2
<1>3. ASSUME NEW s \in Sessions, session'[s].op = "create"
      PROVE  session'[s].expires <= ProofExpiry[session'[s].proof]
    <2>1. CASE session'[s] = session[s]
        BY <1>3, <2>1 DEF ConfirmInv
    <2>2. ASSUME NEW p \in Proofs, NEW b \in Bindings, NEW ttl \in 1..MaxTtl,
                 session'[s] = [op |-> "create", proof |-> p, binding |-> b,
                                expires |-> ResolveExpiresAt(p, ttl)]
          PROVE  session'[s].expires <= ProofExpiry[session'[s].proof]
        <3>1. session'[s].expires = ResolveExpiresAt(p, ttl) /\ session'[s].proof = p
            BY <2>2
        <3>2. ResolveExpiresAt(p, ttl) <= ProofExpiry[p]
            BY DEF ResolveExpiresAt, TypeOK, ConstantsAssumption
        <3>. QED  BY <3>1, <3>2
    <2>3. ASSUME NEW p \in Proofs, NEW e \in Observations,
                 session'[s] = [op |-> "update", proof |-> p, exec |-> e]
          PROVE  FALSE
        BY <1>3, <2>3
    <2>. QED  BY <1>3, <2>1, <2>2, <2>3, SessionShape
<1>. QED  BY <1>1, <1>2, <1>3 DEF ConfirmInv

\* Every client that create_hold answered with success was told the binding the
\* record has, whichever of the concurrent inserts won, and no hold outlives the
\* proof it was created from.
THEOREM HoldsAsConfirmed == Spec => []HoldAsConfirmed
<1>1. Init => ConfirmInv
    BY DEF Init, ConfirmInv, NoRecord, Idle
<1>2. BaseInv /\ ConfirmInv /\ [Next]_vars => ConfirmInv'
    BY ConfirmStep, ConstantsAssumption
<1>3. ConfirmInv => HoldAsConfirmed
    BY DEF ConfirmInv, HoldAsConfirmed
<1>. QED  BY <1>1, <1>2, <1>3, BaseHolds, PTL DEF Spec

-----------------------------------------------------------------------------
(* The execution state an intent shows *)

\* A record of an intent with one proof is the one written last.
LEMMA SoleIsLatest ==
    ASSUME BaseInv, ConstantsAssumption, NEW p \in Proofs, escrow[p].status # "none",
           Sole(p)
    PROVE  latest[IntentOf[p]] = p
    BY DEF BaseInv, LatestKnown, ConstantsAssumption, Sole

\* Values the column of an intent may have had by the time its only record has
\* this status.
Reached(status) ==
    {"not_requested"} \cup Observations
    \cup (IF status = "none" THEN {} ELSE {"capability_held"})
    \cup (IF status \in {"none", "held"} THEN {} ELSE {"capability_released"})
    \cup (IF status \in {"none", "held", "released"} THEN {} ELSE {"dispatch_requested"})
    \cup (IF status \in Dead THEN Dead ELSE {})

\* The intent of p as session s holds it: assigned the record's new state, and
\* found unchanged only where the record had got that far before.
SyncFits(s, p) ==
    IntentOf[p] \in DOMAIN sync[s] =>
        /\ p \in Targets(session[s])
        /\ sync[s][IntentOf[p]].value = NewExec(session[s])
        /\ ~ sync[s][IntentOf[p]].changed => NewExec(session[s]) \in Reached(escrow[p].status)

ColumnFits(p) ==
    /\ IntentOf[p] \in observed => intentExec[IntentOf[p]] \in Observations
    /\ IntentOf[p] \notin observed => intentExec[IntentOf[p]] \in Shows(escrow[p].status)

MirrorInv ==
    /\ \A s \in Sessions : session[s].op \in {"idle", "respond"} => sync[s] = NoSync
    /\ \A s \in Sessions : session[s].op = "update" =>
          escrow[session[s].proof].status \in {"consumed"} \cup Dead
    /\ \A p \in Proofs : Sole(p) => ColumnFits(p) /\ \A s \in Sessions : SyncFits(s, p)

LEMMA ShowsReached ==
    ASSUME NEW st \in EscrowStatus \cup {"none"}
    PROVE  Shows(st) \subseteq Reached(st)
    BY DEF Shows, Reached, EscrowStatus, Dead, Dispatched, Observations

\* A record does not go back.
LEMMA ReachedStays ==
    ASSUME BaseInv, [Next]_vars, NEW p \in Proofs
    PROVE  /\ Reached(escrow[p].status) \subseteq Reached(escrow'[p].status)
           /\ escrow[p].status \in {"consumed"} \cup Dead
                => escrow'[p].status \in {"consumed"} \cup Dead
<1>. TypeOK /\ TargetsExist
    BY DEF BaseInv
<1>. DEFINE Goal == /\ Reached(escrow[p].status) \subseteq Reached(escrow'[p].status)
                    /\ escrow[p].status \in {"consumed"} \cup Dead
                         => escrow'[p].status \in {"consumed"} \cup Dead
<1>0. escrow[p].status \in EscrowStatus \cup {"none"}
    BY RecordFields DEF TypeOK
<1>d. ASSUME escrow'[p].status \in Dead
      PROVE  Goal
    BY <1>0, <1>d DEF Reached, Dead
<1>1. ASSUME escrow'[p] = escrow[p]
      PROVE  Goal
    BY <1>1
<1>2. ASSUME NEW s \in Sessions, Commits(s), session[s].proof = p
      PROVE  Goal
    <2>1. CASE CommitCreate(s)
        BY <1>2, <2>1, CommitCreateEffect DEF Writes, Reached, Dead
    <2>2. CASE CommitRelease(s)
        BY <1>2, <2>2, CommitReleaseEffect DEF Writes, Reached, Dead
    <2>3. CASE CommitConsume(s)
        BY <1>2, <2>3, CommitConsumeEffect DEF Writes, Reached, Dead
    <2>4. CASE CommitRevoke(s) \/ CommitQuarantine(s)
        BY <1>2, <2>4, <1>d, CommitRevokeEffect, CommitQuarantineEffect DEF Writes, Dead
    <2>5. CASE CommitUpdate(s)
        BY <1>2, <2>5, CommitUpdateEffect DEF Writes
    <2>. QED  BY <1>2, <2>1, <2>2, <2>3, <2>4, <2>5 DEF Commits
<1>3. ASSUME NEW s \in Sessions, CommitExpire(s), p \in DOMAIN session[s].from
      PROVE  Goal
    BY <1>3, <1>d, ExpireEffect DEF Dead
<1>4. ASSUME UNCHANGED <<escrow, history, latest>>
      PROVE  escrow'[p] = escrow[p]
    BY <1>4
<1>5. ASSUME NEW s \in Sessions, Commits(s), session[s].proof # p
      PROVE  escrow'[p] = escrow[p]
    BY <1>5, CommitCreateEffect, CommitReleaseEffect, CommitConsumeEffect,
       CommitRevokeEffect, CommitQuarantineEffect, CommitUpdateEffect DEF Commits, Writes
<1>6. ASSUME NEW s \in Sessions, CommitExpire(s), p \notin DOMAIN session[s].from
      PROVE  escrow'[p] = escrow[p]
    BY <1>6, ExpireEffect
<1>. HIDE DEF Goal
<1>7. Goal
    BY <1>1, <1>2, <1>3, <1>4, <1>5, <1>6, StepShape
<1>. QED  BY <1>7 DEF Goal

\* What a step does to the intents a session holds: it keeps them with its
\* request, drops them, or loads them.
LEMMA SyncShape ==
    ASSUME TypeOK, MirrorInv, [Next]_vars, NEW z \in Sessions
    PROVE  \/ sync'[z] = sync[z] /\ session'[z] = session[z]
           \/ sync'[z] = NoSync
           \/ Synchronize(z)
<1>. DEFINE Goal == \/ sync'[z] = sync[z] /\ session'[z] = session[z]
                    \/ sync'[z] = NoSync
                    \/ Synchronize(z)
<1>l. ASSUME NEW s \in Sessions, NEW st, Loads(s, st)
      PROVE  Goal
    BY <1>l DEF Loads, Idle, MirrorInv, TypeOK
<1>b. ASSUME NEW s \in Sessions, NEW st, Becomes(s, st)
      PROVE  Goal
    BY <1>b DEF Becomes, TypeOK
<1>u. ASSUME UNCHANGED <<session, sync>>
      PROVE  Goal
    BY <1>u
<1>. HIDE DEF Goal
<1>1. ASSUME NEW s \in Sessions, Create(s)
      PROVE  Goal
    BY <1>1, <1>l, <1>b, <1>u DEF Create, ReplayCreate, LoadCreate, CommitCreate,
                                  ConflictCreate, Ends
<1>2. ASSUME NEW s \in Sessions, ReleaseOrConsume(s)
      PROVE  Goal
    BY <1>2, <1>l, <1>b DEF ReleaseOrConsume, LoadRelease, LoadConsume, LoseRelease,
                            RespondRelease, LoseConsume, CommitRelease, CommitConsume, Ends
<1>3. ASSUME NEW s \in Sessions, Intervene(s)
      PROVE  Goal
    BY <1>3, <1>l, <1>b DEF Intervene, LoadRevoke, LoadQuarantine, LoadUpdate,
                            CommitRevoke, CommitQuarantine, CommitUpdate, Ends
<1>4. ASSUME NEW s \in Sessions, Expire(s) \/ Abort(s)
      PROVE  Goal
    BY <1>4, <1>l, <1>b DEF Expire, LoadOverdue, CommitExpire, Abort, Ends
<1>5. ASSUME NEW s \in Sessions, Synchronize(s)
      PROVE  Goal
    BY <1>5 DEF Goal, Synchronize, TypeOK
<1>6. ASSUME Tick \/ UNCHANGED vars \/ \E i \in Intents, e \in Reported : IngestReceipt(i, e)
      PROVE  Goal
    BY <1>6, <1>u DEF Tick, vars, IngestReceipt
<1>7. Goal
    BY <1>1, <1>2, <1>3, <1>4, <1>5, <1>6 DEF Next
<1>. QED  BY <1>7 DEF Goal

\* What a step does to the column.
LEMMA ColumnShape ==
    ASSUME TypeOK, [Next]_vars
    PROVE  \/ UNCHANGED <<escrow, intentExec, observed>>
           \/ \E s \in Sessions : (Commits(s) \/ CommitExpire(s)) /\ FlushesIntents(s)
           \/ \E i \in Intents, e \in Reported : IngestReceipt(i, e)
<1>. DEFINE Same == UNCHANGED <<escrow, intentExec, observed>>
            Flush(s) == (Commits(s) \/ CommitExpire(s)) /\ FlushesIntents(s)
<1>1. ASSUME NEW s \in Sessions, Create(s)
      PROVE  Same \/ Flush(s)
    BY <1>1 DEF Create, ReplayCreate, LoadCreate, ConflictCreate, CommitCreate,
                CommitsRecord, Commits
<1>2. ASSUME NEW s \in Sessions, ReleaseOrConsume(s)
      PROVE  Same \/ Flush(s)
    BY <1>2 DEF ReleaseOrConsume, LoadRelease, LoadConsume, LoseRelease,
                RespondRelease, LoseConsume, CommitRelease, CommitConsume, CommitsRecord, Commits
<1>3. ASSUME NEW s \in Sessions, Intervene(s)
      PROVE  Same \/ Flush(s)
    BY <1>3 DEF Intervene, LoadRevoke, LoadQuarantine, LoadUpdate, CommitRevoke,
                CommitQuarantine, CommitUpdate, CommitsRecord, Commits
<1>4. ASSUME NEW s \in Sessions, Expire(s)
      PROVE  Same \/ Flush(s)
    BY <1>4 DEF Expire, LoadOverdue, CommitExpire
<1>5. ASSUME NEW s \in Sessions, Abort(s) \/ Synchronize(s)
      PROVE  Same
    BY <1>5 DEF Abort, Synchronize
<1>6. ASSUME Tick \/ UNCHANGED vars
      PROVE  Same
    BY <1>6 DEF Tick, vars
<1>. QED  BY <1>1, <1>2, <1>3, <1>4, <1>5, <1>6 DEF Next

\* Loading the intent of a sole record.
LEMMA SynchronizeFits ==
    ASSUME ConstantsAssumption, BaseInv, MirrorInv, NEW s \in Sessions, Synchronize(s),
           NEW p \in Proofs, Sole(p)
    PROVE  SyncFits(s, p)'
<1>. TypeOK /\ TargetsExist /\ LatestKnown
    BY DEF BaseInv
<1>. DEFINE st == session[s]
            i == IntentOf[p]
<1>. SUFFICES ASSUME i \in DOMAIN sync'[s]
              PROVE  /\ p \in Targets(st)
                     /\ sync'[s][i].value = NewExec(st)
                     /\ ~ sync'[s][i].changed => NewExec(st) \in Reached(escrow[p].status)
    BY DEF SyncFits, Synchronize
<1>1. sync'[s] = [j \in Touched(st) |-> [value |-> SyncValue(j, st),
                                        changed |-> SyncValue(j, st) # intentExec[j]]]
    BY DEF Synchronize, TypeOK
<1>2. i \in Touched(st)
    BY <1>1
<1>3. p \in Targets(st)
    BY <1>2, TargetsKnown DEF Touched, Sole, Synchronize
<1>4. SyncValue(i, st) = NewExec(st)
    <2>1. CASE st.op \in {"create", "release", "consume"}
        BY <2>1 DEF SyncValue
    <2>2. CASE st.op \notin {"create", "release", "consume"}
        <3>1. escrow[p].status # "none"
            BY <1>3, <2>2 DEF TargetsExist, Synchronize
        <3>2. latest[i] = p
            BY <3>1, SoleIsLatest
        <3>. QED  BY <1>3, <2>2, <3>2 DEF SyncValue, MirrorPending
    <2>. QED  BY <2>1, <2>2
<1>5. intentExec[i] \in Reached(escrow[p].status)
    <2>1. escrow[p].status \in EscrowStatus \cup {"none"}
        BY RecordFields DEF TypeOK
    <2>. QED  BY <2>1, ShowsReached DEF MirrorInv, ColumnFits, Reached
<1>6. /\ sync'[s][i].value = NewExec(st)
      /\ sync'[s][i].changed = (NewExec(st) # intentExec[i])
    BY <1>1, <1>2, <1>4
<1>. QED  BY <1>3, <1>5, <1>6

\* A commit brings the column of its record's intent to the record.
LEMMA FlushFits ==
    ASSUME ConstantsAssumption, BaseInv, MirrorInv, [Next]_vars, NEW s \in Sessions,
           Commits(s) \/ CommitExpire(s), FlushesIntents(s), NEW p \in Proofs, Sole(p)
    PROVE  ColumnFits(p)'
<1>. TypeOK /\ TargetsExist /\ LatestKnown
    BY DEF BaseInv
<1>. DEFINE st == session[s]
            i == IntentOf[p]
            e == NewExec(st)
            was == escrow[p].status
            is == escrow'[p].status
<1>0. i \in Intents /\ ColumnFits(p) /\ SyncFits(s, p)
    BY DEF MirrorInv, ConstantsAssumption
<1>s. /\ was \in EscrowStatus \cup {"none"}
      /\ st.op \notin {"idle", "respond"}
    BY RecordFields DEF TypeOK, Commits, CommitCreate, CommitRelease, CommitConsume,
                        CommitRevoke, CommitQuarantine, CommitUpdate, CommitExpire
<1>1. CASE p \notin Targets(st)
    <2>1. i \notin DOMAIN sync[s]
        BY <1>0, <1>1 DEF SyncFits
    <2>2. intentExec'[i] = intentExec[i] /\ (i \in observed' <=> i \in observed)
        BY <1>0, <2>1 DEF FlushesIntents, Changed, TypeOK
    <2>3. escrow'[p] = escrow[p]
        <3>1. CASE Commits(s)
            <4>1. p # st.proof
                BY <1>1, <3>1 DEF Targets, Commits, CommitCreate, CommitRelease, CommitConsume,
                        CommitRevoke, CommitQuarantine, CommitUpdate
            <4>. QED  BY <3>1, <4>1, CommitCreateEffect, CommitReleaseEffect, CommitConsumeEffect,
                        CommitRevokeEffect, CommitQuarantineEffect, CommitUpdateEffect
                      DEF Commits, Writes
        <3>2. CASE CommitExpire(s)
            <4>1. p \notin DOMAIN st.from
                BY <1>1, <3>2 DEF Targets, CommitExpire
            <4>. QED  BY <3>2, <4>1, ExpireEffect
        <3>. QED  BY <3>1, <3>2
    <2>. QED  BY <1>0, <2>2, <2>3 DEF ColumnFits
<1>2. CASE p \in Targets(st)
    <2>1. i \in DOMAIN sync[s]
        BY <1>2 DEF FlushesIntents, Synchronized, Touched
    <2>2. /\ sync[s][i].value = e
          /\ ~ sync[s][i].changed => e \in Reached(was)
        BY <1>0, <2>1 DEF SyncFits
    \* where the commit leads, and that an unchanged column fits already
    <2>3. /\ e \in Shows(is)
          /\ e \in Reached(was) => Shows(was) \subseteq Shows(is)
        <3>1. CASE CommitCreate(s)
            <4>1. st.op = "create" /\ st.proof = p
                BY <1>2, <3>1 DEF Targets, CommitCreate
            <4>. QED  BY <3>1, <4>1, CommitCreateEffect
                      DEF NewExec, Writes, Reached, Shows, Observations, Dead
        <3>2. CASE CommitRelease(s)
            <4>1. st.op = "release" /\ st.proof = p
                BY <1>2, <3>2 DEF Targets, CommitRelease
            <4>. QED  BY <3>2, <4>1, CommitReleaseEffect
                      DEF NewExec, Writes, Reached, Shows, Observations, Dead
        <3>3. CASE CommitConsume(s)
            <4>1. st.op = "consume" /\ st.proof = p
                BY <1>2, <3>3 DEF Targets, CommitConsume
            <4>. QED  BY <3>3, <4>1, CommitConsumeEffect
                      DEF NewExec, Writes, Reached, Shows, Observations, Dead, Dispatched
        <3>d. ASSUME e \in Dead, is \in Dead
              PROVE  /\ e \in Shows(is)
                     /\ e \in Reached(was) => Shows(was) \subseteq Shows(is)
            <4>1. e \in Reached(was) => was \in Dead
                BY <3>d DEF Reached, Dead, Observations
            <4>. QED  BY <3>d, <4>1 DEF Shows, Dead
        <3>4. CASE CommitRevoke(s)
            <4>1. st.op = "revoke" /\ st.proof = p
                BY <1>2, <3>4 DEF Targets, CommitRevoke
            <4>2. e = "revoked" /\ is = "revoked"
                BY <3>4, <4>1, CommitRevokeEffect DEF NewExec, Writes
            <4>. QED  BY <3>d, <4>2 DEF Dead
        <3>5. CASE CommitQuarantine(s)
            <4>1. st.op = "quarantine" /\ st.proof = p
                BY <1>2, <3>5 DEF Targets, CommitQuarantine
            <4>2. e = "quarantined" /\ is = "quarantined"
                BY <3>5, <4>1, CommitQuarantineEffect DEF NewExec, Writes
            <4>. QED  BY <3>d, <4>2 DEF Dead
        <3>6. CASE CommitUpdate(s)
            <4>1. st.op = "update" /\ st.proof = p
                BY <1>2, <3>6 DEF Targets, CommitUpdate
            <4>2. e = st.exec /\ e \in Observations
                BY <4>1, SessionFields DEF NewExec, TypeOK
            <4>3. was \in {"consumed"} \cup Dead /\ is = was
                BY <3>6, <4>1, CommitUpdateEffect DEF MirrorInv, Writes
            <4>. QED  BY <4>2, <4>3 DEF Shows, Dead, Dispatched
        <3>7. CASE CommitExpire(s)
            <4>1. st.op = "expire" /\ p \in DOMAIN st.from
                BY <1>2, <3>7 DEF Targets, CommitExpire
            <4>2. e = "expired" /\ is = "expired"
                BY <3>7, <4>1, ExpireEffect DEF NewExec
            <4>. QED  BY <3>d, <4>2 DEF Dead
        <3>. QED  BY <3>1, <3>2, <3>3, <3>4, <3>5, <3>6, <3>7 DEF Commits
    <2>4. CASE sync[s][i].changed
        <3>1. i \in Changed(s)
            BY <2>1, <2>4 DEF Changed
        <3>2. intentExec'[i] = e /\ i \notin observed'
            BY <1>0, <2>2, <3>1 DEF FlushesIntents
        <3>. QED  BY <2>3, <3>2 DEF ColumnFits
    <2>5. CASE ~ sync[s][i].changed
        <3>1. i \notin Changed(s)
            BY <2>5 DEF Changed
        <3>2. intentExec'[i] = intentExec[i] /\ (i \in observed' <=> i \in observed)
            BY <1>0, <3>1 DEF FlushesIntents
        <3>. QED  BY <1>0, <2>2, <2>3, <2>5, <3>2 DEF ColumnFits
    <2>. QED  BY <2>4, <2>5
<1>. QED  BY <1>1, <1>2

LEMMA MirrorStep ==
    ASSUME ConstantsAssumption, BaseInv, MirrorInv, [Next]_vars
    PROVE  MirrorInv'
<1>. TypeOK
    BY DEF BaseInv
<1>1. ASSUME NEW z \in Sessions, session'[z].op \in {"idle", "respond"}
      PROVE  sync'[z] = NoSync
    <2>1. ~ Synchronize(z)
        BY <1>1 DEF Synchronize
    <2>. QED  BY <1>1, <2>1, SyncShape DEF MirrorInv
<1>2. ASSUME NEW z \in Sessions, session'[z].op = "update"
      PROVE  escrow'[session'[z].proof].status \in {"consumed"} \cup Dead
    <2>1. CASE session'[z] = session[z]
        <3>1. session[z].proof \in Proofs
            BY <1>2, <2>1, SessionFields DEF TypeOK
        <3>. QED  BY <1>2, <2>1, <3>1, ReachedStays DEF MirrorInv
    <2>2. ASSUME NEW p \in Proofs, NEW e \in Observations, LoadUpdate(z, p, e),
                 session'[z] = [op |-> "update", proof |-> p, exec |-> e]
          PROVE  escrow'[session'[z].proof].status \in {"consumed"} \cup Dead
        BY <2>2 DEF LoadUpdate, UpdateAccepts
    <2>3. ASSUME NEW p \in Proofs, NEW b \in Bindings, NEW ttl \in 1..MaxTtl,
                 session'[z] = [op |-> "create", proof |-> p, binding |-> b,
                                expires |-> ResolveExpiresAt(p, ttl)]
          PROVE  FALSE
        BY <1>2, <2>3
    <2>. QED  BY <1>2, <2>1, <2>2, <2>3, SessionShape
<1>3. ASSUME NEW p \in Proofs, Sole(p)
      PROVE  ColumnFits(p)'
    <2>0. ColumnFits(p) /\ IntentOf[p] \in Intents
        BY <1>3 DEF MirrorInv, ConstantsAssumption
    <2>1. CASE UNCHANGED <<escrow, intentExec, observed>>
        BY <2>0, <2>1 DEF ColumnFits
    <2>2. ASSUME NEW s \in Sessions, Commits(s) \/ CommitExpire(s), FlushesIntents(s)
          PROVE  ColumnFits(p)'
        BY <1>3, <2>2, FlushFits
    <2>3. ASSUME NEW i \in Intents, NEW e \in Reported, IngestReceipt(i, e)
          PROVE  ColumnFits(p)'
        <3>1. e \in Observations
            BY DEF ConstantsAssumption, Observations
        <3>. QED  BY <2>0, <2>3, <3>1 DEF ColumnFits, IngestReceipt, TypeOK
    <2>. QED  BY <2>1, <2>2, <2>3, ColumnShape
<1>4. ASSUME NEW p \in Proofs, Sole(p), NEW z \in Sessions
      PROVE  SyncFits(z, p)'
    <2>1. CASE sync'[z] = sync[z] /\ session'[z] = session[z]
        BY <1>4, <2>1, ReachedStays DEF MirrorInv, SyncFits
    <2>2. CASE sync'[z] = NoSync
        BY <2>2, NoSyncType DEF SyncFits
    <2>. QED  BY <1>4, <2>1, <2>2, SynchronizeFits, SyncShape
<1>. QED  BY <1>1, <1>2, <1>3, <1>4 DEF MirrorInv, Sole

\* An intent with one proof keeps up with its record, unless a receipt wrote
\* its execution_state last: the column is exact while the capability is held
\* or released, and shows neither that nor a dispatch request once it is dead,
\* whatever sessions loaded the intent before and leave the column unwritten.
THEOREM SoleMirrored == Spec => []SoleRecordMirrored
<1>1. Init => MirrorInv
    <2>. SUFFICES ASSUME Init
                  PROVE  MirrorInv
        OBVIOUS
    <2>1. ASSUME NEW p \in Proofs
          PROVE  ColumnFits(p)
        BY ConstantsAssumption DEF Init, ColumnFits, Shows, NoRecord, ConstantsAssumption
    <2>2. ASSUME NEW p \in Proofs, NEW s \in Sessions
          PROVE  SyncFits(s, p)
        BY NoSyncType DEF Init, SyncFits
    <2>. QED  BY <2>1, <2>2 DEF Init, MirrorInv, Idle
<1>2. BaseInv /\ MirrorInv /\ [Next]_vars => MirrorInv'
    BY MirrorStep, ConstantsAssumption
<1>3. MirrorInv => SoleRecordMirrored
    BY DEF MirrorInv, ColumnFits, SoleRecordMirrored
<1>. QED  BY <1>1, <1>2, <1>3, BaseHolds, PTL DEF Spec

-----------------------------------------------------------------------------
(* The transition table explains the record *)

Explains(p) ==
    escrow[p].status # "none" =>
        /\ history[p] # <<>>
        /\ history[p][Len(history[p])].exec = escrow[p].exec
        /\ \E n \in StatusEntries(p) :
              /\ \A m \in StatusEntries(p) : m <= n
              /\ history[p][n].to = escrow[p].status
        /\ escrow[p].exec \in Dispatched => Entries(p, "consumed") # {}

\* An observation is only on its way for a record that was consumed.
ExplainInv ==
    /\ \A p \in Proofs : Explains(p)
    /\ \A p \in Proofs : escrow[p].status = "consumed" => Entries(p, "consumed") # {}
    /\ \A s \in Sessions : session[s].op = "update" => Entries(session[s].proof, "consumed") # {}

LEMMA ConsumedStay ==
    ASSUME BaseInv, [Next]_vars, NEW q \in Proofs
    PROVE  Entries(q, "consumed") \subseteq Entries(q, "consumed")'
<1>. TypeOK
    BY DEF BaseInv
<1>1. CASE history'[q] = history[q]
    BY <1>1 DEF Entries
<1>2. ASSUME NEW t, Logged(q, t)
      PROVE  Entries(q, "consumed") \subseteq Entries(q, "consumed")'
    BY <1>2, Appended DEF Logged
<1>. QED  BY <1>1, <1>2, LoggedStep

LEMMA ExplainGrows ==
    ASSUME TypeOK, HistoryInv, ExplainInv, NEW p \in Proofs, NEW t, Logged(p, t)
    PROVE  /\ Explains(p)'
           /\ escrow'[p].status = "consumed" => Entries(p, "consumed")' # {}
<1>1. history[p] \in Seq(EscrowTransitionRecord) /\ t \in EscrowTransitionRecord
    BY DEF TypeOK, Logged
<1>2. PICK L : L = Len(history[p])
    OBVIOUS
<1>3. /\ L \in Nat /\ Len(history'[p]) = L + 1 /\ history'[p] # <<>>
      /\ history'[p][L + 1] = t /\ DOMAIN history[p] = 1..L /\ DOMAIN history'[p] = 1..(L + 1)
      /\ \A n \in 1..L : history'[p][n] = history[p][n]
    BY <1>1, <1>2 DEF Logged
<1>4. history'[p][Len(history'[p])].exec = escrow'[p].exec
    BY <1>3 DEF Logged
<1>5. /\ Entries(p, "consumed") \subseteq Entries(p, "consumed")'
      /\ t.type = "consumed" => Entries(p, "consumed")' # {}
    BY <1>1, Appended DEF Logged
<1>6. escrow'[p].status = "consumed" => Entries(p, "consumed")' # {}
    BY <1>5 DEF Logged, ExplainInv, Dead
<1>7. escrow'[p].exec \in Dispatched => Entries(p, "consumed")' # {}
    BY <1>5 DEF Logged, ExplainInv, Dead, Dispatched, Observations
<1>8. \E n \in StatusEntries(p)' : /\ \A m \in StatusEntries(p)' : m <= n
                                   /\ history'[p][n].to = escrow'[p].status
    <2>1. CASE t.type # "execution_update"
        <3>1. L + 1 \in StatusEntries(p)' /\ history'[p][L + 1].to = escrow'[p].status
            BY <1>3, <2>1 DEF StatusEntries, Logged
        <3>2. \A m \in StatusEntries(p)' : m <= L + 1
            BY <1>3 DEF StatusEntries
        <3>. QED  BY <3>1, <3>2
    <2>2. CASE t.type = "execution_update"
        <3>1. escrow[p].status # "none" /\ escrow'[p].status = escrow[p].status
            BY <2>2 DEF Logged, Dead
        <3>2. PICK n \in StatusEntries(p) : /\ \A m \in StatusEntries(p) : m <= n
                                            /\ history[p][n].to = escrow[p].status
            BY <3>1 DEF ExplainInv, Explains
        <3>3. StatusEntries(p)' = StatusEntries(p)
            <4>1. 1..(L + 1) = (1..L) \cup {L + 1}
                BY <1>3
            <4>. QED  BY <1>3, <2>2, <4>1 DEF StatusEntries
        <3>4. history'[p][n] = history[p][n]
            BY <1>3, <3>2 DEF StatusEntries
        <3>. QED  BY <3>1, <3>2, <3>3, <3>4
    <2>. QED  BY <2>1, <2>2
<1>. QED  BY <1>3, <1>4, <1>6, <1>7, <1>8 DEF Explains

LEMMA ExplainStep ==
    ASSUME BaseInv, HistoryInv, ExplainInv, [Next]_vars
    PROVE  ExplainInv'
<1>. TypeOK
    BY DEF BaseInv
<1>1. ASSUME NEW p \in Proofs
      PROVE  /\ Explains(p)'
             /\ escrow'[p].status = "consumed" => Entries(p, "consumed")' # {}
    <2>1. CASE history'[p] = history[p] /\ escrow'[p] = escrow[p]
        BY <2>1 DEF ExplainInv, Explains, StatusEntries, Entries
    <2>. QED  BY <2>1, LoggedStep, ExplainGrows
<1>2. ASSUME NEW s \in Sessions, session'[s].op = "update"
      PROVE  Entries(session[s].proof, "consumed")' # {}
    <2>1. CASE session'[s] = session[s]
        <3>1. PICK p : p = session[s].proof
            OBVIOUS
        <3>2. p \in Proofs /\ Entries(p, "consumed") # {} /\ session'[s].proof = p
            BY <1>2, <2>1, <3>1, SessionFields DEF ExplainInv, TypeOK
        <3>3. Entries(p, "consumed")' # {}
            BY <3>2, ConsumedStay
        <3>. QED  BY <3>2, <3>3 DEF Entries
    <2>2. ASSUME NEW p \in Proofs, NEW e \in Observations, LoadUpdate(s, p, e),
                 session'[s] = [op |-> "update", proof |-> p, exec |-> e]
          PROVE  Entries(session[s].proof, "consumed")' # {}
        <3>1. session'[s].proof = p /\ escrow[p].status = "consumed"
            BY <2>2 DEF LoadUpdate, UpdateAccepts
        <3>2. Entries(p, "consumed")' # {}
            BY <3>1, ConsumedStay DEF ExplainInv
        <3>. QED  BY <3>1, <3>2 DEF Entries
    <2>3. ASSUME NEW p \in Proofs, NEW b \in Bindings, NEW ttl \in 1..MaxTtl,
                 session'[s] = [op |-> "create", proof |-> p, binding |-> b,
                                expires |-> ResolveExpiresAt(p, ttl)]
          PROVE  FALSE
        BY <1>2, <2>3
    <2>. QED  BY <1>2, <2>1, <2>2, <2>3, SessionShape
<1>. QED  BY <1>1, <1>2 DEF ExplainInv

\* The transition table explains the row under every interleaving of overwriting
\* writers: its newest entry carries the execution state, its newest entry of a
\* status change carries the status, and no observation is recorded for a
\* capability that was not consumed.
THEOREM HistoryExplains == Spec => []HistoryExplainsRecord
<1>1. Init => ExplainInv
    BY DEF Init, ExplainInv, Explains, NoRecord, Idle
<1>2. BaseInv /\ HistoryInv /\ ExplainInv /\ [Next]_vars => ExplainInv'
    BY ExplainStep
<1>3. ExplainInv => HistoryExplainsRecord
    BY DEF ExplainInv, Explains, HistoryExplainsRecord
<1>. QED  BY <1>1, <1>2, <1>3, HistoryHolds, PTL DEF Spec
=============================================================================
