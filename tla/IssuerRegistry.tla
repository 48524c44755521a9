---------------------------- MODULE IssuerRegistry ----------------------------
(***************************************************************************)
(* The operated issuer registry: services/issuer_registry.py and the tables *)
(* of models/issuer_registry.py.                                            *)
(*                                                                         *)
(* A record carries the standing of one issuer and a version that every     *)
(* change of standing increments.  Publishing a status takes the record's   *)
(* lock twice: once to commit a requested publication, and again after the  *)
(* signer answered, to complete it if the version is still the same.  In    *)
(* between nothing is locked.                                               *)
(*                                                                         *)
(* A session is one request with one transaction at a time.  SELECT ... FOR *)
(* UPDATE with populate_existing waits for the row and reads it afresh.     *)
(* Left out: who may call (AccessControl), reasons and metadata.            *)
(***************************************************************************)
EXTENDS Naturals, Sequences, FiniteSets

CONSTANTS
    Issuers,        \* issuer identities (type, id)
    Sessions,
    Publications,   \* publication_id values
    TTL,            \* artifact_ttl_seconds
    MaxVersion,     \* bound on status_version
    MaxTime,        \* bound on the clock
    NoIssuer, NoSession, NoPublication

ASSUME RegistryAssumption ==
    /\ TTL \in Nat \ {0} /\ MaxVersion \in Nat \ {0} /\ MaxTime \in Nat
    /\ NoIssuer \notin Issuers
    /\ NoSession \notin Sessions
    /\ NoPublication \notin Publications

VARIABLES
    issuer,         \* issuer_registry_records
    lock,           \* the session that holds each record's row lock
    publication,    \* issuer_status_publication_records
    audit,          \* issuer_registry_audit_events of each issuer
    session,        \* what each session does
    now             \* the clock

vars == <<issuer, lock, publication, audit, session, now>>

-----------------------------------------------------------------------------

IssuerStanding == {"good_standing", "suspended", "revoked"}

Unregistered == [standing |-> "none", version |-> 0]
IssuerRegistryRecord == [standing : IssuerStanding, version : Nat \ {0}] \cup {Unregistered}

IssuerStatusPublicationStatus == {"requested", "completed", "failed"}

NoRecord == [status |-> "none", issuer |-> NoIssuer, standing |-> "none", version |-> 0,
             issued |-> 0, expires |-> 0, completed |-> 0]
IssuerStatusPublicationRecord ==
    [status : IssuerStatusPublicationStatus, issuer : Issuers, standing : IssuerStanding,
     version : Nat \ {0}, issued : Nat, expires : Nat, completed : Nat] \cup {NoRecord}

\* prior and resulting are the snapshots of _state_snapshot.
IssuerRegistryAuditEvent ==
    [type : {"registered", "changed", "published", "publication_failed"},
     prior : IssuerRegistryRecord, resulting : IssuerRegistryRecord, at : Nat]
Event(type, prior, resulting, at) ==
    [type |-> type, prior |-> prior, resulting |-> resulting, at |-> at]

\* row is the session's copy of the record.
Session ==
    [step : {"idle", "insert", "stamp", "commit", "publish", "issue", "sign", "relock",
             "check", "select", "answer"},
     issuer : Issuers \cup {NoIssuer}, target : IssuerStanding \cup {"none"},
     row : IssuerRegistryRecord, publication : Publications \cup {NoPublication}, at : Nat]
Idle == [step |-> "idle", issuer |-> NoIssuer, target |-> "none", row |-> Unregistered,
         publication |-> NoPublication, at |-> 0]

TypeOK ==
    /\ issuer \in [Issuers -> IssuerRegistryRecord]
    /\ lock \in [Issuers -> Sessions \cup {NoSession}]
    /\ publication \in [Publications -> IssuerStatusPublicationRecord]
    /\ audit \in [Issuers -> Seq(IssuerRegistryAuditEvent)]
    /\ session \in [Sessions -> Session]
    /\ now \in Nat

Init ==
    /\ issuer = [i \in Issuers |-> Unregistered]
    /\ lock = [i \in Issuers |-> NoSession]
    /\ publication = [p \in Publications |-> NoRecord]
    /\ audit = [i \in Issuers |-> <<>>]
    /\ session = [s \in Sessions |-> Idle]
    /\ now = 0

-----------------------------------------------------------------------------
(* Sessions and the row lock *)

Ends(s) == session' = [session EXCEPT ![s] = Idle]
Moves(s, step) == session' = [session EXCEPT ![s].step = step]
Unlocks(s) == lock' = [i \in Issuers |-> IF lock[i] = s THEN NoSession ELSE lock[i]]
Locks(s, i) == lock[i] \in {NoSession, s} /\ lock' = [lock EXCEPT ![i] = s]
Records(i, event) == audit' = [audit EXCEPT ![i] = Append(@, event)]

-----------------------------------------------------------------------------
(* register_issuer *)

FindByIdentity(s, i) ==
    /\ session[s].step = "idle"
    /\ issuer[i] = Unregistered
    /\ session' = [session EXCEPT ![s] = [Idle EXCEPT !.step = "insert", !.issuer = i, !.at = now]]
    /\ UNCHANGED <<issuer, lock, publication, audit, now>>

\* uq_issuer_registry_identity refuses the second of two registrations.
InsertIssuer(s) ==
    /\ session[s].step = "insert"
    /\ LET i == session[s].issuer
           row == [standing |-> "good_standing", version |-> 1]
       IN  /\ issuer[i] = Unregistered
           /\ issuer' = [issuer EXCEPT ![i] = row]
           /\ Records(i, Event("registered", Unregistered, row, session[s].at))
    /\ Ends(s)
    /\ UNCHANGED <<lock, publication, now>>

-----------------------------------------------------------------------------
(* suspend_issuer, reinstate_issuer and revoke_issuer: _change_standing *)

LockChangeReinstating(s, i, target) ==
    /\ session[s].step = "idle"
    /\ issuer[i] # Unregistered
    /\ Locks(s, i)
    /\ issuer[i].standing # target
    /\ session' = [session EXCEPT ![s] = [Idle EXCEPT !.step = "stamp", !.issuer = i,
                                                      !.target = target, !.row = issuer[i]]]
    /\ UNCHANGED <<issuer, publication, audit, now>>
LockChangeUnlocked(s, i, target) ==
    /\ session[s].step = "idle"
    /\ issuer[i] # Unregistered
    /\ issuer[i].standing \notin {target, "revoked"}
    /\ session' = [session EXCEPT ![s] = [Idle EXCEPT !.step = "stamp", !.issuer = i,
                                                      !.target = target, !.row = issuer[i]]]
    /\ UNCHANGED <<issuer, lock, publication, audit, now>>
LockChange(s, i, target) ==
    /\ session[s].step = "idle"
    /\ issuer[i] # Unregistered
    /\ Locks(s, i)
    /\ issuer[i].standing \notin {target, "revoked"}
    /\ session' = [session EXCEPT ![s] = [Idle EXCEPT !.step = "stamp", !.issuer = i,
                                                      !.target = target, !.row = issuer[i]]]
    /\ UNCHANGED <<issuer, publication, audit, now>>

\* A second revoke changes nothing, keeps the lock and goes on to publish.
RevokeAgain(s, i) ==
    /\ session[s].step = "idle"
    /\ issuer[i].standing = "revoked"
    /\ Locks(s, i)
    /\ session' = [session EXCEPT ![s] = [Idle EXCEPT !.step = "publish", !.issuer = i]]
    /\ UNCHANGED <<issuer, publication, audit, now>>

StampChange(s) ==
    /\ session[s].step = "stamp"
    /\ session' = [session EXCEPT ![s].step = "commit", ![s].at = now]
    /\ UNCHANGED <<issuer, lock, publication, audit, now>>

\* A revocation is committed before its status is signed.
CommitChange(s) ==
    /\ session[s].step = "commit"
    /\ session[s].row.version < MaxVersion
    /\ LET i == session[s].issuer
           row == [standing |-> session[s].target, version |-> session[s].row.version + 1]
       IN  /\ issuer' = [issuer EXCEPT ![i] = row]
           /\ Records(i, Event("changed", session[s].row, row, session[s].at))
    /\ Unlocks(s)
    /\ IF session[s].target = "revoked" THEN Moves(s, "publish") ELSE Ends(s)
    /\ UNCHANGED <<publication, now>>

-----------------------------------------------------------------------------
(* publish_status *)

\* Under the lock; the commit releases it.
RequestPublication(s, i, p) ==
    /\ \/ session[s].step = "idle"
       \/ session[s].step = "publish" /\ session[s].issuer = i
    /\ issuer[i] # Unregistered
    /\ lock[i] \in {NoSession, s}
    /\ publication[p].status = "none"
    /\ publication' = [publication EXCEPT ![p] =
            [NoRecord EXCEPT !.status = "requested", !.issuer = i,
                             !.standing = issuer[i].standing, !.version = issuer[i].version]]
    /\ session' = [session EXCEPT ![s] = [Idle EXCEPT !.step = "issue", !.issuer = i,
                                              !.publication = p, !.row = issuer[i]]]
    /\ Unlocks(s)
    /\ UNCHANGED <<issuer, audit, now>>

\* build_issuer_status_statement: issued_at, and expires_at of it
BuildStatement(s) ==
    /\ session[s].step = "issue"
    /\ session' = [session EXCEPT ![s].step = "sign", ![s].at = now]
    /\ UNCHANGED <<issuer, lock, publication, audit, now>>

StatusSigned(s) ==
    /\ session[s].step = "sign"
    /\ Moves(s, "relock")
    /\ UNCHANGED <<issuer, lock, publication, audit, now>>

\* The failure is recorded with the standing as the session last read it.
Fails(s, row) ==
    /\ publication' = [publication EXCEPT ![session[s].publication].status = "failed",
                                          ![session[s].publication].completed = now]
    /\ Records(session[s].issuer, Event("publication_failed", Unregistered, row, now))
    /\ Ends(s) /\ Unlocks(s)
    /\ UNCHANGED <<issuer, now>>

SigningFails(s) ==
    /\ session[s].step = "sign"
    /\ Fails(s, session[s].row)

\* The second _locked_record
RelockStale(s) ==
    /\ session[s].step = "relock"
    /\ Locks(s, session[s].issuer)
    /\ Moves(s, "check")
    /\ UNCHANGED <<issuer, publication, audit, now>>
Relock(s) ==
    /\ session[s].step = "relock"
    /\ Locks(s, session[s].issuer)
    /\ session' = [session EXCEPT ![s].step = "check", ![s].row = issuer[session[s].issuer]]
    /\ UNCHANGED <<issuer, publication, audit, now>>

Unchanged(s) ==
    LET record == publication[session[s].publication] IN
    session[s].row = [standing |-> record.standing, version |-> record.version]

DiscardPublication(s) ==
    /\ session[s].step = "check"
    /\ ~Unchanged(s)
    /\ Fails(s, session[s].row)

CompletePublicationUnchecked(s) ==
    /\ session[s].step = "check"
    /\ publication' = [publication EXCEPT ![session[s].publication] =
            [@ EXCEPT !.status = "completed", !.issued = session[s].at,
                      !.expires = session[s].at + TTL, !.completed = now]]
    /\ Records(session[s].issuer, Event("published", Unregistered, session[s].row, now))
    /\ Ends(s) /\ Unlocks(s)
    /\ UNCHANGED <<issuer, now>>
CompletePublication(s) ==
    /\ session[s].step = "check"
    /\ Unchanged(s)
    /\ publication' = [publication EXCEPT ![session[s].publication] =
            [@ EXCEPT !.status = "completed", !.issued = session[s].at,
                      !.expires = session[s].at + TTL, !.completed = now]]
    /\ Records(session[s].issuer, Event("published", Unregistered, session[s].row, now))
    /\ Ends(s) /\ Unlocks(s)
    /\ UNCHANGED <<issuer, now>>

-----------------------------------------------------------------------------
(* latest_status_artifact: its transaction, and with it the lock, ends with *)
(* the response.                                                            *)

LockStatusUnlocked(s, i) ==
    /\ session[s].step = "idle"
    /\ issuer[i] # Unregistered
    /\ session' = [session EXCEPT ![s] = [Idle EXCEPT !.step = "select", !.issuer = i,
                                                      !.row = issuer[i]]]
    /\ UNCHANGED <<issuer, lock, publication, audit, now>>
LockStatus(s, i) ==
    /\ session[s].step = "idle"
    /\ issuer[i] # Unregistered
    /\ Locks(s, i)
    /\ session' = [session EXCEPT ![s] = [Idle EXCEPT !.step = "select", !.issuer = i,
                                                      !.row = issuer[i]]]
    /\ UNCHANGED <<issuer, publication, audit, now>>

\* The completed publications of the version, and the latest of them.
OfVersion(s) ==
    {p \in Publications : /\ publication[p].status = "completed"
                          /\ publication[p].issuer = session[s].issuer
                          /\ publication[p].version = session[s].row.version}
LatestOf(s) ==
    {p \in OfVersion(s) : \A q \in OfVersion(s) : publication[q].completed <= publication[p].completed}

AnswerStatus(s) ==
    /\ session[s].step = "select"
    /\ \E p \in LatestOf(s) :
        /\ publication[p].expires > now
        /\ session' = [session EXCEPT ![s].step = "answer", ![s].publication = p, ![s].at = now]
    /\ UNCHANGED <<issuer, lock, publication, audit, now>>

\* An operation ends: the response of a status request, a refusal, an error
\* or the death of the process.  What was not committed is rolled back.
EndSession(s) ==
    /\ session[s].step # "idle"
    /\ Ends(s) /\ Unlocks(s)
    /\ UNCHANGED <<issuer, publication, audit, now>>

Tick ==
    /\ now < MaxTime
    /\ now' = now + 1
    /\ UNCHANGED <<issuer, lock, publication, audit, session>>

-----------------------------------------------------------------------------

Operates(s) ==
    \/ \E i \in Issuers :
          \/ FindByIdentity(s, i) \/ RevokeAgain(s, i) \/ LockStatus(s, i)
          \/ \E target \in IssuerStanding : LockChange(s, i, target)
          \/ \E p \in Publications : RequestPublication(s, i, p)
    \/ InsertIssuer(s) \/ StampChange(s) \/ CommitChange(s)
    \/ BuildStatement(s) \/ StatusSigned(s) \/ SigningFails(s)
    \/ Relock(s) \/ DiscardPublication(s) \/ CompletePublication(s)
    \/ AnswerStatus(s) \/ EndSession(s)

Next == Tick \/ \E s \in Sessions : Operates(s)

Spec == Init /\ [][Next]_vars

-----------------------------------------------------------------------------
(* Properties *)

Changes(i) == {n \in DOMAIN audit[i] : audit[i][n].type \in {"registered", "changed"}}

Earlier(i, n) == {m \in Changes(i) : m < n}

Explained(i) ==
    /\ Changes(i) = {} => issuer[i] = Unregistered
    /\ \A n \in Changes(i) :
        /\ audit[i][n].resulting.version = Cardinality(Earlier(i, n)) + 1
        /\ \A m \in Earlier(i, n) : (\A k \in Earlier(i, n) : k <= m) =>
                /\ audit[i][n].prior = audit[i][m].resulting
                /\ audit[i][m].at <= audit[i][n].at
        /\ (\A m \in Changes(i) : m <= n) => issuer[i] = audit[i][n].resulting

\* The audit events of an issuer, in commit order, explain its record: every
\* change starts from the state the change before it left, none is lost, the
\* last one left the present state, and their times do not go back
\* (_change_standing under the row lock).
AuditExplainsRecord == TypeOK /\ \A i \in Issuers : Explained(i)

\* A status is published for the standing the issuer had at that moment: every
\* issuer.status_published event follows the change it names and precedes the
\* next one, although the statement was signed without the lock.
PublishedInItsVersion ==
    \A i \in Issuers : \A n \in DOMAIN audit[i] :
        audit[i][n].type = "published" =>
            \A m \in Changes(i) :
                m < n <=> audit[i][m].resulting.version <= audit[i][n].resulting.version

\* After an issuer is suspended or revoked, every artifact that states its
\* earlier standing expires within artifact_ttl_seconds of the change, however
\* long signing took.
EarlierStandingExpires ==
    \A p \in Publications : publication[p].status = "completed" =>
        \A n \in Changes(publication[p].issuer) :
            LET change == audit[publication[p].issuer][n] IN
            change.resulting.version > publication[p].version =>
                publication[p].expires <= change.at + TTL

\* The public endpoint "never serves a prior registry-state version": the
\* artifact in an answer states the standing the registry has at that moment.
AnswersCurrentStanding ==
    \A s \in Sessions : session[s].step = "answer" =>
        LET record == publication[session[s].publication] IN
        /\ issuer[session[s].issuer] = [standing |-> record.standing, version |-> record.version]
        /\ session[s].at < record.expires

\* Revocation is terminal: no later change, failed publication or retry gives
\* a revoked issuer another standing, and versions never go back.
RevocationIsFinal ==
    [][\A i \in Issuers :
        /\ issuer[i].standing = "revoked" => issuer'[i] = issuer[i]
        /\ issuer'[i].version \in {issuer[i].version, issuer[i].version + 1}]_vars
=============================================================================
