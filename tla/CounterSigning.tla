--------------------------- MODULE CounterSigning -----------------------------
(***************************************************************************)
(* Managed counter-signing: services/countersigning.py, the HSM/KMS adapter *)
(* (services/countersigning_provider.py) and the publication of public keys *)
(* (services/key_set_publisher.py).                                         *)
(*                                                                         *)
(* A lifecycle operation (provision, rotate, revoke) changes three things   *)
(* in turn: the provider, the key set published as files, the database.     *)
(* Operations of two operators interleave.  Each is one database session:   *)
(* the key it loaded keeps the values it was loaded with (the identity map  *)
(* is not refreshed), its UPDATE writes only the columns it changed, and    *)
(* rows it wrote stay locked to the end of its transaction.                 *)
(*                                                                         *)
(* The provider is external: a key is enabled once created, a disabled key  *)
(* never signs.  The files are modelled by what open("wb"), write and       *)
(* rename do to the paths.  Left out: the rows that record denied and       *)
(* failed requests, which no operation reads, key expiry and metadata.      *)
(***************************************************************************)
EXTENDS Naturals, FiniteSets

CONSTANTS
    Operators,      \* sessions that run lifecycle operations
    Signers,        \* sessions that sign
    Keys,           \* key_id values
    MaxTime,        \* bound on the clock
    NoKey, NoOperator

ASSUME CounterSigningAssumption ==
    /\ MaxTime \in Nat \ {0}
    /\ NoKey \notin Keys
    /\ NoOperator \notin Operators

VARIABLES
    key,            \* counter_signing_keys, as committed
    rowLock,        \* the operator whose transaction wrote the row
    provider,       \* the provider's keys
    current,        \* .well-known/actenon/keys.json
    temporary,      \* .keys.json.tmp beside it
    versioned,      \* the keys listed by some file under versions/
    op,             \* the lifecycle operation of each operator
    signing,        \* the request of each signer
    signatures,     \* the signatures made: key and signed_at
    completed,      \* counter_signing_lifecycle_records with status completed
    now             \* the clock

db == <<key, rowLock, completed>>
files == <<current, temporary, versioned>>
vars == <<key, rowLock, provider, current, temporary, versioned, op, signing, signatures,
          completed, now>>

-----------------------------------------------------------------------------

CounterSigningKeyStatus == {"active", "retired", "revoked"}

\* revoked 0: no revoked_at.
CounterSigningKey == [status : CounterSigningKeyStatus \cup {"none"}, revoked : Nat]
NoRow == [status |-> "none", revoked |-> 0]

\* A key set document is what it says of each key.
Document == [Keys -> CounterSigningKey]
Empty == [k \in Keys |-> NoRow]

\* A file is absent, opened and not written yet, or whole.
File == [state : {"absent", "partial", "whole"}, document : Document]
Absent == [state |-> "absent", document |-> Empty]
Partial == [state |-> "partial", document |-> Empty]
Whole(d) == [state |-> "whole", document |-> d]

CounterSigningLifecycleAction == {"provision", "rotate", "revoke"}

\* row: the loaded object of the key that is retired or revoked; handle: what
\* the operator's open file is by now.
Operation ==
    [step : {"idle", "provider", "stamp", "flush", "version", "open", "write", "replace",
             "commit"},
     action : CounterSigningLifecycleAction \cup {"none"},
     target : Keys \cup {NoKey}, prior : Keys \cup {NoKey}, row : CounterSigningKey,
     at : Nat, document : Document, handle : {"closed", "temporary", "current", "unlinked"}]

Idle == [step |-> "idle", action |-> "none", target |-> NoKey, prior |-> NoKey, row |-> NoRow,
         at |-> 0, document |-> Empty, handle |-> "closed"]

Signing == [step : {"idle", "statement", "sign"}, key : Keys \cup {NoKey}, at : Nat]
NotSigning == [step |-> "idle", key |-> NoKey, at |-> 0]

TypeOK ==
    /\ key \in Document
    /\ rowLock \in [Keys -> Operators \cup {NoOperator}]
    /\ provider \in [Keys -> {"absent", "enabled", "disabled"}]
    /\ current \in File /\ temporary \in File
    /\ versioned \subseteq Keys
    /\ op \in [Operators -> Operation]
    /\ signing \in [Signers -> Signing]
    /\ signatures \subseteq [key : Keys, at : Nat]
    /\ completed \subseteq [action : CounterSigningLifecycleAction, key : Keys]
    /\ now \in 1..MaxTime

Init ==
    /\ key = Empty
    /\ rowLock = [k \in Keys |-> NoOperator]
    /\ provider = [k \in Keys |-> "absent"]
    /\ current = Absent /\ temporary = Absent
    /\ versioned = {}
    /\ op = [o \in Operators |-> Idle]
    /\ signing = [g \in Signers |-> NotSigning]
    /\ signatures = {}
    /\ completed = {}
    /\ now = 1

-----------------------------------------------------------------------------
(* Helpers *)

Active == {k \in Keys : key[k].status = "active"}

Moves(o, step) == op' = [op EXCEPT ![o].step = step]
Ends(o) == op' = [op EXCEPT ![o] = Idle]
Unlocks(o) == rowLock' = [k \in Keys |-> IF rowLock[k] = o THEN NoOperator ELSE rowLock[k]]

\* The rows the operation writes.
Written(o) == {op[o].target, op[o].prior} \ {NoKey}

\* What the operator's session says of a key: its own objects as loaded and
\* changed, the other rows as committed (_all_keys).
View(o, k) ==
    CASE op[o].action = "revoke" /\ k = op[o].target ->
            [status |-> "revoked", revoked |-> op[o].at]
      [] op[o].action # "revoke" /\ k = op[o].target -> [status |-> "active", revoked |-> 0]
      [] op[o].action # "revoke" /\ k = op[o].prior -> [op[o].row EXCEPT !.status = "retired"]
      [] OTHER -> key[k]

\* What COMMIT leaves of a row: the columns the operation changed.
RowAfterWholeRow(o, k) == View(o, k)
RowAfter(o, k) ==
    CASE op[o].action = "rotate" /\ k = op[o].prior -> [key[k] EXCEPT !.status = "retired"]
      [] k = op[o].target -> View(o, k)
      [] OTHER -> key[k]

-----------------------------------------------------------------------------
(* Lifecycle operations.  _authorize_lifecycle refuses some requests; they  *)
(* leave a denied record and nothing else.                                  *)

\* provision_initial_key
LoadProvision(o, k) ==
    /\ op[o].step = "idle"
    /\ \A j \in Keys : key[j].status = "none"
    /\ op' = [op EXCEPT ![o] = [Idle EXCEPT !.step = "provider", !.action = "provision",
                                            !.target = k]]
    /\ UNCHANGED <<db, files, provider, signing, signatures, now>>

\* rotate_key: _active_key refuses when there are several
LoadRotate(o, k) ==
    /\ op[o].step = "idle"
    /\ Cardinality(Active) = 1
    /\ key[k].status = "none"
    /\ \E j \in Active :
          op' = [op EXCEPT ![o] = [Idle EXCEPT !.step = "provider", !.action = "rotate",
                                       !.target = k, !.prior = j, !.row = key[j]]]
    /\ UNCHANGED <<db, files, provider, signing, signatures, now>>

\* revoke_key
LoadRevoke(o, k) ==
    /\ op[o].step = "idle"
    /\ key[k].status \in {"active", "retired"}
    /\ op' = [op EXCEPT ![o] = [Idle EXCEPT !.step = "provider", !.action = "revoke",
                                            !.target = k, !.row = key[k]]]
    /\ UNCHANGED <<db, files, provider, signing, signatures, now>>

\* provider.provision_key of _provision_and_publish
ProvisionKey(o) ==
    /\ op[o].step = "provider" /\ op[o].action # "revoke"
    /\ provider[op[o].target] # "disabled"
    /\ provider' = [provider EXCEPT ![op[o].target] = "enabled"]
    /\ Moves(o, "flush")
    /\ UNCHANGED <<db, files, signing, signatures, now>>

\* provider.disable_key of revoke_key; revoked_at is stamped after it returns.
DisableKeyBestEffort(o) ==
    /\ op[o].step = "provider" /\ op[o].action = "revoke"
    /\ provider' \in {provider, [provider EXCEPT ![op[o].target] = "disabled"]}
    /\ Moves(o, "stamp")
    /\ UNCHANGED <<db, files, signing, signatures, now>>
DisableKey(o) ==
    /\ op[o].step = "provider" /\ op[o].action = "revoke"
    /\ provider' = [provider EXCEPT ![op[o].target] = "disabled"]
    /\ Moves(o, "stamp")
    /\ UNCHANGED <<db, files, signing, signatures, now>>

StampRevokedAsRequested(o) ==
    /\ op[o].step = "stamp"
    /\ \E t \in 1..now : op' = [op EXCEPT ![o].step = "flush", ![o].at = t]
    /\ UNCHANGED <<db, files, provider, signing, signatures, now>>
StampRevoked(o) ==
    /\ op[o].step = "stamp"
    /\ op' = [op EXCEPT ![o].step = "flush", ![o].at = now]
    /\ UNCHANGED <<db, files, provider, signing, signatures, now>>

\* session.flush: waits for rows another transaction wrote.  The INSERT of a
\* key_id that exists fails (see FailLifecycle).
FlushKeysUnpublished(o) ==
    /\ op[o].step = "flush"
    /\ \A k \in Written(o) : rowLock[k] = NoOperator
    /\ op[o].action # "revoke" => key[op[o].target].status = "none"
    /\ rowLock' = [k \in Keys |-> IF k \in Written(o) THEN o ELSE rowLock[k]]
    /\ Moves(o, "commit")
    /\ UNCHANGED <<key, completed, files, provider, signing, signatures, now>>
FlushKeys(o) ==
    /\ op[o].step = "flush"
    /\ \A k \in Written(o) : rowLock[k] = NoOperator
    /\ op[o].action # "revoke" => key[op[o].target].status = "none"
    /\ rowLock' = [k \in Keys |-> IF k \in Written(o) THEN o ELSE rowLock[k]]
    /\ Moves(o, "version")
    /\ UNCHANGED <<key, completed, files, provider, signing, signatures, now>>

\* _build_public_key_set, and the first _atomic_write of publish: the version
\* file has a path of its own, named after the second, the action and the key.
WriteVersion(o) ==
    /\ op[o].step = "version"
    /\ LET document == [k \in Keys |-> View(o, k)] IN
       /\ op' = [op EXCEPT ![o].step = "open", ![o].document = document]
       /\ versioned' = versioned \cup {k \in Keys : document[k].status # "none"}
    /\ UNCHANGED <<db, provider, current, temporary, signing, signatures, now>>

\* The second one, of the current document: open("wb") truncates whatever the
\* temporary path names.
OpenTemporary(o) ==
    /\ op[o].step = "open"
    /\ temporary' = Partial
    /\ op' = [op EXCEPT ![o].step = "write", ![o].handle = "temporary"]
    /\ UNCHANGED <<db, provider, current, versioned, signing, signatures, now>>

WriteTemporary(o) ==
    /\ op[o].step = "write"
    /\ temporary' = IF op[o].handle = "temporary" THEN Whole(op[o].document) ELSE temporary
    /\ current' = IF op[o].handle = "current" THEN Whole(op[o].document) ELSE current
    /\ Moves(o, "replace")
    /\ UNCHANGED <<db, provider, versioned, signing, signatures, now>>

\* Path.replace renames the file, whoever has it open; without a temporary
\* file it raises (see FailLifecycle).
ReplaceCurrent(o) ==
    /\ op[o].step = "replace"
    /\ temporary # Absent
    /\ current' = temporary
    /\ temporary' = Absent
    /\ op' = [p \in Operators |->
                [op[p] EXCEPT
                    !.step = IF p = o THEN "commit" ELSE @,
                    !.handle = CASE p = o -> "closed"
                                 [] p # o /\ @ = "temporary" -> "current"
                                 [] p # o /\ @ = "current" -> "unlinked"
                                 [] OTHER -> @]]
    /\ UNCHANGED <<db, provider, versioned, signing, signatures, now>>

CommitLifecycle(o) ==
    /\ op[o].step = "commit"
    /\ key' = [k \in Keys |-> RowAfter(o, k)]
    /\ completed' = completed \cup {[action |-> op[o].action, key |-> op[o].target]}
    /\ Ends(o) /\ Unlocks(o)
    /\ UNCHANGED <<files, provider, signing, signatures, now>>

\* Any of the calls fails: rollback, and a failed record.  The provider may
\* have done what it was asked to.
FailLifecycle(o) ==
    /\ op[o].step # "idle"
    /\ Ends(o) /\ Unlocks(o)
    /\ provider' \in
        IF op[o].step # "provider" THEN {provider}
        ELSE {provider, [provider EXCEPT ![op[o].target] =
                            IF op[o].action = "revoke" \/ @ = "disabled" THEN "disabled"
                            ELSE "enabled"]}
    /\ UNCHANGED <<key, completed, files, signing, signatures, now>>

-----------------------------------------------------------------------------
(* counter_sign, sign_transparency_checkpoint and sign_issuer_status *)

\* _active_key
SelectActive(g) ==
    /\ signing[g].step = "idle"
    /\ Cardinality(Active) = 1
    /\ \E k \in Active :
          signing' = [signing EXCEPT ![g] = [NotSigning EXCEPT !.step = "statement", !.key = k]]
    /\ UNCHANGED <<db, files, provider, op, signatures, now>>

\* build_signed_statement, with signed_at
BuildStatement(g) ==
    /\ signing[g].step = "statement"
    /\ signing' = [signing EXCEPT ![g].step = "sign", ![g].at = now]
    /\ UNCHANGED <<db, files, provider, op, signatures, now>>

ProviderSigns(g) ==
    /\ signing[g].step = "sign"
    /\ provider[signing[g].key] = "enabled"
    /\ signatures' = signatures \cup {[key |-> signing[g].key, at |-> signing[g].at]}
    /\ signing' = [signing EXCEPT ![g] = NotSigning]
    /\ UNCHANGED <<db, files, provider, op, now>>

\* The provider refuses or fails, or the request dies.
SigningFails(g) ==
    /\ signing[g].step # "idle"
    /\ signing' = [signing EXCEPT ![g] = NotSigning]
    /\ UNCHANGED <<db, files, provider, op, signatures, now>>

Tick ==
    /\ now < MaxTime
    /\ now' = now + 1
    /\ UNCHANGED <<db, files, provider, op, signing, signatures>>

Lifecycle(o) ==
    \/ \E k \in Keys : LoadProvision(o, k) \/ LoadRotate(o, k) \/ LoadRevoke(o, k)
    \/ ProvisionKey(o) \/ DisableKey(o) \/ StampRevoked(o) \/ FlushKeys(o)
    \/ WriteVersion(o) \/ OpenTemporary(o) \/ WriteTemporary(o) \/ ReplaceCurrent(o)
    \/ CommitLifecycle(o) \/ FailLifecycle(o)

Sign(g) == SelectActive(g) \/ BuildStatement(g) \/ ProviderSigns(g) \/ SigningFails(g)

Next ==
    \/ \E o \in Operators : Lifecycle(o)
    \/ \E g \in Signers : Sign(g)
    \/ Tick

Spec == Init /\ [][Next]_vars

-----------------------------------------------------------------------------
(* Properties *)

\* A key that the database or the published key set calls revoked cannot sign
\* any more: revoke_key disables it at the provider before it says so anywhere.
RevokedIsDisabled ==
    /\ TypeOK
    /\ \A k \in Keys :
         (key[k].revoked # 0 \/ current.document[k].revoked # 0) => provider[k] = "disabled"

\* No signature is dated after the revocation of its key, so that relying
\* parties may go by revoked_at: revoked_at is read after the provider stopped
\* signing, signed_at before it signed.
SignaturesPrecedeRevocation ==
    \A x \in signatures :
        /\ key[x.key].revoked # 0 => x.at <= key[x.key].revoked
        /\ current.document[x.key].revoked # 0 => x.at <= current.document[x.key].revoked

\* A key only signs after a version of the key set that lists it was written,
\* although the commit that activates it can be delayed, lost or retried.
SignerWasPublished == \A x \in signatures : x.key \in versioned

\* What a completed revocation leaves for good, although an operation that
\* loaded the key before may commit after it: the row has a revoked_at and the
\* provider refuses to sign.  Not more: see RevocationStaysPublished.
RevokedAtIsKept ==
    \A r \in completed : r.action = "revoke" =>
        key[r.key].revoked # 0 /\ provider[r.key] = "disabled"

\* "Publish a key set containing ... the suspected key as historical with the
\* chosen `revoked_at`": once no operation is under way, a completed revocation
\* shows at least in the status of the row or in the current key set.
RevocationStaysPublished ==
    (\A o \in Operators : op[o].step = "idle") =>
        \A r \in completed : r.action = "revoke" =>
            key[r.key].status = "revoked" \/ current.document[r.key].revoked # 0
=============================================================================
