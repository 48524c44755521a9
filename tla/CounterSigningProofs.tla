------------------------- MODULE CounterSigningProofs --------------------------
(***************************************************************************)
(* Proofs about CounterSigning, for any operators, signers and keys.       *)
(***************************************************************************)
EXTENDS CounterSigning, TLAPS

-----------------------------------------------------------------------------
(* The inductive invariant *)

\* The steps at which the rows are written and locked, and those at which the
\* version file is there.
Flushed == {"version", "open", "write", "replace", "commit"}
Listed == {"open", "write", "replace", "commit"}

\* Wherever t stands as the revocation time of k, the provider has stopped
\* signing with k, and no signature of k is later.
Certain(k, t) ==
    t # 0 => /\ provider[k] = "disabled"
             /\ \A x \in signatures : x.key = k => x.at <= t

KeySound(k) ==
    /\ Certain(k, key[k].revoked)
    /\ Certain(k, current.document[k].revoked)
    /\ Certain(k, temporary.document[k].revoked)
    /\ key[k].status = "none" => key[k].revoked = 0
    /\ key[k].status # "none" => k \in versioned

\* What an operation in flight carries is as certain as what is committed.
OperationSound(q) ==
    /\ q.step # "idle" => q.target \in Keys /\ q.action # "none" /\ q.target # q.prior
    /\ \A k \in Keys : Certain(k, q.document[k].revoked)
    /\ q.prior \in Keys => Certain(q.prior, q.row.revoked) /\ q.prior \in versioned
    /\ q.step # "idle" /\ q.action = "revoke" =>
         /\ Certain(q.target, q.at)
         /\ q.step # "provider" => provider[q.target] = "disabled"
         /\ q.step \in Flushed \cup {"flush"} => q.at # 0
    /\ q.step \in Listed => q.target \in versioned
    /\ q.step \in Flushed /\ q.action # "revoke" => key[q.target].status = "none"

RowsLocked ==
    \A o \in Operators : op[o].step \in Flushed =>
        /\ rowLock[op[o].target] = o
        /\ op[o].prior \in Keys => rowLock[op[o].prior] = o

SigningSound(w) ==
    /\ w.at <= now
    /\ w.step # "idle" => w.key \in versioned /\ w.key \in Keys

SignatureSound(x) == x.at <= now /\ x.key \in versioned

StampsKept ==
    \A r \in completed : r.action = "revoke" => key[r.key].revoked # 0

SigningInv ==
    /\ TypeOK
    /\ \A k \in Keys : KeySound(k)
    /\ \A o \in Operators : OperationSound(op[o])
    /\ RowsLocked
    /\ \A g \in Signers : SigningSound(signing[g])
    /\ \A x \in signatures : SignatureSound(x)
    /\ StampsKept

-----------------------------------------------------------------------------
(* Types *)

LEMMA Types ==
    /\ Empty \in Document /\ NoRow \in CounterSigningKey
    /\ \A k \in Keys : Empty[k].revoked = 0
    /\ Absent \in File /\ Partial \in File /\ \A d \in Document : Whole(d) \in File
    /\ Absent.document = Empty /\ Partial.document = Empty /\ \A d : Whole(d).document = d
    /\ NotSigning \in Signing /\ NotSigning.step = "idle" /\ NotSigning.at = 0
    BY DEF Empty, Document, NoRow, CounterSigningKey, Absent, Partial, Whole, File, NotSigning,
           Signing

LEMMA IdleType ==
    /\ Idle \in Operation /\ Idle.step = "idle" /\ Idle.document = Empty
    /\ Idle.prior = NoKey /\ Idle.action = "none" /\ Idle.target = NoKey /\ Idle.at = 0
    /\ NoKey \notin Keys /\ NoOperator \notin Operators
    BY Types, CounterSigningAssumption
       DEF Idle, Operation, CounterSigningAssumption

LEMMA OperationType ==
    ASSUME NEW q \in Operation
    PROVE  /\ q.step \in {"idle", "provider", "stamp", "flush", "version", "open", "write",
                           "replace", "commit"}
           /\ q.action \in {"provision", "rotate", "revoke", "none"}
           /\ q.target \in Keys \cup {NoKey} /\ q.prior \in Keys \cup {NoKey}
           /\ q.row \in CounterSigningKey /\ q.row.revoked \in Nat
           /\ q.at \in Nat /\ q.document \in Document
           /\ q.handle \in {"closed", "temporary", "current", "unlinked"}
    BY DEF Operation, CounterSigningKey, CounterSigningLifecycleAction

LEMMA DocumentType ==
    ASSUME NEW d \in Document, NEW k \in Keys
    PROVE  d[k] \in CounterSigningKey /\ d[k].revoked \in Nat
    BY DEF Document, CounterSigningKey

-----------------------------------------------------------------------------
(* What never goes back *)

\* A disabled key stays disabled and signs nothing, what was listed stays
\* listed, and the clock goes on.
Grows ==
    /\ \A k \in Keys : provider[k] = "disabled" => provider'[k] = "disabled"
    /\ \A x \in signatures' : x \in signatures \/ provider[x.key] = "enabled"
    /\ versioned \subseteq versioned'
    /\ now <= now' /\ now \in Nat /\ now' \in Nat

LEMMA CertainGrows ==
    ASSUME Grows, NEW k \in Keys, NEW t, Certain(k, t)
    PROVE  Certain(k, t)'
    BY DEF Grows, Certain

LEMMA OperationGrows ==
    ASSUME Grows, NEW q \in Operation, OperationSound(q),
           q.step \in Flushed /\ q.action # "revoke" => key'[q.target].status = "none"
    PROVE  OperationSound(q)'
<1>1. \A k \in Keys : Certain(k, q.document[k].revoked)'
    BY CertainGrows DEF OperationSound
<1>2. q.prior \in Keys => Certain(q.prior, q.row.revoked)' /\ q.prior \in versioned'
    BY CertainGrows DEF OperationSound, Grows
<1>3. q.step # "idle" /\ q.action = "revoke" =>
         /\ Certain(q.target, q.at)'
         /\ q.step # "provider" => provider'[q.target] = "disabled"
    BY CertainGrows DEF OperationSound, Grows
<1>4. q.step \in Listed => q.target \in versioned'
    BY DEF OperationSound, Grows
<1>. QED  BY <1>1, <1>2, <1>3, <1>4 DEF OperationSound

LEMMA KeyGrows ==
    ASSUME Grows, NEW k \in Keys, KeySound(k), key' = key,
           Certain(k, current.document[k].revoked)', Certain(k, temporary.document[k].revoked)'
    PROVE  KeySound(k)'
<1>1. Certain(k, key[k].revoked)'
    <2>1. PICK t : t = key[k].revoked
        OBVIOUS
    <2>2. Certain(k, t)'
        BY <2>1, CertainGrows DEF KeySound
    <2>. QED  BY <2>1, <2>2
<1>. QED  BY <1>1 DEF KeySound, Grows

\* Files that are not touched.
LEMMA FilesGrow ==
    ASSUME Grows, NEW k \in Keys, KeySound(k), UNCHANGED <<current, temporary>>
    PROVE  /\ Certain(k, current.document[k].revoked)'
           /\ Certain(k, temporary.document[k].revoked)'
<1>1. PICK t, u : t = current.document[k].revoked /\ u = temporary.document[k].revoked
    OBVIOUS
<1>2. Certain(k, t)' /\ Certain(k, u)'
    BY <1>1, CertainGrows DEF KeySound
<1>. QED  BY <1>1, <1>2

LEMMA SigningGrows ==
    ASSUME Grows, SigningInv, TypeOK', UNCHANGED <<signing, signatures>>
    PROVE  /\ \A g \in Signers : SigningSound(signing[g])'
           /\ \A x \in signatures' : SignatureSound(x)'
<1>1. ASSUME NEW g \in Signers  PROVE SigningSound(signing[g])'
    <2>1. SigningSound(signing[g]) /\ signing[g].at \in Nat
        BY DEF SigningInv, TypeOK, Signing
    <2>. QED  BY <2>1 DEF SigningSound, Grows
<1>2. ASSUME NEW x \in signatures  PROVE SignatureSound(x)'
    <2>1. SignatureSound(x) /\ x.at \in Nat
        BY DEF SigningInv, TypeOK
    <2>. QED  BY <2>1 DEF SignatureSound, Grows
<1>. QED  BY <1>1, <1>2

-----------------------------------------------------------------------------
(* A step of an operation that commits nothing *)

\* Operator o moves to state q.
Turn(o, q) ==
    /\ TypeOK' /\ Grows
    /\ UNCHANGED <<key, completed, signing, signatures>>
    /\ op' = [op EXCEPT ![o] = q]
    /\ OperationSound(q)'
    /\ \A k \in Keys : /\ Certain(k, current.document[k].revoked)'
                       /\ Certain(k, temporary.document[k].revoked)'
    /\ \A k \in Keys : rowLock'[k] = rowLock[k] \/ rowLock[k] \in {o, NoOperator}
    /\ q.step \in Flushed => /\ rowLock'[q.target] = o
                             /\ q.prior \in Keys => rowLock'[q.prior] = o

LEMMA TurnStep ==
    ASSUME SigningInv, NEW o \in Operators, NEW q \in Operation, Turn(o, q)
    PROVE  SigningInv'
<1>. USE DEF Turn
<1>1. \A p \in Operators : op'[p] = IF p = o THEN q ELSE op[p]
    BY DEF SigningInv, TypeOK
<1>2. ASSUME NEW k \in Keys  PROVE KeySound(k)'
    BY KeyGrows DEF SigningInv
<1>3. ASSUME NEW p \in Operators  PROVE OperationSound(op[p])'
    <2>1. CASE p = o
        <3>1. op'[p] = q
            BY <2>1, <1>1
        <3>2. OperationSound(q)'
            OBVIOUS
        <3>. QED  BY <3>1, <3>2 DEF OperationSound
    <2>2. CASE p # o
        <3>1. PICK w \in Operation : w = op[p]
            BY DEF SigningInv, TypeOK
        <3>2. OperationSound(w)
            BY <3>1 DEF SigningInv
        <3>3. OperationSound(w)'
            BY <3>2, OperationGrows DEF OperationSound
        <3>. QED  BY <1>1, <2>2, <3>1, <3>3
    <2>. QED  BY <2>1, <2>2
<1>4. RowsLocked'
    <2>. SUFFICES ASSUME NEW p \in Operators, op'[p].step \in Flushed
                  PROVE  /\ rowLock'[op'[p].target] = p
                         /\ op'[p].prior \in Keys => rowLock'[op'[p].prior] = p
        BY DEF RowsLocked
    <2>1. CASE p = o
        <3>1. op'[p] = q
            BY <2>1, <1>1
        <3>2. q.step \in Flushed
            BY <3>1
        <3>3. /\ rowLock'[q.target] = o
              /\ q.prior \in Keys => rowLock'[q.prior] = o
            BY <3>2
        <3>. QED  BY <2>1, <3>1, <3>3
    <2>2. CASE p # o
        <3>1. op'[p] = op[p] /\ OperationSound(op[p]) /\ op[p].target \in Keys
            BY <2>2, <1>1 DEF SigningInv, OperationSound, Flushed
        <3>2. /\ rowLock[op[p].target] = p
              /\ op[p].prior \in Keys => rowLock[op[p].prior] = p
            BY <3>1 DEF SigningInv, RowsLocked
        <3>. QED  BY <2>2, <3>1, <3>2, IdleType
    <2>. QED  BY <2>1, <2>2
<1>5. StampsKept'
    BY DEF SigningInv, StampsKept
<1>. QED  BY <1>2, <1>3, <1>4, <1>5, SigningGrows DEF SigningInv

-----------------------------------------------------------------------------
(* Lifecycle operations *)

\* The files and the rows of a step that touches neither.
Elsewhere == UNCHANGED <<key, rowLock, completed, current, temporary, versioned,
                         signing, signatures, now>>

LEMMA Quiet ==
    ASSUME SigningInv, NEW o \in Operators, NEW q \in Operation,
           provider' \in [Keys -> {"absent", "enabled", "disabled"}],
           \A k \in Keys : provider[k] = "disabled" => provider'[k] = "disabled",
           OperationSound(q)', op' = [op EXCEPT ![o] = q], Elsewhere,
           q.step \in Flushed => op[o].step \in Flushed /\ q.target = op[o].target
                                  /\ q.prior = op[o].prior
    PROVE  SigningInv'
<1>. USE DEF Elsewhere
<1>1. TypeOK'
    BY DEF SigningInv, TypeOK
<1>2. Grows
    BY DEF SigningInv, TypeOK, Grows
<1>3. \A k \in Keys : /\ Certain(k, current.document[k].revoked)'
                      /\ Certain(k, temporary.document[k].revoked)'
    BY <1>2, FilesGrow DEF SigningInv
<1>4. q.step \in Flushed => /\ rowLock'[q.target] = o
                            /\ q.prior \in Keys => rowLock'[q.prior] = o
    BY DEF SigningInv, RowsLocked
<1>5. Turn(o, q)
    BY <1>1, <1>2, <1>3, <1>4 DEF Turn
<1>. QED  BY <1>5, TurnStep

LEMMA Loads ==
    ASSUME SigningInv, NEW o \in Operators, NEW k \in Keys
    PROVE  /\ LoadProvision(o, k) => SigningInv'
           /\ LoadRotate(o, k) => SigningInv'
           /\ LoadRevoke(o, k) => SigningInv'
<1>0. /\ provider \in [Keys -> {"absent", "enabled", "disabled"}]
      /\ \A j \in Keys : key[j] \in CounterSigningKey
    BY DocumentType DEF SigningInv, TypeOK
<1>1. ASSUME NEW q \in Operation, q.step = "provider", q.target = k, q.action # "none",
             q.document = Empty, q.at = 0, q.prior # k,
             q.prior \in Keys => q.row = key[q.prior] /\ key[q.prior].status # "none",
             op' = [op EXCEPT ![o] = q], Elsewhere, UNCHANGED provider
      PROVE  SigningInv'
    <2>1. q.prior \in Keys => Certain(q.prior, q.row.revoked) /\ q.prior \in versioned
        BY <1>1 DEF SigningInv, KeySound
    <2>2. OperationSound(q)
        BY <1>1, <2>1, Types DEF OperationSound, Certain, Flushed, Listed
    <2>3. OperationSound(q)'
        BY <1>1, <2>2 DEF OperationSound, Elsewhere, Certain
    <2>. QED  BY <1>0, <1>1, <2>3, Quiet DEF Flushed
<1>2. ASSUME LoadProvision(o, k)  PROVE SigningInv'
    <2>. DEFINE q == [Idle EXCEPT !.step = "provider", !.action = "provision", !.target = k]
    <2>1. /\ q \in Operation /\ q.step = "provider" /\ q.target = k /\ q.action = "provision"
          /\ q.document = Empty /\ q.at = 0 /\ q.prior = NoKey
        BY IdleType, Types DEF Idle, Operation, CounterSigningLifecycleAction
    <2>2. op' = [op EXCEPT ![o] = q] /\ Elsewhere /\ UNCHANGED provider
        BY <1>2 DEF LoadProvision, Elsewhere, db, files
    <2>. HIDE DEF q
    <2>. QED  BY <2>1, <2>2, <1>1, IdleType
<1>3. ASSUME LoadRotate(o, k)  PROVE SigningInv'
    <2>1. PICK j \in Active :
             op' = [op EXCEPT ![o] = [Idle EXCEPT !.step = "provider", !.action = "rotate",
                                         !.target = k, !.prior = j, !.row = key[j]]]
        BY <1>3 DEF LoadRotate
    <2>. DEFINE q == [Idle EXCEPT !.step = "provider", !.action = "rotate",
                                  !.target = k, !.prior = j, !.row = key[j]]
    <2>2. j \in Keys /\ key[j].status = "active" /\ key[j] \in CounterSigningKey
        BY <1>0 DEF Active
    <2>5. k # j
        BY <1>3, <2>2 DEF LoadRotate
    <2>3. /\ q \in Operation /\ q.step = "provider" /\ q.target = k /\ q.action = "rotate"
          /\ q.document = Empty /\ q.at = 0 /\ q.prior = j /\ q.row = key[j]
        BY <2>2, Types DEF Idle, Operation, CounterSigningLifecycleAction
    <2>4. op' = [op EXCEPT ![o] = q] /\ Elsewhere /\ UNCHANGED provider
        BY <1>3, <2>1 DEF LoadRotate, Elsewhere, db, files
    <2>. HIDE DEF q
    <2>. QED  BY <2>2, <2>3, <2>4, <2>5, <1>1
<1>4. ASSUME LoadRevoke(o, k)  PROVE SigningInv'
    <2>. DEFINE q == [Idle EXCEPT !.step = "provider", !.action = "revoke", !.target = k,
                                  !.row = key[k]]
    <2>1. /\ q \in Operation /\ q.step = "provider" /\ q.target = k /\ q.action = "revoke"
          /\ q.document = Empty /\ q.at = 0 /\ q.prior = NoKey
        BY <1>0, IdleType, Types DEF Idle, Operation, CounterSigningLifecycleAction
    <2>2. op' = [op EXCEPT ![o] = q] /\ Elsewhere /\ UNCHANGED provider
        BY <1>4 DEF LoadRevoke, Elsewhere, db, files
    <2>. HIDE DEF q
    <2>. QED  BY <2>1, <2>2, <1>1, IdleType
<1>. QED  BY <1>2, <1>3, <1>4

LEMMA ProviderCalls ==
    ASSUME SigningInv, NEW o \in Operators
    PROVE  /\ ProvisionKey(o) => SigningInv'
           /\ DisableKey(o) => SigningInv'
           /\ StampRevoked(o) => SigningInv'
<1>. DEFINE u == op[o]
<1>0. /\ u \in Operation /\ OperationSound(u) /\ op \in [Operators -> Operation]
      /\ provider \in [Keys -> {"absent", "enabled", "disabled"}]
      /\ u.step # "idle" => u.target \in Keys
      /\ now \in Nat \ {0}
    BY CounterSigningAssumption DEF SigningInv, TypeOK, OperationSound, CounterSigningAssumption
<1>1. ASSUME ProvisionKey(o)  PROVE SigningInv'
    <2>0. PICK q : q = [u EXCEPT !.step = "flush"]
        OBVIOUS
    <2>1. /\ q \in Operation /\ q.step = "flush" /\ q.target = u.target /\ q.prior = u.prior
          /\ q.row = u.row /\ q.action = u.action /\ q.document = u.document /\ q.at = u.at
        BY <1>0, <2>0 DEF Operation
    <2>2. op' = [op EXCEPT ![o] = q] /\ Elsewhere
        BY <1>0, <1>1, <2>0 DEF ProvisionKey, Moves, Elsewhere, db, files
    <2>3. /\ provider' \in [Keys -> {"absent", "enabled", "disabled"}]
          /\ \A k \in Keys : provider[k] = "disabled" => provider'[k] = "disabled"
          /\ u.step = "provider" /\ u.action # "revoke"
        BY <1>0, <1>1 DEF ProvisionKey
    <2>4. OperationSound(q)
        BY <1>0, <2>1, <2>3 DEF OperationSound, Flushed, Listed
    <2>5. Grows
        BY <1>0, <2>2, <2>3 DEF Grows, Elsewhere
    <2>6. OperationSound(q)'
        BY <2>1, <2>4, <2>5, OperationGrows DEF Flushed
    <2>. QED  BY <2>1, <2>2, <2>3, <2>6, Quiet DEF Flushed
<1>2. ASSUME DisableKey(o)  PROVE SigningInv'
    <2>0. PICK q : q = [u EXCEPT !.step = "stamp"]
        OBVIOUS
    <2>1. /\ q \in Operation /\ q.step = "stamp" /\ q.target = u.target /\ q.prior = u.prior
          /\ q.row = u.row /\ q.action = u.action /\ q.document = u.document /\ q.at = u.at
        BY <1>0, <2>0 DEF Operation
    <2>2. op' = [op EXCEPT ![o] = q] /\ Elsewhere
        BY <1>0, <1>2, <2>0 DEF DisableKey, Moves, Elsewhere, db, files
    <2>3. /\ provider' \in [Keys -> {"absent", "enabled", "disabled"}]
          /\ \A k \in Keys : provider[k] = "disabled" => provider'[k] = "disabled"
          /\ u.step = "provider" /\ u.action = "revoke" /\ provider'[u.target] = "disabled"
        BY <1>0, <1>2 DEF DisableKey
    <2>4. Grows
        BY <1>0, <2>2, <2>3 DEF Grows, Elsewhere
    <2>5. PICK w \in Operation : w = u
        BY <1>0
    <2>6. OperationSound(q)'
        <3>1. OperationSound(w)'
            BY <1>0, <2>3, <2>4, <2>5, OperationGrows DEF Flushed
        <3>. QED  BY <2>1, <2>3, <2>5, <3>1 DEF OperationSound, Flushed, Listed
    <2>. QED  BY <2>1, <2>2, <2>3, <2>6, Quiet DEF Flushed
<1>3. ASSUME StampRevoked(o)  PROVE SigningInv'
    <2>0. PICK q : q = [u EXCEPT !.step = "flush", !.at = now]
        OBVIOUS
    <2>1. /\ q \in Operation /\ q.step = "flush" /\ q.target = u.target /\ q.prior = u.prior
          /\ q.row = u.row /\ q.action = u.action /\ q.document = u.document /\ q.at = now
        BY <1>0, <2>0 DEF Operation
    <2>2. op' = [op EXCEPT ![o] = q] /\ Elsewhere /\ UNCHANGED provider /\ u.step = "stamp"
        BY <1>0, <1>3, <2>0 DEF StampRevoked, Elsewhere, db, files
    <2>3. u.action = "revoke" => Certain(q.target, q.at)
        BY <1>0, <2>1, <2>2 DEF Certain, OperationSound, SigningInv, SignatureSound
    <2>4. OperationSound(q)
        BY <1>0, <2>1, <2>2, <2>3 DEF OperationSound, Flushed, Listed
    <2>5. Grows
        BY <1>0, <2>2 DEF Grows, Elsewhere
    <2>6. OperationSound(q)'
        BY <2>1, <2>4, <2>5, OperationGrows DEF Flushed
    <2>. QED  BY <1>0, <2>1, <2>2, <2>6, Quiet DEF Flushed
<1>. QED  BY <1>1, <1>2, <1>3

LEMMA Flushes ==
    ASSUME SigningInv, NEW o \in Operators, FlushKeys(o)
    PROVE  SigningInv'
<1>1. PICK q : q = [op[o] EXCEPT !.step = "version"]
    OBVIOUS
<1>2. /\ op[o] \in Operation /\ OperationSound(op[o]) /\ op \in [Operators -> Operation]
      /\ rowLock \in [Keys -> Operators \cup {NoOperator}]
      /\ op[o].step = "flush" /\ op[o].target \in Keys /\ now \in Nat
    BY CounterSigningAssumption
       DEF SigningInv, TypeOK, OperationSound, FlushKeys, CounterSigningAssumption
<1>3. /\ q \in Operation /\ q.step = "version" /\ q.target = op[o].target /\ q.prior = op[o].prior
      /\ q.row = op[o].row /\ q.action = op[o].action /\ q.document = op[o].document
      /\ q.at = op[o].at
    BY <1>1, <1>2 DEF Operation
<1>4. /\ op' = [op EXCEPT ![o] = q]
      /\ UNCHANGED <<key, completed, current, temporary, versioned, provider, signing, signatures, now>>
      /\ op[o].action # "revoke" => key[op[o].target].status = "none"
    BY <1>1, <1>2 DEF FlushKeys, Moves, files
<1>5. /\ rowLock' \in [Keys -> Operators \cup {NoOperator}]
      /\ \A k \in Keys : rowLock'[k] = rowLock[k] \/ rowLock[k] \in {o, NoOperator}
      /\ rowLock'[q.target] = o
      /\ q.prior \in Keys => rowLock'[q.prior] = o
    BY <1>2, <1>3, IdleType DEF FlushKeys, Written
<1>6. Grows
    BY <1>2, <1>4 DEF Grows
<1>7. OperationSound(q)
    BY <1>2, <1>3, <1>4 DEF OperationSound, Flushed, Listed
<1>8. OperationSound(q)'
    BY <1>3, <1>4, <1>6, <1>7, OperationGrows DEF OperationSound
<1>9. \A k \in Keys : /\ Certain(k, current.document[k].revoked)'
                      /\ Certain(k, temporary.document[k].revoked)'
    BY <1>4, <1>6, FilesGrow DEF SigningInv
<1>10. TypeOK'
    BY <1>3, <1>4, <1>5 DEF SigningInv, TypeOK
<1>11. Turn(o, q)
    BY <1>3, <1>4, <1>5, <1>6, <1>8, <1>9, <1>10 DEF Turn
<1>. QED  BY <1>3, <1>11, TurnStep

\* The document of an operation is as certain as the session it comes from.
LEMMA ViewSound ==
    ASSUME SigningInv, NEW o \in Operators, op[o].step \in Flushed, NEW k \in Keys
    PROVE  /\ View(o, k) \in CounterSigningKey
           /\ Certain(k, View(o, k).revoked)
           /\ k = op[o].target => View(o, k).status # "none"
<1>1. /\ op[o] \in Operation /\ OperationSound(op[o]) /\ op[o].step # "idle"
      /\ key[k] \in CounterSigningKey /\ KeySound(k) /\ op[o].row \in CounterSigningKey
      /\ op[o].at \in Nat
    BY DocumentType, OperationType DEF SigningInv, TypeOK, Flushed
<1>2. CASE op[o].action = "revoke" /\ k = op[o].target
    <2>1. View(o, k) = [status |-> "revoked", revoked |-> op[o].at]
        BY <1>2 DEF View
    <2>. QED  BY <1>1, <1>2, <2>1 DEF OperationSound, CounterSigningKey, CounterSigningKeyStatus
<1>3. CASE op[o].action # "revoke" /\ k = op[o].target
    <2>1. View(o, k) = [status |-> "active", revoked |-> 0]
        BY <1>1, <1>3 DEF View, OperationSound
    <2>. QED  BY <2>1 DEF Certain, CounterSigningKey, CounterSigningKeyStatus
<1>4. CASE op[o].action # "revoke" /\ k # op[o].target /\ k = op[o].prior
    <2>1. View(o, k) = [op[o].row EXCEPT !.status = "retired"]
        BY <1>4 DEF View
    <2>2. View(o, k) \in CounterSigningKey /\ View(o, k).revoked = op[o].row.revoked
        BY <1>1, <2>1 DEF CounterSigningKey, CounterSigningKeyStatus
    <2>. QED  BY <1>1, <1>4, <2>2 DEF OperationSound
<1>5. CASE /\ ~(op[o].action = "revoke" /\ k = op[o].target)
           /\ ~(op[o].action # "revoke" /\ k = op[o].target)
           /\ ~(op[o].action # "revoke" /\ k = op[o].prior)
    <2>1. View(o, k) = key[k]
        BY <1>5 DEF View
    <2>. QED  BY <1>1, <1>5, <2>1 DEF KeySound
<1>. QED  BY <1>2, <1>3, <1>4, <1>5

LEMMA Publishes ==
    ASSUME SigningInv, NEW o \in Operators
    PROVE  /\ WriteVersion(o) => SigningInv'
           /\ OpenTemporary(o) => SigningInv'
           /\ WriteTemporary(o) => SigningInv'
<1>0. /\ op[o] \in Operation /\ OperationSound(op[o]) /\ op \in [Operators -> Operation]
      /\ rowLock \in [Keys -> Operators \cup {NoOperator}] /\ now \in Nat
      /\ current \in File /\ temporary \in File /\ versioned \subseteq Keys
      /\ op[o].step \in Flushed =>
             /\ op[o].target \in Keys
             /\ rowLock[op[o].target] = o
             /\ op[o].prior \in Keys => rowLock[op[o].prior] = o
    BY CounterSigningAssumption
       DEF SigningInv, TypeOK, OperationSound, RowsLocked, Flushed, CounterSigningAssumption
<1>1. ASSUME WriteVersion(o)  PROVE SigningInv'
    <2>0. op[o].step = "version" /\ op[o].step \in Flushed
        BY <1>1 DEF WriteVersion, Flushed
    <2>1. PICK d : d = [k \in Keys |-> View(o, k)]
        OBVIOUS
    <2>2. d \in Document /\ \A k \in Keys : Certain(k, d[k].revoked)
        BY <2>0, <2>1, ViewSound DEF Document
    <2>3. d[op[o].target].status # "none"
        BY <1>0, <2>0, <2>1, ViewSound
    <2>4. PICK q : q = [op[o] EXCEPT !.step = "open", !.document = d]
        OBVIOUS
    <2>5. /\ q \in Operation /\ q.step = "open" /\ q.target = op[o].target
          /\ q.prior = op[o].prior /\ q.row = op[o].row /\ q.action = op[o].action
          /\ q.document = d /\ q.at = op[o].at
        BY <1>0, <2>2, <2>4 DEF Operation
    <2>6. /\ op' = [op EXCEPT ![o] = q]
          /\ versioned' = versioned \cup {k \in Keys : d[k].status # "none"}
          /\ UNCHANGED <<key, rowLock, completed, provider, current, temporary, signing, signatures, now>>
        BY <1>0, <1>1, <2>1, <2>4 DEF WriteVersion, db
    <2>7. Grows
        BY <1>0, <2>6 DEF Grows
    <2>8. q.target \in versioned'
        BY <1>0, <2>0, <2>3, <2>5, <2>6
    <2>9. OperationSound(q)'
        <3>1. PICK w \in Operation : w = op[o]
            BY <1>0
        <3>2. OperationSound(w)'
            BY <1>0, <2>6, <2>7, <3>1, OperationGrows DEF OperationSound
        <3>3. \A k \in Keys : Certain(k, d[k].revoked)'
            BY <2>2, <2>7, CertainGrows
        <3>. QED  BY <2>0, <2>5, <2>8, <3>1, <3>2, <3>3 DEF OperationSound, Flushed, Listed
    <2>10. \A k \in Keys : /\ Certain(k, current.document[k].revoked)'
                           /\ Certain(k, temporary.document[k].revoked)'
        BY <2>6, <2>7, FilesGrow DEF SigningInv
    <2>11. TypeOK'
        BY <2>5, <2>6 DEF SigningInv, TypeOK
    <2>12. Turn(o, q)
        BY <1>0, <2>0, <2>5, <2>6, <2>7, <2>9, <2>10, <2>11 DEF Turn
    <2>. QED  BY <2>5, <2>12, TurnStep
<1>2. ASSUME NEW q \in Operation, op[o].step \in Listed, q.step \in Listed,
             q.target = op[o].target, q.prior = op[o].prior, q.row = op[o].row,
             q.action = op[o].action, q.document = op[o].document, q.at = op[o].at,
             op' = [op EXCEPT ![o] = q], current' \in File, temporary' \in File,
             current' = current \/ current'.document = op[o].document,
             temporary' = temporary \/ temporary'.document \in {op[o].document, Empty},
             UNCHANGED <<key, rowLock, completed, provider, versioned, signing, signatures, now>>
      PROVE  SigningInv'
    <2>1. Grows
        BY <1>0, <1>2 DEF Grows
    <2>2. OperationSound(q)
        BY <1>0, <1>2 DEF OperationSound, Flushed, Listed
    <2>3. OperationSound(q)'
        BY <1>2, <2>1, <2>2, OperationGrows DEF OperationSound
    <2>4. ASSUME NEW k \in Keys
          PROVE  /\ Certain(k, current.document[k].revoked)'
                 /\ Certain(k, temporary.document[k].revoked)'
        BY <1>0, <1>2, Types DEF SigningInv, KeySound, OperationSound, Certain
    <2>5. TypeOK'
        BY <1>2 DEF SigningInv, TypeOK
    <2>6. Turn(o, q)
        BY <1>0, <1>2, <2>1, <2>3, <2>4, <2>5 DEF Turn, Flushed, Listed
    <2>. QED  BY <2>6, TurnStep
<1>3. ASSUME OpenTemporary(o)  PROVE SigningInv'
    <2>1. PICK q : q = [op[o] EXCEPT !.step = "write", !.handle = "temporary"]
        OBVIOUS
    <2>2. /\ q \in Operation /\ q.step = "write" /\ q.target = op[o].target
          /\ q.prior = op[o].prior /\ q.row = op[o].row /\ q.action = op[o].action
          /\ q.document = op[o].document /\ q.at = op[o].at
        BY <1>0, <2>1 DEF Operation
    <2>3. /\ op' = [op EXCEPT ![o] = q] /\ op[o].step = "open"
          /\ current' = current /\ temporary' = Partial
          /\ UNCHANGED <<key, rowLock, completed, provider, versioned, signing, signatures, now>>
        BY <1>0, <1>3, <2>1 DEF OpenTemporary, db
    <2>. QED  BY <1>0, <1>2, <2>2, <2>3, Types DEF Listed
<1>4. ASSUME WriteTemporary(o)  PROVE SigningInv'
    <2>1. PICK q : q = [op[o] EXCEPT !.step = "replace"]
        OBVIOUS
    <2>2. /\ q \in Operation /\ q.step = "replace" /\ q.target = op[o].target
          /\ q.prior = op[o].prior /\ q.row = op[o].row /\ q.action = op[o].action
          /\ q.document = op[o].document /\ q.at = op[o].at
        BY <1>0, <2>1 DEF Operation
    <2>3. /\ op' = [op EXCEPT ![o] = q] /\ op[o].step = "write"
          /\ current' \in {current, Whole(op[o].document)}
          /\ temporary' \in {temporary, Whole(op[o].document)}
          /\ UNCHANGED <<key, rowLock, completed, provider, versioned, signing, signatures, now>>
        BY <1>0, <1>4, <2>1 DEF WriteTemporary, Moves, db
    <2>4. op[o].document \in Document
        BY <1>0, OperationType
    <2>. QED  BY <1>0, <1>2, <2>2, <2>3, <2>4, Types DEF Listed
<1>. QED  BY <1>1, <1>3, <1>4

LEMMA Unlocked ==
    ASSUME SigningInv, NEW o \in Operators, Unlocks(o)
    PROVE  /\ rowLock' \in [Keys -> Operators \cup {NoOperator}]
           /\ \A k \in Keys : rowLock'[k] = rowLock[k] \/ rowLock[k] \in {o, NoOperator}
    BY DEF SigningInv, TypeOK, Unlocks

LEMMA FailureStep ==
    ASSUME SigningInv, NEW o \in Operators, FailLifecycle(o)
    PROVE  SigningInv'
<1>1. /\ op' = [op EXCEPT ![o] = Idle]
      /\ UNCHANGED <<key, completed, current, temporary, versioned, signing, signatures, now>>
      /\ now \in Nat
    BY CounterSigningAssumption
       DEF FailLifecycle, Ends, files, SigningInv, TypeOK, CounterSigningAssumption
<1>2. /\ provider' \in [Keys -> {"absent", "enabled", "disabled"}]
      /\ \A k \in Keys : provider[k] = "disabled" => provider'[k] = "disabled"
    BY DEF FailLifecycle, SigningInv, TypeOK
<1>3. Grows
    BY <1>1, <1>2 DEF Grows
<1>4. \A k \in Keys : /\ Certain(k, current.document[k].revoked)'
                      /\ Certain(k, temporary.document[k].revoked)'
    BY <1>1, <1>3, FilesGrow DEF SigningInv
<1>5. /\ rowLock' \in [Keys -> Operators \cup {NoOperator}]
      /\ \A k \in Keys : rowLock'[k] = rowLock[k] \/ rowLock[k] \in {o, NoOperator}
    BY Unlocked DEF FailLifecycle
<1>6. TypeOK'
    BY <1>1, <1>2, <1>5, IdleType DEF SigningInv, TypeOK
<1>7. OperationSound(Idle)'
    BY IdleType, Types DEF OperationSound, Flushed, Listed, Certain
<1>8. PICK q \in Operation : q = Idle
    BY IdleType
<1>9. Turn(o, q)
    <2>1. OperationSound(q)'
        BY <1>7, <1>8 DEF OperationSound
    <2>2. q.step \notin Flushed
        BY <1>8, IdleType DEF Flushed
    <2>. QED  BY <1>1, <1>3, <1>4, <1>5, <1>6, <1>8, <2>1, <2>2 DEF Turn
<1>. QED  BY <1>9, TurnStep

LEMMA ReplaceStep ==
    ASSUME SigningInv, NEW o \in Operators, ReplaceCurrent(o)
    PROVE  SigningInv'
<1>1. /\ UNCHANGED <<key, rowLock, completed, provider, versioned, signing, signatures, now>>
      /\ current' = temporary /\ temporary' = Absent /\ op[o].step = "replace"
    BY DEF ReplaceCurrent, db
<1>0. now \in Nat
    BY CounterSigningAssumption DEF SigningInv, TypeOK, CounterSigningAssumption
<1>2. ASSUME NEW p \in Operators
      PROVE  /\ op'[p] \in Operation
             /\ op'[p].step = IF p = o THEN "commit" ELSE op[p].step
             /\ op'[p].target = op[p].target /\ op'[p].prior = op[p].prior
             /\ op'[p].row = op[p].row /\ op'[p].action = op[p].action
             /\ op'[p].document = op[p].document /\ op'[p].at = op[p].at
    <2>1. op[p] \in Operation
        BY DEF SigningInv, TypeOK
    <2>2. PICK h \in {"closed", "temporary", "current", "unlinked"},
               step \in {"commit", op[p].step} :
             /\ op'[p] = [op[p] EXCEPT !.step = step, !.handle = h]
             /\ step = IF p = o THEN "commit" ELSE op[p].step
        <3>. DEFINE st == IF p = o THEN "commit" ELSE op[p].step
                    hd == CASE p = o -> "closed"
                            [] p # o /\ op[p].handle = "temporary" -> "current"
                            [] p # o /\ op[p].handle = "current" -> "unlinked"
                            [] OTHER -> op[p].handle
        <3>1. op'[p] = [op[p] EXCEPT !.step = st, !.handle = hd]
            BY <2>1 DEF ReplaceCurrent, Operation
        <3>2. hd \in {"closed", "temporary", "current", "unlinked"}
            BY <2>1, OperationType
        <3>3. st \in {"commit", op[p].step}
            OBVIOUS
        <3>. HIDE DEF hd
        <3>. QED  BY <3>1, <3>2, <3>3
    <2>. QED  BY <2>1, <2>2 DEF Operation
<1>3. TypeOK'
    <2>1. op' \in [Operators -> Operation]
        BY <1>2 DEF ReplaceCurrent
    <2>. QED  BY <1>1, <2>1, Types DEF SigningInv, TypeOK
<1>4. Grows
    BY <1>0, <1>1 DEF Grows
<1>5. ASSUME NEW k \in Keys  PROVE KeySound(k)'
    BY <1>1, Types DEF SigningInv, KeySound, Certain
<1>6. ASSUME NEW p \in Operators  PROVE OperationSound(op[p])'
    <2>1. PICK w \in Operation, v \in Operation : w = op[p] /\ v = op'[p]
        BY <1>2 DEF SigningInv, TypeOK
    <2>2. OperationSound(w) /\ (p = o => w.step = "replace")
        BY <1>1, <2>1 DEF SigningInv
    <2>3. OperationSound(w)'
        BY <1>1, <1>4, <2>2, OperationGrows DEF OperationSound
    <2>4. /\ v.step = IF p = o THEN "commit" ELSE w.step
          /\ v.target = w.target /\ v.prior = w.prior
          /\ v.row = w.row /\ v.action = w.action
          /\ v.document = w.document /\ v.at = w.at
        BY <1>2, <2>1
    <2>5. OperationSound(v)'
        BY <2>2, <2>3, <2>4 DEF OperationSound, Flushed, Listed
    <2>. QED  BY <2>1, <2>5 DEF OperationSound
<1>7. RowsLocked'
    BY <1>1, <1>2 DEF SigningInv, RowsLocked, Flushed
<1>8. StampsKept'
    BY <1>1 DEF SigningInv, StampsKept
<1>. QED  BY <1>1, <1>3, <1>4, <1>5, <1>6, <1>7, <1>8, SigningGrows DEF SigningInv

\* What COMMIT leaves of each row.
LEMMA RowAfterSound ==
    ASSUME SigningInv, NEW o \in Operators, op[o].step = "commit", NEW k \in Keys
    PROVE  /\ RowAfter(o, k) \in CounterSigningKey
           /\ Certain(k, RowAfter(o, k).revoked)
           /\ RowAfter(o, k).status = "none" => RowAfter(o, k).revoked = 0
           /\ RowAfter(o, k).status # "none" => k \in versioned
           /\ key[k].revoked # 0 => RowAfter(o, k).revoked # 0
           /\ op[o].action = "revoke" /\ k = op[o].target => RowAfter(o, k).revoked # 0
           /\ k \notin {op[o].target, op[o].prior} => RowAfter(o, k) = key[k]
<1>1. /\ op[o] \in Operation /\ OperationSound(op[o])
      /\ key[k] \in CounterSigningKey /\ KeySound(k)
      /\ op[o].step \in Flushed /\ op[o].step \in Listed
    BY DocumentType DEF SigningInv, TypeOK, Flushed, Listed
<1>2. CASE op[o].action = "rotate" /\ k = op[o].prior
    <2>1. RowAfter(o, k) = [key[k] EXCEPT !.status = "retired"]
        BY <1>1, <1>2 DEF RowAfter, OperationSound
    <2>2. /\ RowAfter(o, k) \in CounterSigningKey /\ RowAfter(o, k).revoked = key[k].revoked
          /\ RowAfter(o, k).status = "retired"
        BY <1>1, <2>1 DEF CounterSigningKey, CounterSigningKeyStatus
    <2>. QED  BY <1>1, <1>2, <2>2 DEF OperationSound, KeySound
<1>3. CASE k = op[o].target
    <2>1. RowAfter(o, k) = View(o, k) /\ k # op[o].prior
        BY <1>1, <1>3 DEF RowAfter, OperationSound
    <2>2. /\ View(o, k) \in CounterSigningKey /\ Certain(k, View(o, k).revoked)
          /\ View(o, k).status # "none"
        BY <1>1, <1>3, ViewSound
    <2>3. k \in versioned
        BY <1>1, <1>3 DEF OperationSound
    <2>4. op[o].action = "revoke" => View(o, k).revoked = op[o].at /\ op[o].at # 0
        BY <1>1, <1>3 DEF View, OperationSound
    <2>5. op[o].action # "revoke" => key[k].revoked = 0
        BY <1>1, <1>3 DEF OperationSound, KeySound
    <2>. QED  BY <1>3, <2>1, <2>2, <2>3, <2>4, <2>5
<1>4. CASE k # op[o].target /\ ~(op[o].action = "rotate" /\ k = op[o].prior)
    <2>1. RowAfter(o, k) = key[k]
        BY <1>4 DEF RowAfter
    <2>. QED  BY <1>1, <1>4, <2>1 DEF KeySound
<1>. QED  BY <1>2, <1>3, <1>4

LEMMA CommitStep ==
    ASSUME SigningInv, NEW o \in Operators, CommitLifecycle(o)
    PROVE  SigningInv'
<1>1. /\ op' = [op EXCEPT ![o] = Idle] /\ op[o].step = "commit"
      /\ UNCHANGED <<current, temporary, versioned, provider, signing, signatures, now>>
      /\ key' = [k \in Keys |-> RowAfter(o, k)]
      /\ completed' = completed \cup {[action |-> op[o].action, key |-> op[o].target]}
    BY DEF CommitLifecycle, Ends, files
<1>2. /\ rowLock' \in [Keys -> Operators \cup {NoOperator}]
      /\ \A k \in Keys : rowLock'[k] = rowLock[k] \/ rowLock[k] \in {o, NoOperator}
    BY Unlocked DEF CommitLifecycle
<1>3. /\ now \in Nat /\ op[o] \in Operation /\ OperationSound(op[o])
      /\ op[o].target \in Keys /\ op[o].action \in CounterSigningLifecycleAction
      /\ rowLock[op[o].target] = o
      /\ op[o].prior \in Keys => rowLock[op[o].prior] = o
    BY <1>1, CounterSigningAssumption, OperationType
       DEF SigningInv, TypeOK, OperationSound, RowsLocked, Flushed, CounterSigningAssumption,
           CounterSigningLifecycleAction
<1>4. TypeOK'
    <2>1. key' \in Document
        BY <1>1, RowAfterSound DEF Document
    <2>. QED  BY <1>1, <1>2, <1>3, <2>1, IdleType DEF SigningInv, TypeOK
<1>5. Grows
    BY <1>1, <1>3 DEF Grows
<1>6. ASSUME NEW k \in Keys  PROVE KeySound(k)'
    <2>1. PICK row : row = RowAfter(o, k)
        OBVIOUS
    <2>2. /\ key'[k] = row /\ Certain(k, row.revoked)
          /\ row.status = "none" => row.revoked = 0
          /\ row.status # "none" => k \in versioned
        BY <1>1, <2>1, RowAfterSound
    <2>3. Certain(k, row.revoked)'
        BY <1>5, <2>2, CertainGrows
    <2>. QED  BY <1>1, <1>5, <2>2, <2>3, FilesGrow DEF KeySound, SigningInv
<1>7. \A p \in Operators : op'[p] = IF p = o THEN Idle ELSE op[p]
    BY <1>1 DEF SigningInv, TypeOK
<1>8. ASSUME NEW p \in Operators, p # o, op[p].step \in Flushed
      PROVE  /\ op[p].target \in Keys /\ rowLock[op[p].target] = p
             /\ op[p].prior \in Keys => rowLock[op[p].prior] = p
             /\ key'[op[p].target] = key[op[p].target]
    <2>1. /\ op[p].target \in Keys /\ rowLock[op[p].target] = p
          /\ op[p].prior \in Keys => rowLock[op[p].prior] = p
        BY <1>8 DEF SigningInv, OperationSound, RowsLocked, Flushed
    <2>2. op[p].target \notin {op[o].target, op[o].prior}
        BY <1>3, <1>8, <2>1
    <2>. QED  BY <1>1, <2>1, <2>2, RowAfterSound
<1>9. ASSUME NEW p \in Operators  PROVE OperationSound(op[p])'
    <2>1. CASE p = o
        <3>1. op'[p] = Idle
            BY <1>7, <2>1
        <3>. QED  BY <3>1, IdleType, Types DEF OperationSound, Flushed, Listed, Certain
    <2>2. CASE p # o
        <3>1. PICK w \in Operation : w = op[p] /\ OperationSound(w)
            BY DEF SigningInv, TypeOK
        <3>2. w.step \in Flushed /\ w.action # "revoke" => key'[w.target].status = "none"
            BY <1>8, <2>2, <3>1 DEF OperationSound
        <3>3. OperationSound(w)'
            BY <1>5, <3>1, <3>2, OperationGrows
        <3>. QED  BY <1>7, <2>2, <3>1, <3>3 DEF OperationSound
    <2>. QED  BY <2>1, <2>2
<1>10. RowsLocked'
    <2>. SUFFICES ASSUME NEW p \in Operators, op'[p].step \in Flushed
                  PROVE  /\ rowLock'[op'[p].target] = p
                         /\ op'[p].prior \in Keys => rowLock'[op'[p].prior] = p
        BY DEF RowsLocked
    <2>1. p # o /\ op'[p] = op[p]
        BY <1>7, IdleType DEF Flushed
    <2>. QED  BY <1>2, <1>8, <2>1, IdleType
<1>11. StampsKept'
    <2>. SUFFICES ASSUME NEW r \in completed', r.action = "revoke"
                  PROVE  key'[r.key].revoked # 0
        BY DEF StampsKept
    <2>1. CASE r \in completed
        <3>1. r.key \in Keys /\ key[r.key].revoked # 0
            BY <2>1 DEF SigningInv, TypeOK, StampsKept
        <3>. QED  BY <1>1, <3>1, RowAfterSound
    <2>2. CASE r = [action |-> op[o].action, key |-> op[o].target]
        BY <1>1, <1>3, <2>2, RowAfterSound
    <2>. QED  BY <1>1, <2>1, <2>2
<1>. QED  BY <1>1, <1>4, <1>5, <1>6, <1>9, <1>10, <1>11, SigningGrows DEF SigningInv

-----------------------------------------------------------------------------
(* Signing *)

\* Signer g moves to state w.
SignerTurn(g, w) ==
    /\ UNCHANGED <<key, rowLock, completed, current, temporary, versioned, provider, op, now>>
    /\ signing' = [signing EXCEPT ![g] = w]
    /\ SigningSound(w)
    /\ signatures' \subseteq [key : Keys, at : Nat]
    /\ \A x \in signatures' : x \in signatures \/ provider[x.key] = "enabled"
    /\ \A x \in signatures' : SignatureSound(x)

LEMMA SignerStep ==
    ASSUME SigningInv, NEW g \in Signers, NEW w \in Signing, SignerTurn(g, w)
    PROVE  SigningInv'
<1>. USE DEF SignerTurn
<1>1. TypeOK'
    BY DEF SigningInv, TypeOK
<1>2. Grows
    BY CounterSigningAssumption DEF Grows, SigningInv, TypeOK, CounterSigningAssumption
<1>3. ASSUME NEW k \in Keys  PROVE KeySound(k)'
    BY <1>2, FilesGrow, KeyGrows DEF SigningInv
<1>4. ASSUME NEW p \in Operators  PROVE OperationSound(op[p])'
    <2>1. PICK q \in Operation : q = op[p] /\ OperationSound(q)
        BY DEF SigningInv, TypeOK
    <2>2. OperationSound(q)'
        BY <1>2, <2>1, OperationGrows DEF OperationSound
    <2>. QED  BY <2>1, <2>2 DEF OperationSound
<1>5. ASSUME NEW h \in Signers  PROVE SigningSound(signing[h])'
    BY DEF SigningInv, TypeOK, SigningSound
<1>6. \A x \in signatures' : SignatureSound(x)'
    BY DEF SignatureSound
<1>7. RowsLocked' /\ StampsKept'
    BY DEF SigningInv, RowsLocked, StampsKept
<1>. QED  BY <1>1, <1>3, <1>4, <1>5, <1>6, <1>7 DEF SigningInv

LEMMA Signs ==
    ASSUME SigningInv, NEW g \in Signers, Sign(g)
    PROVE  SigningInv'
<1>0. /\ signing[g] \in Signing /\ SigningSound(signing[g]) /\ signing \in [Signers -> Signing]
      /\ now \in Nat /\ signatures \subseteq [key : Keys, at : Nat]
      /\ \A x \in signatures : SignatureSound(x)
    BY CounterSigningAssumption DEF SigningInv, TypeOK, CounterSigningAssumption
<1>1. CASE SelectActive(g)
    <2>1. PICK k \in Active :
             signing' = [signing EXCEPT ![g] = [NotSigning EXCEPT !.step = "statement", !.key = k]]
        BY <1>1 DEF SelectActive
    <2>2. PICK w : w = [NotSigning EXCEPT !.step = "statement", !.key = k]
        OBVIOUS
    <2>3. k \in Keys /\ k \in versioned
        BY DEF Active, SigningInv, KeySound
    <2>4. w \in Signing /\ SigningSound(w)
        <3>1. w = [step |-> "statement", key |-> k, at |-> 0]
            BY <2>2 DEF NotSigning
        <3>. QED  BY <1>0, <2>3, <3>1 DEF Signing, SigningSound
    <2>5. SignerTurn(g, w)
        BY <1>0, <1>1, <2>1, <2>2, <2>4 DEF SignerTurn, SelectActive, db, files
    <2>. QED  BY <2>4, <2>5, SignerStep
<1>2. CASE BuildStatement(g)
    <2>1. PICK w : w = [signing[g] EXCEPT !.step = "sign", !.at = now]
        OBVIOUS
    <2>2. w \in Signing /\ SigningSound(w)
        <3>1. w = [step |-> "sign", key |-> signing[g].key, at |-> now]
            BY <1>0, <2>1 DEF Signing
        <3>2. signing[g].key \in versioned /\ signing[g].key \in Keys
            BY <1>0, <1>2 DEF SigningSound, BuildStatement
        <3>. QED  BY <1>0, <3>1, <3>2 DEF Signing, SigningSound
    <2>3. SignerTurn(g, w)
        BY <1>0, <1>2, <2>1, <2>2 DEF SignerTurn, BuildStatement, db, files
    <2>. QED  BY <2>2, <2>3, SignerStep
<1>3. NotSigning \in Signing /\ SigningSound(NotSigning)
    BY <1>0, Types DEF SigningSound
<1>4. CASE ProviderSigns(g)
    <2>1. /\ signing[g].key \in Keys /\ signing[g].key \in versioned
          /\ signing[g].at <= now /\ signing[g].at \in Nat
        BY <1>0, <1>4 DEF ProviderSigns, SigningSound, Signing
    <2>2. SignatureSound([key |-> signing[g].key, at |-> signing[g].at])
        BY <2>1 DEF SignatureSound
    <2>3. /\ signatures' = signatures \cup {[key |-> signing[g].key, at |-> signing[g].at]}
          /\ provider[signing[g].key] = "enabled"
          /\ signing' = [signing EXCEPT ![g] = NotSigning]
          /\ UNCHANGED <<key, rowLock, completed, current, temporary, versioned, provider, op, now>>
        BY <1>4 DEF ProviderSigns, db, files
    <2>4. /\ signatures' \subseteq [key : Keys, at : Nat]
          /\ \A x \in signatures' : x \in signatures \/ provider[x.key] = "enabled"
          /\ \A x \in signatures' : SignatureSound(x)
        BY <1>0, <2>1, <2>2, <2>3
    <2>5. SignerTurn(g, NotSigning)
        BY <1>3, <2>3, <2>4 DEF SignerTurn
    <2>. QED  BY <1>3, <2>5, SignerStep
<1>5. CASE SigningFails(g)
    <2>1. SignerTurn(g, NotSigning)
        BY <1>0, <1>3, <1>5 DEF SignerTurn, SigningFails, db, files
    <2>. QED  BY <1>3, <2>1, SignerStep
<1>. QED  BY <1>1, <1>2, <1>4, <1>5 DEF Sign

-----------------------------------------------------------------------------
(* The invariant *)

\* The clock moves, or nothing does.
LEMMA Passes ==
    ASSUME SigningInv, Tick \/ UNCHANGED vars
    PROVE  SigningInv'
<1>1. /\ UNCHANGED <<key, rowLock, completed, current, temporary, versioned, provider, op,
                     signing, signatures>>
      /\ now \in 1..MaxTime /\ now' \in 1..MaxTime /\ now <= now'
    BY CounterSigningAssumption
       DEF Tick, vars, db, files, SigningInv, TypeOK, CounterSigningAssumption
<1>2. TypeOK'
    BY <1>1 DEF SigningInv, TypeOK
<1>3. Grows
    BY <1>1, CounterSigningAssumption DEF Grows, CounterSigningAssumption
<1>4. ASSUME NEW k \in Keys  PROVE KeySound(k)'
    BY <1>1, <1>3, FilesGrow, KeyGrows DEF SigningInv
<1>5. ASSUME NEW p \in Operators  PROVE OperationSound(op[p])'
    <2>1. PICK q \in Operation : q = op[p] /\ OperationSound(q)
        BY DEF SigningInv, TypeOK
    <2>2. OperationSound(q)'
        BY <1>1, <1>3, <2>1, OperationGrows DEF OperationSound
    <2>. QED  BY <1>1, <2>1, <2>2 DEF OperationSound
<1>6. RowsLocked' /\ StampsKept'
    BY <1>1 DEF SigningInv, RowsLocked, StampsKept
<1>. QED  BY <1>1, <1>2, <1>3, <1>4, <1>5, <1>6, SigningGrows DEF SigningInv

LEMMA Initially == Init => SigningInv
<1>. SUFFICES ASSUME Init  PROVE SigningInv
    OBVIOUS
<1>1. TypeOK
    BY Types, IdleType, CounterSigningAssumption DEF Init, TypeOK, CounterSigningAssumption
<1>2. ASSUME NEW k \in Keys  PROVE KeySound(k)
    BY Types DEF Init, KeySound, Certain, Empty, NoRow
<1>3. ASSUME NEW o \in Operators  PROVE OperationSound(op[o])
    BY IdleType, Types DEF Init, OperationSound, Flushed, Listed, Certain
<1>4. RowsLocked
    BY IdleType DEF Init, RowsLocked, Flushed
<1>5. ASSUME NEW g \in Signers  PROVE SigningSound(signing[g])
    BY Types DEF Init, SigningSound
<1>. QED  BY <1>1, <1>2, <1>3, <1>4, <1>5 DEF SigningInv, Init, StampsKept

LEMMA Inductive == SigningInv /\ [Next]_vars => SigningInv'
<1>. SUFFICES ASSUME SigningInv, [Next]_vars  PROVE SigningInv'
    OBVIOUS
<1>1. ASSUME NEW o \in Operators, Lifecycle(o)  PROVE SigningInv'
    BY <1>1, Loads, ProviderCalls, Flushes, Publishes, ReplaceStep, CommitStep, FailureStep
       DEF Lifecycle
<1>. QED  BY <1>1, Signs, Passes DEF Next

LEMMA Invariant == Spec => []SigningInv
    BY Initially, Inductive, PTL DEF Spec

-----------------------------------------------------------------------------
(* The theorems *)

\* revoke_key disables the key at the provider before the database or the
\* published key set says that it is revoked, whatever else runs or fails.
THEOREM RevokedDisabled == Spec => []RevokedIsDisabled
<1>1. SigningInv => RevokedIsDisabled
    BY DEF SigningInv, RevokedIsDisabled, KeySound, Certain
<1>. QED  BY <1>1, Invariant, PTL

\* signed_at is read before the provider signs and revoked_at after it stopped:
\* relying parties may go by revoked_at.
THEOREM SignaturesPrecede == Spec => []SignaturesPrecedeRevocation
<1>1. SigningInv => SignaturesPrecedeRevocation
    <2>. SUFFICES ASSUME SigningInv, NEW x \in signatures
                  PROVE  /\ key[x.key].revoked # 0 => x.at <= key[x.key].revoked
                         /\ current.document[x.key].revoked # 0 =>
                                x.at <= current.document[x.key].revoked
        BY DEF SignaturesPrecedeRevocation
    <2>1. x.key \in Keys /\ KeySound(x.key)
        BY DEF SigningInv, TypeOK
    <2>. QED  BY <2>1 DEF KeySound, Certain
<1>. QED  BY <1>1, Invariant, PTL

\* No key signs before key_set_publisher wrote a version that lists it.
THEOREM SignerPublished == Spec => []SignerWasPublished
<1>1. SigningInv => SignerWasPublished
    BY DEF SigningInv, SignerWasPublished, SignatureSound
<1>. QED  BY <1>1, Invariant, PTL

\* The commit of a rotation, or of another operation that had loaded the key
\* before its revocation completed, takes neither revoked_at from the row nor
\* makes the provider sign again.  It does overwrite the status and the current
\* key set.
THEOREM RevokedAtKept == Spec => []RevokedAtIsKept
<1>1. SigningInv => RevokedAtIsKept
    <2>. SUFFICES ASSUME SigningInv, NEW r \in completed, r.action = "revoke"
                  PROVE  key[r.key].revoked # 0 /\ provider[r.key] = "disabled"
        BY DEF RevokedAtIsKept
    <2>1. key[r.key].revoked # 0
        BY DEF SigningInv, StampsKept
    <2>2. r.key \in Keys /\ KeySound(r.key)
        BY DEF SigningInv, TypeOK
    <2>. QED  BY <2>1, <2>2 DEF KeySound, Certain
<1>. QED  BY <1>1, Invariant, PTL
=============================================================================
