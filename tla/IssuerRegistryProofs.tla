------------------------- MODULE IssuerRegistryProofs --------------------------
(***************************************************************************)
(* Proofs about IssuerRegistry, for any sets of issuers, sessions and      *)
(* publications, any artifact lifetime and any bounds.                     *)
(***************************************************************************)
EXTENDS IssuerRegistry, FiniteSetTheorems, TLAPS

-----------------------------------------------------------------------------
(* The inductive invariant *)

Holding == {"stamp", "commit", "check", "select", "answer"}
Publishing == {"issue", "sign", "relock", "check"}

\* What a session in flight may rely on: while it holds the lock its copy of the
\* record is current, and the publication it requested is its own to settle.
Sound(q) ==
    /\ q.step # "idle" => q.issuer \in Issuers
    /\ q.at <= now
    /\ q.step \in Holding => q.row = issuer[q.issuer] /\ q.row # Unregistered
    /\ q.step \in {"stamp", "commit"} => /\ q.target \in IssuerStanding
                                         /\ q.row.standing # "revoked"
    /\ q.step = "commit" =>
        /\ \A n \in Changes(q.issuer) : audit[q.issuer][n].at <= q.at
        /\ \A p \in Publications :
              publication[p].status = "completed" /\ publication[p].issuer = q.issuer
                => publication[p].expires <= q.at + TTL
    /\ q.step \in Publishing => /\ q.publication \in Publications
                                /\ publication[q.publication].status = "requested"
                                /\ publication[q.publication].issuer = q.issuer
    /\ q.step = "answer" => /\ q.publication \in Publications
                            /\ publication[q.publication].status = "completed"
                            /\ publication[q.publication].issuer = q.issuer
                            /\ publication[q.publication].version = q.row.version
                            /\ q.at < publication[q.publication].expires

HoldersLock ==
    \A s \in Sessions : session[s].step \in Holding => lock[session[s].issuer] = s

OnePublisher ==
    \A s, z \in Sessions :
        /\ session[s].step \in Publishing /\ session[z].step \in Publishing
        /\ session[s].publication = session[z].publication
        => s = z

\* A publication is of a version the issuer had, and of no other standing than
\* that version's.
PublicationSound(p) ==
    publication[p].status # "none" =>
        /\ publication[p].version <= issuer[publication[p].issuer].version
        /\ publication[p].version = issuer[publication[p].issuer].version
             => publication[p].standing = issuer[publication[p].issuer].standing
        /\ publication[p].expires <= now + TTL

\* The version counts the changes, and no event is ahead of it.
AuditSound(i) ==
    /\ issuer[i].version = Cardinality(Changes(i))
    /\ Changes(i) # {} =>
         \E n \in Changes(i) : /\ \A m \in Changes(i) : m <= n
                               /\ issuer[i] = audit[i][n].resulting
    /\ \A n \in Changes(i) : /\ audit[i][n].resulting.version <= issuer[i].version
                             /\ audit[i][n].at <= now
    /\ \A n \in DOMAIN audit[i] : audit[i][n].type = "published" =>
         audit[i][n].resulting.version <= issuer[i].version

RegistryInv ==
    /\ TypeOK
    /\ \A s \in Sessions : Sound(session[s])
    /\ HoldersLock
    /\ OnePublisher
    /\ \A p \in Publications : PublicationSound(p)
    /\ \A i \in Issuers : AuditSound(i)
    /\ AuditExplainsRecord
    /\ PublishedInItsVersion
    /\ EarlierStandingExpires

\* The part of the invariant that speaks of the tables and the clock only.
TablesSound ==
    /\ \A p \in Publications : PublicationSound(p)
    /\ \A i \in Issuers : AuditSound(i)
    /\ AuditExplainsRecord
    /\ PublishedInItsVersion
    /\ EarlierStandingExpires

-----------------------------------------------------------------------------
(* Types *)

LEMMA RowType ==
    ASSUME NEW r \in IssuerRegistryRecord
    PROVE  /\ r.version \in Nat
           /\ r.standing \in IssuerStanding \cup {"none"}
           /\ r # Unregistered => r.version \in Nat \ {0} /\ r.standing \in IssuerStanding
           /\ r = [standing |-> r.standing, version |-> r.version]
           /\ r = Unregistered => r.version = 0 /\ r.standing = "none"
    BY DEF IssuerRegistryRecord, Unregistered, IssuerStanding

LEMMA PublicationType ==
    ASSUME NEW r \in IssuerStatusPublicationRecord
    PROVE  /\ r.version \in Nat /\ r.expires \in Nat /\ r.completed \in Nat /\ r.issued \in Nat
           /\ r.status \in {"none", "requested", "completed", "failed"}
           /\ r.status # "none" => /\ r.issuer \in Issuers
                                   /\ r.version # 0
                                   /\ r.standing \in IssuerStanding
    BY DEF IssuerStatusPublicationRecord, NoRecord, IssuerStatusPublicationStatus

LEMMA RequestedType ==
    ASSUME NEW r \in IssuerStatusPublicationRecord, r.status = "requested"
    PROVE  r \in [status : IssuerStatusPublicationStatus, issuer : Issuers,
                  standing : IssuerStanding, version : Nat \ {0}, issued : Nat,
                  expires : Nat, completed : Nat]
    BY DEF IssuerStatusPublicationRecord, NoRecord

LEMMA IdleType == /\ Idle \in Session /\ Idle.step = "idle" /\ Idle.at = 0
                  /\ Idle.issuer = NoIssuer
    BY DEF Idle, Session, IssuerRegistryRecord, Unregistered

LEMMA SessionType ==
    ASSUME NEW q \in Session
    PROVE  /\ q.step \in {"idle", "insert", "stamp", "commit", "publish", "issue", "sign",
                          "relock", "check", "select", "answer"}
           /\ q.issuer \in Issuers \cup {NoIssuer}
           /\ q.target \in IssuerStanding \cup {"none"}
           /\ q.row \in IssuerRegistryRecord
           /\ q.publication \in Publications \cup {NoPublication}
           /\ q.at \in Nat
    BY DEF Session

-----------------------------------------------------------------------------
(* Steps that write no table *)

LEMMA TablesKept ==
    ASSUME RegistryInv, TypeOK', UNCHANGED <<issuer, publication, audit, now>>
    PROVE  TablesSound'
<1>1. \A i \in Issuers : Changes(i)' = Changes(i)
    BY DEF Changes
<1>2. ASSUME NEW p \in Publications  PROVE PublicationSound(p)'
    BY DEF RegistryInv, PublicationSound
<1>3. ASSUME NEW i \in Issuers  PROVE AuditSound(i)'
    BY <1>1 DEF RegistryInv, AuditSound
<1>4. ASSUME NEW i \in Issuers  PROVE Explained(i)'
    <2>1. \A n : Earlier(i, n)' = Earlier(i, n)
        BY <1>1 DEF Earlier
    <2>2. Explained(i)
        BY DEF RegistryInv, AuditExplainsRecord
    <2>. QED  BY <1>1, <2>1, <2>2 DEF Explained
<1>5. PublishedInItsVersion'
    BY <1>1 DEF RegistryInv, PublishedInItsVersion
<1>6. EarlierStandingExpires'
    BY DEF RegistryInv, EarlierStandingExpires, Changes
<1>. QED  BY <1>2, <1>3, <1>4, <1>5, <1>6 DEF TablesSound, AuditExplainsRecord

LEMMA SessionStep ==
    ASSUME RegistryInv, NEW s \in Sessions, NEW q \in Session, Sound(q),
           session' = [session EXCEPT ![s] = q],
           UNCHANGED <<issuer, publication, audit, now>>,
           lock' \in [Issuers -> Sessions \cup {NoSession}],
           \A i \in Issuers : lock'[i] = lock[i] \/ lock[i] \in {NoSession, s},
           q.step \in Holding => lock'[q.issuer] = s,
           q.step \in Publishing => /\ session[s].step \in Publishing
                                    /\ session[s].publication = q.publication
    PROVE  RegistryInv'
<1>1. TypeOK'
    BY DEF RegistryInv, TypeOK
<1>2. TablesSound'
    BY <1>1, TablesKept
<1>3. \A z \in Sessions : session'[z] = IF z = s THEN q ELSE session[z]
    BY DEF RegistryInv, TypeOK
<1>4. ASSUME NEW z \in Sessions  PROVE Sound(session[z])'
    BY <1>3 DEF RegistryInv, Sound, Changes
<1>5. HoldersLock'
    <2>. SUFFICES ASSUME NEW z \in Sessions, session'[z].step \in Holding
                  PROVE  lock'[session'[z].issuer] = z
        BY DEF HoldersLock
    <2>1. CASE z = s
        BY <2>1, <1>3
    <2>2. CASE z # s
        <3>1. session'[z] = session[z] /\ Sound(session[z]) /\ session[z] \in Session
            BY <1>3, <2>2 DEF RegistryInv, TypeOK
        <3>2. session[z].issuer \in Issuers /\ lock[session[z].issuer] = z
            BY <3>1 DEF Sound, Holding, RegistryInv, HoldersLock
        <3>. QED  BY <2>2, <3>1, <3>2, RegistryAssumption DEF RegistryAssumption
    <2>. QED  BY <2>1, <2>2
<1>6. OnePublisher'
    BY <1>3 DEF RegistryInv, OnePublisher
<1>. QED  BY <1>1, <1>2, <1>4, <1>5, <1>6 DEF RegistryInv, TablesSound

LEMMA EndStep ==
    ASSUME RegistryInv, NEW s \in Sessions, Ends(s), Unlocks(s),
           UNCHANGED <<issuer, publication, audit, now>>
    PROVE  RegistryInv'
<1>1. Sound(Idle)
    BY IdleType DEF Sound, Holding, Publishing, RegistryInv, TypeOK
<1>2. /\ lock' \in [Issuers -> Sessions \cup {NoSession}]
      /\ \A i \in Issuers : lock'[i] = lock[i] \/ lock[i] \in {NoSession, s}
    BY DEF Unlocks, RegistryInv, TypeOK
<1>. QED  BY <1>1, <1>2, IdleType, SessionStep DEF Ends, Holding, Publishing

-----------------------------------------------------------------------------
(* Appending to the audit *)

\* An event that is no change leaves the changes as they are.
LEMMA AppendOther ==
    ASSUME TypeOK, NEW i \in Issuers, NEW e \in IssuerRegistryAuditEvent,
           e.type \notin {"registered", "changed"}, Records(i, e)
    PROVE  /\ audit' \in [Issuers -> Seq(IssuerRegistryAuditEvent)]
           /\ \A j \in Issuers : Changes(j)' = Changes(j)
           /\ \A j \in Issuers : \A n \in DOMAIN audit[j] :
                 n \in DOMAIN audit'[j] /\ audit'[j][n] = audit[j][n]
           /\ \A j \in Issuers : \A n \in DOMAIN audit'[j] :
                 n \in DOMAIN audit[j] \/ (j = i /\ n = Len(audit[i]) + 1 /\ audit'[j][n] = e)
<1>1. audit[i] \in Seq(IssuerRegistryAuditEvent)
    BY DEF TypeOK
<1>2. audit' \in [Issuers -> Seq(IssuerRegistryAuditEvent)]
    BY <1>1 DEF TypeOK, Records
<1>3. /\ DOMAIN audit'[i] = 1..(Len(audit[i]) + 1)
      /\ DOMAIN audit[i] = 1..Len(audit[i])
      /\ Len(audit[i]) \in Nat
      /\ audit'[i][Len(audit[i]) + 1] = e
      /\ \A n \in 1..Len(audit[i]) : audit'[i][n] = audit[i][n]
    BY <1>1 DEF TypeOK, Records
<1>4. \A j \in Issuers : j # i => audit'[j] = audit[j]
    BY DEF TypeOK, Records
<1>5. ASSUME NEW j \in Issuers  PROVE Changes(j)' = Changes(j)
    BY <1>3, <1>4 DEF Changes
<1>. QED  BY <1>2, <1>3, <1>4, <1>5

\* A change is the last one, after all others.
LEMMA AppendChange ==
    ASSUME TypeOK, NEW i \in Issuers, NEW e \in IssuerRegistryAuditEvent,
           e.type \in {"registered", "changed"}, Records(i, e)
    PROVE  /\ audit' \in [Issuers -> Seq(IssuerRegistryAuditEvent)]
           /\ \A j \in Issuers : j # i => Changes(j)' = Changes(j) /\ audit'[j] = audit[j]
           /\ Len(audit[i]) \in Nat /\ DOMAIN audit[i] = 1..Len(audit[i])
           /\ DOMAIN audit'[i] = 1..(Len(audit[i]) + 1)
           /\ Changes(i)' = Changes(i) \cup {Len(audit[i]) + 1}
           /\ audit'[i][Len(audit[i]) + 1] = e
           /\ \A n \in 1..Len(audit[i]) : audit'[i][n] = audit[i][n]
<1>1. audit[i] \in Seq(IssuerRegistryAuditEvent)
    BY DEF TypeOK
<1>2. audit' \in [Issuers -> Seq(IssuerRegistryAuditEvent)]
    BY <1>1 DEF TypeOK, Records
<1>3. /\ DOMAIN audit'[i] = 1..(Len(audit[i]) + 1)
      /\ DOMAIN audit[i] = 1..Len(audit[i])
      /\ Len(audit[i]) \in Nat
      /\ audit'[i][Len(audit[i]) + 1] = e
      /\ \A n \in 1..Len(audit[i]) : audit'[i][n] = audit[i][n]
    BY <1>1 DEF TypeOK, Records
<1>4. \A j \in Issuers : j # i => audit'[j] = audit[j]
    BY DEF TypeOK, Records
<1>5. ASSUME NEW j \in Issuers, j # i  PROVE Changes(j)' = Changes(j)
    BY <1>4, <1>5 DEF Changes
<1>6. Changes(i)' = Changes(i) \cup {Len(audit[i]) + 1}
    BY <1>3 DEF Changes
<1>. QED  BY <1>2, <1>3, <1>4, <1>5, <1>6

LEMMA EventType ==
    ASSUME TypeOK, NEW i \in Issuers, NEW n \in DOMAIN audit[i]
    PROVE  /\ audit[i][n] \in IssuerRegistryAuditEvent
           /\ audit[i][n].resulting.version \in Nat /\ audit[i][n].at \in Nat
<1>1. audit[i] \in Seq(IssuerRegistryAuditEvent)
    BY DEF TypeOK
<1>2. audit[i][n] \in IssuerRegistryAuditEvent
    BY <1>1
<1>. QED  BY <1>2, RowType DEF IssuerRegistryAuditEvent

LEMMA ChangesFinite ==
    ASSUME TypeOK, NEW i \in Issuers
    PROVE  /\ IsFiniteSet(Changes(i)) /\ Cardinality(Changes(i)) \in Nat
           /\ Changes(i) \subseteq 1..Len(audit[i])
           /\ Changes(i) = {} <=> Cardinality(Changes(i)) = 0
<1>1. audit[i] \in Seq(IssuerRegistryAuditEvent)
    BY DEF TypeOK
<1>2. Changes(i) \subseteq 1..Len(audit[i]) /\ Len(audit[i]) \in Nat
    BY <1>1 DEF Changes
<1>3. IsFiniteSet(Changes(i))
    <2>1. IsFiniteSet(1..Len(audit[i]))
        BY <1>2, FS_Interval
    <2>. QED  BY <1>2, <2>1, FS_Subset
<1>. QED  BY <1>2, <1>3, FS_CardinalityType, FS_EmptySet

-----------------------------------------------------------------------------
(* A change of standing *)

\* A time after the changes of the issuer and the artifacts published for it.
StampedAfter(i, t) ==
    /\ t <= now
    /\ \A n \in Changes(i) : audit[i][n].at <= t
    /\ \A p \in Publications :
          publication[p].status = "completed" /\ publication[p].issuer = i
            => publication[p].expires <= t + TTL

\* A change that starts from the record as it is.
LEMMA ChangeTables ==
    ASSUME RegistryInv, TypeOK', NEW i \in Issuers, NEW row \in IssuerRegistryRecord,
           NEW type \in {"registered", "changed"}, NEW t \in Nat,
           row.version = issuer[i].version + 1,
           StampedAfter(i, t),
           issuer' = [issuer EXCEPT ![i] = row],
           Records(i, Event(type, issuer[i], row, t)),
           UNCHANGED <<publication, now>>
    PROVE  TablesSound'
<1>. DEFINE e == Event(type, issuer[i], row, t)
<1>0. PICK new \in Nat : new = Len(audit[i]) + 1
    <2>1. audit[i] \in Seq(IssuerRegistryAuditEvent)
        BY DEF RegistryInv, TypeOK
    <2>. QED  BY <2>1
<1>. HIDE DEF e
<1>1. /\ e \in IssuerRegistryAuditEvent /\ e.type = type /\ e.prior = issuer[i]
      /\ e.resulting = row /\ e.at = t
    BY DEF e, Event, IssuerRegistryAuditEvent, RegistryInv, TypeOK
<1>2. /\ \A j \in Issuers : j # i => Changes(j)' = Changes(j) /\ audit'[j] = audit[j]
      /\ Len(audit[i]) \in Nat /\ DOMAIN audit[i] = 1..Len(audit[i])
      /\ DOMAIN audit'[i] = 1..new
      /\ Changes(i)' = Changes(i) \cup {new}
      /\ audit'[i][new] = e
      /\ \A n \in 1..Len(audit[i]) : audit'[i][n] = audit[i][n]
    BY <1>0, <1>1, AppendChange DEF RegistryInv, e
<1>3. /\ IsFiniteSet(Changes(i)) /\ Cardinality(Changes(i)) \in Nat
      /\ Changes(i) \subseteq 1..Len(audit[i])
      /\ issuer[i].version = Cardinality(Changes(i))
    BY ChangesFinite DEF RegistryInv, AuditSound
<1>4. Cardinality(Changes(i)') = Cardinality(Changes(i)) + 1
    <2>1. new \notin Changes(i)
        BY <1>0, <1>2, <1>3
    <2>. QED  BY <2>1, <1>0, <1>2, <1>3, FS_AddElement, ZenonT(40)
<1>5. \A j \in Issuers : issuer'[j] = IF j = i THEN row ELSE issuer[j]
    BY DEF RegistryInv, TypeOK
<1>6. ASSUME NEW p \in Publications  PROVE PublicationSound(p)'
    <2>1. publication[p] \in IssuerStatusPublicationRecord /\ issuer[i] \in IssuerRegistryRecord
        BY DEF RegistryInv, TypeOK
    <2>. QED  BY <1>5, <2>1, PublicationType, RowType DEF RegistryInv, PublicationSound
<1>7. ASSUME NEW j \in Issuers  PROVE AuditSound(j)'
    <2>1. CASE j # i
        BY <2>1, <1>2, <1>5 DEF RegistryInv, AuditSound
    <2>2. CASE j = i
        <3>1. issuer'[i].version = Cardinality(Changes(i)')
            BY <1>3, <1>4, <1>5
        <3>2. new \in Changes(i)' /\ issuer'[i] = audit'[i][new].resulting
            BY <1>1, <1>2, <1>5
        <3>3. \A m \in Changes(i)' : m <= new
            BY <1>0, <1>2, <1>3
        <3>4. \A n \in Changes(i)' : /\ audit'[i][n].resulting.version <= issuer'[i].version
                                     /\ audit'[i][n].at <= now
            <4>1. ASSUME NEW n \in Changes(i)
                  PROVE  /\ audit'[i][n].resulting.version <= issuer'[i].version
                         /\ audit'[i][n].at <= now
                <5>1. audit'[i][n] = audit[i][n] /\ audit[i][n] \in IssuerRegistryAuditEvent
                    BY <1>0, <1>2, <1>3 DEF RegistryInv, TypeOK
                <5>2. audit[i][n].resulting.version \in Nat
                    BY <5>1, RowType DEF IssuerRegistryAuditEvent
                <5>3. /\ audit[i][n].resulting.version <= issuer[i].version
                      /\ audit[i][n].at <= now
                    BY DEF RegistryInv, AuditSound
                <5>. QED  BY <5>1, <5>2, <5>3, <1>5, <1>3
            <4>2. row.version <= issuer'[i].version /\ t <= now
                BY <1>5, RowType DEF StampedAfter
            <4>. QED  BY <4>1, <4>2, <1>1, <1>2
        <3>5. \A n \in DOMAIN audit'[i] : audit'[i][n].type = "published" =>
                audit'[i][n].resulting.version <= issuer'[i].version
            <4>1. ASSUME NEW n \in 1..Len(audit[i]), audit[i][n].type = "published"
                  PROVE  audit[i][n].resulting.version <= issuer'[i].version
                <5>1. audit[i][n].resulting.version \in Nat
                    BY <1>2, EventType DEF RegistryInv
                <5>2. audit[i][n].resulting.version <= issuer[i].version
                    BY <4>1, <1>2 DEF RegistryInv, AuditSound
                <5>. QED  BY <5>1, <5>2, <1>5, <1>3
            <4>. QED  BY <4>1, <1>0, <1>1, <1>2
        <3>. QED  BY <2>2, <3>1, <3>2, <3>3, <3>4, <3>5 DEF AuditSound
    <2>. QED  BY <2>1, <2>2
<1>8. ASSUME NEW j \in Issuers  PROVE Explained(j)'
    <2>0. Explained(j)
        BY DEF RegistryInv, AuditExplainsRecord
    <2>1. CASE j # i
        <3>1. \A n : Earlier(j, n)' = Earlier(j, n)
            BY <2>1, <1>2 DEF Earlier
        <3>. QED  BY <2>0, <2>1, <3>1, <1>2, <1>5 DEF Explained
    <2>2. CASE j = i
        <3>1. ASSUME NEW n \in Changes(i)  PROVE Earlier(i, n)' = Earlier(i, n)
            <4>1. ~(new < n)
                BY <1>0, <1>2, <1>3
            <4>. QED  BY <1>2, <4>1 DEF Earlier
        <3>2. Earlier(i, new)' = Changes(i)
            BY <1>0, <1>2, <1>3 DEF Earlier
        <3>3. ASSUME NEW n \in Changes(i)
              PROVE  /\ audit'[i][n].resulting.version = Cardinality(Earlier(i, n)') + 1
                     /\ \A m \in Earlier(i, n)' : (\A k \in Earlier(i, n)' : k <= m) =>
                            /\ audit'[i][n].prior = audit'[i][m].resulting
                            /\ audit'[i][m].at <= audit'[i][n].at
                     /\ ~(\A m \in Changes(i)' : m <= n)
            <4>1. Earlier(i, n) \subseteq Changes(i)
                BY DEF Earlier
            <4>2. \A m \in Changes(i) : audit'[i][m] = audit[i][m]
                BY <1>0, <1>2, <1>3
            <4>3. ~(\A m \in Changes(i)' : m <= n)
                BY <1>0, <1>2, <1>3, SMTT(30)
            <4>. QED  BY <2>0, <2>2, <3>1, <4>1, <4>2, <4>3 DEF Explained
        <3>4. audit'[i][new].resulting.version = Cardinality(Earlier(i, new)') + 1
            BY <1>1, <1>0, <1>2, <1>3, <3>2
        <3>5. ASSUME NEW m \in Changes(i), \A k \in Changes(i) : k <= m
              PROVE  issuer[i] = audit'[i][m].resulting /\ audit'[i][m].at <= t
            <4>1. audit'[i][m] = audit[i][m]
                BY <1>0, <1>2, <1>3
            <4>2. issuer[i] = audit[i][m].resulting
                BY <2>0, <2>2, <3>5 DEF Explained
            <4>3. audit[i][m].at <= t
                BY DEF StampedAfter
            <4>. QED  BY <4>1, <4>2, <4>3
        <3>6. \A m \in Earlier(i, new)' : (\A k \in Earlier(i, new)' : k <= m) =>
                 /\ audit'[i][new].prior = audit'[i][m].resulting
                 /\ audit'[i][m].at <= audit'[i][new].at
            BY <3>2, <3>5, <1>1, <1>2
        <3>7. issuer'[i] = audit'[i][new].resulting
            BY <1>1, <1>2, <1>5
        <3>8. Changes(i)' # {}
            BY <1>2
        <3>9. ASSUME NEW n \in Changes(i)'
              PROVE  /\ audit'[i][n].resulting.version = Cardinality(Earlier(i, n)') + 1
                     /\ \A m \in Earlier(i, n)' : (\A k \in Earlier(i, n)' : k <= m) =>
                            /\ audit'[i][n].prior = audit'[i][m].resulting
                            /\ audit'[i][m].at <= audit'[i][n].at
                     /\ (\A m \in Changes(i)' : m <= n) => issuer'[i] = audit'[i][n].resulting
            <4>1. CASE n = new
                BY <4>1, <3>4, <3>6, <3>7
            <4>2. CASE n # new
                BY <4>2, <3>3, <1>2
            <4>. QED  BY <4>1, <4>2
        <3>. QED  BY <2>2, <3>8, <3>9 DEF Explained
    <2>. QED  BY <2>1, <2>2
<1>9. PublishedInItsVersion'
    <2>. SUFFICES ASSUME NEW j \in Issuers, NEW n \in DOMAIN audit'[j],
                         audit'[j][n].type = "published", NEW m \in Changes(j)'
                  PROVE  m < n <=> audit'[j][m].resulting.version <= audit'[j][n].resulting.version
        BY DEF PublishedInItsVersion
    <2>1. CASE j # i
        BY <2>1, <1>2 DEF RegistryInv, PublishedInItsVersion
    <2>2. CASE j = i
        <3>1. n \in DOMAIN audit[i] /\ audit'[i][n] = audit[i][n]
            BY <2>2, <1>0, <1>1, <1>2
        <3>2. audit[i][n].resulting.version <= issuer[i].version
              /\ audit[i][n].resulting.version \in Nat
            BY <2>2, <3>1, EventType DEF RegistryInv, AuditSound
        <3>3. CASE m = new
            BY <2>2, <3>1, <3>2, <3>3, <1>1, <1>0, <1>2, <1>3
        <3>4. CASE m # new
            <4>1. m \in Changes(i) /\ audit'[i][m] = audit[i][m]
                BY <2>2, <3>4, <1>0, <1>2, <1>3
            <4>. QED  BY <2>2, <3>1, <4>1 DEF RegistryInv, PublishedInItsVersion
        <3>. QED  BY <3>3, <3>4
    <2>. QED  BY <2>1, <2>2
<1>10. EarlierStandingExpires'
    <2>. SUFFICES ASSUME NEW p \in Publications, publication[p].status = "completed",
                         NEW n \in Changes(publication[p].issuer)',
                         audit'[publication[p].issuer][n].resulting.version
                             > publication[p].version
                  PROVE  publication[p].expires <= audit'[publication[p].issuer][n].at + TTL
        BY DEF EarlierStandingExpires
    <2>1. publication[p].issuer \in Issuers
        BY PublicationType DEF RegistryInv, TypeOK
    <2>2. CASE publication[p].issuer # i
        BY <2>1, <2>2, <1>2 DEF RegistryInv, EarlierStandingExpires
    <2>3. CASE publication[p].issuer = i /\ n = new
        BY <2>3, <1>1, <1>2 DEF StampedAfter
    <2>4. CASE publication[p].issuer = i /\ n # new
        <3>1. n \in Changes(i) /\ audit'[i][n] = audit[i][n]
            BY <2>4, <1>0, <1>2, <1>3
        <3>. QED  BY <2>4, <3>1 DEF RegistryInv, EarlierStandingExpires
    <2>. QED  BY <2>2, <2>3, <2>4
<1>. QED  BY <1>6, <1>7, <1>8, <1>9, <1>10 DEF TablesSound, AuditExplainsRecord

\* Session s, in state q after it, changes issuer i to row, stamped t.
ChangeTurn(s, q, i, row, type, t) ==
    /\ row # Unregistered /\ row.version = issuer[i].version + 1
    /\ StampedAfter(i, t)
    /\ \A z \in Sessions : z # s /\ session[z].step \in Holding => session[z].issuer # i
    /\ q.step \in {"idle", "publish"} /\ q.at <= now
    /\ q.step = "publish" => q.issuer \in Issuers
    /\ session' = [session EXCEPT ![s] = q]
    /\ issuer' = [issuer EXCEPT ![i] = row]
    /\ Records(i, Event(type, issuer[i], row, t))
    /\ lock' \in [Issuers -> Sessions \cup {NoSession}]
    /\ \A j \in Issuers : lock'[j] = lock[j] \/ lock[j] = s
    /\ UNCHANGED <<publication, now>>

\* The sessions that do not hold the issuer's lock do not depend on it.
LEMMA ChangeStep ==
    ASSUME RegistryInv, NEW s \in Sessions, NEW q \in Session, NEW i \in Issuers,
           NEW row \in IssuerRegistryRecord, NEW type \in {"registered", "changed"},
           NEW t \in Nat, ChangeTurn(s, q, i, row, type, t)
    PROVE  RegistryInv'
<1>. USE DEF ChangeTurn
<1>1. /\ Event(type, issuer[i], row, t) \in IssuerRegistryAuditEvent
      /\ Event(type, issuer[i], row, t).type = type
    BY DEF Event, IssuerRegistryAuditEvent, RegistryInv, TypeOK
<1>2. /\ audit' \in [Issuers -> Seq(IssuerRegistryAuditEvent)]
      /\ \A j \in Issuers : j # i => Changes(j)' = Changes(j) /\ audit'[j] = audit[j]
    BY <1>1, AppendChange DEF RegistryInv
<1>3. TypeOK'
    BY <1>2 DEF RegistryInv, TypeOK
<1>4. TablesSound'
    BY <1>3, ChangeTables
<1>5. /\ \A z \in Sessions : session'[z] = IF z = s THEN q ELSE session[z]
      /\ \A j \in Issuers : j # i => issuer'[j] = issuer[j]
    BY DEF RegistryInv, TypeOK
<1>6. ASSUME NEW z \in Sessions  PROVE Sound(session[z])'
    <2>1. CASE z = s
        BY <2>1, <1>5 DEF Sound, Holding, Publishing
    <2>2. CASE z # s
        <3>1. session'[z] = session[z] /\ Sound(session[z])
            BY <1>5, <2>2 DEF RegistryInv
        <3>2. session[z].step \in Holding => session[z].issuer # i /\ session[z].issuer \in Issuers
            BY <2>2, <3>1 DEF Sound, Holding
        <3>3. PICK w : w = session[z]
            OBVIOUS
        <3>4. w.step = "commit" =>
                 \A n \in Changes(w.issuer)' : audit'[w.issuer][n].at <= w.at
            BY <3>1, <3>2, <3>3, <1>2 DEF Sound, Holding
        <3>5. w.step \in Holding => w.row = issuer'[w.issuer] /\ w.row # Unregistered
            BY <3>1, <3>2, <3>3, <1>5 DEF Sound
        <3>6. Sound(w)'
            BY <3>1, <3>3, <3>4, <3>5 DEF Sound
        <3>. QED  BY <3>1, <3>3, <3>6
    <2>. QED  BY <2>1, <2>2
<1>7. HoldersLock'
    <2>. SUFFICES ASSUME NEW z \in Sessions, session'[z].step \in Holding
                  PROVE  lock'[session'[z].issuer] = z
        BY DEF HoldersLock
    <2>1. z # s /\ session'[z] = session[z] /\ Sound(session[z])
        BY <1>5 DEF Holding, RegistryInv
    <2>2. session[z].issuer \in Issuers /\ lock[session[z].issuer] = z
        BY <2>1 DEF Sound, Holding, RegistryInv, HoldersLock
    <2>. QED  BY <2>1, <2>2
<1>8. OnePublisher'
    BY <1>5 DEF RegistryInv, OnePublisher, Publishing
<1>. QED  BY <1>3, <1>4, <1>6, <1>7, <1>8 DEF RegistryInv, TablesSound

-----------------------------------------------------------------------------
(* Publications *)

\* A session requests, completes or gives up a publication that is its own.
LEMMA PublicationTables ==
    ASSUME RegistryInv, TypeOK', NEW p \in Publications,
           NEW r \in IssuerStatusPublicationRecord, r.status # "none",
           publication[p].status \in {"none", "requested"},
           publication' = [publication EXCEPT ![p] = r],
           r.version <= issuer[r.issuer].version,
           r.version = issuer[r.issuer].version => r.standing = issuer[r.issuer].standing,
           r.expires <= now + TTL,
           r.status = "completed" => r.version = issuer[r.issuer].version,
           \A j \in Issuers : Changes(j)' = Changes(j),
           \A j \in Issuers : \A n \in DOMAIN audit[j] :
              n \in DOMAIN audit'[j] /\ audit'[j][n] = audit[j][n],
           \A j \in Issuers : \A n \in DOMAIN audit'[j] :
              \/ n \in DOMAIN audit[j]
              \/ /\ n = Len(audit[j]) + 1
                 /\ audit'[j][n].type = "published" => audit'[j][n].resulting = issuer[j],
           UNCHANGED <<issuer, now>>
    PROVE  TablesSound'
<1>1. \A z \in Publications : publication'[z] = IF z = p THEN r ELSE publication[z]
    BY DEF RegistryInv, TypeOK
<1>2. ASSUME NEW j \in Issuers
      PROVE  /\ Changes(j) \subseteq DOMAIN audit[j]
             /\ \A n \in Changes(j) : audit'[j][n] = audit[j][n]
    BY DEF Changes
<1>3. ASSUME NEW z \in Publications  PROVE PublicationSound(z)'
    BY <1>1 DEF RegistryInv, PublicationSound
<1>4. ASSUME NEW j \in Issuers  PROVE AuditSound(j)'
    <2>1. AuditSound(j) /\ issuer[j] \in IssuerRegistryRecord
        BY DEF RegistryInv, TypeOK
    <2>2. ASSUME NEW n \in DOMAIN audit'[j], audit'[j][n].type = "published"
          PROVE  audit'[j][n].resulting.version <= issuer[j].version
        BY <2>1, <2>2, RowType DEF AuditSound
    <2>. QED  BY <2>1, <2>2, <1>2 DEF AuditSound
<1>5. ASSUME NEW j \in Issuers  PROVE Explained(j)'
    <2>1. \A n : Earlier(j, n)' = Earlier(j, n)
        BY DEF Earlier
    <2>2. Explained(j)
        BY DEF RegistryInv, AuditExplainsRecord
    <2>3. \A n : Earlier(j, n) \subseteq Changes(j)
        BY DEF Earlier
    <2>. QED  BY <1>2, <2>1, <2>2, <2>3 DEF Explained
<1>6. PublishedInItsVersion'
    <2>. SUFFICES ASSUME NEW j \in Issuers, NEW n \in DOMAIN audit'[j],
                         audit'[j][n].type = "published", NEW m \in Changes(j)
                  PROVE  m < n <=> audit'[j][m].resulting.version <= audit'[j][n].resulting.version
        BY DEF PublishedInItsVersion
    <2>1. CASE n \in DOMAIN audit[j]
        BY <2>1, <1>2 DEF RegistryInv, PublishedInItsVersion
    <2>2. CASE n \notin DOMAIN audit[j]
        <3>1. n = Len(audit[j]) + 1 /\ audit'[j][n].resulting = issuer[j]
            BY <2>2
        <3>2. m < n
            BY <3>1, ChangesFinite DEF RegistryInv, TypeOK
        <3>3. audit[j][m].resulting.version <= issuer[j].version
            BY DEF RegistryInv, AuditSound
        <3>. QED  BY <3>1, <3>2, <3>3, <1>2
    <2>. QED  BY <2>1, <2>2
<1>7. EarlierStandingExpires'
    <2>. SUFFICES ASSUME NEW z \in Publications, publication'[z].status = "completed",
                         NEW n \in Changes(publication'[z].issuer),
                         audit'[publication'[z].issuer][n].resulting.version
                             > publication'[z].version
                  PROVE  publication'[z].expires <= audit'[publication'[z].issuer][n].at + TTL
        <3>1. \A z \in Publications : publication'[z].status = "completed" =>
                publication'[z].issuer \in Issuers
            BY PublicationType DEF TypeOK
        <3>. QED  BY <3>1 DEF EarlierStandingExpires
    <2>1. publication'[z].issuer \in Issuers
        BY PublicationType DEF TypeOK
    <2>2. CASE z # p
        BY <2>1, <2>2, <1>1, <1>2, SMTT(30) DEF RegistryInv, EarlierStandingExpires
    <2>3. CASE z = p
        <3>1. publication'[z] = r /\ r.version = issuer[r.issuer].version /\ r.issuer \in Issuers
            BY <2>1, <2>3, <1>1
        <3>2. audit[r.issuer][n].resulting.version <= issuer[r.issuer].version
            BY <3>1 DEF RegistryInv, AuditSound
        <3>3. /\ audit[r.issuer][n].resulting.version \in Nat
              /\ issuer[r.issuer].version \in Nat
            BY <3>1, <1>2, EventType, RowType DEF RegistryInv, TypeOK
        <3>. QED  BY <3>1, <3>2, <3>3, <1>2
    <2>. QED  BY <2>2, <2>3
<1>. QED  BY <1>3, <1>4, <1>5, <1>6, <1>7 DEF TablesSound, AuditExplainsRecord

\* Session s, in state q after it, writes r as the record of publication p.
PublicationTurn(s, q, p, r) ==
    /\ TablesSound' /\ TypeOK'
    /\ publication' = [publication EXCEPT ![p] = r]
    /\ publication[p].status \in {"none", "requested"}
    /\ publication[p].status = "requested" =>
           session[s].step \in Publishing /\ session[s].publication = p
    /\ r.status # "completed" \/ lock[r.issuer] = s
    /\ \A j \in Issuers : Changes(j)' = Changes(j)
    /\ \A j \in Issuers : \A n \in Changes(j) : audit'[j][n] = audit[j][n]
    /\ session' = [session EXCEPT ![s] = q]
    /\ \/ q.step = "idle" /\ q.at <= now
       \/ /\ q.step = "issue" /\ q.issuer \in Issuers /\ q.at <= now /\ q.publication = p
          /\ r.status = "requested" /\ r.issuer = q.issuer /\ publication[p].status = "none"
    /\ \A j \in Issuers : lock'[j] = lock[j] \/ lock[j] = s
    /\ UNCHANGED <<issuer, now>>

LEMMA PublicationStep ==
    ASSUME RegistryInv, NEW s \in Sessions, NEW q \in Session, NEW p \in Publications,
           NEW r \in IssuerStatusPublicationRecord, PublicationTurn(s, q, p, r)
    PROVE  RegistryInv'
<1>. USE DEF PublicationTurn
<1>1. /\ \A z \in Sessions : session'[z] = IF z = s THEN q ELSE session[z]
      /\ \A z \in Publications : publication'[z] = IF z = p THEN r ELSE publication[z]
    BY DEF RegistryInv, TypeOK
<1>2. ASSUME NEW z \in Sessions, z # s
      PROVE  /\ session'[z] = session[z] /\ Sound(session[z])
             /\ session[z].step \in Holding =>
                   session[z].issuer \in Issuers /\ lock[session[z].issuer] = z
             /\ session[z].step \in Publishing \cup {"answer"} =>
                   session[z].publication \in Publications \ {p}
    BY <1>1, <1>2 DEF RegistryInv, HoldersLock, OnePublisher, Sound, Holding, Publishing
<1>3. ASSUME NEW z \in Sessions  PROVE Sound(session[z])'
    <2>1. CASE z = s
        BY <2>1, <1>1 DEF Sound, Holding, Publishing
    <2>2. CASE z # s
        <3>1. PICK w : w = session[z]
            OBVIOUS
        <3>2. w.step = "commit" =>
                /\ \A n \in Changes(w.issuer)' : audit'[w.issuer][n].at <= w.at
                /\ \A y \in Publications :
                     publication'[y].status = "completed" /\ publication'[y].issuer = w.issuer
                        => publication'[y].expires <= w.at + TTL
            <4>1. SUFFICES ASSUME w.step = "commit"
                           PROVE  /\ \A n \in Changes(w.issuer)' : audit'[w.issuer][n].at <= w.at
                                  /\ \A y \in Publications : /\ publication'[y].status = "completed"
                                                             /\ publication'[y].issuer = w.issuer
                                        => publication'[y].expires <= w.at + TTL
                OBVIOUS
            <4>2. w.issuer \in Issuers /\ lock[w.issuer] = z /\ Sound(w)
                BY <2>2, <3>1, <4>1, <1>2 DEF Holding
            <4>3. \A n \in Changes(w.issuer)' : audit'[w.issuer][n].at <= w.at
                BY <4>1, <4>2 DEF Sound
            <4>4. ASSUME NEW y \in Publications, publication'[y].status = "completed",
                         publication'[y].issuer = w.issuer
                  PROVE  publication'[y].expires <= w.at + TTL
                BY <2>2, <4>1, <4>2, <4>4, <1>1 DEF Sound
            <4>. QED  BY <4>3, <4>4
        <3>3. w.step \in Publishing => /\ w.publication \in Publications
                                       /\ publication'[w.publication].status = "requested"
                                       /\ publication'[w.publication].issuer = w.issuer
            BY <2>2, <3>1, <1>1, <1>2 DEF Sound
        <3>4. w.step = "answer" => /\ w.publication \in Publications
                                   /\ publication'[w.publication] = publication[w.publication]
            BY <2>2, <3>1, <1>1, <1>2 DEF Sound
        <3>5. Sound(w)'
            BY <2>2, <3>1, <3>2, <3>3, <3>4, <1>2 DEF Sound
        <3>. QED  BY <2>2, <3>1, <3>5, <1>2
    <2>. QED  BY <2>1, <2>2
<1>4. HoldersLock'
    BY <1>1, <1>2 DEF HoldersLock, Holding
<1>5. OnePublisher'
    <2>. SUFFICES ASSUME NEW y \in Sessions, NEW z \in Sessions, y # z,
                         session'[y].step \in Publishing, session'[z].step \in Publishing,
                         session'[y].publication = session'[z].publication
                  PROVE  FALSE
        BY DEF OnePublisher
    <2>1. CASE y # s /\ z # s
        BY <2>1, <1>2 DEF RegistryInv, OnePublisher
    <2>2. CASE y = s
        BY <2>2, <1>1, <1>2 DEF Publishing
    <2>3. CASE z = s
        BY <2>3, <1>1, <1>2 DEF Publishing
    <2>. QED  BY <2>1, <2>2, <2>3
<1>. QED  BY <1>3, <1>4, <1>5 DEF RegistryInv, TablesSound

-----------------------------------------------------------------------------
(* The actions *)

LEMMA Arrivals ==
    ASSUME RegistryInv, NEW s \in Sessions, NEW i \in Issuers
    PROVE  /\ FindByIdentity(s, i) => RegistryInv'
           /\ RevokeAgain(s, i) => RegistryInv'
           /\ LockStatus(s, i) => RegistryInv'
           /\ \A target \in IssuerStanding : LockChange(s, i, target) => RegistryInv'
<1>0. issuer[i] \in IssuerRegistryRecord /\ now \in Nat /\ lock \in [Issuers -> Sessions \cup {NoSession}]
    BY DEF RegistryInv, TypeOK
<1>1. ASSUME FindByIdentity(s, i)  PROVE RegistryInv'
    <2>. DEFINE q == [Idle EXCEPT !.step = "insert", !.issuer = i, !.at = now]
    <2>1. q \in Session /\ q.step = "insert" /\ q.issuer = i /\ q.at = now
        BY <1>0 DEF Idle, Session, IssuerRegistryRecord, Unregistered
    <2>2. Sound(q)
        BY <2>1, <1>0 DEF Sound, Holding, Publishing
    <2>. QED  BY <1>1, <1>0, <2>1, <2>2, SessionStep DEF FindByIdentity, Holding, Publishing
<1>2. ASSUME NEW q \in Session, q.issuer = i, q.at = 0, q.step \in {"stamp", "publish", "select"},
             q.step \in Holding => q.row = issuer[i] /\ q.row # Unregistered,
             q.step = "stamp" => q.target \in IssuerStanding /\ q.row.standing # "revoked",
             session' = [session EXCEPT ![s] = q], Locks(s, i),
             UNCHANGED <<issuer, publication, audit, now>>
      PROVE  RegistryInv'
    <2>1. Sound(q)
        BY <1>2, <1>0 DEF Sound, Holding, Publishing
    <2>2. /\ lock' \in [Issuers -> Sessions \cup {NoSession}]
          /\ \A j \in Issuers : lock'[j] = lock[j] \/ lock[j] \in {NoSession, s}
          /\ lock'[i] = s
        BY <1>0, <1>2 DEF Locks
    <2>. QED  BY <1>2, <2>1, <2>2, SessionStep DEF Publishing
<1>3. ASSUME RevokeAgain(s, i)  PROVE RegistryInv'
    <2>. DEFINE q == [Idle EXCEPT !.step = "publish", !.issuer = i]
    <2>1. q \in Session /\ q.step = "publish" /\ q.issuer = i /\ q.at = 0
        BY DEF Idle, Session, IssuerRegistryRecord, Unregistered
    <2>. QED  BY <1>3, <2>1, <1>2 DEF RevokeAgain, Holding
<1>4. ASSUME LockStatus(s, i)  PROVE RegistryInv'
    <2>. DEFINE q == [Idle EXCEPT !.step = "select", !.issuer = i, !.row = issuer[i]]
    <2>1. q \in Session /\ q.step = "select" /\ q.issuer = i /\ q.at = 0 /\ q.row = issuer[i]
        BY <1>0 DEF Idle, Session
    <2>. QED  BY <1>4, <2>1, <1>2 DEF LockStatus
<1>5. ASSUME NEW target \in IssuerStanding, LockChange(s, i, target)  PROVE RegistryInv'
    <2>. DEFINE q == [Idle EXCEPT !.step = "stamp", !.issuer = i, !.target = target,
                                  !.row = issuer[i]]
    <2>1. /\ q \in Session /\ q.step = "stamp" /\ q.issuer = i /\ q.at = 0 /\ q.row = issuer[i]
          /\ q.target = target
        BY <1>0 DEF Idle, Session
    <2>. QED  BY <1>5, <2>1, <1>2 DEF LockChange
<1>. QED  BY <1>1, <1>3, <1>4, <1>5

LEMMA Progress ==
    ASSUME RegistryInv, NEW s \in Sessions
    PROVE  /\ StampChange(s) => RegistryInv'
           /\ BuildStatement(s) => RegistryInv'
           /\ StatusSigned(s) => RegistryInv'
           /\ Relock(s) => RegistryInv'
           /\ AnswerStatus(s) => RegistryInv'
           /\ EndSession(s) => RegistryInv'
<1>. DEFINE u == session[s]
<1>0. /\ u \in Session /\ Sound(u) /\ now \in Nat
      /\ lock \in [Issuers -> Sessions \cup {NoSession}]
      /\ session \in [Sessions -> Session]
      /\ u.step \in Holding => lock[u.issuer] = s
    BY DEF RegistryInv, TypeOK, HoldersLock
<1>1. ASSUME StampChange(s)  PROVE RegistryInv'
    <2>. DEFINE q == [u EXCEPT !.step = "commit", !.at = now]
    <2>1. /\ q \in Session /\ q.step = "commit" /\ q.at = now /\ q.issuer = u.issuer
          /\ q.row = u.row /\ q.target = u.target
        BY <1>0 DEF Session
    <2>2. u.step = "stamp" /\ u.issuer \in Issuers
        BY <1>0, <1>1 DEF StampChange, Sound
    <2>3. \A n \in Changes(q.issuer) : audit[q.issuer][n].at <= q.at
        BY <2>1, <2>2 DEF RegistryInv, AuditSound
    <2>4. \A p \in Publications : publication[p].status = "completed" =>
              publication[p].expires <= q.at + TTL
        BY <2>1 DEF RegistryInv, PublicationSound
    <2>5. Sound(q)
        BY <1>0, <2>1, <2>2, <2>3, <2>4 DEF Sound, Holding, Publishing
    <2>6. session' = [session EXCEPT ![s] = q]
        BY <1>0, <1>1 DEF StampChange
    <2>. QED  BY <1>0, <1>1, <2>1, <2>2, <2>5, <2>6, SessionStep DEF StampChange, Holding, Publishing
<1>2. ASSUME BuildStatement(s)  PROVE RegistryInv'
    <2>. DEFINE q == [u EXCEPT !.step = "sign", !.at = now]
    <2>1. /\ q \in Session /\ q.step = "sign" /\ q.at = now /\ q.issuer = u.issuer
          /\ q.publication = u.publication
        BY <1>0 DEF Session
    <2>2. u.step = "issue"
        BY <1>2 DEF BuildStatement
    <2>3. Sound(q)
        BY <1>0, <2>1, <2>2 DEF Sound, Holding, Publishing
    <2>4. session' = [session EXCEPT ![s] = q]
        BY <1>0, <1>2 DEF BuildStatement
    <2>. QED  BY <1>0, <1>2, <2>1, <2>2, <2>3, <2>4, SessionStep DEF BuildStatement, Holding, Publishing
<1>3. ASSUME StatusSigned(s)  PROVE RegistryInv'
    <2>. DEFINE q == [u EXCEPT !.step = "relock"]
    <2>1. /\ q \in Session /\ q.step = "relock" /\ q.at = u.at /\ q.issuer = u.issuer
          /\ q.publication = u.publication
        BY <1>0 DEF Session
    <2>2. u.step = "sign"
        BY <1>3 DEF StatusSigned
    <2>3. Sound(q)
        BY <1>0, <2>1, <2>2 DEF Sound, Holding, Publishing
    <2>4. session' = [session EXCEPT ![s] = q]
        BY <1>0, <1>3 DEF StatusSigned, Moves
    <2>. QED  BY <1>0, <1>3, <2>1, <2>2, <2>3, <2>4, SessionStep DEF StatusSigned, Holding, Publishing
<1>4. ASSUME Relock(s)  PROVE RegistryInv'
    <2>. DEFINE q == [u EXCEPT !.step = "check", !.row = issuer[u.issuer]]
    <2>1. u.step = "relock" /\ u.issuer \in Issuers /\ issuer[u.issuer] \in IssuerRegistryRecord
        BY <1>0, <1>4 DEF Relock, Sound, RegistryInv, TypeOK
    <2>2. /\ q \in Session /\ q.step = "check" /\ q.at = u.at /\ q.issuer = u.issuer
          /\ q.publication = u.publication /\ q.row = issuer[u.issuer]
        BY <1>0, <2>1 DEF Session
    <2>3. issuer[u.issuer] # Unregistered
        <3>1. /\ u.publication \in Publications /\ publication[u.publication].status = "requested"
              /\ publication[u.publication].issuer = u.issuer
            BY <1>0, <2>1 DEF Sound, Publishing
        <3>2. publication[u.publication].version <= issuer[u.issuer].version
            BY <3>1 DEF RegistryInv, PublicationSound
        <3>3. publication[u.publication].version \in Nat \ {0}
            BY <3>1, PublicationType DEF RegistryInv, TypeOK
        <3>. QED  BY <2>1, <3>2, <3>3, RowType
    <2>4. Sound(q)
        BY <1>0, <2>1, <2>2, <2>3 DEF Sound, Holding, Publishing
    <2>5. session' = [session EXCEPT ![s] = q]
        BY <1>0, <1>4 DEF Relock
    <2>6. /\ lock' \in [Issuers -> Sessions \cup {NoSession}]
          /\ \A j \in Issuers : lock'[j] = lock[j] \/ lock[j] \in {NoSession, s}
          /\ lock'[u.issuer] = s
        BY <1>0, <1>4, <2>1 DEF Relock, Locks
    <2>. QED  BY <1>4, <2>1, <2>2, <2>4, <2>5, <2>6, SessionStep DEF Relock, Publishing
<1>5. ASSUME AnswerStatus(s)  PROVE RegistryInv'
    <2>1. PICK p \in LatestOf(s) :
            /\ publication[p].expires > now
            /\ session' = [session EXCEPT ![s].step = "answer", ![s].publication = p, ![s].at = now]
        BY <1>5 DEF AnswerStatus
    <2>. DEFINE q == [u EXCEPT !.step = "answer", !.publication = p, !.at = now]
    <2>2. /\ p \in Publications /\ publication[p].status = "completed"
          /\ publication[p].issuer = u.issuer /\ publication[p].version = u.row.version
          /\ publication[p].expires \in Nat
        BY <2>1, PublicationType DEF LatestOf, OfVersion, RegistryInv, TypeOK
    <2>3. /\ q \in Session /\ q.step = "answer" /\ q.at = now /\ q.issuer = u.issuer
          /\ q.publication = p /\ q.row = u.row
        BY <1>0, <2>2 DEF Session
    <2>4. u.step = "select"
        BY <1>5 DEF AnswerStatus
    <2>5. Sound(q)
        BY <1>0, <2>1, <2>2, <2>3, <2>4 DEF Sound, Holding, Publishing
    <2>6. session' = [session EXCEPT ![s] = q]
        BY <1>0, <2>1
    <2>. QED  BY <1>0, <1>5, <2>3, <2>4, <2>5, <2>6, SessionStep DEF AnswerStatus, Holding, Publishing
<1>6. ASSUME EndSession(s)  PROVE RegistryInv'
    BY <1>6, EndStep DEF EndSession
<1>. QED  BY <1>1, <1>2, <1>3, <1>4, <1>5, <1>6

LEMMA StandingChanges ==
    ASSUME RegistryInv, NEW s \in Sessions
    PROVE  /\ InsertIssuer(s) => RegistryInv'
           /\ CommitChange(s) => RegistryInv'
<1>. DEFINE u == session[s]
            i == u.issuer
<1>0. /\ u \in Session /\ Sound(u) /\ now \in Nat
      /\ lock \in [Issuers -> Sessions \cup {NoSession}]
      /\ session \in [Sessions -> Session]
      /\ u.at \in Nat /\ u.at <= now
    BY SessionType DEF RegistryInv, TypeOK, Sound
<1>1. ASSUME InsertIssuer(s)  PROVE RegistryInv'
    <2>. DEFINE row == [standing |-> "good_standing", version |-> 1]
    <2>1. /\ i \in Issuers /\ issuer[i] = Unregistered /\ issuer' = [issuer EXCEPT ![i] = row]
          /\ Records(i, Event("registered", issuer[i], row, u.at))
          /\ session' = [session EXCEPT ![s] = Idle] /\ UNCHANGED <<lock, publication, now>>
        BY <1>0, <1>1 DEF InsertIssuer, Sound, Ends
    <2>2. /\ row \in IssuerRegistryRecord /\ row # Unregistered
          /\ row.version = issuer[i].version + 1
        BY <2>1 DEF IssuerRegistryRecord, IssuerStanding, Unregistered
    <2>3. Changes(i) = {}
        BY <2>1, RowType, ChangesFinite DEF RegistryInv, TypeOK, AuditSound
    <2>4. ASSUME NEW p \in Publications, publication[p].status = "completed",
                 publication[p].issuer = i
          PROVE  FALSE
        <3>1. publication[p].version \in Nat \ {0}
            BY <2>4, PublicationType DEF RegistryInv, TypeOK
        <3>2. publication[p].version <= 0
            BY <2>1, <2>4 DEF RegistryInv, PublicationSound, Unregistered
        <3>. QED  BY <3>1, <3>2
    <2>5. \A z \in Sessions : session[z].step \in Holding => session[z].issuer # i
        BY <2>1 DEF RegistryInv, Sound, Holding
    <2>6. /\ lock' \in [Issuers -> Sessions \cup {NoSession}]
          /\ \A j \in Issuers : lock'[j] = lock[j] \/ lock[j] = s
          /\ Idle.step \in {"idle", "publish"} /\ Idle.at <= now
        BY <1>0, <2>1, IdleType
    <2>7. StampedAfter(i, u.at)
        BY <1>0, <2>3, <2>4 DEF StampedAfter
    <2>. HIDE DEF row
    <2>8. ChangeTurn(s, Idle, i, row, "registered", u.at)
        BY <1>0, <2>1, <2>2, <2>5, <2>6, <2>7, IdleType DEF ChangeTurn
    <2>. QED  BY <1>0, <2>1, <2>2, <2>8, IdleType, ChangeStep
<1>2. ASSUME CommitChange(s)  PROVE RegistryInv'
    <2>. DEFINE row == [standing |-> u.target, version |-> u.row.version + 1]
                q == IF u.target = "revoked" THEN [u EXCEPT !.step = "publish"] ELSE Idle
    <2>1. u.step = "commit"
        BY <1>2 DEF CommitChange
    <2>2. /\ i \in Issuers /\ u.row = issuer[i] /\ u.target \in IssuerStanding
          /\ issuer[i] \in IssuerRegistryRecord
          /\ lock[i] = s
          /\ \A n \in Changes(i) : audit[i][n].at <= u.at
          /\ \A p \in Publications :
               publication[p].status = "completed" /\ publication[p].issuer = i
                 => publication[p].expires <= u.at + TTL
        BY <1>0, <2>1 DEF Sound, Holding, RegistryInv, TypeOK, HoldersLock
    <2>3. /\ issuer' = [issuer EXCEPT ![i] = row]
          /\ Records(i, Event("changed", issuer[i], row, u.at))
          /\ UNCHANGED <<publication, now>>
        BY <1>2, <2>2 DEF CommitChange
    <2>4. session' = [session EXCEPT ![s] = q]
        BY <1>0, <1>2 DEF CommitChange, Moves, Ends
    <2>5. /\ row \in IssuerRegistryRecord /\ row # Unregistered
          /\ row.version = issuer[i].version + 1
        BY <2>2, RowType DEF IssuerRegistryRecord, IssuerStanding, Unregistered
    <2>6. /\ q \in Session /\ q.step \in {"idle", "publish"} /\ q.at <= now
          /\ q.step = "publish" => q.issuer \in Issuers
        BY <1>0, <2>2, IdleType DEF Session
    <2>7. /\ lock' \in [Issuers -> Sessions \cup {NoSession}]
          /\ \A j \in Issuers : lock'[j] = lock[j] \/ lock[j] = s
        BY <1>0, <1>2 DEF CommitChange, Unlocks
    <2>8. \A z \in Sessions : z # s /\ session[z].step \in Holding => session[z].issuer # i
        BY <2>2 DEF RegistryInv, HoldersLock
    <2>9. StampedAfter(i, u.at)
        BY <1>0, <2>2 DEF StampedAfter
    <2>. HIDE DEF row, q
    <2>10. ChangeTurn(s, q, i, row, "changed", u.at)
        BY <1>0, <2>2, <2>3, <2>4, <2>5, <2>6, <2>7, <2>8, <2>9 DEF ChangeTurn
    <2>. QED  BY <1>0, <2>2, <2>5, <2>6, <2>10, ChangeStep
<1>. QED  BY <1>1, <1>2

LEMMA Publishes ==
    ASSUME RegistryInv, NEW s \in Sessions, NEW i \in Issuers, NEW p \in Publications,
           RequestPublication(s, i, p)
    PROVE  RegistryInv'
<1>. DEFINE r == [NoRecord EXCEPT !.status = "requested", !.issuer = i,
                                  !.standing = issuer[i].standing, !.version = issuer[i].version]
            q == [Idle EXCEPT !.step = "issue", !.issuer = i, !.publication = p, !.row = issuer[i]]
<1>1. /\ issuer[i] \in IssuerRegistryRecord /\ issuer[i] # Unregistered
      /\ now \in Nat /\ lock \in [Issuers -> Sessions \cup {NoSession}]
      /\ publication[p].status = "none"
    BY DEF RegistryInv, TypeOK, RequestPublication
<1>2. /\ r \in IssuerStatusPublicationRecord /\ r.status = "requested" /\ r.issuer = i
      /\ r.standing = issuer[i].standing /\ r.version = issuer[i].version /\ r.expires = 0
    BY <1>1, RowType DEF IssuerStatusPublicationRecord, IssuerStatusPublicationStatus, NoRecord
<1>3. q \in Session /\ q.step = "issue" /\ q.issuer = i /\ q.publication = p /\ q.at = 0
    BY <1>1 DEF Session, Idle
<1>4. /\ publication' = [publication EXCEPT ![p] = r]
      /\ session' = [session EXCEPT ![s] = q]
      /\ UNCHANGED <<issuer, audit, now>>
    BY DEF RequestPublication
<1>5. /\ lock' \in [Issuers -> Sessions \cup {NoSession}]
      /\ \A j \in Issuers : lock'[j] = lock[j] \/ lock[j] = s
    BY <1>1 DEF RequestPublication, Unlocks
<1>. HIDE DEF r, q
<1>6. TypeOK'
    BY <1>2, <1>3, <1>4, <1>5 DEF RegistryInv, TypeOK
<1>7. /\ \A j \in Issuers : Changes(j)' = Changes(j)
      /\ \A j \in Issuers : \A n \in Changes(j) : audit'[j][n] = audit[j][n]
    BY <1>4 DEF Changes
<1>8. r.version <= issuer[i].version /\ r.expires <= now + TTL
    BY <1>1, <1>2, RowType, RegistryAssumption DEF RegistryAssumption
<1>9. TablesSound'
    BY <1>1, <1>2, <1>4, <1>6, <1>7, <1>8, PublicationTables
<1>10. PublicationTurn(s, q, p, r)
    BY <1>1, <1>2, <1>3, <1>4, <1>5, <1>6, <1>7, <1>9 DEF PublicationTurn
<1>. QED  BY <1>2, <1>3, <1>10, PublicationStep

\* The end of a publication: r is what it leaves of the record, e the event.
LEMMA Settles ==
    ASSUME RegistryInv, NEW s \in Sessions, session[s].step \in Publishing,
           NEW r \in IssuerStatusPublicationRecord, NEW e \in IssuerRegistryAuditEvent,
           r.status \in {"completed", "failed"}, r.issuer = session[s].issuer,
           r.version = publication[session[s].publication].version,
           r.standing = publication[session[s].publication].standing,
           r.expires <= now + TTL,
           r.status = "completed" => /\ lock[r.issuer] = s
                                     /\ r.version = issuer[r.issuer].version,
           e.type \in {"published", "publication_failed"},
           e.type = "published" => e.resulting = issuer[r.issuer],
           publication' = [publication EXCEPT ![session[s].publication] = r],
           Records(session[s].issuer, e), Ends(s), Unlocks(s), UNCHANGED <<issuer, now>>
    PROVE  RegistryInv'
<1>1. PICK p \in Publications, i \in Issuers : p = session[s].publication /\ i = session[s].issuer
    BY DEF RegistryInv, Sound, Publishing
<1>2. /\ publication[p].status = "requested" /\ publication[p].issuer = i
      /\ publication[p].version <= issuer[i].version
      /\ publication[p].version = issuer[i].version => publication[p].standing = issuer[i].standing
    BY <1>1 DEF RegistryInv, Sound, Publishing, PublicationSound
<1>3. /\ audit' \in [Issuers -> Seq(IssuerRegistryAuditEvent)]
      /\ \A j \in Issuers : Changes(j)' = Changes(j)
      /\ \A j \in Issuers : \A n \in DOMAIN audit[j] :
            n \in DOMAIN audit'[j] /\ audit'[j][n] = audit[j][n]
      /\ \A j \in Issuers : \A n \in DOMAIN audit'[j] :
            n \in DOMAIN audit[j] \/ (j = i /\ n = Len(audit[i]) + 1 /\ audit'[j][n] = e)
    BY <1>1, AppendOther DEF RegistryInv
<1>4. /\ lock' \in [Issuers -> Sessions \cup {NoSession}]
      /\ \A j \in Issuers : lock'[j] = lock[j] \/ lock[j] = s
    BY DEF RegistryInv, TypeOK, Unlocks
<1>5. /\ session' = [session EXCEPT ![s] = Idle]
      /\ publication' = [publication EXCEPT ![p] = r]
    BY <1>1 DEF Ends
<1>6. TypeOK'
    BY <1>3, <1>4, <1>5, IdleType DEF RegistryInv, TypeOK
<1>7. \A j \in Issuers : \A n \in Changes(j) : audit'[j][n] = audit[j][n]
    BY <1>3 DEF Changes
<1>8. \A j \in Issuers : \A n \in DOMAIN audit'[j] :
         \/ n \in DOMAIN audit[j]
         \/ /\ n = Len(audit[j]) + 1
            /\ audit'[j][n].type = "published" => audit'[j][n].resulting = issuer[j]
    BY <1>1, <1>3
<1>9. TablesSound'
    BY <1>1, <1>2, <1>3, <1>5, <1>6, <1>8, PublicationTables, ZenonT(40)
<1>10. now \in Nat
    BY DEF RegistryInv, TypeOK
<1>11. PublicationTurn(s, Idle, p, r)
    BY <1>1, <1>2, <1>3, <1>4, <1>5, <1>6, <1>7, <1>9, <1>10, IdleType DEF PublicationTurn
<1>. QED  BY <1>11, IdleType, PublicationStep

LEMMA Settlements ==
    ASSUME RegistryInv, NEW s \in Sessions
    PROVE  /\ SigningFails(s) => RegistryInv'
           /\ DiscardPublication(s) => RegistryInv'
           /\ CompletePublication(s) => RegistryInv'
<1>. DEFINE u == session[s]
            was == publication[u.publication]
<1>0. /\ u \in Session /\ Sound(u) /\ now \in Nat
      /\ publication \in [Publications -> IssuerStatusPublicationRecord]
      /\ u.row \in IssuerRegistryRecord /\ u.at \in Nat /\ u.at <= now
      /\ Unregistered \in IssuerRegistryRecord
    BY SessionType DEF RegistryInv, TypeOK, Sound, IssuerRegistryRecord
<1>1. ASSUME u.step \in Publishing
      PROVE  /\ u.publication \in Publications /\ u.issuer \in Issuers
             /\ was \in IssuerStatusPublicationRecord
             /\ was.status = "requested" /\ was.issuer = u.issuer
             /\ was.expires <= now + TTL
    BY <1>0, <1>1 DEF Sound, Publishing, RegistryInv, PublicationSound
<1>2. ASSUME u.step \in Publishing, Fails(s, u.row)  PROVE RegistryInv'
    <2>. DEFINE r == [was EXCEPT !.status = "failed", !.completed = now]
                e == Event("publication_failed", Unregistered, u.row, now)
    <2>1. /\ r \in IssuerStatusPublicationRecord /\ r.status = "failed" /\ r.issuer = u.issuer
          /\ r.version = was.version /\ r.standing = was.standing /\ r.expires = was.expires
        BY <1>0, <1>1, <1>2, RequestedType
           DEF IssuerStatusPublicationRecord, IssuerStatusPublicationStatus
    <2>2. e \in IssuerRegistryAuditEvent /\ e.type = "publication_failed"
        BY <1>0 DEF Event, IssuerRegistryAuditEvent
    <2>3. publication' = [publication EXCEPT ![u.publication] = r]
        BY <1>0, <1>1, <1>2 DEF Fails
    <2>4. Records(u.issuer, e) /\ Ends(s) /\ Unlocks(s) /\ UNCHANGED <<issuer, now>>
        BY <1>2 DEF Fails
    <2>. HIDE DEF r, e
    <2>. QED  BY <1>1, <1>2, <2>1, <2>2, <2>3, <2>4, Settles
<1>3. ASSUME SigningFails(s)  PROVE RegistryInv'
    BY <1>2, <1>3 DEF SigningFails, Publishing
<1>4. ASSUME DiscardPublication(s)  PROVE RegistryInv'
    BY <1>2, <1>4 DEF DiscardPublication, Publishing
<1>5. ASSUME CompletePublication(s)  PROVE RegistryInv'
    <2>. DEFINE r == [was EXCEPT !.status = "completed", !.issued = u.at,
                                 !.expires = u.at + TTL, !.completed = now]
                e == Event("published", Unregistered, u.row, now)
    <2>1. u.step = "check" /\ u.row = [standing |-> was.standing, version |-> was.version]
        BY <1>5 DEF CompletePublication, Unchanged
    <2>2. /\ u.step \in Publishing /\ lock[u.issuer] = s /\ u.row = issuer[u.issuer]
        BY <1>0, <2>1 DEF Publishing, Holding, Sound, RegistryInv, HoldersLock
    <2>3. was.version = issuer[u.issuer].version
        BY <2>1, <2>2
    <2>4. /\ r \in IssuerStatusPublicationRecord /\ r.status = "completed" /\ r.issuer = u.issuer
          /\ r.version = was.version /\ r.standing = was.standing /\ r.expires = u.at + TTL
        <3>1. was \in IssuerStatusPublicationRecord /\ was.status = "requested" /\ was.issuer = u.issuer
            BY <1>1, <2>2
        <3>2. u.at + TTL \in Nat
            BY <1>0, RegistryAssumption DEF RegistryAssumption
        <3>. HIDE DEF was, u
        <3>. QED  BY <1>0, <3>1, <3>2, RequestedType
                  DEF IssuerStatusPublicationRecord, IssuerStatusPublicationStatus
    <2>5. e \in IssuerRegistryAuditEvent /\ e.type = "published" /\ e.resulting = u.row
        BY <1>0 DEF Event, IssuerRegistryAuditEvent
    <2>6. publication' = [publication EXCEPT ![u.publication] = r]
        BY <1>0, <1>1, <2>2, <1>5 DEF CompletePublication
    <2>7. Records(u.issuer, e) /\ Ends(s) /\ Unlocks(s) /\ UNCHANGED <<issuer, now>>
        BY <1>5 DEF CompletePublication
    <2>8. u.at + TTL <= now + TTL
        BY <1>0, RegistryAssumption DEF RegistryAssumption
    <2>. HIDE DEF r, e
    <2>. QED  BY <1>1, <2>2, <2>3, <2>4, <2>5, <2>6, <2>7, <2>8, Settles
<1>. QED  BY <1>3, <1>4, <1>5

LEMMA Ticks ==
    ASSUME RegistryInv, Tick
    PROVE  RegistryInv'
<1>1. now' = now + 1 /\ UNCHANGED <<issuer, lock, publication, audit, session>> /\ now \in Nat
    BY DEF Tick, RegistryInv, TypeOK
<1>2. TypeOK'
    BY <1>1 DEF RegistryInv, TypeOK
<1>3. \A i \in Issuers : Changes(i)' = Changes(i)
    BY <1>1 DEF Changes
<1>4. ASSUME NEW s \in Sessions  PROVE Sound(session[s])'
    <2>1. Sound(session[s]) /\ session[s].at \in Nat
        BY SessionType DEF RegistryInv, TypeOK
    <2>. QED  BY <1>1, <2>1 DEF Sound, Changes
<1>5. ASSUME NEW p \in Publications  PROVE PublicationSound(p)'
    <2>1. PublicationSound(p) /\ publication[p].expires \in Nat
        BY PublicationType DEF RegistryInv, TypeOK
    <2>. QED  BY <1>1, <2>1, RegistryAssumption DEF PublicationSound, RegistryAssumption
<1>6. ASSUME NEW i \in Issuers  PROVE AuditSound(i)'
    <2>1. AuditSound(i)
        BY DEF RegistryInv
    <2>2. \A n \in Changes(i) : audit[i][n].at \in Nat
        BY EventType DEF RegistryInv, Changes
    <2>. QED  BY <1>1, <1>3, <2>1, <2>2 DEF AuditSound
<1>7. ASSUME NEW i \in Issuers  PROVE Explained(i)'
    <2>1. \A n : Earlier(i, n)' = Earlier(i, n)
        BY <1>3 DEF Earlier
    <2>2. Explained(i)
        BY DEF RegistryInv, AuditExplainsRecord
    <2>. QED  BY <1>1, <1>3, <2>1, <2>2 DEF Explained
<1>8. PublishedInItsVersion'
    BY <1>1, <1>3 DEF RegistryInv, PublishedInItsVersion
<1>9. EarlierStandingExpires'
    BY <1>1 DEF RegistryInv, EarlierStandingExpires, Changes
<1>10. HoldersLock' /\ OnePublisher'
    BY <1>1 DEF RegistryInv, HoldersLock, OnePublisher
<1>. QED  BY <1>2, <1>4, <1>5, <1>6, <1>7, <1>8, <1>9, <1>10 DEF RegistryInv, AuditExplainsRecord

LEMMA Initially == Init => RegistryInv
<1>. SUFFICES ASSUME Init  PROVE RegistryInv
    OBVIOUS
<1>1. TypeOK
    BY IdleType DEF Init, TypeOK, IssuerRegistryRecord, IssuerStatusPublicationRecord
<1>2. \A i \in Issuers : Changes(i) = {} /\ issuer[i] = Unregistered /\ DOMAIN audit[i] = {}
    BY DEF Init, Changes
<1>3. \A s \in Sessions : Sound(session[s]) /\ session[s].step = "idle"
    BY IdleType DEF Init, Sound, Holding, Publishing
<1>4. \A p \in Publications : publication[p].status = "none"
    BY DEF Init, NoRecord
<1>5. \A i \in Issuers : AuditSound(i)
    BY <1>2, FS_EmptySet DEF AuditSound, Unregistered
<1>6. \A i \in Issuers : Explained(i)
    BY <1>2 DEF Explained
<1>7. HoldersLock /\ OnePublisher
    BY <1>3 DEF HoldersLock, OnePublisher, Holding, Publishing
<1>8. PublishedInItsVersion /\ EarlierStandingExpires
    BY <1>2, <1>4 DEF PublishedInItsVersion, EarlierStandingExpires
<1>. QED  BY <1>1, <1>3, <1>4, <1>5, <1>6, <1>7, <1>8
          DEF RegistryInv, PublicationSound, AuditExplainsRecord

LEMMA Inductive == RegistryInv /\ [Next]_vars => RegistryInv'
<1>. SUFFICES ASSUME RegistryInv, [Next]_vars  PROVE RegistryInv'
    OBVIOUS
<1>1. CASE Tick
    BY <1>1, Ticks
<1>2. ASSUME NEW s \in Sessions, Operates(s)  PROVE RegistryInv'
    <2>1. ASSUME NEW i \in Issuers,
                 \/ FindByIdentity(s, i) \/ RevokeAgain(s, i) \/ LockStatus(s, i)
                 \/ \E target \in IssuerStanding : LockChange(s, i, target)
                 \/ \E p \in Publications : RequestPublication(s, i, p)
          PROVE  RegistryInv'
        BY <2>1, Arrivals, Publishes
    <2>2. ASSUME \/ InsertIssuer(s) \/ StampChange(s) \/ CommitChange(s)
                 \/ BuildStatement(s) \/ StatusSigned(s) \/ SigningFails(s)
                 \/ Relock(s) \/ DiscardPublication(s) \/ CompletePublication(s)
                 \/ AnswerStatus(s) \/ EndSession(s)
          PROVE  RegistryInv'
        BY <2>2, Progress, StandingChanges, Settlements
    <2>. QED  BY <1>2, <2>1, <2>2 DEF Operates
<1>3. CASE UNCHANGED vars
    <2>1. UNCHANGED <<issuer, publication, audit, now, lock, session>>
        BY <1>3 DEF vars
    <2>2. TypeOK'
        BY <2>1 DEF RegistryInv, TypeOK
    <2>3. TablesSound'
        BY <2>1, <2>2, TablesKept
    <2>4. ASSUME NEW s \in Sessions  PROVE Sound(session[s])'
        BY <2>1 DEF RegistryInv, Sound, Changes
    <2>5. HoldersLock' /\ OnePublisher'
        BY <2>1 DEF RegistryInv, HoldersLock, OnePublisher
    <2>. QED  BY <2>2, <2>3, <2>4, <2>5 DEF RegistryInv, TablesSound
<1>. QED  BY <1>1, <1>2, <1>3 DEF Next

-----------------------------------------------------------------------------
(* The theorems *)

LEMMA Invariant == Spec => []RegistryInv
    BY Initially, Inductive, PTL DEF Spec

\* Whatever the sessions and their order, the audit of every issuer explains
\* its record: _change_standing loses no change and starts from no stale one.
THEOREM AuditExplains == Spec => []AuditExplainsRecord
<1>1. RegistryInv => AuditExplainsRecord
    BY DEF RegistryInv
<1>. QED  BY <1>1, Invariant, PTL

\* A status is published in the version it names, although publish_status
\* signs it without the lock.
THEOREM PublishedInVersion == Spec => []PublishedInItsVersion
<1>1. RegistryInv => PublishedInItsVersion
    BY DEF RegistryInv
<1>. QED  BY <1>1, Invariant, PTL

\* An artifact of an earlier standing outlives the change by at most
\* artifact_ttl_seconds, whatever the delay of the signer.
THEOREM EarlierExpires == Spec => []EarlierStandingExpires
<1>1. RegistryInv => EarlierStandingExpires
    BY DEF RegistryInv
<1>. QED  BY <1>1, Invariant, PTL

\* latest_status_artifact never serves a prior registry-state version.
THEOREM AnswersCurrent == Spec => []AnswersCurrentStanding
<1>1. RegistryInv => AnswersCurrentStanding
    <2>. SUFFICES ASSUME RegistryInv, NEW s \in Sessions, session[s].step = "answer"
                  PROVE  LET record == publication[session[s].publication] IN
                         /\ issuer[session[s].issuer] =
                               [standing |-> record.standing, version |-> record.version]
                         /\ session[s].at < record.expires
        BY DEF AnswersCurrentStanding
    <2>1. PICK p \in Publications, i \in Issuers :
             p = session[s].publication /\ i = session[s].issuer
        BY DEF RegistryInv, Sound
    <2>2. /\ publication[p].status = "completed" /\ publication[p].issuer = i
          /\ publication[p].version = issuer[i].version
          /\ session[s].at < publication[p].expires
        BY <2>1 DEF RegistryInv, Sound, Holding
    <2>3. publication[p].standing = issuer[i].standing
        BY <2>2 DEF RegistryInv, PublicationSound
    <2>4. issuer[i] = [standing |-> issuer[i].standing, version |-> issuer[i].version]
        BY RowType DEF RegistryInv, TypeOK
    <2>. QED  BY <2>1, <2>2, <2>3, <2>4
<1>. QED  BY <1>1, Invariant, PTL

\* Nothing gives a revoked issuer another standing, and a version is never
\* lost or skipped: the lock taken by _change_standing covers its check.
THEOREM RevocationFinal == Spec => RevocationIsFinal
<1>. DEFINE Final == \A i \in Issuers :
                /\ issuer[i].standing = "revoked" => issuer'[i] = issuer[i]
                /\ issuer'[i].version \in {issuer[i].version, issuer[i].version + 1}
<1>1. ASSUME RegistryInv, [Next]_vars  PROVE [Final]_vars
    <2>0. issuer \in [Issuers -> IssuerRegistryRecord]
        BY <1>1 DEF RegistryInv, TypeOK
    <2>1. CASE UNCHANGED issuer
        BY <2>1
    <2>2. ASSUME NEW s \in Sessions, InsertIssuer(s)  PROVE Final
        BY <2>0, <2>2 DEF InsertIssuer, Unregistered
    <2>3. ASSUME NEW s \in Sessions, CommitChange(s)  PROVE Final
        <3>1. /\ session[s].row = issuer[session[s].issuer] /\ session[s].row.standing # "revoked"
              /\ session[s].issuer \in Issuers
            BY <1>1, <2>3 DEF CommitChange, RegistryInv, Sound, Holding
        <3>. QED  BY <2>0, <2>3, <3>1 DEF CommitChange
    <2>4. CASE UNCHANGED vars
        BY <2>4 DEF vars
    <2>5. ASSUME NEW s \in Sessions, Operates(s), issuer' # issuer
          PROVE  InsertIssuer(s) \/ CommitChange(s)
        BY <2>5 DEF Operates, FindByIdentity, RevokeAgain, LockStatus, LockChange,
           RequestPublication, StampChange, BuildStatement, StatusSigned, SigningFails, Relock,
           DiscardPublication, CompletePublication, AnswerStatus, EndSession, Fails
    <2>. QED  BY <1>1, <2>1, <2>2, <2>3, <2>4, <2>5 DEF Next, Tick
<1>. QED  BY <1>1, Invariant, PTL DEF Spec, RevocationIsFinal
=============================================================================
