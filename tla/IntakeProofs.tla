----------------------------- MODULE IntakeProofs ------------------------------
(***************************************************************************)
(* Proofs about Intake: PolicyEngine.evaluate for any rules, and intakes   *)
(* and policy changes for any sessions, policies, keys and payloads.       *)
(***************************************************************************)
EXTENDS Intake, WellFoundedInduction, TLAPS

-----------------------------------------------------------------------------
(* The inductive invariant *)

\* A decision on payload x under version v of its policy is what the policy said
\* at a time at which it was active.
ExplainedBy(x, d, v) ==
    /\ d.policy = None => d = evaluate(x, None, None)
    /\ d.policy # None =>
         /\ d.policy \in Policies
         /\ policy[d.policy].status # "none" /\ policy[d.policy].version = v
         /\ \E c \in wasActive[d.policy] : d = evaluate(x, d.policy, c)

PolicySound(p) ==
    /\ policy[p].status # "none" => policy[p].content \in Contents
    /\ policy[p].status = "active" => policy[p].content \in wasActive[p]

SessionSound(q) ==
    /\ q.step \in {"version", "update", "actives", "activate"} => q.policy \in Policies
    /\ q.step \in {"update", "actives", "activate"} => policy[q.policy].status # "none"
    /\ q.step = "version" => policy[q.policy].status = "none"
    /\ q.step \in {"version", "update"} => q.content \in Contents
    /\ q.step = "update" => q.loaded.content \in Contents
    /\ \A p \in q.actives : p # q.policy /\ policy[p].status # "none"
    /\ q.step \in {"policy", "insert"} => q.key \in Keys /\ q.payload \in Payloads
    /\ q.step = "insert" =>
         /\ q.decision \in PolicyDecision
         /\ ExplainedBy(q.payload, q.decision,
                        IF q.decision.policy = None THEN 0 ELSE q.loaded.version)

\* The policy a session is about to insert is its own.
OwnInsertions ==
    \A s, t \in Sessions :
        session[s].step = "version" /\ session[s].policy = session[t].policy => s = t

AnswersSound ==
    \A x \in answered : x.key \in DOMAIN record /\ x.decision = record[x.key].decision

RecordsSound ==
    \A k \in DOMAIN record : ExplainedBy(record[k].payload, record[k].decision, record[k].version)

IntakeInv ==
    /\ TypeOK
    /\ \A p \in Policies : PolicySound(p)
    /\ \A s \in Sessions : SessionSound(session[s])
    /\ OwnInsertions
    /\ RecordsSound
    /\ AnswersSound

-----------------------------------------------------------------------------
(* PolicyEngine.evaluate *)

LEMMA LeastNatural ==
    ASSUME NEW S \in SUBSET Nat, S # {}
    PROVE  \E x \in S : \A y \in S : x <= y
<1>1. PICK x \in S : \A y \in S : ~(<<y, x>> \in OpToRel(<, Nat))
    BY NatLessThanWellFounded, WFMin
<1>2. ASSUME NEW y \in S  PROVE x <= y
    <2>1. x \in Nat /\ y \in Nat
        OBVIOUS
    <2>2. ~(y < x)
        BY <1>1, <2>1 DEF OpToRel
    <2>. QED  BY <2>1, <2>2
<1>. QED  BY <1>2

\* The first of the rules that match, in the order of priority and position, is
\* well defined for every list and is what FirstMatch finds: sorted(enumerate(...),
\* key=(priority, index)) and the loop over it.
THEOREM FirstMatchIsFirst ==
    ASSUME NEW rules \in RuleLists, NEW fields
    PROVE  LET n == FirstMatch(rules, fields)
               matching == {m \in DOMAIN rules : Matches(rules[m], fields)}
           IN  /\ n = 0 <=> matching = {}
               /\ n # 0 => /\ n \in matching
                           /\ \A m \in matching :
                                \/ rules[n].priority < rules[m].priority
                                \/ rules[n].priority = rules[m].priority /\ n <= m
<1>. DEFINE matching == {m \in DOMAIN rules : Matches(rules[m], fields)}
            First(n) == \A m \in matching :
                            \/ rules[n].priority < rules[m].priority
                            \/ rules[n].priority = rules[m].priority /\ n <= m
<1>1. /\ DOMAIN rules \subseteq Nat \ {0}
      /\ \A n \in DOMAIN rules : rules[n].priority \in Nat
    BY PolicyAssumption DEF PolicyAssumption
<1>2. CASE matching = {}
    BY <1>2 DEF FirstMatch
<1>3. CASE matching # {}
    <2>1. PICK priorities : priorities = {rules[m].priority : m \in matching}
        OBVIOUS
    <2>2. priorities \in SUBSET Nat /\ priorities # {}
        BY <1>1, <1>3, <2>1
    <2>3. PICK v \in priorities : \A w \in priorities : v <= w
        BY <2>2, LeastNatural
    <2>4. PICK best : best = {m \in matching : rules[m].priority = v}
        OBVIOUS
    <2>5. best \in SUBSET Nat /\ best # {}
        BY <1>1, <2>1, <2>3, <2>4
    <2>6. PICK n \in best : \A m \in best : n <= m
        BY <2>5, LeastNatural
    <2>7. n \in matching /\ rules[n].priority = v
        BY <2>4, <2>6
    <2>8. ASSUME NEW m \in matching
          PROVE  \/ rules[n].priority < rules[m].priority
                 \/ rules[n].priority = rules[m].priority /\ n <= m
        <3>1. /\ rules[m].priority \in priorities /\ v <= rules[m].priority
              /\ rules[m].priority \in Nat /\ v \in Nat
            BY <1>1, <2>1, <2>2, <2>3
        <3>2. rules[m].priority = v => n <= m
            BY <2>4, <2>6
        <3>. QED  BY <2>7, <3>1, <3>2
    <2>9. n \in matching /\ First(n)
        BY <2>7, <2>8
    <2>10. FirstMatch(rules, fields) = CHOOSE m \in matching : First(m)
        BY <1>3 DEF FirstMatch
    <2>11. FirstMatch(rules, fields) \in matching /\ First(FirstMatch(rules, fields))
        <3>. HIDE DEF matching, First
        <3>. QED  BY <2>9, <2>10
    <2>. QED  BY <1>1, <2>11
<1>. QED  BY <1>2, <1>3

LEMMA DecisionType ==
    ASSUME NEW state \in DecisionState, NEW rule \in Nat, NEW p \in Policies \cup {None},
           NEW approval \in BOOLEAN, NEW evidence \in BOOLEAN
    PROVE  /\ Decision(state, rule, p, approval, evidence) \in PolicyDecision
           /\ Decision(state, rule, p, approval, evidence).policy = p
    BY DEF Decision, PolicyDecision

LEMMA GovernedType ==
    ASSUME NEW payload, NEW c \in Contents, NEW p \in Policies
    PROVE  Governed(payload, c, p) \in PolicyDecision /\ Governed(payload, c, p).policy = p
<1>0. c.default \in DecisionState /\ c.rules \in RuleLists
    BY PolicyAssumption DEF Contents, PolicyAssumption
<1>. DEFINE n == FirstMatch(c.rules, payload.fields)
<1>1. n = 0 \/ n \in DOMAIN c.rules
    BY <1>0, FirstMatchIsFirst
<1>2. CASE c.classes # {} /\ payload.class \notin c.classes
    <2>1. Governed(payload, c, p) = Decision("deny", 0, p, FALSE, FALSE)
        BY <1>2 DEF Governed
    <2>. QED  BY <2>1 DEF Decision, PolicyDecision, DecisionState
<1>3. CASE (c.classes = {} \/ payload.class \in c.classes) /\ n = 0
    <2>1. Governed(payload, c, p) = Decision(c.default, 0, p, FALSE, FALSE)
        BY <1>3 DEF Governed
    <2>. QED  BY <1>0, <2>1 DEF Decision, PolicyDecision
<1>4. CASE (c.classes = {} \/ payload.class \in c.classes) /\ n # 0
    <2>1. Governed(payload, c, p)
            = Decision(c.rules[n].decision, n, p, c.rules[n].approval, c.rules[n].evidence)
        BY <1>4 DEF Governed
    <2>2. /\ n \in Nat /\ c.rules[n].decision \in DecisionState
          /\ c.rules[n].approval \in BOOLEAN /\ c.rules[n].evidence \in BOOLEAN
        BY <1>0, <1>1, <1>4, PolicyAssumption DEF PolicyAssumption
    <2>. HIDE DEF n
    <2>. QED  BY <2>1, <2>2, DecisionType
<1>. QED  BY <1>2, <1>3, <1>4

LEMMA EvaluateType ==
    ASSUME NEW payload, NEW p \in Policies \cup {None}, NEW c, p # None => c \in Contents
    PROVE  LET d == evaluate(payload, p, c)
           IN  /\ d \in PolicyDecision
               /\ d.policy \in {p, None}
               /\ d.policy = None => d = evaluate(payload, None, None)
<1>1. /\ Decision("structurally_non_executable", 0, None, FALSE, FALSE) \in PolicyDecision
      /\ Decision("structurally_non_executable", 0, None, FALSE, FALSE).policy = None
      /\ Decision("deny", 0, None, FALSE, FALSE) \in PolicyDecision
      /\ Decision("deny", 0, None, FALSE, FALSE).policy = None
    BY DEF Decision, PolicyDecision, DecisionState
<1>2. p # None => Governed(payload, c, p) \in PolicyDecision /\ Governed(payload, c, p).policy = p
    BY GovernedType
<1>. QED  BY <1>1, <1>2, IntakeAssumption DEF evaluate, IntakeAssumption

-----------------------------------------------------------------------------
(* Types *)

LEMMA IdleType ==
    /\ Idle \in Session /\ Idle.step = "idle" /\ Idle.actives = {} /\ Idle.policy = None
    BY DEF Idle, Session, NoPolicy, Policy

LEMMA SessionType ==
    ASSUME NEW q \in Session
    PROVE  /\ q.step \in {"idle", "version", "update", "actives", "activate", "policy", "insert"}
           /\ q.policy \in Policies \cup {None} /\ q.loaded \in Policy /\ q.loaded.version \in Nat
           /\ q.actives \subseteq Policies /\ q.key \in Keys \cup {None}
    BY DEF Session, Policy

-----------------------------------------------------------------------------
(* What the steps have in common *)

\* A policy once inserted stays, under its version, and what was active is kept.
Grows ==
    /\ \A p \in Policies : policy[p].status # "none" =>
          policy'[p].status # "none" /\ policy'[p].version = policy[p].version
    /\ \A p \in Policies : wasActive[p] \subseteq wasActive'[p]

\* Session s goes on as new, and the policy it is about to insert is its own.
OwnStart(s, new) ==
    \A t \in Sessions \ {s} :
        new.step = "version" \/ session[t].step = "version" => session[t].policy # new.policy

Turn(s, new) ==
    /\ session' = [session EXCEPT ![s] = new]
    /\ new \in Session
    /\ OwnStart(s, new)

Records ==
    \/ UNCHANGED <<record, answered>>
    \/ /\ DOMAIN record' \subseteq Keys
       /\ \A k \in DOMAIN record' : record'[k] \in ActionIntentRecord
       /\ RecordsSound' /\ AnswersSound'

LEMMA ExplainedGrows ==
    ASSUME Grows, NEW x, NEW d, NEW v, ExplainedBy(x, d, v)
    PROVE  ExplainedBy(x, d, v)'
    BY DEF Grows, ExplainedBy

LEMMA SessionGrows ==
    ASSUME NEW q \in Session, Grows, SessionSound(q),
           q.step = "version" => policy'[q.policy].status = "none"
    PROVE  SessionSound(q)'
<1>1. q.actives \subseteq Policies
    BY SessionType
<1>2. q.step = "insert" => ExplainedBy(q.payload, q.decision,
                 IF q.decision.policy = None THEN 0 ELSE q.loaded.version)'
    BY ExplainedGrows DEF SessionSound
<1>. QED  BY <1>1, <1>2 DEF SessionSound, Grows

LEMMA OwnAfter ==
    ASSUME IntakeInv, NEW s \in Sessions, NEW new \in Session, OwnStart(s, new),
           session' = [session EXCEPT ![s] = new]
    PROVE  OwnInsertions'
<1>1. session \in [Sessions -> Session] /\ OwnInsertions
    BY DEF IntakeInv, TypeOK
<1>. SUFFICES ASSUME NEW a \in Sessions, NEW b \in Sessions, a # b,
                     session'[a].step = "version", session'[a].policy = session'[b].policy
              PROVE  FALSE
    BY DEF OwnInsertions
<1>2. CASE a # s /\ b # s
    BY <1>1, <1>2 DEF OwnInsertions
<1>3. CASE a = s
    BY <1>1, <1>3 DEF OwnStart
<1>4. CASE b = s
    BY <1>1, <1>4 DEF OwnStart
<1>. QED  BY <1>2, <1>3, <1>4

\* A request goes on and leaves the policies alone.
LEMMA SessionStep ==
    ASSUME IntakeInv, NEW s \in Sessions, NEW new, Turn(s, new), SessionSound(new),
           UNCHANGED <<policy, wasActive>>, Records, steps' \in 0..MaxSteps
    PROVE  IntakeInv'
<1>1. /\ TypeOK /\ RecordsSound /\ AnswersSound
      /\ \A t \in Sessions : SessionSound(session[t])
      /\ \A p \in Policies : PolicySound(p)
    BY DEF IntakeInv
<1>2. Grows
    BY DEF Grows
<1>3. session' \in [Sessions -> Session]
    BY <1>1 DEF TypeOK, Turn
<1>4. /\ DOMAIN record' \subseteq Keys
      /\ \A k \in DOMAIN record' : record'[k] \in ActionIntentRecord
    BY <1>1 DEF Records, TypeOK
<1>5. TypeOK'
    BY <1>1, <1>3, <1>4 DEF TypeOK, Turn
<1>6. RecordsSound' /\ AnswersSound'
    <2>1. CASE UNCHANGED <<record, answered>>
        BY <1>1, <2>1 DEF RecordsSound, AnswersSound, ExplainedBy
    <2>. QED  BY <2>1 DEF Records
<1>7. ASSUME NEW t \in Sessions  PROVE SessionSound(session[t])'
    <2>1. PICK q : q = session'[t]
        OBVIOUS
    <2>2. q \in Session /\ SessionSound(q)
        BY <1>1, <2>1 DEF Turn, TypeOK
    <2>3. q.step = "version" => policy'[q.policy].status = "none"
        BY <2>2 DEF SessionSound
    <2>4. SessionSound(q)'
        BY <1>2, <2>2, <2>3, SessionGrows
    <2>. QED  BY <2>1, <2>4
<1>8. ASSUME NEW p \in Policies  PROVE PolicySound(p)'
    BY <1>1 DEF PolicySound
<1>9. OwnInsertions'
    BY OwnAfter DEF Turn
<1>. QED  BY <1>5, <1>6, <1>7, <1>8, <1>9 DEF IntakeInv

\* A policy request commits and ends.
Commit(s, new) ==
    /\ Commits(new)
    /\ Ends(s)
    /\ UNCHANGED <<record, answered, steps>>
    /\ new \in [Policies -> Policy]
    /\ \A p \in Policies : policy[p].status # "none" =>
          new[p].status # "none" /\ new[p].version = policy[p].version
    /\ \A p \in Policies : new[p].status # "none" => new[p].content \in Contents
    /\ \A t \in Sessions \ {s} :
          session[t].step = "version" => new[session[t].policy].status = "none"

LEMMA IdleTurn ==
    ASSUME IntakeInv, NEW s \in Sessions, Ends(s)
    PROVE  Turn(s, Idle) /\ SessionSound(Idle)
<1>1. TypeOK /\ \A t \in Sessions : SessionSound(session[t])
    BY DEF IntakeInv
<1>2. OwnStart(s, Idle)
    BY <1>1, IdleType, IntakeAssumption DEF OwnStart, SessionSound, IntakeAssumption
<1>3. SessionSound(Idle)
    BY IdleType DEF SessionSound
<1>. QED  BY <1>1, <1>2, <1>3, IdleType DEF Turn, Ends, TypeOK

LEMMA CommitStep ==
    ASSUME IntakeInv, NEW s \in Sessions, NEW new, Commit(s, new)
    PROVE  IntakeInv'
<1>. USE DEF Commit
<1>1. /\ TypeOK /\ RecordsSound /\ AnswersSound
      /\ \A t \in Sessions : SessionSound(session[t])
      /\ \A p \in Policies : PolicySound(p)
    BY DEF IntakeInv
<1>2. Turn(s, Idle) /\ SessionSound(Idle)
    BY IdleTurn
<1>3. /\ policy' = new
      /\ \A p \in Policies : wasActive'[p] = wasActive[p] \cup
            (IF new[p].status = "active" THEN {new[p].content} ELSE {})
    BY DEF Commits
<1>4. Grows
    BY <1>3 DEF Grows
<1>5. wasActive' \in [Policies -> SUBSET Contents]
    <2>1. \A p \in Policies : wasActive[p] \cup
             (IF new[p].status = "active" THEN {new[p].content} ELSE {}) \in SUBSET Contents
        BY <1>1 DEF TypeOK
    <2>. QED  BY <2>1 DEF Commits
<1>6. session' \in [Sessions -> Session]
    BY <1>1, IdleType DEF TypeOK, Ends
<1>7. TypeOK'
    BY <1>1, <1>3, <1>5, <1>6 DEF TypeOK
<1>8. RecordsSound'
    <2>1. ASSUME NEW k \in DOMAIN record
          PROVE  ExplainedBy(record[k].payload, record[k].decision, record[k].version)'
        <3>1. PICK r : r = record[k]
            OBVIOUS
        <3>2. ExplainedBy(r.payload, r.decision, r.version)
            BY <1>1, <3>1 DEF RecordsSound
        <3>3. ExplainedBy(r.payload, r.decision, r.version)'
            BY <1>4, <3>2, ExplainedGrows
        <3>. QED  BY <3>1, <3>3
    <2>. QED  BY <2>1 DEF RecordsSound
<1>9. AnswersSound'
    BY <1>1 DEF AnswersSound
<1>10. ASSUME NEW t \in Sessions  PROVE SessionSound(session[t])'
    <2>1. PICK q : q = session'[t]
        OBVIOUS
    <2>2. CASE t = s
        <3>1. q = Idle
            BY <1>1, <2>1, <2>2 DEF Ends, TypeOK
        <3>2. SessionSound(q)'
            BY <1>2, <1>4, <3>1, SessionGrows, IdleType
        <3>. QED  BY <2>1, <3>2
    <2>3. CASE t # s
        <3>1. q = session[t] /\ q \in Session
            BY <1>1, <2>1, <2>3 DEF Ends, TypeOK
        <3>2. q.step = "version" => policy'[q.policy].status = "none"
            BY <1>3, <2>3, <3>1
        <3>3. SessionSound(q)'
            BY <1>1, <1>4, <3>1, <3>2, SessionGrows
        <3>. QED  BY <2>1, <3>3
    <2>. QED  BY <2>2, <2>3
<1>11. ASSUME NEW p \in Policies  PROVE PolicySound(p)'
    BY <1>3 DEF PolicySound
<1>12. OwnInsertions'
    BY <1>2, OwnAfter DEF Turn
<1>. QED  BY <1>7, <1>8, <1>9, <1>10, <1>11, <1>12 DEF IntakeInv

-----------------------------------------------------------------------------
(* PolicyManagementService *)

LEMMA ReadVersionStep ==
    ASSUME IntakeInv, NEW s \in Sessions, NEW p \in Policies, NEW c \in Contents,
           ReadVersion(s, p, c)
    PROVE  IntakeInv'
<1>1. TypeOK /\ \A t \in Sessions : SessionSound(session[t])
    BY DEF IntakeInv
<1>2. PICK latest \in {policy[q].version : q \in Policies} :
         Begins(s, [Idle EXCEPT !.step = "version", !.policy = p, !.content = c,
                                !.loaded = [NoPolicy EXCEPT !.version = latest + 1]])
    BY DEF ReadVersion
<1>3. latest \in Nat
    BY <1>1 DEF TypeOK, Policy
<1>4. PICK new : new = [Idle EXCEPT !.step = "version", !.policy = p, !.content = c,
                                    !.loaded = [NoPolicy EXCEPT !.version = latest + 1]]
    OBVIOUS
<1>5. /\ new \in Session /\ new.step = "version" /\ new.policy = p /\ new.content = c
      /\ new.actives = {}
    <2>1. PICK row : row = [NoPolicy EXCEPT !.version = latest + 1]
        OBVIOUS
    <2>2. row \in Policy
        BY <1>3, <2>1 DEF NoPolicy, Policy
    <2>3. new = [Idle EXCEPT !.step = "version", !.policy = p, !.content = c, !.loaded = row]
        BY <1>4, <2>1
    <2>. QED  BY <2>2, <2>3 DEF Idle, Session
<1>6. OwnStart(s, new)
    BY <1>5 DEF OwnStart, ReadVersion
<1>7. Turn(s, new)
    BY <1>1, <1>2, <1>4, <1>5, <1>6 DEF Turn, Begins, ReadVersion, TypeOK
<1>8. SessionSound(new)
    BY <1>5 DEF SessionSound, ReadVersion, NoPolicy
<1>9. steps' \in 0..MaxSteps
    BY <1>1, <1>2, IntakeAssumption DEF Begins, TypeOK, IntakeAssumption
<1>. QED  BY <1>7, <1>8, <1>9, SessionStep DEF ReadVersion, Records

LEMMA LoadDraftStep ==
    ASSUME IntakeInv, NEW s \in Sessions, NEW p \in Policies, NEW c \in Contents,
           LoadDraft(s, p, c)
    PROVE  IntakeInv'
<1>1. /\ TypeOK /\ \A t \in Sessions : SessionSound(session[t])
      /\ PolicySound(p) /\ policy[p] \in Policy
    BY DEF IntakeInv, TypeOK
<1>2. PICK new : new = [Idle EXCEPT !.step = "update", !.policy = p, !.loaded = policy[p],
                                    !.content = c]
    OBVIOUS
<1>3. /\ new \in Session /\ new.step = "update" /\ new.policy = p /\ new.content = c
      /\ new.actives = {} /\ new.loaded = policy[p]
    BY <1>1, <1>2 DEF Idle, Session
<1>4. OwnStart(s, new)
    BY <1>1, <1>3 DEF OwnStart, LoadDraft, SessionSound
<1>5. Turn(s, new)
    BY <1>1, <1>2, <1>3, <1>4 DEF Turn, Begins, LoadDraft, TypeOK
<1>6. SessionSound(new)
    BY <1>1, <1>3 DEF SessionSound, LoadDraft, PolicySound
<1>7. steps' \in 0..MaxSteps
    BY <1>1, IntakeAssumption DEF LoadDraft, Begins, TypeOK, IntakeAssumption
<1>. QED  BY <1>5, <1>6, <1>7, SessionStep DEF LoadDraft, Records

LEMMA LoadForActivationStep ==
    ASSUME IntakeInv, NEW s \in Sessions, NEW p \in Policies, LoadForActivation(s, p)
    PROVE  IntakeInv'
<1>1. /\ TypeOK /\ \A t \in Sessions : SessionSound(session[t])
      /\ policy[p] \in Policy
    BY DEF IntakeInv, TypeOK
<1>2. PICK new : new = [Idle EXCEPT !.step = "actives", !.policy = p, !.loaded = policy[p]]
    OBVIOUS
<1>3. /\ new \in Session /\ new.step = "actives" /\ new.policy = p
      /\ new.actives = {} /\ new.loaded = policy[p]
    BY <1>1, <1>2 DEF Idle, Session
<1>4. OwnStart(s, new)
    BY <1>1, <1>3 DEF OwnStart, LoadForActivation, SessionSound
<1>5. Turn(s, new)
    BY <1>2, <1>3, <1>4 DEF Turn, Begins, LoadForActivation
<1>6. SessionSound(new)
    BY <1>3 DEF SessionSound, LoadForActivation
<1>7. steps' \in 0..MaxSteps
    BY <1>1, IntakeAssumption DEF LoadForActivation, Begins, TypeOK, IntakeAssumption
<1>. QED  BY <1>5, <1>6, <1>7, SessionStep DEF LoadForActivation, Records

LEMMA SelectActivesStep ==
    ASSUME IntakeInv, NEW s \in Sessions, SelectActives(s)
    PROVE  IntakeInv'
<1>1. /\ TypeOK /\ OwnInsertions /\ SessionSound(session[s])
      /\ session[s] \in Session
    BY DEF IntakeInv, TypeOK
<1>2. PICK q : q = session[s]
    OBVIOUS
<1>3. /\ q \in Session /\ q.step = "actives" /\ q.policy \in Policies
      /\ policy[q.policy].status # "none"
    BY <1>1, <1>2 DEF SelectActives, SessionSound
<1>4. PICK new : new = [q EXCEPT !.step = "activate", !.actives = Actives \ {q.policy}]
    OBVIOUS
<1>5. /\ new \in Session /\ new.step = "activate" /\ new.policy = q.policy
      /\ new.actives = Actives \ {q.policy} /\ new.loaded = q.loaded
    BY <1>3, <1>4 DEF Session, Actives
<1>6. session' = [session EXCEPT ![s] = new]
    BY <1>1, <1>2, <1>4 DEF SelectActives, TypeOK, Session
<1>7. OwnStart(s, new)
    BY <1>1, <1>2, <1>5 DEF OwnStart, OwnInsertions
<1>8. Turn(s, new)
    BY <1>5, <1>6, <1>7 DEF Turn
<1>9. SessionSound(new)
    BY <1>3, <1>5 DEF SessionSound, Actives
<1>10. steps' \in 0..MaxSteps
    BY <1>1 DEF SelectActives, TypeOK
<1>. QED  BY <1>8, <1>9, <1>10, SessionStep DEF SelectActives, Records

LEMMA InsertPolicyStep ==
    ASSUME IntakeInv, NEW s \in Sessions, InsertPolicy(s)
    PROVE  IntakeInv'
<1>1. /\ TypeOK /\ OwnInsertions /\ session[s] \in Session
      /\ \A t \in Sessions : SessionSound(session[t])
      /\ \A p \in Policies : PolicySound(p)
    BY DEF IntakeInv, TypeOK
<1>2. PICK q : q = session[s]
    OBVIOUS
<1>3. /\ q \in Session /\ q.step = "version" /\ q.policy \in Policies /\ q.content \in Contents
      /\ policy[q.policy].status = "none" /\ q.loaded.version \in Nat
    BY <1>1, <1>2, SessionType DEF InsertPolicy, SessionSound
<1>4. PICK row : row = [status |-> "draft", version |-> q.loaded.version, content |-> q.content]
    OBVIOUS
<1>5. row \in Policy /\ row.status = "draft" /\ row.content \in Contents
    BY <1>3, <1>4 DEF Policy, PolicyStatus
<1>6. PICK new : new = [policy EXCEPT ![q.policy] = row]
    OBVIOUS
<1>7. /\ Commits(new) /\ Ends(s) /\ UNCHANGED <<record, answered, steps>>
    BY <1>2, <1>4, <1>6 DEF InsertPolicy
<1>8. /\ new \in [Policies -> Policy] /\ new[q.policy] = row
      /\ \A p \in Policies \ {q.policy} : new[p] = policy[p]
    BY <1>1, <1>3, <1>5, <1>6 DEF TypeOK
<1>9. \A p \in Policies : new[p].status # "none" => new[p].content \in Contents
    BY <1>1, <1>5, <1>8 DEF PolicySound
<1>10. \A t \in Sessions \ {s} :
           session[t].step = "version" => new[session[t].policy].status = "none"
    <2>1. ASSUME NEW t \in Sessions \ {s}, session[t].step = "version"
          PROVE  session[t].policy \in Policies \ {q.policy} /\ policy[session[t].policy].status = "none"
        BY <1>1, <1>2, <2>1 DEF SessionSound, OwnInsertions
    <2>. QED  BY <1>8, <2>1
<1>11. Commit(s, new)
    BY <1>3, <1>7, <1>8, <1>9, <1>10 DEF Commit
<1>. QED  BY <1>11, CommitStep

LEMMA CommitUpdateStep ==
    ASSUME IntakeInv, NEW s \in Sessions, CommitUpdate(s)
    PROVE  IntakeInv'
<1>1. /\ TypeOK /\ session[s] \in Session
      /\ \A t \in Sessions : SessionSound(session[t])
      /\ \A p \in Policies : PolicySound(p)
    BY DEF IntakeInv, TypeOK
<1>2. PICK q : q = session[s]
    OBVIOUS
<1>3. /\ q \in Session /\ q.step = "update" /\ q.policy \in Policies
      /\ q.content \in Contents /\ policy[q.policy].status # "none"
      /\ policy[q.policy].content \in Contents /\ policy[q.policy] \in Policy
    BY <1>1, <1>2 DEF CommitUpdate, SessionSound, PolicySound, TypeOK
<1>4. PICK old : old = policy[q.policy].content
    OBVIOUS
<1>5. PICK c : c = [column \in DOMAIN q.content |->
                       IF q.content[column] = q.loaded.content[column] THEN old[column]
                       ELSE q.content[column]]
    OBVIOUS
<1>6. c \in Contents
    <2>1. /\ DOMAIN q.content = {"classes", "rules", "default"}
          /\ q.content.classes \in ActionClasses /\ q.content.rules \in RuleLists
          /\ q.content.default \in Defaults
          /\ old.classes \in ActionClasses /\ old.rules \in RuleLists /\ old.default \in Defaults
        BY <1>3, <1>4 DEF Contents
    <2>2. /\ c = [column \in {"classes", "rules", "default"} |-> c[column]]
          /\ c["classes"] \in ActionClasses /\ c["rules"] \in RuleLists /\ c["default"] \in Defaults
        BY <1>5, <2>1
    <2>3. c = [classes |-> c["classes"], rules |-> c["rules"], default |-> c["default"]]
        BY <2>2
    <2>. QED  BY <2>2, <2>3 DEF Contents
<1>7. PICK new : new = [policy EXCEPT ![q.policy].content = c]
    OBVIOUS
<1>8. /\ Commits(new) /\ Ends(s) /\ UNCHANGED <<record, answered, steps>>
    BY <1>1, <1>2, <1>3, <1>4, <1>5, <1>7 DEF CommitUpdate, TypeOK
<1>9. /\ new \in [Policies -> Policy]
      /\ new[q.policy].status = policy[q.policy].status
      /\ new[q.policy].version = policy[q.policy].version
      /\ new[q.policy].content = c
      /\ \A p \in Policies \ {q.policy} : new[p] = policy[p]
    BY <1>1, <1>3, <1>6, <1>7 DEF TypeOK, Policy
<1>10. \A p \in Policies : new[p].status = policy[p].status /\ new[p].version = policy[p].version
    BY <1>9
<1>11. \A p \in Policies : new[p].status # "none" => new[p].content \in Contents
    BY <1>1, <1>6, <1>9 DEF PolicySound
<1>12. \A t \in Sessions \ {s} :
           session[t].step = "version" => new[session[t].policy].status = "none"
    BY <1>1, <1>10 DEF SessionSound
<1>13. Commit(s, new)
    BY <1>8, <1>9, <1>10, <1>11, <1>12 DEF Commit
<1>. QED  BY <1>13, CommitStep

LEMMA CommitActivationStep ==
    ASSUME IntakeInv, NEW s \in Sessions, CommitActivation(s)
    PROVE  IntakeInv'
<1>1. /\ TypeOK /\ session[s] \in Session
      /\ \A t \in Sessions : SessionSound(session[t])
      /\ \A p \in Policies : PolicySound(p)
    BY DEF IntakeInv, TypeOK
<1>2. PICK q : q = session[s]
    OBVIOUS
<1>3. /\ q \in Session /\ q.step = "activate" /\ q.policy \in Policies
      /\ policy[q.policy].status # "none" /\ q.actives \subseteq Policies
      /\ \A p \in q.actives : p # q.policy /\ policy[p].status # "none"
    BY <1>1, <1>2, SessionType DEF CommitActivation, SessionSound
<1>4. PICK new : new = [p \in Policies |->
            [policy[p] EXCEPT
                !.status = CASE p \in q.actives -> "retired"
                             [] p = q.policy /\ q.loaded.status # "active" -> "active"
                             [] OTHER -> @]]
    OBVIOUS
<1>5. /\ Commits(new) /\ Ends(s) /\ UNCHANGED <<record, answered, steps>>
    BY <1>2, <1>4 DEF CommitActivation
<1>6. ASSUME NEW p \in Policies
      PROVE  /\ new[p] \in Policy
             /\ new[p].version = policy[p].version /\ new[p].content = policy[p].content
             /\ new[p].status # policy[p].status =>
                   /\ policy[p].status # "none"
                   /\ \/ p \in q.actives /\ new[p].status = "retired"
                      \/ p = q.policy /\ new[p].status = "active"
             /\ p \in q.actives => new[p].status = "retired"
             /\ p \notin q.actives /\ p # q.policy => new[p].status = policy[p].status
    <2>1. policy[p] \in Policy
        BY <1>1 DEF TypeOK
    <2>2. CASE p \in q.actives
        BY <1>3, <1>4, <2>1, <2>2 DEF Policy, PolicyStatus
    <2>3. CASE p \notin q.actives /\ p = q.policy /\ q.loaded.status # "active"
        BY <1>3, <1>4, <2>1, <2>3 DEF Policy, PolicyStatus
    <2>4. CASE p \notin q.actives /\ ~(p = q.policy /\ q.loaded.status # "active")
        BY <1>4, <2>1, <2>4 DEF Policy
    <2>. QED  BY <2>2, <2>3, <2>4
<1>7. new \in [Policies -> Policy]
    BY <1>4, <1>6
<1>8. \A p \in Policies : new[p].status # "none" => new[p].content \in Contents
    BY <1>1, <1>6 DEF PolicySound
<1>9. \A p \in Policies : /\ policy[p].status # "none" => new[p].status # "none"
                          /\ policy[p].status = "none" => new[p].status = "none"
    BY <1>6
<1>10. \A t \in Sessions \ {s} :
           session[t].step = "version" => new[session[t].policy].status = "none"
    BY <1>1, <1>9 DEF SessionSound
<1>11. Commit(s, new)
    BY <1>5, <1>6, <1>7, <1>8, <1>9, <1>10 DEF Commit
<1>. QED  BY <1>11, CommitStep

-----------------------------------------------------------------------------
(* ActionIntentService.intake *)

LEMMA ReplayRecordStep ==
    ASSUME IntakeInv, NEW s \in Sessions, NEW k \in Keys, ReplayRecord(s, k)
    PROVE  IntakeInv'
<1>1. AnswersSound'
    BY DEF IntakeInv, ReplayRecord, AnswersSound
<1>. QED  BY <1>1 DEF IntakeInv, ReplayRecord, TypeOK, PolicySound, SessionSound, OwnInsertions,
                      RecordsSound, ExplainedBy

LEMMA LookupKeyStep ==
    ASSUME IntakeInv, NEW s \in Sessions, NEW k \in Keys, NEW x \in Payloads, LookupKey(s, k, x)
    PROVE  IntakeInv'
<1>1. TypeOK /\ \A t \in Sessions : SessionSound(session[t])
    BY DEF IntakeInv
<1>2. PICK new : new = [Idle EXCEPT !.step = "policy", !.key = k, !.payload = x]
    OBVIOUS
<1>3. /\ new \in Session /\ new.step = "policy" /\ new.policy = None /\ new.key = k
      /\ new.payload = x /\ new.actives = {}
    BY <1>2, IdleType DEF Idle, Session
<1>4. OwnStart(s, new)
    BY <1>1, <1>3, IntakeAssumption DEF OwnStart, SessionSound, IntakeAssumption
<1>5. Turn(s, new)
    BY <1>1, <1>2, <1>3, <1>4 DEF Turn, LookupKey, TypeOK
<1>6. SessionSound(new)
    BY <1>3 DEF SessionSound
<1>7. steps' \in 0..MaxSteps
    BY <1>1 DEF LookupKey, TypeOK
<1>. QED  BY <1>5, <1>6, <1>7, SessionStep DEF LookupKey, Records

LEMMA EvaluatePolicyStep ==
    ASSUME IntakeInv, NEW s \in Sessions, EvaluatePolicy(s)
    PROVE  IntakeInv'
<1>1. /\ TypeOK /\ OwnInsertions /\ session[s] \in Session /\ SessionSound(session[s])
      /\ \A p \in Policies : PolicySound(p) /\ policy[p] \in Policy
    BY DEF IntakeInv, TypeOK
<1>2. PICK q : q = session[s]
    OBVIOUS
<1>3. /\ q \in Session /\ q.step = "policy" /\ q.key \in Keys /\ q.payload \in Payloads
      /\ \A p \in q.actives : p # q.policy /\ policy[p].status # "none"
    BY <1>1, <1>2 DEF EvaluatePolicy, SessionSound
<1>4. PICK p \in get_active_policy :
         session' = [session EXCEPT
              ![s].step = "insert",
              ![s].loaded = IF p = None THEN NoPolicy ELSE policy[p],
              ![s].decision = evaluate(session[s].payload, p,
                                       IF p = None THEN None ELSE policy[p].content)]
    BY DEF EvaluatePolicy
<1>5. p = None \/ (p \in Policies /\ policy[p].status = "active")
    <2>1. CASE Actives = {}
        <3>1. get_active_policy = {None}
            BY <2>1 DEF get_active_policy
        <3>. QED  BY <1>4, <3>1
    <2>2. CASE Actives # {}
        BY <1>4, <2>2 DEF get_active_policy, Actives
    <2>. QED  BY <2>1, <2>2
<1>6. PICK row : row = IF p = None THEN NoPolicy ELSE policy[p]
    OBVIOUS
<1>7. PICK c : c = IF p = None THEN None ELSE policy[p].content
    OBVIOUS
<1>8. PICK d : d = evaluate(q.payload, p, c)
    OBVIOUS
<1>9. row \in Policy /\ (p # None => c \in Contents /\ c \in wasActive[p] /\ row = policy[p])
    BY <1>1, <1>5, <1>6, <1>7 DEF NoPolicy, Policy, PolicySound
<1>10. /\ d \in PolicyDecision /\ d.policy \in {p, None}
       /\ d.policy = None => d = evaluate(q.payload, None, None)
    BY <1>5, <1>8, <1>9, EvaluateType
<1>11. PICK new : new = [q EXCEPT !.step = "insert", !.loaded = row, !.decision = d]
    OBVIOUS
<1>12. /\ new \in Session /\ new.step = "insert" /\ new.policy = q.policy /\ new.key = q.key
       /\ new.payload = q.payload /\ new.actives = q.actives /\ new.loaded = row /\ new.decision = d
    BY <1>3, <1>9, <1>10, <1>11 DEF Session
<1>13. session' = [session EXCEPT ![s] = new]
    BY <1>1, <1>2, <1>4, <1>6, <1>7, <1>8, <1>11 DEF TypeOK, Session
<1>14. OwnStart(s, new)
    BY <1>1, <1>2, <1>12 DEF OwnStart, OwnInsertions
<1>15. Turn(s, new)
    BY <1>1, <1>12, <1>13, <1>14 DEF Turn, EvaluatePolicy, TypeOK
<1>16. ExplainedBy(q.payload, d, IF d.policy = None THEN 0 ELSE row.version)
    BY <1>5, <1>8, <1>9, <1>10 DEF ExplainedBy
<1>17. SessionSound(new)
    BY <1>3, <1>10, <1>12, <1>16 DEF SessionSound
<1>18. steps' \in 0..MaxSteps
    BY <1>1 DEF EvaluatePolicy, TypeOK
<1>. QED  BY <1>15, <1>17, <1>18, SessionStep DEF EvaluatePolicy, Records

LEMMA InsertRecordStep ==
    ASSUME IntakeInv, NEW s \in Sessions, InsertRecord(s)
    PROVE  IntakeInv'
<1>1. /\ TypeOK /\ session[s] \in Session /\ SessionSound(session[s])
      /\ RecordsSound /\ AnswersSound
    BY DEF IntakeInv, TypeOK
<1>2. PICK q : q = session[s]
    OBVIOUS
<1>3. PICK d : d = q.decision
    OBVIOUS
<1>4. PICK v : v = IF d.policy = None THEN 0 ELSE q.loaded.version
    OBVIOUS
<1>5. /\ q.key \in Keys /\ q.payload \in Payloads /\ d \in PolicyDecision /\ v \in Nat
      /\ ExplainedBy(q.payload, d, v) /\ q.key \notin DOMAIN record
    BY <1>1, <1>2, <1>3, <1>4, SessionType DEF InsertRecord, SessionSound
<1>6. PICK r : r = RecordOf(s)
    OBVIOUS
<1>7. r \in ActionIntentRecord /\ r.payload = q.payload /\ r.decision = d /\ r.version = v
    BY <1>2, <1>3, <1>4, <1>5, <1>6, PolicyAssumption
       DEF RecordOf, ActionIntentRecord, PolicyAssumption
<1>8. /\ DOMAIN record' = DOMAIN record \cup {q.key} /\ record'[q.key] = r
      /\ \A k \in DOMAIN record : record'[k] = record[k]
      /\ answered' = answered \cup {[key |-> q.key, decision |-> d]}
    BY <1>2, <1>3, <1>5, <1>6 DEF InsertRecord
<1>9. /\ Ends(s) /\ UNCHANGED <<policy, wasActive, steps>>
    BY DEF InsertRecord
<1>10. /\ DOMAIN record' \subseteq Keys
       /\ \A k \in DOMAIN record' : record'[k] \in ActionIntentRecord
    BY <1>1, <1>5, <1>7, <1>8 DEF TypeOK
<1>11. RecordsSound'
    <2>1. ASSUME NEW k \in DOMAIN record'
          PROVE  ExplainedBy(record'[k].payload, record'[k].decision, record'[k].version)
        <3>1. CASE k = q.key
            BY <1>5, <1>7, <1>8, <3>1
        <3>2. CASE k # q.key
            BY <1>1, <1>8, <3>2 DEF RecordsSound
        <3>. QED  BY <3>1, <3>2
    <2>. QED  BY <1>9, <2>1 DEF RecordsSound, ExplainedBy
<1>12. AnswersSound'
    BY <1>1, <1>7, <1>8 DEF AnswersSound
<1>13. Records
    BY <1>10, <1>11, <1>12 DEF Records
<1>14. Turn(s, Idle) /\ SessionSound(Idle)
    BY <1>9, IdleTurn
<1>15. steps' \in 0..MaxSteps
    BY <1>1, <1>9 DEF TypeOK
<1>. QED  BY <1>9, <1>13, <1>14, <1>15, SessionStep

LEMMA FailsStep ==
    ASSUME IntakeInv, NEW s \in Sessions, Fails(s)
    PROVE  IntakeInv'
<1>1. Turn(s, Idle) /\ SessionSound(Idle)
    BY IdleTurn DEF Fails
<1>2. steps' \in 0..MaxSteps
    BY DEF Fails, IntakeInv, TypeOK
<1>. QED  BY <1>1, <1>2, SessionStep DEF Fails, Records

-----------------------------------------------------------------------------
(* The theorems *)

LEMMA Initially == Init => IntakeInv
<1>. SUFFICES ASSUME Init PROVE IntakeInv
    OBVIOUS
<1>1. NoPolicy \in Policy /\ NoPolicy.status = "none"
    BY DEF NoPolicy, Policy
<1>2. /\ \A p \in Policies : policy[p] = NoPolicy /\ wasActive[p] = {}
      /\ \A s \in Sessions : session[s] = Idle
    BY DEF Init
<1>3. TypeOK
    <2>1. policy \in [Policies -> Policy] /\ session \in [Sessions -> Session]
        BY <1>1, IdleType DEF Init
    <2>2. wasActive \in [Policies -> SUBSET Contents]
        BY DEF Init
    <2>3. DOMAIN record = {}
        BY DEF Init
    <2>4. steps \in 0..MaxSteps
        BY IntakeAssumption DEF Init, IntakeAssumption
    <2>. QED  BY <2>1, <2>2, <2>3, <2>4 DEF TypeOK
<1>4. ASSUME NEW p \in Policies  PROVE PolicySound(p)
    BY <1>1, <1>2 DEF PolicySound
<1>5. SessionSound(Idle)
    BY IdleType DEF SessionSound
<1>6. OwnInsertions
    BY <1>2, IdleType DEF OwnInsertions
<1>7. RecordsSound /\ AnswersSound
    BY DEF RecordsSound, AnswersSound, Init
<1>. QED  BY <1>2, <1>3, <1>4, <1>5, <1>6, <1>7 DEF IntakeInv

LEMMA Inductive == IntakeInv /\ [Next]_vars => IntakeInv'
<1>. SUFFICES ASSUME IntakeInv, [Next]_vars PROVE IntakeInv'
    OBVIOUS
<1>1. CASE UNCHANGED vars
    BY <1>1 DEF vars, IntakeInv, TypeOK, PolicySound, SessionSound, OwnInsertions,
                RecordsSound, AnswersSound, ExplainedBy
<1>2. ASSUME NEW s \in Sessions, Manages(s)  PROVE IntakeInv'
    <2>1. ASSUME NEW p \in Policies, NEW c \in Contents, ReadVersion(s, p, c) \/ LoadDraft(s, p, c)
          PROVE  IntakeInv'
        BY <2>1, ReadVersionStep, LoadDraftStep
    <2>2. ASSUME NEW p \in Policies, LoadForActivation(s, p)  PROVE IntakeInv'
        BY <2>2, LoadForActivationStep
    <2>. QED  BY <1>2, <2>1, <2>2, InsertPolicyStep, CommitUpdateStep, SelectActivesStep,
                 CommitActivationStep DEF Manages
<1>3. ASSUME NEW s \in Sessions, TakesIn(s)  PROVE IntakeInv'
    <2>1. ASSUME NEW k \in Keys, ReplayRecord(s, k)  PROVE IntakeInv'
        BY <2>1, ReplayRecordStep
    <2>2. ASSUME NEW k \in Keys, NEW x \in Payloads, LookupKey(s, k, x)  PROVE IntakeInv'
        BY <2>2, LookupKeyStep
    <2>. QED  BY <1>3, <2>1, <2>2, EvaluatePolicyStep, InsertRecordStep DEF TakesIn
<1>4. ASSUME NEW s \in Sessions, Fails(s)  PROVE IntakeInv'
    BY <1>4, FailsStep
<1>. QED  BY <1>1, <1>2, <1>3, <1>4 DEF Next

LEMMA Invariant == Spec => []IntakeInv
    BY Initially, Inductive, PTL DEF Spec

\* Every stored decision is the one its policy, of the version stored, led to at a
\* time at which it was active, and without a policy the one that lets nothing
\* through: intake reads the policy before it inserts, and policies change meanwhile.
THEOREM DecisionsExplained == Spec => []DecisionExplained
<1>1. IntakeInv => DecisionExplained
    BY DEF IntakeInv, RecordsSound, ExplainedBy, DecisionExplained
<1>. QED  BY <1>1, Invariant, PTL

\* All answers under one idempotency key give one decision, whatever intakes of it
\* overlap and whatever becomes of the policies: the answer is the stored record's.
THEOREM OneDecision == Spec => []OneDecisionPerKey
<1>1. IntakeInv => OneDecisionPerKey
    BY DEF IntakeInv, AnswersSound, OneDecisionPerKey
<1>. QED  BY <1>1, Invariant, PTL
=============================================================================
