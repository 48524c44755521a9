---------------------------- MODULE ExecutionProofs ----------------------------
(***************************************************************************)
(* Proofs about the execution of an authorised action and what is recorded *)
(* of it:                                                                  *)
(*   - ExecutionIntents, for any requests and intents, any modes, and every *)
(*     transition table that meets ExecutionIntentsAssumption;              *)
(*   - ExecutionWorker, for any clients, processes, jobs and keys and any   *)
(*     number of retries;                                                   *)
(*   - Receipts, for any sessions, readers and payloads, whatever the       *)
(*     payloads claim.                                                      *)
(* The three share no state.                                                *)
(***************************************************************************)
EXTENDS ExecutionIntents, ExecutionWorker, Receipts, FiniteSetTheorems, TLAPS

-----------------------------------------------------------------------------
(* The inductive invariant *)

Reached == {"proof_issued", "executing", "submitted", "outcome_unknown"} \cup Terminal
Holding == Reached \cup {"authorised"}

\* Neither the column nor the body is ahead of the authorisation.
Warranted(i, record) ==
    record.state \in Holding \/ record.body.state \in Holding => i \in granted

\* What a request loaded may be stale, but was warranted; a request to execute
\* is only admitted for an intent that was authorised.
RequestSound(q) ==
    /\ q.step \notin {"idle", "insert"} => q.intent \in DOMAIN row /\ Warranted(q.intent, q.loaded)
    /\ q.op = "execute" => q.intent \in granted
    /\ q.step = "coordinate" => q.op = "execute"
    /\ q.step = "commit" /\ q.target \in Reached => q.intent \in granted

WorkerSound(w) ==
    /\ w.todo \subseteq DOMAIN row /\ w.todo \subseteq granted
    /\ w.step \in {"submitted", "commit"} => w.intent \in DOMAIN row /\ w.target \in Terminal
    /\ w.step = "commit" => Warranted(w.intent, w.loaded) /\ w.intent \in granted

\* What the coordinator or the worker made happen was authorised.
PerformedSound(i) ==
    <<i, "execute">> \in performed \/ <<i, "worker">> \in performed => i \in granted

IntentsInv ==
    /\ TypeOK
    /\ \A i \in DOMAIN row : Warranted(i, row[i])
    /\ \A r \in Requests : RequestSound(request[r])
    /\ WorkerSound(worker)
    /\ \A i \in Intents : PerformedSound(i)

-----------------------------------------------------------------------------
(* Types *)

LEMMA RecordType ==
    ASSUME NEW x \in AuthorisedExecutionIntentRecord
    PROVE  /\ x.state \in IntentLifecycle /\ x.proof \in BOOLEAN /\ x.body \in Body
           /\ x.body.state \in IntentLifecycle /\ x.body.proof \in BOOLEAN
    BY DEF AuthorisedExecutionIntentRecord, Body

LEMMA NoRowType == NoRow \in AuthorisedExecutionIntentRecord
    BY DEF NoRow, AuthorisedExecutionIntentRecord, Body, IntentLifecycle

LEMMA IdleType == Idle \in Request /\ Idle.step = "idle" /\ Idle.op = "none"
    BY NoRowType DEF Idle, Request, IntentLifecycle

LEMMA IdleSound == RequestSound(Idle)
    BY IdleType DEF RequestSound

LEMMA WaitingType ==
    /\ Waiting \in Worker /\ Waiting.todo = {} /\ Waiting.step = "pass"
    /\ Off \in Worker /\ Off.todo = {} /\ Off.step = "off"
    BY NoRowType DEF Waiting, Off, Worker, IntentLifecycle

LEMMA RequestType ==
    ASSUME NEW q \in Request
    PROVE  /\ q.op \in Operation \cup {"none"} /\ q.intent \in Intents \cup {NoIntent}
           /\ q.loaded \in AuthorisedExecutionIntentRecord /\ q.target \in IntentLifecycle
    BY DEF Request

-----------------------------------------------------------------------------
(* The transition table *)

\* A transition to a state past the authorisation starts past it.
LEMMA TransitionHeld ==
    ASSUME NEW from, NEW to \in Reached, validate_transition(from, to)
    PROVE  from \in Holding
<1>1. <<from, to>> \in Transitions
    BY DEF validate_transition
<1>2. /\ to = "proof_issued" => from = "authorised"
      /\ to \in {"executing", "submitted", "outcome_unknown"} \cup Terminal =>
            from \in {"proof_issued", "executing", "submitted", "outcome_unknown"}
    BY <1>1, ExecutionIntentsAssumption DEF ExecutionIntentsAssumption
<1>. QED  BY <1>2 DEF Reached, Holding

-----------------------------------------------------------------------------
(* What never goes back *)

Grows == DOMAIN row \subseteq DOMAIN row' /\ granted \subseteq granted'

LEMMA RequestGrows ==
    ASSUME Grows, NEW q, RequestSound(q)
    PROVE  RequestSound(q)'
    BY DEF Grows, RequestSound, Warranted

LEMMA WorkerGrows ==
    ASSUME Grows, NEW w, WorkerSound(w)
    PROVE  WorkerSound(w)'
    BY DEF Grows, WorkerSound, Warranted

LEMMA RequestsGrow ==
    ASSUME IntentsInv, Grows, NEW r \in Requests, NEW q \in Request, RequestSound(q)',
           request' = [request EXCEPT ![r] = q]
    PROVE  /\ request' \in [Requests -> Request]
           /\ \A z \in Requests : RequestSound(request[z])'
<1>1. request' \in [Requests -> Request]
    BY DEF IntentsInv, TypeOK
<1>2. ASSUME NEW z \in Requests  PROVE RequestSound(request[z])'
    <2>1. PICK w : w = request'[z]
        OBVIOUS
    <2>2. w = q \/ RequestSound(w)
        BY <2>1 DEF IntentsInv, TypeOK
    <2>3. RequestSound(w)'
        BY <2>2, RequestGrows
    <2>. QED  BY <2>1, <2>3 DEF RequestSound
<1>. QED  BY <1>1, <1>2

\* What was performed stays within the authorised intents.
Performs ==
    /\ performed' \subseteq Intents \X Caller
    /\ \A i \in Intents : PerformedSound(i)'

LEMMA NothingPerformed ==
    ASSUME IntentsInv, performed' = performed, granted \subseteq granted'
    PROVE  Performs
    BY DEF IntentsInv, TypeOK, Performs, PerformedSound

LEMMA ActsSoundly ==
    ASSUME IntentsInv, NEW i \in Intents, NEW c \in Caller, c # "submit" => i \in granted,
           NEW state, Acts(i, c, state), granted' = granted
    PROVE  Performs
<1>1. performed' = performed \/ performed' = performed \cup {<<i, c>>}
    BY DEF Acts
<1>2. performed' \subseteq Intents \X Caller
    BY <1>1 DEF IntentsInv, TypeOK
<1>3. ASSUME NEW j \in Intents,
             <<j, "execute">> \in performed' \/ <<j, "worker">> \in performed'
      PROVE  j \in granted
    <2>1. <<j, "execute">> \in performed \/ <<j, "worker">> \in performed \/ (j = i /\ c # "submit")
        BY <1>1, <1>3
    <2>. QED  BY <2>1 DEF IntentsInv, PerformedSound
<1>. QED  BY <1>2, <1>3 DEF Performs, PerformedSound

\* A request moves and writes nothing.
LEMMA RequestStep ==
    ASSUME IntentsInv, NEW r \in Requests, NEW q \in Request, RequestSound(q),
           request' = [request EXCEPT ![r] = q], made' \in 0..MaxRequests,
           Performs, UNCHANGED <<row, worker, granted>>
    PROVE  IntentsInv'
<1>1. Grows
    BY DEF Grows
<1>2. /\ request' \in [Requests -> Request]
      /\ \A z \in Requests : RequestSound(request[z])'
    BY <1>1, RequestsGrow, RequestGrows
<1>3. TypeOK'
    BY <1>2 DEF IntentsInv, TypeOK, Performs
<1>4. \A i \in DOMAIN row' : Warranted(i, row[i])'
    BY DEF IntentsInv, Warranted
<1>5. WorkerSound(worker)'
    BY DEF IntentsInv, WorkerSound, Warranted
<1>6. \A i \in Intents : PerformedSound(i)'
    BY DEF Performs
<1>. QED  BY <1>2, <1>3, <1>4, <1>5, <1>6 DEF IntentsInv

\* The worker moves and writes nothing.
LEMMA WorkerStep ==
    ASSUME IntentsInv, NEW w \in Worker, WorkerSound(w), worker' = w,
           Performs, UNCHANGED <<row, request, granted, made>>
    PROVE  IntentsInv'
<1>1. TypeOK'
    BY DEF IntentsInv, TypeOK, Performs
<1>2. \A r \in Requests : RequestSound(request[r])'
    BY DEF IntentsInv, RequestSound, Warranted
<1>3. \A i \in DOMAIN row' : Warranted(i, row[i])'
    BY DEF IntentsInv, Warranted
<1>4. WorkerSound(worker)'
    BY DEF WorkerSound, Warranted
<1>5. \A i \in Intents : PerformedSound(i)'
    BY DEF Performs
<1>. QED  BY <1>1, <1>2, <1>3, <1>4, <1>5 DEF IntentsInv

-----------------------------------------------------------------------------
(* Commits *)

\* Row i becomes new.
Writes(i, new) ==
    /\ i \in DOMAIN row /\ new \in AuthorisedExecutionIntentRecord
    /\ row' = [row EXCEPT ![i] = new]
    /\ granted \subseteq granted' /\ granted' \subseteq Intents
    /\ Warranted(i, new)'

LEMMA RowWritten ==
    ASSUME IntentsInv, NEW i, NEW new, Writes(i, new)
    PROVE  /\ Grows /\ DOMAIN row' = DOMAIN row
           /\ row' \in [DOMAIN row' -> AuthorisedExecutionIntentRecord]
           /\ \A j \in DOMAIN row' : Warranted(j, row[j])'
<1>. USE DEF Writes
<1>1. DOMAIN row' = DOMAIN row /\ row' \in [DOMAIN row -> AuthorisedExecutionIntentRecord]
    BY DEF IntentsInv, TypeOK
<1>2. ASSUME NEW j \in DOMAIN row'  PROVE Warranted(j, row[j])'
    <2>1. CASE j = i
        <3>1. row'[j] = new
            BY <1>1, <2>1
        <3>. QED  BY <2>1, <3>1 DEF Warranted
    <2>2. CASE j # i
        <3>1. row'[j] = row[j] /\ Warranted(j, row[j])
            BY <1>1, <2>2 DEF IntentsInv
        <3>. QED  BY <3>1 DEF Warranted
    <2>. QED  BY <2>1, <2>2
<1>. QED  BY <1>1, <1>2 DEF Grows

\* The commit of a transition that was validated against a warranted record.
LEMMA TransitionWrites ==
    ASSUME IntentsInv, NEW i \in DOMAIN row, NEW loaded \in AuthorisedExecutionIntentRecord,
           NEW state \in IntentLifecycle, NEW proof \in BOOLEAN,
           Warranted(i, loaded), state \in Reached => i \in granted,
           Commits(i, Transitioned(row[i], loaded, state, proof))
    PROVE  \E new : Writes(i, new)
<1>1. row[i] \in AuthorisedExecutionIntentRecord /\ Warranted(i, row[i]) /\ i \in Intents
      /\ granted \subseteq Intents
    BY DEF IntentsInv, TypeOK
<1>2. PICK new : new = Transitioned(row[i], loaded, state, proof)
    OBVIOUS
<1>3. /\ new.state = Written(row[i].state, loaded.state, state)
      /\ new.proof = Written(row[i].proof, loaded.proof, proof)
      /\ new.body = Written(row[i].body, loaded.body, BodyIn(loaded, state))
    BY <1>2 DEF Transitioned
<1>4. BodyIn(loaded, state) \in Body /\ BodyIn(loaded, state).state = state
    BY RecordType DEF BodyIn, Body
<1>5. new \in AuthorisedExecutionIntentRecord
    BY <1>1, <1>2, <1>4, RecordType DEF Transitioned, Written, AuthorisedExecutionIntentRecord
<1>6. row' = [row EXCEPT ![i] = new] /\ granted \subseteq granted' /\ granted' \subseteq Intents
      /\ (new.state = "authorised" => i \in granted')
    BY <1>1, <1>2 DEF Commits
<1>7. Warranted(i, new)'
    <2>. SUFFICES ASSUME new.state \in Holding \/ new.body.state \in Holding, i \notin granted
                  PROVE  i \in granted'
        BY <1>6 DEF Warranted
    <2>1. state \notin Reached /\ loaded.state \notin Holding /\ row[i].state \notin Holding
          /\ row[i].body.state \notin Holding
        BY <1>1 DEF Warranted
    <2>2. state = "authorised"
        BY <1>3, <1>4, <2>1 DEF Written, Holding
    <2>3. new.state = "authorised"
        BY <1>3, <2>1, <2>2 DEF Written, Holding
    <2>. QED  BY <1>6, <2>3
<1>8. Writes(i, new)
    BY <1>5, <1>6, <1>7 DEF Writes
<1>. QED  BY <1>8

\* A request commits a row and moves on.
LEMMA CommitStep ==
    ASSUME IntentsInv, NEW i, NEW new, Writes(i, new),
           NEW r \in Requests, NEW q \in Request, RequestSound(q)',
           request' = [request EXCEPT ![r] = q],
           Performs, UNCHANGED <<worker, made>>
    PROVE  IntentsInv'
<1>1. /\ Grows /\ DOMAIN row' = DOMAIN row
      /\ row' \in [DOMAIN row' -> AuthorisedExecutionIntentRecord]
      /\ \A j \in DOMAIN row' : Warranted(j, row[j])'
    BY RowWritten
<1>2. /\ request' \in [Requests -> Request]
      /\ \A z \in Requests : RequestSound(request[z])'
    BY <1>1, RequestsGrow
<1>3. TypeOK'
    BY <1>1, <1>2 DEF IntentsInv, TypeOK, Writes, Performs
<1>4. WorkerSound(worker)'
    BY <1>1 DEF IntentsInv, WorkerSound, Warranted, Grows
<1>5. \A j \in Intents : PerformedSound(j)'
    BY DEF Performs
<1>. QED  BY <1>1, <1>2, <1>3, <1>4, <1>5 DEF IntentsInv

-----------------------------------------------------------------------------
(* Requests *)

LEMMA Arrivals ==
    ASSUME IntentsInv, NEW r \in Requests, Endpoint(r)
    PROVE  IntentsInv'
<1>0. made \in 0..MaxRequests /\ MaxRequests \in Nat
    BY ExecutionIntentsAssumption DEF IntentsInv, TypeOK, ExecutionIntentsAssumption
<1>1. CASE ScanKey(r)
    <2>1. PICK q : q = [Idle EXCEPT !.step = "insert", !.op = "create"]
        OBVIOUS
    <2>2. q \in Request /\ q.step = "insert" /\ q.op = "create"
        BY <2>1, NoRowType DEF Idle, Request, Operation, IntentLifecycle
    <2>3. RequestSound(q)
        BY <2>2 DEF RequestSound
    <2>4. made' \in 0..MaxRequests
        BY <1>0, <1>1 DEF ScanKey
    <2>. QED  BY <1>1, <2>1, <2>2, <2>3, <2>4, RequestStep, NothingPerformed DEF ScanKey
<1>2. ASSUME NEW i \in Intents, i \in DOMAIN row, NEW q \in Request,
             q.step \in {"commit", "resource", "put"}, q.intent = i, q.loaded = row[i],
             q.op = "execute" => q.step = "commit" /\ q.target \in Reached,
             q.step = "commit" => validate_transition(row[i].state, q.target),
             request' = [request EXCEPT ![r] = q], made < MaxRequests, made' = made + 1,
             UNCHANGED <<row, worker, performed, granted>>
      PROVE  IntentsInv'
    <2>1. Warranted(i, row[i])
        BY <1>2 DEF IntentsInv
    <2>2. q.step = "commit" /\ q.target \in Reached => i \in granted
        BY <1>2, <2>1, TransitionHeld DEF Warranted
    <2>3. RequestSound(q)
        BY <1>2, <2>1, <2>2 DEF RequestSound
    <2>4. made' \in 0..MaxRequests
        BY <1>0, <1>2
    <2>. QED  BY <1>2, <2>3, <2>4, RequestStep, NothingPerformed
<1>3. ASSUME NEW i \in Intents, NEW op \in {"approve", "deny", "cancel", "proof", "execute"},
             LoadIntent(r, i, op)
      PROVE  IntentsInv'
    <2>1. row[i] \in AuthorisedExecutionIntentRecord /\ i \in DOMAIN row
        BY <1>3 DEF LoadIntent, IntentsInv, TypeOK
    <2>2. /\ FirstTarget(op, row[i]) \in IntentLifecycle
          /\ op = "execute" => FirstTarget(op, row[i]) = "executing"
        BY DEF FirstTarget, IntentLifecycle
    <2>3. PICK q : q = [step |-> "commit", op |-> op, intent |-> i, loaded |-> row[i],
                        target |-> FirstTarget(op, row[i])]
        OBVIOUS
    <2>4. /\ q \in Request /\ q.step = "commit" /\ q.intent = i /\ q.loaded = row[i]
          /\ q.op = op /\ q.target = FirstTarget(op, row[i])
        BY <2>1, <2>2, <2>3 DEF Request, Operation
    <2>5. op = "execute" => q.target \in Reached
        BY <2>2, <2>4 DEF Reached
    <2>. QED  BY <1>2, <1>3, <2>1, <2>3, <2>4, <2>5 DEF LoadIntent
<1>4. ASSUME NEW i \in Intents, LoadSubmit(r, i)  PROVE IntentsInv'
    <2>1. row[i] \in AuthorisedExecutionIntentRecord /\ i \in DOMAIN row
        BY <1>4 DEF LoadSubmit, IntentsInv, TypeOK
    <2>2. PICK q : q = [Idle EXCEPT !.step = "resource", !.op = "submit", !.intent = i,
                                    !.loaded = row[i]]
        OBVIOUS
    <2>3. /\ q \in Request /\ q.step = "resource" /\ q.intent = i /\ q.loaded = row[i]
          /\ q.op = "submit"
        BY <2>1, <2>2 DEF Idle, Request, Operation, IntentLifecycle
    <2>. QED  BY <1>2, <1>4, <2>1, <2>2, <2>3 DEF LoadSubmit
<1>5. ASSUME NEW i \in Intents, GetForLink(r, i)  PROVE IntentsInv'
    <2>1. row[i] \in AuthorisedExecutionIntentRecord /\ i \in DOMAIN row
        BY <1>5 DEF GetForLink, IntentsInv, TypeOK
    <2>2. PICK q : q = [Idle EXCEPT !.step = "put", !.op = "link", !.intent = i,
                                    !.loaded = row[i]]
        OBVIOUS
    <2>3. /\ q \in Request /\ q.step = "put" /\ q.intent = i /\ q.loaded = row[i]
          /\ q.op = "link"
        BY <2>1, <2>2 DEF Idle, Request, Operation, IntentLifecycle
    <2>. QED  BY <1>2, <1>5, <2>1, <2>2, <2>3 DEF GetForLink
<1>. QED  BY <1>1, <1>3, <1>4, <1>5 DEF Endpoint

\* A request that goes on to commit an outcome, or ends.
LEMMA Conclusion ==
    ASSUME IntentsInv, NEW r \in Requests, NEW state \in Reached \cup {"submitted"},
           request[r].step \in {"coordinate", "resource"}, Concludes(r, state)
    PROVE  \E q \in Request : RequestSound(q) /\ request' = [request EXCEPT ![r] = q]
<1>1. /\ request[r] \in Request /\ RequestSound(request[r])
      /\ request \in [Requests -> Request]
    BY DEF IntentsInv, TypeOK
<1>2. state \in Reached /\ state \in IntentLifecycle
    BY DEF Reached, Terminal, IntentLifecycle
<1>3. CASE validate_transition(request[r].loaded.state, state)
    <2>1. PICK q : q = [request[r] EXCEPT !.step = "commit", !.target = state]
        OBVIOUS
    <2>2. /\ q \in Request /\ q.step = "commit" /\ q.target = state
          /\ q.op = request[r].op /\ q.intent = request[r].intent
          /\ q.loaded = request[r].loaded
        BY <1>1, <1>2, <2>1 DEF Request
    <2>3. request[r].intent \in granted
        BY <1>1, <1>2, <1>3, TransitionHeld DEF RequestSound, Warranted
    <2>4. RequestSound(q)
        BY <1>1, <2>2, <2>3 DEF RequestSound
    <2>5. request' = [request EXCEPT ![r] = q]
        BY <1>1, <1>3, <2>1 DEF Concludes
    <2>. QED  BY <2>2, <2>4, <2>5
<1>4. CASE ~validate_transition(request[r].loaded.state, state)
    <2>1. request' = [request EXCEPT ![r] = Idle]
        BY <1>1, <1>4 DEF Concludes
    <2>. QED  BY <2>1, IdleType, IdleSound
<1>. QED  BY <1>3, <1>4

LEMMA Coordinates ==
    ASSUME IntentsInv, NEW r \in Requests,
           Coordinate(r) \/ CoordinateRaises(r) \/ StubExecution(r)
    PROVE  IntentsInv'
<1>1. /\ request[r].step = "coordinate" /\ UNCHANGED <<row, worker, granted, made>>
      /\ made \in 0..MaxRequests
    BY DEF Coordinate, CoordinateRaises, StubExecution, IntentsInv, TypeOK
<1>2. \A result \in ExecutionState : Outcome(result) \in Reached
    BY DEF ExecutionState, Outcome, Reached, Terminal
<1>3. \E state \in Reached : Concludes(r, state)
    <2>1. CASE Coordinate(r)
        BY <1>2, <2>1 DEF Coordinate
    <2>2. CASE CoordinateRaises(r)
        BY <2>2 DEF CoordinateRaises, Reached, Terminal
    <2>3. CASE StubExecution(r)
        BY <2>3 DEF StubExecution, Reached, Terminal
    <2>. QED  BY <2>1, <2>2, <2>3
<1>4. PICK q \in Request : RequestSound(q) /\ request' = [request EXCEPT ![r] = q]
    BY <1>1, <1>3, Conclusion
<1>5. request[r].intent \in Intents /\ request[r].intent \in granted
    BY <1>1 DEF IntentsInv, TypeOK, RequestSound
<1>6. Performs
    <2>1. ASSUME NEW result, Acts(request[r].intent, "execute", result)  PROVE Performs
        BY <1>1, <1>5, <2>1, ActsSoundly DEF Caller
    <2>2. CASE Coordinate(r) \/ CoordinateRaises(r)
        BY <2>1, <2>2 DEF Coordinate, CoordinateRaises
    <2>3. CASE StubExecution(r)
        BY <1>1, <2>3, NothingPerformed DEF StubExecution
    <2>. QED  BY <2>2, <2>3
<1>. QED  BY <1>1, <1>4, <1>6, RequestStep

LEMMA Continuations ==
    ASSUME IntentsInv, NEW r \in Requests
    PROVE  /\ InsertIntent(r) => IntentsInv'
           /\ CommitTransition(r) => IntentsInv'
           /\ Refresh(r) => IntentsInv'
           /\ SubmitAnswered(r) \/ SubmitStub(r) => IntentsInv'
           /\ SubmitPending(r) => IntentsInv'
           /\ PutLinked(r) => IntentsInv'
           /\ Dies(r) => IntentsInv'
<1>. DEFINE u == request[r]
<1>0. /\ u \in Request /\ RequestSound(u) /\ request \in [Requests -> Request]
      /\ made \in 0..MaxRequests /\ DOMAIN row \subseteq Intents /\ granted \subseteq Intents
      /\ u.loaded \in AuthorisedExecutionIntentRecord /\ u.target \in IntentLifecycle
    BY RequestType DEF IntentsInv, TypeOK
<1>1. ASSUME InsertIntent(r)  PROVE IntentsInv'
    <2>. DEFINE new == [state |-> "created", proof |-> FALSE,
                        body |-> [state |-> "created", proof |-> FALSE]]
    <2>1. PICK i \in Intents \ DOMAIN row :
             row' = [j \in DOMAIN row \cup {i} |-> IF j = i THEN new ELSE row[j]]
        BY <1>1 DEF InsertIntent
    <2>2. /\ new \in AuthorisedExecutionIntentRecord
          /\ new.state \notin Holding /\ new.body.state \notin Holding
        BY DEF AuthorisedExecutionIntentRecord, Body, IntentLifecycle, Holding, Reached, Terminal
    <2>3. /\ UNCHANGED <<worker, performed, granted, made>>
          /\ request' = [request EXCEPT ![r] = Idle]
        BY <1>1 DEF InsertIntent, Ends
    <2>. HIDE DEF new
    <2>4. /\ DOMAIN row' = DOMAIN row \cup {i}
          /\ \A j \in DOMAIN row' : row'[j] = IF j = i THEN new ELSE row[j]
          /\ row' \in [DOMAIN row' -> AuthorisedExecutionIntentRecord]
        BY <2>1, <2>2 DEF IntentsInv, TypeOK
    <2>5. Grows
        BY <2>3, <2>4 DEF Grows
    <2>6. PICK q \in Request : q = Idle /\ RequestSound(q)
        BY IdleType, IdleSound
    <2>7. RequestSound(q)'
        BY <2>5, <2>6, RequestGrows
    <2>8. /\ request' \in [Requests -> Request]
          /\ \A z \in Requests : RequestSound(request[z])'
        BY <2>3, <2>5, <2>6, <2>7, RequestsGrow
    <2>9. TypeOK'
        BY <1>0, <2>3, <2>4, <2>8 DEF IntentsInv, TypeOK
    <2>10. ASSUME NEW j \in DOMAIN row'  PROVE Warranted(j, row[j])'
        BY <2>2, <2>3, <2>4 DEF IntentsInv, Warranted
    <2>11. WorkerSound(worker)'
        BY <2>3, <2>5 DEF IntentsInv, WorkerSound, Warranted, Grows
    <2>12. \A j \in Intents : PerformedSound(j)'
        BY <2>3 DEF IntentsInv, PerformedSound
    <2>. QED  BY <2>8, <2>9, <2>10, <2>11, <2>12 DEF IntentsInv
<1>2. ASSUME CommitTransition(r)  PROVE IntentsInv'
    <2>1. /\ u.step = "commit" /\ u.intent \in DOMAIN row /\ Warranted(u.intent, u.loaded)
          /\ u.target \in Reached => u.intent \in granted
        BY <1>0, <1>2 DEF CommitTransition, RequestSound
    <2>2. PICK new : Writes(u.intent, new)
        <3>1. (u.loaded.proof \/ u.op = "proof") \in BOOLEAN
            OBVIOUS
        <3>2. Commits(u.intent, Transitioned(row[u.intent], u.loaded, u.target,
                                             u.loaded.proof \/ u.op = "proof"))
            BY <1>2 DEF CommitTransition
        <3>. QED  BY <1>0, <2>1, <3>1, <3>2, TransitionWrites
    <2>3. PICK q : q = IF u.target \in {"evaluating", "executing"} THEN [u EXCEPT !.step = "refresh"]
                       ELSE Idle
        OBVIOUS
    <2>4. q \in Request /\ RequestSound(q)
        <3>1. CASE u.target \in {"evaluating", "executing"}
            <4>1. /\ q \in Request /\ q.step = "refresh" /\ q.op = u.op /\ q.intent = u.intent
                  /\ q.loaded = u.loaded
                BY <1>0, <2>3, <3>1 DEF Request
            <4>. QED  BY <1>0, <2>1, <4>1 DEF RequestSound
        <3>2. CASE u.target \notin {"evaluating", "executing"}
            BY <2>3, <3>2, IdleType, IdleSound
        <3>. QED  BY <3>1, <3>2
    <2>5. RequestSound(q)'
        BY <2>2, <2>4, RequestGrows, RowWritten
    <2>6. Performs
        BY <1>2, <2>2, NothingPerformed DEF CommitTransition, Writes
    <2>. QED  BY <1>2, <2>2, <2>3, <2>4, <2>5, <2>6, CommitStep DEF CommitTransition
<1>3. ASSUME Refresh(r)  PROVE IntentsInv'
    <2>1. /\ u.step = "refresh" /\ u.intent \in DOMAIN row
          /\ row[u.intent] \in AuthorisedExecutionIntentRecord
          /\ Warranted(u.intent, row[u.intent])
        BY <1>0, <1>3 DEF Refresh, RequestSound, IntentsInv, TypeOK
    <2>2. PICK second \in {"authorised", "denied"} :
             second = IF u.op = "approve" THEN "authorised" ELSE "denied"
        OBVIOUS
    <2>3. PICK q : /\ request' = [request EXCEPT ![r] = q]
                   /\ \/ u.op = "execute" /\ q = [u EXCEPT !.step = "coordinate",
                                                          !.loaded = row[u.intent]]
                      \/ q = [u EXCEPT !.step = "commit", !.loaded = row[u.intent],
                                       !.target = second]
                      \/ q = Idle
        BY <1>3, <2>2 DEF Refresh
    <2>4. q \in Request /\ RequestSound(q)
        <3>1. CASE u.op = "execute" /\ q = [u EXCEPT !.step = "coordinate", !.loaded = row[u.intent]]
            <4>1. /\ q \in Request /\ q.step = "coordinate" /\ q.op = "execute"
                  /\ q.intent = u.intent /\ q.loaded = row[u.intent]
                BY <1>0, <2>1, <3>1 DEF Request
            <4>. QED  BY <1>0, <2>1, <3>1, <4>1 DEF RequestSound
        <3>2. CASE q = [u EXCEPT !.step = "commit", !.loaded = row[u.intent], !.target = second]
            <4>1. /\ q \in Request /\ q.step = "commit" /\ q.op = u.op /\ q.target = second
                  /\ q.intent = u.intent /\ q.loaded = row[u.intent]
                BY <1>0, <2>1, <2>2, <3>2 DEF Request, IntentLifecycle
            <4>2. second \notin Reached
                BY <2>2 DEF Reached, Terminal
            <4>. QED  BY <1>0, <2>1, <4>1, <4>2 DEF RequestSound
        <3>3. CASE q = Idle
            BY <3>3, IdleType, IdleSound
        <3>. QED  BY <2>3, <3>1, <3>2, <3>3
    <2>. QED  BY <1>0, <1>3, <2>3, <2>4, RequestStep, NothingPerformed DEF Refresh
<1>4. ASSUME SubmitAnswered(r) \/ SubmitStub(r)  PROVE IntentsInv'
    <2>1. /\ u.step = "resource" /\ UNCHANGED <<row, worker, granted, made>>
          /\ u.intent \in Intents
        BY <1>0, <1>4 DEF SubmitAnswered, SubmitStub, RequestSound
    <2>2. /\ \E state \in Reached : Concludes(r, state)
          /\ \E state : Acts(u.intent, "submit", state)
        <3>1. CASE SubmitAnswered(r)
            BY <3>1 DEF SubmitAnswered, Reached, Terminal
        <3>2. CASE SubmitStub(r)
            BY <3>2 DEF SubmitStub, Reached
        <3>. QED  BY <1>4, <3>1, <3>2
    <2>3. PICK q \in Request : RequestSound(q) /\ request' = [request EXCEPT ![r] = q]
        BY <2>1, <2>2, Conclusion
    <2>4. Performs
        BY <2>1, <2>2, ActsSoundly DEF Caller
    <2>. QED  BY <1>0, <2>1, <2>3, <2>4, RequestStep
<1>5. ASSUME SubmitPending(r)  PROVE IntentsInv'
    <2>1. /\ u.step = "resource" /\ u.intent \in DOMAIN row /\ Warranted(u.intent, u.loaded)
          /\ row[u.intent] \in AuthorisedExecutionIntentRecord
          /\ Warranted(u.intent, row[u.intent])
        BY <1>0, <1>5 DEF SubmitPending, RequestSound, IntentsInv, TypeOK
    <2>2. PICK new : new = [row[u.intent] EXCEPT !.body = u.loaded.body]
        OBVIOUS
    <2>3. /\ new \in AuthorisedExecutionIntentRecord /\ new.state = row[u.intent].state
          /\ new.body = u.loaded.body
        BY <1>0, <2>1, <2>2, RecordType DEF AuthorisedExecutionIntentRecord
    <2>4. PICK i : i = u.intent
        OBVIOUS
    <2>5. Writes(i, new)
        <3>1. row' = [row EXCEPT ![i] = new] /\ granted' = granted
            BY <1>5, <2>1, <2>2, <2>4 DEF SubmitPending, IntentsInv, TypeOK
        <3>2. Warranted(i, new)
            BY <2>1, <2>3, <2>4 DEF Warranted
        <3>3. Warranted(i, new)'
            BY <3>1, <3>2 DEF Warranted
        <3>. QED  BY <1>0, <2>1, <2>3, <2>4, <3>1, <3>3 DEF Writes
    <2>6. PICK q \in Request : q = Idle /\ RequestSound(q)
        BY IdleType, IdleSound
    <2>7. RequestSound(q)'
        BY <2>5, <2>6, RequestGrows, RowWritten
    <2>8. Performs
        <3>1. Acts(u.intent, "submit", "submitted") /\ granted' = granted /\ u.intent \in Intents
            BY <1>0, <1>5, <2>1 DEF SubmitPending
        <3>. QED  BY <3>1, ActsSoundly DEF Caller
    <2>. QED  BY <1>5, <2>5, <2>6, <2>7, <2>8, CommitStep DEF SubmitPending, Ends
<1>6. ASSUME PutLinked(r)  PROVE IntentsInv'
    <2>1. u.step = "put" /\ u.intent \in DOMAIN row /\ Warranted(u.intent, u.loaded)
        BY <1>0, <1>6 DEF PutLinked, RequestSound
    <2>2. PICK body : body = [u.loaded.body EXCEPT !.proof = TRUE]
        OBVIOUS
    <2>3. body \in Body /\ body.state = u.loaded.body.state
        BY <1>0, <2>2, RecordType DEF Body
    <2>4. PICK new, i : new = [state |-> body.state, proof |-> TRUE, body |-> body] /\ i = u.intent
        OBVIOUS
    <2>5. /\ new \in AuthorisedExecutionIntentRecord /\ new.state = body.state /\ new.body = body
        BY <2>3, <2>4 DEF AuthorisedExecutionIntentRecord, Body
    <2>6. Writes(i, new)
        <3>1. Commits(i, new)
            BY <1>6, <2>2, <2>4 DEF PutLinked
        <3>2. /\ row' = [row EXCEPT ![i] = new]
              /\ granted \subseteq granted' /\ granted' \subseteq Intents
            BY <1>0, <2>1, <2>4, <3>1 DEF Commits
        <3>3. Warranted(i, new)'
            BY <2>1, <2>3, <2>4, <2>5, <3>2 DEF Warranted
        <3>. QED  BY <2>1, <2>4, <2>5, <3>2, <3>3 DEF Writes
    <2>7. PICK q \in Request : q = Idle /\ RequestSound(q)
        BY IdleType, IdleSound
    <2>8. RequestSound(q)'
        BY <2>6, <2>7, RequestGrows, RowWritten
    <2>9. Performs
        BY <1>6, <2>6, NothingPerformed DEF PutLinked, Writes
    <2>. QED  BY <1>6, <2>6, <2>7, <2>8, <2>9, CommitStep DEF PutLinked, Ends
<1>7. ASSUME Dies(r)  PROVE IntentsInv'
    BY <1>0, <1>7, IdleType, IdleSound, RequestStep, NothingPerformed DEF Dies, Ends
<1>. QED  BY <1>1, <1>2, <1>3, <1>4, <1>5, <1>6, <1>7

-----------------------------------------------------------------------------
(* The worker *)

\* The resource is asked about an intent of the pass.
LEMMA Asked ==
    ASSUME IntentsInv, NEW i \in worker.todo, NEW state, Acts(i, "worker", state),
           granted' = granted
    PROVE  Performs
<1>1. i \in granted /\ i \in Intents
    BY DEF IntentsInv, TypeOK, WorkerSound
<1>. QED  BY <1>1, ActsSoundly DEF Caller

LEMMA WorkerMoves ==
    ASSUME IntentsInv, Reconciles \/ startup \/ shutdown, ~update_state
    PROVE  IntentsInv'
<1>0. worker \in Worker /\ WorkerSound(worker) /\ DOMAIN row \subseteq Intents
    BY DEF IntentsInv, TypeOK
<1>1. UNCHANGED <<row, request, granted, made>>
    BY DEF Reconciles, startup, shutdown, ListNonFinal, Begins, ResubmitFinal, ResubmitPending,
           ResubmitMalformed, ReadForUpdate
<1>2. Performs
    <2>1. ASSUME NEW i \in Intents,
                 ResubmitFinal(i) \/ ResubmitPending(i) \/ ResubmitMalformed(i)
          PROVE  Performs
        <3>1. i \in worker.todo /\ \E state : Acts(i, "worker", state)
            BY <2>1 DEF ResubmitFinal, ResubmitPending, ResubmitMalformed
        <3>. QED  BY <1>1, <3>1, Asked
    <2>2. CASE ListNonFinal \/ ReadForUpdate \/ startup \/ shutdown
        BY <1>1, <2>2, NothingPerformed DEF ListNonFinal, Begins, ReadForUpdate, startup, shutdown
    <2>. QED  BY <2>1, <2>2 DEF Reconciles
<1>3. \E w \in Worker : WorkerSound(w) /\ worker' = w
    <2>0. CASE startup \/ shutdown
        BY <2>0, WaitingType DEF startup, shutdown, WorkerSound
    <2>1. CASE ListNonFinal
        <3>1. PICK todo : /\ todo = {i \in DOMAIN row \cap Registered :
                                        row[i].body.state \in NonFinal /\ row[i].body.proof}
                          /\ worker' = [Waiting EXCEPT !.todo = todo]
            BY <2>1 DEF ListNonFinal, Begins
        <3>2. todo \subseteq DOMAIN row /\ todo \subseteq granted
            BY <3>1 DEF IntentsInv, Warranted, Holding, Reached, NonFinal
        <3>3. worker' \in Worker /\ worker'.todo = todo /\ worker'.step = "pass"
            BY <1>0, <3>1, <3>2, WaitingType DEF Worker
        <3>. QED  BY <3>2, <3>3 DEF WorkerSound
    <2>2. ASSUME NEW i \in Intents, ResubmitFinal(i)
          PROVE  \E w \in Worker : WorkerSound(w) /\ worker' = w
        <3>1. PICK state \in Terminal :
                 worker' = [worker EXCEPT !.step = "submitted", !.intent = i, !.target = state,
                                          !.todo = @ \ {i}]
            BY <2>2 DEF ResubmitFinal
        <3>2. state \in IntentLifecycle /\ i \in DOMAIN row
            BY <1>0, <2>2 DEF Terminal, IntentLifecycle, ResubmitFinal, WorkerSound
        <3>3. /\ worker' \in Worker /\ worker'.todo = worker.todo \ {i}
              /\ worker'.step = "submitted" /\ worker'.intent = i /\ worker'.target = state
            BY <1>0, <3>1, <3>2 DEF Worker
        <3>. QED  BY <1>0, <3>2, <3>3 DEF WorkerSound
    <2>3. ASSUME NEW i \in Intents, ResubmitPending(i) \/ ResubmitMalformed(i)
          PROVE  \E w \in Worker : WorkerSound(w) /\ worker' = w
        <3>1. CASE ResubmitPending(i)
            <4>1. worker' = [worker EXCEPT !.intent = i, !.todo = worker.todo \ {i}]
                  /\ worker.step = "pass"
                BY <3>1 DEF ResubmitPending
            <4>2. worker' \in Worker /\ worker'.todo = worker.todo \ {i} /\ worker'.step = "pass"
                BY <1>0, <4>1 DEF Worker
            <4>. QED  BY <1>0, <4>2 DEF WorkerSound
        <3>2. CASE ResubmitMalformed(i)
            <4>1. worker' = [Waiting EXCEPT !.step = "aborted"]
                BY <3>2 DEF ResubmitMalformed
            <4>2. worker' \in Worker /\ worker'.todo = {} /\ worker'.step = "aborted"
                BY <4>1, WaitingType DEF Worker
            <4>. QED  BY <4>2 DEF WorkerSound
        <3>. QED  BY <2>3, <3>1, <3>2
    <2>4. CASE ReadForUpdate
        <3>0. worker.intent \in DOMAIN row /\ worker.step = "submitted"
              /\ worker.target \in Terminal
            BY <1>0, <2>4 DEF ReadForUpdate, WorkerSound
        <3>1. row[worker.intent] \in AuthorisedExecutionIntentRecord
              /\ Warranted(worker.intent, row[worker.intent])
            BY <3>0 DEF IntentsInv, TypeOK
        <3>2. CASE worker' = NextOf(worker)
            <4>1. /\ worker' \in Worker /\ worker'.todo = worker.todo /\ worker'.step = "pass"
                BY <1>0, <3>2, NoRowType DEF NextOf, Waiting, Worker, IntentLifecycle
            <4>. QED  BY <1>0, <4>1 DEF WorkerSound
        <3>3. CASE /\ validate_transition(row[worker.intent].state, worker.target)
                   /\ worker' = [worker EXCEPT !.step = "commit", !.loaded = row[worker.intent]]
            <4>1. /\ worker' \in Worker /\ worker'.todo = worker.todo /\ worker'.step = "commit"
                  /\ worker'.intent = worker.intent /\ worker'.loaded = row[worker.intent]
                  /\ worker'.target = worker.target
                BY <1>0, <3>1, <3>3 DEF Worker
            <4>2. worker.intent \in granted
                BY <3>0, <3>1, <3>3, TransitionHeld DEF Warranted, Reached
            <4>. QED  BY <1>0, <3>0, <3>1, <4>1, <4>2 DEF WorkerSound
        <3>. QED  BY <2>4, <3>2, <3>3 DEF ReadForUpdate
    <2>. QED  BY <2>0, <2>1, <2>2, <2>3, <2>4 DEF Reconciles
<1>. QED  BY <1>1, <1>2, <1>3, WorkerStep

LEMMA WorkerCommits ==
    ASSUME IntentsInv, update_state
    PROVE  IntentsInv'
<1>0. /\ worker \in Worker /\ WorkerSound(worker) /\ worker.step = "commit"
      /\ worker.loaded \in AuthorisedExecutionIntentRecord /\ worker.target \in IntentLifecycle
    BY DEF IntentsInv, TypeOK, update_state, Worker
<1>1. PICK new : Writes(worker.intent, new)
    <2>1. /\ worker.intent \in DOMAIN row /\ Warranted(worker.intent, worker.loaded)
          /\ worker.intent \in granted /\ worker.loaded.proof \in BOOLEAN
        BY <1>0, RecordType DEF WorkerSound
    <2>. QED  BY <1>0, <2>1, TransitionWrites DEF update_state
<1>2. /\ worker' = NextOf(worker) /\ UNCHANGED <<request, performed, made>>
    BY DEF update_state
<1>3. /\ Grows /\ DOMAIN row' = DOMAIN row
      /\ row' \in [DOMAIN row' -> AuthorisedExecutionIntentRecord]
      /\ \A j \in DOMAIN row' : Warranted(j, row[j])'
    BY <1>1, RowWritten
<1>4. worker' \in Worker /\ worker'.todo = worker.todo /\ worker'.step = "pass"
    BY <1>0, <1>2, NoRowType DEF NextOf, Waiting, Worker, IntentLifecycle
<1>5. TypeOK'
    BY <1>1, <1>2, <1>3, <1>4 DEF IntentsInv, TypeOK, Writes
<1>6. WorkerSound(worker)'
    BY <1>0, <1>3, <1>4 DEF WorkerSound, Grows
<1>7. ASSUME NEW r \in Requests  PROVE RequestSound(request[r])'
    <2>1. PICK q : q = request[r] /\ RequestSound(q)
        BY DEF IntentsInv
    <2>2. RequestSound(q)'
        BY <1>3, <2>1, RequestGrows
    <2>. QED  BY <1>2, <2>1, <2>2 DEF RequestSound
<1>8. \A j \in Intents : PerformedSound(j)'
    BY <1>2, <1>3 DEF IntentsInv, PerformedSound, Grows
<1>. QED  BY <1>3, <1>5, <1>6, <1>7, <1>8 DEF IntentsInv

-----------------------------------------------------------------------------
(* The invariant *)

LEMMA Initially == Init => IntentsInv
<1>. SUFFICES ASSUME Init  PROVE IntentsInv
    OBVIOUS
<1>1. DOMAIN row = {}
    BY DEF Init
<1>2. TypeOK
    <2>1. row \in [DOMAIN row -> AuthorisedExecutionIntentRecord]
        BY <1>1 DEF Init
    <2>. QED  BY <1>1, <2>1, IdleType, WaitingType, ExecutionIntentsAssumption
              DEF Init, TypeOK, ExecutionIntentsAssumption
<1>. QED  BY <1>1, <1>2, IdleSound, WaitingType DEF IntentsInv, Init, WorkerSound, PerformedSound

LEMMA Inductive == IntentsInv /\ [Next]_vars => IntentsInv'
<1>. SUFFICES ASSUME IntentsInv, [Next]_vars  PROVE IntentsInv'
    OBVIOUS
<1>1. CASE UNCHANGED vars
    BY <1>1 DEF vars, IntentsInv, TypeOK, Warranted, RequestSound, WorkerSound, PerformedSound
<1>2. ASSUME NEW r \in Requests, Endpoint(r) \/ Continues(r)  PROVE IntentsInv'
    BY <1>2, Arrivals, Continuations, Coordinates DEF Continues
<1>3. ASSUME Reconciles \/ startup \/ shutdown  PROVE IntentsInv'
    BY <1>3, WorkerMoves, WorkerCommits
<1>. QED  BY <1>1, <1>2, <1>3 DEF Next

LEMMA Invariant == Spec => []IntentsInv
    BY Initially, Inductive, PTL DEF Spec

-----------------------------------------------------------------------------
(* The theorems *)

\* No outcome is reported, the coordinator makes nothing happen and the worker
\* asks about nothing for an intent that was never authorised, although
\* endpoints, link_proof and the worker write back records they loaded long
\* before.  The call submit_intent makes is no part of it.
THEOREM OutcomesAuthorised == Spec => []OutcomeWasAuthorised
<1>1. IntentsInv => OutcomeWasAuthorised
    <2>. SUFFICES ASSUME IntentsInv  PROVE OutcomeWasAuthorised
        OBVIOUS
    <2>1. ASSUME NEW i \in Intents,
                 <<i, "execute">> \in performed \/ <<i, "worker">> \in performed
          PROVE  i \in granted
        BY <2>1 DEF IntentsInv, PerformedSound
    <2>2. ASSUME NEW i \in DOMAIN row,
                 {row[i].state, row[i].body.state} \cap Reached # {}
          PROVE  i \in granted
        BY <2>2 DEF IntentsInv, Warranted, Holding
    <2>. QED  BY <2>1, <2>2 DEF OutcomeWasAuthorised, Reached, IntentsInv
<1>. QED  BY <1>1, Invariant, PTL

-----------------------------------------------------------------------------
(* The brokered worker: its inductive invariant *)

CopySets == UNION {[J -> Copy] : J \in SUBSET Jobs}

ProcessState ==
    [pc : {"idle", "next", "loop", "call", "settle"}, job : Jobs \cup {NoJob},
     copies : CopySets, outcome : Answers \cup {"none"}]

BrokerType ==
    /\ job \in [Jobs -> ExecutionJobRecord]
    /\ client \in [Clients -> ClientState]
    /\ process \in [Workers -> ProcessState]
    /\ effects \subseteq Keys
    /\ calls \in [Jobs -> Nat]
    /\ crashes \in Nat

\* A row that was inserted names its key; before that nothing was called for
\* it; a success was performed.
RowSound(j) ==
    /\ job[j].status # "none" => job[j].key \in Keys
    /\ job[j].status = "none" => calls[j] = 0
    /\ job[j].status = "succeeded" => job[j].key \in effects

\* What a session cancels was inserted.
CancelSound(q) == q.op = "cancel" => job[q.job].status # "none"

\* What a process has in memory was inserted, it works on one of the jobs it
\* loaded, and a positive answer it is about to write down is true.
ProcessSound(v) ==
    /\ \A j \in DOMAIN v.copies : job[j].status # "none"
    /\ v.pc \in {"loop", "call", "settle"} => v.job \in DOMAIN v.copies
    /\ v.pc = "settle" /\ v.outcome = "ok" => job[v.job].key \in effects

BrokerInv ==
    /\ BrokerType
    /\ \A j \in Jobs : RowSound(j)
    /\ \A c \in Clients : CancelSound(client[c])
    /\ \A w \in Workers : ProcessSound(process[w])

\* With one process: a row counts the calls before they are made, and the
\* process knows the count.
OneProcess == \A v, w \in Workers : v = w
CountSound(v) ==
    /\ \A j \in DOMAIN v.copies : v.copies[j].attempts = job[j].attempts
    /\ v.pc = "call" => calls[v.job] < job[v.job].attempts
BudgetInv ==
    OneProcess =>
        /\ \A j \in Jobs : calls[j] <= job[j].attempts /\ job[j].attempts <= MaxRetries + 1
        /\ \A w \in Workers : CountSound(process[w])

\* With one process: a job with an answer is settled or cancelled, and the
\* process is done with it.
AnswerSettled(j) == job[j].result # "none" => job[j].status \in TerminalStatus
AnswerSound(j, v) == job[j].result # "none" => j \notin DOMAIN v.copies
AnswerInv ==
    OneProcess =>
        \A j \in Jobs : AnswerSettled(j) /\ \A w \in Workers : AnswerSound(j, process[w])

-----------------------------------------------------------------------------
(* Types *)

LEMMA CopySetsType ==
    ASSUME NEW f \in CopySets
    PROVE  /\ DOMAIN f \subseteq Jobs
           /\ f \in [DOMAIN f -> Copy]
           /\ \A j \in DOMAIN f : f[j] \in Copy /\ f[j].attempts \in Nat
<1>1. PICK J \in SUBSET Jobs : f \in [J -> Copy]
  BY DEF CopySets
<1>2. DOMAIN f = J /\ \A j \in J : f[j] \in Copy
  BY <1>1
<1>3. \A x \in Copy : x.attempts \in Nat
  BY DEF Copy
<1> QED BY <1>1, <1>2, <1>3

LEMMA CopySetsOf ==
    ASSUME NEW J \in SUBSET Jobs, NEW f \in [J -> Copy]
    PROVE  f \in CopySets
    BY DEF CopySets

LEMMA ProcessStateType ==
    ASSUME NEW v \in ProcessState
    PROVE  /\ v.pc \in {"idle", "next", "loop", "call", "settle"}
           /\ v.job \in Jobs \cup {NoJob} /\ v.copies \in CopySets
           /\ v.outcome \in Answers \cup {"none"}
           /\ DOMAIN v.copies \subseteq Jobs
<1>1. v.copies \in CopySets
  BY DEF ProcessState
<1>2. DOMAIN v.copies \subseteq Jobs
  BY <1>1, CopySetsType
<1> QED BY <1>1, <1>2 DEF ProcessState

LEMMA RestingType ==
    /\ Resting \in ProcessState
    /\ Resting.pc = "idle" /\ DOMAIN Resting.copies = {}
<1>1. [j \in {} |-> NoJobRow] \in [{} -> Copy]
  OBVIOUS
<1>2. [j \in {} |-> NoJobRow] \in CopySets
  BY <1>1 DEF CopySets
<1> QED BY <1>2 DEF Resting, ProcessState

LEMMA CancelType ==
    ASSUME NEW q \in ClientState
    PROVE  /\ q.op \in {"idle", "submit", "cancel"}
           /\ q.op = "submit" => q.key \in Keys
           /\ q.op = "cancel" => q.job \in Jobs /\ q = [op |-> "cancel", job |-> q.job]
    BY DEF ClientState

LEMMA ClientStates ==
    /\ [op |-> "idle"] \in ClientState
    /\ \A k \in Keys : [op |-> "submit", key |-> k] \in ClientState
    /\ \A j \in Jobs : [op |-> "cancel", job |-> j] \in ClientState
    BY DEF ClientState

LEMMA JobRecordType ==
    ASSUME NEW x \in ExecutionJobRecord
    PROVE  /\ x.key \in Keys \cup {NoKey} /\ x.attempts \in Nat
           /\ x.status \in Open \cup TerminalStatus \cup {"none"}
           /\ x.result \in {"none", "ok", "failed"}
    BY DEF ExecutionJobRecord

\* The type the runs check follows.
LEMMA BrokerTypeOK == BrokerType => WorkerTypeOK
<1> SUFFICES ASSUME BrokerType PROVE WorkerTypeOK
  OBVIOUS
<1>1. ASSUME NEW w \in Workers PROVE IsWorkerState(process[w])
  <2>1. process[w] \in ProcessState
    BY DEF BrokerType
  <2>2. \A j \in DOMAIN process[w].copies : process[w].copies[j] \in Copy
    BY <2>1, ProcessStateType, CopySetsType
  <2> QED BY <2>1, <2>2, ProcessStateType DEF IsWorkerState
<1> QED BY <1>1 DEF BrokerType, WorkerTypeOK

-----------------------------------------------------------------------------
(* What a step does to the rest *)

\* Rows are never taken back, keys never change, what was done stays done.
BrokerKeeps ==
    /\ \A j \in Jobs : job[j].status # "none"
          => job'[j].status # "none" /\ job'[j].key = job[j].key
    /\ effects \subseteq effects'

LEMMA ProcessKept ==
    ASSUME BrokerKeeps, NEW v \in ProcessState, ProcessSound(v)
    PROVE  ProcessSound(v)'
<1>1. DOMAIN v.copies \subseteq Jobs
  BY ProcessStateType
<1> QED BY <1>1 DEF ProcessSound, BrokerKeeps

LEMMA CancelKept ==
    ASSUME BrokerKeeps, NEW q \in ClientState, CancelSound(q)
    PROVE  CancelSound(q)'
<1>1. q.op = "cancel" => q.job \in Jobs
  BY CancelType
<1> QED BY <1>1 DEF CancelSound, BrokerKeeps

\* A client moves: the processes are left alone.
ClientTurn(c, q) ==
    /\ q \in ClientState /\ client' = [client EXCEPT ![c] = q]
    /\ UNCHANGED <<process, effects, calls, crashes>>

LEMMA ClientStep ==
    ASSUME BrokerInv, NEW c \in Clients, NEW q, ClientTurn(c, q), BrokerKeeps,
           job' \in [Jobs -> ExecutionJobRecord], \A j \in Jobs : RowSound(j)',
           CancelSound(q)'
    PROVE  BrokerInv'
<1>1. BrokerType'
  BY DEF BrokerInv, BrokerType, ClientTurn
<1>2. ASSUME NEW d \in Clients PROVE CancelSound(client[d])'
  <2>1. CASE d = c
    <3>1. client'[d] = q
      BY <2>1 DEF ClientTurn, BrokerInv, BrokerType
    <3> QED BY <3>1 DEF CancelSound
  <2>2. CASE d # c
    <3>1. client'[d] = client[d] /\ client[d] \in ClientState /\ CancelSound(client[d])
      BY <2>2 DEF ClientTurn, BrokerInv, BrokerType
    <3>2. PICK x : x = client[d]
      OBVIOUS
    <3>3. CancelSound(x)'
      BY <3>1, <3>2, CancelKept
    <3> QED BY <3>1, <3>2, <3>3 DEF CancelSound
  <2> QED BY <2>1, <2>2
<1>3. ASSUME NEW w \in Workers PROVE ProcessSound(process[w])'
  <2>1. process'[w] = process[w] /\ process[w] \in ProcessState /\ ProcessSound(process[w])
    BY DEF ClientTurn, BrokerInv, BrokerType
  <2>2. PICK x : x = process[w]
    OBVIOUS
  <2>3. ProcessSound(x)'
    BY <2>1, <2>2, ProcessKept
  <2> QED BY <2>1, <2>2, <2>3 DEF ProcessSound
<1> QED BY <1>1, <1>2, <1>3 DEF BrokerInv

\* A process moves.
ProcessTurn(w, v) ==
    /\ v \in ProcessState /\ process' = [process EXCEPT ![w] = v]
    /\ UNCHANGED client

LEMMA ProcessStep ==
    ASSUME BrokerInv, NEW w \in Workers, NEW v, ProcessTurn(w, v), BrokerKeeps,
           job' \in [Jobs -> ExecutionJobRecord], effects' \subseteq Keys,
           calls' \in [Jobs -> Nat], crashes' \in Nat,
           \A j \in Jobs : RowSound(j)', ProcessSound(v)'
    PROVE  BrokerInv'
<1>1. BrokerType'
  BY DEF BrokerInv, BrokerType, ProcessTurn
<1>2. ASSUME NEW u \in Workers PROVE ProcessSound(process[u])'
  <2>1. CASE u = w
    <3>1. process'[u] = v
      BY <2>1 DEF ProcessTurn, BrokerInv, BrokerType
    <3> QED BY <3>1 DEF ProcessSound
  <2>2. CASE u # w
    <3>1. process'[u] = process[u] /\ process[u] \in ProcessState /\ ProcessSound(process[u])
      BY <2>2 DEF ProcessTurn, BrokerInv, BrokerType
    <3>2. PICK x : x = process[u]
      OBVIOUS
    <3>3. ProcessSound(x)'
      BY <3>1, <3>2, ProcessKept
    <3> QED BY <3>1, <3>2, <3>3 DEF ProcessSound
  <2> QED BY <2>1, <2>2
<1>3. ASSUME NEW d \in Clients PROVE CancelSound(client[d])'
  <2>1. client'[d] = client[d] /\ client[d] \in ClientState /\ CancelSound(client[d])
    BY DEF ProcessTurn, BrokerInv, BrokerType
  <2>2. PICK x : x = client[d]
    OBVIOUS
  <2>3. CancelSound(x)'
    BY <2>1, <2>2, CancelKept
  <2> QED BY <2>1, <2>2, <2>3 DEF CancelSound
<1> QED BY <1>1, <1>2, <1>3 DEF BrokerInv

-----------------------------------------------------------------------------
(* What a process has in memory after each of its steps *)

\* It holds the jobs J as it held them before.
Carries(u, v, J) ==
    /\ DOMAIN v.copies = J /\ J \subseteq DOMAIN u.copies
    /\ \A j \in J : v.copies[j].attempts = u.copies[j].attempts

LEMMA LoadedProcess ==
    ASSUME BrokerType, NEW J \in SUBSET {j \in Jobs : job[j].status \in Open}
    PROVE  \E v \in ProcessState :
              /\ v = [Resting EXCEPT !.pc = "next", !.copies = Loaded(J)]
              /\ v.pc = "next" /\ DOMAIN v.copies = J
              /\ \A j \in J : v.copies[j].attempts = job[j].attempts
<1>1. \A j \in J : job[j].attempts \in Nat
  BY JobRecordType DEF BrokerType
<1>2. Loaded(J) \in [J -> Copy]
  BY <1>1 DEF Loaded, Copy
<1>3. PICK f : f = Loaded(J)
  OBVIOUS
<1>4. f \in CopySets /\ DOMAIN f = J
  BY <1>2, <1>3, CopySetsOf
<1>5. \A j \in J : f[j].attempts = job[j].attempts
  BY <1>3 DEF Loaded
<1>6. PICK v : v = [Resting EXCEPT !.pc = "next", !.copies = f]
  OBVIOUS
<1>7. v \in ProcessState /\ v.pc = "next" /\ v.copies = f
  BY <1>4, <1>6, RestingType DEF ProcessState
<1> QED BY <1>3, <1>4, <1>5, <1>6, <1>7

LEMMA StartedProcess ==
    ASSUME NEW u \in ProcessState, NEW j \in DOMAIN u.copies
    PROVE  \E v \in ProcessState :
              /\ v = [u EXCEPT !.pc = "loop", !.job = j, !.copies[j].status = "running"]
              /\ v.pc = "loop" /\ v.job = j /\ Carries(u, v, DOMAIN u.copies)
<1>1. PICK f : f = u.copies
  OBVIOUS
<1>2. f \in [DOMAIN f -> Copy] /\ DOMAIN f \subseteq Jobs /\ j \in DOMAIN f
  BY <1>1, ProcessStateType, CopySetsType
<1>3. PICK g : g = [f EXCEPT ![j].status = "running"]
  OBVIOUS
<1>4. ASSUME NEW i \in DOMAIN f PROVE g[i] \in Copy /\ g[i].attempts = f[i].attempts
  <2>1. f[i] \in Copy
    BY <1>2
  <2>2. g[i] = IF i = j THEN [f[i] EXCEPT !.status = "running"] ELSE f[i]
    BY <1>2, <1>3
  <2> QED BY <2>1, <2>2 DEF Copy, Open
<1>5. DOMAIN g = DOMAIN f /\ g = [i \in DOMAIN f |-> g[i]]
  BY <1>2, <1>3
<1>6. g \in [DOMAIN f -> Copy]
  BY <1>4, <1>5
<1>7. g \in CopySets
  BY <1>2, <1>6, CopySetsOf
<1>8. PICK v : v = [u EXCEPT !.pc = "loop", !.job = j, !.copies = g]
  OBVIOUS
<1>9. v = [u EXCEPT !.pc = "loop", !.job = j, !.copies[j].status = "running"]
  BY <1>1, <1>3, <1>8 DEF ProcessState
<1>10. v \in ProcessState /\ v.pc = "loop" /\ v.job = j /\ v.copies = g
  BY <1>2, <1>7, <1>8 DEF ProcessState
<1>11. Carries(u, v, DOMAIN u.copies)
  BY <1>1, <1>4, <1>5, <1>10 DEF Carries
<1> QED BY <1>9, <1>10, <1>11

LEMMA AttemptingProcess ==
    ASSUME NEW u \in ProcessState, u.job \in DOMAIN u.copies
    PROVE  /\ u.copies[u.job].attempts \in Nat
           /\ \E v \in ProcessState :
                /\ v = [u EXCEPT !.pc = "call", !.copies[u.job].attempts = @ + 1]
                /\ v.pc = "call" /\ v.job = u.job /\ DOMAIN v.copies = DOMAIN u.copies
                /\ \A i \in DOMAIN u.copies : v.copies[i].attempts =
                      IF i = u.job THEN u.copies[i].attempts + 1 ELSE u.copies[i].attempts
<1>1. PICK f, j : f = u.copies /\ j = u.job
  OBVIOUS
<1>2. f \in [DOMAIN f -> Copy] /\ DOMAIN f \subseteq Jobs /\ j \in DOMAIN f
  BY <1>1, ProcessStateType, CopySetsType
<1>3. PICK g : g = [f EXCEPT ![j].attempts = @ + 1]
  OBVIOUS
<1>4. ASSUME NEW i \in DOMAIN f
      PROVE  /\ f[i].attempts \in Nat /\ g[i] \in Copy
             /\ g[i].attempts = IF i = j THEN f[i].attempts + 1 ELSE f[i].attempts
  <2>1. f[i] \in Copy
    BY <1>2
  <2>2. g[i] = IF i = j THEN [f[i] EXCEPT !.attempts = @ + 1] ELSE f[i]
    BY <1>2, <1>3
  <2> QED BY <2>1, <2>2 DEF Copy
<1>5. DOMAIN g = DOMAIN f /\ g = [i \in DOMAIN f |-> g[i]]
  BY <1>2, <1>3
<1>6. g \in [DOMAIN f -> Copy]
  BY <1>4, <1>5
<1>7. g \in CopySets
  BY <1>2, <1>6, CopySetsOf
<1>8. PICK v : v = [u EXCEPT !.pc = "call", !.copies = g]
  OBVIOUS
<1>9. v = [u EXCEPT !.pc = "call", !.copies[u.job].attempts = @ + 1]
  BY <1>1, <1>3, <1>8 DEF ProcessState
<1>10. v \in ProcessState /\ v.pc = "call" /\ v.job = u.job /\ v.copies = g
  BY <1>2, <1>7, <1>8 DEF ProcessState
<1>11. u.copies[u.job].attempts \in Nat
  BY <1>1, <1>2, <1>4
<1>12. DOMAIN v.copies = DOMAIN u.copies
  BY <1>1, <1>5, <1>10
<1>13. \A i \in DOMAIN u.copies : v.copies[i].attempts =
          IF i = u.job THEN u.copies[i].attempts + 1 ELSE u.copies[i].attempts
  BY <1>1, <1>4, <1>10
<1> QED BY <1>9, <1>10, <1>11, <1>12, <1>13

LEMMA AnsweredProcess ==
    ASSUME NEW u \in ProcessState, NEW s \in {"settle", "loop"},
           NEW o \in Answers \cup {"none"}
    PROVE  \E v \in ProcessState :
              /\ v = [u EXCEPT !.pc = s, !.outcome = o]
              /\ v.pc = s /\ v.job = u.job /\ v.outcome = o /\ v.copies = u.copies
<1>1. PICK v : v = [u EXCEPT !.pc = s, !.outcome = o]
  OBVIOUS
<1>2. /\ v \in ProcessState
      /\ v.pc = s /\ v.job = u.job /\ v.outcome = o /\ v.copies = u.copies
  BY <1>1 DEF ProcessState
<1> QED BY <1>1, <1>2

LEMMA LeftProcess ==
    ASSUME NEW w \in Workers, process \in [Workers -> ProcessState], Leave(w)
    PROVE  \E v \in ProcessState :
              /\ process' = [process EXCEPT ![w] = v] /\ v.pc \in {"idle", "next"}
              /\ Carries(process[w], v, DOMAIN process[w].copies \ {process[w].job})
<1>1. PICK u : u = process[w]
  OBVIOUS
<1>2. PICK J : J = DOMAIN u.copies \ {u.job}
  OBVIOUS
<1>3. u \in ProcessState /\ J \in SUBSET Jobs /\ J \subseteq DOMAIN u.copies
  <2>1. u \in ProcessState
    BY <1>1
  <2>2. DOMAIN u.copies \subseteq Jobs
    BY <2>1, ProcessStateType
  <2> QED BY <1>2, <2>1, <2>2
<1>4. process' = [process EXCEPT ![w] =
        IF J = {} THEN Resting
        ELSE [Resting EXCEPT !.pc = "next", !.copies = [j \in J |-> u.copies[j]]]]
  BY <1>1, <1>2 DEF Leave
<1>5. CASE J = {}
  <2>1. Carries(u, Resting, J)
    BY <1>3, <1>5, RestingType DEF Carries
  <2> QED BY <1>1, <1>2, <1>4, <1>5, <2>1, RestingType
<1>6. CASE J # {}
  <2>1. PICK f : f = [j \in J |-> u.copies[j]]
    OBVIOUS
  <2>2. \A j \in DOMAIN u.copies : u.copies[j] \in Copy
    BY <1>3, ProcessStateType, CopySetsType
  <2>3. f \in [J -> Copy] /\ DOMAIN f = J
    BY <1>3, <2>1, <2>2
  <2>4. f \in CopySets
    BY <1>3, <2>3, CopySetsOf
  <2>5. PICK v : v = [Resting EXCEPT !.pc = "next", !.copies = f]
    OBVIOUS
  <2>6. v \in ProcessState /\ v.pc = "next" /\ v.copies = f
    BY <2>4, <2>5, RestingType DEF ProcessState
  <2>7. Carries(u, v, J)
    BY <1>3, <2>1, <2>3, <2>6 DEF Carries
  <2> QED BY <1>1, <1>2, <1>4, <1>6, <2>1, <2>5, <2>6, <2>7
<1> QED BY <1>5, <1>6

-----------------------------------------------------------------------------
(* Every step keeps the invariant *)

LEMMA JobsUntouched ==
    ASSUME BrokerInv, UNCHANGED <<job, calls>>, effects \subseteq effects'
    PROVE  /\ BrokerKeeps /\ job' \in [Jobs -> ExecutionJobRecord]
           /\ calls' \in [Jobs -> Nat] /\ \A j \in Jobs : RowSound(j)'
    BY DEF BrokerInv, BrokerType, BrokerKeeps, RowSound

\* A row that was inserted is written, and a success only when it is true.
RowWrite(j, x) ==
    /\ job' = [job EXCEPT ![j] = x] /\ x \in ExecutionJobRecord
    /\ job[j].status # "none" /\ x.status # "none" /\ x.key = job[j].key
    /\ x.status = "succeeded" => x.key \in effects
    /\ UNCHANGED <<effects, calls>>

LEMMA RowWriteSound ==
    ASSUME BrokerInv, NEW j \in Jobs, NEW x, RowWrite(j, x)
    PROVE  /\ BrokerKeeps /\ job' \in [Jobs -> ExecutionJobRecord]
           /\ calls' \in [Jobs -> Nat] /\ \A i \in Jobs : RowSound(i)'
<1>1. /\ job \in [Jobs -> ExecutionJobRecord] /\ calls \in [Jobs -> Nat]
      /\ \A i \in Jobs : RowSound(i)
  BY DEF BrokerInv, BrokerType
<1>2. job'[j] = x /\ \A i \in Jobs \ {j} : job'[i] = job[i]
  BY <1>1 DEF RowWrite
<1>3. job' \in [Jobs -> ExecutionJobRecord] /\ calls' \in [Jobs -> Nat]
  BY <1>1 DEF RowWrite
<1>4. BrokerKeeps
  BY <1>2 DEF BrokerKeeps, RowWrite
<1>5. RowSound(j)'
  BY <1>1, <1>2 DEF RowSound, RowWrite
<1>6. \A i \in Jobs \ {j} : RowSound(i)'
  BY <1>1, <1>2 DEF RowSound, RowWrite
<1> QED BY <1>3, <1>4, <1>5, <1>6

LEMMA StatusWrite ==
    ASSUME BrokerInv, NEW j \in Jobs, NEW s \in Open \cup TerminalStatus,
           job[j].status # "none", s # "succeeded", UNCHANGED <<effects, calls>>,
           job' = [job EXCEPT ![j].status = s]
    PROVE  \E x : /\ RowWrite(j, x) /\ x.attempts = job[j].attempts
                  /\ x.status = s /\ x.result = job[j].result
<1>1. job[j] \in ExecutionJobRecord
  BY DEF BrokerInv, BrokerType
<1>2. PICK x : x = [job[j] EXCEPT !.status = s]
  OBVIOUS
<1>3. x \in ExecutionJobRecord /\ x.status = s /\ x.key = job[j].key
      /\ x.attempts = job[j].attempts /\ x.result = job[j].result
  BY <1>1, <1>2 DEF ExecutionJobRecord
<1>4. s # "none"
  BY DEF Open, TerminalStatus
<1> QED BY <1>2, <1>3, <1>4 DEF RowWrite

LEMMA RequestKeeps ==
    ASSUME BrokerInv, NEW c \in Clients, ClientRequest(c)
    PROVE  BrokerInv'
<1>1. client[c] \in ClientState /\ client \in [Clients -> ClientState]
  BY DEF BrokerInv, BrokerType
<1>2. ASSUME NEW q, q.op # "cancel" \/ job[q.job].status # "none", ClientTurn(c, q), UNCHANGED job
      PROVE  BrokerInv'
  <2>1. UNCHANGED <<calls, effects>>
    BY <1>2 DEF ClientTurn
  <2>2. CancelSound(q)'
    BY <1>2 DEF CancelSound
  <2> QED BY <1>2, <2>1, <2>2, JobsUntouched, ClientStep
<1>3. ASSUME NEW k \in Keys, SelectKey(c, k) PROVE BrokerInv'
  <2>1. PICK q : q = [op |-> "submit", key |-> k]
    OBVIOUS
  <2>2. q \in ClientState /\ q.op # "cancel"
    BY <2>1, ClientStates
  <2>3. ClientTurn(c, q) /\ UNCHANGED job
    BY <1>3, <2>1, <2>2 DEF ClientTurn, SelectKey
  <2> QED BY <1>2, <2>2, <2>3
<1>4. ASSUME NEW j \in Jobs, InsertJob(c, j) PROVE BrokerInv'
  <2>1. PICK q, x : /\ q = [op |-> "idle"]
                    /\ x = [key |-> client[c].key, status |-> "pending",
                            attempts |-> 0, result |-> "none"]
    OBVIOUS
  <2>2. /\ client[c].op = "submit" /\ job[j].status = "none" /\ job' = [job EXCEPT ![j] = x]
        /\ client' = [client EXCEPT ![c] = q] /\ UNCHANGED <<process, effects, calls, crashes>>
    BY <1>4, <2>1 DEF InsertJob
  <2>3. q \in ClientState /\ q.op = "idle"
    BY <2>1, ClientStates
  <2>4. client[c].key \in Keys
    BY <1>1, <2>2, CancelType
  <2>5. x \in ExecutionJobRecord /\ x.status = "pending" /\ x.key \in Keys
    BY <2>1, <2>4 DEF ExecutionJobRecord, Open
  <2>6. job \in [Jobs -> ExecutionJobRecord] /\ \A i \in Jobs : RowSound(i)
    BY DEF BrokerInv, BrokerType
  <2>7. job' \in [Jobs -> ExecutionJobRecord]
    BY <2>2, <2>5, <2>6
  <2>8. job'[j] = x /\ \A i \in Jobs \ {j} : job'[i] = job[i]
    BY <2>2, <2>6
  <2>9. BrokerKeeps
    BY <2>2, <2>8 DEF BrokerKeeps
  <2>10. RowSound(j)'
    BY <2>5, <2>8 DEF RowSound
  <2>11. \A i \in Jobs \ {j} : RowSound(i)'
    BY <2>2, <2>6, <2>8 DEF RowSound
  <2>12. ClientTurn(c, q) /\ CancelSound(q)'
    BY <2>2, <2>3 DEF ClientTurn, CancelSound
  <2> QED BY <2>7, <2>9, <2>10, <2>11, <2>12, ClientStep
<1>5. ASSUME NEW j \in Jobs, LoadCancel(c, j) PROVE BrokerInv'
  <2>1. PICK q : q = [op |-> "cancel", job |-> j]
    OBVIOUS
  <2>2. q \in ClientState /\ q.job = j
    BY <2>1, ClientStates
  <2>3. job[j].status # "none"
    BY <1>5 DEF LoadCancel, Cancellable, Open
  <2>4. ClientTurn(c, q) /\ UNCHANGED job
    BY <1>5, <2>1, <2>2 DEF ClientTurn, LoadCancel
  <2> QED BY <1>2, <2>2, <2>3, <2>4
<1>6. ASSUME CommitCancel(c) PROVE BrokerInv'
  <2>1. PICK q, j : q = [op |-> "idle"] /\ j = client[c].job
    OBVIOUS
  <2>2. /\ client[c].op = "cancel" /\ job' = [job EXCEPT ![j].status = "cancelled"]
        /\ client' = [client EXCEPT ![c] = q] /\ UNCHANGED <<process, effects, calls, crashes>>
    BY <1>6, <2>1 DEF CommitCancel
  <2>3. j \in Jobs /\ job[j].status # "none"
    BY <1>1, <2>1, <2>2, CancelType DEF BrokerInv, CancelSound
  <2>4. "cancelled" \in Open \cup TerminalStatus
    BY DEF TerminalStatus
  <2>5. PICK x : RowWrite(j, x)
    BY <2>2, <2>3, <2>4, StatusWrite
  <2>6. ClientTurn(c, q) /\ CancelSound(q)'
    BY <2>1, <2>2, ClientStates DEF ClientTurn, CancelSound
  <2> QED BY <2>3, <2>5, <2>6, RowWriteSound, ClientStep
<1>7. ASSUME AbortClient(c) PROVE BrokerInv'
  <2>1. PICK q : q = [op |-> "idle"]
    OBVIOUS
  <2>2. ClientTurn(c, q) /\ UNCHANGED job /\ q.op # "cancel"
    BY <1>7, <2>1, ClientStates DEF ClientTurn, AbortClient
  <2> QED BY <1>2, <2>2
<1> QED BY <1>3, <1>4, <1>5, <1>6, <1>7 DEF ClientRequest

-----------------------------------------------------------------------------
(* The steps of a process, reduced to what the invariants speak of *)

Loading(w, v, J) ==
    /\ ProcessTurn(w, v) /\ J \subseteq {j \in Jobs : job[j].status \in Open}
    /\ v.pc = "next" /\ DOMAIN v.copies = J
    /\ \A j \in J : v.copies[j].attempts = job[j].attempts
    /\ UNCHANGED <<job, effects, calls, crashes>>

Starting(w, v, j) ==
    /\ ProcessTurn(w, v) /\ j \in DOMAIN process[w].copies
    /\ v.pc = "loop" /\ v.job = j /\ Carries(process[w], v, DOMAIN process[w].copies)
    /\ \/ UNCHANGED job
       \/ \E x : /\ RowWrite(j, x) /\ x.attempts = job[j].attempts
                 /\ x.result = job[j].result
    /\ UNCHANGED <<effects, calls, crashes>>

Attempting(w, v, j) ==
    /\ ProcessTurn(w, v) /\ j \in DOMAIN process[w].copies
    /\ v.pc = "call" /\ v.job = j /\ DOMAIN v.copies = DOMAIN process[w].copies
    /\ process[w].copies[j].attempts \in 0..MaxRetries
    /\ \A i \in DOMAIN v.copies : v.copies[i].attempts =
          IF i = j THEN process[w].copies[i].attempts + 1 ELSE process[w].copies[i].attempts
    /\ \E x : /\ RowWrite(j, x) /\ x.attempts = process[w].copies[j].attempts + 1
              /\ x.result = job[j].result
    /\ UNCHANGED crashes

Calling(w, v, j) ==
    /\ ProcessTurn(w, v) /\ process[w].pc = "call" /\ j = process[w].job
    /\ v.pc = "settle" /\ v.job = j /\ v.copies = process[w].copies
    /\ effects' \in {effects, effects \cup {job[j].key}}
    /\ v.outcome = "ok" => job[j].key \in effects'
    /\ calls' = [calls EXCEPT ![j] = @ + 1]
    /\ UNCHANGED <<job, crashes>>

Retrying(w, v, j) ==
    /\ ProcessTurn(w, v) /\ j = process[w].job /\ j \in DOMAIN process[w].copies
    /\ v.pc = "loop" /\ v.job = j /\ v.copies = process[w].copies
    /\ UNCHANGED <<job, effects, calls, crashes>>

Leaving(w, v, j) ==
    /\ ProcessTurn(w, v) /\ j \in DOMAIN process[w].copies /\ v.pc \in {"idle", "next"}
    /\ Carries(process[w], v, DOMAIN process[w].copies \ {j})
    /\ \E x : RowWrite(j, x) /\ x.attempts = job[j].attempts /\ x.status \in TerminalStatus
    /\ UNCHANGED crashes

Crashing(w, v) ==
    /\ ProcessTurn(w, v) /\ v.pc = "idle" /\ DOMAIN v.copies = {}
    /\ crashes' = crashes + 1 /\ UNCHANGED <<job, effects, calls>>

ProcessMove(w) ==
    \/ (\E j \in Jobs : RunJob(w, j)) \/ RecoverPendingJobs(w)
    \/ Advance(w) \/ Crash(w)

\* The verdict on an answer.
LEMMA VerdictType ==
    ASSUME NEW o, NEW n
    PROVE  /\ Verdict(o, n) \in {"running", "succeeded", "failed", "timed_out", "dead_letter"}
           /\ Verdict(o, n) = "succeeded" => o = "ok"
    BY DEF Verdict

LEMMA ProcessAt ==
    ASSUME BrokerInv, NEW w \in Workers
    PROVE  /\ process \in [Workers -> ProcessState] /\ process[w] \in ProcessState
           /\ ProcessSound(process[w]) /\ DOMAIN process[w].copies \subseteq Jobs
           /\ \A j \in DOMAIN process[w].copies : j \in Jobs /\ job[j].status # "none"
<1>1. process \in [Workers -> ProcessState] /\ process[w] \in ProcessState
      /\ ProcessSound(process[w])
  BY DEF BrokerInv, BrokerType
<1>2. DOMAIN process[w].copies \subseteq Jobs
  BY <1>1, ProcessStateType
<1> QED BY <1>1, <1>2 DEF ProcessSound

LEMMA LoadingShape ==
    ASSUME BrokerInv, NEW w \in Workers,
           (\E j \in Jobs : RunJob(w, j)) \/ RecoverPendingJobs(w)
    PROVE  \E v, J : Loading(w, v, J)
<1>1. PICK J \in SUBSET {j \in Jobs : job[j].status \in Open} :
        /\ process' = [process EXCEPT ![w] =
              [Resting EXCEPT !.pc = "next", !.copies = Loaded(J)]]
        /\ UNCHANGED <<job, client, effects, calls, crashes>>
  <2>1. ASSUME NEW j \in Jobs, RunJob(w, j)
        PROVE  \E J \in SUBSET {i \in Jobs : job[i].status \in Open} :
                /\ process' = [process EXCEPT ![w] =
                      [Resting EXCEPT !.pc = "next", !.copies = Loaded(J)]]
                /\ UNCHANGED <<job, client, effects, calls, crashes>>
    <3>1. {j} \in SUBSET {i \in Jobs : job[i].status \in Open}
      BY <2>1 DEF RunJob
    <3> QED BY <2>1, <3>1 DEF RunJob
  <2>2. ASSUME RecoverPendingJobs(w)
        PROVE  \E J \in SUBSET {i \in Jobs : job[i].status \in Open} :
                /\ process' = [process EXCEPT ![w] =
                      [Resting EXCEPT !.pc = "next", !.copies = Loaded(J)]]
                /\ UNCHANGED <<job, client, effects, calls, crashes>>
    BY <2>2 DEF RecoverPendingJobs, Recoverable
  <2> QED BY <2>1, <2>2
<1>2. BrokerType
  BY DEF BrokerInv
<1>3. PICK v \in ProcessState :
        /\ v = [Resting EXCEPT !.pc = "next", !.copies = Loaded(J)]
        /\ v.pc = "next" /\ DOMAIN v.copies = J
        /\ \A j \in J : v.copies[j].attempts = job[j].attempts
  BY <1>2, LoadedProcess
<1>4. ProcessTurn(w, v)
  BY <1>1, <1>3 DEF ProcessTurn
<1>5. Loading(w, v, J)
  BY <1>1, <1>3, <1>4 DEF Loading
<1> QED BY <1>5

LEMMA StartingShape ==
    ASSUME BrokerInv, NEW w \in Workers, NEW j \in Jobs, StartJob(w, j)
    PROVE  \E v : Starting(w, v, j)
<1>1. PICK u : u = process[w]
  OBVIOUS
<1>2. u \in ProcessState /\ j \in DOMAIN u.copies /\ job[j].status # "none"
  BY <1>1, ProcessAt DEF StartJob
<1>3. PICK v \in ProcessState :
        /\ v = [u EXCEPT !.pc = "loop", !.job = j, !.copies[j].status = "running"]
        /\ v.pc = "loop" /\ v.job = j /\ Carries(u, v, DOMAIN u.copies)
  BY <1>2, StartedProcess
<1>4. process' = [process EXCEPT ![w] = v]
  <2>1. process' = [process EXCEPT ![w].pc = "loop", ![w].job = j,
                                   ![w].copies[j].status = "running"]
    BY DEF StartJob
  <2>2. process' = [process EXCEPT ![w] =
            [@ EXCEPT !.pc = "loop", !.job = j, !.copies[j].status = "running"]]
    BY <1>1, <1>2, <2>1, ProcessAt DEF ProcessState
  <2> QED BY <1>1, <1>3, <2>2
<1>5. ProcessTurn(w, v)
  BY <1>3, <1>4 DEF ProcessTurn, StartJob
<1>6. \/ UNCHANGED job
      \/ \E x : RowWrite(j, x) /\ x.attempts = job[j].attempts /\ x.result = job[j].result
  <2>1. "running" \in Open \cup TerminalStatus /\ "running" # "succeeded"
    BY DEF Open
  <2>2. UNCHANGED <<effects, calls>>
    BY DEF StartJob
  <2>3. UNCHANGED job \/ job' = [job EXCEPT ![j].status = "running"]
    BY DEF StartJob
  <2> QED BY <1>2, <2>1, <2>2, <2>3, StatusWrite
<1>7. UNCHANGED <<effects, calls, crashes>>
  BY DEF StartJob
<1> QED BY <1>1, <1>2, <1>3, <1>5, <1>6, <1>7 DEF Starting

LEMMA AttemptingShape ==
    ASSUME BrokerInv, NEW w \in Workers, BeginAttempt(w)
    PROVE  \E v, j : Attempting(w, v, j)
<1>1. PICK u, j : u = process[w] /\ j = u.job
  OBVIOUS
<1>2. /\ u \in ProcessState /\ j \in DOMAIN u.copies /\ j \in Jobs /\ job[j].status # "none"
      /\ u.pc = "loop"
  BY <1>1, ProcessAt DEF BeginAttempt, ProcessSound
<1>3. u.copies[j].attempts \in Nat
  BY <1>1, <1>2, AttemptingProcess
<1>4. PICK v \in ProcessState :
        /\ v = [u EXCEPT !.pc = "call", !.copies[u.job].attempts = @ + 1]
        /\ v.pc = "call" /\ v.job = u.job /\ DOMAIN v.copies = DOMAIN u.copies
        /\ \A i \in DOMAIN u.copies : v.copies[i].attempts =
              IF i = u.job THEN u.copies[i].attempts + 1 ELSE u.copies[i].attempts
  BY <1>1, <1>2, AttemptingProcess
<1>5. process' = [process EXCEPT ![w] = v]
  <2>1. process' = [process EXCEPT ![w].pc = "call", ![w].copies[j].attempts = @ + 1]
    BY <1>1 DEF BeginAttempt
  <2>2. process' = [process EXCEPT ![w] = process'[w]]
    BY <2>1, ProcessAt
  <2>3. process'[w] = [u EXCEPT !.pc = "call", !.copies[j].attempts = @ + 1]
    BY <1>1, <1>2, <2>1, ProcessAt DEF ProcessState
  <2> QED BY <1>1, <1>4, <2>2, <2>3
<1>6. ProcessTurn(w, v)
  BY <1>4, <1>5 DEF ProcessTurn, BeginAttempt
<1>7. PICK n : n = u.copies[j].attempts
  OBVIOUS
<1>8. n \in 0..MaxRetries
  <2>1. n < MaxRetries + 1
    BY <1>1, <1>7 DEF BeginAttempt, Spent
  <2>2. n \in Nat /\ MaxRetries \in Nat
    BY <1>3, <1>7, WorkerAssumption DEF WorkerAssumption
  <2> QED BY <2>1, <2>2
<1>9. job' = [job EXCEPT ![j].attempts = n + 1] /\ UNCHANGED <<effects, calls, crashes>>
  BY <1>1, <1>7 DEF BeginAttempt, Spent
<1>10. job[j] \in ExecutionJobRecord /\ RowSound(j)
  BY <1>2 DEF BrokerInv, BrokerType
<1>11. PICK x : x = [job[j] EXCEPT !.attempts = n + 1]
  OBVIOUS
<1>12. /\ x \in ExecutionJobRecord /\ x.status = job[j].status /\ x.key = job[j].key
       /\ x.attempts = n + 1 /\ x.result = job[j].result
  BY <1>8, <1>10, <1>11 DEF ExecutionJobRecord
<1>13. job' = [job EXCEPT ![j] = x]
  BY <1>9, <1>11
<1>14. RowWrite(j, x)
  BY <1>2, <1>9, <1>10, <1>12, <1>13 DEF RowWrite, RowSound
<1>15. /\ j \in DOMAIN process[w].copies /\ process[w].copies[j].attempts \in 0..MaxRetries
       /\ \E y : /\ RowWrite(j, y) /\ y.attempts = process[w].copies[j].attempts + 1
                 /\ y.result = job[j].result
  BY <1>1, <1>2, <1>7, <1>8, <1>12, <1>14
<1>16. /\ v.pc = "call" /\ v.job = j /\ DOMAIN v.copies = DOMAIN process[w].copies
       /\ \A i \in DOMAIN v.copies : v.copies[i].attempts =
             IF i = j THEN process[w].copies[i].attempts + 1 ELSE process[w].copies[i].attempts
  BY <1>1, <1>4
<1>17. Attempting(w, v, j)
  BY <1>6, <1>9, <1>15, <1>16 DEF Attempting
<1> QED BY <1>17

LEMMA CallingShape ==
    ASSUME BrokerInv, NEW w \in Workers, NEW o \in Answers, CallExecutor(w, o)
    PROVE  \E v, j : Calling(w, v, j)
<1>1. PICK u, j : u = process[w] /\ j = u.job
  OBVIOUS
<1>2. u \in ProcessState
  BY <1>1, ProcessAt
<1>3. PICK v \in ProcessState :
        /\ v = [u EXCEPT !.pc = "settle", !.outcome = o]
        /\ v.pc = "settle" /\ v.job = u.job /\ v.outcome = o /\ v.copies = u.copies
  BY <1>2, AnsweredProcess
<1>4. process' = [process EXCEPT ![w] = v]
  <2>1. process' = [process EXCEPT ![w].pc = "settle", ![w].outcome = o]
    BY DEF CallExecutor
  <2>2. process' = [process EXCEPT ![w] = process'[w]]
    BY <2>1, ProcessAt
  <2>3. process'[w] = [u EXCEPT !.pc = "settle", !.outcome = o]
    BY <1>1, <1>2, <2>1, ProcessAt DEF ProcessState
  <2> QED BY <1>3, <2>2, <2>3
<1>5. ProcessTurn(w, v) /\ UNCHANGED <<job, crashes>> /\ process[w].pc = "call"
  BY <1>3, <1>4 DEF ProcessTurn, CallExecutor
<1>6. calls' = [calls EXCEPT ![j] = @ + 1]
  BY <1>1 DEF CallExecutor
<1>7. effects' \in Effect(job[j].key, o)
  BY <1>1 DEF CallExecutor
<1>8. /\ effects' \in {effects, effects \cup {job[j].key}}
      /\ o = "ok" => job[j].key \in effects'
  BY <1>7 DEF Effect
<1>9. Calling(w, v, j)
  BY <1>1, <1>3, <1>5, <1>6, <1>8 DEF Calling
<1> QED BY <1>9

LEMMA SettlingShape ==
    ASSUME BrokerInv, NEW w \in Workers, SettleJob(w)
    PROVE  \E v, j : Retrying(w, v, j) \/ Leaving(w, v, j)
<1>1. PICK u, j, o : u = process[w] /\ j = u.job /\ o = u.outcome
  OBVIOUS
<1>2. PICK verdict : verdict = Verdict(o, Spent(w))
  OBVIOUS
<1>3. /\ u \in ProcessState /\ j \in DOMAIN u.copies /\ j \in Jobs /\ job[j].status # "none"
      /\ o = "ok" => job[j].key \in effects
  BY <1>1, ProcessAt DEF SettleJob, ProcessSound
<1>4. UNCHANGED <<client, effects, calls, crashes>>
  BY DEF SettleJob
<1>5. CASE verdict = "running"
  <2>1. process' = [process EXCEPT ![w].pc = "loop", ![w].outcome = "none"] /\ UNCHANGED job
    BY <1>1, <1>2, <1>5 DEF SettleJob
  <2>2. PICK v \in ProcessState :
          /\ v = [u EXCEPT !.pc = "loop", !.outcome = "none"]
          /\ v.pc = "loop" /\ v.job = u.job /\ v.outcome = "none" /\ v.copies = u.copies
    BY <1>3, AnsweredProcess
  <2>3. process' = [process EXCEPT ![w] = process'[w]]
    BY <2>1, ProcessAt
  <2>4. process'[w] = [u EXCEPT !.pc = "loop", !.outcome = "none"]
    BY <1>1, <1>3, <2>1, ProcessAt DEF ProcessState
  <2>5. ProcessTurn(w, v)
    BY <1>4, <2>2, <2>3, <2>4 DEF ProcessTurn
  <2>6. Retrying(w, v, j)
    BY <1>1, <1>3, <1>4, <2>1, <2>2, <2>5 DEF Retrying
  <2> QED BY <2>6
<1>6. CASE verdict # "running"
  <2>1. PICK r : r = IF o \in {"ok", "failed"} THEN o ELSE job[j].result
    OBVIOUS
  <2>2. job[j] \in ExecutionJobRecord /\ job \in [Jobs -> ExecutionJobRecord]
    BY <1>3 DEF BrokerInv, BrokerType
  <2>3. /\ job' = [job EXCEPT ![j].status = verdict,
                     ![j].result = IF o \in {"ok", "failed"} THEN o ELSE @]
        /\ Leave(w)
    BY <1>1, <1>2, <1>6 DEF SettleJob
  <2>4. verdict \in {"succeeded", "failed", "timed_out", "dead_letter"}
        /\ (verdict = "succeeded" => o = "ok")
    BY <1>2, <1>6, VerdictType
  <2>5. PICK x : x = [job[j] EXCEPT !.status = verdict, !.result = r]
    OBVIOUS
  <2>6. r \in {"none", "ok", "failed"}
    BY <2>1, <2>2, JobRecordType
  <2>7. /\ x \in ExecutionJobRecord /\ x.status = verdict /\ x.key = job[j].key
        /\ x.attempts = job[j].attempts /\ x.status \in TerminalStatus
    BY <2>2, <2>4, <2>5, <2>6 DEF ExecutionJobRecord, TerminalStatus
  <2>8. job' = [job EXCEPT ![j] = job'[j]]
    BY <2>2, <2>3
  <2>9. job'[j] = x
    BY <1>3, <2>1, <2>2, <2>3, <2>5 DEF ExecutionJobRecord
  <2>10. RowWrite(j, x)
    BY <1>3, <1>4, <2>4, <2>7, <2>8, <2>9 DEF RowWrite
  <2>11. PICK v \in ProcessState :
           /\ process' = [process EXCEPT ![w] = v] /\ v.pc \in {"idle", "next"}
           /\ Carries(process[w], v, DOMAIN process[w].copies \ {process[w].job})
    BY <2>3, ProcessAt, LeftProcess
  <2>12. ProcessTurn(w, v)
    BY <1>4, <2>11 DEF ProcessTurn
  <2>13. Leaving(w, v, j)
    BY <1>1, <1>3, <1>4, <2>7, <2>10, <2>11, <2>12 DEF Leaving
  <2> QED BY <2>13
<1> QED BY <1>5, <1>6

LEMMA DeadLetterShape ==
    ASSUME BrokerInv, NEW w \in Workers, DeadLetter(w)
    PROVE  \E v, j : Leaving(w, v, j)
<1>1. PICK j : j = process[w].job
  OBVIOUS
<1>2. j \in DOMAIN process[w].copies /\ j \in Jobs /\ job[j].status # "none"
  BY <1>1, ProcessAt DEF DeadLetter, ProcessSound
<1>3. /\ job' = [job EXCEPT ![j].status = "dead_letter"] /\ Leave(w)
      /\ UNCHANGED <<client, effects, calls, crashes>>
  BY <1>1 DEF DeadLetter
<1>4. "dead_letter" \in TerminalStatus
  BY DEF TerminalStatus
<1>5. \E x : RowWrite(j, x) /\ x.attempts = job[j].attempts /\ x.status \in TerminalStatus
  <2>1. PICK s : s = "dead_letter"
    OBVIOUS
  <2>2. s \in Open \cup TerminalStatus /\ s # "succeeded" /\ s \in TerminalStatus
    BY <1>4, <2>1
  <2>3. UNCHANGED <<effects, calls>> /\ job' = [job EXCEPT ![j].status = s]
    BY <1>3, <2>1
  <2> QED BY <1>2, <2>2, <2>3, StatusWrite
<1>6. PICK v \in ProcessState :
         /\ process' = [process EXCEPT ![w] = v] /\ v.pc \in {"idle", "next"}
         /\ Carries(process[w], v, DOMAIN process[w].copies \ {process[w].job})
  BY <1>3, ProcessAt, LeftProcess
<1>7. ProcessTurn(w, v)
  BY <1>3, <1>6 DEF ProcessTurn
<1>8. Leaving(w, v, j)
  BY <1>1, <1>2, <1>3, <1>5, <1>6, <1>7 DEF Leaving
<1> QED BY <1>8

LEMMA CrashingShape ==
    ASSUME NEW w \in Workers, Crash(w)
    PROVE  \E v : Crashing(w, v)
<1>1. ProcessTurn(w, Resting)
  BY RestingType DEF ProcessTurn, Crash
<1>2. Crashing(w, Resting)
  BY <1>1, RestingType DEF Crashing, Crash
<1> QED BY <1>2

LEMMA ProcessShapes ==
    ASSUME BrokerInv, NEW w \in Workers, ProcessMove(w)
    PROVE  \E v : \/ \E J : Loading(w, v, J)
                  \/ \E j : \/ Starting(w, v, j) \/ Attempting(w, v, j) \/ Calling(w, v, j)
                            \/ Retrying(w, v, j) \/ Leaving(w, v, j)
                  \/ Crashing(w, v)
<1>1. ASSUME Advance(w)
      PROVE  \E v, j : \/ Starting(w, v, j) \/ Attempting(w, v, j) \/ Calling(w, v, j)
                       \/ Retrying(w, v, j) \/ Leaving(w, v, j)
  <2>1. CASE \E j \in Jobs : StartJob(w, j)
    BY <2>1, StartingShape
  <2>2. CASE BeginAttempt(w)
    BY <2>2, AttemptingShape
  <2>3. CASE \E o \in Answers : CallExecutor(w, o)
    BY <2>3, CallingShape
  <2>4. CASE SettleJob(w)
    BY <2>4, SettlingShape
  <2>5. CASE DeadLetter(w)
    BY <2>5, DeadLetterShape
  <2> QED BY <1>1, <2>1, <2>2, <2>3, <2>4, <2>5 DEF Advance, OwnStep
<1>2. ASSUME Crash(w) PROVE \E v : Crashing(w, v)
  BY <1>2, CrashingShape
<1>3. ASSUME (\E j \in Jobs : RunJob(w, j)) \/ RecoverPendingJobs(w)
      PROVE  \E v, J : Loading(w, v, J)
  BY <1>3, LoadingShape
<1> QED BY <1>1, <1>2, <1>3 DEF ProcessMove

LEMMA ProcessMoveKeeps ==
    ASSUME BrokerInv, NEW w \in Workers, ProcessMove(w)
    PROVE  BrokerInv'
<1>1. PICK v : \/ \E J : Loading(w, v, J)
               \/ \E j : \/ Starting(w, v, j) \/ Attempting(w, v, j) \/ Calling(w, v, j)
                         \/ Retrying(w, v, j) \/ Leaving(w, v, j)
               \/ Crashing(w, v)
  BY ProcessShapes
<1>2. /\ process[w] \in ProcessState /\ ProcessSound(process[w])
      /\ \A j \in DOMAIN process[w].copies : j \in Jobs /\ job[j].status # "none"
  BY ProcessAt
<1>3. /\ job \in [Jobs -> ExecutionJobRecord] /\ effects \subseteq Keys
      /\ calls \in [Jobs -> Nat] /\ crashes \in Nat /\ crashes + 1 \in Nat
  BY DEF BrokerInv, BrokerType
<1>4. ASSUME ProcessTurn(w, v), UNCHANGED <<job, effects, calls>>, ProcessSound(v)',
             crashes' \in {crashes, crashes + 1}
      PROVE  BrokerInv'
  BY <1>3, <1>4, JobsUntouched, ProcessStep
<1>5. ASSUME NEW j \in Jobs, NEW x, ProcessTurn(w, v), RowWrite(j, x), UNCHANGED crashes,
             ProcessSound(v)'
      PROVE  BrokerInv'
  <2>1. effects' \subseteq Keys /\ crashes' \in Nat
    BY <1>3, <1>5 DEF RowWrite
  <2> QED BY <1>5, <2>1, RowWriteSound, ProcessStep
<1>6. ASSUME NEW J, Loading(w, v, J) PROVE BrokerInv'
  <2>1. ProcessSound(v)'
    BY <1>6 DEF ProcessSound, Loading, Open
  <2> QED BY <1>4, <1>6, <2>1 DEF Loading
<1>7. ASSUME NEW j, Starting(w, v, j) PROVE BrokerInv'
  <2>1. ProcessSound(v)
    BY <1>2, <1>7 DEF ProcessSound, Starting, Carries
  <2>2. v \in ProcessState /\ j \in Jobs
    BY <1>2, <1>7 DEF Starting, ProcessTurn
  <2>3. CASE UNCHANGED job
    <3>1. ProcessSound(v)'
      BY <1>7, <2>1, <2>3 DEF ProcessSound, Starting
    <3> QED BY <1>4, <1>7, <2>3, <3>1 DEF Starting
  <2>4. CASE \E x : RowWrite(j, x)
    <3>1. PICK x : RowWrite(j, x)
      BY <2>4
    <3>2. ProcessSound(v)'
      BY <2>1, <2>2, <3>1, RowWriteSound, ProcessKept
    <3> QED BY <1>5, <1>7, <2>2, <3>1, <3>2 DEF Starting
  <2> QED BY <1>7, <2>3, <2>4 DEF Starting
<1>8. ASSUME NEW j, Attempting(w, v, j) PROVE BrokerInv'
  <2>1. PICK x : RowWrite(j, x)
    BY <1>8 DEF Attempting
  <2>2. v \in ProcessState /\ j \in Jobs /\ ProcessTurn(w, v) /\ UNCHANGED crashes
    BY <1>2, <1>8 DEF Attempting, ProcessTurn
  <2>3. ProcessSound(v)
    BY <1>2, <1>8 DEF ProcessSound, Attempting
  <2>4. ProcessSound(v)'
    BY <2>1, <2>2, <2>3, RowWriteSound, ProcessKept
  <2> QED BY <1>5, <2>1, <2>2, <2>4
<1>9. ASSUME NEW j, Calling(w, v, j) PROVE BrokerInv'
  <2>1. j \in DOMAIN process[w].copies /\ j \in Jobs /\ job[j].status # "none"
    BY <1>2, <1>9 DEF Calling, ProcessSound
  <2>2. effects \subseteq effects' /\ effects' \subseteq Keys
    BY <1>3, <1>9, <2>1 DEF Calling, BrokerInv, RowSound
  <2>3. BrokerKeeps /\ job' \in [Jobs -> ExecutionJobRecord]
    BY <1>3, <1>9, <2>2 DEF Calling, BrokerKeeps
  <2>4. calls' \in [Jobs -> Nat] /\ \A i \in Jobs \ {j} : calls'[i] = calls[i]
    BY <1>3, <1>9, <2>1 DEF Calling
  <2>5. ASSUME NEW i \in Jobs PROVE RowSound(i)'
    <3>1. RowSound(i) /\ job'[i] = job[i]
      BY <1>9 DEF Calling, BrokerInv
    <3>2. CASE i = j
      BY <2>1, <2>2, <3>1, <3>2 DEF RowSound
    <3>3. CASE i # j
      BY <2>2, <2>4, <3>1, <3>3 DEF RowSound
    <3> QED BY <3>2, <3>3
  <2>6. ProcessSound(v)'
    BY <1>2, <1>9, <2>1 DEF ProcessSound, Calling
  <2>7. ProcessTurn(w, v) /\ crashes' \in Nat
    BY <1>3, <1>9 DEF Calling
  <2> QED BY <2>2, <2>3, <2>4, <2>5, <2>6, <2>7, ProcessStep
<1>10. ASSUME NEW j, Retrying(w, v, j) PROVE BrokerInv'
  <2>1. ProcessSound(v)'
    BY <1>2, <1>10 DEF ProcessSound, Retrying
  <2> QED BY <1>4, <1>10, <2>1 DEF Retrying
<1>11. ASSUME NEW j, Leaving(w, v, j) PROVE BrokerInv'
  <2>1. PICK x : RowWrite(j, x)
    BY <1>11 DEF Leaving
  <2>2. v \in ProcessState /\ j \in Jobs /\ ProcessTurn(w, v) /\ UNCHANGED crashes
    BY <1>2, <1>11 DEF Leaving, ProcessTurn
  <2>3. ProcessSound(v)
    BY <1>2, <1>11 DEF ProcessSound, Leaving, Carries
  <2>4. ProcessSound(v)'
    BY <2>1, <2>2, <2>3, RowWriteSound, ProcessKept
  <2> QED BY <1>5, <2>1, <2>2, <2>4
<1>12. ASSUME Crashing(w, v) PROVE BrokerInv'
  <2>1. ProcessSound(v)'
    BY <1>12 DEF ProcessSound, Crashing
  <2> QED BY <1>4, <1>12, <2>1 DEF Crashing
<1> QED BY <1>1, <1>6, <1>7, <1>8, <1>9, <1>10, <1>11, <1>12

LEMMA BrokerInitially ==
    ASSUME WorkerInit
    PROVE  BrokerInv /\ BudgetInv
<1>1. /\ job = [j \in Jobs |-> NoJobRow] /\ calls = [j \in Jobs |-> 0]
      /\ client = [c \in Clients |-> [op |-> "idle"]]
      /\ process = [w \in Workers |-> Resting] /\ effects = {} /\ crashes = 0
  BY DEF WorkerInit
<1>2. /\ NoJobRow \in ExecutionJobRecord /\ NoJobRow.status = "none"
      /\ NoJobRow.attempts = 0
  BY DEF NoJobRow, ExecutionJobRecord
<1>3. BrokerType
  BY <1>1, <1>2, RestingType, ClientStates DEF BrokerType
<1>4. \A j \in Jobs : RowSound(j)
  BY <1>1, <1>2 DEF RowSound
<1>5. \A c \in Clients : CancelSound(client[c])
  BY <1>1 DEF CancelSound
<1>6. \A w \in Workers : ProcessSound(process[w])
  BY <1>1, RestingType DEF ProcessSound
<1>7. \A w \in Workers : CountSound(process[w])
  BY <1>1, RestingType DEF CountSound
<1>8. \A j \in Jobs : calls[j] <= job[j].attempts /\ job[j].attempts <= MaxRetries + 1
  BY <1>1, <1>2, WorkerAssumption DEF WorkerAssumption
<1> QED BY <1>3, <1>4, <1>5, <1>6, <1>7, <1>8 DEF BrokerInv, BudgetInv

LEMMA BrokerStutters ==
    ASSUME BrokerInv, UNCHANGED workerVars
    PROVE  BrokerInv'
<1>1. UNCHANGED <<job, client, process, effects, calls, crashes>>
  BY DEF workerVars
<1> QED BY <1>1 DEF BrokerInv, BrokerType, RowSound, CancelSound, ProcessSound

LEMMA BrokerMoves ==
    ASSUME WorkerNext
    PROVE  (\E c \in Clients : ClientRequest(c)) \/ (\E w \in Workers : ProcessMove(w))
    BY DEF WorkerNext, ProcessMove

LEMMA BrokerInductive ==
    ASSUME BrokerInv, [WorkerNext]_workerVars
    PROVE  BrokerInv'
    BY RequestKeeps, ProcessMoveKeeps, BrokerMoves, BrokerStutters

LEMMA BrokerInvariant ==
    WorkerSpec => []BrokerInv
<1>1. WorkerInit => BrokerInv
  BY BrokerInitially
<1>2. BrokerInv /\ [WorkerNext]_workerVars => BrokerInv'
  BY BrokerInductive
<1> QED BY <1>1, <1>2, PTL DEF WorkerSpec

\* A job whose row says succeeded was carried out by the provider, whichever
\* of the processes that ran it wrote the row last: run_job writes the status
\* only from an answer it saw.
THEOREM SuccessPerformed ==
    WorkerSpec => []SuccessWasPerformed
<1>1. BrokerInv => SuccessWasPerformed
  BY BrokerTypeOK DEF BrokerInv, RowSound, SuccessWasPerformed
<1> QED BY <1>1, BrokerInvariant, PTL

-----------------------------------------------------------------------------
(* The budget of attempts *)

\* No client changes the count of a row that was inserted.
LEMMA RequestCounts ==
    ASSUME BrokerInv, NEW c \in Clients, ClientRequest(c)
    PROVE  /\ UNCHANGED <<process, calls>>
           /\ \A i \in Jobs : job'[i].attempts = job[i].attempts
                              \/ (job[i].status = "none" /\ job'[i].attempts = 0)
<1>1. job \in [Jobs -> ExecutionJobRecord]
  BY DEF BrokerInv, BrokerType
<1>2. ASSUME NEW j \in Jobs, InsertJob(c, j)
      PROVE  \A i \in Jobs : job'[i].attempts = job[i].attempts
                             \/ (job[i].status = "none" /\ job'[i].attempts = 0)
  <2>1. PICK x : /\ x = [key |-> client[c].key, status |-> "pending",
                         attempts |-> 0, result |-> "none"]
                 /\ job' = [job EXCEPT ![j] = x]
    BY <1>2 DEF InsertJob
  <2>2. job[j].status = "none" /\ x.attempts = 0
    BY <1>2, <2>1 DEF InsertJob
  <2> QED BY <1>1, <2>1, <2>2
<1>3. ASSUME CommitCancel(c)
      PROVE  \A i \in Jobs : job'[i].attempts = job[i].attempts
  <2>1. PICK j : j = client[c].job
    OBVIOUS
  <2>2. job' = [job EXCEPT ![j].status = "cancelled"]
    BY <1>3, <2>1 DEF CommitCancel
  <2>3. ASSUME NEW i \in Jobs PROVE job'[i].attempts = job[i].attempts
    <3>1. job[i] \in ExecutionJobRecord
      BY <1>1
    <3>2. job'[i] = IF i = j THEN [job[i] EXCEPT !.status = "cancelled"] ELSE job[i]
      BY <1>1, <2>2
    <3> QED BY <3>1, <3>2 DEF ExecutionJobRecord
  <2> QED BY <2>3
<1>4. ASSUME NEW k \in Keys, SelectKey(c, k) PROVE UNCHANGED <<job, process, calls>>
  BY <1>4 DEF SelectKey
<1>5. ASSUME NEW j \in Jobs, LoadCancel(c, j) PROVE UNCHANGED <<job, process, calls>>
  BY <1>5 DEF LoadCancel
<1>6. ASSUME AbortClient(c) PROVE UNCHANGED <<job, process, calls>>
  BY <1>6 DEF AbortClient
<1>7. ASSUME NEW j \in Jobs, InsertJob(c, j) PROVE UNCHANGED <<process, calls>>
  BY <1>7 DEF InsertJob
<1>8. ASSUME CommitCancel(c) PROVE UNCHANGED <<process, calls>>
  BY <1>8 DEF CommitCancel
<1>9. CASE (\E k \in Keys : SelectKey(c, k)) \/ (\E j \in Jobs : LoadCancel(c, j))
           \/ AbortClient(c)
  BY <1>4, <1>5, <1>6, <1>9
<1>10. CASE \E j \in Jobs : InsertJob(c, j)
  BY <1>2, <1>7, <1>10
<1>11. CASE CommitCancel(c)
  BY <1>3, <1>8, <1>11
<1> QED BY <1>9, <1>10, <1>11 DEF ClientRequest

LEMMA RequestBudget ==
    ASSUME BrokerInv, BudgetInv, NEW c \in Clients, ClientRequest(c)
    PROVE  BudgetInv'
<1> SUFFICES ASSUME OneProcess
             PROVE  /\ (\A j \in Jobs : calls[j] <= job[j].attempts
                                        /\ job[j].attempts <= MaxRetries + 1)'
                    /\ (\A w \in Workers : CountSound(process[w]))'
  BY DEF BudgetInv, OneProcess
<1>1. /\ \A j \in Jobs : calls[j] <= job[j].attempts /\ job[j].attempts <= MaxRetries + 1
      /\ \A w \in Workers : CountSound(process[w])
  BY DEF BudgetInv
<1>2. /\ UNCHANGED <<process, calls>>
      /\ \A i \in Jobs : job'[i].attempts = job[i].attempts
                         \/ (job[i].status = "none" /\ job'[i].attempts = 0)
  BY RequestCounts
<1>3. ASSUME NEW j \in Jobs
      PROVE  calls'[j] <= job'[j].attempts /\ job'[j].attempts <= MaxRetries + 1
  <2>1. job[j].status = "none" => calls[j] = 0
    BY DEF BrokerInv, RowSound
  <2>2. MaxRetries \in Nat
    BY WorkerAssumption DEF WorkerAssumption
  <2>3. calls'[j] = calls[j]
    BY <1>2
  <2>4. CASE job'[j].attempts = job[j].attempts
    BY <1>1, <2>3, <2>4
  <2>5. CASE job[j].status = "none" /\ job'[j].attempts = 0
    BY <2>1, <2>2, <2>3, <2>5
  <2> QED BY <1>2, <2>4, <2>5
<1>4. ASSUME NEW w \in Workers PROVE CountSound(process[w])'
  <2>1. PICK v : v = process[w]
    OBVIOUS
  <2>2. \A j \in DOMAIN v.copies : j \in Jobs /\ job[j].status # "none"
    BY <2>1, ProcessAt
  <2>3. \A j \in DOMAIN v.copies : job'[j].attempts = job[j].attempts
    BY <1>2, <2>2
  <2>4. v.pc = "call" => v.job \in DOMAIN v.copies
    BY <2>1, ProcessAt DEF ProcessSound
  <2>5. CountSound(v)
    BY <1>1, <2>1
  <2>6. process'[w] = v /\ calls' = calls
    BY <1>2, <2>1
  <2> QED BY <2>3, <2>4, <2>5, <2>6 DEF CountSound
<1> QED BY <1>3, <1>4

LEMMA ProcessBudget ==
    ASSUME BrokerInv, BudgetInv, NEW w \in Workers, ProcessMove(w)
    PROVE  BudgetInv'
<1> SUFFICES ASSUME OneProcess
             PROVE  /\ (\A j \in Jobs : calls[j] <= job[j].attempts
                                        /\ job[j].attempts <= MaxRetries + 1)'
                    /\ (\A u \in Workers : CountSound(process[u]))'
  BY DEF BudgetInv, OneProcess
<1>1. /\ \A j \in Jobs : calls[j] <= job[j].attempts /\ job[j].attempts <= MaxRetries + 1
      /\ CountSound(process[w])
  BY DEF BudgetInv
<1>2. PICK v : \/ \E J : Loading(w, v, J)
               \/ \E j : \/ Starting(w, v, j) \/ Attempting(w, v, j) \/ Calling(w, v, j)
                         \/ Retrying(w, v, j) \/ Leaving(w, v, j)
               \/ Crashing(w, v)
  BY ProcessShapes
<1>3. /\ job \in [Jobs -> ExecutionJobRecord] /\ calls \in [Jobs -> Nat]
      /\ process \in [Workers -> ProcessState] /\ MaxRetries \in Nat
      /\ \A j \in Jobs : job[j].attempts \in Nat
  BY JobRecordType, WorkerAssumption DEF BrokerInv, BrokerType, WorkerAssumption
<1>4. /\ ProcessSound(process[w])
      /\ \A j \in DOMAIN process[w].copies : j \in Jobs /\ job[j].status # "none"
  BY ProcessAt
<1>5. ASSUME ProcessTurn(w, v), CountSound(v)',
             \A j \in Jobs : calls'[j] <= job'[j].attempts /\ job'[j].attempts <= MaxRetries + 1
      PROVE  /\ (\A j \in Jobs : calls[j] <= job[j].attempts
                                 /\ job[j].attempts <= MaxRetries + 1)'
             /\ (\A u \in Workers : CountSound(process[u]))'
  <2>1. \A u \in Workers : process'[u] = v
    BY <1>3, <1>5 DEF ProcessTurn, OneProcess
  <2> QED BY <1>5, <2>1 DEF CountSound
<1>6. ASSUME NEW j \in Jobs, NEW x, RowWrite(j, x), x.attempts = job[j].attempts
      PROVE  UNCHANGED calls /\ \A i \in Jobs : job'[i].attempts = job[i].attempts
  BY <1>3, <1>6 DEF RowWrite
<1>7. ASSUME NEW J, Loading(w, v, J) PROVE ProcessTurn(w, v) /\ UNCHANGED <<job, calls>>
                                           /\ CountSound(v)'
  BY <1>7 DEF Loading, CountSound
<1>8. ASSUME NEW j, Starting(w, v, j)
      PROVE  /\ ProcessTurn(w, v) /\ UNCHANGED calls /\ CountSound(v)'
             /\ \A i \in Jobs : job'[i].attempts = job[i].attempts
  <2>1. UNCHANGED calls /\ \A i \in Jobs : job'[i].attempts = job[i].attempts
    BY <1>4, <1>6, <1>8 DEF Starting
  <2> QED BY <1>1, <1>4, <1>8, <2>1 DEF Starting, CountSound, Carries
<1>9. ASSUME NEW j, Retrying(w, v, j)
      PROVE  ProcessTurn(w, v) /\ UNCHANGED <<job, calls>> /\ CountSound(v)'
  BY <1>1, <1>9 DEF Retrying, CountSound
<1>10. ASSUME NEW j, Leaving(w, v, j)
       PROVE  /\ ProcessTurn(w, v) /\ UNCHANGED calls /\ CountSound(v)'
              /\ \A i \in Jobs : job'[i].attempts = job[i].attempts
  <2>1. UNCHANGED calls /\ \A i \in Jobs : job'[i].attempts = job[i].attempts
    BY <1>4, <1>6, <1>10 DEF Leaving
  <2> QED BY <1>1, <1>4, <1>10, <2>1 DEF Leaving, CountSound, Carries
<1>11. ASSUME Crashing(w, v)
       PROVE  ProcessTurn(w, v) /\ UNCHANGED <<job, calls>> /\ CountSound(v)'
  BY <1>11 DEF Crashing, CountSound
<1>12. ASSUME NEW j, Attempting(w, v, j)
       PROVE  /\ ProcessTurn(w, v) /\ CountSound(v)'
              /\ \A i \in Jobs : calls'[i] <= job'[i].attempts
                                 /\ job'[i].attempts <= MaxRetries + 1
  <2>1. PICK x : RowWrite(j, x) /\ x.attempts = process[w].copies[j].attempts + 1
    BY <1>12 DEF Attempting
  <2>2. j \in Jobs /\ j \in DOMAIN process[w].copies
    BY <1>4, <1>12 DEF Attempting
  <2>3. /\ UNCHANGED calls /\ job'[j].attempts = process[w].copies[j].attempts + 1
        /\ \A i \in Jobs \ {j} : job'[i].attempts = job[i].attempts
    BY <1>3, <2>1, <2>2 DEF RowWrite
  <2>4. process[w].copies[j].attempts = job[j].attempts
    BY <1>1, <2>2 DEF CountSound
  <2>5. job'[j].attempts = job[j].attempts + 1 /\ job[j].attempts \in 0..MaxRetries
    BY <1>12, <2>3, <2>4 DEF Attempting
  <2>6. calls'[j] < job'[j].attempts /\ job'[j].attempts <= MaxRetries + 1
    <3>1. calls[j] \in Nat /\ calls[j] <= job[j].attempts /\ job[j].attempts \in Nat
      BY <1>1, <1>3, <2>2
    <3> QED BY <1>3, <2>3, <2>5, <3>1
  <2>7. \A i \in Jobs \ {j} : calls'[i] <= job'[i].attempts /\ job'[i].attempts <= MaxRetries + 1
    BY <1>1, <2>3
  <2>8. calls'[j] <= job'[j].attempts
    BY <1>3, <2>2, <2>3, <2>5, <2>6
  <2>9. ASSUME NEW i \in DOMAIN v.copies PROVE v.copies[i].attempts = job'[i].attempts
    <3>1. i \in Jobs /\ i \in DOMAIN process[w].copies
          /\ process[w].copies[i].attempts = job[i].attempts
      BY <1>1, <1>4, <1>12, <2>9 DEF Attempting, CountSound
    <3>2. CASE i = j
      BY <1>12, <2>3, <2>9, <3>2 DEF Attempting
    <3>3. CASE i # j
      BY <1>12, <2>3, <2>9, <3>1, <3>3 DEF Attempting
    <3> QED BY <3>2, <3>3
  <2>10. CountSound(v)'
    BY <1>12, <2>6, <2>9 DEF CountSound, Attempting
  <2> QED BY <1>12, <2>6, <2>7, <2>8, <2>10 DEF Attempting
<1>13. ASSUME NEW j, Calling(w, v, j)
       PROVE  /\ ProcessTurn(w, v) /\ CountSound(v)'
              /\ \A i \in Jobs : calls'[i] <= job'[i].attempts
                                 /\ job'[i].attempts <= MaxRetries + 1
  <2>1. j \in Jobs /\ calls[j] < job[j].attempts /\ UNCHANGED job
    BY <1>1, <1>4, <1>13 DEF Calling, CountSound, ProcessSound
  <2>2. calls'[j] = calls[j] + 1 /\ \A i \in Jobs \ {j} : calls'[i] = calls[i]
    BY <1>3, <1>13, <2>1 DEF Calling
  <2>3. calls'[j] <= job[j].attempts
    BY <1>3, <2>1, <2>2
  <2>4. CountSound(v)'
    BY <1>1, <1>13 DEF Calling, CountSound
  <2> QED BY <1>1, <1>13, <2>1, <2>2, <2>3, <2>4 DEF Calling
<1>14. ASSUME UNCHANGED calls, \A i \in Jobs : job'[i].attempts = job[i].attempts
       PROVE  \A i \in Jobs : calls'[i] <= job'[i].attempts
                              /\ job'[i].attempts <= MaxRetries + 1
  BY <1>1, <1>14
<1>15. UNCHANGED <<job, calls>> =>
          UNCHANGED calls /\ \A i \in Jobs : job'[i].attempts = job[i].attempts
  OBVIOUS
<1>16. ProcessTurn(w, v) /\ CountSound(v)'
       /\ \A i \in Jobs : calls'[i] <= job'[i].attempts /\ job'[i].attempts <= MaxRetries + 1
  BY <1>2, <1>7, <1>8, <1>9, <1>10, <1>11, <1>12, <1>13, <1>14, <1>15
<1> QED BY <1>5, <1>16

LEMMA BudgetInductive ==
    ASSUME BrokerInv, BudgetInv, [WorkerNext]_workerVars
    PROVE  BudgetInv'
<1>1. CASE UNCHANGED workerVars
  <2>1. UNCHANGED <<job, process, calls>>
    BY <1>1 DEF workerVars
  <2> QED BY <2>1 DEF BudgetInv, OneProcess, CountSound
<1> QED BY <1>1, RequestBudget, ProcessBudget, BrokerMoves

\* With one worker process the executor is called for a job at most
\* max_retries + 1 times, however often the process crashes and recovers.
THEOREM AttemptsBounded ==
    WorkerSpec => []AttemptBudget
<1>1. WorkerInit => BudgetInv
  BY BrokerInitially
<1>2. BrokerInv /\ BudgetInv /\ [WorkerNext]_workerVars => BudgetInv'
  BY BudgetInductive
<1>3. BrokerInv /\ BudgetInv => AttemptBudget
  <2> SUFFICES ASSUME BrokerInv, BudgetInv, OneProcess, NEW j \in Jobs
               PROVE  calls[j] <= MaxRetries + 1
    BY DEF OneProcess, AttemptBudget
  <2>1. calls[j] <= job[j].attempts /\ job[j].attempts <= MaxRetries + 1
    BY DEF BudgetInv
  <2>2. calls[j] \in Nat /\ job[j].attempts \in Nat /\ MaxRetries \in Nat
    BY JobRecordType, WorkerAssumption DEF BrokerInv, BrokerType, WorkerAssumption
  <2> QED BY <2>1, <2>2
<1> QED BY <1>1, <1>2, <1>3, BrokerInvariant, PTL DEF WorkerSpec

-----------------------------------------------------------------------------
(* The answer of a job *)

LEMMA RequestKeepsAnswers ==
    ASSUME BrokerInv, NEW c \in Clients, ClientRequest(c), NEW j \in Jobs,
           AnswerSettled(j)
    PROVE  /\ UNCHANGED process
           /\ job[j].result # "none" => job'[j].result = job[j].result
           /\ job'[j].result # "none" => job[j].result # "none"
           /\ AnswerSettled(j)'
<1>1. job \in [Jobs -> ExecutionJobRecord] /\ job[j] \in ExecutionJobRecord
  BY DEF BrokerInv, BrokerType
<1>2. ASSUME NEW i \in Jobs, InsertJob(c, i)
      PROVE  /\ UNCHANGED process
             /\ job'[j] = job[j] \/ (job[j].result = "none" /\ job'[j].result = "none")
  <2>1. PICK x : /\ x = [key |-> client[c].key, status |-> "pending",
                         attempts |-> 0, result |-> "none"]
                 /\ job' = [job EXCEPT ![i] = x]
    BY <1>2 DEF InsertJob
  <2>2. x.result = "none" /\ job[i].status = "none" /\ UNCHANGED process
    BY <1>2, <2>1 DEF InsertJob
  <2>3. job[i].status \notin TerminalStatus
    BY <2>2 DEF TerminalStatus
  <2>4. CASE i = j
    BY <1>1, <2>1, <2>2, <2>3, <2>4 DEF AnswerSettled
  <2>5. CASE i # j
    BY <1>1, <2>1, <2>2, <2>5
  <2> QED BY <2>4, <2>5
<1>3. ASSUME CommitCancel(c)
      PROVE  /\ UNCHANGED process /\ job'[j].result = job[j].result
             /\ job'[j].status \in {job[j].status, "cancelled"}
  <2>1. PICK i : i = client[c].job
    OBVIOUS
  <2>2. job' = [job EXCEPT ![i].status = "cancelled"] /\ UNCHANGED process
    BY <1>3, <2>1 DEF CommitCancel
  <2>3. job'[j] = IF j = i THEN [job[j] EXCEPT !.status = "cancelled"] ELSE job[j]
    BY <1>1, <2>2
  <2> QED BY <1>1, <2>2, <2>3 DEF ExecutionJobRecord
<1>4. "cancelled" \in TerminalStatus
  BY DEF TerminalStatus
<1>5. CASE (\E k \in Keys : SelectKey(c, k)) \/ (\E i \in Jobs : LoadCancel(c, i))
           \/ AbortClient(c)
  <2>1. UNCHANGED <<job, process>>
    BY <1>5 DEF SelectKey, LoadCancel, AbortClient
  <2> QED BY <2>1 DEF AnswerSettled
<1>6. CASE \E i \in Jobs : InsertJob(c, i)
  BY <1>2, <1>6 DEF AnswerSettled
<1>7. CASE CommitCancel(c)
  BY <1>3, <1>4, <1>7 DEF AnswerSettled
<1> QED BY <1>5, <1>6, <1>7 DEF ClientRequest

\* The process writes the rows of jobs it still works on, and lets go of a job
\* with the commit that may bring its answer.
LEMMA ProcessKeepsAnswers ==
    ASSUME BrokerInv, NEW w \in Workers, ProcessMove(w), NEW j \in Jobs,
           AnswerSettled(j), AnswerSound(j, process[w])
    PROVE  /\ job[j].result # "none" => job'[j].result = job[j].result
           /\ AnswerSettled(j)' /\ \E v : ProcessTurn(w, v) /\ AnswerSound(j, v)'
<1>1. PICK v : \/ \E J : Loading(w, v, J)
               \/ \E i : \/ Starting(w, v, i) \/ Attempting(w, v, i) \/ Calling(w, v, i)
                         \/ Retrying(w, v, i) \/ Leaving(w, v, i)
               \/ Crashing(w, v)
  BY ProcessShapes
<1>2. job \in [Jobs -> ExecutionJobRecord]
  BY DEF BrokerInv, BrokerType
<1>3. DOMAIN process[w].copies \subseteq Jobs
  BY ProcessAt
<1>4. ASSUME NEW i \in DOMAIN process[w].copies, NEW x, RowWrite(i, x), x.result = job[i].result,
             DOMAIN v.copies = DOMAIN process[w].copies
      PROVE  /\ job[j].result # "none" => job'[j].result = job[j].result
             /\ AnswerSettled(j)' /\ AnswerSound(j, v)'
  <2>1. CASE i = j
    BY <1>2, <1>3, <1>4, <2>1 DEF AnswerSettled, AnswerSound, RowWrite
  <2>2. CASE i # j
    <3>1. job'[j] = job[j]
      BY <1>2, <1>3, <1>4, <2>2 DEF RowWrite
    <3> QED BY <1>4, <3>1 DEF AnswerSettled, AnswerSound
  <2> QED BY <2>1, <2>2
<1>5. ASSUME UNCHANGED job, DOMAIN v.copies \subseteq DOMAIN process[w].copies
      PROVE  /\ job[j].result # "none" => job'[j].result = job[j].result
             /\ AnswerSettled(j)' /\ AnswerSound(j, v)'
  BY <1>5 DEF AnswerSettled, AnswerSound
<1>6. ASSUME NEW J, Loading(w, v, J)
      PROVE  /\ job[j].result # "none" => job'[j].result = job[j].result
             /\ ProcessTurn(w, v) /\ AnswerSettled(j)' /\ AnswerSound(j, v)'
  <2>1. job[j].status \in TerminalStatus => j \notin J
    BY <1>6 DEF Loading, Open, TerminalStatus
  <2> QED BY <1>6, <2>1 DEF Loading, AnswerSettled, AnswerSound
<1>7. ASSUME NEW i, Starting(w, v, i)
      PROVE  /\ job[j].result # "none" => job'[j].result = job[j].result
             /\ ProcessTurn(w, v) /\ AnswerSettled(j)' /\ AnswerSound(j, v)'
  <2>1. ProcessTurn(w, v) /\ DOMAIN v.copies = DOMAIN process[w].copies
        /\ i \in DOMAIN process[w].copies
    BY <1>7 DEF Starting, Carries
  <2>2. UNCHANGED job \/ \E x : RowWrite(i, x) /\ x.result = job[i].result
    BY <1>7 DEF Starting
  <2> QED BY <1>4, <1>5, <2>1, <2>2
<1>8. ASSUME NEW i, Attempting(w, v, i)
      PROVE  /\ job[j].result # "none" => job'[j].result = job[j].result
             /\ ProcessTurn(w, v) /\ AnswerSettled(j)' /\ AnswerSound(j, v)'
  BY <1>4, <1>8 DEF Attempting
<1>9. ASSUME NEW i, Leaving(w, v, i)
      PROVE  /\ job[j].result # "none" => job'[j].result = job[j].result
             /\ ProcessTurn(w, v) /\ AnswerSettled(j)' /\ AnswerSound(j, v)'
  <2>1. PICK x : RowWrite(i, x) /\ x.status \in TerminalStatus
    BY <1>9 DEF Leaving
  <2>2. ProcessTurn(w, v) /\ DOMAIN v.copies = DOMAIN process[w].copies \ {i}
        /\ i \in DOMAIN process[w].copies /\ i \in Jobs
    BY <1>3, <1>9 DEF Leaving, Carries
  <2>3. CASE i = j
    <3>1. job'[j] = x /\ j \notin DOMAIN v.copies
      BY <1>2, <2>1, <2>2, <2>3 DEF RowWrite
    <3> QED BY <2>1, <2>2, <2>3, <3>1 DEF AnswerSettled, AnswerSound
  <2>4. CASE i # j
    <3>1. job'[j] = job[j]
      BY <1>2, <2>1, <2>2, <2>4 DEF RowWrite
    <3> QED BY <2>2, <3>1 DEF AnswerSettled, AnswerSound
  <2> QED BY <2>3, <2>4
<1>10. ASSUME (\E i : Calling(w, v, i) \/ Retrying(w, v, i)) \/ Crashing(w, v)
       PROVE  /\ job[j].result # "none" => job'[j].result = job[j].result
              /\ ProcessTurn(w, v) /\ AnswerSettled(j)' /\ AnswerSound(j, v)'
  BY <1>5, <1>10 DEF Calling, Retrying, Crashing
<1> QED BY <1>1, <1>6, <1>7, <1>8, <1>9, <1>10

LEMMA AnswerInductive ==
    ASSUME BrokerInv, AnswerInv, [WorkerNext]_workerVars
    PROVE  /\ AnswerInv'
           /\ OneProcess =>
                \A j \in Jobs : job[j].result # "none" => job'[j].result = job[j].result
<1> SUFFICES ASSUME OneProcess, NEW j \in Jobs
             PROVE  /\ AnswerSettled(j)' /\ \A u \in Workers : AnswerSound(j, process[u])'
                    /\ job[j].result # "none" => job'[j].result = job[j].result
  BY DEF AnswerInv, OneProcess
<1>1. AnswerSettled(j) /\ \A u \in Workers : AnswerSound(j, process[u])
  BY DEF AnswerInv
<1>2. CASE UNCHANGED workerVars
  <2>1. UNCHANGED <<job, process>>
    BY <1>2 DEF workerVars
  <2> QED BY <1>1, <2>1 DEF AnswerSettled, AnswerSound
<1>3. ASSUME NEW c \in Clients, ClientRequest(c)
      PROVE  /\ AnswerSettled(j)' /\ \A u \in Workers : AnswerSound(j, process[u])'
             /\ job[j].result # "none" => job'[j].result = job[j].result
  <2>1. /\ UNCHANGED process /\ AnswerSettled(j)'
        /\ job[j].result # "none" => job'[j].result = job[j].result
        /\ job'[j].result # "none" => job[j].result # "none"
    BY <1>1, <1>3, RequestKeepsAnswers
  <2> QED BY <1>1, <2>1 DEF AnswerSound
<1>4. ASSUME NEW w \in Workers, ProcessMove(w)
      PROVE  /\ AnswerSettled(j)' /\ \A u \in Workers : AnswerSound(j, process[u])'
             /\ job[j].result # "none" => job'[j].result = job[j].result
  <2>1. /\ job[j].result # "none" => job'[j].result = job[j].result
        /\ AnswerSettled(j)' /\ \E v : ProcessTurn(w, v) /\ AnswerSound(j, v)'
    BY <1>1, <1>4, ProcessKeepsAnswers
  <2>2. PICK v : ProcessTurn(w, v) /\ AnswerSound(j, v)'
    BY <2>1
  <2>3. \A u \in Workers : process'[u] = v
    BY <1>4, <2>2, ProcessAt DEF ProcessTurn, OneProcess
  <2> QED BY <2>1, <2>2, <2>3 DEF AnswerSettled, AnswerSound
<1> QED BY <1>2, <1>3, <1>4, BrokerMoves

\* With one worker process the answer recorded for a job stays, whatever a
\* cancellation that loaded the job before, or a later run, writes.
THEOREM AnswersKept ==
    WorkerSpec => AnswerKept
<1>1. WorkerInit => AnswerInv
  BY DEF WorkerInit, NoJobRow, AnswerInv, AnswerSettled, AnswerSound
<1>2. BrokerInv /\ AnswerInv /\ [WorkerNext]_workerVars => AnswerInv'
  BY AnswerInductive
<1>3. BrokerInv /\ AnswerInv /\ [WorkerNext]_workerVars =>
        [(\A v, w \in Workers : v = w) =>
            \A j \in Jobs : job[j].result # "none" => job'[j].result = job[j].result]_workerVars
  BY AnswerInductive DEF OneProcess
<1> QED BY <1>1, <1>2, <1>3, BrokerInvariant, PTL DEF WorkerSpec, AnswerKept

-----------------------------------------------------------------------------
(* The inductive invariant of the ingestions *)

\* The rows an ingestion has written once the hooks in H have run.
RecordFor(r, p, ref, t) ==
    [receipt |-> r, type |-> t, status |-> StatusOf(Checks(t, p, ref))]
RecordsFor(r, p, ref, H) == {RecordFor(r, p, ref, t) : t \in H}
EventsFor(r, H) == {[receipt |-> r, type |-> t] : t \in {"ingested"} \cup H}
EventsOf(r) == {e \in audit : e.receipt = r}

\* An open transaction holds an id and a payload nobody else has.
IsPending(x) == x.step \in {"hooks", "commit"}
SessionSound(x) ==
    /\ x.step # "idle" => x.payload \in Payloads
    /\ x.ref \in {None, providerRef}
    /\ ~IsPending(x) => x.records = {}
    /\ IsPending(x) =>
        /\ x.id # 0 /\ x.id \notin DOMAIN receipt
        /\ \A r \in DOMAIN receipt : receipt[r].payload # x.payload
        /\ x.todo \subseteq Hooks(x.payload)
        /\ x.records = RecordsFor(x.id, x.payload, x.ref, Hooks(x.payload) \ x.todo)
        /\ x.events = EventsFor(x.id, Hooks(x.payload) \ x.todo)
    /\ x.step = "commit" => x.todo = {}
    /\ x.step = "answer" => x.id \in DOMAIN receipt /\ receipt[x.id].payload = x.payload
Apart(x, y) == IsPending(x) /\ IsPending(y) => x.id # y.id /\ x.payload # y.payload

\* A receipt is in the table with what its hooks found.
ReceiptSound(r) ==
    /\ r # 0
    /\ EventsOf(r) = EventsFor(r, Hooks(receipt[r].payload))
    /\ \E ref \in {None, providerRef} :
        RecordsOf(r) =
            RecordsFor(r, receipt[r].payload, ref, Hooks(receipt[r].payload))
    /\ receipt[r].state = StateAfter(RecordsOf(r))

\* What a trace has read is closed as far as it has read.
ReaderSound(x) ==
    /\ x.step # "idle" => x.latest \in DOMAIN receipt \cup {0}
    /\ x.step \in {"records", "events", "built"} =>
          x.latest \in x.receipts \cup {0} /\ x.receipts \subseteq DOMAIN receipt
    /\ x.step \in {"events", "built"} =>
          \A y \in reconciliation : y.receipt \in x.receipts => y \in x.records
    /\ x.step = "built" => \A e \in audit : e.receipt \in x.receipts => e \in x.events

\* The ids that are drawn: of the rows and of open transactions.
UsedIds == DOMAIN receipt \cup {session[s].id : s \in Pending}

TablesSound ==
    /\ \A r \in DOMAIN receipt : ReceiptSound(r)
    /\ \A q, r \in DOMAIN receipt : receipt[q].payload = receipt[r].payload => q = r
    /\ \A y \in reconciliation : y.receipt \in DOMAIN receipt
    /\ \A e \in audit : e.receipt \in DOMAIN receipt
    /\ intent.latest \in DOMAIN receipt \cup {0}
    /\ \A a \in answered : a.receipt \in DOMAIN receipt /\ receipt[a.receipt].payload = a.payload

ReceiptsInv ==
    /\ ReceiptsTypeOK
    /\ IsFiniteSet(UsedIds)
    /\ TablesSound
    /\ \A s \in Sessions : SessionSound(session[s])
    /\ \A s, t \in Sessions : s # t => Apart(session[s], session[t])
    /\ \A t \in Readers : ReaderSound(reader[t])

-----------------------------------------------------------------------------
(* The checks *)

\* A comparison is settled only when the values agree.
LEMMA CheckSettled ==
    ASSUME NEW a, NEW b, NEW required
    PROVE  /\ Check(a, b, required) \in
                  {"skipped", "missing", "not_provided", "matched", "mismatch"}
           /\ Check(a, b, required) \in {"matched", "skipped"} <=> a = b
           /\ a = b /\ b # None => Check(a, b, required) = "matched"
    BY DEF Check

\* A set of findings is matched only when each of them is settled.
LEMMA StatusMatched ==
    ASSUME NEW S
    PROVE  /\ StatusOf(S) \in ReconciliationStatus
           /\ StatusOf(S) = "matched" <=>
                 S \subseteq {"matched", "skipped"} /\ "matched" \in S
    BY DEF StatusOf, ReconciliationStatus

\* A hook finds a match if and only if the payload says exactly what is
\* expected of every field the hook compares: no field that is missing, and
\* no pair of optional fields, can make up for one that disagrees (_check and
\* _reconciliation_status).
THEOREM MatchedIsBound ==
    ASSUME NEW type \in ReconciliationType,
           NEW p \in Payloads, NEW ref
    PROVE  StatusOf(Checks(type, p, ref)) = "matched"
              <=> Bound(type, p, ref)
<1>1. PICK S : S = Checks(type, p, ref)
  OBVIOUS
<1>2. \A f \in Compared(type) :
         Check(Expected(f, ref), Claims[p][f], f \in Required) \in S
  BY <1>1 DEF Checks
<1>3. \A y \in S : \E f \in Compared(type) :
         y = Check(Expected(f, ref), Claims[p][f], f \in Required)
  BY <1>1 DEF Checks
<1>4. "digest" \in Compared(type) /\ Expected("digest", ref) = "right"
  BY DEF Compared, Expected, ReconciliationType
<1>5. "right" # None
  BY ReceiptsAssumption DEF ReceiptsAssumption
<1>6. ASSUME S \subseteq {"matched", "skipped"} PROVE Bound(type, p, ref)
  <2>1. ASSUME NEW f \in Compared(type)
        PROVE  Claims[p][f] = Expected(f, ref)
    <3>1. Check(Expected(f, ref), Claims[p][f], f \in Required)
             \in {"matched", "skipped"}
      BY <1>2, <1>6
    <3> QED BY <3>1, CheckSettled
  <2> QED BY <2>1 DEF Bound
<1>7. ASSUME Bound(type, p, ref)
      PROVE  S \subseteq {"matched", "skipped"} /\ "matched" \in S
  <2>1. \A f \in Compared(type) : Claims[p][f] = Expected(f, ref)
    BY <1>7 DEF Bound
  <2>2. ASSUME NEW y \in S PROVE y \in {"matched", "skipped"}
    <3>1. PICK f \in Compared(type) :
            y = Check(Expected(f, ref), Claims[p][f], f \in Required)
      BY <1>3
    <3> QED BY <2>1, <3>1, CheckSettled
  <2>3. "matched" \in S
    <3>1. Check(Expected("digest", ref), Claims[p]["digest"],
                          "digest" \in Required) = "matched"
      BY <1>4, <1>5, <2>1, CheckSettled
    <3> QED BY <1>2, <1>4, <3>1
  <2> QED BY <2>2, <2>3
<1> QED BY <1>1, <1>6, <1>7, StatusMatched

\* A receipt is reconciled only when every hook found a match.
LEMMA HooksType ==
    ASSUME NEW p \in Payloads
    PROVE  /\ Hooks(p) \subseteq ReconciliationType
           /\ "intent" \in Hooks(p) /\ "ingested" \notin Hooks(p)
<1>1. Links[p] \in SUBSET {"proof", "escrow"}
  BY ReceiptsAssumption DEF ReceiptsAssumption
<1> QED BY <1>1 DEF Hooks, ReconciliationType

-----------------------------------------------------------------------------
(* Ids *)

LEMMA FreshNumber ==
    ASSUME NEW S, IsFiniteSet(S)
    PROVE  \E n \in 1..(Cardinality(S) + 1) : n \notin S
<1> SUFFICES ASSUME \A n \in 1..(Cardinality(S) + 1) : n \in S PROVE FALSE
  OBVIOUS
<1>1. PICK k : k = Cardinality(S)
  OBVIOUS
<1>2. k \in Nat
  BY <1>1, FS_CardinalityType
<1>3. Cardinality(1..(k + 1)) = k + 1
  <2>1. 1 \in Int /\ k + 1 \in Int /\ ~(1 > k + 1) /\ (k + 1) - 1 + 1 = k + 1
    BY <1>2
  <2> QED BY <2>1, FS_Interval
<1>4. 1..(k + 1) \in SUBSET S
  BY <1>1
<1>5. Cardinality(1..(k + 1)) <= k
  BY <1>1, <1>4, FS_Subset
<1> QED BY <1>2, <1>3, <1>5

\* The cardinality the instance speaks of is the library's.
LEMMA SameCardinality ==
    ASSUME NEW S
    PROVE  Cardinality(S) = Cardinality(S)
    BY DEF Cardinality, Cardinality

LEMMA NextIdFresh ==
    ASSUME IsFiniteSet(UsedIds)
    PROVE  /\ NextId \in Nat /\ NextId # 0
           /\ NextId \notin UsedIds
<1>1. NextId = CHOOSE n \in 1..(Cardinality(UsedIds) + 1) : n \notin UsedIds
  BY SameCardinality DEF NextId, UsedIds
<1>2. \E n \in 1..(Cardinality(UsedIds) + 1) : n \notin UsedIds
  BY FreshNumber
<1>3. NextId \in 1..(Cardinality(UsedIds) + 1) /\ NextId \notin UsedIds
  BY <1>1, <1>2
<1>4. Cardinality(UsedIds) \in Nat
  BY FS_CardinalityType
<1> QED BY <1>3, <1>4

LEMMA FewMoreIds ==
    ASSUME NEW S, IsFiniteSet(S), NEW n, NEW T, T \subseteq S \cup {n}
    PROVE  IsFiniteSet(T)
<1>1. IsFiniteSet(S \cup {n})
  BY FS_AddElement
<1> QED BY <1>1, FS_Subset

-----------------------------------------------------------------------------
(* Steps that leave the tables alone *)

LEMMA IngestionType ==
    ASSUME ReceiptsInv, NEW s \in Sessions
    PROVE  /\ session \in [Sessions -> Session] /\ session[s] \in Session
           /\ session[s].id \in Nat /\ SessionSound(session[s])
    BY DEF ReceiptsInv, ReceiptsTypeOK, Session, ReceiptId

LEMMA NotIngesting ==
    /\ IdleSession.step = "idle" /\ ~IsPending(IdleSession) /\ IdleSession.ref = None
    /\ IdleSession.records = {} /\ IdleSession \in Session
    BY DEF IsPending, IdleSession, Fresh, Session, Mirror,
           ReceiptId, ReceiptState, IntentExecutionState, Values

LEMMA TablesKept ==
    ASSUME TablesSound, UNCHANGED <<receipt, reconciliation, audit, intent, providerRef>>,
           \A a \in answered' : a.receipt \in DOMAIN receipt /\ receipt[a.receipt].payload = a.payload
    PROVE  TablesSound'
<1>1. ASSUME NEW r \in DOMAIN receipt' PROVE ReceiptSound(r)'
  <2>1. ReceiptSound(r)
    BY <1>1 DEF TablesSound
  <2> QED BY <2>1 DEF ReceiptSound, EventsOf, RecordsOf
<1> QED BY <1>1 DEF TablesSound

LEMMA SessionKept ==
    ASSUME NEW x, SessionSound(x), UNCHANGED <<receipt, providerRef>>
    PROVE  SessionSound(x)'
    BY DEF SessionSound, IsPending

LEMMA ReaderKept ==
    ASSUME NEW x, ReaderSound(x), UNCHANGED <<receipt, reconciliation, audit>>
    PROVE  ReaderSound(x)'
    BY DEF ReaderSound

SessionTurn(s, x) ==
    /\ x \in Session /\ session' = [session EXCEPT ![s] = x]
    /\ UNCHANGED <<receipt, reconciliation, audit, intent, providerRef, reader>>
    /\ answered' \subseteq [payload : Payloads, receipt : ReceiptId]
    /\ \A a \in answered' : a.receipt \in DOMAIN receipt /\ receipt[a.receipt].payload = a.payload
    /\ failures' \in Nat

LEMMA SessionStep ==
    ASSUME ReceiptsInv, NEW s \in Sessions, NEW x, SessionTurn(s, x), SessionSound(x),
           \A t \in Sessions \ {s} : Apart(x, session[t])
    PROVE  ReceiptsInv'
<1>1. session \in [Sessions -> Session]
  BY IngestionType
<1>2. session'[s] = x /\ \A t \in Sessions \ {s} : session'[t] = session[t]
  BY <1>1 DEF SessionTurn
<1>3. ReceiptsTypeOK'
  BY <1>1 DEF ReceiptsInv, ReceiptsTypeOK, SessionTurn
<1>4. TablesSound'
  BY TablesKept DEF ReceiptsInv, SessionTurn
<1>5. ASSUME NEW t \in Sessions PROVE SessionSound(session[t])'
  <2>1. PICK y : y = session'[t]
    OBVIOUS
  <2>2. SessionSound(y)
    BY <1>2, <2>1 DEF ReceiptsInv
  <2>3. SessionSound(y)'
    BY <2>2, SessionKept DEF SessionTurn
  <2> QED BY <2>1, <2>3 DEF SessionSound, IsPending
<1>6. ASSUME NEW t \in Sessions, NEW u \in Sessions, t # u
      PROVE  Apart(session[t], session[u])'
  <2>1. ASSUME NEW y, NEW z PROVE Apart(y, z) <=> Apart(z, y)
    BY DEF Apart
  <2>2. CASE t = s
    <3>1. Apart(x, session[u])
      BY <1>6, <2>2
    <3> QED BY <1>2, <1>6, <2>2, <3>1 DEF Apart, IsPending
  <2>3. CASE u = s
    <3>1. Apart(session[t], x)
      BY <1>6, <2>1, <2>3
    <3> QED BY <1>2, <1>6, <2>3, <3>1 DEF Apart, IsPending
  <2>4. CASE t # s /\ u # s
    <3>1. Apart(session[t], session[u])
      BY <1>6 DEF ReceiptsInv
    <3> QED BY <1>2, <2>4, <3>1 DEF Apart, IsPending
  <2> QED BY <2>2, <2>3, <2>4
<1>7. ASSUME NEW t \in Readers PROVE ReaderSound(reader[t])'
  <2>1. PICK y : y = reader[t]
    OBVIOUS
  <2>2. ReaderSound(y)'
    BY <2>1, ReaderKept DEF ReceiptsInv, SessionTurn
  <2>3. reader'[t] = y
    BY <2>1 DEF SessionTurn
  <2> QED BY <2>2, <2>3 DEF ReaderSound
<1>8. IsFiniteSet(UsedIds)'
  <2>1. UsedIds' \subseteq UsedIds \cup {x.id}
    <3>1. UsedIds' = DOMAIN receipt' \cup {session'[t].id : t \in {u \in Sessions :
                                                session'[u].step \in {"hooks", "commit"}}}
      BY DEF UsedIds, Pending
    <3>2. UsedIds = DOMAIN receipt \cup {session[t].id : t \in {u \in Sessions :
                                                session[u].step \in {"hooks", "commit"}}}
      BY DEF UsedIds, Pending
    <3>3. UNCHANGED receipt
      BY DEF SessionTurn
    <3> QED BY <1>2, <3>1, <3>2, <3>3
  <2>2. PICK S, T : S = UsedIds /\ T = UsedIds'
    OBVIOUS
  <2>3. IsFiniteSet(S)
    BY <2>2 DEF ReceiptsInv
  <2>4. IsFiniteSet(T)
    BY <2>1, <2>2, <2>3, FewMoreIds
  <2> QED BY <2>2, <2>4
<1> QED BY <1>3, <1>4, <1>5, <1>6, <1>7, <1>8 DEF ReceiptsInv

\* A session that ends, or has not inserted yet, is no obstacle to the others.
LEMMA QuietStep ==
    ASSUME ReceiptsInv, NEW s \in Sessions, NEW x, SessionTurn(s, x), ~IsPending(x),
           x.step # "answer", x.step = "idle" \/ x.payload \in Payloads, x.ref \in {None, providerRef}, x.records = {}
    PROVE  ReceiptsInv'
<1>1. SessionSound(x)
  BY DEF SessionSound, IsPending
<1>2. \A t \in Sessions : Apart(x, session[t])
  BY DEF Apart
<1> QED BY <1>1, <1>2, SessionStep

ReaderTurn(t, x) ==
    /\ x \in Trace /\ reader' = [reader EXCEPT ![t] = x]
    /\ UNCHANGED <<receipt, reconciliation, audit, intent, providerRef, session, answered, failures>>

LEMMA ReaderStep ==
    ASSUME ReceiptsInv, NEW t \in Readers, NEW x, ReaderTurn(t, x), ReaderSound(x)
    PROVE  ReceiptsInv'
<1>1. ReceiptsTypeOK'
  BY DEF ReceiptsInv, ReceiptsTypeOK, ReaderTurn
<1>2. TablesSound'
  BY TablesKept DEF ReceiptsInv, TablesSound, ReaderTurn
<1>3. ASSUME NEW s \in Sessions PROVE SessionSound(session[s])'
  BY DEF ReceiptsInv, ReaderTurn, SessionSound, IsPending
<1>4. ASSUME NEW s \in Sessions, NEW u \in Sessions, s # u
      PROVE  Apart(session[s], session[u])'
  BY <1>4 DEF ReceiptsInv, ReaderTurn, Apart, IsPending
<1>5. ASSUME NEW u \in Readers PROVE ReaderSound(reader[u])'
  <2>1. reader'[u] = IF u = t THEN x ELSE reader[u]
    BY DEF ReaderTurn, ReceiptsInv, ReceiptsTypeOK
  <2>2. PICK y : y = reader'[u]
    OBVIOUS
  <2>3. ReaderSound(y)
    BY <2>1, <2>2 DEF ReceiptsInv
  <2>4. ReaderSound(y)'
    BY <2>3, ReaderKept DEF ReaderTurn
  <2> QED BY <2>2, <2>4 DEF ReaderSound
<1>6. IsFiniteSet(UsedIds)'
  <2>1. UNCHANGED UsedIds
    BY DEF UsedIds, Pending, ReaderTurn
  <2> QED BY <2>1 DEF ReceiptsInv
<1> QED BY <1>1, <1>2, <1>3, <1>4, <1>5, <1>6 DEF ReceiptsInv

-----------------------------------------------------------------------------
(* The steps of an ingestion before its commit *)

LEMMA AnswersSame ==
    ASSUME ReceiptsInv, UNCHANGED answered
    PROVE  /\ answered' \subseteq [payload : Payloads, receipt : ReceiptId]
           /\ \A a \in answered' : a.receipt \in DOMAIN receipt
                                   /\ receipt[a.receipt].payload = a.payload
    BY DEF ReceiptsInv, TablesSound, ReceiptsTypeOK

LEMMA FailuresSame ==
    ASSUME ReceiptsInv, UNCHANGED failures
    PROVE  failures' \in Nat
    BY DEF ReceiptsInv, ReceiptsTypeOK

LEMMA LoadIntentKeeps ==
    ASSUME ReceiptsInv, NEW s \in Sessions, NEW p \in Payloads, LoadActionIntent(s, p)
    PROVE  ReceiptsInv'
<1>1. PICK x : x = [IdleSession EXCEPT !.step = "lookup", !.payload = p, !.loaded = intent]
  OBVIOUS
<1>2. intent \in Mirror
  BY DEF ReceiptsInv, ReceiptsTypeOK
<1>3. /\ x \in Session /\ x.step = "lookup" /\ x.payload = p /\ x.ref = None
      /\ x.records = {}
  BY <1>1, <1>2, NotIngesting DEF Session
<1>4. SessionTurn(s, x)
  BY <1>1, <1>3, AnswersSame, FailuresSame DEF SessionTurn, LoadActionIntent, tables
<1> QED BY <1>3, <1>4, QuietStep DEF IsPending

\* The request ends: its session is idle again.
LEMMA DiesKeeps ==
    ASSUME ReceiptsInv, NEW s \in Sessions, EndSession(s),
           UNCHANGED <<receipt, reconciliation, audit, intent, providerRef, reader>>,
           answered' \subseteq [payload : Payloads, receipt : ReceiptId],
           \A a \in answered' : a.receipt \in DOMAIN receipt
                                /\ receipt[a.receipt].payload = a.payload,
           failures' \in Nat
    PROVE  ReceiptsInv'
<1>1. SessionTurn(s, IdleSession)
  BY NotIngesting DEF SessionTurn, EndSession
<1> QED BY <1>1, NotIngesting, QuietStep

\* The sender is told the receipt of its payload.
LEMMA AnswerKeeps ==
    ASSUME ReceiptsInv, NEW s \in Sessions, NEW r \in DOMAIN receipt, NEW p,
           receipt[r].payload = p, answered' = answered \cup {[payload |-> p, receipt |-> r]},
           EndSession(s), UNCHANGED <<tables, reader, failures>>
    PROVE  ReceiptsInv'
<1>1. r \in ReceiptId /\ p \in Payloads
  <2>1. DOMAIN receipt \subseteq ReceiptId /\ receipt[r] \in ReceiptRecord
    BY DEF ReceiptsInv, ReceiptsTypeOK
  <2> QED BY <2>1 DEF ReceiptRecord
<1>2. /\ answered \subseteq [payload : Payloads, receipt : ReceiptId]
      /\ \A a \in answered : a.receipt \in DOMAIN receipt /\ receipt[a.receipt].payload = a.payload
  BY DEF ReceiptsInv, TablesSound, ReceiptsTypeOK
<1>3. PICK b : b = [payload |-> p, receipt |-> r]
  OBVIOUS
<1>4. /\ b \in [payload : Payloads, receipt : ReceiptId]
      /\ b.receipt \in DOMAIN receipt /\ receipt[b.receipt].payload = b.payload
  BY <1>1, <1>3
<1>5. /\ answered' \subseteq [payload : Payloads, receipt : ReceiptId]
      /\ \A a \in answered' : a.receipt \in DOMAIN receipt
                              /\ receipt[a.receipt].payload = a.payload
  BY <1>2, <1>3, <1>4
<1>6. UNCHANGED <<receipt, reconciliation, audit, intent, providerRef, reader>>
  BY DEF tables
<1> QED BY <1>5, <1>6, FailuresSame, DiesKeeps

LEMMA EndsKeep ==
    ASSUME ReceiptsInv, NEW s \in Sessions,
           ReplayExisting(s) \/ Acknowledge(s) \/ InsertRefused(s) \/ IngestionFails(s)
    PROVE  ReceiptsInv'
<1>1. CASE ReplayExisting(s)
  <2>1. PICK r \in Existing(session[s].payload) :
           answered' = answered \cup {[payload |-> session[s].payload, receipt |-> r]}
    BY <1>1 DEF ReplayExisting
  <2>2. r \in DOMAIN receipt /\ receipt[r].payload = session[s].payload
    BY <2>1 DEF Existing
  <2> QED BY <1>1, <2>1, <2>2, AnswerKeeps DEF ReplayExisting
<1>4. CASE Acknowledge(s)
  <2>1. session[s].id \in DOMAIN receipt /\ receipt[session[s].id].payload = session[s].payload
    BY <1>4, IngestionType DEF Acknowledge, SessionSound
  <2> QED BY <1>4, <2>1, AnswerKeeps DEF Acknowledge
<1>2. CASE InsertRefused(s)
  <2>1. /\ EndSession(s) /\ UNCHANGED <<answered, failures>>
        /\ UNCHANGED <<receipt, reconciliation, audit, intent, providerRef, reader>>
    BY <1>2 DEF InsertRefused, tables
  <2> QED BY <2>1, AnswersSame, FailuresSame, DiesKeeps
<1>3. CASE IngestionFails(s)
  <2>1. /\ EndSession(s) /\ UNCHANGED answered /\ failures' = failures + 1
        /\ UNCHANGED <<receipt, reconciliation, audit, intent, providerRef, reader>>
    BY <1>3 DEF IngestionFails, tables
  <2>2. failures' \in Nat
    BY <2>1 DEF ReceiptsInv, ReceiptsTypeOK
  <2> QED BY <2>1, <2>2, AnswersSame, DiesKeeps
<1> QED BY <1>1, <1>2, <1>3, <1>4

LEMMA LoadLinksKeeps ==
    ASSUME ReceiptsInv, NEW s \in Sessions, LoadLinks(s)
    PROVE  ReceiptsInv'
<1>1. PICK u : u = session[s]
  OBVIOUS
<1>2. u \in Session /\ SessionSound(u) /\ u.step = "lookup"
  BY <1>1, IngestionType DEF LoadLinks
<1>3. PICK x : x = [u EXCEPT !.step = "insert", !.ref = providerRef]
  OBVIOUS
<1>4. providerRef \in Values
  BY DEF ReceiptsInv, ReceiptsTypeOK
<1>5. /\ x \in Session /\ x.step = "insert" /\ x.payload = u.payload
      /\ x.ref = providerRef /\ x.records = u.records
  BY <1>2, <1>3, <1>4 DEF Session
<1>6. session' = [session EXCEPT ![s] = x]
  <2>1. session' = [session EXCEPT ![s].step = "insert", ![s].ref = providerRef]
    BY DEF LoadLinks
  <2>2. session' = [session EXCEPT ![s] = session'[s]]
    BY <2>1, IngestionType
  <2>3. session'[s] = x
    BY <1>1, <1>2, <1>3, <2>1, IngestionType DEF Session
  <2> QED BY <2>2, <2>3
<1>7. SessionTurn(s, x)
  BY <1>5, <1>6, AnswersSame, FailuresSame DEF SessionTurn, LoadLinks, tables
<1>8. ~IsPending(x) /\ x.payload \in Payloads /\ x.records = {}
  BY <1>2, <1>5 DEF SessionSound, IsPending
<1>9. x.step # "answer"
  BY <1>5
<1> QED BY <1>5, <1>7, <1>8, <1>9, QuietStep

\* The rows before the first hook.
LEMMA RowsStart ==
    ASSUME NEW r, NEW p, NEW ref, NEW H
    PROVE  /\ RecordsFor(r, p, ref, H \ H) = {}
           /\ EventsFor(r, H \ H) = {[receipt |-> r, type |-> "ingested"]}
<1>1. H \ H = {}
  OBVIOUS
<1>2. RecordsFor(r, p, ref, {}) = {}
  BY DEF RecordsFor
<1>3. EventsFor(r, {}) = {[receipt |-> r, type |-> "ingested"]}
  BY DEF EventsFor
<1> QED BY <1>1, <1>2, <1>3

LEMMA InsertKeeps ==
    ASSUME ReceiptsInv, NEW s \in Sessions, InsertReceipt(s)
    PROVE  ReceiptsInv'
<1>1. PICK u, n : u = session[s] /\ n = NextId
  OBVIOUS
<1>2. PICK H, E : H = Hooks(u.payload) /\ E = {[receipt |-> n, type |-> "ingested"]}
  OBVIOUS
<1>3. /\ u \in Session /\ SessionSound(u) /\ u.step = "insert" /\ u.payload \in Payloads
      /\ u.records = {}
  BY <1>1, IngestionType DEF InsertReceipt, SessionSound, IsPending
<1>4. n \in Nat /\ n # 0 /\ n \notin UsedIds
  BY <1>1, NextIdFresh DEF ReceiptsInv
<1>5. H \subseteq ReconciliationType /\ "intent" \in H
  BY <1>2, <1>3, HooksType
<1>6. E \subseteq AuditEvent
  BY <1>2, <1>4 DEF AuditEvent, ReceiptId
<1>7. PICK x : x = [u EXCEPT !.step = "hooks", !.id = n, !.todo = H, !.events = E]
  OBVIOUS
<1>8. /\ x \in Session /\ x.step = "hooks" /\ x.payload = u.payload /\ x.ref = u.ref
      /\ x.records = {} /\ x.id = n /\ x.todo = H /\ x.events = E
  BY <1>3, <1>4, <1>5, <1>6, <1>7 DEF Session, ReceiptId
<1>9. session' = [session EXCEPT ![s] = x]
  <2>1. session' = [session EXCEPT ![s].step = "hooks", ![s].id = n, ![s].todo = H, ![s].events = E]
    BY <1>1, <1>2 DEF InsertReceipt
  <2>2. session' = [session EXCEPT ![s] = session'[s]]
    BY <2>1, IngestionType
  <2>3. session'[s] = x
    BY <1>1, <1>3, <1>7, <2>1, IngestionType DEF Session
  <2> QED BY <2>2, <2>3
<1>10. SessionTurn(s, x)
  BY <1>8, <1>9, AnswersSame, FailuresSame DEF SessionTurn, InsertReceipt, tables
<1>11. \A r \in DOMAIN receipt : receipt[r].payload # x.payload
  <2>1. ASSUME NEW r \in DOMAIN receipt PROVE receipt[r].payload # x.payload
    <3>1. PICK y : y = [receipt |-> r, payload |-> receipt[r].payload]
      OBVIOUS
    <3>2. y \in Inserted /\ y.payload = receipt[r].payload
      BY <2>1, <3>1 DEF Inserted
    <3> QED BY <1>1, <1>8, <3>2 DEF InsertReceipt
  <2> QED BY <2>1
<1>12. x.records = RecordsFor(x.id, x.payload, x.ref, H \ x.todo)
       /\ x.events = EventsFor(x.id, H \ x.todo)
  BY <1>2, <1>5, <1>8, RowsStart
<1>13. n \notin DOMAIN receipt /\ \A t \in Sessions : IsPending(session[t]) => session[t].id # n
  BY <1>4 DEF UsedIds, Pending, IsPending
<1>14. SessionSound(x)
  BY <1>2, <1>3, <1>4, <1>8, <1>11, <1>12, <1>13 DEF SessionSound, IsPending
<1>15. ASSUME NEW t \in Sessions \ {s} PROVE Apart(x, session[t])
  <2>1. IsPending(session[t]) => session[t].payload # x.payload
    BY <1>1, <1>8 DEF InsertReceipt, Pending, IsPending
  <2> QED BY <1>8, <1>13, <2>1 DEF Apart
<1> QED BY <1>10, <1>14, <1>15, SessionStep

LEMMA RunHookKeeps ==
    ASSUME ReceiptsInv, NEW s \in Sessions,
           NEW type \in ReconciliationType, RunHook(s, type)
    PROVE  ReceiptsInv'
<1>1. PICK u : u = session[s]
  OBVIOUS
<1>2. /\ u \in Session /\ SessionSound(u) /\ IsPending(u) /\ u.step = "hooks"
      /\ type \in u.todo /\ u.payload \in Payloads
  BY <1>1, IngestionType DEF RunHook, SessionSound, IsPending
<1>3. PICK status : status = StatusOf(Checks(type, u.payload, u.ref))
  OBVIOUS
<1>4. PICK y, e : /\ y = [receipt |-> u.id, type |-> type, status |-> status]
                  /\ e = [receipt |-> u.id, type |-> type]
  OBVIOUS
<1>5. PICK step : step = IF u.todo = {type} THEN "commit" ELSE "hooks"
  OBVIOUS
<1>6. PICK x : x = [u EXCEPT !.todo = @ \ {type}, !.records = @ \cup {y}, !.events = @ \cup {e},
                             !.step = step]
  OBVIOUS
<1>7. /\ u.id \in ReceiptId /\ status \in ReconciliationStatus
      /\ u.todo \subseteq ReconciliationType
      /\ u.records \subseteq ReconciliationRecord /\ u.events \subseteq AuditEvent
  BY <1>2, <1>3, StatusMatched DEF Session
<1>8. y \in ReconciliationRecord /\ e \in AuditEvent
  BY <1>4, <1>7 DEF ReconciliationRecord, AuditEvent
<1>9. /\ x.step = step /\ x.payload = u.payload /\ x.ref = u.ref /\ x.id = u.id
      /\ x.todo = u.todo \ {type} /\ x.records = u.records \cup {y} /\ x.events = u.events \cup {e}
      /\ x.loaded = u.loaded
  BY <1>2, <1>6 DEF Session
<1>10. x \in Session
  <2>1. /\ u.todo \ {type} \in SUBSET ReconciliationType
        /\ u.records \cup {y} \in SUBSET ReconciliationRecord
        /\ u.events \cup {e} \in SUBSET AuditEvent
        /\ step \in {"idle", "lookup", "insert", "hooks", "commit"}
    BY <1>5, <1>7, <1>8
  <2> QED BY <1>2, <1>6, <2>1 DEF Session
<1>11. session' = [session EXCEPT ![s] = x]
  <2>1. session' = [session EXCEPT ![s].todo = @ \ {type}, ![s].records = @ \cup {y},
                        ![s].events = @ \cup {e},
                        ![s].step = IF session[s].todo = {type} THEN "commit" ELSE @]
    BY <1>1, <1>3, <1>4 DEF RunHook
  <2>2. session' = [session EXCEPT ![s] = session'[s]]
    BY <2>1, IngestionType
  <2>3. session'[s] = x
    BY <1>1, <1>2, <1>5, <1>6, <2>1, IngestionType DEF Session
  <2> QED BY <2>2, <2>3
<1>12. SessionTurn(s, x)
  BY <1>10, <1>11, AnswersSame, FailuresSame DEF SessionTurn, RunHook, tables
<1>13. PICK H : H = Hooks(u.payload)
  OBVIOUS
<1>14. /\ u.id # 0 /\ u.id \notin DOMAIN receipt
       /\ \A r \in DOMAIN receipt : receipt[r].payload # u.payload
       /\ u.todo \subseteq H /\ u.records = RecordsFor(u.id, u.payload, u.ref, H \ u.todo)
       /\ u.events = EventsFor(u.id, H \ u.todo) /\ u.ref \in {None, providerRef}
  BY <1>2, <1>13 DEF SessionSound
<1>15. /\ x.records = RecordsFor(x.id, x.payload, x.ref, H \ x.todo)
       /\ x.events = EventsFor(x.id, H \ x.todo)
  <2>1. PICK G : G = H \ u.todo
    OBVIOUS
  <2>2. x.todo = u.todo \ {type} /\ H \ x.todo = G \cup {type}
    BY <1>2, <1>9, <1>14, <2>1
  <2>3. /\ RecordsFor(u.id, u.payload, u.ref, G \cup {type}) =
             RecordsFor(u.id, u.payload, u.ref, G) \cup {y}
        /\ EventsFor(u.id, G \cup {type}) = EventsFor(u.id, G) \cup {e}
    <3>1. y = RecordFor(u.id, u.payload, u.ref, type)
      BY <1>3, <1>4 DEF RecordFor
    <3>2. EventsFor(u.id, G \cup {type}) = EventsFor(u.id, G) \cup {e}
      BY <1>4 DEF EventsFor
    <3>3. RecordsFor(u.id, u.payload, u.ref, G \cup {type}) =
             RecordsFor(u.id, u.payload, u.ref, G) \cup {y}
      BY <3>1 DEF RecordsFor
    <3> QED BY <3>2, <3>3
  <2> QED BY <1>9, <1>14, <2>1, <2>2, <2>3
<1>16. /\ IsPending(x) /\ x.step \notin {"idle", "answer"}
       /\ x.step = "commit" => x.todo = {}
  BY <1>5, <1>9 DEF IsPending
<1>17. SessionSound(x)
  BY <1>2, <1>9, <1>13, <1>14, <1>15, <1>16 DEF SessionSound
<1>18. ASSUME NEW t \in Sessions \ {s} PROVE Apart(x, session[t])
  <2>1. Apart(u, session[t])
    BY <1>1 DEF ReceiptsInv
  <2> QED BY <1>2, <1>9, <1>16, <2>1 DEF Apart
<1> QED BY <1>12, <1>17, <1>18, SessionStep

-----------------------------------------------------------------------------
(* The commit *)

\* The rows of an ingestion that is through with its hooks.
Complete(x) ==
    /\ x \in Session /\ x.payload \in Payloads /\ x.id \in Nat /\ x.id # 0
    /\ x.id \notin DOMAIN receipt /\ x.ref \in {None, providerRef}
    /\ \A r \in DOMAIN receipt : receipt[r].payload # x.payload
    /\ x.records = RecordsFor(x.id, x.payload, x.ref, Hooks(x.payload))
    /\ x.events = EventsFor(x.id, Hooks(x.payload))

LEMMA CommitComplete ==
    ASSUME ReceiptsInv, NEW s \in Sessions, session[s].step = "commit"
    PROVE  Complete(session[s]) /\ IsPending(session[s])
<1>1. PICK x : x = session[s]
  OBVIOUS
<1>2. x \in Session /\ SessionSound(x) /\ x.step = "commit" /\ x.id \in Nat
  BY <1>1, IngestionType
<1>3. Hooks(x.payload) \ {} = Hooks(x.payload)
  OBVIOUS
<1>4. IsPending(x) /\ x.todo = {}
  BY <1>2 DEF IsPending, SessionSound
<1>5. Complete(x)
  BY <1>2, <1>3, <1>4 DEF SessionSound, Complete
<1> QED BY <1>1, <1>4, <1>5

LEMMA RowsOwn ==
    ASSUME NEW r, NEW p, NEW ref, NEW H
    PROVE  /\ \A y \in RecordsFor(r, p, ref, H) : y.receipt = r
           /\ \A e \in EventsFor(r, H) : e.receipt = r
    BY DEF RecordsFor, RecordFor, EventsFor

LEMMA StateAfterType ==
    ASSUME NEW S
    PROVE  StateAfter(S) \in ReceiptState
           /\ StateAfter(S) # "received"
    BY DEF StateAfter, ReceiptState

\* What CommitReceipt does to the tables, for the rows of x.
Ingests(x) ==
    /\ receipt' = [r \in DOMAIN receipt \cup {x.id} |->
          IF r = x.id THEN [payload |-> x.payload, state |-> StateAfter(x.records)]
          ELSE receipt[r]]
    /\ reconciliation' = reconciliation \cup x.records
    /\ audit' = audit \cup x.events
    /\ intent'.latest = x.id /\ intent' \in Mirror
    /\ UNCHANGED <<providerRef, reader, answered, failures>>

\* The session that is left to answer.
Due(x) == [IdleSession EXCEPT !.step = "answer", !.payload = x.payload, !.id = x.id]

LEMMA CommitShape ==
    ASSUME ReceiptsInv, NEW s \in Sessions, CommitReceipt(s)
    PROVE  \E x : /\ x = session[s] /\ Complete(x) /\ IsPending(x) /\ Ingests(x)
                  /\ session' = [session EXCEPT ![s] = Due(x)]
<1>1. PICK x : x = session[s]
  OBVIOUS
<1>2. Complete(x) /\ IsPending(x)
  BY <1>1, CommitComplete DEF CommitReceipt
<1>3. intent' = [latest |-> x.id,
                 receipt |-> Updated(intent.receipt, x.loaded.receipt,
                                               StateAfter(x.records)),
                 execution |-> Updated(intent.execution, x.loaded.execution,
                                                 Observed(Outcomes[x.payload]))]
  BY <1>1 DEF CommitReceipt
<1>4. PICK a, b : /\ a = Updated(intent.receipt, x.loaded.receipt,
                                           StateAfter(x.records))
                  /\ b = Updated(intent.execution, x.loaded.execution,
                                           Observed(Outcomes[x.payload]))
  OBVIOUS
<1>5. intent.receipt \in ReceiptState /\ intent.execution \in IntentExecutionState
  BY DEF ReceiptsInv, ReceiptsTypeOK, Mirror
<1>6. a \in ReceiptState
  BY <1>4, <1>5, StateAfterType DEF Updated
<1>7. Observed(Outcomes[x.payload]) \in IntentExecutionState
  BY DEF Observed, IntentExecutionState
<1>8. b \in IntentExecutionState
  BY <1>4, <1>5, <1>7 DEF Updated
<1>9. x.id \in ReceiptId
  BY <1>2 DEF Complete, ReceiptId
<1>10. intent'.latest = x.id /\ intent' \in Mirror
  BY <1>3, <1>4, <1>6, <1>8, <1>9 DEF Mirror
<1>11. Ingests(x) /\ session' = [session EXCEPT ![s] = Due(x)]
  BY <1>1, <1>10 DEF Ingests, CommitReceipt, Due
<1> QED BY <1>1, <1>2, <1>11

LEMMA CommitRows ==
    ASSUME NEW x, Complete(x), Ingests(x)
    PROVE  /\ DOMAIN receipt' = DOMAIN receipt \cup {x.id}
           /\ \A r \in DOMAIN receipt : receipt'[r] = receipt[r] /\ r # x.id
           /\ receipt'[x.id].payload = x.payload
           /\ receipt'[x.id].state = StateAfter(x.records)
           /\ \A y \in x.records : y.receipt = x.id
           /\ \A e \in x.events : e.receipt = x.id
<1>1. /\ DOMAIN receipt' = DOMAIN receipt \cup {x.id}
      /\ \A r \in DOMAIN receipt : r # x.id /\ receipt'[r] = receipt[r]
  BY DEF Ingests, Complete
<1>2. receipt'[x.id] = [payload |-> x.payload, state |-> StateAfter(x.records)]
  BY DEF Ingests
<1>3. (\A y \in x.records : y.receipt = x.id) /\ (\A e \in x.events : e.receipt = x.id)
  <2>1. PICK r, p, ref, H : r = x.id /\ p = x.payload /\ ref = x.ref /\ H = Hooks(p)
    OBVIOUS
  <2>2. x.records = RecordsFor(r, p, ref, H) /\ x.events = EventsFor(r, H)
    BY <2>1 DEF Complete
  <2> QED BY <2>1, <2>2, RowsOwn
<1> QED BY <1>1, <1>2, <1>3

LEMMA CommitTables ==
    ASSUME TablesSound, NEW x, Complete(x), Ingests(x)
    PROVE  TablesSound'
<1>1. /\ DOMAIN receipt' = DOMAIN receipt \cup {x.id}
      /\ \A r \in DOMAIN receipt : receipt'[r] = receipt[r] /\ r # x.id
      /\ receipt'[x.id].payload = x.payload
      /\ receipt'[x.id].state = StateAfter(x.records)
      /\ \A y \in x.records : y.receipt = x.id
      /\ \A e \in x.events : e.receipt = x.id
  BY CommitRows
<1>2. /\ reconciliation' = reconciliation \cup x.records /\ audit' = audit \cup x.events
      /\ UNCHANGED <<providerRef, answered>> /\ intent'.latest = x.id
  BY DEF Ingests
<1>3. /\ \A y \in reconciliation : y.receipt \in DOMAIN receipt
      /\ \A e \in audit : e.receipt \in DOMAIN receipt
      /\ \A q, r \in DOMAIN receipt : receipt[q].payload = receipt[r].payload => q = r
      /\ \A a \in answered : a.receipt \in DOMAIN receipt /\ receipt[a.receipt].payload = a.payload
      /\ \A r \in DOMAIN receipt : ReceiptSound(r)
  BY DEF TablesSound
<1>4. /\ x.id \notin DOMAIN receipt /\ \A r \in DOMAIN receipt : receipt[r].payload # x.payload
  BY DEF Complete
<1>5. ASSUME NEW r \in DOMAIN receipt PROVE ReceiptSound(r)'
  <2>1. ReceiptSound(r) /\ r # x.id /\ receipt'[r] = receipt[r]
    BY <1>1, <1>3
  <2>2. RecordsOf(r)' = RecordsOf(r)
    BY <1>1, <1>2, <2>1 DEF RecordsOf
  <2>3. EventsOf(r)' = EventsOf(r)
    BY <1>1, <1>2, <2>1 DEF EventsOf
  <2> QED BY <1>2, <2>1, <2>2, <2>3 DEF ReceiptSound
<1>6. ReceiptSound(x.id)'
  <2>1. RecordsOf(x.id)' = x.records
    BY <1>1, <1>2, <1>3, <1>4 DEF RecordsOf
  <2>2. EventsOf(x.id)' = x.events
    BY <1>1, <1>2, <1>3, <1>4 DEF EventsOf
  <2>3. /\ x.records = RecordsFor(x.id, x.payload, x.ref, Hooks(x.payload))
        /\ x.events = EventsFor(x.id, Hooks(x.payload))
        /\ x.ref \in {None, providerRef} /\ x.id # 0
    BY DEF Complete
  <2> QED BY <1>1, <1>2, <2>1, <2>2, <2>3 DEF ReceiptSound
<1>7. \A r \in DOMAIN receipt' : ReceiptSound(r)'
  BY <1>1, <1>5, <1>6
<1>8. \A q, r \in DOMAIN receipt' : receipt'[q].payload = receipt'[r].payload => q = r
  BY <1>1, <1>3, <1>4
<1>9. /\ \A y \in reconciliation' : y.receipt \in DOMAIN receipt'
      /\ \A e \in audit' : e.receipt \in DOMAIN receipt'
      /\ intent'.latest \in DOMAIN receipt' \cup {0}
  BY <1>1, <1>2, <1>3
<1>10. \A a \in answered' : a.receipt \in DOMAIN receipt' /\ receipt'[a.receipt].payload = a.payload
  BY <1>1, <1>2, <1>3
<1> QED BY <1>7, <1>8, <1>9, <1>10 DEF TablesSound

LEMMA CommitKeeps ==
    ASSUME ReceiptsInv, NEW s \in Sessions, CommitReceipt(s)
    PROVE  ReceiptsInv'
<1>1. PICK x : /\ x = session[s] /\ Complete(x) /\ IsPending(x) /\ Ingests(x)
               /\ session' = [session EXCEPT ![s] = Due(x)]
  BY CommitShape
<1>11. PICK d : d = Due(x)
  OBVIOUS
<1>12. /\ d \in Session /\ d.step = "answer" /\ d.payload = x.payload /\ d.id = x.id
       /\ d.ref = None /\ d.records = {}
  <2>1. x.payload \in Payloads /\ x.id \in ReceiptId
    BY <1>1 DEF Complete, ReceiptId
  <2> QED BY <1>11, <2>1, NotIngesting DEF Due, Session
<1>2. /\ DOMAIN receipt' = DOMAIN receipt \cup {x.id}
      /\ \A r \in DOMAIN receipt : receipt'[r] = receipt[r] /\ r # x.id
      /\ receipt'[x.id].payload = x.payload
      /\ \A y \in x.records : y.receipt = x.id
      /\ \A e \in x.events : e.receipt = x.id
  BY <1>1, CommitRows
<1>3. TablesSound'
  BY <1>1, CommitTables DEF ReceiptsInv
<1>4. session \in [Sessions -> Session] /\ ReceiptsTypeOK
  BY DEF ReceiptsInv, ReceiptsTypeOK
<1>5. session'[s] = d /\ \A t \in Sessions \ {s} : session'[t] = session[t]
  BY <1>11, <1>1, <1>4
<1>6. ReceiptsTypeOK'
  <2>1. /\ x.records \subseteq ReconciliationRecord /\ x.events \subseteq AuditEvent
        /\ x.payload \in Payloads /\ x.id \in ReceiptId
    BY <1>1 DEF Complete, Session, ReceiptId
  <2>2. [payload |-> x.payload, state |-> StateAfter(x.records)] \in ReceiptRecord
    BY <2>1, StateAfterType DEF ReceiptRecord
  <2>3. /\ DOMAIN receipt' \subseteq ReceiptId
        /\ \A r \in DOMAIN receipt' : receipt'[r] \in ReceiptRecord
    BY <1>1, <1>2, <1>4, <2>1, <2>2 DEF Ingests, ReceiptsTypeOK
  <2>4. /\ reconciliation' \subseteq ReconciliationRecord /\ audit' \subseteq AuditEvent
        /\ intent' \in Mirror /\ providerRef' \in Values
        /\ reader' \in [Readers -> Trace] /\ failures' \in Nat
    BY <1>1, <1>4, <2>1 DEF Ingests, ReceiptsTypeOK
  <2>5. session' \in [Sessions -> Session]
    BY <1>11, <1>12, <1>1, <1>4
  <2>6. answered' \subseteq [payload : Payloads, receipt : ReceiptId]
    BY <1>1, <1>4, <2>1 DEF Ingests, ReceiptsTypeOK
  <2> QED BY <2>3, <2>4, <2>5, <2>6 DEF ReceiptsTypeOK
<1>7. ASSUME NEW t \in Sessions PROVE SessionSound(session[t])'
  <2>1. CASE t = s
    <3>1. x.payload \in Payloads
      BY <1>1 DEF Complete
    <3> QED BY <1>2, <1>12, <1>5, <2>1, <3>1 DEF SessionSound, IsPending
  <2>2. CASE t # s
    <3>1. PICK y : y = session[t]
      OBVIOUS
    <3>2. SessionSound(y) /\ Apart(x, y)
      BY <1>1, <2>2, <3>1 DEF ReceiptsInv
    <3>3. IsPending(y) => y.id # x.id /\ y.payload # x.payload
      BY <1>1, <3>2 DEF Apart
    <3>4. UNCHANGED providerRef
      BY <1>1 DEF Ingests
    <3>5. SessionSound(y)'
      BY <1>2, <3>2, <3>3, <3>4 DEF SessionSound, IsPending
    <3>6. session'[t] = y
      BY <1>5, <2>2, <3>1
    <3> QED BY <3>5, <3>6 DEF SessionSound, IsPending
  <2> QED BY <2>1, <2>2
<1>8. ASSUME NEW t \in Sessions, NEW u \in Sessions, t # u
      PROVE  Apart(session[t], session[u])'
  <2>1. CASE t = s \/ u = s
    BY <1>12, <1>5, <2>1 DEF Apart, IsPending
  <2>2. CASE t # s /\ u # s
    <3>1. Apart(session[t], session[u])
      BY <1>8 DEF ReceiptsInv
    <3> QED BY <1>5, <2>2, <3>1 DEF Apart, IsPending
  <2> QED BY <2>1, <2>2
<1>9. ASSUME NEW t \in Readers PROVE ReaderSound(reader[t])'
  <2>1. PICK y : y = reader[t]
    OBVIOUS
  <2>2. ReaderSound(y) /\ reader'[t] = y
    BY <1>1, <2>1 DEF ReceiptsInv, Ingests
  <2>3. reconciliation' = reconciliation \cup x.records /\ audit' = audit \cup x.events
    BY <1>1 DEF Ingests
  <2>4. x.id \notin DOMAIN receipt
    BY <1>1 DEF Complete
  <2>5. ReaderSound(y)'
    BY <1>2, <2>2, <2>3, <2>4 DEF ReaderSound
  <2> QED BY <2>2, <2>5 DEF ReaderSound
<1>10. IsFiniteSet(UsedIds)'
  <2>1. UsedIds' \subseteq UsedIds \cup {x.id}
    <3>1. UsedIds' = DOMAIN receipt' \cup {session'[t].id : t \in {u \in Sessions :
                                                session'[u].step \in {"hooks", "commit"}}}
      BY DEF UsedIds, Pending
    <3>2. UsedIds = DOMAIN receipt \cup {session[t].id : t \in {u \in Sessions :
                                                session[u].step \in {"hooks", "commit"}}}
      BY DEF UsedIds, Pending
    <3> QED BY <1>2, <1>12, <1>5, <3>1, <3>2
  <2>2. PICK S, T : S = UsedIds /\ T = UsedIds'
    OBVIOUS
  <2>3. IsFiniteSet(S)
    BY <2>2 DEF ReceiptsInv
  <2>4. IsFiniteSet(T)
    BY <2>1, <2>2, <2>3, FewMoreIds
  <2> QED BY <2>2, <2>4
<1> QED BY <1>3, <1>6, <1>7, <1>8, <1>9, <1>10 DEF ReceiptsInv

-----------------------------------------------------------------------------
(* The other writer, and the readers *)

LEMMA ConfirmKeeps ==
    ASSUME ReceiptsInv, ConfirmDispatch
    PROVE  ReceiptsInv'
<1>1. /\ providerRef = None /\ providerRef' = "right"
      /\ UNCHANGED <<receipt, reconciliation, audit, session, reader, answered, failures>>
  BY DEF ConfirmDispatch
<1>2. intent' \in Mirror /\ intent'.latest = intent.latest
  <2>1. intent \in Mirror /\ intent' = [intent EXCEPT !.execution = "dispatch_confirmed"]
    BY DEF ReceiptsInv, ReceiptsTypeOK, ConfirmDispatch
  <2> QED BY <2>1 DEF Mirror, IntentExecutionState
<1>3. ReceiptsTypeOK'
  <2>1. providerRef' \in Values
    BY <1>1 DEF Values
  <2> QED BY <1>1, <1>2, <2>1 DEF ReceiptsInv, ReceiptsTypeOK
<1>4. ASSUME NEW r \in DOMAIN receipt PROVE ReceiptSound(r)'
  <2>1. ReceiptSound(r)
    BY DEF ReceiptsInv, TablesSound
  <2> QED BY <1>1, <2>1 DEF ReceiptSound, EventsOf, RecordsOf
<1>5. TablesSound'
  BY <1>1, <1>2, <1>4 DEF ReceiptsInv, TablesSound
<1>6. ASSUME NEW s \in Sessions PROVE SessionSound(session[s])'
  <2>1. SessionSound(session[s])
    BY DEF ReceiptsInv
  <2> QED BY <1>1, <2>1 DEF SessionSound, IsPending
<1>7. ASSUME NEW s \in Sessions, NEW u \in Sessions, s # u
      PROVE  Apart(session[s], session[u])'
  BY <1>1, <1>7 DEF ReceiptsInv, Apart, IsPending
<1>8. ASSUME NEW t \in Readers PROVE ReaderSound(reader[t])'
  <2>1. ReaderSound(reader[t])
    BY DEF ReceiptsInv
  <2> QED BY <1>1, <2>1 DEF ReaderSound
<1>9. IsFiniteSet(UsedIds)'
  <2>1. UNCHANGED UsedIds
    BY <1>1 DEF UsedIds, Pending
  <2> QED BY <2>1 DEF ReceiptsInv
<1> QED BY <1>3, <1>5, <1>6, <1>7, <1>8, <1>9 DEF ReceiptsInv

LEMMA ReadsKeep ==
    ASSUME ReceiptsInv, NEW t \in Readers, Reads(t)
    PROVE  ReceiptsInv'
<1>1. PICK u : u = reader[t]
  OBVIOUS
<1>2. u \in Trace /\ ReaderSound(u) /\ reader \in [Readers -> Trace]
  BY <1>1 DEF ReceiptsInv, ReceiptsTypeOK
<1>3. /\ DOMAIN receipt \subseteq ReceiptId
      /\ reconciliation \subseteq ReconciliationRecord /\ audit \subseteq AuditEvent
      /\ intent.latest \in ReceiptId /\ intent.latest \in DOMAIN receipt \cup {0}
  BY DEF ReceiptsInv, TablesSound, ReceiptsTypeOK, Mirror
<1>4. /\ NoTrace \in Trace /\ NoTrace.step = "idle"
  BY DEF NoTrace, Trace, ReceiptId
<1>5. ASSUME NEW x, x \in Trace, reader' = [reader EXCEPT ![t] = x], ReaderSound(x),
             UNCHANGED <<tables, session, answered, failures>>
      PROVE  ReceiptsInv'
  <2>1. ReaderTurn(t, x)
    BY <1>5 DEF ReaderTurn, tables
  <2> QED BY <1>5, <2>1, ReaderStep
<1>6. CASE ReadIntent(t)
  <2>1. PICK x : x = [NoTrace EXCEPT !.step = "receipts", !.latest = intent.latest]
    OBVIOUS
  <2>2. x \in Trace /\ x.step = "receipts" /\ x.latest = intent.latest
    BY <1>3, <1>4, <2>1 DEF Trace
  <2>3. ReaderSound(x)
    BY <1>3, <2>2 DEF ReaderSound
  <2> QED BY <1>5, <1>6, <2>1, <2>2, <2>3 DEF ReadIntent
<1>7. CASE ReadReceipts(t)
  <2>1. PICK x : x = [u EXCEPT !.step = "records", !.receipts = DOMAIN receipt]
    OBVIOUS
  <2>2. /\ x \in Trace /\ x.step = "records" /\ x.receipts = DOMAIN receipt
        /\ x.latest = u.latest
    BY <1>2, <1>3, <2>1 DEF Trace
  <2>3. u.step = "receipts" /\ reader' = [reader EXCEPT ![t] = x]
    <3>1. reader' = [reader EXCEPT ![t].step = "records", ![t].receipts = DOMAIN receipt]
      BY <1>7 DEF ReadReceipts
    <3>2. reader' = [reader EXCEPT ![t] = reader'[t]]
      BY <1>2, <3>1
    <3>3. reader'[t] = x
      BY <1>1, <1>2, <2>1, <3>1 DEF Trace
    <3> QED BY <1>1, <1>7, <3>2, <3>3 DEF ReadReceipts
  <2>4. ReaderSound(x)
    BY <1>2, <2>2, <2>3 DEF ReaderSound
  <2> QED BY <1>5, <1>7, <2>2, <2>3, <2>4 DEF ReadReceipts
<1>8. CASE ReadRecords(t)
  <2>1. PICK x : x = [u EXCEPT !.step = "events", !.records = reconciliation]
    OBVIOUS
  <2>2. /\ x \in Trace /\ x.step = "events" /\ x.records = reconciliation
        /\ x.latest = u.latest /\ x.receipts = u.receipts
    BY <1>2, <1>3, <2>1 DEF Trace
  <2>3. u.step = "records" /\ reader' = [reader EXCEPT ![t] = x]
    <3>1. reader' = [reader EXCEPT ![t].step = "events", ![t].records = reconciliation]
      BY <1>8 DEF ReadRecords
    <3>2. reader' = [reader EXCEPT ![t] = reader'[t]]
      BY <1>2, <3>1
    <3>3. reader'[t] = x
      BY <1>1, <1>2, <2>1, <3>1 DEF Trace
    <3> QED BY <1>1, <1>8, <3>2, <3>3 DEF ReadRecords
  <2>4. ReaderSound(x)
    BY <1>2, <2>2, <2>3 DEF ReaderSound
  <2> QED BY <1>5, <1>8, <2>2, <2>3, <2>4 DEF ReadRecords
<1>9. CASE ReadEvents(t)
  <2>1. PICK x : x = [u EXCEPT !.step = "built", !.events = audit]
    OBVIOUS
  <2>2. /\ x \in Trace /\ x.step = "built" /\ x.events = audit
        /\ x.latest = u.latest /\ x.receipts = u.receipts /\ x.records = u.records
    BY <1>2, <1>3, <2>1 DEF Trace
  <2>3. u.step = "events" /\ reader' = [reader EXCEPT ![t] = x]
    <3>1. reader' = [reader EXCEPT ![t].step = "built", ![t].events = audit]
      BY <1>9 DEF ReadEvents
    <3>2. reader' = [reader EXCEPT ![t] = reader'[t]]
      BY <1>2, <3>1
    <3>3. reader'[t] = x
      BY <1>1, <1>2, <2>1, <3>1 DEF Trace
    <3> QED BY <1>1, <1>9, <3>2, <3>3 DEF ReadEvents
  <2>4. ReaderSound(x)
    BY <1>2, <2>2, <2>3 DEF ReaderSound
  <2> QED BY <1>5, <1>9, <2>2, <2>3, <2>4 DEF ReadEvents
<1>10. CASE ReturnTrace(t)
  <2>1. ReaderSound(NoTrace)
    BY <1>4 DEF ReaderSound
  <2> QED BY <1>4, <1>5, <1>10, <2>1 DEF ReturnTrace
<1> QED BY <1>6, <1>7, <1>8, <1>9, <1>10 DEF Reads

-----------------------------------------------------------------------------
(* The theorems *)

LEMMA ReceiptsInitially ==
    ASSUME ReceiptsInit
    PROVE  ReceiptsInv
<1>1. /\ receipt = [r \in {} |-> None] /\ reconciliation = {} /\ audit = {}
      /\ intent = Fresh /\ providerRef = None
      /\ session = [s \in Sessions |-> IdleSession]
      /\ reader = [t \in Readers |-> NoTrace]
      /\ answered = {} /\ failures = 0
  BY DEF ReceiptsInit
<1>2. Fresh \in Mirror /\ Fresh.latest = 0
  BY DEF Fresh, Mirror, ReceiptId, ReceiptState,
         IntentExecutionState
<1>3. NoTrace \in Trace /\ NoTrace.step = "idle"
  BY DEF NoTrace, Trace, ReceiptId
<1>4. ReceiptsTypeOK
  BY <1>1, <1>2, <1>3, NotIngesting DEF ReceiptsTypeOK, Values
<1>5. TablesSound
  BY <1>1, <1>2 DEF TablesSound
<1>6. \A s \in Sessions : SessionSound(session[s])
  BY <1>1, NotIngesting DEF SessionSound, IsPending
<1>7. \A s, t \in Sessions : Apart(session[s], session[t])
  BY <1>1, NotIngesting DEF Apart
<1>8. \A t \in Readers : ReaderSound(reader[t])
  BY <1>1, <1>3 DEF ReaderSound
<1>9. UsedIds = {}
  BY <1>1, NotIngesting DEF UsedIds, Pending
<1> QED BY <1>4, <1>5, <1>6, <1>7, <1>8, <1>9, FS_EmptySet DEF ReceiptsInv

LEMMA ReceiptsStutter ==
    ASSUME ReceiptsInv, UNCHANGED receiptsVars
    PROVE  ReceiptsInv'
<1>1. UNCHANGED <<receipt, reconciliation, audit, intent, providerRef, session, reader, answered,
                  failures>>
  BY DEF receiptsVars
<1>2. ReceiptsTypeOK'
  BY <1>1 DEF ReceiptsInv, ReceiptsTypeOK
<1>3. TablesSound'
  BY <1>1, TablesKept DEF ReceiptsInv, TablesSound
<1>4. (\A s \in Sessions : SessionSound(session[s]))'
  BY <1>1 DEF ReceiptsInv, SessionSound, IsPending
<1>5. (\A s, t \in Sessions : s # t => Apart(session[s], session[t]))'
  BY <1>1 DEF ReceiptsInv, Apart, IsPending
<1>6. (\A t \in Readers : ReaderSound(reader[t]))'
  BY <1>1 DEF ReceiptsInv, ReaderSound
<1>7. IsFiniteSet(UsedIds)'
  <2>1. UNCHANGED UsedIds
    BY <1>1 DEF UsedIds, Pending
  <2> QED BY <2>1 DEF ReceiptsInv
<1> QED BY <1>2, <1>3, <1>4, <1>5, <1>6, <1>7 DEF ReceiptsInv

LEMMA ReceiptsInductive ==
    ASSUME ReceiptsInv, [ReceiptsNext]_receiptsVars
    PROVE  ReceiptsInv'
<1>1. ASSUME NEW s \in Sessions, Proceeds(s) PROVE ReceiptsInv'
  BY <1>1, EndsKeep, LoadLinksKeeps, InsertKeeps, RunHookKeeps, CommitKeeps
     DEF Proceeds
<1>2. ASSUME NEW s \in Sessions, IngestionFails(s) PROVE ReceiptsInv'
  BY <1>2, EndsKeep
<1>3. ASSUME NEW s \in Sessions, NEW p \in Payloads, LoadActionIntent(s, p) PROVE ReceiptsInv'
  BY <1>3, LoadIntentKeeps
<1>4. ASSUME NEW t \in Readers, Reads(t) PROVE ReceiptsInv'
  BY <1>4, ReadsKeep
<1> QED BY <1>1, <1>2, <1>3, <1>4, ConfirmKeeps, ReceiptsStutter DEF ReceiptsNext

LEMMA ReceiptsInvariant ==
    ReceiptsSpec => []ReceiptsInv
<1>1. ReceiptsInit => ReceiptsInv
  BY ReceiptsInitially
<1>2. ReceiptsInv /\ [ReceiptsNext]_receiptsVars => ReceiptsInv'
  BY ReceiptsInductive
<1> QED BY <1>1, <1>2, PTL DEF ReceiptsSpec

\* One record per hook.
TypesIn(S) == {y.type : y \in S}

LEMMA OneRecordPerHook ==
    ASSUME NEW r, NEW p, NEW ref, NEW H \in SUBSET ReconciliationType,
           NEW S, S = RecordsFor(r, p, ref, H), NEW E, E = EventsFor(r, H)
    PROVE  /\ TypesIn(S) = H
           /\ Cardinality(S) = Cardinality(H)
           /\ TypesIn(E) = {"ingested"} \cup H
<1>1. \A t \in H : RecordFor(r, p, ref, t).type = t
  BY DEF RecordFor
<1>2. TypesIn(S) = H
  BY <1>1 DEF RecordsFor, TypesIn
<1>3. TypesIn(E) = {"ingested"} \cup H
  <2>1. \A e \in E : e.type \in {"ingested"} \cup H
    BY DEF EventsFor
  <2>2. ASSUME NEW t \in {"ingested"} \cup H PROVE \E e \in E : e.type = t
    <3>1. PICK e : e = [receipt |-> r, type |-> t]
      OBVIOUS
    <3>2. e \in E /\ e.type = t
      BY <3>1 DEF EventsFor
    <3> QED BY <3>2
  <2> QED BY <2>1, <2>2 DEF TypesIn
<1>4. IsFiniteSet(H)
  <2>1. IsFiniteSet({} \cup {"intent"})
    BY FS_EmptySet, FS_AddElement
  <2>2. IsFiniteSet(({} \cup {"intent"}) \cup {"proof"})
    BY <2>1, FS_AddElement
  <2>3. IsFiniteSet((({} \cup {"intent"}) \cup {"proof"}) \cup {"escrow"})
    BY <2>2, FS_AddElement
  <2>4. (({} \cup {"intent"}) \cup {"proof"}) \cup {"escrow"} = ReconciliationType
    BY DEF ReconciliationType
  <2>5. IsFiniteSet(ReconciliationType)
    BY <2>3, <2>4
  <2> QED BY <2>5, FS_Subset
<1>5. PICK f : f = [t \in H |-> RecordFor(r, p, ref, t)]
  OBVIOUS
<1>6. f \in Bijection(H, S)
  <2>1. f \in [H -> S]
    BY <1>5 DEF RecordsFor
  <2>2. \A a, b \in H : f[a] = f[b] => a = b
    BY <1>1, <1>5
  <2>3. \A y \in S : \E t \in H : f[t] = y
    BY <1>5 DEF RecordsFor
  <2> QED BY <2>1, <2>2, <2>3 DEF Bijection, Injection, Surjection, IsInjective
<1>7. ExistsBijection(H, S)
  BY <1>6 DEF ExistsBijection
<1>8. Cardinality(S) = Cardinality(H)
  BY <1>4, <1>7, FS_Bijection
<1>9. Cardinality(S) = Cardinality(S) /\ Cardinality(H) = Cardinality(H)
  BY SameCardinality
<1> QED BY <1>2, <1>3, <1>8, <1>9

LEMMA ReceiptWhole ==
    ASSUME ReceiptsInv, NEW r \in DOMAIN receipt
    PROVE  /\ {x.type : x \in RecordsOf(r)} = Hooks(receipt[r].payload)
           /\ Cardinality(RecordsOf(r))
                 = Cardinality(Hooks(receipt[r].payload))
           /\ {e.type : e \in {e \in audit : e.receipt = r}} =
                  {"ingested"} \cup Hooks(receipt[r].payload)
           /\ receipt[r].state # "received"
           /\ receipt[r].state = "reconciled" =>
                 \A type \in Hooks(receipt[r].payload) :
                    \E ref \in {None, providerRef} : Bound(type, receipt[r].payload, ref)
           /\ \E e \in audit : e.receipt = r
<1>1. PICK p, H : p = receipt[r].payload /\ H = Hooks(p)
  OBVIOUS
<1>2. p \in Payloads
  <2>1. receipt[r] \in ReceiptRecord
    BY DEF ReceiptsInv, ReceiptsTypeOK
  <2> QED BY <1>1, <2>1 DEF ReceiptRecord
<1>3. H \in SUBSET ReconciliationType
  BY <1>1, <1>2, HooksType
<1>4. ReceiptSound(r)
  BY DEF ReceiptsInv, TablesSound
<1>5. PICK ref \in {None, providerRef} : RecordsOf(r) = RecordsFor(r, p, ref, H)
  BY <1>1, <1>4 DEF ReceiptSound
<1>6. {e \in audit : e.receipt = r} = EventsFor(r, H)
  BY <1>1, <1>4 DEF ReceiptSound, EventsOf
<1>7. receipt[r].state = StateAfter(RecordsOf(r))
  BY <1>4 DEF ReceiptSound
<1>8. PICK S, E : S = RecordsFor(r, p, ref, H) /\ E = EventsFor(r, H)
  OBVIOUS
<1>9. /\ TypesIn(S) = H /\ Cardinality(S) = Cardinality(H)
      /\ TypesIn(E) = {"ingested"} \cup H
  BY <1>3, <1>8, OneRecordPerHook
<1>10. receipt[r].state # "received"
  BY <1>7, StateAfterType
<1>11. ASSUME receipt[r].state = "reconciled", NEW type \in H
       PROVE  Bound(type, p, ref)
  <2>1. \A y \in S : y.status = "matched"
    BY <1>5, <1>7, <1>8, <1>11 DEF StateAfter
  <2>2. RecordFor(r, p, ref, type) \in S
    BY <1>8 DEF RecordsFor
  <2>3. StatusOf(Checks(type, p, ref)) = "matched"
    BY <2>1, <2>2 DEF RecordFor
  <2>4. type \in ReconciliationType
    BY <1>3
  <2> QED BY <1>2, <2>3, <2>4, MatchedIsBound
<1>12. \E e \in audit : e.receipt = r
  <2>1. [receipt |-> r, type |-> "ingested"] \in EventsFor(r, H)
    BY DEF EventsFor
  <2> QED BY <1>6, <2>1
<1>13. {x.type : x \in RecordsOf(r)} = H
  BY <1>5, <1>8, <1>9 DEF TypesIn
<1>14. Cardinality(RecordsOf(r)) = Cardinality(H)
  BY <1>5, <1>8, <1>9
<1>15. {e.type : e \in {e \in audit : e.receipt = r}} = {"ingested"} \cup H
  BY <1>6, <1>8, <1>9 DEF TypesIn
<1> QED BY <1>1, <1>10, <1>11, <1>12, <1>13, <1>14, <1>15

\* Whoever delivers a payload and however often, it has at most one receipt;
\* the receipt is visible only with all its reconciliation records and audit
\* events, and is reconciled only if the payload bears out what it is linked to
\* (ingest_receipt, uq_receipt_records_tenant_digest, _run_reconciliation_hooks).
THEOREM IngestionsWhole ==
    ReceiptsSpec => []WholeIngestions
<1>1. ReceiptsInv => WholeIngestions
  <2> SUFFICES ASSUME ReceiptsInv PROVE WholeIngestions
    OBVIOUS
  <2>1. {x.receipt : x \in reconciliation} \cup {e.receipt : e \in audit} = DOMAIN receipt
    <3>1. /\ \A y \in reconciliation : y.receipt \in DOMAIN receipt
          /\ \A e \in audit : e.receipt \in DOMAIN receipt
      BY DEF ReceiptsInv, TablesSound
    <3>2. \A r \in DOMAIN receipt : \E e \in audit : e.receipt = r
      BY ReceiptWhole
    <3>3. \A r \in DOMAIN receipt : r \in {e.receipt : e \in audit}
      BY <3>2
    <3>4. \A r \in {x.receipt : x \in reconciliation} \cup {e.receipt : e \in audit} : r \in DOMAIN receipt
      BY <3>1
    <3> QED BY <3>3, <3>4
  <2>2. \A x, y \in answered : x.payload = y.payload => x.receipt = y.receipt
    BY DEF ReceiptsInv, TablesSound
  <2>3. /\ ReceiptsTypeOK /\ intent.latest \in DOMAIN receipt \cup {0}
        /\ \A q, r \in DOMAIN receipt : receipt[q].payload = receipt[r].payload => q = r
    BY DEF ReceiptsInv, TablesSound
  <2> QED BY <2>1, <2>2, <2>3, ReceiptWhole DEF WholeIngestions
<1> QED BY <1>1, ReceiptsInvariant, PTL

\* A trace that is read table by table while receipts are ingested holds the
\* receipt the intent names as latest, and with every receipt its
\* reconciliation records and audit events (build_action_trace).
THEOREM TracesClosed ==
    ReceiptsSpec => []TraceIsClosed
<1>1. ReceiptsInv => TraceIsClosed
  <2> SUFFICES ASSUME ReceiptsInv, NEW t \in Readers, reader[t].step = "built"
               PROVE  /\ reader[t].latest \in reader[t].receipts \cup {0}
                      /\ \A r \in reader[t].receipts :
                          /\ RecordsOf(r) \subseteq reader[t].records
                          /\ \A e \in audit : e.receipt = r => e \in reader[t].events
    BY DEF TraceIsClosed
  <2>1. ReaderSound(reader[t])
    BY DEF ReceiptsInv
  <2> QED BY <2>1 DEF ReaderSound, RecordsOf
<1> QED BY <1>1, ReceiptsInvariant, PTL
=============================================================================
