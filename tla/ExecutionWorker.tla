---------------------------- MODULE ExecutionWorker ----------------------------
(***************************************************************************)
(* The brokered execution worker: src/app/services/execution_worker.py.    *)
(*                                                                         *)
(* A client submits a job under an idempotency key and may cancel it.  A   *)
(* worker process runs one job (run_job) or, at startup, every job left    *)
(* pending or running (recover_pending_jobs).  run_job calls the executor, *)
(* which reaches the provider, until an answer settles the job or          *)
(* max_retries + 1 attempts are spent.  Each commit is a step of its own;  *)
(* a process may crash between any two, the job row survives.              *)
(*                                                                         *)
(* A session works on the objects it loaded: expire_on_commit is off, so   *)
(* neither a commit nor session.get() reads the row again.                 *)
(*                                                                         *)
(* ExecutionProofs extends this module and others, hence the prefixes.     *)
(***************************************************************************)
EXTENDS Naturals

CONSTANTS
    Clients,        \* sessions that submit and cancel
    Workers,        \* worker processes
    Jobs,           \* job ids
    Keys,           \* (tenant_id, idempotency_key) pairs
    MaxRetries,     \* max_retries of every job
    MaxCrashes,     \* bound on the crashes of a behaviour
    NoJob, NoKey

ASSUME WorkerAssumption ==
    /\ MaxRetries \in Nat
    /\ MaxCrashes \in Nat
    /\ NoJob \notin Jobs
    /\ NoKey \notin Keys

VARIABLES
    job,            \* the execution_jobs rows
    client,         \* what each client session has read
    process,        \* what each worker process has in memory
    effects,        \* keys whose action the provider has carried out
    calls,          \* executor calls made for each job
    crashes         \* crashes so far

workerVars == <<job, client, process, effects, calls, crashes>>

-----------------------------------------------------------------------------

TerminalStatus == {"succeeded", "failed", "timed_out", "dead_letter", "cancelled"}
Open == {"pending", "running"}

ExecutionJobRecord ==
    [key : Keys \cup {NoKey}, status : Open \cup TerminalStatus \cup {"none"},
     attempts : Nat, result : {"none", "ok", "failed"}]

NoJobRow == [key |-> NoKey, status |-> "none", attempts |-> 0, result |-> "none"]

\* What an executor call comes to.  "retry" stands for a retryable answer and
\* for an exception, which run_job treats alike.
Answers == {"ok", "unknown", "failed", "retry"}

ClientState ==
    [op : {"idle"}] \cup [op : {"submit"}, key : Keys] \cup [op : {"cancel"}, job : Jobs]

\* The ORM object of a job.
Copy == [status : Open, attempts : Nat]

IsWorkerState(v) ==
    /\ v.pc \in {"idle", "next", "loop", "call", "settle"}
    /\ v.job \in Jobs \cup {NoJob}
    /\ DOMAIN v.copies \subseteq Jobs
    /\ \A j \in DOMAIN v.copies : v.copies[j] \in Copy
    /\ v.outcome \in Answers \cup {"none"}

Resting == [pc |-> "idle", job |-> NoJob, copies |-> [j \in {} |-> NoJobRow], outcome |-> "none"]

WorkerTypeOK ==
    /\ job \in [Jobs -> ExecutionJobRecord]
    /\ client \in [Clients -> ClientState]
    /\ \A w \in Workers : IsWorkerState(process[w])
    /\ effects \subseteq Keys
    /\ calls \in [Jobs -> Nat]
    /\ crashes \in Nat

WorkerInit ==
    /\ job = [j \in Jobs |-> NoJobRow]
    /\ client = [c \in Clients |-> [op |-> "idle"]]
    /\ process = [w \in Workers |-> Resting]
    /\ effects = {}
    /\ calls = [j \in Jobs |-> 0]
    /\ crashes = 0

-----------------------------------------------------------------------------
(* submit_job *)

\* No job with this key: the caller goes on to insert one.  With one, it is
\* returned and nothing changes.
SelectKey(c, k) ==
    /\ client[c].op = "idle"
    /\ \A j \in Jobs : job[j].key # k
    /\ client' = [client EXCEPT ![c] = [op |-> "submit", key |-> k]]
    /\ UNCHANGED <<job, process, effects, calls, crashes>>

\* The index on idempotency_key is not unique: the INSERT always succeeds.
InsertJob(c, j) ==
    /\ client[c].op = "submit"
    /\ job[j].status = "none"
    /\ job' = [job EXCEPT ![j] = [key |-> client[c].key, status |-> "pending",
                                  attempts |-> 0, result |-> "none"]]
    /\ client' = [client EXCEPT ![c] = [op |-> "idle"]]
    /\ UNCHANGED <<process, effects, calls, crashes>>

-----------------------------------------------------------------------------
(* cancel_job *)

Cancellable(j) == job[j].status \in Open

LoadCancel(c, j) ==
    /\ client[c].op = "idle"
    /\ Cancellable(j)
    /\ client' = [client EXCEPT ![c] = [op |-> "cancel", job |-> j]]
    /\ UNCHANGED <<job, process, effects, calls, crashes>>

CommitCancelWholeRow(c) ==
    /\ client[c].op = "cancel"
    /\ job' = [job EXCEPT ![client[c].job].status = "cancelled", ![client[c].job].result = "none"]
    /\ client' = [client EXCEPT ![c] = [op |-> "idle"]]
    /\ UNCHANGED <<process, effects, calls, crashes>>
CommitCancel(c) ==
    /\ client[c].op = "cancel"
    /\ job' = [job EXCEPT ![client[c].job].status = "cancelled"]
    /\ client' = [client EXCEPT ![c] = [op |-> "idle"]]
    /\ UNCHANGED <<process, effects, calls, crashes>>

\* The request fails before its commit.
AbortClient(c) ==
    /\ client[c].op # "idle"
    /\ client' = [client EXCEPT ![c] = [op |-> "idle"]]
    /\ UNCHANGED <<job, process, effects, calls, crashes>>

-----------------------------------------------------------------------------
(* run_job and recover_pending_jobs *)

Loaded(J) == [j \in J |-> [status |-> job[j].status, attempts |-> job[j].attempts]]

\* A terminal job is returned as it is.
RunJob(w, j) ==
    /\ process[w].pc = "idle"
    /\ job[j].status \in Open
    /\ process' = [process EXCEPT ![w] = [Resting EXCEPT !.pc = "next", !.copies = Loaded({j})]]
    /\ UNCHANGED <<job, client, effects, calls, crashes>>

Recoverable == {j \in Jobs : job[j].status \in Open}

RecoverPendingJobs(w) ==
    /\ process[w].pc = "idle"
    /\ Recoverable # {}
    /\ process' = [process EXCEPT ![w] =
                    [Resting EXCEPT !.pc = "next", !.copies = Loaded(Recoverable)]]
    /\ UNCHANGED <<job, client, effects, calls, crashes>>

\* The next job of the list: the transition to running.  A copy that already
\* says running is not written.
StartJob(w, j) ==
    /\ process[w].pc = "next"
    /\ j \in DOMAIN process[w].copies
    /\ process' = [process EXCEPT ![w].pc = "loop", ![w].job = j,
                                  ![w].copies[j].status = "running"]
    /\ job' = IF process[w].copies[j].status = "running" THEN job
              ELSE [job EXCEPT ![j].status = "running"]
    /\ UNCHANGED <<client, effects, calls, crashes>>

Spent(w) == process[w].copies[process[w].job].attempts

\* attempt_count is committed before the call.
BeginAttemptUncommitted(w) ==
    /\ process[w].pc = "loop"
    /\ Spent(w) < MaxRetries + 1
    /\ process' = [process EXCEPT ![w].pc = "call", ![w].copies[process[w].job].attempts = @ + 1]
    /\ UNCHANGED <<job, client, effects, calls, crashes>>
BeginAttempt(w) ==
    /\ process[w].pc = "loop"
    /\ Spent(w) < MaxRetries + 1
    /\ process' = [process EXCEPT ![w].pc = "call", ![w].copies[process[w].job].attempts = @ + 1]
    /\ job' = [job EXCEPT ![process[w].job].attempts = Spent(w) + 1]
    /\ UNCHANGED <<client, effects, calls, crashes>>

\* The executor and the provider behind it.  "ok" means the action was carried
\* out, "failed" that it was not; the other answers leave it open.
Effect(k, o) ==
    CASE o = "ok" -> {effects \cup {k}}
      [] o = "failed" -> {effects}
      [] OTHER -> {effects, effects \cup {k}}

CallExecutor(w, o) ==
    /\ process[w].pc = "call"
    /\ effects' \in Effect(job[process[w].job].key, o)
    /\ calls' = [calls EXCEPT ![process[w].job] = @ + 1]
    /\ process' = [process EXCEPT ![w].pc = "settle", ![w].outcome = o]
    /\ UNCHANGED <<job, client, crashes>>

\* The status the answer settles the job with; "running": there are attempts
\* left (_backoff and continue).
VerdictUnknownSucceeds(o, spent) ==
    IF o \in {"ok", "unknown"} THEN "succeeded" ELSE IF o = "failed" THEN "failed"
    ELSE IF spent < MaxRetries + 1 THEN "running" ELSE "dead_letter"
Verdict(o, spent) ==
    CASE o = "ok" -> "succeeded"
      [] o = "failed" -> "failed"
      [] spent < MaxRetries + 1 -> "running"
      [] o = "unknown" -> "timed_out"
      [] OTHER -> "dead_letter"

\* The job leaves the list; an empty list ends the process's run.
Leave(w) ==
    LET rest == DOMAIN process[w].copies \ {process[w].job} IN
    process' = [process EXCEPT ![w] =
        IF rest = {} THEN Resting
        ELSE [Resting EXCEPT !.pc = "next", !.copies = [j \in rest |-> process[w].copies[j]]]]

SettleJob(w) ==
    /\ process[w].pc = "settle"
    /\ LET j == process[w].job
           o == process[w].outcome
           verdict == Verdict(o, Spent(w))
       IN  IF verdict = "running"
           THEN /\ process' = [process EXCEPT ![w].pc = "loop", ![w].outcome = "none"]
                /\ UNCHANGED job
           ELSE /\ job' = [job EXCEPT ![j].status = verdict,
                             ![j].result = IF o \in {"ok", "failed"} THEN o ELSE @]
                /\ Leave(w)
    /\ UNCHANGED <<client, effects, calls, crashes>>

\* The loop is not entered: every attempt was spent before a crash.
DeadLetterForgotten(w) ==
    /\ process[w].pc = "loop"
    /\ Spent(w) >= MaxRetries + 1
    /\ Leave(w)
    /\ UNCHANGED <<job, client, effects, calls, crashes>>
DeadLetter(w) ==
    /\ process[w].pc = "loop"
    /\ Spent(w) >= MaxRetries + 1
    /\ job' = [job EXCEPT ![process[w].job].status = "dead_letter"]
    /\ Leave(w)
    /\ UNCHANGED <<client, effects, calls, crashes>>

\* The process dies and is restarted with nothing in memory.
Crash(w) ==
    /\ process[w].pc # "idle"
    /\ crashes < MaxCrashes
    /\ crashes' = crashes + 1
    /\ process' = [process EXCEPT ![w] = Resting]
    /\ UNCHANGED <<job, client, effects, calls>>

-----------------------------------------------------------------------------

ClientRequest(c) ==
    \/ \E k \in Keys : SelectKey(c, k)
    \/ \E j \in Jobs : InsertJob(c, j) \/ LoadCancel(c, j)
    \/ CommitCancel(c) \/ AbortClient(c)

\* The steps run_job takes by itself, between executor calls.
OwnStep(w) ==
    \/ \E j \in Jobs : StartJob(w, j)
    \/ BeginAttempt(w)
    \/ SettleJob(w) \/ DeadLetter(w)

Advance(w) == OwnStep(w) \/ \E o \in Answers : CallExecutor(w, o)

WorkerNext ==
    \/ \E c \in Clients : ClientRequest(c)
    \/ \E w \in Workers :
          (\E j \in Jobs : RunJob(w, j)) \/ RecoverPendingJobs(w) \/ Advance(w) \/ Crash(w)

WorkerSpec == WorkerInit /\ [][WorkerNext]_workerVars

\* run_job is a synchronous loop and goes on.  Nothing is assumed of the
\* executor (timeout_seconds is handed to it and not enforced here) nor of who
\* calls run_job and recover_pending_jobs: the application schedules neither.
WorkerFairSpec == WorkerSpec /\ \A w \in Workers : WF_workerVars(OwnStep(w))

-----------------------------------------------------------------------------
(* Properties *)

\* With one worker process, crashes and restarts included, the executor is
\* called for a job at most max_retries + 1 times.
AttemptBudget ==
    (\A v, w \in Workers : v = w) => \A j \in Jobs : calls[j] <= MaxRetries + 1

\* A job reported as succeeded was carried out by the provider, whichever
\* process wrote the row last.
SuccessWasPerformed ==
    /\ WorkerTypeOK
    /\ \A j \in Jobs : job[j].status = "succeeded" => job[j].key \in effects

\* A job that a run has taken up is settled or cancelled in the end, at the
\* latest when its attempts are spent, those before a crash included; unless
\* the process crashes or an executor call never returns.
RunSettlesJob ==
    \A w \in Workers, j \in Jobs, n \in 0..MaxCrashes :
        j \in DOMAIN process[w].copies /\ crashes = n
            ~> \/ job[j].status \in TerminalStatus
               \/ crashes > n
               \/ [](process[w].pc = "call")

\* With one worker process: a cancellation may take the status of a job that
\* was settled after it was loaded, but never the answer recorded for it; nor
\* does a later run.
AnswerKept ==
    [][(\A v, w \in Workers : v = w) =>
          \A j \in Jobs : job[j].result # "none" => job'[j].result = job[j].result]_workerVars
=============================================================================
