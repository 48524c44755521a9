---------------------------- MODULE ApprovalBallot ----------------------------
(***************************************************************************)
(* What the approval workflow promises to those who read a request.        *)
(*                                                                         *)
(* A request that is open collects one decision per eligible principal.    *)
(* It may be called satisfied only by an approval that completes the       *)
(* quorum, and rejected only by a rejection.  Requests that overlap may    *)
(* overwrite each other's verdict, so a closed request may change from one *)
(* closed status to another; it never opens again and its decisions are    *)
(* never taken back.                                                       *)
(***************************************************************************)
EXTENDS Naturals, FiniteSets

CONSTANTS Intents, Principals, Eligible, RequiredCount

VARIABLES status, decisions

Decision == [by : Principals, decision : {"approve", "reject"}]

Approvers(D) == {d.by : d \in {e \in D : e.decision = "approve"}}

Quorum(i, D) == Cardinality(Approvers(D)) >= RequiredCount[i]

BallotInit ==
    /\ status = [i \in Intents |-> "none"]
    /\ decisions = [i \in Intents |-> {}]

Open(i) ==
    /\ RequiredCount[i] # 0
    /\ status[i] = "none"
    /\ status' = [status EXCEPT ![i] = "pending"]
    /\ UNCHANGED decisions

\* The verdicts a decision that completes D may leave behind: the one before,
\* its own, or the expiry it noticed.
Verdicts(i, d, D) ==
    {status[i], "expired"}
    \cup (IF d.decision = "reject" THEN {"rejected"} ELSE {})
    \cup (IF d.decision = "approve" /\ Quorum(i, D) THEN {"satisfied"} ELSE {})

Vote(i, d) ==
    /\ status[i] # "none"
    /\ d.by \in Eligible[i]
    /\ \A e \in decisions[i] : e.by # d.by
    /\ decisions' = [decisions EXCEPT ![i] = @ \cup {d}]
    /\ \E v \in Verdicts(i, d, decisions[i] \cup {d}) : status' = [status EXCEPT ![i] = v]

Expire(i) ==
    /\ status[i] # "none"
    /\ status' = [status EXCEPT ![i] = "expired"]
    /\ UNCHANGED decisions

BallotNext ==
    \E i \in Intents : Open(i) \/ Expire(i) \/ \E d \in Decision : Vote(i, d)

BallotSpec == BallotInit /\ [][BallotNext]_<<status, decisions>>
=============================================================================
