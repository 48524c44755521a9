------------------------------ MODULE MCReceipts ------------------------------
EXTENDS Receipts, TLC

CONSTANTS p1, p2

\* One payload without the provider's reference, one with it: the second is
\* reconciled only if the dispatch was confirmed before.
TwoClaims ==
    p1 :> [f \in Fields |-> IF f = "provider" THEN None ELSE "right"]
    @@ p2 :> [f \in Fields |-> "right"]
TwoLinks == p1 :> {"proof"} @@ p2 :> {"proof", "escrow"}
TwoOutcomes == p1 :> "succeeded" @@ p2 :> "failed"

\* _reconciliation_status against what it is meant to decide, on every payload
\* and every expected value.
ASSUME \A type \in ReconciliationType : \A claim \in [Fields -> Values] : \A ref \in Values :
    LET statuses == {Check(Expected(f, ref), claim[f], f \in Required) : f \in Compared(type)}
    IN  StatusOf(statuses) = "matched" <=> \A f \in Compared(type) : claim[f] = Expected(f, ref)
=============================================================================
