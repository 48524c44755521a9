-------------------------- MODULE MCExecutionIntents --------------------------
EXTENDS ExecutionIntents, TLC

ResourceOwned == [i \in Intents |-> "resource_owned"]

\* The table of actenon_permit as this repository's callers and tests use it: a
\* cancel from every state that is not final, outcomes of a submission also from
\* proof_issued.
Outcomes == {"succeeded", "failed", "refused", "outcome_unknown"}
Table ==
    {<<"created", "evaluating">>, <<"evaluating", "requires_approval">>,
     <<"authorised", "proof_issued">>, <<"proof_issued", "executing">>,
     <<"proof_issued", "submitted">>}
    \cup {"evaluating", "requires_approval"} \X {"authorised", "denied"}
    \cup {"executing", "submitted", "proof_issued"} \X Outcomes
    \cup {"outcome_unknown"} \X (Outcomes \ {"outcome_unknown"})
    \cup {"created", "evaluating", "requires_approval", "authorised", "proof_issued",
          "executing", "submitted", "outcome_unknown"} \X {"cancelled"}
=============================================================================
