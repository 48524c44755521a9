------------------------------- MODULE MCIntake -------------------------------
EXTENDS Intake, SequencesExt

CONSTANTS s1, s2, p1, p2

Rule(priority, conditions, decision, approval, evidence) ==
    [priority |-> priority, all_conditions |-> conditions, decision |-> decision,
     approval |-> approval, evidence |-> evidence]
Condition(field, operator, value) ==
    [field |-> field, operator |-> operator, value |-> value]

\* Both lists have a rule that matches the first payload behind one, by position
\* or by priority, that must not hide it.
Limits ==
    << Rule(100, <<Condition("amount", "gt", 5)>>, "approval_required", FALSE, FALSE),
       Rule(50, <<Condition("amount", "gte", 9), Condition("country", "in", {"GB", "IE"})>>,
            "deny", FALSE, FALSE),
       Rule(100, <<Condition("amount", "lte", 7)>>, "allow", FALSE, FALSE) >>
Reviews ==
    << Rule(10, <<Condition("risk", "exists", None)>>, "deny", FALSE, FALSE),
       Rule(20, <<Condition("country", "not_equals", "US"), Condition("amount", "lt", 9)>>,
            "needs_evidence", TRUE, FALSE) >>
TwoRuleLists == {Limits, Reviews}

TwoClasses == {{"payout"}, {"transfer"}}
OneDefault == {"allow"}

Sent(class, routing, source, fields) ==
    [contract |-> "valid", workflow |-> "treasury", profile |-> "treasury", class |-> class,
     routing |-> routing, source |-> source, destination |-> "b", fields |-> fields]

\* One payload that policies govern, one whose routing hint contradicts it.
TwoPayloads ==
    {Sent("payout", None, "a", [amount |-> 7, country |-> "GB"]),
     Sent("payout", "transfer", "a", [amount |-> 7])}

\* Neither requests nor policies are told apart by anything but their rows.
Interchangeable == Permutations({s1, s2}) \cup Permutations({p1, p2})

\* FirstMatch against the code's order: sorted by priority, ties by position, and
\* the first whose conditions all hold.
Ordered(rules) ==
    SortSeq([n \in DOMAIN rules |-> n],
            LAMBDA n, m : \/ rules[n].priority < rules[m].priority
                          \/ rules[n].priority = rules[m].priority /\ n < m)
SomeFields ==
    {[amount |-> a, country |-> c] : a \in 4..10, c \in {"GB", "US"}}
    \cup {[amount |-> a, risk |-> 1] : a \in 4..10} \cup {[country |-> "IE"]}

ASSUME \A rules \in TwoRuleLists : \A fields \in SomeFields :
    LET hits == SelectSeq(Ordered(rules), LAMBDA n : Matches(rules[n], fields))
    IN  FirstMatch(rules, fields) = IF hits = <<>> THEN 0 ELSE Head(hits)
=============================================================================
