\* Two policies activated, updated and consulted at once.
SPECIFICATION Spec
CONSTANTS
    s1 = s1  s2 = s2  p1 = p1  p2 = p2
    Sessions = {s1, s2}
    Policies = {p1, p2}
    ActionClasses <- TwoClasses
    RuleLists <- TwoRuleLists
    Defaults <- OneDefault
    Keys = {k1}
    Payloads <- TwoPayloads
    MaxSteps = 6
    None = None
SYMMETRY Interchangeable
INVARIANTS
    DecisionExplained OneDecisionPerKey
