--------------------------- MODULE CapabilityLedger ---------------------------
(***************************************************************************)
(* What capability escrow promises, with requests, sessions, tables and    *)
(* clocks left out: a capability is held, released under a key that no     *)
(* other capability has, used at most once, and void for good once it is   *)
(* void.  A used capability can still be voided; nothing else follows use. *)
(***************************************************************************)
CONSTANTS Capabilities, Keys, NoKey

VARIABLES phase, key

ledgerVars == <<phase, key>>

Phases == {"absent", "held", "released", "used", "void"}

LedgerTypeOK ==
    /\ phase \in [Capabilities -> Phases]
    /\ key \in [Capabilities -> Keys \cup {NoKey}]

LedgerInit ==
    /\ phase = [c \in Capabilities |-> "absent"]
    /\ key = [c \in Capabilities |-> NoKey]

Hold(c) ==
    /\ phase[c] = "absent"
    /\ phase' = [phase EXCEPT ![c] = "held"]
    /\ UNCHANGED key

Release(c, k) ==
    /\ phase[c] = "held"
    /\ \A d \in Capabilities : key[d] # k
    /\ phase' = [phase EXCEPT ![c] = "released"]
    /\ key' = [key EXCEPT ![c] = k]

Use(c) ==
    /\ phase[c] = "released"
    /\ phase' = [phase EXCEPT ![c] = "used"]
    /\ UNCHANGED key

\* One transaction may void several capabilities: a listing expires every
\* record it reads.
VoidAll(S) ==
    /\ \A c \in S : phase[c] # "absent"
    /\ phase' = [c \in Capabilities |-> IF c \in S THEN "void" ELSE phase[c]]
    /\ UNCHANGED key

LedgerNext ==
    \/ \E c \in Capabilities : Hold(c) \/ Use(c)
    \/ \E c \in Capabilities, k \in Keys : Release(c, k)
    \/ \E S \in SUBSET Capabilities : VoidAll(S)

LedgerSpec == LedgerInit /\ [][LedgerNext]_ledgerVars
=============================================================================
