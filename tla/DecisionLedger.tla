--------------------------- MODULE DecisionLedger ---------------------------
(***************************************************************************)
(* What the audited decision path promises: every check gets at most one   *)
(* entry in a ledger that only grows, and nobody is told "allow" unless    *)
(* the ledger already says so (O-002).  A "deny" may be told at any time,  *)
(* recorded or not.                                                        *)
(***************************************************************************)
EXTENDS Sequences, Naturals

CONSTANTS
    Checks,       \* authorization checks
    Mutations     \* policy mutations, recorded in the same ledger

VARIABLES
    ledger,       \* entries [who, decision], oldest first
    told          \* told[c]: what the gateway was told, "none" so far

vars == <<ledger, told>>

Recorded(who) == \E i \in DOMAIN ledger : ledger[i].who = who

Init ==
    /\ ledger = <<>>
    /\ told = [c \in Checks |-> "none"]

Record(who, decision) ==
    /\ ~Recorded(who)
    /\ ledger' = Append(ledger, [who |-> who, decision |-> decision])
    /\ UNCHANGED told

Allow(c) ==
    /\ told[c] = "none"
    /\ \E i \in DOMAIN ledger : ledger[i] = [who |-> c, decision |-> "allow"]
    /\ told' = [told EXCEPT ![c] = "allow"]
    /\ UNCHANGED ledger

Deny(c) ==
    /\ told[c] = "none"
    /\ told' = [told EXCEPT ![c] = "deny"]
    /\ UNCHANGED ledger

Next ==
    \/ \E c \in Checks : Allow(c) \/ Deny(c)
    \/ \E c \in Checks, d \in {"allow", "deny"} : Record(c, d)
    \/ \E m \in Mutations : Record(m, "mutation")

Spec == Init /\ [][Next]_vars

=============================================================================
