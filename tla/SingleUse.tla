----------------------------- MODULE SingleUse ------------------------------
(***************************************************************************)
(* What the executor promises the dispatcher for each capability: it is      *)
(* spent before it is used, used at most once, settled by one verdict for    *)
(* ever, and every answer is that verdict.                                   *)
(***************************************************************************)
EXTENDS Capability

CONSTANTS Caps, NoResult

VARIABLES
    phase,      \* phase[c]: "fresh", "spent" or "settled"
    used,       \* used[c]: times the capability mutated the owned set
    verdict,    \* verdict[c]: its one signed result, NoResult until settled
    answers     \* answers[c]: results ever returned for it

contractVars == <<phase, used, verdict, answers>>

ContractInit ==
    /\ phase = [c \in Caps |-> "fresh"]
    /\ used = [c \in Caps |-> 0]
    /\ verdict = [c \in Caps |-> NoResult]
    /\ answers = [c \in Caps |-> {}]

Spend(c) ==
    /\ phase[c] = "fresh"
    /\ phase' = [phase EXCEPT ![c] = "spent"]
    /\ UNCHANGED <<used, verdict, answers>>

Use(c) ==
    /\ phase[c] = "spent"
    /\ used[c] = 0
    /\ used' = [used EXCEPT ![c] = 1]
    /\ UNCHANGED <<phase, verdict, answers>>

\* One verdict for c, of any content; one that claims a mutation needs one.
Settle(c) ==
    /\ phase[c] = "spent"
    /\ verdict'[c] \in Result
    /\ verdict'[c].class = "applied" => used[c] = 1
    /\ verdict' = [verdict EXCEPT ![c] = verdict'[c]]
    /\ phase' = [phase EXCEPT ![c] = "settled"]
    /\ UNCHANGED <<used, answers>>

Answer(c) ==
    /\ phase[c] = "settled"
    /\ answers' = [answers EXCEPT ![c] = @ \union {verdict[c]}]
    /\ UNCHANGED <<phase, used, verdict>>

ContractNext ==
    \E c \in Caps : Spend(c) \/ Use(c) \/ Settle(c) \/ Answer(c)

ContractSpec == ContractInit /\ [][ContractNext]_contractVars
=============================================================================
