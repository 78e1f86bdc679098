----------------------------- MODULE Capability -----------------------------
(***************************************************************************)
(* The vocabulary of src/internal/enforcement/capability: operations a       *)
(* signed capability may name, and the shape of the signed result that       *)
(* settles it.  Identities, digests and signatures are carried by the        *)
(* capability's own value; a result is told apart from another one for the   *)
(* same capability by the executor boot that signed it.                      *)
(***************************************************************************)
EXTENDS Naturals

Operations == {"add", "revoke", "inspect"}

Classifications ==
    {"applied", "recovered_active", "revoked", "inspect_active",
     "inspect_absent", "inspect_mismatch", "failed", "indeterminate"}

ExitClasses == {"success", "not_invoked", "nonzero", "timeout", "signaled"}

ReadbackStates == {"active", "absent", "mismatch", "unavailable"}

Result == [class : Classifications, exit : ExitClasses,
           readback : ReadbackStates, boot : Nat]

\* validClassification
ClassificationsOf(op) ==
    {"failed", "indeterminate"} \union
    (CASE op = "add"     -> {"applied", "recovered_active"}
       [] op = "revoke"  -> {"revoked"}
       [] op = "inspect" -> {"inspect_active", "inspect_absent", "inspect_mismatch"})

\* checkOutcome: the exit class and read-back each success must carry.
OutcomeChecked(r) ==
    /\ r.class = "applied" => r.exit = "success" /\ r.readback = "active"
    /\ r.class = "recovered_active" => r.exit = "not_invoked" /\ r.readback = "active"
    /\ r.class \in {"revoked", "inspect_absent"} =>
          r.exit \in {"success", "not_invoked"} /\ r.readback = "absent"
    /\ r.class = "inspect_active" => r.exit = "success" /\ r.readback = "active"
    /\ r.class = "inspect_mismatch" => r.exit = "success" /\ r.readback = "mismatch"

\* checkResultValue, less the bound on the assessment interval.
ResultChecked(op, r) == r.class \in ClassificationsOf(op) /\ OutcomeChecked(r)

\* Recovery.SignResult: what may be attested for a capability that was only
\* ever started.
RecoverySignable(op, r) ==
    op \in {"add", "revoke"} =>
        /\ r.class \in {"failed", "indeterminate"} \union
                       (IF op = "add" THEN {"recovered_active"} ELSE {"revoked"})
        /\ r.exit = "not_invoked"
=============================================================================
