----------------------------- MODULE MCExecutor -----------------------------
(***************************************************************************)
(* Instances of Executor for TLC: capabilities for one target.  c1 and c2   *)
(* add, c3 stands for the operation a configuration pairs them with.         *)
(***************************************************************************)
EXTENDS Executor, TLC

CONSTANTS c1, c2, c3, t1, w1, w2, ThirdOp

Symmetry == Permutations(Workers)

OneTarget == {t1}

SameTarget == [c \in Caps |-> t1]

OpOf == [c \in Caps |-> IF c = c3 THEN ThirdOp ELSE "add"]

\* The second add outlives the first: a read-back of its element exceeds what
\* the first may attest.
UnequalTTL == [c \in Caps |-> IF c = c1 THEN 1 ELSE 2]

\* Only the first capability is valid from the start, and it lapses first.
Staggered == [c \in Caps |-> IF c = c1 THEN 0 ELSE 1]

StaggeredExpiry == [c \in Caps |-> IF c = c1 THEN 2 ELSE 3]
=============================================================================
