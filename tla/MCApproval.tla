---- MODULE MCApproval ----
EXTENDS Approval, TLC

Symmetry == Permutations(Requests) \cup Permutations(Challenges)
====
