---------------------------- MODULE MCSealCommit ----------------------------
(* Constants of the runs of SealCommit.                                    *)
EXTENDS SealCommit

CONSTANTS a1, b1, a2

\* An empty and a full block on the first head, and one on the next.
Tasks == {a1, b1, a2}
MinedNumber == [b \in Block |-> IF b = a2 THEN 2 ELSE 1]
=============================================================================
