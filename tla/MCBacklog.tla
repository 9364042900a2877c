------------------------------ MODULE MCBacklog ------------------------------
(* Small backlogs for TLC.                                                 *)
EXTENDS Backlog, TLC

CONSTANTS p1, p2

MCPeer == {p1, p2}
\* p2 is no validator of the last height.
MCValidatorsAt == [s \in Seqs |-> IF s = LastSeq THEN {p1} ELSE MCPeer]

MCOnePeer == {p1}
MCOneValidatorAt == [s \in Seqs |-> MCOnePeer]
=============================================================================
