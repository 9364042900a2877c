-------------------------------- MODULE Ledger --------------------------------
(***************************************************************************)
(* What the consensus engine promises the chain: one sequence of blocks    *)
(* that every node copies block by block.  A node may be behind, but never *)
(* on another branch, and it never takes back a block it has written.      *)
(***************************************************************************)
EXTENDS Integers, Sequences

CONSTANTS Node, Block, Number

VARIABLE ledger     \* ledger[n]: the blocks node n has written, from height 1

Init == ledger = [n \in Node |-> <<>>]

\* Node n writes b on its head: the block of the others at that height, if any.
Extend(n, b) ==
    /\ Number[b] = Len(ledger[n]) + 1
    /\ \A p \in Node : Len(ledger[p]) >= Number[b] => ledger[p][Number[b]] = b
    /\ ledger' = [ledger EXCEPT ![n] = Append(@, b)]

Next == \E n \in Node, b \in Block : Extend(n, b)

Spec == Init /\ [][Next]_ledger
===============================================================================
