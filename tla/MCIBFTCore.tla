----------------------------- MODULE MCIBFTCore -----------------------------
(* Small networks for TLC.                                                 *)
EXTENDS IBFTCore, TLC

CONSTANTS n1, n2, n3, b1, b2

MCNode == {n1, n2, n3}
MCValSet == <<n1, n2, n3>>
MCValSetAt == [s \in Seqs |-> MCValSet]

MCPair == {n1, n2}
MCPairValSetAt == [s \in Seqs |-> <<n1, n2>>]

\* The validators change at height 2: n1 leaves, n3 comes.
MCHandoverValSetAt == [s \in Seqs |-> IF s = 1 THEN <<n1, n2>> ELSE <<n2, n3>>]

\* n1 leaves after height 1 and goes on listening and importing.
MCLeaveValSetAt == [s \in Seqs |-> IF s = 1 THEN <<n1, n2>> ELSE <<n2>>]

MCSingle == {n1}
MCSingleValSetAt == [s \in Seqs |-> <<n1>>]

MCBlock == {b1, b2}
MCNumber == [b \in MCBlock |-> 1]
MCAuthor == (b1 :> n1) @@ (b2 :> n2)
MCOneAuthor == [b \in MCBlock |-> n1]
MCSameBlocks == Permutations(MCBlock)  \* when one node is the author of both
MCHeights == (b1 :> 1) @@ (b2 :> 2)

MCOneBlock == {b1}
MCOneBlockNumber == [b \in MCOneBlock |-> 1]
MCOneBlockAuthor == [b \in MCOneBlock |-> n1]

\* Bound: the miner of n2 has its block ready before the first message goes out.
PromptMiner == pendingRequest[n2] # None \/ seq[n2] > 1 \/ \A n \in Node : events[n] = {}

\* What the safety runs tell states apart by.  Left out is what no step, a restart included,
\* reads before it is reset:
\*   - for a node that is not waiting, the PREPAREs of its view once it is Prepared,
\*     the COMMITs once it is Committed, the ROUND CHANGEs to the round it is in;
\*   - for a waiting node, state and proposer beyond what handleRequest asks of them;
\*   - the request of a node that will neither propose nor change rounds any more;
\*   - how a block with valid seals gets to the chain;
\*   - for a reliable node, whose view only grows, the messages of its view that are
\*     settled, and old messages, except a PREPREPARE whose view some node has not passed
\*     yet or may come back to.
NodeView(n) ==
    LET s == seq[n]
        r == round[n]
        w == waiting[n]
        st == state[n]
        settled == IF w THEN {}
                   ELSE {"ROUNDCHANGE"} \cup (IF st >= Prepared THEN {"PREPARE"} ELSE {})
                                        \cup (IF st = Committed THEN {"COMMIT"} ELSE {})
        back == Unreliable # {}
        matters(m) == IF m.seq = s /\ m.round = r /\ m.code # "PREPREPARE"
                      THEN m.code \notin settled
                      ELSE IF IsOld(m, s, r)
                      THEN m.code = "PREPREPARE"
                           /\ (back \/ \E k \in Node : ~IsOld(m, seq[k], round[k]))
                      ELSE TRUE
    IN  <<IF inserting[n] # None /\ inserting[n].valid
          THEN inserting[n].block ELSE inserting[n],
          IF w THEN st = AcceptRequest /\ proposer[n] = n ELSE <<st, proposer[n]>>,
          IF ~w /\ r = MaxRound /\ proposer[n] # n THEN None ELSE pendingRequest[n],
          IF "PREPARE" \in settled THEN {} ELSE prepares[n],
          IF "COMMIT" \in settled THEN {} ELSE commits[n],
          {m \in roundChangeSet[n] : w \/ m.round > r},
          IF n \in Unreliable THEN events[n] ELSE {m \in events[n] : matters(m)}>>

SafetyView ==
    <<seq, round, waiting, preprepare, locked, pendingRequests, chain, bad,
      [n \in Node |-> NodeView(n)]>>

\* With the votes, for the properties that are about them.
VotesView == <<SafetyView, votes>>
=============================================================================
