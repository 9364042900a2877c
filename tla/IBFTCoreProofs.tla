--------------------------- MODULE IBFTCoreProofs ---------------------------
(***************************************************************************)
(* Machine-checked proofs about IBFTCore, for every network and bound.     *)
(*                                                                         *)
(* The argument for agreement: a reliable node that COMMITs holds a lock   *)
(* on the block until it leaves the height (LockInv), so it never COMMITs  *)
(* to two blocks of a height (NoDoubleVote); a block that is written has   *)
(* the COMMITs of a quorum in one round (ChainInv); two quorums share a    *)
(* reliable node.                                                          *)
(***************************************************************************)
EXTENDS IBFTInvariant, FiniteSetTheorems

-----------------------------------------------------------------------------
(* Quorums.                                                                *)

\* The validators of a height are as many as their list is long, and finitely many.
LEMMA ValidatorsFinite ==
    ASSUME NEW s \in Seqs
    PROVE  IsFiniteSet(Validators[s]) /\ Cardinality(Validators[s]) = Size[s]
<1> DEFINE N == Len(ValSetAt[s])
           l == ValSetAt[s]
           f == [i \in 1 .. N |-> l[i]]
<1>1. /\ N \in Nat \ {0}
      /\ \A i, j \in 1 .. N : l[i] = l[j] => i = j
  BY ValSetAssumption
<1>2. Validators[s] = {l[i] : i \in 1 .. N} /\ Size[s] = N
  BY DEF Validators, Size
<1> HIDE DEF N, l
<1>3. f \in Bijection(1 .. N, Validators[s])
  <2> DEFINE T == {l[i] : i \in 1 .. N}
  <2>1. f \in [1 .. N -> T] /\ \A a \in T : \E i \in 1 .. N : f[i] = a
    OBVIOUS
  <2>2. \A i, j \in 1 .. N : f[i] = f[j] => i = j
    BY <1>1
  <2> HIDE DEF f, T
  <2>3. f \in Bijection(1 .. N, T)
    BY <2>1, <2>2, Zenon DEF Bijection, Injection, Surjection, IsInjective
  <2> QED
    BY <1>2, <2>3, Zenon DEF T
<1>4. ExistsBijection(1 .. N, Validators[s])
  BY <1>3, Zenon DEF ExistsBijection
<1>5. IsFiniteSet(1 .. N) /\ Cardinality(1 .. N) = N
  BY <1>1, FS_Interval
<1>6. IsFiniteSet(Validators[s]) /\ Cardinality(Validators[s]) = N
  BY <1>4, <1>5, FS_Bijection
<1> QED
  BY <1>2, <1>6

\* No more validators of a height may forget than the engine tolerates.
FewUnreliable ==
    \A s \in Seqs : Cardinality(Unreliable \cap Validators[s]) <= F[s]

\* Quorums overlap in more than F nodes: always for ceil(2N/3), which the shipped
\* configurations use from block 0; for 2F + 1 only when N = 3F + 1.
QuorumsOverlap == \A s \in Seqs : s >= Ceil2Nby3Block \/ Size[s] % 3 = 1

\* The arithmetic of QuorumSize and F.
LEMMA QuorumArithmetic ==
    ASSUME NEW s \in Seqs
    PROVE  /\ F[s] \in Nat /\ QuorumSize[s] \in Nat \ {0}
           /\ (s >= Ceil2Nby3Block \/ Size[s] % 3 = 1)
                => 2 * QuorumSize[s] - Size[s] > F[s]
<1>1. Size[s] \in Nat \ {0} /\ s \in Nat /\ Ceil2Nby3Block \in Nat
  BY ValidatorsSize, BoundsAssumption DEF Seqs
<1>2. PICK k \in Nat, j \in 0 .. 2 : Size[s] = 3 * k + j
  <2>1. Size[s] = 3 * (Size[s] \div 3) + (Size[s] % 3)
    BY <1>1
  <2>2. Size[s] \div 3 \in Nat /\ Size[s] % 3 \in 0 .. 2
    BY <1>1
  <2> QED
    BY <2>1, <2>2
<1>3. F[s] = ((Size[s] + 2) \div 3) - 1
  BY DEF F
<1>4. QuorumSize[s] = IF s < Ceil2Nby3Block THEN 2 * F[s] + 1 ELSE (2 * Size[s] + 2) \div 3
  BY DEF QuorumSize
<1>5. CASE j = 0
  BY <1>1, <1>2, <1>3, <1>4, <1>5
<1>6. CASE j = 1
  BY <1>1, <1>2, <1>3, <1>4, <1>6
<1>7. CASE j = 2
  BY <1>1, <1>2, <1>3, <1>4, <1>7
<1>8. j = 0 \/ j = 1 \/ j = 2
  OBVIOUS
<1> QED
  BY <1>5, <1>6, <1>7, <1>8, Zenon

\* Two quorums of a height share a validator that keeps its memory.
LEMMA ReliableOverlap ==
    ASSUME FewUnreliable, QuorumsOverlap, NEW s \in Seqs,
           NEW P \in SUBSET Validators[s], Cardinality(P) >= QuorumSize[s],
           NEW Q \in SUBSET Validators[s], Cardinality(Q) >= QuorumSize[s]
    PROVE  \E q \in P \cap Q : q \notin Unreliable
<1>1. IsFiniteSet(Validators[s]) /\ Cardinality(Validators[s]) = Size[s] /\ Size[s] \in Nat
  BY ValidatorsSize, ValidatorsFinite
<1>2. IsFiniteSet(P) /\ IsFiniteSet(Q) /\ IsFiniteSet(P \cup Q) /\ IsFiniteSet(P \cap Q)
      /\ Cardinality(P \cup Q) <= Size[s]
  <2>1. P \cup Q \in SUBSET Validators[s] /\ P \cap Q \in SUBSET Validators[s]
    OBVIOUS
  <2> QED
    BY <1>1, <2>1, FS_Subset
<1>3. Cardinality(P \cup Q) = Cardinality(P) + Cardinality(Q) - Cardinality(P \cap Q)
  BY <1>2, FS_Union
<1>4. /\ Cardinality(P) \in Nat /\ Cardinality(Q) \in Nat /\ Cardinality(P \cup Q) \in Nat
      /\ Cardinality(P \cap Q) \in Nat
  BY <1>2, FS_CardinalityType
<1>5. F[s] \in Nat /\ QuorumSize[s] \in Nat /\ 2 * QuorumSize[s] - Size[s] > F[s]
  BY QuorumArithmetic DEF QuorumsOverlap
<1>6. Cardinality(P \cap Q) > F[s]
  BY <1>1, <1>2, <1>3, <1>4, <1>5
<1>7. SUFFICES ASSUME P \cap Q \subseteq Unreliable PROVE FALSE
  OBVIOUS
<1>8. /\ IsFiniteSet(Unreliable \cap Validators[s])
      /\ P \cap Q \in SUBSET (Unreliable \cap Validators[s])
  <2>1. IsFiniteSet(Unreliable \cap Validators[s])
    <3> DEFINE U == Unreliable \cap Validators[s]
    <3>1. U \in SUBSET Validators[s]
      OBVIOUS
    <3> HIDE DEF U
    <3> QED
      BY <1>1, <3>1, FS_Subset, Zenon DEF U
  <2> QED
    BY <1>7, <2>1, Zenon
<1>9. Cardinality(P \cap Q) <= Cardinality(Unreliable \cap Validators[s])
  BY <1>8, FS_Subset
<1>10. Cardinality(Unreliable \cap Validators[s]) \in Nat
  BY <1>8, FS_CardinalityType
<1>11. Cardinality(Unreliable \cap Validators[s]) <= F[s]
  BY Zenon DEF FewUnreliable
<1> QED
  BY <1>4, <1>5, <1>6, <1>9, <1>10, <1>11

\* COMMITs of distinct senders are as many as their senders.
LEMMA DistinctSenders ==
    ASSUME NEW cs, IsFiniteSet(cs), \A c, d \in cs : c.src = d.src => c = d
    PROVE  Cardinality({c.src : c \in cs}) = Cardinality(cs)
<1> DEFINE f == [c \in cs |-> c.src]
           T == {c.src : c \in cs}
<1>1. f \in [cs -> T] /\ (\A c, d \in cs : f[c] = f[d] => c = d)
      /\ \A t \in T : \E c \in cs : f[c] = t
  OBVIOUS
<1> HIDE DEF f, T
<1>2. f \in Bijection(cs, T)
  BY <1>1, Zenon DEF Bijection, Injection, Surjection, IsInjective
<1>3. ExistsBijection(cs, T)
  BY <1>2, Zenon DEF ExistsBijection
<1> QED
  BY <1>3, FS_Bijection DEF T

\* COMMITs of distinct validators of a height are finitely many.
LEMMA CommitsFinite ==
    ASSUME NEW s \in Seqs, NEW cs, \A c \in cs : c.src \in Validators[s],
           \A c, d \in cs : c.src = d.src => c = d
    PROVE  IsFiniteSet(cs)
<1> DEFINE f == [c \in cs |-> c.src]
<1>1. f \in [cs -> Validators[s]] /\ \A c, d \in cs : f[c] = f[d] => c = d
  OBVIOUS
<1> HIDE DEF f
<1>2. f \in Injection(cs, Validators[s])
  BY <1>1, Zenon DEF Injection, IsInjective
<1> QED
  BY <1>2, ValidatorsFinite, FS_Injection

-----------------------------------------------------------------------------
(* One decision a height.                                                  *)

\* Two decisions of a height are one, as their quorums share a reliable node.
LEMMA DecidedUnique ==
    ASSUME FewUnreliable, QuorumsOverlap, NoDoubleVote, NEW h \in Seqs, NEW a, NEW b,
           Decided(votes, h, a), Decided(votes, h, b)
    PROVE  a = b
<1>1. PICK ra \in Rounds, P \in SUBSET Validators[h] :
         /\ Cardinality(P) >= QuorumSize[h]
         /\ \A q \in P : CommitMsg(q, h, ra, a, a) \in votes
  BY DEF Decided
<1>2. PICK rb \in Rounds, Q \in SUBSET Validators[h] :
         /\ Cardinality(Q) >= QuorumSize[h]
         /\ \A q \in Q : CommitMsg(q, h, rb, b, b) \in votes
  BY DEF Decided
<1>3. PICK q \in P \cap Q : q \notin Unreliable
  BY <1>1, <1>2, ReliableOverlap
<1>4. CommitMsg(q, h, ra, a, a) \in votes /\ CommitMsg(q, h, rb, b, b) \in votes
  BY <1>1, <1>2, <1>3
<1> QED
  BY <1>3, <1>4 DEF NoDoubleVote, CommitMsg, Msg

\* Two written blocks of a height are decided, and only one can be.
LEMMA InvAgreement ==
    ASSUME FewUnreliable, QuorumsOverlap, Inv
    PROVE  Agreement
<1> SUFFICES ASSUME NEW n \in Node, NEW p \in Node, NEW h \in 1 .. Height(n), h <= Height(p)
             PROVE  chain[n][h].block = chain[p][h].block
  BY DEF Agreement
<1>1. h \in Seqs /\ h \in 1 .. Height(p)
  <2>1. Height(n) \in 0 .. MaxSeq /\ Height(p) \in 0 .. MaxSeq
    BY HeightBound
  <2> QED
    BY <2>1, BoundsAssumption DEF Seqs
<1>2. Decided(votes, h, chain[n][h].block) /\ Decided(votes, h, chain[p][h].block)
  BY <1>1, Zenon DEF Inv, ChainInv, WrittenInv
<1> QED
  BY <1>1, <1>2, DecidedUnique DEF Inv

\* Writing a decided block is the ledger's one action.
LEMMA LedgerExtends ==
    ASSUME FewUnreliable, QuorumsOverlap, Inv, NEW n \in Node,
           NEW e \in [block : Block, valid : BOOLEAN], Number[e.block] = Height(n) + 1,
           Decided(votes, Height(n) + 1, e.block),
           chain' = [chain EXCEPT ![n] = Append(@, e)]
    PROVE  L!Next
<1> DEFINE Entry == [block : Block, valid : BOOLEAN]
           b == e.block
           h == Height(n) + 1
<1>1. chain \in [Node -> Seq(Entry)] /\ e \in Entry /\ b \in Block
  BY Zenon DEF Inv, TypeOK, ChainTypes
<1>2. /\ chain'[n] = Append(chain[n], e) /\ Len(chain[n]) \in Nat
      /\ Len(chain'[n]) = Len(chain[n]) + 1 /\ chain'[n][Len(chain[n]) + 1] = e
      /\ \A j \in 1 .. Len(chain[n]) : chain'[n][j] = chain[n][j]
      /\ \A k \in Node \ {n} : chain'[k] = chain[k]
  <2> HIDE DEF Entry
  <2> QED
    BY <1>1
<1>3. Written[n] \in Seq(Block) /\ Len(Written[n]) = Height(n)
  <2>1. \A j \in 1 .. Len(chain[n]) : chain[n][j].block \in Block
    <3>1. \A j \in 1 .. Len(chain[n]) : chain[n][j] \in Entry
      <4> HIDE DEF Entry
      <4> QED
        BY <1>1
    <3> QED
      BY <3>1
  <2> QED
    BY <1>2, <2>1 DEF Written, Height
<1>4. Written' = [Written EXCEPT ![n] = Append(@, b)]
  <2>1. Append(Written[n], b) = [j \in 1 .. Len(chain'[n]) |-> chain'[n][j].block]
    BY <1>2, <1>3 DEF Written, Height
  <2>2. /\ Written' = [k \in Node |-> [j \in 1 .. Len(chain'[k]) |-> chain'[k][j].block]]
        /\ Written = [k \in Node |-> [j \in 1 .. Len(chain[k]) |-> chain[k][j].block]]
    BY DEF Written, Height
  <2>3. Written'[n] = Append(Written[n], b)
    BY <2>1, <2>2
  <2>4. \A k \in Node \ {n} : Written'[k] = Written[k]
    BY <1>2, <2>2
  <2>5. Written' = [k \in Node |-> Written'[k]] /\ Written = [k \in Node |-> Written[k]]
    BY <2>2
  <2> DEFINE W == Written
             X == Append(Written[n], b)
  <2>6. W' = [k \in Node |-> W'[k]] /\ W = [k \in Node |-> W[k]]
    BY <2>5
  <2>7. W'[n] = X /\ \A k \in Node \ {n} : W'[k] = W[k]
    BY <2>3, <2>4, Zenon
  <2> HIDE DEF b, W, X
  <2>8. W' = [W EXCEPT ![n] = X]
    BY <2>6, <2>7
  <2> QED
    BY <2>8 DEF W, X
<1>5. ASSUME NEW p \in Node, Len(Written[p]) >= h PROVE Written[p][h] = b
  <2>1. Len(chain[p]) \in Nat /\ Written[p] = [j \in 1 .. Len(chain[p]) |-> chain[p][j].block]
    BY <1>1 DEF Written, Height
  <2>2. Len(Written[p]) = Len(chain[p])
    BY <2>1
  <2>3. h \in 1 .. Height(p)
    BY <1>2, <1>5, <2>1, <2>2 DEF Height
  <2>4. h \in Seqs
    BY <2>3, HeightBound, BoundsAssumption DEF Seqs
  <2>5. Decided(votes, h, chain[p][h].block) /\ Decided(votes, h, b) /\ NoDoubleVote
    BY <2>3, Zenon DEF Inv, ChainInv, WrittenInv
  <2>6. chain[p][h].block = b
    <3> DEFINE c == chain[p][h].block
    <3>1. Decided(votes, h, c)
      BY <2>5
    <3> HIDE DEF h, b, c
    <3> QED
      BY <2>4, <2>5, <3>1, DecidedUnique, Zenon DEF c
  <2> QED
    BY <2>1, <2>3, <2>6 DEF Height
<1>6. L!Extend(n, b)
  BY <1>3, <1>4, <1>5 DEF L!Extend
<1> QED
  BY <1>1, <1>6 DEF L!Next

\* COMMITs of distinct validators of a height are as many as their senders.
LEMMA SendersCounted == SendersCount
<1> SUFFICES ASSUME NEW s \in Seqs, NEW cs \in SUBSET Message,
                    \A c \in cs : c.src \in Validators[s],
                    \A c, d \in cs : c.src = d.src => c = d
             PROVE  Cardinality({c.src : c \in cs}) = Cardinality(cs)
  BY DEF SendersCount
<1>1. IsFiniteSet(cs)
  BY CommitsFinite
<1> QED
  BY <1>1, DistinctSenders

-----------------------------------------------------------------------------
(* The invariant.                                                          *)

\* The invariant holds when the cores start on the genesis block.
LEMMA InitInv == Init => Inv
<1> SUFFICES ASSUME Init PROVE Inv
  OBVIOUS
<1>1. 1 \in Seqs /\ 0 \in Rounds
  BY BoundsAssumption DEF Seqs, Rounds
<1>2. RoundRobinProposer(1, None, 0) \in Validators[1] /\ Validators[1] \subseteq Node
  BY <1>1, ProposerIsValidator, ValidatorsSize
<1>3. TypeOK
  <2>1. ViewTypes
    <3>1. /\ seq = [n \in Node |-> 1] /\ round = [n \in Node |-> 0]
          /\ state = [n \in Node |-> AcceptRequest] /\ waiting = [n \in Node |-> FALSE]
          /\ proposer = [n \in Node |-> RoundRobinProposer(1, None, 0)]
      BY Zenon DEF Init
    <3>2. /\ seq \in [Node -> Seqs] /\ round \in [Node -> Rounds]
          /\ state \in [Node -> AcceptRequest .. Committed] /\ waiting \in [Node -> BOOLEAN]
      BY <1>1, <3>1 DEF AcceptRequest, Committed
    <3>3. proposer \in [Node -> Node] /\ \A n \in Node : proposer[n] \in Validators[seq[n]]
      BY <1>2, <3>1
    <3> QED
      BY <3>2, <3>3, Zenon DEF ViewTypes
  <2>2. RoundTypes
    BY DEF Init, RoundTypes
  <2>3. MessageTypes
    BY DEF Init, MessageTypes
  <2>4. ChainTypes
    <3>1. chain \in [Node -> Seq([block : Block, valid : BOOLEAN])]
      BY DEF Init
    <3>2. inserting \in [Node -> [block : Block, valid : BOOLEAN, verify : BOOLEAN] \cup {None}]
      BY DEF Init
    <3>3. bad \in [Node -> SUBSET Block]
      BY DEF Init
    <3> QED
      BY <3>1, <3>2, <3>3, Zenon DEF ChainTypes
  <2> QED
    BY <2>1, <2>2, <2>3, <2>4, Zenon DEF TypeOK
<1>4. \A n \in Node : /\ preprepare[n] = None /\ locked[n] = None /\ pendingRequest[n] = None
                      /\ prepares[n] = {} /\ commits[n] = {} /\ roundChangeSet[n] = {}
                      /\ events[n] = {} /\ bad[n] = {}
  BY DEF Init
<1>5. MessageInv /\ RoundStateInv /\ LockedProposal
  BY <1>4, Zenon DEF MessageInv, RoundStateInv, RoundStateOf, LockedProposal
<1>6. CountsCurrentView
  BY <1>4 DEF CountsCurrentView, CountsCurrent
<1>7. WrittenInv
  BY DEF Init, WrittenInv, Height
<1>8. InsertingInv
  BY DEF Init, InsertingInv
<1>9. VoteInv /\ LockInv /\ NoDoubleVote
  <2>1. votes = {}
    BY Zenon DEF Init
  <2> QED
    BY <1>4, <2>1, Zenon DEF VoteInv, LockInv, VotesKept, NoDoubleVote
<1> QED
  BY <1>3, <1>5, <1>6, <1>7, <1>8, <1>9, Zenon DEF Inv, ChainInv

\* Every step of the system preserves the invariant.
LEMMA NextInv == Inv /\ [Next]_vars => Inv'
<1> SUFFICES ASSUME Inv, [Next]_vars PROVE Inv'
  OBVIOUS
<1>1. CASE UNCHANGED vars
  <2>1. TypeOK'
    BY <1>1, Zenon DEF Inv, TypeOK, ViewTypes, RoundTypes, MessageTypes, ChainTypes,
                       vars, roundVars, chainVars
  <2>2. UNCHANGED <<coreVars, events, bad, votes>> /\ UNCHANGED <<chainVars, votes>>
    BY <1>1, Zenon DEF vars, coreVars, roundVars, chainVars
  <2>3. GrowsOnly /\ ChainInv'
    BY <2>2, SilentStep, Zenon
  <2> QED
    BY <2>1, <2>2, <2>3, CoreIdle, Zenon
<1>2. ASSUME NEW n \in Node, NodeStep(n) PROVE Inv'
  <2>1. ASSUME NEW m \in events[n], HandleMsg(n, m) PROVE Inv'
    <3>1. CASE HandleUnauthorized(n, m) \/ DropOwnFuture(n, m)
      BY <3>1, DiscardStep DEF HandleUnauthorized, DropOwnFuture
    <3> QED
      BY <2>1, <3>1, OldPreprepareStep, PreprepareStep, PrepareStep, CommitStep, SendersCounted,
         RoundChangeMsgStep, Zenon DEF HandleMsg
  <2>2. ASSUME HandlePendingRequest(n) PROVE Inv'
    <3>1. PICK b \in pendingRequests[n] :
             Number[b] = seq[n] /\ Propose(n, b, pendingRequests[n] \ {b})
      BY <2>2 DEF HandlePendingRequest
    <3> DEFINE others == pendingRequests[n] \ {b}
    <3>2. b \in Block /\ others \in SUBSET Block /\ Propose(n, b, others)
      BY <3>1 DEF Inv, TypeOK, MessageTypes
    <3> HIDE DEF others
    <3> QED
      BY <3>1, <3>2, ProposeStep, Zenon
  <2>3. ASSUME HandleFinalCommitted(n) PROVE Inv'
    <3> DEFINE own == events[n]
    <3>1. own \in SUBSET events[n] /\ NewSequence(n, own)
      BY <2>3 DEF HandleFinalCommitted
    <3> HIDE DEF own
    <3> QED
      BY <3>1, NewSequenceStep, Zenon
  <2> QED
    BY <1>2, <2>1, <2>2, <2>3, RequestStep, TimeoutStep, InsertStep, ImportStep, Zenon
    DEF NodeStep
<1>3. ASSUME NEW n \in Node, FaultStep(n) PROVE Inv'
  BY <1>3, RestartStep, BadBlockStep, Zenon DEF FaultStep
<1> QED
  BY <1>1, <1>2, <1>3 DEF Next

\* The invariant holds of every state the network reaches.
THEOREM Invariant == Spec => []Inv
BY InitInv, NextInv, PTL DEF Spec

\* Whatever happens, every field keeps its type, and the proposer of a node's view
\* is a validator of its height, even when the validators change.
THEOREM TypeCorrect == Spec => []TypeOK
<1>1. Inv => TypeOK
  BY Zenon DEF Inv
<1> QED
  BY <1>1, Invariant, PTL

\* Whatever is counted towards a quorum belongs to the node's view and proposal,
\* one message for each validator of the height.
THEOREM CountsOnlyCurrentView == Spec => []CountsCurrentView
<1>1. Inv => CountsCurrentView
  BY Zenon DEF Inv
<1> QED
  BY <1>1, Invariant, PTL

\* A lock has its proposal beside it, as handlePrepare and startNewRound rely on.
THEOREM LockHasProposal == Spec => []LockedProposal
<1>1. Inv => LockedProposal
  BY Zenon DEF Inv
<1> QED
  BY <1>1, Invariant, PTL

\* A node that keeps its memory votes once: one PREPARE in a view, COMMITs to one
\* block of a height - for any number of rounds, and of nodes that lose theirs.
THEOREM VotesOnce == Spec => []NoDoubleVote
<1>1. Inv => NoDoubleVote
  BY Zenon DEF Inv
<1> QED
  BY <1>1, Invariant, PTL

\* Whatever is on a chain was decided by the COMMITs of a quorum in one round.
THEOREM WritesOnlyDecided == Spec => []ChainDecided
<1>1. Inv => ChainDecided
  BY Zenon DEF Inv, ChainInv, WrittenInv, ChainDecided
<1> QED
  BY <1>1, Invariant, PTL

-----------------------------------------------------------------------------
(* Agreement.                                                              *)

\* No two nodes write different blocks at a height, as long as at most F validators
\* of a height lose a lock and quorums overlap (ceil(2N / 3), or 2F + 1 of 3F + 1).
THEOREM AgreementHolds ==
    ASSUME FewUnreliable, QuorumsOverlap
    PROVE  Spec => []Agreement
<1>1. Inv => Agreement
  BY InvAgreement
<1> QED
  BY <1>1, Invariant, PTL

-----------------------------------------------------------------------------
(* Refinement of Ledger.                                                   *)

\* The chains implement the ledger: every node copies one sequence of blocks, never
\* leaves it and never takes a block back.
THEOREM ImplementsLedger ==
    ASSUME FewUnreliable, QuorumsOverlap
    PROVE  Spec => LedgerSpec
<1>1. Init => L!Init
  <2> SUFFICES ASSUME Init PROVE Written = [n \in Node |-> <<>>]
    BY DEF L!Init
  <2>1. \A n \in Node : [h \in 1 .. Height(n) |-> chain[n][h].block] = <<>>
    BY DEF Init, Height
  <2> QED
    BY <2>1 DEF Written
<1>2. Inv /\ [Next]_vars => [L!Next]_Written
  <2> SUFFICES ASSUME Inv, [Next]_vars PROVE L!Next \/ UNCHANGED Written
    OBVIOUS
  <2>1. CASE chain' = chain
    BY <2>1 DEF Written, Height
  <2>2. CASE \E n \in Node, e \in [block : Block, valid : BOOLEAN] :
                /\ Number[e.block] = Height(n) + 1 /\ Decided(votes, Height(n) + 1, e.block)
                /\ chain' = [chain EXCEPT ![n] = Append(@, e)]
    BY <2>2, LedgerExtends, Zenon
  <2> QED
    BY <2>1, <2>2, ChainStep, Zenon
<1> QED
  BY <1>1, <1>2, Invariant, PTL DEF Spec, LedgerSpec, L!Spec

-----------------------------------------------------------------------------
(* Locks and round changes.  What a step does to the view of a node k:     *)

\* The view stays, and so does the lock, unless it becomes the proposal ...
Stays(k) ==
    /\ seq'[k] = seq[k] /\ round'[k] = round[k] /\ waiting'[k] = waiting[k]
    /\ roundChangeSet'[k] = roundChangeSet[k]
    /\ locked'[k] \in {locked[k], preprepare[k]}

\* ... or one more ROUND CHANGE is counted that does not start its round ...
CountsMore(k) ==
    /\ seq'[k] = seq[k] /\ round'[k] = round[k] /\ waiting'[k] = waiting[k]
    /\ locked'[k] = locked[k]
    /\ \E m \in Message :
          /\ RoundChanges(k, roundChangeSet[k] \cup {m})
          /\ roundChangeSet'[k] = roundChangeSet[k] \cup {m}
          /\ waiting[k] \/ round[k] < m.round =>
                LET num == Cardinality({x \in roundChangeSet'[k] : x.round = m.round})
                IN  num = QuorumSize[seq[k]] => num = F[seq[k]] + 1

\* ... or the node asks for a later round r, maybe because the ROUND CHANGE m was the
\* one that made F + 1 ...
CatchesUp(k) ==
    /\ seq'[k] = seq[k]
    /\ k \notin Unreliable => locked'[k] = locked[k]
    /\ \E r \in Rounds :
          /\ r > round[k] /\ round'[k] = r
          /\ \/ roundChangeSet'[k] = Clear(roundChangeSet[k], r)
             \/ \E m \in Message :
                   /\ m.round = r
                   /\ roundChangeSet'[k] = Clear(roundChangeSet[k] \cup {m}, r)
                   /\ Cardinality({x \in roundChangeSet[k] \cup {m} : x.round = r})
                         = F[seq[k]] + 1

\* ... or it enters a view with nothing counted.
Enters(k) ==
    /\ roundChangeSet'[k] = {}
    /\ \/ k \in Unreliable
       \/ seq'[k] > seq[k]
       \/ seq'[k] = seq[k] /\ round'[k] >= round[k] /\ locked'[k] = locked[k]

Moves(k) == Stays(k) \/ CountsMore(k) \/ CatchesUp(k) \/ Enters(k)

\* sendRoundChange: a reliable node takes its lock along.
LEMMA CatchUpMoves ==
    ASSUME Inv, NEW n \in Node, NEW r \in Rounds, r > round[n], NEW own,
           NEW lock, lock = locked[n], NEW rcs,
           \/ rcs = roundChangeSet[n]
           \/ \E m \in Message : /\ m.round = r /\ rcs = roundChangeSet[n] \cup {m}
                                 /\ Cardinality({x \in rcs : x.round = r}) = F[seq[n]] + 1,
           SendRoundChange(n, r, lock, rcs, own), NEW k \in Node
    PROVE  Moves(k)
<1> DEFINE l == IF IsHashLocked(n, lock) THEN lock ELSE None
<1>1. ViewTypes /\ RoundTypes /\ MessageTypes
  BY Zenon DEF Inv, TypeOK
<1>2. /\ round' = [round EXCEPT ![n] = r] /\ waiting' = [waiting EXCEPT ![n] = TRUE]
      /\ roundChangeSet' = [roundChangeSet EXCEPT ![n] = Clear(rcs, r)] /\ seq' = seq
  BY Zenon DEF SendRoundChange, CatchUpRound
<1>3. locked' = [locked EXCEPT ![n] = l]
  BY DEF SendRoundChange, CatchUpRound, UpdateRoundState, NewRoundState
<1>4. n \notin Unreliable => l = locked[n]
  <2>1. n \notin Unreliable => bad[n] = {}
    BY Zenon DEF Inv, LockInv
  <2> QED
    BY <2>1, Zenon DEF IsHashLocked
<1> HIDE DEF l
<1>5. CASE k # n
  <2>1. Stays(k)
    BY <1>1, <1>2, <1>3, <1>5 DEF Stays, ViewTypes, RoundTypes, MessageTypes
  <2> QED
    BY <2>1 DEF Moves
<1>6. CASE k = n
  <2>1. /\ round'[k] = r /\ seq'[k] = seq[k] /\ roundChangeSet'[k] = Clear(rcs, r)
        /\ locked'[k] = l
    BY <1>1, <1>2, <1>3, <1>6 DEF ViewTypes, RoundTypes, MessageTypes
  <2>2. CatchesUp(k)
    BY <1>4, <1>6, <2>1, Zenon DEF CatchesUp
  <2> QED
    BY <2>2 DEF Moves
<1> QED
  BY <1>5, <1>6

\* sendNextRoundChange is a case of it.
LEMMA NextCatchUpMoves ==
    ASSUME Inv, NEW n \in Node, NEW own, SendNextRoundChange(n, own), NEW k \in Node
    PROVE  Moves(k)
<1> DEFINE r == round[n] + 1
           lock == locked[n]
           rcs == roundChangeSet[n]
<1>1. SendRoundChange(n, r, lock, rcs, own)
  BY Zenon DEF SendNextRoundChange
<1>2. r \in Rounds /\ r > round[n]
  <2>1. r \in Rounds
    BY <1>1, Zenon DEF SendRoundChange
  <2>2. round[n] \in Rounds
    BY DEF Inv, TypeOK, ViewTypes
  <2> QED
    BY <2>1, <2>2, BoundsAssumption DEF Rounds
<1>3. lock = locked[n] /\ rcs = roundChangeSet[n]
  OBVIOUS
<1> HIDE DEF r, lock, rcs
<1> QED
  BY <1>1, <1>2, <1>3, CatchUpMoves, Zenon

\* startNewRound: a new sequence is a later one, and a round keeps the lock.
LEMMA EnterMoves ==
    ASSUME Inv, NEW n \in Node, NEW own,
           \/ NewSequence(n, own)
           \/ \E r \in Rounds : r >= round[n] /\ NewRound(n, r, own),
           NEW k \in Node
    PROVE  Moves(k)
<1>1. ViewTypes /\ RoundTypes /\ MessageTypes
  BY Zenon DEF Inv, TypeOK
<1>2. ASSUME NEW s, NEW r, NEW out, NEW lock, EnterView(n, s, r, own, out),
             locked' = [locked EXCEPT ![n] = lock],
             n \in Unreliable \/ s > seq[n] \/ (s = seq[n] /\ r >= round[n] /\ lock = locked[n])
      PROVE  Moves(k)
  <2>1. /\ seq' = [seq EXCEPT ![n] = s] /\ round' = [round EXCEPT ![n] = r]
        /\ waiting' = [waiting EXCEPT ![n] = FALSE]
        /\ roundChangeSet' = [roundChangeSet EXCEPT ![n] = {}]
    BY <1>2, Zenon DEF EnterView
  <2>2. CASE k # n
    <3>1. Stays(k)
      BY <1>1, <1>2, <2>1, <2>2 DEF Stays, ViewTypes, RoundTypes, MessageTypes
    <3> QED
      BY <3>1 DEF Moves
  <2>3. CASE k = n
    <3>1. /\ roundChangeSet'[n] = {} /\ seq'[n] = s /\ round'[n] = r /\ locked'[n] = lock
      BY <1>1, <1>2, <2>1 DEF ViewTypes, RoundTypes, MessageTypes
    <3>2. Enters(k)
      BY <1>2, <2>3, <3>1, Zenon DEF Enters
    <3> QED
      BY <3>2 DEF Moves
  <2> QED
    BY <2>2, <2>3
<1>3. CASE NewSequence(n, own)
  <2> DEFINE s == Height(n) + 1
             r == 0
             out == {}
             lock == None
  <2>1. EnterView(n, s, r, own, out)
    BY <1>3, Zenon DEF NewSequence
  <2>2. locked' = [locked EXCEPT ![n] = lock]
    BY <1>3 DEF NewSequence, UpdateRoundState, NewRoundState
  <2>3. s > seq[n]
    <3>1. Height(n) \in Int /\ seq[n] \in Int
      BY <1>1, HeightBound, BoundsAssumption DEF ViewTypes, Seqs
    <3> QED
      BY <1>3, <3>1 DEF NewSequence
  <2> HIDE DEF s, r, out, lock
  <2> QED
    BY <1>2, <2>1, <2>2, <2>3, Zenon
<1>4. ASSUME NEW r \in Rounds, r >= round[n], NewRound(n, r, own) PROVE Moves(k)
  <2> DEFINE s == seq[n]
             lock == IF IsHashLocked(n, locked[n]) THEN locked[n] ELSE None
  <2>1. \E out : EnterView(n, s, r, own, out)
    BY <1>4, Zenon DEF NewRound
  <2>2. locked' = [locked EXCEPT ![n] = lock]
    BY <1>4 DEF NewRound, UpdateRoundState, NewRoundState
  <2>3. n \in Unreliable \/ lock = locked[n]
    <3>1. n \notin Unreliable => bad[n] = {}
      BY Zenon DEF Inv, LockInv
    <3> QED
      BY <3>1, Zenon DEF IsHashLocked
  <2>4. s = seq[n]
    OBVIOUS
  <2> HIDE DEF s, lock
  <2> QED
    BY <1>2, <1>4, <2>1, <2>2, <2>3, <2>4, Zenon
<1> QED
  BY <1>3, <1>4, Zenon

\* handleRoundChange.
LEMMA RoundChangeMoves ==
    ASSUME Inv, NEW n \in Node, NEW m \in events[n], HandleRoundChange(n, m), NEW k \in Node
    PROVE  Moves(k)
<1> DEFINE own == events[n] \ {m}
           rcs == roundChangeSet[n] \cup {m}
           r == m.round
           lock == locked[n]
           num == Cardinality({x \in rcs : x.round = r})
           weak == waiting[n] /\ num = F[seq[n]] + 1
           quorum == ~weak /\ StartsRound(n, r, num)
<1>1. m.code = "ROUNDCHANGE" /\ IsCurrent(n, m) /\ m.src \in Validators[seq[n]]
  BY Zenon DEF HandleRoundChange, Accepts
<1>2. m \in Message /\ m.seq = seq[n] /\ r >= round[n] /\ r \in Rounds
  BY <1>1, CurrentMessage DEF Inv, Message
<1>3. RoundChanges(n, rcs)
  <2>1. m = RoundChangeMsg(m.src, seq[n], m.round)
    BY <1>1, <1>2, Zenon DEF Inv, MessageInv, Sound
  <2> QED
    BY <1>1, <1>2, <2>1, RoundChangesHeld DEF RoundChanges
<1>4. r \in Int /\ round[n] \in Int
  BY <1>2, BoundsAssumption DEF Inv, TypeOK, ViewTypes, Rounds
<1>5. CASE weak /\ round[n] < r /\ SendRoundChange(n, r, lock, rcs, own)
  <2>1. r > round[n] /\ num = F[seq[n]] + 1 /\ m.round = r /\ lock = locked[n]
    BY <1>4, <1>5
  <2>2. \E x \in Message : /\ x.round = r /\ rcs = roundChangeSet[n] \cup {x}
                           /\ Cardinality({y \in rcs : y.round = r}) = F[seq[n]] + 1
    BY <1>2, <2>1, Zenon
  <2> HIDE DEF own, rcs, r, lock
  <2> QED
    BY <1>2, <1>5, <2>1, <2>2, CatchUpMoves, Zenon
<1>6. CASE StartNewRound(n, r, own)
  <2> HIDE DEF own, r
  <2> QED
    BY <1>2, <1>6, EnterMoves, Zenon DEF StartNewRound
<1>7. CASE /\ ~(weak /\ round[n] < r) /\ ~quorum
           /\ roundChangeSet' = [roundChangeSet EXCEPT ![n] = rcs]
           /\ UNCHANGED <<seq, round, waiting, locked>>
  <2>1. roundChangeSet'[n] = rcs /\ (k # n => roundChangeSet'[k] = roundChangeSet[k])
    BY <1>7 DEF Inv, TypeOK, MessageTypes
  <2>2. k # n => Stays(k)
    BY <1>7, <2>1, Zenon DEF Stays
  <2>3. waiting[n] \/ round[n] < r => (num = QuorumSize[seq[n]] => num = F[seq[n]] + 1)
    BY <1>7, Zenon DEF StartsRound
  <2>4. CountsMore(n)
    BY <1>2, <1>3, <1>7, <2>1, <2>3, Zenon DEF CountsMore
  <2> QED
    BY <2>2, <2>4, Zenon DEF Moves
<1> QED
  BY <1>5, <1>6, <1>7, Zenon DEF HandleRoundChange, roundVars

\* Every step moves every node's view in one of these ways.
LEMMA StepMoves ==
    ASSUME Inv, [Next]_vars, NEW k \in Node
    PROVE  Moves(k)
<1>0. RoundTypes /\ ViewTypes /\ MessageTypes
  BY Zenon DEF Inv, TypeOK
<1>1. UNCHANGED <<seq, round, waiting, locked, roundChangeSet>> => Moves(k)
  BY Zenon DEF Moves, Stays
<1>2. ASSUME NEW n \in Node, UNCHANGED <<seq, round, waiting, roundChangeSet>>,
             locked' = [locked EXCEPT ![n] = preprepare[n]]
      PROVE  Moves(k)
  <2>1. locked'[k] \in {locked[k], preprepare[k]}
    BY <1>0, <1>2 DEF RoundTypes
  <2> QED
    BY <1>2, <2>1, Zenon DEF Moves, Stays
<1>3. ASSUME NEW n \in Node, NEW m \in events[n], HandleMsg(n, m) PROVE Moves(k)
  <2>1. Discard(n, m) => Moves(k)
    BY <1>1, Zenon DEF Discard, roundVars
  <2>2. \A own : SendNextRoundChange(n, own) => Moves(k)
    BY NextCatchUpMoves, Zenon
  <2>3. CASE HandleUnauthorized(n, m) \/ DropOwnFuture(n, m)
    BY <2>1, <2>3, Zenon DEF HandleUnauthorized, DropOwnFuture
  <2>4. CASE HandleOldPreprepare(n, m)
    BY <1>1, <2>4, Zenon DEF HandleOldPreprepare, roundVars
  <2>5. CASE HandlePreprepare(n, m)
    BY <1>1, <2>1, <2>2, <2>5, Zenon DEF HandlePreprepare
  <2>6. CASE HandlePrepare(n, m)
    BY <1>1, <1>2, <2>1, <2>6, Zenon DEF HandlePrepare
  <2>7. CASE HandleCommit(n, m)
    BY <1>1, <1>2, <2>1, <2>7, Zenon DEF HandleCommit
  <2> QED
    BY <1>3, <2>3, <2>4, <2>5, <2>6, <2>7, RoundChangeMoves, Zenon DEF HandleMsg
<1>4. ASSUME NEW n \in Node, NEW b \in Block, HandleRequest(n, b) PROVE Moves(k)
  BY <1>1, <1>4, Zenon DEF HandleRequest, Propose, roundVars
<1>5. ASSUME NEW n \in Node, HandlePendingRequest(n) PROVE Moves(k)
  BY <1>1, <1>5, Zenon DEF HandlePendingRequest, Propose, roundVars
<1>6. ASSUME NEW n \in Node, HandleTimeout(n) PROVE Moves(k)
  <2> DEFINE own == events[n]
             rcs == roundChangeSet[n]
             lock == locked[n]
             ahead == IF waiting[n] THEN {}
                      ELSE {r \in RoundsWith(n, F[seq[n]] + 1) : r > round[n]}
  <2>1. ASSUME NEW r \in ahead, SendRoundChange(n, r, lock, rcs, own) PROVE Moves(k)
    <3>1. r \in Rounds /\ r > round[n] /\ lock = locked[n] /\ rcs = roundChangeSet[n]
      BY <2>1 DEF RoundsWith
    <3> HIDE DEF own, rcs, lock, ahead
    <3> QED
      BY <2>1, <3>1, CatchUpMoves, Zenon
  <2>2. CASE NewSequence(n, own)
    <3> HIDE DEF own
    <3> QED
      BY <2>2, EnterMoves, Zenon
  <2>3. CASE SendNextRoundChange(n, own)
    <3> HIDE DEF own
    <3> QED
      BY <2>3, NextCatchUpMoves, Zenon
  <2> QED
    BY <1>6, <2>1, <2>2, <2>3, Zenon DEF HandleTimeout
<1>7. ASSUME NEW n \in Node, HandleFinalCommitted(n) PROVE Moves(k)
  <2> DEFINE own == events[n]
  <2>1. NewSequence(n, own)
    BY <1>7 DEF HandleFinalCommitted
  <2> HIDE DEF own
  <2> QED
    BY <2>1, EnterMoves, Zenon
<1>8. ASSUME NEW n \in Node,
             \/ InsertBlock(n) \/ (\E p \in Node : ImportBlock(n, p))
             \/ \E b \in Block : ReportBadBlock(n, b)
      PROVE  Moves(k)
  BY <1>1, <1>8, Zenon DEF InsertBlock, ImportBlock, ReportBadBlock, coreVars, roundVars
<1>9. ASSUME NEW n \in Node, Restart(n) PROVE Moves(k)
  <2>1. /\ n \in Unreliable /\ roundChangeSet' = [roundChangeSet EXCEPT ![n] = {}]
        /\ seq' = [seq EXCEPT ![n] = Height(n) + 1] /\ round' = [round EXCEPT ![n] = 0]
        /\ waiting' = [waiting EXCEPT ![n] = FALSE]
        /\ locked' = [locked EXCEPT ![n] = None]
    BY <1>9 DEF Restart, UpdateRoundState, NewRoundState
  <2>2. CASE k = n
    <3>1. Enters(k)
      BY <1>0, <2>1, <2>2 DEF Enters, MessageTypes
    <3> QED
      BY <3>1 DEF Moves
  <2>3. CASE k # n
    <3>1. Stays(k)
      BY <1>0, <2>1, <2>3 DEF Stays, ViewTypes, RoundTypes, MessageTypes
    <3> QED
      BY <3>1 DEF Moves
  <2> QED
    BY <2>2, <2>3
<1>10. CASE UNCHANGED vars
  BY <1>1, <1>10, Zenon DEF vars, roundVars
<1>11. ASSUME NEW n \in Node, NodeStep(n) \/ FaultStep(n) PROVE Moves(k)
  BY <1>3, <1>4, <1>5, <1>6, <1>7, <1>8, <1>9, <1>11, Zenon DEF NodeStep, FaultStep
<1> QED
  BY <1>10, <1>11, Zenon DEF Next

\* A reliable node never releases or moves a lock at a height, and its view only grows.
THEOREM LocksStay == Spec => LockStable
<1> DEFINE Steady(n) ==
      /\ seq'[n] > seq[n] \/ (seq'[n] = seq[n] /\ round'[n] >= round[n])
      /\ seq'[n] = seq[n] /\ locked[n] # None => locked'[n] = locked[n]
<1>1. ASSUME Inv, [Next]_vars, NEW n \in Node \ Unreliable
      PROVE  Steady(n)
  <2>1. seq[n] \in Int /\ round[n] \in Int /\ Moves(n)
    BY <1>1, StepMoves, BoundsAssumption DEF Inv, TypeOK, ViewTypes, Seqs, Rounds
  <2>2. locked[n] # None => preprepare[n] = locked[n]
    BY <1>1, Zenon DEF Inv, LockedProposal
  <2>3. CASE Stays(n)
    BY <2>1, <2>2, <2>3 DEF Stays
  <2>4. CASE CountsMore(n)
    BY <2>1, <2>4 DEF CountsMore
  <2>5. CASE CatchesUp(n)
    <3>1. \E r \in Rounds : r > round[n] /\ round'[n] = r
      BY <2>5, Zenon DEF CatchesUp
    <3>2. seq'[n] = seq[n] /\ locked'[n] = locked[n]
      BY <1>1, <2>5, Zenon DEF CatchesUp
    <3> QED
      BY <2>1, <3>1, <3>2, BoundsAssumption DEF Rounds
  <2>6. CASE Enters(n)
    BY <1>1, <2>1, <2>6 DEF Enters
  <2> QED
    BY <2>1, <2>3, <2>4, <2>5, <2>6 DEF Moves
<1>2. Inv /\ [Next]_vars => [\A n \in Node \ Unreliable : Steady(n)]_vars
  BY <1>1, Zenon
<1> QED
  BY <1>2, Invariant, PTL DEF Spec, LockStable

\* F + 1 ROUND CHANGEs are fewer than a quorum: from 2 validators on with
\* ceil(2N / 3), from 4 on with 2F + 1.
WeakBelowQuorum == \A s \in Seqs : F[s] + 1 < QuorumSize[s]

\* How many of the ROUND CHANGEs rcs ask for round r.
Held(rcs, r) == Cardinality({m \in rcs : m.round = r})

\* Adding one ROUND CHANGE to those of a round makes at most one more.
LEMMA OneMore ==
    ASSUME Inv, NEW n \in Node, NEW m \in Message, RoundChanges(n, roundChangeSet[n] \cup {m}),
           NEW r
    PROVE  /\ Held(roundChangeSet[n], r) \in Nat
           /\ Held(roundChangeSet[n] \cup {m}, r) \in Nat
           /\ Held(roundChangeSet[n] \cup {m}, r) <= Held(roundChangeSet[n], r) + 1
           /\ m.round # r => Held(roundChangeSet[n] \cup {m}, r) = Held(roundChangeSet[n], r)
<1> DEFINE old == {x \in roundChangeSet[n] : x.round = r}
           new == {x \in roundChangeSet[n] \cup {m} : x.round = r}
           s == seq[n]
<1>1. s \in Seqs
  BY DEF Inv, TypeOK, ViewTypes
<1>2. \A c \in old : c.src \in Validators[s]
  BY DEF RoundChanges
<1>3. \A c, d \in old : c.src = d.src => c = d
  <2> SUFFICES ASSUME NEW c \in old, NEW d \in old, c.src = d.src PROVE c = d
    OBVIOUS
  <2>1. c = RoundChangeMsg(c.src, seq[n], r) /\ d = RoundChangeMsg(d.src, seq[n], r)
    BY Zenon DEF RoundChanges
  <2> QED
    BY <2>1, Zenon
<1>4. new = old \/ new = old \cup {m}
  OBVIOUS
<1>5. m.round # r => new = old
  OBVIOUS
<1> HIDE DEF old, new, s
<1>6. IsFiniteSet(old)
  BY <1>1, <1>2, <1>3, CommitsFinite, Zenon
<1>7. Cardinality(old) \in Nat
  BY <1>6, FS_CardinalityType
<1>8. Cardinality(old \cup {m}) \in Nat /\ Cardinality(old \cup {m}) <= Cardinality(old) + 1
  <2>1. Cardinality(old \cup {m}) = IF m \in old THEN Cardinality(old) ELSE Cardinality(old) + 1
    BY <1>6, FS_AddElement, Zenon
  <2> QED
    BY <1>7, <2>1
<1>9. Cardinality(new) \in Nat /\ Cardinality(new) <= Cardinality(old) + 1
  <2>1. CASE new = old
    BY <1>7, <2>1
  <2>2. CASE new = old \cup {m}
    BY <1>8, <2>2, Zenon
  <2> QED
    BY <1>4, <2>1, <2>2
<1>10. /\ Held(roundChangeSet[n], r) = Cardinality(old)
       /\ Held(roundChangeSet[n] \cup {m}, r) = Cardinality(new)
  BY Zenon DEF Held, old, new
<1> QED
  BY <1>5, <1>7, <1>9, <1>10

\* As long as F + 1 is no quorum, a node that holds a quorum of ROUND CHANGEs to a
\* round it waits for, or that lies ahead, has started it.
THEOREM QuorumStartsRound ==
    ASSUME WeakBelowQuorum
    PROVE  Spec => []RoundChangeQuorum
<1>1. Init => RoundChangeQuorum
  <2> SUFFICES ASSUME Init, NEW n \in Node, NEW r
               PROVE  Held(roundChangeSet[n], r) < QuorumSize[seq[n]]
    BY Zenon DEF RoundChangeQuorum, Held
  <2>1. {m \in roundChangeSet[n] : m.round = r} = {} /\ seq[n] \in Seqs
    BY BoundsAssumption DEF Init, Seqs
  <2>2. Held(roundChangeSet[n], r) = 0 /\ QuorumSize[seq[n]] \in Nat \ {0}
    BY <2>1, QuorumArithmetic, FS_EmptySet DEF Held
  <2> QED
    BY <2>2
<1>2. RoundChangeQuorum /\ Inv /\ Inv' /\ [Next]_vars => RoundChangeQuorum'
  <2> SUFFICES ASSUME RoundChangeQuorum, Inv, Inv', [Next]_vars, NEW n \in Node,
                      NEW r \in round'[n] .. MaxRound, r > round'[n] \/ waiting'[n]
               PROVE  Held(roundChangeSet'[n], r) < QuorumSize[seq'[n]]
    BY Zenon DEF RoundChangeQuorum, Held
  <2>1. /\ seq[n] \in Seqs /\ seq'[n] \in Seqs /\ round[n] \in Int /\ round'[n] \in Int
        /\ r \in Int /\ r >= round'[n] /\ MaxRound \in Int /\ r <= MaxRound
    BY BoundsAssumption DEF Inv, TypeOK, ViewTypes, Rounds
  <2>2. /\ QuorumSize[seq[n]] \in Nat /\ QuorumSize[seq'[n]] \in Nat \ {0} /\ F[seq[n]] \in Nat
        /\ F[seq[n]] + 1 < QuorumSize[seq[n]]
    BY <2>1, QuorumArithmetic DEF WeakBelowQuorum
  <2>3. ASSUME r >= round[n], r > round[n] \/ waiting[n]
        PROVE  Held(roundChangeSet[n], r) < QuorumSize[seq[n]]
    <3>1. r \in round[n] .. MaxRound
      BY <2>1, <2>3
    <3> QED
      BY <2>3, <3>1, Zenon DEF RoundChangeQuorum, Held
  <2>4. CASE Stays(n)
    <3>1. Held(roundChangeSet[n], r) < QuorumSize[seq[n]]
      BY <2>1, <2>3, <2>4 DEF Stays
    <3> QED
      BY <2>4, <3>1 DEF Stays
  <2>5. CASE CountsMore(n)
    <3>1. /\ seq'[n] = seq[n] /\ round'[n] = round[n] /\ waiting'[n] = waiting[n]
      BY <2>5, Zenon DEF CountsMore
    <3>2. PICK m \in Message :
            /\ RoundChanges(n, roundChangeSet[n] \cup {m})
            /\ roundChangeSet'[n] = roundChangeSet[n] \cup {m}
            /\ waiting[n] \/ round[n] < m.round =>
                  (Held(roundChangeSet'[n], m.round) = QuorumSize[seq[n]] =>
                      Held(roundChangeSet'[n], m.round) = F[seq[n]] + 1)
      BY <2>5, Zenon DEF CountsMore, Held
    <3>3. Held(roundChangeSet[n], r) < QuorumSize[seq[n]]
      BY <2>1, <2>3, <3>1
    <3>4. /\ Held(roundChangeSet[n], r) \in Nat /\ Held(roundChangeSet'[n], r) \in Nat
          /\ Held(roundChangeSet'[n], r) <= Held(roundChangeSet[n], r) + 1
          /\ m.round # r => Held(roundChangeSet'[n], r) = Held(roundChangeSet[n], r)
      BY <3>2, OneMore, Zenon
    <3>5. m.round = r => Held(roundChangeSet'[n], r) # QuorumSize[seq[n]]
      <4>1. waiting[n] \/ round[n] < r
        BY <2>1, <3>1
      <4>2. QuorumSize[seq[n]] # F[seq[n]] + 1
        BY <2>2
      <4> QED
        BY <3>2, <4>1, <4>2, Zenon
    <3> QED
      BY <2>2, <3>1, <3>3, <3>4, <3>5
  <2>6. CASE CatchesUp(n)
    <3>1. seq'[n] = seq[n] /\ round'[n] \in Rounds /\ round'[n] > round[n]
      BY <2>6, Zenon DEF CatchesUp
    <3>2. r > round[n] /\ r >= round[n]
      BY <2>1, <3>1
    <3>3. Held(roundChangeSet[n], r) < QuorumSize[seq[n]]
      BY <2>3, <3>2
    <3>4. \A rcs \in SUBSET Message :
            Held(Clear(rcs, round'[n]), r) = Held(rcs, r)
      <4> SUFFICES ASSUME NEW rcs \in SUBSET Message
                   PROVE  {m \in Clear(rcs, round'[n]) : m.round = r} = {m \in rcs : m.round = r}
        BY Zenon DEF Held
      <4> QED
        BY <2>1 DEF Clear
    <3>5. roundChangeSet[n] \in SUBSET Message
      BY DEF Inv, TypeOK, MessageTypes
    <3>6. CASE roundChangeSet'[n] = Clear(roundChangeSet[n], round'[n])
      BY <3>1, <3>3, <3>4, <3>5, <3>6
    <3>7. ASSUME NEW m \in Message, m.round = round'[n],
                 roundChangeSet'[n] = Clear(roundChangeSet[n] \cup {m}, round'[n]),
                 Held(roundChangeSet[n] \cup {m}, round'[n]) = F[seq[n]] + 1
          PROVE  Held(roundChangeSet'[n], r) < QuorumSize[seq'[n]]
      <4>1. Held(roundChangeSet'[n], r) = Held(roundChangeSet[n] \cup {m}, r)
        BY <3>4, <3>5, <3>7
      <4>2. CASE r = round'[n]
        BY <2>2, <3>1, <3>7, <4>1, <4>2
      <4>3. CASE r # round'[n]
        <5>1. {x \in roundChangeSet[n] \cup {m} : x.round = r}
                = {x \in roundChangeSet[n] : x.round = r}
          BY <3>7, <4>3
        <5> QED
          BY <3>1, <3>3, <4>1, <5>1 DEF Held
      <4> QED
        BY <4>2, <4>3
    <3> QED
      BY <2>6, <3>6, <3>7, Zenon DEF CatchesUp, Held
  <2>7. CASE Enters(n)
    <3>1. {m \in roundChangeSet'[n] : m.round = r} = {}
      BY <2>7 DEF Enters
    <3> QED
      BY <2>2, <3>1, FS_EmptySet DEF Held
  <2> QED
    BY <2>4, <2>5, <2>6, <2>7, StepMoves, Zenon DEF Moves
<1> QED
  BY <1>1, <1>2, Invariant, PTL DEF Spec

=============================================================================
