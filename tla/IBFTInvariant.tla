--------------------------- MODULE IBFTInvariant ----------------------------
(***************************************************************************)
(* The inductive invariant of IBFTCore and the proofs that each step       *)
(* preserves it: first the steps that change views, propose, answer or     *)
(* write blocks, then those that vote and count votes.                     *)
(***************************************************************************)
EXTENDS IBFTCore, TLAPS

\* A COMMIT is among the votes vs, or is about a block on its sender's chain in ch.
Evidence(m, vs, ch) ==
    \/ CommitMsg(m.src, m.seq, m.round, m.block, m.block) \in vs
    \/ m.seq <= Len(ch[m.src]) /\ ch[m.src][m.seq].block = m.block

\* A block travels with its own height, a COMMIT with its evidence.
Sound(m, vs, ch) ==
    /\ m.code # "ROUNDCHANGE" => m.block \in Block /\ Number[m.block] = m.seq
    /\ m.code = "ROUNDCHANGE" => m = RoundChangeMsg(m.src, m.seq, m.round)
    /\ m.code = "COMMIT" => Evidence(m, vs, ch)

MessageInv == \A n \in Node : \A m \in events[n] : Sound(m, votes, chain)

\* The round state of n: the proposal and the request are of the height, the COMMITs
\* have evidence, and there are none before a proposal is accepted.
RoundStateOf(n) ==
    /\ preprepare[n] # None => Number[preprepare[n]] = seq[n]
    /\ pendingRequest[n] # None => Number[pendingRequest[n]] = seq[n]
    /\ waiting[n] \/ state[n] = AcceptRequest => commits[n] = {}
    /\ \A c \in commits[n] : Evidence(c, votes, chain)

RoundStateInv == \A n \in Node : RoundStateOf(n)

\* What is written, or about to be written, was decided.
WrittenInv == \A n \in Node : \A h \in 1 .. Height(n) :
    Number[chain[n][h].block] = h /\ Decided(votes, h, chain[n][h].block)
InsertingInv == \A n \in Node : inserting[n] # None =>
    Decided(votes, Number[inserting[n].block], inserting[n].block)
ChainInv == WrittenInv /\ InsertingInv

\* A node that cast v keeps its lock on a COMMIT as long as it is at the height; it
\* is at or past the view of a PREPARE, and takes no other proposal in that view.
Kept(v, s, r, w, st, lock) ==
    \/ v.seq < s
    \/ v.seq = s /\ v.code = "COMMIT" /\ lock = v.block
    \/ v.seq = s /\ v.code = "PREPARE" /\ v.round < r
    \/ v.seq = s /\ v.code = "PREPARE" /\ v.round = r /\ ~w /\ st # AcceptRequest

\* The votes of n, if it is reliable, are kept.
VotesKept(n) ==
    n \notin Unreliable => \A v \in votes : v.src = n =>
        Kept(v, seq[n], round[n], waiting[n], state[n], locked[n])

LockInv == (\A n \in Node \ Unreliable : bad[n] = {}) /\ (\A n \in Node : VotesKept(n))

VoteInv == \A v \in votes : v.block \in Block /\ v.code \in {"PREPARE", "COMMIT"}

Inv ==
    /\ TypeOK /\ MessageInv /\ RoundStateInv /\ CountsCurrentView /\ ChainInv
    /\ VoteInv /\ LockInv /\ LockedProposal /\ NoDoubleVote

-----------------------------------------------------------------------------
(* Validators and proposers.                                               *)

\* The validators of a height are nodes, and there is one.
LEMMA ValidatorsSize ==
    ASSUME NEW s \in Seqs
    PROVE  /\ Validators[s] \subseteq Node
           /\ Size[s] \in Nat \ {0}
<1>1. ValSetAt[s] \in Seq(Node) /\ Len(ValSetAt[s]) \in Nat \ {0}
  BY ValSetAssumption
<1> QED
  BY <1>1 DEF Validators, Size

\* The proposer of a view is a validator of its height.
LEMMA ProposerIsValidator ==
    ASSUME NEW s \in Seqs, NEW a, NEW r \in Rounds
    PROVE  RoundRobinProposer(s, a, r) \in Validators[s]
<1>1. Size[s] \in Nat \ {0} /\ r \in Nat
  BY ValidatorsSize, BoundsAssumption DEF Rounds
<1>2. IndexOf(s, a) \in Nat
  <2>1. CASE a \in Validators[s]
    <3>1. \E i \in 1 .. Size[s] : ValSetAt[s][i] = a
      BY <2>1 DEF Validators, Size
    <3>2. (CHOOSE i \in 1 .. Size[s] : ValSetAt[s][i] = a) \in 1 .. Size[s]
      BY <3>1
    <3> QED
      BY <2>1, <3>2, <1>1 DEF IndexOf
  <2>2. CASE a \notin Validators[s]
    BY <2>2 DEF IndexOf
  <2> QED
    BY <2>1, <2>2
<1>3. ASSUME NEW seed \in Nat PROVE ValSetAt[s][(seed % Size[s]) + 1] \in Validators[s]
  <2>1. (seed % Size[s]) + 1 \in 1 .. Size[s]
    BY <1>1
  <2> QED
    BY <2>1 DEF Validators, Size
<1> QED
  BY <1>1, <1>2, <1>3 DEF RoundRobinProposer

-----------------------------------------------------------------------------
(* What every step shares: votes and chains only grow.                     *)

\* A chain has a length.
LEMMA ChainLengths == ChainTypes => \A k \in Node : Len(chain[k]) \in Nat
<1>1. chain \in [Node -> Seq([block : Block, valid : BOOLEAN])] => \A k \in Node : Len(chain[k]) \in Nat
  OBVIOUS
<1> QED
  BY <1>1, Zenon DEF ChainTypes

GrowsOnly ==
    /\ votes \subseteq votes'
    /\ \A n \in Node : /\ Len(chain[n]) <= Len(chain'[n])
                       /\ \A h \in 1 .. Len(chain[n]) : chain'[n][h] = chain[n][h]

\* A decision stays a decision.
LEMMA DecidedGrows ==
    ASSUME votes \subseteq votes', NEW h, NEW b, Decided(votes, h, b)
    PROVE  Decided(votes', h, b)
BY Zenon DEF Decided

\* Evidence for a COMMIT stays evidence.
LEMMA EvidenceGrows ==
    ASSUME TypeOK, TypeOK', GrowsOnly, NEW m \in Message, Evidence(m, votes, chain)
    PROVE  Evidence(m, votes', chain')
<1>1. m.src \in Node /\ m.seq \in Nat \ {0}
  BY BoundsAssumption DEF Message, Seqs
<1>2. Len(chain[m.src]) \in Nat /\ Len(chain'[m.src]) \in Nat
  BY <1>1 DEF TypeOK, ChainTypes
<1> QED
  BY <1>1, <1>2 DEF Evidence, GrowsOnly

\* MessageInv is about the new messages only.
LEMMA MessageStep ==
    ASSUME TypeOK, TypeOK', MessageInv, GrowsOnly, NEW out,
           \A k \in Node : events'[k] \subseteq events[k] \cup out,
           \A m \in out : Sound(m, votes', chain')
    PROVE  MessageInv'
<1> SUFFICES ASSUME NEW k \in Node, NEW m \in events'[k]
             PROVE  Sound(m, votes', chain')
  BY Zenon DEF MessageInv, Sound, Evidence, RoundChangeMsg, CommitMsg, Msg
<1>1. CASE m \in out
  BY <1>1
<1>2. CASE m \in events[k]
  <2>1. m \in Message
    BY <1>2 DEF TypeOK, MessageTypes
  <2>2. Sound(m, votes, chain)
    BY <1>2, Zenon DEF MessageInv
  <2>3. m.code = "COMMIT" => Evidence(m, votes', chain')
    BY <2>1, <2>2, EvidenceGrows, Zenon DEF Sound
  <2> QED
    BY <2>2, <2>3, Zenon DEF Sound
<1> QED
  BY <1>1, <1>2

\* Posting sound messages.
LEMMA PostStep ==
    ASSUME TypeOK, NEW n \in Node, NEW own \in SUBSET events[n],
           NEW out \in SUBSET Message, Post(n, own, out)
    PROVE  /\ events' \in [Node -> SUBSET Message]
           /\ \A k \in Node : events'[k] \subseteq events[k] \cup out
BY DEF TypeOK, MessageTypes, Post

\* A step that casts no vote and touches no chain.
LEMMA SilentStep ==
    ASSUME Inv, UNCHANGED <<chainVars, votes>>
    PROVE  GrowsOnly /\ ChainInv' /\ VoteInv' /\ NoDoubleVote'
<1>0. chain' = chain /\ inserting' = inserting /\ votes' = votes
  BY DEF chainVars
<1>1. GrowsOnly
  <2>1. \A n \in Node : Len(chain[n]) \in Nat
    BY DEF Inv, TypeOK, ChainTypes
  <2> QED
    BY <1>0, <2>1 DEF GrowsOnly
<1>2. ChainInv'
  <2>1. WrittenInv /\ InsertingInv
    BY DEF Inv, ChainInv
  <2>2. WrittenInv'
    BY <1>0, <2>1 DEF WrittenInv, Height
  <2>3. InsertingInv'
    BY <1>0, <2>1 DEF InsertingInv
  <2> QED
    BY <2>2, <2>3 DEF ChainInv
<1>3. VoteInv' /\ NoDoubleVote'
  BY <1>0, Zenon DEF VoteInv, NoDoubleVote, Inv
<1> QED
  BY <1>1, <1>2, <1>3

\* The view and the round state of every other node stay as they are.
Others(n) ==
    \A k \in Node \ {n} :
        /\ seq'[k] = seq[k] /\ round'[k] = round[k] /\ waiting'[k] = waiting[k]
        /\ state'[k] = state[k] /\ locked'[k] = locked[k] /\ preprepare'[k] = preprepare[k]
        /\ prepares'[k] = prepares[k] /\ commits'[k] = commits[k]
        /\ pendingRequest'[k] = pendingRequest[k] /\ roundChangeSet'[k] = roundChangeSet[k]

\* A step of the core of n is about n: what the others have stays true of them.
LEMMA CoreStep ==
    ASSUME Inv, NEW n \in Node, Others(n), TypeOK', GrowsOnly, bad' = bad,
           MessageInv', ChainInv', VoteInv', NoDoubleVote',
           RoundStateOf(n)', CountsCurrent(n)', VotesKept(n)',
           n \notin Unreliable /\ locked'[n] # None => preprepare'[n] = locked'[n],
           \A v \in votes' : v \in votes \/ v.src = n
    PROVE  Inv'
<1>1. RoundStateInv'
  <2>1. ASSUME NEW k \in Node \ {n} PROVE RoundStateOf(k)'
    <3>1. RoundStateOf(k) /\ TypeOK /\ commits[k] \subseteq Message
      BY DEF Inv, RoundStateInv, TypeOK, RoundTypes
    <3>2. \A c \in commits[k] : Evidence(c, votes', chain')
      BY <3>1, EvidenceGrows, Zenon DEF RoundStateOf
    <3> QED
      BY <3>1, <3>2, Zenon DEF RoundStateOf, Others, AcceptRequest
  <2> QED
    BY <2>1, Zenon DEF RoundStateInv
<1>2. CountsCurrentView'
  <2>1. ASSUME NEW k \in Node \ {n} PROVE CountsCurrent(k)'
    <3>1. CountsCurrent(k)
      BY DEF Inv, CountsCurrentView
    <3> QED
      BY <3>1 DEF CountsCurrent, Others
  <2> QED
    BY <2>1, Zenon DEF CountsCurrentView
<1>3. LockedProposal'
  <2>1. ASSUME NEW k \in Node \ {n}, k \notin Unreliable, locked'[k] # None
        PROVE  preprepare'[k] = locked'[k]
    BY <2>1, Zenon DEF Inv, LockedProposal, Others
  <2> QED
    BY <2>1, Zenon DEF LockedProposal
<1>4. LockInv'
  <2>1. ASSUME NEW k \in Node \ {n} PROVE VotesKept(k)'
    <3>1. VotesKept(k)
      BY DEF Inv, LockInv
    <3>2. \A v \in votes' : v.src = k => v \in votes
      OBVIOUS
    <3> QED
      BY <3>1, <3>2, Zenon DEF VotesKept, Others, Kept, AcceptRequest
  <2>2. \A k \in Node \ Unreliable : bad'[k] = {}
    BY Zenon DEF Inv, LockInv
  <2> QED
    BY <2>1, <2>2, Zenon DEF LockInv
<1> QED
  BY <1>1, <1>2, <1>3, <1>4, Zenon DEF Inv

\* A step of a core that changes neither view nor round state.
LEMMA IdleStep ==
    ASSUME Inv, TypeOK', MessageInv',
           UNCHANGED <<seq, round, state, waiting, roundVars, roundChangeSet, chainVars, votes>>,
           \A n \in Node : pendingRequest'[n] # None => Number[pendingRequest'[n]] = seq[n]
    PROVE  Inv'
<1>1. /\ seq' = seq /\ round' = round /\ state' = state /\ waiting' = waiting
      /\ preprepare' = preprepare /\ prepares' = prepares /\ commits' = commits
      /\ locked' = locked /\ roundChangeSet' = roundChangeSet
      /\ chain' = chain /\ bad' = bad /\ votes' = votes
  BY Zenon DEF roundVars, chainVars
<1>2. ChainInv' /\ VoteInv' /\ NoDoubleVote'
  BY SilentStep
<1>3. RoundStateInv'
  BY <1>1, Zenon DEF Inv, RoundStateInv, RoundStateOf, Evidence, CommitMsg, Msg, AcceptRequest
<1>4. CountsCurrentView'
  BY <1>1 DEF Inv, CountsCurrentView, CountsCurrent
<1>5. LockInv' /\ LockedProposal'
  BY <1>1 DEF Inv, LockInv, VotesKept, LockedProposal
<1> QED
  BY <1>2, <1>3, <1>4, <1>5, Zenon DEF Inv

\* A message is dropped.
LEMMA DiscardStep ==
    ASSUME Inv, NEW n \in Node, NEW m \in events[n], Discard(n, m)
    PROVE  Inv'
<1>1. /\ UNCHANGED <<seq, round, state, waiting, roundVars, roundChangeSet, chainVars, votes>>
      /\ proposer' = proposer /\ pendingRequest' = pendingRequest
      /\ pendingRequests' = pendingRequests
      /\ events' = [events EXCEPT ![n] = @ \ {m}]
  BY Zenon DEF Discard
<1> DEFINE out == {}
<1>2. /\ events' \in [Node -> SUBSET Message]
      /\ \A k \in Node : events'[k] \subseteq events[k] \cup out
  BY <1>1 DEF Inv, TypeOK, MessageTypes
<1>3. TypeOK'
  BY <1>1, <1>2, Zenon DEF Inv, TypeOK, ViewTypes, RoundTypes, MessageTypes, ChainTypes,
                           roundVars, chainVars
<1>4. MessageInv'
  <2>1. GrowsOnly /\ TypeOK /\ MessageInv
    BY <1>1, SilentStep DEF Inv
  <2>2. \A x \in out : Sound(x, votes', chain')
    OBVIOUS
  <2> HIDE DEF out
  <2> QED
    BY <1>2, <1>3, <2>1, <2>2, MessageStep, Zenon
<1>5. \A k \in Node : pendingRequest'[k] # None => Number[pendingRequest'[k]] = seq[k]
  BY <1>1, Zenon DEF Inv, RoundStateInv, RoundStateOf
<1> QED
  BY <1>1, <1>3, <1>4, <1>5, IdleStep, Zenon

\* An element of a sequence.
LEMMA ElementOf ==
    ASSUME NEW S, NEW q \in Seq(S), NEW i \in 1 .. Len(q)
    PROVE  q[i] \in S
OBVIOUS

\* Chains end at MaxSeq: the height of a block on a chain is its position.
LEMMA HeightBound ==
    ASSUME Inv, NEW n \in Node
    PROVE  Height(n) \in 0 .. MaxSeq
<1> DEFINE Entry == [block : Block, valid : BOOLEAN]
           q == chain[n]
<1>1. chain \in [Node -> Seq(Entry)]
  BY Zenon DEF Inv, TypeOK, ChainTypes
<1>2. \A e \in Entry : e.block \in Block
  OBVIOUS
<1> HIDE DEF Entry
<1>3. q \in Seq(Entry) /\ Len(q) \in Nat
  BY <1>1
<1>4. CASE Len(q) > 0
  <2>1. Len(q) \in 1 .. Len(q)
    BY <1>3, <1>4
  <2>2. q[Len(q)].block \in Block
    <3> HIDE DEF q
    <3> QED
      BY <1>2, <1>3, <2>1, ElementOf, Zenon
  <2>3. Number[q[Len(q)].block] \in 1 .. MaxSeq
    BY <2>2, BlockAssumption, Zenon
  <2>4. Number[q[Len(q)].block] = Len(q)
    BY <2>1, Zenon DEF Inv, ChainInv, WrittenInv, Height
  <2> QED
    BY <2>3, <2>4, BoundsAssumption DEF Height
<1> QED
  BY <1>3, <1>4, BoundsAssumption DEF Height

\* What checkMessage returning nil says of a message.
LEMMA CurrentMessage ==
    ASSUME TypeOK, NEW n \in Node, NEW m \in events[n], IsCurrent(n, m)
    PROVE  /\ m \in Message /\ m.seq = seq[n] /\ m.round >= round[n]
           /\ m.code # "ROUNDCHANGE" =>
                 /\ m.round = round[n] /\ ~waiting[n]
                 /\ state[n] = AcceptRequest => m.code = "PREPREPARE"
<1>1. m \in Message
  BY DEF TypeOK, MessageTypes
<1>2. m.seq \in Int /\ m.round \in Int /\ seq[n] \in Int /\ round[n] \in Int
  BY <1>1, BoundsAssumption DEF TypeOK, ViewTypes, Message, Seqs, Rounds
<1> QED
  BY <1>1, <1>2 DEF IsCurrent, IsOld, IsFuture

\* The ROUND CHANGEs rcs are of the height of n and of validators.
RoundChanges(n, rcs) ==
    /\ rcs \in SUBSET Message
    /\ \A x \in rcs : /\ x = RoundChangeMsg(x.src, seq[n], x.round)
                      /\ x.src \in Validators[seq[n]]

\* Those a node holds are.
LEMMA RoundChangesHeld ==
    ASSUME Inv, NEW n \in Node
    PROVE  RoundChanges(n, roundChangeSet[n])
<1>1. roundChangeSet[n] \in SUBSET Message
  BY DEF Inv, TypeOK, MessageTypes
<1> QED
  BY <1>1, Zenon DEF Inv, CountsCurrentView, CountsCurrent, RoundChanges

\* A fresh round state.
LEMMA NewRoundStateStep ==
    ASSUME RoundTypes, NEW n \in Node, NEW lock \in Block \cup {None},
           NEW prop \in Block \cup {None}, NEW req \in Block \cup {None},
           NewRoundState(n, lock, prop, req)
    PROVE  /\ RoundTypes'
           /\ locked'[n] = lock /\ preprepare'[n] = prop /\ pendingRequest'[n] = req
           /\ prepares'[n] = {} /\ commits'[n] = {}
           /\ \A k \in Node \ {n} :
                 /\ locked'[k] = locked[k] /\ preprepare'[k] = preprepare[k]
                 /\ prepares'[k] = prepares[k] /\ commits'[k] = commits[k]
                 /\ pendingRequest'[k] = pendingRequest[k]
<1>1. /\ locked' = [locked EXCEPT ![n] = lock] /\ preprepare' = [preprepare EXCEPT ![n] = prop]
      /\ prepares' = [prepares EXCEPT ![n] = {}] /\ commits' = [commits EXCEPT ![n] = {}]
      /\ pendingRequest' = [pendingRequest EXCEPT ![n] = req]
  BY Zenon DEF NewRoundState
<1>2. /\ locked \in [Node -> Block \cup {None}] /\ preprepare \in [Node -> Block \cup {None}]
      /\ pendingRequest \in [Node -> Block \cup {None}]
      /\ prepares \in [Node -> SUBSET Node] /\ commits \in [Node -> SUBSET Message]
  BY Zenon DEF RoundTypes
<1>3. RoundTypes'
  BY <1>1, <1>2 DEF RoundTypes
<1> QED
  BY <1>1, <1>2, <1>3

-----------------------------------------------------------------------------
(* sendRoundChange and sendNextRoundChange.                                *)

\* A ROUND CHANGE to a later round: the lock is taken along, unless its block is bad.
LEMMA RoundChangeStep ==
    ASSUME Inv, NEW n \in Node, NEW r \in Rounds, r > round[n], NEW own \in SUBSET events[n],
           NEW lock, lock = locked[n],
           NEW rcs, RoundChanges(n, rcs),
           NEW st \in AcceptRequest .. Committed, state' = [state EXCEPT ![n] = st],
           SendRoundChange(n, r, lock, rcs, own), UNCHANGED chainVars
    PROVE  Inv'
<1> DEFINE keep == IsHashLocked(n, lock)
           l == IF keep THEN lock ELSE None
           p == IF keep THEN preprepare[n] ELSE None
           q == pendingRequest[n]
           m == RoundChangeMsg(n, seq[n], r)
           out == {m}
           left == Live(n, own, seq[n], r)
           rc == Clear(rcs, r)
<1>1. /\ TypeOK /\ ViewTypes /\ RoundTypes /\ MessageTypes /\ ChainTypes
      /\ MessageInv /\ RoundStateOf(n)
  BY Zenon DEF Inv, TypeOK, RoundStateInv
<1>2. /\ waiting' = [waiting EXCEPT ![n] = TRUE] /\ round' = [round EXCEPT ![n] = r]
      /\ roundChangeSet' = [roundChangeSet EXCEPT ![n] = rc] /\ Post(n, left, out)
      /\ seq' = seq /\ proposer' = proposer /\ pendingRequests' = pendingRequests
      /\ votes' = votes /\ chain' = chain /\ inserting' = inserting /\ bad' = bad
  BY Zenon DEF SendRoundChange, CatchUpRound, chainVars
<1>3. NewRoundState(n, l, p, q)
  BY Zenon DEF SendRoundChange, CatchUpRound, UpdateRoundState
<1>4. /\ l \in Block \cup {None} /\ p \in Block \cup {None} /\ q \in Block \cup {None}
      /\ p # None => p = preprepare[n]
  BY <1>1 DEF RoundTypes
<1>5. n \notin Unreliable => l = locked[n] /\ (l # None => p = l)
  <2>1. n \notin Unreliable => bad[n] = {} /\ (locked[n] # None => preprepare[n] = locked[n])
    BY Zenon DEF Inv, LockInv, LockedProposal
  <2> QED
    BY <2>1, Zenon DEF IsHashLocked
<1>6. out \in SUBSET Message /\ \A x \in out : Sound(x, votes', chain')
  BY <1>1 DEF ViewTypes, Sound, Message, RoundChangeMsg, Msg, Code
<1>7. left \in SUBSET events[n]
  BY DEF Live
<1>8. /\ rc \in SUBSET Message
      /\ \A x \in rc : /\ x = RoundChangeMsg(x.src, seq[n], x.round)
                       /\ x.src \in Validators[seq[n]] /\ x.round >= r
  BY DEF RoundChanges, Clear
<1> HIDE DEF keep, l, p, q, m, out, left, rc
<1>9. /\ RoundTypes'
      /\ locked'[n] = l /\ preprepare'[n] = p /\ pendingRequest'[n] = q
      /\ prepares'[n] = {} /\ commits'[n] = {}
      /\ \A k \in Node \ {n} :
            /\ locked'[k] = locked[k] /\ preprepare'[k] = preprepare[k]
            /\ prepares'[k] = prepares[k] /\ commits'[k] = commits[k]
            /\ pendingRequest'[k] = pendingRequest[k]
  BY <1>1, <1>3, <1>4, NewRoundStateStep, Zenon
<1>10. /\ ViewTypes'
       /\ round'[n] = r /\ waiting'[n] = TRUE /\ state'[n] = st
       /\ \A k \in Node \ {n} :
             round'[k] = round[k] /\ waiting'[k] = waiting[k] /\ state'[k] = state[k]
  BY <1>1, <1>2 DEF ViewTypes
<1>11. /\ roundChangeSet' \in [Node -> SUBSET Message] /\ roundChangeSet'[n] = rc
       /\ \A k \in Node \ {n} : roundChangeSet'[k] = roundChangeSet[k]
  BY <1>1, <1>2, <1>8 DEF MessageTypes
<1>12. /\ events' \in [Node -> SUBSET Message]
       /\ \A k \in Node : events'[k] \subseteq events[k] \cup out
  BY <1>1, <1>2, <1>6, <1>7, PostStep, Zenon
<1>13. TypeOK'
  BY <1>1, <1>2, <1>9, <1>10, <1>11, <1>12, Zenon DEF TypeOK, MessageTypes, ChainTypes
<1>14. GrowsOnly /\ ChainInv' /\ VoteInv' /\ NoDoubleVote'
  BY <1>2, SilentStep, Zenon DEF chainVars
<1>15. MessageInv'
  BY <1>1, <1>6, <1>12, <1>13, <1>14, MessageStep, Zenon
<1>16. Others(n)
  BY <1>2, <1>9, <1>10, <1>11, Zenon DEF Others
<1>17. RoundStateOf(n)'
  BY <1>1, <1>2, <1>4, <1>9, Zenon DEF RoundStateOf, q
<1>18. CountsCurrent(n)'
  BY <1>2, <1>8, <1>9, <1>10, <1>11 DEF CountsCurrent
<1>19. VotesKept(n)'
  <2> SUFFICES ASSUME n \notin Unreliable, NEW v \in votes, v.src = n
               PROVE  Kept(v, seq[n], r, TRUE, st, l)
    BY <1>2, <1>9, <1>10, Zenon DEF VotesKept, Kept, AcceptRequest
  <2>1. v.round \in Int /\ round[n] \in Int /\ r \in Int
    BY <1>1, BoundsAssumption DEF ViewTypes, MessageTypes, Message, Rounds
  <2>2. Kept(v, seq[n], round[n], waiting[n], state[n], locked[n])
    BY Zenon DEF Inv, LockInv, VotesKept
  <2> QED
    BY <1>5, <2>1, <2>2 DEF Kept
<1> QED
  BY <1>2, <1>5, <1>9, <1>13, <1>14, <1>15, <1>16, <1>17, <1>18, <1>19, CoreStep, Zenon

\* sendNextRoundChange preserves the invariant.
LEMMA NextRoundChangeStep ==
    ASSUME Inv, NEW n \in Node, NEW own \in SUBSET events[n], SendNextRoundChange(n, own)
    PROVE  Inv'
<1> DEFINE r == round[n] + 1
           lock == locked[n]
           rcs == roundChangeSet[n]
           st == state[n]
<1>1. SendRoundChange(n, r, lock, rcs, own) /\ UNCHANGED chainVars /\ state' = state
  BY Zenon DEF SendNextRoundChange
<1>2. r \in Rounds /\ r > round[n]
  <2>1. r \in Rounds
    BY <1>1, Zenon DEF SendRoundChange
  <2>2. round[n] \in Rounds
    BY DEF Inv, TypeOK, ViewTypes
  <2> QED
    BY <2>1, <2>2, BoundsAssumption DEF Rounds
<1>3. st \in AcceptRequest .. Committed /\ state' = [state EXCEPT ![n] = st]
  BY <1>1 DEF Inv, TypeOK, ViewTypes
<1>4. RoundChanges(n, rcs)
  BY RoundChangesHeld
<1>5. lock = locked[n]
  OBVIOUS
<1> HIDE DEF r, lock, rcs, st
<1> QED
  BY <1>1, <1>2, <1>3, <1>4, <1>5, RoundChangeStep, Zenon

-----------------------------------------------------------------------------
(* The steps that change views, propose or answer.                         *)

\* sendCommitForOldBlock: the COMMIT is about a block on the sender's chain.
LEMMA OldPreprepareStep ==
    ASSUME Inv, NEW n \in Node, NEW m \in events[n], HandleOldPreprepare(n, m)
    PROVE  Inv'
<1> DEFINE c == CommitMsg(n, m.seq, m.round, m.block, preprepare[n])
           holds == /\ Number[m.block] <= Height(n)
                    /\ chain[n][Number[m.block]].block = m.block
                    /\ m.src = CalcProposer(n, m.seq, m.round)
           out == IF holds THEN {c} ELSE {}
           own == events[n] \ {m}
<1>1. /\ UNCHANGED <<seq, round, state, waiting, roundVars, roundChangeSet, chainVars, votes>>
      /\ proposer' = proposer /\ pendingRequest' = pendingRequest
      /\ pendingRequests' = pendingRequests /\ chain' = chain
      /\ Post(n, own, out) /\ m.code = "PREPREPARE"
  BY Zenon DEF HandleOldPreprepare, chainVars
<1>2. TypeOK /\ RoundTypes /\ MessageTypes /\ MessageInv
  BY Zenon DEF Inv, TypeOK
<1>3. m \in Message /\ Sound(m, votes, chain) /\ preprepare[n] \in Block \cup {None}
  BY <1>2 DEF MessageTypes, RoundTypes, MessageInv
<1>4. m.block \in Block /\ Number[m.block] = m.seq
  BY <1>1, <1>3, Zenon DEF Sound
<1>5. /\ c \in Message /\ c.code = "COMMIT" /\ c.block = m.block /\ c.seq = m.seq
      /\ c.src = n
  BY <1>3 DEF Message, CommitMsg, Msg, Code
<1>6. holds => Sound(c, votes', chain')
  <2> HIDE DEF c
  <2> QED
    BY <1>1, <1>4, <1>5 DEF Sound, Evidence, Height
<1>7. own \in SUBSET events[n] /\ out \in SUBSET Message /\ \A x \in out : Sound(x, votes', chain')
  <2> HIDE DEF c, holds
  <2> QED
    BY <1>5, <1>6
<1> HIDE DEF out, own
<1>8. /\ events' \in [Node -> SUBSET Message]
      /\ \A k \in Node : events'[k] \subseteq events[k] \cup out
  BY <1>1, <1>2, <1>7, PostStep, Zenon
<1>9. TypeOK'
  BY <1>1, <1>2, <1>8, Zenon DEF TypeOK, ViewTypes, RoundTypes, MessageTypes, ChainTypes,
                                 roundVars, chainVars
<1>10. MessageInv'
  <2>1. GrowsOnly
    BY <1>1, SilentStep, Zenon
  <2> QED
    BY <1>2, <1>7, <1>8, <1>9, <2>1, MessageStep, Zenon
<1>11. \A k \in Node : pendingRequest'[k] # None => Number[pendingRequest'[k]] = seq[k]
  BY <1>1, Zenon DEF Inv, RoundStateInv, RoundStateOf
<1> QED
  BY <1>1, <1>9, <1>10, <1>11, IdleStep, Zenon

-----------------------------------------------------------------------------
(* startNewRound and Start.                                                *)

\* Node n enters view (s, r) afresh: what startNewRound and Start have in common.
FreshView(n, s, r, lock, prop, req, out, ins) ==
    /\ seq' = [seq EXCEPT ![n] = s]
    /\ round' = [round EXCEPT ![n] = r]
    /\ waiting' = [waiting EXCEPT ![n] = FALSE]
    /\ state' = [state EXCEPT ![n] = AcceptRequest]
    /\ proposer' = [proposer EXCEPT ![n] = CalcProposer(n, s, r)]
    /\ NewRoundState(n, lock, prop, req)
    /\ roundChangeSet' = [roundChangeSet EXCEPT ![n] = {}]
    /\ pendingRequests' \in [Node -> SUBSET Block]
    /\ events' \in [Node -> SUBSET Message]
    /\ \A k \in Node : events'[k] \subseteq events[k] \cup out
    /\ inserting' = [inserting EXCEPT ![n] = ins]
    /\ chain' = chain /\ bad' = bad /\ votes' = votes

\* What has to hold of the values it enters the view with.
FreshValues(n, s, r, lock, prop, req, out, ins) ==
    /\ lock \in Block \cup {None} /\ prop \in Block \cup {None} /\ req \in Block \cup {None}
    /\ prop # None => Number[prop] = s
    /\ req # None => Number[req] = s
    /\ n \notin Unreliable /\ lock # None => prop = lock
    /\ n \notin Unreliable => \A v \in votes : v.src = n =>
          Kept(v, s, r, FALSE, AcceptRequest, lock)
    /\ \A m \in out : m.code = "PREPREPARE" /\ m.block \in Block /\ Number[m.block] = m.seq
    /\ ins \in {None, inserting[n]}

\* The view of n, and what the others keep.
LEMMA FreshViewTypes ==
    ASSUME ViewTypes, NEW n \in Node, NEW s \in Seqs, NEW r \in Rounds,
           seq' = [seq EXCEPT ![n] = s], round' = [round EXCEPT ![n] = r],
           waiting' = [waiting EXCEPT ![n] = FALSE],
           state' = [state EXCEPT ![n] = AcceptRequest],
           proposer' = [proposer EXCEPT ![n] = CalcProposer(n, s, r)]
    PROVE  /\ ViewTypes'
           /\ seq'[n] = s /\ round'[n] = r /\ waiting'[n] = FALSE /\ state'[n] = AcceptRequest
           /\ \A k \in Node \ {n} :
                 /\ seq'[k] = seq[k] /\ round'[k] = round[k] /\ waiting'[k] = waiting[k]
                 /\ state'[k] = state[k]
<1>1. CalcProposer(n, s, r) \in Validators[s] /\ Validators[s] \subseteq Node
  BY ProposerIsValidator, ValidatorsSize DEF CalcProposer
<1>2. AcceptRequest \in AcceptRequest .. Committed
  BY DEF AcceptRequest, Committed
<1>3. /\ seq \in [Node -> Seqs] /\ round \in [Node -> Rounds]
      /\ state \in [Node -> AcceptRequest .. Committed] /\ waiting \in [Node -> BOOLEAN]
      /\ proposer \in [Node -> Node] /\ \A k \in Node : proposer[k] \in Validators[seq[k]]
  BY Zenon DEF ViewTypes
<1>4. proposer' \in [Node -> Node] /\ \A k \in Node : proposer'[k] \in Validators[seq'[k]]
  BY <1>1, <1>3
<1>5. /\ seq' \in [Node -> Seqs] /\ round' \in [Node -> Rounds]
      /\ state' \in [Node -> AcceptRequest .. Committed] /\ waiting' \in [Node -> BOOLEAN]
  BY <1>2, <1>3
<1>6. ViewTypes'
  BY <1>4, <1>5, Zenon DEF ViewTypes
<1> QED
  BY <1>3, <1>6

\* Entering a view afresh preserves the invariant.
LEMMA FreshViewStep ==
    ASSUME Inv, NEW n \in Node, NEW s \in Seqs, NEW r \in Rounds,
           NEW lock, NEW prop, NEW req, NEW out, NEW ins,
           FreshValues(n, s, r, lock, prop, req, out, ins),
           FreshView(n, s, r, lock, prop, req, out, ins)
    PROVE  Inv'
<1>1. /\ TypeOK /\ ViewTypes /\ RoundTypes /\ MessageTypes /\ ChainTypes /\ MessageInv
      /\ WrittenInv /\ InsertingInv /\ VoteInv /\ NoDoubleVote
  BY Zenon DEF Inv, TypeOK, ChainInv
<1>2. /\ chain' = chain /\ bad' = bad /\ votes' = votes
      /\ inserting' = [inserting EXCEPT ![n] = ins] /\ ins \in {None, inserting[n]}
      /\ roundChangeSet' = [roundChangeSet EXCEPT ![n] = {}]
  BY Zenon DEF FreshView, FreshValues
<1>3. /\ pendingRequests' \in [Node -> SUBSET Block] /\ events' \in [Node -> SUBSET Message]
      /\ \A k \in Node : events'[k] \subseteq events[k] \cup out
      /\ \A m \in out : Sound(m, votes', chain')
  BY Zenon DEF FreshView, FreshValues, Sound
<1>4. /\ ViewTypes'
      /\ seq'[n] = s /\ round'[n] = r /\ waiting'[n] = FALSE /\ state'[n] = AcceptRequest
      /\ \A k \in Node \ {n} :
            /\ seq'[k] = seq[k] /\ round'[k] = round[k] /\ waiting'[k] = waiting[k]
            /\ state'[k] = state[k]
  BY <1>1, FreshViewTypes, Zenon DEF FreshView
<1>5. /\ RoundTypes'
      /\ locked'[n] = lock /\ preprepare'[n] = prop /\ pendingRequest'[n] = req
      /\ prepares'[n] = {} /\ commits'[n] = {}
      /\ \A k \in Node \ {n} :
            /\ locked'[k] = locked[k] /\ preprepare'[k] = preprepare[k]
            /\ prepares'[k] = prepares[k] /\ commits'[k] = commits[k]
            /\ pendingRequest'[k] = pendingRequest[k]
  BY <1>1, NewRoundStateStep, Zenon DEF FreshView, FreshValues
<1>6. /\ roundChangeSet' \in [Node -> SUBSET Message] /\ roundChangeSet'[n] = {}
      /\ \A k \in Node \ {n} : roundChangeSet'[k] = roundChangeSet[k]
  BY <1>1, <1>2 DEF MessageTypes
<1>7. /\ \A k \in Node : inserting'[k] \in {None, inserting[k]}
      /\ inserting' \in [Node -> [block : Block, valid : BOOLEAN, verify : BOOLEAN] \cup {None}]
  BY <1>1, <1>2 DEF ChainTypes
<1>8. TypeOK'
  BY <1>1, <1>2, <1>3, <1>4, <1>5, <1>6, <1>7, Zenon DEF TypeOK, MessageTypes, ChainTypes
<1>9. GrowsOnly /\ VoteInv' /\ NoDoubleVote'
  <2>1. \A k \in Node : Len(chain[k]) \in Nat
    BY <1>1, ChainLengths, Zenon
  <2>2. GrowsOnly
    BY <1>2, <2>1 DEF GrowsOnly
  <2> QED
    BY <1>1, <1>2, <2>2, Zenon DEF VoteInv, NoDoubleVote
<1>10. ChainInv'
  <2>1. WrittenInv'
    BY <1>1, <1>2 DEF WrittenInv, Height
  <2>2. InsertingInv'
    BY <1>1, <1>2, <1>7 DEF InsertingInv
  <2> QED
    BY <2>1, <2>2 DEF ChainInv
<1>11. MessageInv'
  BY <1>1, <1>3, <1>8, <1>9, MessageStep, Zenon
<1>12. Others(n)
  BY <1>4, <1>5, <1>6, Zenon DEF Others
<1>13. RoundStateOf(n)' /\ CountsCurrent(n)'
  BY <1>4, <1>5, <1>6, Zenon DEF RoundStateOf, CountsCurrent, FreshValues
<1>14. VotesKept(n)' /\ (n \notin Unreliable /\ locked'[n] # None => preprepare'[n] = locked'[n])
  BY <1>2, <1>4, <1>5, Zenon DEF VotesKept, FreshValues, Kept, AcceptRequest
<1> QED
  BY <1>2, <1>8, <1>9, <1>10, <1>11, <1>12, <1>13, <1>14, CoreStep, Zenon

\* startNewRound on a new head.
LEMMA NewSequenceStep ==
    ASSUME Inv, NEW n \in Node, NEW own \in SUBSET events[n], NewSequence(n, own)
    PROVE  Inv'
<1> DEFINE s == Height(n) + 1
           out == {}
           left == Live(n, own, s, 0)
<1>1. TypeOK /\ ViewTypes /\ MessageTypes /\ ChainTypes /\ VotesKept(n)
  BY Zenon DEF Inv, TypeOK, LockInv
<1>2. s \in Seqs /\ 0 \in Rounds /\ s > seq[n]
  <2>1. Height(n) \in 0 .. MaxSeq
    BY HeightBound
  <2>2. seq[n] \in Seqs
    BY <1>1 DEF ViewTypes
  <2>3. Height(n) >= seq[n]
    BY DEF NewSequence
  <2> QED
    BY <2>1, <2>2, <2>3, BoundsAssumption DEF Seqs, Rounds
<1>3. /\ seq' = [seq EXCEPT ![n] = s] /\ round' = [round EXCEPT ![n] = 0]
      /\ waiting' = [waiting EXCEPT ![n] = FALSE]
      /\ state' = [state EXCEPT ![n] = AcceptRequest]
      /\ proposer' = [proposer EXCEPT ![n] = CalcProposer(n, s, 0)]
      /\ roundChangeSet' = [roundChangeSet EXCEPT ![n] = {}]
      /\ chain' = chain /\ inserting' = inserting /\ bad' = bad /\ votes' = votes
      /\ Post(n, left, out)
      /\ pendingRequests' = [pendingRequests EXCEPT ![n] = {b \in @ : Number[b] > Height(n)}]
  BY Zenon DEF NewSequence, EnterView, chainVars
<1>4. NewRoundState(n, None, None, None)
  BY DEF NewSequence, UpdateRoundState
<1>5. pendingRequests' \in [Node -> SUBSET Block]
  BY <1>1, <1>3 DEF MessageTypes
<1>6. left \in SUBSET events[n] /\ out \in SUBSET Message
  BY DEF Live
<1>7. n \notin Unreliable => \A v \in votes : v.src = n => Kept(v, s, 0, FALSE, AcceptRequest, None)
  <2>1. seq[n] \in Int /\ s \in Int /\ \A v \in votes : v.seq \in Int
    BY <1>1, <1>2, BoundsAssumption DEF ViewTypes, MessageTypes, Message, Seqs
  <2> HIDE DEF s
  <2> QED
    BY <1>1, <1>2, <2>1 DEF VotesKept, Kept
<1>8. FreshValues(n, s, 0, None, None, None, out, inserting[n])
  BY <1>7, Zenon DEF FreshValues
<1>9. inserting' = [inserting EXCEPT ![n] = inserting[n]]
  BY <1>1, <1>3 DEF ChainTypes
<1> HIDE DEF out, s, left
<1>10. /\ events' \in [Node -> SUBSET Message]
       /\ \A k \in Node : events'[k] \subseteq events[k] \cup out
  BY <1>1, <1>3, <1>6, PostStep, Zenon
<1>11. FreshView(n, s, 0, None, None, None, out, inserting[n])
  BY <1>3, <1>4, <1>5, <1>9, <1>10, Zenon DEF FreshView
<1> QED
  BY <1>2, <1>8, <1>11, FreshViewStep, Zenon

\* startNewRound of a round change: the lock and its proposal are kept.
LEMMA NewRoundStep ==
    ASSUME Inv, NEW n \in Node, NEW r \in Rounds, NEW own \in SUBSET events[n],
           r > round[n] \/ (r = round[n] /\ waiting[n]), NewRound(n, r, own)
    PROVE  Inv'
<1> DEFINE s == seq[n]
           keep == IsHashLocked(n, locked[n])
           lock == IF keep THEN locked[n] ELSE None
           prop == IF keep THEN preprepare[n] ELSE None
           req == pendingRequest[n]
           ins == inserting[n]
           p == PreprepareMsg(n, s, r, Reproposal(n))
           out == IF CalcProposer(n, s, r) = n /\ Reproposal(n) # None THEN {p} ELSE {}
           left == Live(n, own, s, r)
<1>1. /\ TypeOK /\ ViewTypes /\ RoundTypes /\ MessageTypes /\ ChainTypes
      /\ RoundStateOf(n) /\ VotesKept(n)
      /\ n \notin Unreliable => bad[n] = {} /\ (locked[n] # None => preprepare[n] = locked[n])
  BY Zenon DEF Inv, TypeOK, RoundStateInv, LockInv, LockedProposal
<1>2. /\ seq' = [seq EXCEPT ![n] = s] /\ round' = [round EXCEPT ![n] = r]
      /\ waiting' = [waiting EXCEPT ![n] = FALSE]
      /\ state' = [state EXCEPT ![n] = AcceptRequest]
      /\ proposer' = [proposer EXCEPT ![n] = CalcProposer(n, s, r)]
      /\ roundChangeSet' = [roundChangeSet EXCEPT ![n] = {}]
      /\ chain' = chain /\ inserting' = inserting /\ bad' = bad /\ votes' = votes
      /\ pendingRequests' = pendingRequests /\ Post(n, left, out)
  BY Zenon DEF NewRound, EnterView, chainVars
<1>3. NewRoundState(n, lock, prop, req)
  BY Zenon DEF NewRound, UpdateRoundState
<1>4. s \in Seqs /\ left \in SUBSET events[n]
  BY <1>1 DEF ViewTypes, Live
<1>5. /\ locked[n] \in Block \cup {None} /\ preprepare[n] \in Block \cup {None}
      /\ req \in Block \cup {None}
      /\ preprepare[n] # None => Number[preprepare[n]] = s
      /\ req # None => Number[req] = s
  BY <1>1 DEF RoundTypes, RoundStateOf
<1>6. /\ lock \in Block \cup {None} /\ prop \in Block \cup {None}
      /\ prop # None => Number[prop] = s
      /\ n \notin Unreliable => lock = locked[n] /\ (lock # None => prop = lock)
  <2>1. n \notin Unreliable /\ locked[n] # None => keep
    BY <1>1, Zenon DEF IsHashLocked
  <2> HIDE DEF keep, s
  <2> QED
    BY <1>1, <1>5, <2>1
<1>7. Reproposal(n) # None => Reproposal(n) \in Block /\ Number[Reproposal(n)] = s
  BY <1>5, Zenon DEF Reproposal
<1>8. out \in SUBSET Message
      /\ \A m \in out : m.code = "PREPREPARE" /\ m.block \in Block /\ Number[m.block] = m.seq
  <2> DEFINE b == Reproposal(n)
  <2> HIDE DEF b
  <2>1. b # None => p \in Message /\ p.code = "PREPREPARE" /\ p.block = b /\ p.seq = s
    BY <1>4, <1>7 DEF PreprepareMsg, Msg, Message, Code, b
  <2> HIDE DEF p, s
  <2> QED
    BY <1>7, <2>1 DEF b
<1>9. n \notin Unreliable => \A v \in votes : v.src = n => Kept(v, s, r, FALSE, AcceptRequest, lock)
  <2>1. round[n] \in Int /\ r \in Int /\ \A v \in votes : v.round \in Int
    BY <1>1, BoundsAssumption DEF ViewTypes, MessageTypes, Message, Rounds
  <2> HIDE DEF lock
  <2> QED
    BY <1>1, <1>6, <2>1 DEF VotesKept, Kept
<1>10. inserting' = [inserting EXCEPT ![n] = ins]
  BY <1>1, <1>2 DEF ChainTypes
<1>11. pendingRequests' \in [Node -> SUBSET Block] /\ ins \in {None, inserting[n]}
  BY <1>1, <1>2, Zenon DEF MessageTypes
<1> HIDE DEF s, lock, prop, req, ins, out, left
<1>12. /\ events' \in [Node -> SUBSET Message]
       /\ \A k \in Node : events'[k] \subseteq events[k] \cup out
  BY <1>1, <1>2, <1>4, <1>8, PostStep, Zenon
<1>13. FreshView(n, s, r, lock, prop, req, out, ins)
  BY <1>2, <1>3, <1>10, <1>11, <1>12, Zenon DEF FreshView
<1>14. FreshValues(n, s, r, lock, prop, req, out, ins)
  BY <1>5, <1>6, <1>8, <1>9, <1>11, Zenon DEF FreshValues
<1> QED
  BY <1>4, <1>13, <1>14, FreshViewStep, Zenon

\* Start after Stop: only a node that is not reliable forgets its lock that way.
LEMMA RestartStep ==
    ASSUME Inv, NEW n \in Node, Restart(n)
    PROVE  Inv'
<1> DEFINE s == Height(n) + 1
           out == {}
<1>0. PICK kept \in SUBSET events[n] : events' = [events EXCEPT ![n] = kept]
  BY Zenon DEF Restart
<1>1. s \in Seqs /\ 0 \in Rounds
  BY HeightBound, BoundsAssumption DEF Seqs, Rounds
<1>2. /\ seq' = [seq EXCEPT ![n] = s] /\ round' = [round EXCEPT ![n] = 0]
      /\ waiting' = [waiting EXCEPT ![n] = FALSE]
      /\ state' = [state EXCEPT ![n] = AcceptRequest]
      /\ proposer' = [proposer EXCEPT ![n] = CalcProposer(n, s, 0)]
      /\ roundChangeSet' = [roundChangeSet EXCEPT ![n] = {}]
      /\ pendingRequests' = [pendingRequests EXCEPT ![n] = {}]
      /\ chain' = chain /\ bad' = bad /\ votes' = votes /\ n \in Unreliable
  BY Zenon DEF Restart
<1>3. NewRoundState(n, None, None, None)
  BY DEF Restart, UpdateRoundState
<1>4. PICK ins \in {None, inserting[n]} : inserting' = [inserting EXCEPT ![n] = ins]
  BY Zenon DEF Restart
<1>5. /\ pendingRequests' \in [Node -> SUBSET Block]
      /\ events' \in [Node -> SUBSET Message]
      /\ \A k \in Node : events'[k] \subseteq events[k] \cup out
  <2>1. events \in [Node -> SUBSET Message] /\ pendingRequests \in [Node -> SUBSET Block]
    BY Zenon DEF Inv, TypeOK, MessageTypes
  <2> QED
    BY <1>0, <1>2, <2>1
<1>6. FreshValues(n, s, 0, None, None, None, out, ins)
  BY <1>2, Zenon DEF FreshValues
<1> HIDE DEF out, s
<1>7. FreshView(n, s, 0, None, None, None, out, ins)
  BY <1>2, <1>3, <1>4, <1>5, Zenon DEF FreshView
<1> QED
  BY <1>1, <1>6, <1>7, FreshViewStep, Zenon

-----------------------------------------------------------------------------
(* Requests, ROUND CHANGEs and timeouts.                                   *)

\* A request of the current sequence is proposed or kept.
LEMMA ProposeStep ==
    ASSUME Inv, NEW n \in Node, NEW b \in Block, Number[b] = seq[n],
           NEW others \in SUBSET Block, Propose(n, b, others)
    PROVE  Inv'
<1> DEFINE p == PreprepareMsg(n, seq[n], round[n], b)
           out == IF state[n] = AcceptRequest /\ proposer[n] = n THEN {p} ELSE {}
           own == events[n]
<1>1. /\ UNCHANGED <<seq, round, state, waiting, roundVars, roundChangeSet, chainVars, votes>>
      /\ proposer' = proposer /\ pendingRequest' = [pendingRequest EXCEPT ![n] = b]
      /\ pendingRequests' = [pendingRequests EXCEPT ![n] = others]
      /\ Post(n, own, out)
  BY Zenon DEF Propose
<1>2. TypeOK /\ ViewTypes /\ RoundTypes /\ MessageTypes /\ MessageInv
  BY Zenon DEF Inv, TypeOK
<1>3. /\ p \in Message /\ p.code = "PREPREPARE" /\ p.block = b /\ p.seq = seq[n]
      /\ own \in SUBSET events[n]
  BY <1>2 DEF ViewTypes, Message, PreprepareMsg, Msg, Code
<1>4. out \in SUBSET Message /\ \A x \in out : Sound(x, votes', chain')
  <2> HIDE DEF p
  <2> QED
    BY <1>3 DEF Sound
<1> HIDE DEF p, out, own
<1>5. /\ events' \in [Node -> SUBSET Message]
      /\ \A k \in Node : events'[k] \subseteq events[k] \cup out
  BY <1>1, <1>2, <1>3, <1>4, PostStep, Zenon
<1>6. /\ pendingRequest' \in [Node -> Block \cup {None}] /\ pendingRequest'[n] = b
      /\ \A k \in Node \ {n} : pendingRequest'[k] = pendingRequest[k]
      /\ pendingRequests' \in [Node -> SUBSET Block]
  BY <1>1, <1>2 DEF RoundTypes, MessageTypes
<1>7. TypeOK'
  BY <1>1, <1>2, <1>5, <1>6, Zenon DEF TypeOK, ViewTypes, RoundTypes, MessageTypes, ChainTypes,
                                       roundVars, chainVars
<1>8. MessageInv'
  <2>1. GrowsOnly
    BY <1>1, SilentStep, Zenon
  <2> QED
    BY <1>2, <1>4, <1>5, <1>7, <2>1, MessageStep, Zenon
<1>9. \A k \in Node : pendingRequest'[k] # None => Number[pendingRequest'[k]] = seq[k]
  BY <1>6, Zenon DEF Inv, RoundStateInv, RoundStateOf
<1> QED
  BY <1>1, <1>7, <1>8, <1>9, IdleStep, Zenon

\* A request from Seal, for this sequence or a later one.
LEMMA RequestStep ==
    ASSUME Inv, NEW n \in Node, NEW b \in Block, HandleRequest(n, b)
    PROVE  Inv'
<1>1. CASE Number[b] = seq[n] /\ Propose(n, b, pendingRequests[n])
  <2>1. pendingRequests[n] \in SUBSET Block
    BY DEF Inv, TypeOK, MessageTypes
  <2> QED
    BY <1>1, <2>1, ProposeStep, Zenon
<1>2. CASE /\ pendingRequests' = [pendingRequests EXCEPT ![n] = @ \cup {b}]
           /\ UNCHANGED <<seq, round, state, waiting, proposer, roundVars, pendingRequest,
                          roundChangeSet, events, chainVars, votes>>
  <2>1. pendingRequests' \in [Node -> SUBSET Block]
    BY <1>2 DEF Inv, TypeOK, MessageTypes
  <2>2. TypeOK'
    BY <1>2, <2>1, Zenon DEF Inv, TypeOK, ViewTypes, RoundTypes, MessageTypes, ChainTypes,
                             roundVars, chainVars
  <2>3. MessageInv'
    BY <1>2, Zenon DEF Inv, MessageInv, chainVars
  <2>4. \A k \in Node : pendingRequest'[k] # None => Number[pendingRequest'[k]] = seq[k]
    BY <1>2, Zenon DEF Inv, RoundStateInv, RoundStateOf
  <2>5. UNCHANGED <<seq, round, state, waiting, roundVars, roundChangeSet, chainVars, votes>>
    BY <1>2, Zenon
  <2> QED
    BY <2>2, <2>3, <2>4, <2>5, IdleStep, Zenon
<1> QED
  BY <1>1, <1>2, Zenon DEF HandleRequest

\* A ROUND CHANGE is only counted.
LEMMA RoundChangeAddStep ==
    ASSUME Inv, NEW n \in Node, NEW m \in events[n], m.code = "ROUNDCHANGE",
           m.seq = seq[n], m.round >= round[n], m.src \in Validators[seq[n]],
           roundChangeSet' = [roundChangeSet EXCEPT ![n] = @ \cup {m}],
           Post(n, events[n] \ {m}, {}),
           UNCHANGED <<seq, round, state, waiting, proposer, roundVars, pendingRequest,
                       pendingRequests, chainVars, votes>>
    PROVE  Inv'
<1> DEFINE out == {}
           own == events[n] \ {m}
<1>1. /\ seq' = seq /\ round' = round /\ state' = state /\ waiting' = waiting
      /\ preprepare' = preprepare /\ prepares' = prepares /\ commits' = commits
      /\ locked' = locked /\ pendingRequest' = pendingRequest /\ chain' = chain
      /\ bad' = bad /\ votes' = votes
  BY Zenon DEF roundVars, chainVars
<1>2. /\ TypeOK /\ MessageTypes /\ MessageInv /\ RoundStateOf(n) /\ CountsCurrent(n)
      /\ VotesKept(n) /\ LockedProposal
  BY Zenon DEF Inv, TypeOK, RoundStateInv, CountsCurrentView, LockInv
<1>3. m \in Message /\ m = RoundChangeMsg(m.src, seq[n], m.round)
  BY <1>2 DEF MessageTypes, MessageInv, Sound
<1>4. /\ roundChangeSet' \in [Node -> SUBSET Message]
      /\ roundChangeSet'[n] = roundChangeSet[n] \cup {m}
      /\ \A k \in Node \ {n} : roundChangeSet'[k] = roundChangeSet[k]
  BY <1>2, <1>3 DEF MessageTypes
<1>5. out \in SUBSET Message /\ own \in SUBSET events[n] /\ Post(n, own, out)
      /\ \A x \in out : Sound(x, votes', chain')
  OBVIOUS
<1> HIDE DEF out, own
<1>6. /\ events' \in [Node -> SUBSET Message]
      /\ \A k \in Node : events'[k] \subseteq events[k] \cup out
  BY <1>2, <1>5, PostStep, Zenon
<1>7. TypeOK'
  BY <1>2, <1>4, <1>6, Zenon DEF TypeOK, ViewTypes, RoundTypes, MessageTypes, ChainTypes,
                                 roundVars, chainVars
<1>8. GrowsOnly /\ ChainInv' /\ VoteInv' /\ NoDoubleVote'
  BY SilentStep, Zenon
<1>9. MessageInv'
  BY <1>2, <1>5, <1>6, <1>7, <1>8, MessageStep, Zenon
<1>10. CountsCurrent(n)'
  BY <1>1, <1>2, <1>3, <1>4 DEF CountsCurrent
<1>11. RoundStateOf(n)' /\ VotesKept(n)' /\ Others(n)
  BY <1>1, <1>2, <1>4, Zenon DEF RoundStateOf, VotesKept, Others
<1>12. n \notin Unreliable /\ locked'[n] # None => preprepare'[n] = locked'[n]
  BY <1>1, <1>2, Zenon DEF LockedProposal
<1> QED
  BY <1>1, <1>7, <1>8, <1>9, <1>10, <1>11, <1>12, CoreStep, Zenon

\* A block is recorded as bad.
LEMMA BadBlockStep ==
    ASSUME Inv, NEW n \in Node, NEW b \in Block, ReportBadBlock(n, b)
    PROVE  Inv'
<1>1. /\ n \in Unreliable /\ bad' = [bad EXCEPT ![n] = @ \cup {b}]
      /\ UNCHANGED <<coreVars, events, chain, inserting, votes>>
  BY Zenon DEF ReportBadBlock
<1>2. bad \in [Node -> SUBSET Block] /\ TypeOK
  BY Zenon DEF Inv, TypeOK, ChainTypes
<1>3. bad' \in [Node -> SUBSET Block] /\ \A k \in Node \ {n} : bad'[k] = bad[k]
  BY <1>1, <1>2
<1>4. TypeOK'
  BY <1>1, <1>2, <1>3, Zenon DEF TypeOK, ViewTypes, RoundTypes, MessageTypes, ChainTypes,
                                 coreVars, roundVars
<1>5. ChainInv' /\ VoteInv' /\ NoDoubleVote'
  BY <1>1, Zenon DEF Inv, ChainInv, WrittenInv, InsertingInv, VoteInv, NoDoubleVote, Height
<1>6. MessageInv' /\ RoundStateInv' /\ CountsCurrentView' /\ LockedProposal'
  <2>1. /\ seq' = seq /\ round' = round /\ state' = state /\ waiting' = waiting
        /\ preprepare' = preprepare /\ prepares' = prepares /\ commits' = commits
        /\ locked' = locked /\ pendingRequest' = pendingRequest
        /\ roundChangeSet' = roundChangeSet /\ events' = events
        /\ chain' = chain /\ votes' = votes
    BY <1>1, Zenon DEF coreVars, roundVars
  <2>2. MessageInv' /\ RoundStateInv'
    BY <2>1, Zenon DEF Inv, MessageInv, RoundStateInv, RoundStateOf
  <2>3. CountsCurrentView'
    <3>1. SUFFICES ASSUME NEW k \in Node PROVE CountsCurrent(k)'
      BY Zenon DEF CountsCurrentView
    <3>2. CountsCurrent(k)
      BY Zenon DEF Inv, CountsCurrentView
    <3> QED
      BY <2>1, <3>2 DEF CountsCurrent
  <2>4. LockedProposal'
    BY <2>1, Zenon DEF Inv, LockedProposal
  <2> QED
    BY <2>2, <2>3, <2>4, Zenon
<1>7. LockInv'
  <2>1. \A k \in Node \ Unreliable : bad'[k] = {}
    BY <1>1, <1>3, Zenon DEF Inv, LockInv
  <2> QED
    BY <1>1, <2>1, Zenon DEF Inv, LockInv, VotesKept, coreVars, roundVars
<1> QED
  BY <1>4, <1>5, <1>6, <1>7, Zenon DEF Inv

\* handleRoundChange preserves the invariant.
LEMMA RoundChangeMsgStep ==
    ASSUME Inv, NEW n \in Node, NEW m \in events[n], HandleRoundChange(n, m)
    PROVE  Inv'
<1> DEFINE own == events[n] \ {m}
           rcs == roundChangeSet[n] \cup {m}
           num == Cardinality({x \in rcs : x.round = m.round})
           weak == waiting[n] /\ num = F[seq[n]] + 1
           quorum == ~weak /\ StartsRound(n, m.round, num)
<1>1. /\ m.code = "ROUNDCHANGE" /\ IsCurrent(n, m) /\ own \in SUBSET events[n]
      /\ m.src \in Validators[seq[n]]
  BY Zenon DEF HandleRoundChange, Accepts
<1>2. m \in Message /\ m.seq = seq[n] /\ m.round >= round[n]
  BY <1>1, CurrentMessage DEF Inv
<1>3. m = RoundChangeMsg(m.src, seq[n], m.round)
  BY <1>1, <1>2, Zenon DEF Inv, MessageInv, Sound
<1>4. m.round \in Rounds /\ round[n] \in Rounds
  BY <1>2 DEF Inv, TypeOK, ViewTypes, Message
<1>5. CASE /\ weak /\ round[n] < m.round
           /\ SendRoundChange(n, m.round, locked[n], rcs, own)
           /\ UNCHANGED <<state, chainVars>>
  <2> DEFINE r == m.round
             lock == locked[n]
             st == state[n]
  <2>1. RoundChanges(n, rcs)
    BY <1>1, <1>2, <1>3, RoundChangesHeld DEF RoundChanges
  <2>2. st \in AcceptRequest .. Committed /\ state' = [state EXCEPT ![n] = st]
    BY <1>5 DEF Inv, TypeOK, ViewTypes
  <2>3. r \in Rounds /\ r > round[n]
    BY <1>4, <1>5, BoundsAssumption DEF Rounds
  <2>4. /\ lock = locked[n] /\ SendRoundChange(n, r, lock, rcs, own)
        /\ UNCHANGED chainVars
    BY <1>5, Zenon
  <2> HIDE DEF own, r, lock, rcs, st
  <2> QED
    BY <1>1, <2>1, <2>2, <2>3, <2>4, RoundChangeStep, Zenon
<1>6. CASE quorum /\ StartNewRound(n, m.round, own)
  <2>1. CASE NewSequence(n, own)
    BY <1>1, <2>1, NewSequenceStep, Zenon
  <2>2. CASE NewRound(n, m.round, own)
    <3> DEFINE r == m.round
    <3>1. r \in Rounds /\ (r > round[n] \/ (r = round[n] /\ waiting[n]))
      BY <1>2, <1>4, <1>6, BoundsAssumption DEF StartsRound, Rounds
    <3>2. NewRound(n, r, own)
      BY <2>2
    <3> HIDE DEF r, own
    <3> QED
      BY <1>1, <3>1, <3>2, NewRoundStep, Zenon
  <2> QED
    BY <1>6, <2>1, <2>2 DEF StartNewRound
<1>7. CASE /\ roundChangeSet' = [roundChangeSet EXCEPT ![n] = rcs]
           /\ Post(n, own, {})
           /\ UNCHANGED <<seq, round, state, waiting, proposer, roundVars, pendingRequest,
                          pendingRequests, chainVars, votes>>
  BY <1>1, <1>2, <1>7, RoundChangeAddStep, Zenon
<1> QED
  BY <1>5, <1>6, <1>7, Zenon DEF HandleRoundChange

\* handleTimeoutMsg preserves the invariant.
LEMMA TimeoutStep ==
    ASSUME Inv, NEW n \in Node, HandleTimeout(n)
    PROVE  Inv'
<1> DEFINE own == events[n]
           rcs == roundChangeSet[n]
           lock == locked[n]
           st == state[n]
           ahead == IF waiting[n] THEN {}
                    ELSE {r \in RoundsWith(n, F[seq[n]] + 1) : r > round[n]}
<1>0. own \in SUBSET events[n]
  OBVIOUS
<1>1. ASSUME NEW r \in ahead, SendRoundChange(n, r, lock, rcs, own), UNCHANGED <<state, chainVars>>
      PROVE  Inv'
  <2>1. r \in Rounds /\ r > round[n]
    BY <1>1 DEF RoundsWith
  <2>2. RoundChanges(n, rcs)
    BY RoundChangesHeld
  <2>3. st \in AcceptRequest .. Committed /\ state' = [state EXCEPT ![n] = st]
    BY <1>1 DEF Inv, TypeOK, ViewTypes
  <2>4. lock = locked[n]
    OBVIOUS
  <2> HIDE DEF own, rcs, lock, st, ahead
  <2> QED
    BY <1>0, <1>1, <2>1, <2>2, <2>3, <2>4, RoundChangeStep, Zenon
<1>2. CASE NewSequence(n, own)
  BY <1>0, <1>2, NewSequenceStep, Zenon
<1>3. CASE SendNextRoundChange(n, own)
  BY <1>0, <1>3, NextRoundChangeStep, Zenon
<1> QED
  BY <1>1, <1>2, <1>3, Zenon DEF HandleTimeout

-----------------------------------------------------------------------------
(* The steps that write blocks.                                            *)

\* A step of the chain changes nothing of a core.
LEMMA CoreIdle ==
    ASSUME Inv, TypeOK', GrowsOnly, ChainInv', UNCHANGED <<coreVars, events, bad, votes>>
    PROVE  Inv'
<1> DEFINE out == {}
<1>1. /\ seq' = seq /\ round' = round /\ state' = state /\ waiting' = waiting
      /\ preprepare' = preprepare /\ prepares' = prepares /\ commits' = commits
      /\ locked' = locked /\ pendingRequest' = pendingRequest
      /\ roundChangeSet' = roundChangeSet /\ events' = events /\ bad' = bad /\ votes' = votes
  BY Zenon DEF coreVars, roundVars
<1>2. TypeOK /\ MessageInv
  BY Zenon DEF Inv
<1>3. /\ \A k \in Node : events'[k] \subseteq events[k] \cup out
      /\ \A x \in out : Sound(x, votes', chain')
  BY <1>1
<1> HIDE DEF out
<1>4. MessageInv'
  BY <1>2, <1>3, MessageStep, Zenon
<1>5. RoundStateInv'
  <2> SUFFICES ASSUME NEW k \in Node PROVE RoundStateOf(k)'
    BY Zenon DEF RoundStateInv
  <2>1. RoundStateOf(k) /\ commits[k] \subseteq Message
    BY DEF Inv, RoundStateInv, TypeOK, RoundTypes
  <2>2. \A c \in commits[k] : Evidence(c, votes', chain')
    BY <1>2, <2>1, EvidenceGrows, Zenon DEF RoundStateOf
  <2> QED
    BY <1>1, <2>1, <2>2, Zenon DEF RoundStateOf, AcceptRequest
<1>6. CountsCurrentView'
  BY <1>1 DEF Inv, CountsCurrentView, CountsCurrent
<1>7. LockInv' /\ LockedProposal'
  BY <1>1 DEF Inv, LockInv, VotesKept, LockedProposal
<1>8. VoteInv' /\ NoDoubleVote'
  BY <1>1, Zenon DEF Inv, VoteInv, NoDoubleVote
<1> QED
  BY <1>4, <1>5, <1>6, <1>7, <1>8, Zenon DEF Inv

\* A chain grows by a block that was decided; nothing else of a core changes.
LEMMA ExtendStep ==
    ASSUME Inv, NEW n \in Node, NEW e \in [block : Block, valid : BOOLEAN],
           Number[e.block] = Height(n) + 1, Decided(votes, Number[e.block], e.block),
           chain' = [chain EXCEPT ![n] = Append(@, e)],
           NEW ins \in {None, inserting[n]}, inserting' = [inserting EXCEPT ![n] = ins],
           UNCHANGED <<coreVars, events, bad, votes>>
    PROVE  Inv'
<1> DEFINE Entry == [block : Block, valid : BOOLEAN]
           Handed == [block : Block, valid : BOOLEAN, verify : BOOLEAN] \cup {None}
<1>1. /\ TypeOK /\ ViewTypes /\ RoundTypes /\ MessageTypes /\ ChainTypes
      /\ WrittenInv /\ InsertingInv
  BY Zenon DEF Inv, TypeOK, ChainInv
<1>2. chain \in [Node -> Seq(Entry)] /\ inserting \in [Node -> Handed] /\ e \in Entry
      /\ bad \in [Node -> SUBSET Block]
  BY <1>1, Zenon DEF ChainTypes
<1> HIDE DEF Entry, Handed
<1>3. /\ chain'[n] = Append(chain[n], e) /\ chain[n] \in Seq(Entry)
      /\ \A k \in Node \ {n} : chain'[k] = chain[k]
  BY <1>2
<1>4. /\ Len(chain[n]) \in Nat /\ Len(chain'[n]) = Len(chain[n]) + 1
      /\ chain'[n] \in Seq(Entry) /\ chain'[n][Len(chain[n]) + 1] = e
      /\ \A h \in 1 .. Len(chain[n]) : chain'[n][h] = chain[n][h]
  BY <1>2, <1>3
<1>5. chain' \in [Node -> Seq(Entry)]
  BY <1>2, <1>3, <1>4
<1>6. /\ inserting' \in [Node -> Handed]
      /\ \A k \in Node : inserting'[k] # None => inserting'[k] = inserting[k]
  <2>1. ins \in Handed
    BY <1>2 DEF Handed
  <2> QED
    BY <1>2, <2>1
<1>7. TypeOK'
  <2>1. ChainTypes'
    BY <1>2, <1>5, <1>6, Zenon DEF ChainTypes, Entry, Handed
  <2>2. ViewTypes' /\ RoundTypes' /\ MessageTypes'
    BY <1>1, Zenon DEF ViewTypes, RoundTypes, MessageTypes, coreVars, roundVars
  <2> QED
    BY <2>1, <2>2, Zenon DEF TypeOK
<1>8. GrowsOnly
  <2>1. \A k \in Node \ {n} : Len(chain[k]) \in Nat
    BY <1>2
  <2>2. votes \subseteq votes'
    OBVIOUS
  <2> QED
    BY <1>3, <1>4, <2>1, <2>2 DEF GrowsOnly
<1>9. WrittenInv'
  <2>0. \A k \in Node : \A h \in 1 .. Len(chain[k]) :
           Number[chain[k][h].block] = h /\ Decided(votes, h, chain[k][h].block)
    BY <1>1, Zenon DEF WrittenInv, Height
  <2>1. ASSUME NEW k \in Node, NEW h \in 1 .. Len(chain'[k])
        PROVE  Number[chain'[k][h].block] = h /\ Decided(votes, h, chain'[k][h].block)
    <3>1. CASE k = n /\ h = Len(chain[n]) + 1
      BY <1>4, <3>1, Zenon DEF Height
    <3>2. CASE k = n /\ h # Len(chain[n]) + 1
      <4>1. h \in 1 .. Len(chain[n])
        BY <1>4, <3>2
      <4>2. chain'[k][h] = chain[n][h]
        BY <1>4, <3>2, <4>1
      <4> QED
        BY <2>0, <4>1, <4>2
    <3>3. CASE k # n
      <4>1. chain'[k] = chain[k]
        BY <1>3, <3>3
      <4> QED
        BY <2>0, <4>1, Zenon
    <3> QED
      BY <3>1, <3>2, <3>3
  <2> QED
    BY <2>1, Zenon DEF WrittenInv, Height
<1>10. InsertingInv'
  BY <1>1, <1>6, Zenon DEF InsertingInv
<1> QED
  BY <1>7, <1>8, <1>9, <1>10, CoreIdle, Zenon DEF ChainInv

\* A step of the chain of n that writes nothing.
LEMMA DroppedBlockStep ==
    ASSUME Inv, NEW n \in Node, inserting' = [inserting EXCEPT ![n] = None],
           UNCHANGED <<coreVars, events, chain, bad, votes>>
    PROVE  Inv'
<1> DEFINE Handed == [block : Block, valid : BOOLEAN, verify : BOOLEAN] \cup {None}
<1>1. /\ TypeOK /\ ViewTypes /\ RoundTypes /\ MessageTypes /\ ChainTypes
      /\ WrittenInv /\ InsertingInv
  BY Zenon DEF Inv, TypeOK, ChainInv
<1>2. inserting \in [Node -> Handed] /\ None \in Handed
  BY <1>1, Zenon DEF ChainTypes
<1> HIDE DEF Handed
<1>3. /\ inserting' \in [Node -> Handed]
      /\ \A k \in Node : inserting'[k] # None => inserting'[k] = inserting[k]
  BY <1>2
<1>4. TypeOK'
  <2>1. ChainTypes'
    BY <1>1, <1>3, Zenon DEF ChainTypes, Handed
  <2>2. ViewTypes' /\ RoundTypes' /\ MessageTypes'
    BY <1>1, Zenon DEF ViewTypes, RoundTypes, MessageTypes, coreVars, roundVars
  <2> QED
    BY <2>1, <2>2, Zenon DEF TypeOK
<1>5. GrowsOnly
  <2>1. \A k \in Node : Len(chain[k]) \in Nat
    BY <1>1, ChainLengths, Zenon
  <2> QED
    BY <2>1 DEF GrowsOnly
<1>6. WrittenInv' /\ InsertingInv'
  BY <1>1, <1>3, Zenon DEF WrittenInv, InsertingInv, Height
<1> QED
  BY <1>4, <1>5, <1>6, CoreIdle, Zenon DEF ChainInv

\* The block Commit handed over is written or dropped.
LEMMA InsertStep ==
    ASSUME Inv, NEW n \in Node, InsertBlock(n)
    PROVE  Inv'
<1> DEFINE i == inserting[n]
           e == [block |-> i.block, valid |-> i.valid]
           ins == None
<1>1. /\ i # None /\ inserting' = [inserting EXCEPT ![n] = None]
      /\ chain' = [chain EXCEPT ![n] = IF IsWritten(n, i) THEN Append(@, e) ELSE @]
      /\ UNCHANGED <<coreVars, events, bad, votes>>
  BY DEF InsertBlock
<1>2. CASE IsWritten(n, i)
  <2>1. /\ i \in [block : Block, valid : BOOLEAN, verify : BOOLEAN]
        /\ Decided(votes, Number[i.block], i.block)
    BY <1>1 DEF Inv, TypeOK, ChainTypes, ChainInv, InsertingInv
  <2>2. /\ e \in [block : Block, valid : BOOLEAN] /\ e.block = i.block
        /\ Number[e.block] = Height(n) + 1 /\ Decided(votes, Number[e.block], e.block)
    BY <1>2, <2>1 DEF IsWritten
  <2>3. /\ ins \in {None, inserting[n]} /\ inserting' = [inserting EXCEPT ![n] = ins]
        /\ chain' = [chain EXCEPT ![n] = Append(@, e)]
    BY <1>1, <1>2
  <2> HIDE DEF e, ins
  <2> QED
    BY <1>1, <2>2, <2>3, ExtendStep, Zenon
<1>3. CASE ~IsWritten(n, i)
  <2>1. chain' = chain
    BY <1>1, <1>3 DEF Inv, TypeOK, ChainTypes
  <2> QED
    BY <1>1, <2>1, DroppedBlockStep, Zenon
<1> QED
  BY <1>2, <1>3

\* The block a peer has at the next height of n: decided, as everything on its chain.
LEMMA NextBlockOfPeer ==
    ASSUME Inv, NEW n \in Node, NEW p \in Node, Height(p) > Height(n), NEW e,
           e = chain[p][Height(n) + 1]
    PROVE  /\ e \in [block : Block, valid : BOOLEAN] /\ Number[e.block] = Height(n) + 1
           /\ Decided(votes, Number[e.block], e.block)
<1>1. Height(n) + 1 \in 1 .. Height(p)
  <2>1. Height(n) \in Nat /\ Height(p) \in Nat
    BY DEF Inv, TypeOK, ChainTypes, Height
  <2> QED
    BY <2>1
<1>2. e \in [block : Block, valid : BOOLEAN]
  <2> DEFINE Entry == [block : Block, valid : BOOLEAN]
             q == chain[p]
  <2>1. chain \in [Node -> Seq(Entry)]
    BY Zenon DEF Inv, TypeOK, ChainTypes
  <2> HIDE DEF Entry
  <2>2. q \in Seq(Entry) /\ Height(n) + 1 \in 1 .. Len(q)
    BY <1>1, <2>1 DEF Height
  <2> HIDE DEF q
  <2>3. q[Height(n) + 1] \in Entry
    BY <2>2, ElementOf
  <2> QED
    BY <2>3 DEF Entry, q
<1> QED
  BY <1>1, <1>2 DEF Inv, ChainInv, WrittenInv

\* A peer's block is written.
LEMMA ImportStep ==
    ASSUME Inv, NEW n \in Node, NEW p \in Node, ImportBlock(n, p)
    PROVE  Inv'
<1> DEFINE e == chain[p][Height(n) + 1]
           ins == inserting[n]
<1>1. /\ Height(p) > Height(n) /\ chain' = [chain EXCEPT ![n] = Append(@, e)]
      /\ UNCHANGED <<coreVars, events, inserting, bad, votes>>
  BY DEF ImportBlock
<1>2. /\ e \in [block : Block, valid : BOOLEAN] /\ Number[e.block] = Height(n) + 1
      /\ Decided(votes, Number[e.block], e.block)
  BY <1>1, NextBlockOfPeer, Zenon
<1>3. ins \in {None, inserting[n]} /\ inserting' = [inserting EXCEPT ![n] = ins]
  BY <1>1 DEF Inv, TypeOK, ChainTypes
<1> HIDE DEF e, ins
<1> QED
  BY <1>1, <1>2, <1>3, ExtendStep, Zenon

\* A chain is only ever written to by one node's InsertBlock or ImportBlock.
LEMMA ChainStep ==
    ASSUME Inv, [Next]_vars
    PROVE  \/ chain' = chain
           \/ \E n \in Node, e \in [block : Block, valid : BOOLEAN] :
                 /\ Number[e.block] = Height(n) + 1 /\ Decided(votes, Height(n) + 1, e.block)
                 /\ chain' = [chain EXCEPT ![n] = Append(@, e)]
<1>1. CASE UNCHANGED vars
  BY <1>1, Zenon DEF vars, chainVars
<1>2. ASSUME NEW n \in Node, NEW m \in events[n], HandleMsg(n, m) PROVE chain' = chain
  <2>1. Discard(n, m) => chain' = chain
    BY Zenon DEF Discard, chainVars
  <2>2. CASE HandleUnauthorized(n, m) \/ DropOwnFuture(n, m)
    BY <2>1, <2>2, Zenon DEF HandleUnauthorized, DropOwnFuture
  <2>3. CASE HandleOldPreprepare(n, m)
    BY <2>3, Zenon DEF HandleOldPreprepare, chainVars
  <2>4. CASE HandlePreprepare(n, m)
    <3>1. \A own : SendNextRoundChange(n, own) => chain' = chain
      BY Zenon DEF SendNextRoundChange, chainVars
    <3> QED
      BY <2>1, <2>4, <3>1, Zenon DEF HandlePreprepare, chainVars
  <2>5. CASE HandlePrepare(n, m)
    BY <2>1, <2>5, Zenon DEF HandlePrepare, chainVars
  <2>6. CASE HandleCommit(n, m)
    BY <2>1, <2>6, Zenon DEF HandleCommit, chainVars
  <2>7. CASE HandleRoundChange(n, m)
    <3>1. \A r, own : StartNewRound(n, r, own) => chain' = chain
      BY Zenon DEF StartNewRound, NewSequence, NewRound, EnterView, chainVars
    <3> QED
      BY <2>7, <3>1, Zenon DEF HandleRoundChange, chainVars
  <2> QED
    BY <1>2, <2>2, <2>3, <2>4, <2>5, <2>6, <2>7, Zenon DEF HandleMsg
<1>3. ASSUME NEW n \in Node, NEW b \in Block, HandleRequest(n, b) PROVE chain' = chain
  BY <1>3, Zenon DEF HandleRequest, Propose, chainVars
<1>4. ASSUME NEW n \in Node,
             HandlePendingRequest(n) \/ HandleTimeout(n) \/ HandleFinalCommitted(n)
      PROVE  chain' = chain
  <2>1. \A own : NewSequence(n, own) => chain' = chain
    BY Zenon DEF NewSequence, EnterView, chainVars
  <2>2. \A own : SendNextRoundChange(n, own) => chain' = chain
    BY Zenon DEF SendNextRoundChange, chainVars
  <2> QED
    BY <1>4, <2>1, <2>2, Zenon DEF HandlePendingRequest, Propose, HandleTimeout,
                                   HandleFinalCommitted, chainVars
<1>5. ASSUME NEW n \in Node, FaultStep(n) PROVE chain' = chain
  BY <1>5, Zenon DEF FaultStep, Restart, ReportBadBlock
<1>6. ASSUME NEW n \in Node, InsertBlock(n)
      PROVE  \/ chain' = chain
             \/ \E e \in [block : Block, valid : BOOLEAN] :
                   /\ Number[e.block] = Height(n) + 1 /\ Decided(votes, Height(n) + 1, e.block)
                   /\ chain' = [chain EXCEPT ![n] = Append(@, e)]
  <2> DEFINE i == inserting[n]
             e == [block |-> i.block, valid |-> i.valid]
  <2>1. /\ i # None
        /\ chain' = [chain EXCEPT ![n] = IF IsWritten(n, i) THEN Append(@, e) ELSE @]
    BY <1>6 DEF InsertBlock
  <2>2. CASE IsWritten(n, i)
    <3>1. /\ i \in [block : Block, valid : BOOLEAN, verify : BOOLEAN]
          /\ Decided(votes, Number[i.block], i.block)
      BY <2>1 DEF Inv, TypeOK, ChainTypes, ChainInv, InsertingInv
    <3>2. /\ e \in [block : Block, valid : BOOLEAN] /\ Number[e.block] = Height(n) + 1
          /\ Decided(votes, Height(n) + 1, e.block)
      BY <2>2, <3>1 DEF IsWritten
    <3>3. chain' = [chain EXCEPT ![n] = Append(@, e)]
      BY <2>1, <2>2
    <3> HIDE DEF e
    <3> QED
      BY <3>2, <3>3, Zenon
  <2>3. CASE ~IsWritten(n, i)
    BY <2>1, <2>3 DEF Inv, TypeOK, ChainTypes
  <2> QED
    BY <2>2, <2>3
<1>7. ASSUME NEW n \in Node, NEW p \in Node, ImportBlock(n, p)
      PROVE  \E e \in [block : Block, valid : BOOLEAN] :
                /\ Number[e.block] = Height(n) + 1 /\ Decided(votes, Height(n) + 1, e.block)
                /\ chain' = [chain EXCEPT ![n] = Append(@, e)]
  <2> DEFINE e == chain[p][Height(n) + 1]
  <2>1. Height(p) > Height(n) /\ chain' = [chain EXCEPT ![n] = Append(@, e)]
    BY <1>7 DEF ImportBlock
  <2>2. /\ e \in [block : Block, valid : BOOLEAN] /\ Number[e.block] = Height(n) + 1
        /\ Decided(votes, Number[e.block], e.block)
    BY <2>1, NextBlockOfPeer, Zenon
  <2> HIDE DEF e
  <2> QED
    BY <2>1, <2>2, Zenon
<1> QED
  BY <1>1, <1>2, <1>3, <1>4, <1>5, <1>6, <1>7, Zenon DEF Next, NodeStep

-----------------------------------------------------------------------------
(* Casting a vote.                                                         *)

\* The vote is about a block of n's view and contradicts none of n's votes.
Consistent(n, vote) ==
    /\ vote \in Message /\ vote.src = n /\ vote.seq = seq[n] /\ vote.round = round[n]
    /\ vote.block \in Block /\ Number[vote.block] = seq[n] /\ vote.code \in {"PREPARE", "COMMIT"}
    /\ vote.code = "COMMIT" => vote = CommitMsg(n, seq[n], round[n], vote.block, vote.block)
    /\ n \notin Unreliable => \A w \in votes :
          /\ w.src = n /\ w.code = vote.code /\ w.seq = vote.seq
          /\ vote.code = "PREPARE" => w.round = vote.round
          => w.block = vote.block

\* Node n casts a vote in its view that contradicts none of its own.
LEMMA VoteStep ==
    ASSUME Inv, NEW n \in Node, NEW vote, Consistent(n, vote),
           votes' = votes \cup {vote}, UNCHANGED chainVars
    PROVE  GrowsOnly /\ ChainInv' /\ VoteInv' /\ NoDoubleVote'
<1>1. chain' = chain /\ inserting' = inserting /\ votes \subseteq votes'
  BY Zenon DEF chainVars
<1>2. GrowsOnly
  <2>1. \A k \in Node : Len(chain[k]) \in Nat
    BY ChainLengths, Zenon DEF Inv, TypeOK
  <2> QED
    BY <1>1, <2>1 DEF GrowsOnly
<1>3. ChainInv'
  <2>1. WrittenInv /\ InsertingInv
    BY Zenon DEF Inv, ChainInv
  <2>2. WrittenInv'
    BY <1>1, <2>1, DecidedGrows, Zenon DEF WrittenInv, Height
  <2>3. InsertingInv'
    BY <1>1, <2>1, DecidedGrows, Zenon DEF InsertingInv
  <2> QED
    BY <2>2, <2>3, Zenon DEF ChainInv
<1>4. VoteInv'
  BY Zenon DEF VoteInv, Inv, Consistent
<1>5. NoDoubleVote'
  <2> SUFFICES ASSUME NEW v \in votes', NEW w \in votes', v.src = w.src, v.src \notin Unreliable,
                      v.code = w.code, v.seq = w.seq, v.code = "PREPARE" => v.round = w.round
               PROVE  v.block = w.block
    BY Zenon DEF NoDoubleVote
  <2>1. CASE v \in votes /\ w \in votes
    BY <2>1, Zenon DEF Inv, NoDoubleVote
  <2>2. CASE v = vote \/ w = vote
    BY <2>2, Zenon DEF Consistent
  <2> QED
    BY <2>1, <2>2
<1> QED
  BY <1>2, <1>3, <1>4, <1>5

\* What casting a vote changes: the state, the proposal, the lock, the PREPAREs of n.
Casts(n, vote, own, st, prop, lock, ps) ==
    /\ state' = [state EXCEPT ![n] = st]
    /\ preprepare' = [preprepare EXCEPT ![n] = prop]
    /\ locked' = [locked EXCEPT ![n] = lock]
    /\ prepares' = [prepares EXCEPT ![n] = ps]
    /\ Post(n, own, {vote}) /\ votes' = votes \cup {vote}
    /\ UNCHANGED <<seq, round, waiting, proposer, commits, pendingRequest, roundChangeSet,
                   pendingRequests, chainVars>>

\* The values it may change them to: the COMMITs counted stay about the proposal, and
\* a lock stays where it is.
CastValues(n, vote, st, prop, lock, ps) ==
    /\ st \in AcceptRequest .. Committed /\ st # AcceptRequest
    /\ prop \in Block /\ Number[prop] = seq[n] /\ (commits[n] = {} \/ prop = preprepare[n])
    /\ lock \in Block \cup {None}
    /\ n \notin Unreliable => /\ lock # None => prop = lock
                              /\ locked[n] # None => lock = locked[n]
                              /\ vote.code = "COMMIT" => lock = vote.block
    /\ ps \in SUBSET Node /\ ps \subseteq Validators[seq[n]]

\* Casting a vote preserves the invariant.
LEMMA CastStep ==
    ASSUME Inv, NEW n \in Node, ~waiting[n], NEW own \in SUBSET events[n],
           NEW vote, Consistent(n, vote), NEW st, NEW prop, NEW lock, NEW ps,
           CastValues(n, vote, st, prop, lock, ps), Casts(n, vote, own, st, prop, lock, ps)
    PROVE  Inv'
<1> DEFINE out == {vote}
<1>1. /\ TypeOK /\ ViewTypes /\ RoundTypes /\ MessageTypes /\ ChainTypes /\ MessageInv
      /\ RoundStateOf(n) /\ CountsCurrent(n) /\ VotesKept(n) /\ VoteInv
  BY Zenon DEF Inv, TypeOK, RoundStateInv, CountsCurrentView, LockInv
<1>2. /\ state' = [state EXCEPT ![n] = st] /\ preprepare' = [preprepare EXCEPT ![n] = prop]
      /\ locked' = [locked EXCEPT ![n] = lock] /\ prepares' = [prepares EXCEPT ![n] = ps]
      /\ Post(n, own, out) /\ votes' = votes \cup {vote}
      /\ seq' = seq /\ round' = round /\ waiting' = waiting /\ proposer' = proposer
      /\ commits' = commits /\ pendingRequest' = pendingRequest
      /\ roundChangeSet' = roundChangeSet /\ pendingRequests' = pendingRequests
      /\ chain' = chain /\ inserting' = inserting /\ bad' = bad
  BY Zenon DEF Casts, chainVars
<1>3. /\ st \in AcceptRequest .. Committed /\ st # AcceptRequest
      /\ prop \in Block /\ Number[prop] = seq[n] /\ (commits[n] = {} \/ prop = preprepare[n])
      /\ lock \in Block \cup {None} /\ ps \in SUBSET Node /\ ps \subseteq Validators[seq[n]]
      /\ n \notin Unreliable => /\ lock # None => prop = lock
                                /\ locked[n] # None => lock = locked[n]
                                /\ vote.code = "COMMIT" => lock = vote.block
  BY Zenon DEF CastValues
<1>4. /\ vote \in Message /\ vote.src = n /\ vote.seq = seq[n] /\ vote.round = round[n]
      /\ vote.code \in {"PREPARE", "COMMIT"}
  BY Zenon DEF Consistent
<1>5. /\ state'[n] = st /\ state' \in [Node -> AcceptRequest .. Committed]
      /\ \A k \in Node \ {n} : state'[k] = state[k]
  BY <1>1, <1>2, <1>3 DEF ViewTypes
<1>6. /\ preprepare'[n] = prop /\ locked'[n] = lock /\ prepares'[n] = ps
      /\ preprepare' \in [Node -> Block \cup {None}] /\ locked' \in [Node -> Block \cup {None}]
      /\ prepares' \in [Node -> SUBSET Node]
      /\ \A k \in Node \ {n} : /\ preprepare'[k] = preprepare[k] /\ locked'[k] = locked[k]
                               /\ prepares'[k] = prepares[k]
  <2>1. /\ preprepare \in [Node -> Block \cup {None}] /\ locked \in [Node -> Block \cup {None}]
        /\ prepares \in [Node -> SUBSET Node]
    BY <1>1, Zenon DEF RoundTypes
  <2> QED
    BY <1>2, <1>3, <2>1
<1>7. /\ out \in SUBSET Message /\ votes' \subseteq Message
  BY <1>1, <1>2, <1>4 DEF MessageTypes
<1>8. \A x \in out : Sound(x, votes', chain')
  <2>1. vote.code = "COMMIT" => Evidence(vote, votes', chain')
    BY <1>2, Zenon DEF Consistent, Evidence
  <2> QED
    BY <2>1, Zenon DEF Consistent, Sound
<1> HIDE DEF out
<1>9. /\ events' \in [Node -> SUBSET Message]
      /\ \A k \in Node : events'[k] \subseteq events[k] \cup out
  BY <1>1, <1>2, <1>7, PostStep, Zenon
<1>10. TypeOK'
  BY <1>1, <1>2, <1>5, <1>6, <1>7, <1>9, Zenon DEF TypeOK, ViewTypes, RoundTypes, MessageTypes,
                                                   ChainTypes
<1>11. GrowsOnly /\ ChainInv' /\ VoteInv' /\ NoDoubleVote'
  <2>1. UNCHANGED chainVars
    BY <1>2, Zenon DEF chainVars
  <2> QED
    BY <1>2, <2>1, VoteStep, Zenon
<1>12. MessageInv'
  BY <1>1, <1>8, <1>9, <1>10, <1>11, MessageStep, Zenon
<1>13. Others(n)
  BY <1>2, <1>5, <1>6, Zenon DEF Others
<1>14. RoundStateOf(n)'
  <2>1. \A c \in commits[n] : c \in Message /\ Evidence(c, votes, chain)
    BY <1>1 DEF RoundTypes, RoundStateOf
  <2>2. \A c \in commits[n] : Evidence(c, votes', chain')
    BY <1>1, <1>10, <1>11, <2>1, EvidenceGrows, Zenon
  <2> QED
    BY <1>1, <1>2, <1>3, <1>5, <1>6, <2>2, Zenon DEF RoundStateOf, AcceptRequest
<1>15. CountsCurrent(n)'
  BY <1>1, <1>2, <1>3, <1>6 DEF CountsCurrent
<1>16. VotesKept(n)'
  <2> SUFFICES ASSUME n \notin Unreliable, NEW v \in votes', v.src = n
               PROVE  Kept(v, seq[n], round[n], waiting[n], st, lock)
    BY <1>2, <1>5, <1>6, Zenon DEF VotesKept, Kept, AcceptRequest
  <2>1. CASE v \in votes
    <3>1. Kept(v, seq[n], round[n], waiting[n], state[n], locked[n]) /\ v.block # None
      BY <1>1, <2>1, NoneAssumption, Zenon DEF VotesKept, VoteInv
    <3> QED
      BY <1>3, <3>1, Zenon DEF Kept
  <2>2. CASE v = vote
    BY <1>3, <1>4, <2>2, Zenon DEF Kept
  <2> QED
    BY <1>2, <2>1, <2>2
<1>17. \A v \in votes' : v \in votes \/ v.src = n
  BY <1>2, <1>4
<1>18. n \notin Unreliable /\ locked'[n] # None => preprepare'[n] = locked'[n]
  BY <1>3, <1>6, Zenon
<1> QED
  BY <1>2, <1>10, <1>11, <1>12, <1>13, <1>14, <1>15, <1>16, <1>17, <1>18, CoreStep, Zenon

\* A vote of a reliable node in its view: an earlier COMMIT is about its lock, an
\* earlier PREPARE of the view was cast when it left AcceptRequest.
LEMMA EarlierVotes ==
    ASSUME Inv, NEW n \in Node, n \notin Unreliable, NEW w \in votes, w.src = n, w.seq = seq[n]
    PROVE  /\ w.code = "COMMIT" => locked[n] = w.block /\ IsHashLocked(n, locked[n])
           /\ w.code = "PREPARE" /\ state[n] = AcceptRequest => w.round # round[n]
<1>1. Kept(w, seq[n], round[n], waiting[n], state[n], locked[n]) /\ w.block # None /\ bad[n] = {}
  BY NoneAssumption, Zenon DEF Inv, LockInv, VotesKept, VoteInv
<1>2. seq[n] \in Int /\ round[n] \in Int
  BY BoundsAssumption DEF Inv, TypeOK, ViewTypes, Seqs, Rounds
<1>3. w.code = "COMMIT" => locked[n] = w.block
  BY <1>1, <1>2 DEF Kept
<1>4. w.code = "PREPARE" /\ state[n] = AcceptRequest => w.round # round[n]
  BY <1>1, <1>2 DEF Kept
<1> QED
  BY <1>1, <1>3, <1>4, Zenon DEF IsHashLocked

\* handlePreprepare preserves the invariant.
LEMMA PreprepareStep ==
    ASSUME Inv, NEW n \in Node, NEW m \in events[n], HandlePreprepare(n, m)
    PROVE  Inv'
<1> DEFINE own == events[n] \ {m}
           isLocked == IsHashLocked(n, locked[n])
           vote == IF isLocked THEN CommitMsg(n, seq[n], round[n], m.block, m.block)
                               ELSE PrepareMsg(n, seq[n], round[n], m.block)
<1>1. m.code = "PREPREPARE" /\ IsCurrent(n, m) /\ own \in SUBSET events[n]
  BY Zenon DEF HandlePreprepare
<1>2. CASE Discard(n, m)
  BY <1>2, DiscardStep
<1>3. CASE SendNextRoundChange(n, own)
  BY <1>1, <1>3, NextRoundChangeStep, Zenon
<1>4. CASE /\ Takes(n, m) /\ (isLocked => locked[n] = m.block)
           /\ Post(n, own, {vote}) /\ votes' = votes \cup {vote}
           /\ state' = [state EXCEPT ![n] = IF isLocked THEN Prepared ELSE Preprepared]
           /\ preprepare' = [preprepare EXCEPT ![n] = m.block]
           /\ UNCHANGED <<seq, round, waiting, proposer, prepares, commits, locked,
                          pendingRequest, roundChangeSet, pendingRequests, chainVars>>
  <2> DEFINE st == IF isLocked THEN Prepared ELSE Preprepared
             prop == m.block
             lock == locked[n]
             ps == prepares[n]
  <2>1. /\ TypeOK /\ ViewTypes /\ RoundTypes /\ RoundStateOf(n) /\ CountsCurrent(n)
        /\ n \notin Unreliable => bad[n] = {}
    BY Zenon DEF Inv, TypeOK, RoundStateInv, CountsCurrentView, LockInv
  <2>2. m.seq = seq[n] /\ m.round = round[n] /\ ~waiting[n] /\ m \in Message
    BY <1>1, <2>1, CurrentMessage, Zenon
  <2>3. state[n] = AcceptRequest /\ commits[n] = {}
    BY <1>4, <2>1, Zenon DEF Takes, RoundStateOf
  <2>4. prop \in Block /\ Number[prop] = seq[n]
    BY <1>1, <2>2, Zenon DEF Inv, MessageInv, Sound
  <2>5. Casts(n, vote, own, st, prop, lock, ps)
    <3>1. locked' = [locked EXCEPT ![n] = lock] /\ prepares' = [prepares EXCEPT ![n] = ps]
      BY <1>4, <2>1 DEF RoundTypes
    <3> HIDE DEF own, vote, prop, lock, ps
    <3> QED
      BY <1>4, <3>1, Zenon DEF Casts, prop
  <2>6. /\ vote \in Message /\ vote.src = n /\ vote.seq = seq[n] /\ vote.round = round[n]
        /\ vote.block = prop /\ vote.code = IF isLocked THEN "COMMIT" ELSE "PREPARE"
    <3> HIDE DEF isLocked
    <3> QED
      BY <2>1, <2>4 DEF ViewTypes, Message, CommitMsg, PrepareMsg, Msg, Code
  <2>7. vote.code = "COMMIT" => vote = CommitMsg(n, seq[n], round[n], prop, prop)
    BY <2>6, Zenon
  <2>8. st \in AcceptRequest .. Committed /\ st # AcceptRequest
    BY DEF AcceptRequest, Prepared, Preprepared, Committed
  <2>9. n \notin Unreliable /\ lock # None => isLocked
    BY <2>1, Zenon DEF IsHashLocked
  <2>10. /\ isLocked => lock = prop /\ lock # None
         /\ lock \in Block \cup {None} /\ ps \in SUBSET Node /\ ps \subseteq Validators[seq[n]]
    <3>1. /\ locked[n] \in Block \cup {None} /\ prepares[n] \in SUBSET Node
          /\ prepares[n] \subseteq Validators[seq[n]]
      BY <2>1 DEF RoundTypes, CountsCurrent
    <3> QED
      BY <1>4, <3>1, Zenon DEF IsHashLocked
  <2> HIDE DEF own, vote, st, prop, lock, ps
  <2>11. Consistent(n, vote)
    <3>1. ASSUME n \notin Unreliable, NEW w \in votes, w.src = n, w.code = vote.code,
                 w.seq = vote.seq, vote.code = "PREPARE" => w.round = vote.round
          PROVE  w.block = vote.block
      <4>1. /\ w.code = "COMMIT" => lock = w.block
            /\ w.code = "PREPARE" => w.round # round[n]
        BY <2>3, <2>6, <3>1, EarlierVotes, Zenon DEF lock
      <4> QED
        BY <2>6, <2>10, <3>1, <4>1, Zenon
    <3> QED
      BY <2>4, <2>6, <2>7, <3>1, Zenon DEF Consistent
  <2>12. CastValues(n, vote, st, prop, lock, ps)
    BY <2>3, <2>4, <2>6, <2>8, <2>9, <2>10, Zenon DEF CastValues, lock
  <2> QED
    BY <1>1, <2>2, <2>5, <2>11, <2>12, CastStep, Zenon
<1> QED
  BY <1>2, <1>3, <1>4, Zenon DEF HandlePreprepare

-----------------------------------------------------------------------------
(* Counting votes.                                                         *)

\* What n counts: COMMITs with evidence for its proposal, one of each validator.
Counted(n, cs) ==
    /\ cs \in SUBSET Message
    /\ \A c \in cs : /\ c.code = "COMMIT" /\ c.src \in Validators[seq[n]] /\ c.seq = seq[n]
                     /\ c.round = round[n] /\ c.block = preprepare[n]
                     /\ Evidence(c, votes, chain)
                     /\ \A d \in cs : c.src = d.src => c = d

\* A vote is counted; with a quorum of COMMITs n locks, is Committed and hands the
\* block over.
Counts(n, own, ps, cs, lock, st, ins) ==
    /\ prepares' = [prepares EXCEPT ![n] = ps]
    /\ commits' = [commits EXCEPT ![n] = cs]
    /\ locked' = [locked EXCEPT ![n] = lock]
    /\ state' = [state EXCEPT ![n] = st]
    /\ inserting' = [inserting EXCEPT ![n] = ins]
    /\ Post(n, own, {})
    /\ UNCHANGED <<seq, round, waiting, proposer, preprepare, pendingRequest,
                   roundChangeSet, pendingRequests, chain, bad, votes>>

\* The values: a lock that is there does not move, and what is handed over is decided.
CountValues(n, ps, cs, lock, st, ins) ==
    /\ ps \in SUBSET Node /\ ps \subseteq Validators[seq[n]] /\ Counted(n, cs)
    /\ lock \in {locked[n], preprepare[n]}
    /\ st \in AcceptRequest .. Committed /\ st # AcceptRequest
    /\ \/ ins = inserting[n]
       \/ /\ ins \in [block : Block, valid : BOOLEAN, verify : BOOLEAN]
          /\ Decided(votes, Number[ins.block], ins.block)

\* Counting votes preserves the invariant.
LEMMA CountStep ==
    ASSUME Inv, NEW n \in Node, NEW own \in SUBSET events[n], ~waiting[n],
           NEW ps, NEW cs, NEW lock, NEW st, NEW ins,
           CountValues(n, ps, cs, lock, st, ins), Counts(n, own, ps, cs, lock, st, ins)
    PROVE  Inv'
<1> DEFINE out == {}
           Handed == [block : Block, valid : BOOLEAN, verify : BOOLEAN] \cup {None}
<1>1. /\ TypeOK /\ ViewTypes /\ RoundTypes /\ MessageTypes /\ ChainTypes /\ MessageInv
      /\ RoundStateOf(n) /\ CountsCurrent(n) /\ VotesKept(n) /\ VoteInv
      /\ WrittenInv /\ InsertingInv
      /\ n \notin Unreliable /\ locked[n] # None => preprepare[n] = locked[n]
  BY Zenon DEF Inv, TypeOK, RoundStateInv, CountsCurrentView, LockInv, LockedProposal, ChainInv
<1>2. /\ prepares' = [prepares EXCEPT ![n] = ps] /\ commits' = [commits EXCEPT ![n] = cs]
      /\ locked' = [locked EXCEPT ![n] = lock] /\ state' = [state EXCEPT ![n] = st]
      /\ inserting' = [inserting EXCEPT ![n] = ins] /\ Post(n, own, out)
      /\ seq' = seq /\ round' = round /\ waiting' = waiting /\ proposer' = proposer
      /\ preprepare' = preprepare /\ pendingRequest' = pendingRequest
      /\ roundChangeSet' = roundChangeSet /\ pendingRequests' = pendingRequests
      /\ chain' = chain /\ bad' = bad /\ votes' = votes
  BY Zenon DEF Counts
<1>3. /\ ps \in SUBSET Node /\ ps \subseteq Validators[seq[n]] /\ Counted(n, cs)
      /\ cs \in SUBSET Message /\ lock \in {locked[n], preprepare[n]}
      /\ st \in AcceptRequest .. Committed /\ st # AcceptRequest
  BY Zenon DEF CountValues, Counted
<1>4. /\ state'[n] = st /\ state' \in [Node -> AcceptRequest .. Committed]
      /\ \A k \in Node \ {n} : state'[k] = state[k]
  BY <1>1, <1>2, <1>3 DEF ViewTypes
<1>5. /\ commits'[n] = cs /\ locked'[n] = lock /\ prepares'[n] = ps
      /\ commits' \in [Node -> SUBSET Message] /\ locked' \in [Node -> Block \cup {None}]
      /\ prepares' \in [Node -> SUBSET Node]
      /\ \A k \in Node \ {n} : /\ commits'[k] = commits[k] /\ locked'[k] = locked[k]
                               /\ prepares'[k] = prepares[k]
  <2>1. /\ commits \in [Node -> SUBSET Message] /\ locked \in [Node -> Block \cup {None}]
        /\ prepares \in [Node -> SUBSET Node] /\ lock \in Block \cup {None}
    BY <1>1, <1>3 DEF RoundTypes
  <2> QED
    BY <1>2, <1>3, <2>1
<1>6. inserting' \in [Node -> Handed] /\ InsertingInv'
  <2>1. inserting \in [Node -> Handed]
    BY <1>1, Zenon DEF ChainTypes
  <2>2. /\ ins \in Handed
        /\ ins # None => Decided(votes, Number[ins.block], ins.block)
    BY <1>1, <2>1 DEF CountValues, InsertingInv
  <2> HIDE DEF Handed
  <2>3. /\ inserting' \in [Node -> Handed] /\ inserting'[n] = ins
        /\ \A k \in Node \ {n} : inserting'[k] = inserting[k]
    BY <1>2, <2>1, <2>2
  <2>4. InsertingInv'
    <3> SUFFICES ASSUME NEW k \in Node, inserting'[k] # None
                 PROVE  Decided(votes, Number[inserting'[k].block], inserting'[k].block)
      BY <1>2, Zenon DEF InsertingInv
    <3> QED
      BY <1>1, <2>2, <2>3, Zenon DEF InsertingInv
  <2> QED
    BY <2>3, <2>4
<1>7. out \in SUBSET Message /\ \A x \in out : Sound(x, votes', chain')
  OBVIOUS
<1> HIDE DEF out
<1>8. /\ events' \in [Node -> SUBSET Message]
      /\ \A k \in Node : events'[k] \subseteq events[k] \cup out
  BY <1>1, <1>2, <1>7, PostStep, Zenon
<1>9. TypeOK'
  BY <1>1, <1>2, <1>4, <1>5, <1>6, <1>8, Zenon DEF TypeOK, ViewTypes, RoundTypes, MessageTypes,
                                                   ChainTypes
<1>10. GrowsOnly
  <2>1. \A k \in Node : Len(chain[k]) \in Nat
    BY <1>1, ChainLengths, Zenon
  <2>2. votes' = votes /\ chain' = chain
    BY <1>2, Zenon
  <2> QED
    BY <2>1, <2>2 DEF GrowsOnly
<1>11. ChainInv' /\ VoteInv' /\ NoDoubleVote'
  <2>1. WrittenInv'
    BY <1>1, <1>2, Zenon DEF WrittenInv, Height
  <2> QED
    BY <1>2, <1>6, <2>1, Zenon DEF Inv, ChainInv, VoteInv, NoDoubleVote
<1>12. MessageInv'
  BY <1>1, <1>7, <1>8, <1>9, <1>10, MessageStep, Zenon
<1>13. Others(n)
  BY <1>2, <1>4, <1>5, Zenon DEF Others
<1>14. RoundStateOf(n)'
  <2>1. \A c \in cs : Evidence(c, votes', chain')
    BY <1>2, <1>3, Zenon DEF Counted
  <2>2. ~waiting'[n] /\ state'[n] # AcceptRequest /\ commits'[n] = cs
    BY <1>2, <1>3, <1>4, <1>5, Zenon
  <2> QED
    BY <1>1, <1>2, <2>1, <2>2, Zenon DEF RoundStateOf, AcceptRequest
<1>15. CountsCurrent(n)'
  BY <1>1, <1>2, <1>3, <1>5 DEF CountsCurrent, Counted
<1>16. VotesKept(n)'
  <2>0. /\ seq'[n] = seq[n] /\ round'[n] = round[n] /\ waiting'[n] = waiting[n]
        /\ state'[n] = st /\ locked'[n] = lock /\ votes' = votes
    BY <1>2, <1>4, <1>5, Zenon
  <2> SUFFICES ASSUME n \notin Unreliable, NEW v \in votes, v.src = n
               PROVE  Kept(v, seq[n], round[n], waiting[n], st, lock)
    BY <2>0, Zenon DEF VotesKept, Kept, AcceptRequest
  <2>1. Kept(v, seq[n], round[n], waiting[n], state[n], locked[n]) /\ v.block # None
    BY <1>1, NoneAssumption, Zenon DEF VotesKept, VoteInv
  <2> QED
    BY <1>1, <1>3, <2>1, Zenon DEF Kept
<1>17. n \notin Unreliable /\ locked'[n] # None => preprepare'[n] = locked'[n]
  BY <1>1, <1>2, <1>3, <1>5
<1> QED
  BY <1>2, <1>9, <1>10, <1>11, <1>12, <1>13, <1>14, <1>15, <1>16, <1>17, CoreStep, Zenon

\* handlePrepare: a PREPARE is counted, and with enough of them n locks and COMMITs.
LEMMA PrepareStep ==
    ASSUME Inv, NEW n \in Node, NEW m \in events[n], HandlePrepare(n, m)
    PROVE  Inv'
<1> DEFINE own == events[n] \ {m}
           ps == prepares[n] \cup {m.src}
           prop == preprepare[n]
           vote == CommitMsg(n, seq[n], round[n], m.block, m.block)
<1>1. /\ TypeOK /\ ViewTypes /\ RoundTypes /\ ChainTypes /\ RoundStateOf(n) /\ CountsCurrent(n)
      /\ n \notin Unreliable /\ locked[n] # None => preprepare[n] = locked[n]
  BY Zenon DEF Inv, TypeOK, RoundStateInv, CountsCurrentView, LockedProposal
<1>2. /\ m.code = "PREPARE" /\ IsCurrent(n, m) /\ m.src \in Validators[seq[n]]
      /\ own \in SUBSET events[n]
  BY Zenon DEF HandlePrepare, Accepts
<1>3. /\ m \in Message /\ m.seq = seq[n] /\ ~waiting[n] /\ state[n] # AcceptRequest
  BY <1>1, <1>2, CurrentMessage
<1>4. m.block \in Block /\ Number[m.block] = seq[n]
  BY <1>2, <1>3, Zenon DEF Inv, MessageInv, Sound
<1>5. ps \in SUBSET Node /\ ps \subseteq Validators[seq[n]]
  BY <1>1, <1>2, <1>3 DEF RoundTypes, CountsCurrent, Message
<1>6. /\ prop \in Block \cup {None} /\ commits[n] \in SUBSET Message
      /\ state[n] \in AcceptRequest .. Committed
  BY <1>1 DEF RoundTypes, ViewTypes
<1>7. CASE m.block # preprepare[n] /\ Discard(n, m)
  BY <1>7, DiscardStep
<1>8. CASE /\ prepares' = [prepares EXCEPT ![n] = ps] /\ Post(n, own, {})
           /\ UNCHANGED <<seq, round, waiting, proposer, preprepare, commits,
                          pendingRequest, roundChangeSet, pendingRequests, chainVars>>
           /\ UNCHANGED <<locked, state, votes>>
  <2> DEFINE cs == commits[n]
             lock == locked[n]
             st == state[n]
             ins == inserting[n]
  <2>1. /\ commits' = [commits EXCEPT ![n] = cs] /\ locked' = [locked EXCEPT ![n] = lock]
        /\ state' = [state EXCEPT ![n] = st]
    BY <1>1, <1>8 DEF RoundTypes, ViewTypes
  <2>2. inserting' = [inserting EXCEPT ![n] = ins] /\ chain' = chain /\ bad' = bad
    BY <1>1, <1>8 DEF ChainTypes, chainVars
  <2>3. Counted(n, cs)
    BY <1>1, <1>6, Zenon DEF Counted, CountsCurrent, RoundStateOf
  <2>4. lock = locked[n] /\ ins = inserting[n] /\ st # AcceptRequest
        /\ st \in AcceptRequest .. Committed
    BY <1>3, <1>6, Zenon
  <2> HIDE DEF own, ps, prop, cs, lock, st, ins
  <2>5. Counts(n, own, ps, cs, lock, st, ins)
    BY <1>8, <2>1, <2>2, Zenon DEF Counts
  <2>6. CountValues(n, ps, cs, lock, st, ins)
    BY <1>5, <2>3, <2>4, Zenon DEF CountValues
  <2> QED
    BY <1>2, <1>3, <2>5, <2>6, CountStep, Zenon
<1>9. CASE /\ m.block = preprepare[n] /\ prepares' = [prepares EXCEPT ![n] = ps]
           /\ locked' = [locked EXCEPT ![n] = preprepare[n]]
           /\ state' = [state EXCEPT ![n] = Prepared]
           /\ Post(n, own, {vote}) /\ votes' = votes \cup {vote}
           /\ UNCHANGED <<seq, round, waiting, proposer, preprepare, commits,
                          pendingRequest, roundChangeSet, pendingRequests, chainVars>>
  <2> DEFINE st == Prepared
  <2>1. preprepare' = [preprepare EXCEPT ![n] = prop]
    BY <1>1, <1>9 DEF RoundTypes
  <2>2. st \in AcceptRequest .. Committed /\ st # AcceptRequest
    BY DEF AcceptRequest, Prepared, Committed
  <2>3. /\ vote \in Message /\ vote.src = n /\ vote.seq = seq[n] /\ vote.round = round[n]
        /\ vote.block = prop /\ vote.code = "COMMIT"
    BY <1>1, <1>4, <1>9 DEF ViewTypes, Message, CommitMsg, Msg, Code
  <2>4. vote = CommitMsg(n, seq[n], round[n], prop, prop)
    BY <1>9, Zenon
  <2>5. prop \in Block /\ Number[prop] = seq[n] /\ prop = preprepare[n]
    BY <1>4, <1>9, Zenon
  <2> HIDE DEF own, ps, vote, st
  <2>6. Casts(n, vote, own, st, prop, prop, ps)
    BY <1>9, <2>1, Zenon DEF Casts, st
  <2> HIDE DEF prop
  <2>7. Consistent(n, vote)
    <3>1. ASSUME n \notin Unreliable, NEW w \in votes, w.src = n, w.code = vote.code,
                 w.seq = vote.seq
          PROVE  w.block = vote.block
      BY <1>1, <2>3, <2>5, <3>1, EarlierVotes, Zenon DEF IsHashLocked
    <3> QED
      BY <2>3, <2>4, <2>5, <3>1, Zenon DEF Consistent
  <2>8. CastValues(n, vote, st, prop, prop, ps)
    BY <1>1, <1>5, <2>2, <2>3, <2>5, Zenon DEF CastValues
  <2> QED
    BY <1>2, <1>3, <2>6, <2>7, <2>8, CastStep, Zenon
<1> QED
  BY <1>7, <1>8, <1>9, Zenon DEF HandlePrepare

\* COMMITs of distinct validators of a height are as many as their senders.
\* IBFTCoreProofs proves this (SendersCounted); it is about finite sets only.
SendersCount ==
    \A s \in Seqs : \A cs \in SUBSET Message :
        /\ \A c \in cs : c.src \in Validators[s]
        /\ \A c, d \in cs : c.src = d.src => c = d
        => Cardinality({c.src : c \in cs}) = Cardinality(cs)

\* COMMITs of a quorum for n's proposal decide it: each is a vote of its round, or its
\* sender already has the block, which was decided then.
LEMMA QuorumDecides ==
    ASSUME SendersCount, Inv, NEW n \in Node, NEW cs, Counted(n, cs),
           Cardinality(cs) >= QuorumSize[seq[n]]
    PROVE  Decided(votes, seq[n], preprepare[n])
<1>1. seq[n] \in Seqs /\ round[n] \in Rounds
  BY DEF Inv, TypeOK, ViewTypes
<1>2. CASE \E c \in cs : c.seq <= Len(chain[c.src]) /\ chain[c.src][c.seq].block = c.block
  <2>1. PICK c \in cs : c.seq <= Len(chain[c.src]) /\ chain[c.src][c.seq].block = c.block
    BY <1>2
  <2>2. c \in Message /\ c.seq = seq[n] /\ c.block = preprepare[n]
    BY Zenon DEF Counted
  <2>3. c.src \in Node /\ c.seq \in 1 .. Height(c.src)
    <3>1. c.src \in Node /\ c.seq \in Seqs
      BY <2>2 DEF Message
    <3>2. Height(c.src) \in Nat
      BY <3>1 DEF Inv, TypeOK, ChainTypes, Height
    <3> QED
      BY <2>1, <3>1, <3>2, BoundsAssumption DEF Height, Seqs
  <2>4. Decided(votes, c.seq, chain[c.src][c.seq].block)
    BY <2>3, Zenon DEF Inv, ChainInv, WrittenInv
  <2> QED
    BY <2>1, <2>2, <2>4, Zenon
<1>3. CASE \A c \in cs : CommitMsg(c.src, c.seq, c.round, c.block, c.block) \in votes
  <2> DEFINE Q == {c.src : c \in cs}
  <2>1. Cardinality(Q) >= QuorumSize[seq[n]]
    <3>1. /\ cs \in SUBSET Message /\ \A c \in cs : c.src \in Validators[seq[n]]
          /\ \A c, d \in cs : c.src = d.src => c = d
      BY Zenon DEF Counted
    <3>2. Cardinality(Q) = Cardinality(cs)
      BY <1>1, <3>1, Zenon DEF SendersCount
    <3> HIDE DEF Q
    <3> QED
      BY <3>2
  <2>2. /\ Q \in SUBSET Validators[seq[n]]
        /\ \A q \in Q : CommitMsg(q, seq[n], round[n], preprepare[n], preprepare[n]) \in votes
    BY <1>3, Zenon DEF Counted
  <2> HIDE DEF Q
  <2> QED
    BY <1>1, <2>1, <2>2, Zenon DEF Decided
<1> QED
  BY <1>2, <1>3, Zenon DEF Counted, Evidence

\* HandleCommit preserves the invariant.
LEMMA CommitStep ==
    ASSUME SendersCount, Inv, NEW n \in Node, NEW m \in events[n], HandleCommit(n, m)
    PROVE  Inv'
<1> DEFINE own == events[n] \ {m}
           b == preprepare[n]
           ps == prepares[n]
           cs == {c \in commits[n] : c.src # m.src} \cup {m}
           enough == CommitQuorum(n, cs) /\ state[n] < Committed
<1>1. /\ TypeOK /\ ViewTypes /\ RoundTypes /\ ChainTypes /\ RoundStateOf(n) /\ CountsCurrent(n)
  BY Zenon DEF Inv, TypeOK, RoundStateInv, CountsCurrentView
<1>2. /\ m.code = "COMMIT" /\ m.src \in Validators[seq[n]] /\ IsCurrent(n, m)
      /\ own \in SUBSET events[n]
  BY Zenon DEF HandleCommit, Accepts
<1>3. /\ m \in Message /\ m.seq = seq[n] /\ m.round = round[n] /\ ~waiting[n]
      /\ state[n] # AcceptRequest
  BY <1>1, <1>2, CurrentMessage
<1>4. m.block \in Block /\ Number[m.block] = seq[n] /\ Evidence(m, votes, chain)
  BY <1>2, <1>3, Zenon DEF Inv, MessageInv, Sound
<1>5. ps \in SUBSET Node /\ ps \subseteq Validators[seq[n]] /\ commits[n] \in SUBSET Message
      /\ state[n] \in AcceptRequest .. Committed /\ round[n] \in Rounds
  BY <1>1 DEF RoundTypes, ViewTypes, CountsCurrent
<1>6. m.block = b => Counted(n, cs)
  <2>1. Counted(n, commits[n])
    BY <1>1, <1>5, Zenon DEF Counted, CountsCurrent, RoundStateOf
  <2> QED
    BY <1>2, <1>3, <1>4, <2>1, Zenon DEF Counted
<1>7. prepares' = prepares => prepares' = [prepares EXCEPT ![n] = ps]
  BY <1>1 DEF RoundTypes
<1>8. CASE m.block # b /\ Discard(n, m)
  BY <1>8, DiscardStep
<1>9. CASE /\ m.block = b /\ ~enough
           /\ commits' = [commits EXCEPT ![n] = cs]
           /\ Post(n, own, {})
           /\ UNCHANGED <<seq, round, state, waiting, proposer, preprepare, prepares,
                          locked, pendingRequest, roundChangeSet,
                          pendingRequests, chainVars, votes>>
  <2> DEFINE lock == locked[n]
             st == state[n]
             ins == inserting[n]
  <2>1. locked' = [locked EXCEPT ![n] = lock] /\ state' = [state EXCEPT ![n] = st]
    BY <1>1, <1>9 DEF RoundTypes, ViewTypes
  <2>2. inserting' = [inserting EXCEPT ![n] = ins] /\ chain' = chain /\ bad' = bad
    BY <1>1, <1>9 DEF ChainTypes, chainVars
  <2>3. lock = locked[n] /\ ins = inserting[n] /\ st # AcceptRequest
        /\ st \in AcceptRequest .. Committed
    BY <1>3, <1>5, Zenon
  <2> HIDE DEF own, ps, cs, enough, lock, st, ins
  <2>4. Counts(n, own, ps, cs, lock, st, ins)
    BY <1>7, <1>9, <2>1, <2>2, Zenon DEF Counts
  <2>5. CountValues(n, ps, cs, lock, st, ins)
    BY <1>5, <1>6, <1>9, <2>3, Zenon DEF CountValues
  <2> QED
    BY <1>2, <1>3, <2>4, <2>5, CountStep, Zenon
<1>10. CASE /\ m.block = b /\ enough
            /\ commits' = [commits EXCEPT ![n] = cs]
            /\ locked' = [locked EXCEPT ![n] = b]
            /\ state' = [state EXCEPT ![n] = Committed]
            /\ Post(n, own, {})
            /\ Commit(n, cs)
            /\ UNCHANGED <<seq, round, waiting, proposer, preprepare, prepares,
                           pendingRequest, roundChangeSet, pendingRequests, chain, bad, votes>>
  <2>1. PICK sealing \in {FALSE, Author[b] = n} :
           inserting' = [inserting EXCEPT ![n] =
               [block |-> b, valid |-> SealsVerify(cs, b), verify |-> ~sealing]]
    BY <1>10, Zenon DEF Commit
  <2> DEFINE v == SealsVerify(cs, b)
             w == ~sealing
             ins == [block |-> b, valid |-> v, verify |-> w]
             st == Committed
             lock == b
  <2>2. Decided(votes, seq[n], b)
    <3>1. Cardinality(cs) >= QuorumSize[seq[n]] /\ Counted(n, cs)
      BY <1>6, <1>10, Zenon DEF CommitQuorum
    <3> HIDE DEF cs
    <3> QED
      BY <3>1, QuorumDecides, Zenon
  <2>3. SealsVerify(cs, b) \in BOOLEAN /\ sealing \in BOOLEAN
    BY Zenon DEF SealsVerify
  <2>4. /\ ins \in [block : Block, valid : BOOLEAN, verify : BOOLEAN]
        /\ Decided(votes, Number[ins.block], ins.block)
    <3>1. v \in BOOLEAN /\ w \in BOOLEAN /\ b \in Block /\ Number[b] = seq[n]
      BY <1>4, <1>10, <2>3, Zenon
    <3> HIDE DEF v, w, b, cs
    <3> QED
      BY <2>2, <3>1
  <2>5. st \in AcceptRequest .. Committed /\ st # AcceptRequest /\ lock = preprepare[n]
    BY DEF AcceptRequest, Committed
  <2> HIDE DEF own, ps, cs, enough, ins
  <2>6. Counts(n, own, ps, cs, lock, st, ins)
    BY <1>7, <1>10, <2>1, Zenon DEF Counts, ins
  <2> HIDE DEF st, lock
  <2>7. CountValues(n, ps, cs, lock, st, ins)
    BY <1>5, <1>6, <1>10, <2>4, <2>5, Zenon DEF CountValues
  <2> QED
    BY <1>2, <1>3, <2>6, <2>7, CountStep, Zenon
<1> QED
  BY <1>8, <1>9, <1>10, Zenon DEF HandleCommit
=============================================================================
