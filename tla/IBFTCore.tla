------------------------------ MODULE IBFTCore ------------------------------
(***************************************************************************)
(* The IBFT consensus core of Wormholes (consensus/istanbul/ibft/core) and *)
(* the part of its backend that hands agreed blocks to the chain.          *)
(*                                                                         *)
(* Every node runs the same single-threaded event loop (handleEvents), so  *)
(* one action below is one event handled by one node, with every call the  *)
(* handler makes.  The interleavings are those of the nodes, of the        *)
(* messages between them (delayed, reordered, lost), of their round-change *)
(* timers, and of the chain that imports blocks beside the core.           *)
(*                                                                         *)
(* Unreliable nodes may lose a lock: they restart (nothing of the core is  *)
(* persisted), or have a block recorded as bad.                            *)
(* No node forges messages.                                                *)
(***************************************************************************)
EXTENDS CheckMessage, Integers, Sequences, FiniteSets

CONSTANTS
    Node,            \* every node of the network
    ValSetAt,        \* ValSetAt[s]: the sorted validator list of height s
    Unreliable,      \* the nodes that may lose a lock
    Impatient,       \* bound: the nodes whose round-change timer fires
    Importers,       \* bound: the nodes that get blocks from peers, too
    Block,           \* the blocks the miners build; a block stands for its hash, too
    Number, Author,  \* the height of a block, and the node that sealed it
    MaxSeq,          \* bound: the highest block number agreed on
    MaxRound,        \* bound: the highest round of a height
    Ceil2Nby3Block,  \* config.Ceil2Nby3Block
    None             \* nil, or the empty hash

Seqs == 1 .. (MaxSeq + 1)
Rounds == 0 .. MaxRound

Validators == [s \in Seqs |-> {ValSetAt[s][i] : i \in 1 .. Len(ValSetAt[s])}]

ASSUME BoundsAssumption == MaxSeq \in Nat \ {0} /\ MaxRound \in Nat /\ Ceil2Nby3Block \in Nat
ASSUME NodeAssumption == IsFiniteSet(Node) /\ Unreliable \subseteq Node
ASSUME BlockAssumption == Number \in [Block -> 1 .. MaxSeq] /\ Author \in [Block -> Node]
ASSUME NoneAssumption == None \notin Block /\ None \notin Node
\* validator.newDefaultSet: a non-empty list of distinct addresses.
ASSUME ValSetAssumption ==
    /\ ValSetAt \in [Seqs -> Seq(Node)]
    /\ \A s \in Seqs : /\ Len(ValSetAt[s]) > 0
                       /\ \A i, j \in 1 .. Len(ValSetAt[s]) :
                            ValSetAt[s][i] = ValSetAt[s][j] => i = j

Size == [s \in Seqs |-> Len(ValSetAt[s])]

\* valSet.F(): ceil(N / 3) - 1.
F == [s \in Seqs |-> ((Size[s] + 2) \div 3) - 1]

\* 2F + 1 below Ceil2Nby3Block, ceil(2N / 3) from there on.
QuorumSize == [s \in Seqs |->
    IF s < Ceil2Nby3Block THEN 2 * F[s] + 1 ELSE (2 * Size[s] + 2) \div 3]

\* GetByAddress, which counts from 0; calcSeed takes 0 for a stranger.
IndexOf(s, a) ==
    IF a \in Validators[s]
    THEN (CHOOSE i \in 1 .. Size[s] : ValSetAt[s][i] = a) - 1
    ELSE 0

\* roundRobinProposer, the policy of the shipped chain configurations.
RoundRobinProposer(s, lastProposer, r) ==
    LET seed == IF lastProposer = None THEN r ELSE IndexOf(s, lastProposer) + r + 1
    IN  ValSetAt[s][(seed % Size[s]) + 1]

-----------------------------------------------------------------------------
(* The core's state, one function per field of core and roundState.        *)

VARIABLES
    seq, round,       \* current.sequence, current.round
    state,            \* core.state
    waiting,          \* core.waitingForRoundChange
    proposer,         \* valSet.proposer, as CalcProposer left it
    preprepare,       \* the proposal of current.Preprepare
    prepares,         \* current.Prepares: the senders
    commits,          \* current.Commits: the messages, one per sender
    locked,           \* current.lockedHash
    pendingRequest,   \* current.pendingRequest
    roundChangeSet,   \* core.roundChangeSet: the ROUND CHANGE messages
    pendingRequests   \* core.pendingRequests

(* Around the core.                                                        *)
VARIABLES
    events,           \* messages on their way to a node, in its event mux or backlog
    chain,            \* the local chain: what was written, and are its seals valid
    inserting,        \* the block Backend.Commit handed over for insertion
    bad,              \* blocks recorded as bad, see HasBadProposal
    votes             \* history: every PREPARE and COMMIT cast for a live view

roundVars == <<preprepare, prepares, commits, locked>>
chainVars == <<chain, inserting, bad>>
vars == <<seq, round, state, waiting, proposer, roundVars, pendingRequest,
          roundChangeSet, pendingRequests, events, chainVars, votes>>

Message == [code : Code, src : Node, seq : Seqs, round : Rounds,
            block : Block \cup {None}, seal : Block \cup {None}]

Msg(code, n, s, r, b, seal) ==
    [code |-> code, src |-> n, seq |-> s, round |-> r, block |-> b, seal |-> seal]

\* The messages of a node's current view.  finalizeMessage seals a COMMIT with
\* the hash of current.Proposal(), whatever block the COMMIT is about.
PreprepareMsg(n, s, r, b) == Msg("PREPREPARE", n, s, r, b, None)
PrepareMsg(n, s, r, b) == Msg("PREPARE", n, s, r, b, None)
CommitMsg(n, s, r, b, proposal) == Msg("COMMIT", n, s, r, b, proposal)
RoundChangeMsg(n, s, r) == Msg("ROUNDCHANGE", n, s, r, None, None)

-----------------------------------------------------------------------------
(* Which messages a node handles, and what it looks up.                    *)

IsCurrent(n, m) ==
    /\ ~IsOld(m, seq[n], round[n])
    /\ ~IsFuture(m, seq[n], round[n], waiting[n], state[n])

\* Mutant: the sender is not looked up in the validator set.
AcceptsAnySender(n, m) == TRUE

\* handleMsg and handleEvents: messages of non-validators are refused, and a node
\* that is no validator of its height only passes messages on - unless they come
\* from its backlog, which handleEvents does not check: it may still handle them.
Accepts(n, m) == m.src \in Validators[seq[n]]
Refuses(n, m) == ~({n, m.src} \subseteq Validators[seq[n]])

Height(n) == Len(chain[n])

\* backend.LastProposal and GetProposer: the author of block s of n's chain.
AuthorOf(n, s) == IF s = 0 THEN None ELSE Author[chain[n][s].block]

\* roundState.IsHashLocked for a given lockedHash.
IsHashLocked(n, lock) == lock # None /\ lock \notin bad[n]

\* broadcast: out goes to every node, n itself included; n's own queue is own.
Post(n, own, out) ==
    events' = [k \in Node |-> (IF k = n THEN own ELSE events[k]) \cup out]

\* Old messages change nothing when they are handled, except a PREPREPARE (see
\* HandleOldPreprepare): they leave the queue as soon as the view moves past them.  An
\* unreliable node may come back to round 0 of the sequence and get them then.
Live(n, own, s, r) ==
    {m \in own : m.code = "PREPREPARE" \/ ~IsOld(m, s, IF n \in Unreliable THEN 0 ELSE r)}

-----------------------------------------------------------------------------
(* Rounds.                                                                 *)

\* newRoundState: empty message sets, the rest as given.
NewRoundState(n, lock, proposal, request) ==
    /\ locked' = [locked EXCEPT ![n] = lock]
    /\ preprepare' = [preprepare EXCEPT ![n] = proposal]
    /\ prepares' = [prepares EXCEPT ![n] = {}]
    /\ commits' = [commits EXCEPT ![n] = {}]
    /\ pendingRequest' = [pendingRequest EXCEPT ![n] = request]

\* Mutants: a round change forgets the lock; it keeps the lock but not the proposal.
UpdateRoundStateUnlocks(n, lock, roundChange) ==
    NewRoundState(n, None, None, IF roundChange THEN pendingRequest[n] ELSE None)
UpdateRoundStateDropsProposal(n, lock, roundChange) ==
    IF roundChange THEN NewRoundState(n, lock, None, pendingRequest[n])
                   ELSE NewRoundState(n, None, None, None)

\* updateRoundState: a round change keeps a locked proposal, a new sequence nothing.
UpdateRoundState(n, lock, roundChange) ==
    LET keep == roundChange /\ IsHashLocked(n, lock)
    IN  NewRoundState(n, IF keep THEN lock ELSE None, IF keep THEN preprepare[n] ELSE None,
                      IF roundChange THEN pendingRequest[n] ELSE None)

\* roundChangeSet.Clear: what is left of rcs from round r on.
Clear(rcs, r) == {m \in rcs : m.round >= r}

\* catchUpRound: neither the state nor the proposer moves.
CatchUpRound(n, r, lock, rcs) ==
    /\ waiting' = [waiting EXCEPT ![n] = TRUE]
    /\ round' = [round EXCEPT ![n] = r]
    /\ UpdateRoundState(n, lock, TRUE)
    /\ roundChangeSet' = [roundChangeSet EXCEPT ![n] = Clear(rcs, r)]

\* Mutant: the message has the view from before catchUpRound.
SendRoundChangeBefore(n, r, lock, rcs, own) ==
    /\ r \in Rounds
    /\ CatchUpRound(n, r, lock, rcs)
    /\ Post(n, Live(n, own, seq[n], r), {RoundChangeMsg(n, seq[n], round[n])})
    /\ UNCHANGED <<seq, proposer, pendingRequests, votes>>

SendRoundChange(n, r, lock, rcs, own) ==
    /\ r \in Rounds
    /\ CatchUpRound(n, r, lock, rcs)
    /\ Post(n, Live(n, own, seq[n], r), {RoundChangeMsg(n, seq[n], r)})
    /\ UNCHANGED <<seq, proposer, pendingRequests, votes>>

SendNextRoundChange(n, own) ==
    /\ SendRoundChange(n, round[n] + 1, locked[n], roundChangeSet[n], own)
    /\ UNCHANGED <<state, chainVars>>

\* Mutant: the proposer of the view before is kept.
CalcProposerStale(n, s, r) == proposer[n]

\* valSet.CalcProposer for a view on n's chain, after the author of block s - 1.
CalcProposer(n, s, r) == RoundRobinProposer(s, AuthorOf(n, s - 1), r)

\* The part of startNewRound common to a new sequence and a new round.
EnterView(n, s, r, own, out) ==
    /\ seq' = [seq EXCEPT ![n] = s]
    /\ round' = [round EXCEPT ![n] = r]
    /\ waiting' = [waiting EXCEPT ![n] = FALSE]
    /\ state' = [state EXCEPT ![n] = AcceptRequest]
    /\ proposer' = [proposer EXCEPT ![n] = CalcProposer(n, s, r)]
    /\ roundChangeSet' = [roundChangeSet EXCEPT ![n] = {}]
    /\ Post(n, Live(n, own, s, r), out)
    /\ UNCHANGED <<chainVars, votes>>

\* startNewRound when the chain has reached the current sequence.
NewSequence(n, own) ==
    /\ Height(n) >= seq[n]
    /\ UpdateRoundState(n, None, FALSE)
    /\ pendingRequests' = [pendingRequests EXCEPT ![n] = {b \in @ : Number[b] > Height(n)}]
    /\ EnterView(n, Height(n) + 1, 0, own, {})

\* What the proposer of a new round proposes: the locked block or its own request.
Reproposal(n) == IF IsHashLocked(n, locked[n]) THEN preprepare[n] ELSE pendingRequest[n]

\* startNewRound(r) within the sequence.
NewRound(n, r, own) ==
    /\ Height(n) = seq[n] - 1
    /\ UpdateRoundState(n, locked[n], TRUE)
    /\ UNCHANGED pendingRequests
    /\ EnterView(n, seq[n], r, own,
                 IF /\ CalcProposer(n, seq[n], r) = n
                    /\ Reproposal(n) # None
                 THEN {PreprepareMsg(n, seq[n], r, Reproposal(n))}
                 ELSE {})

StartNewRound(n, r, own) == NewSequence(n, own) \/ NewRound(n, r, own)

-----------------------------------------------------------------------------
(* Handlers.                                                               *)

\* handleRequest for the current sequence; others is what is left to request.
Propose(n, b, others) ==
    /\ pendingRequest' = [pendingRequest EXCEPT ![n] = b]
    /\ pendingRequests' = [pendingRequests EXCEPT ![n] = others]
    /\ Post(n, events[n],
            IF state[n] = AcceptRequest /\ proposer[n] = n
            THEN {PreprepareMsg(n, seq[n], round[n], b)} ELSE {})
    /\ UNCHANGED <<seq, round, state, waiting, proposer, roundVars, roundChangeSet,
                   chainVars, votes>>

\* Backend.Seal posts a block the miner built on some head n has had.
HandleRequest(n, b) ==
    /\ Author[b] = n /\ n \in Validators[Number[b]]
    /\ Number[b] \in seq[n] .. (Height(n) + 1)
    /\ b # pendingRequest[n] /\ b \notin pendingRequests[n]
    /\ \/ Number[b] = seq[n] /\ Propose(n, b, pendingRequests[n])
       \/ /\ Number[b] > seq[n]
          /\ pendingRequests' = [pendingRequests EXCEPT ![n] = @ \cup {b}]
          /\ UNCHANGED <<seq, round, state, waiting, proposer, roundVars, pendingRequest,
                         roundChangeSet, events, chainVars, votes>>

\* The stored requests processPendingRequests posts once their sequence has come.
HandlePendingRequest(n) ==
    \E b \in pendingRequests[n] :
        Number[b] = seq[n] /\ Propose(n, b, pendingRequests[n] \ {b})

\* A message handleMsg refuses, or one that finds nothing to do: it is gone.
Discard(n, m) ==
    /\ events' = [events EXCEPT ![n] = @ \ {m}]
    /\ UNCHANGED <<seq, round, state, waiting, proposer, roundVars, pendingRequest,
                   roundChangeSet, pendingRequests, chainVars, votes>>

HandleUnauthorized(n, m) == Refuses(n, m) /\ Discard(n, m)

\* Mutant: a future message is not stored at all.
DropFuture(n, m) ==
    /\ Accepts(n, m) /\ IsFuture(m, seq[n], round[n], waiting[n], state[n])
    /\ Discard(n, m)

\* storeBacklog: a future message waits in the backlog until setState finds that its
\* view has come, which is where events keeps it (module Backlog: NothingCurrentWaits).
\* A node does not keep its own: they are lost.
DropOwnFuture(n, m) ==
    /\ m.src = n /\ Accepts(n, m)
    /\ IsFuture(m, seq[n], round[n], waiting[n], state[n])
    /\ Discard(n, m)

\* handlePreprepare of an old view: sendCommitForOldBlock for a block n has.
HandleOldPreprepare(n, m) ==
    /\ m.code = "PREPREPARE" /\ Accepts(n, m) /\ IsOld(m, seq[n], round[n])
    /\ Post(n, events[n] \ {m},
            IF /\ Number[m.block] <= Height(n)
               /\ chain[n][Number[m.block]].block = m.block
               /\ m.src = CalcProposer(n, m.seq, m.round)
            THEN {CommitMsg(n, m.seq, m.round, m.block, preprepare[n])} ELSE {})
    /\ UNCHANGED <<seq, round, state, waiting, proposer, roundVars, pendingRequest,
                   roundChangeSet, pendingRequests, chainVars, votes>>

\* backend.Verify rejects a block recorded as bad, and may reject one it checks
\* against the validators of a head that has moved on.
VerifyFails(n, b) == b \in bad[n] \/ Height(n) # seq[n] - 1

\* Mutant: a second proposal is taken in a view.
TakesAnyState(n, m) == m.block \notin bad[n] /\ m.src = proposer[n]

\* Does n take the proposal: it is the proposer's, it verifies, and it is the first.
Takes(n, m) == m.block \notin bad[n] /\ m.src = proposer[n] /\ state[n] = AcceptRequest

\* handlePreprepare in the current view.  A block from the future (ErrFutureBlock)
\* is posted again later: the message stays where it is, which is no step at all.
HandlePreprepare(n, m) ==
    /\ m.code = "PREPREPARE" /\ Accepts(n, m) /\ IsCurrent(n, m)
    /\ LET own == events[n] \ {m}
           takes == Takes(n, m)
           isLocked == IsHashLocked(n, locked[n])
       IN  \/ m.src # proposer[n] /\ Discard(n, m)
           \/ m.src = proposer[n] /\ VerifyFails(n, m.block) /\ SendNextRoundChange(n, own)
           \/ takes /\ isLocked /\ locked[n] # m.block /\ SendNextRoundChange(n, own)
           \/ ~takes /\ m.src = proposer[n] /\ m.block \notin bad[n] /\ Discard(n, m)
           \/ /\ takes /\ (isLocked => locked[n] = m.block)
              /\ LET vote == IF isLocked
                             THEN CommitMsg(n, seq[n], round[n], m.block, m.block)
                             ELSE PrepareMsg(n, seq[n], round[n], m.block)
                 IN  Post(n, own, {vote}) /\ votes' = votes \cup {vote}
              /\ state' = [state EXCEPT ![n] = IF isLocked THEN Prepared ELSE Preprepared]
              /\ preprepare' = [preprepare EXCEPT ![n] = m.block]
              /\ UNCHANGED <<seq, round, waiting, proposer, prepares, commits, locked,
                             pendingRequest, roundChangeSet, pendingRequests, chainVars>>

\* roundState.GetPrepareOrCommitSize: a sender of both counts once.
PrepareOrCommitSize(ps, cs) == Cardinality(ps \cup {c.src : c \in cs})

HandlePrepare(n, m) ==
    /\ m.code = "PREPARE" /\ Accepts(n, m) /\ IsCurrent(n, m)
    /\ LET own == events[n] \ {m}
           ps == prepares[n] \cup {m.src}
           enough == /\ state[n] < Prepared
                     /\ \/ IsHashLocked(n, locked[n]) /\ m.block = locked[n]
                        \/ PrepareOrCommitSize(ps, commits[n]) >= QuorumSize[seq[n]]
           vote == CommitMsg(n, seq[n], round[n], m.block, m.block)
       IN  \/ m.block # preprepare[n] /\ Discard(n, m)
           \/ /\ m.block = preprepare[n]
              /\ prepares' = [prepares EXCEPT ![n] = ps]
              /\ \/ /\ enough
                    /\ locked' = [locked EXCEPT ![n] = preprepare[n]]
                    /\ state' = [state EXCEPT ![n] = Prepared]
                    /\ Post(n, own, {vote})
                    /\ votes' = votes \cup {vote}
                 \/ /\ ~enough
                    /\ Post(n, own, {})
                    /\ UNCHANGED <<locked, state, votes>>
              /\ UNCHANGED <<seq, round, waiting, proposer, preprepare, commits,
                             pendingRequest, roundChangeSet, pendingRequests, chainVars>>

\* verifyCommittedSeals: every seal covers the block, and there are more than F.
SealsVerify(cs, b) == (\A c \in cs : c.seal = b) /\ Cardinality(cs) > F[Number[b]]

\* Backend.Commit.  The node that is sealing this very block writes it without
\* verifying it (commitCh); any other block goes through the importer (Enqueue).
Commit(n, cs) ==
    LET b == preprepare[n]
    IN  \E sealing \in {FALSE, Author[b] = n} :
            inserting' = [inserting EXCEPT ![n] =
                [block |-> b, valid |-> SealsVerify(cs, b), verify |-> ~sealing]]

\* Mutant: senders of a PREPARE are counted, too, as handlePrepare does.
CommitQuorumWithPrepares(n, cs) == PrepareOrCommitSize(prepares[n], cs) >= QuorumSize[seq[n]]

\* Are the COMMITs cs enough to commit.
CommitQuorum(n, cs) == Cardinality(cs) >= QuorumSize[seq[n]]

\* handleCommit and commit.  Backend.Commit returns no error here: the proposal is a block
\* whose extra data was decoded before, and commit gives every seal its length.
HandleCommit(n, m) ==
    /\ m.code = "COMMIT" /\ Accepts(n, m) /\ IsCurrent(n, m)
    /\ LET own == events[n] \ {m}
           cs == {c \in commits[n] : c.src # m.src} \cup {m}
           enough == CommitQuorum(n, cs) /\ state[n] < Committed
       IN  \/ m.block # preprepare[n] /\ Discard(n, m)
           \/ /\ m.block = preprepare[n] /\ ~enough
              /\ commits' = [commits EXCEPT ![n] = cs]
              /\ Post(n, own, {})
              /\ UNCHANGED <<seq, round, state, waiting, proposer, preprepare, prepares,
                             locked, pendingRequest, roundChangeSet,
                             pendingRequests, chainVars, votes>>
           \/ /\ m.block = preprepare[n] /\ enough
              /\ commits' = [commits EXCEPT ![n] = cs]
              /\ locked' = [locked EXCEPT ![n] = preprepare[n]]
              /\ state' = [state EXCEPT ![n] = Committed]
              /\ Post(n, own, {})
              /\ Commit(n, cs)
              /\ UNCHANGED <<seq, round, waiting, proposer, preprepare, prepares,
                             pendingRequest, roundChangeSet, pendingRequests, chain, bad,
                             votes>>

\* Mutant: a node that waits for the very round does not start it.
StartsRoundAhead(n, r, num) == num = QuorumSize[seq[n]] /\ round[n] < r

\* Do num ROUND CHANGEs to round r start it.
StartsRound(n, r, num) ==
    num = QuorumSize[seq[n]] /\ (waiting[n] \/ round[n] < r)

\* handleRoundChange: F + 1 messages pull a waiting node up, a quorum starts the round.
HandleRoundChange(n, m) ==
    /\ m.code = "ROUNDCHANGE" /\ Accepts(n, m) /\ IsCurrent(n, m)
    /\ LET own == events[n] \ {m}
           rcs == roundChangeSet[n] \cup {m}
           num == Cardinality({x \in rcs : x.round = m.round})
           weak == waiting[n] /\ num = F[seq[n]] + 1
           quorum == ~weak /\ StartsRound(n, m.round, num)
       IN  \/ /\ weak /\ round[n] < m.round
              /\ SendRoundChange(n, m.round, locked[n], rcs, own)
              /\ UNCHANGED <<state, chainVars>>
           \/ quorum /\ StartNewRound(n, m.round, own)
           \/ /\ ~(weak /\ round[n] < m.round) /\ ~quorum
              /\ roundChangeSet' = [roundChangeSet EXCEPT ![n] = rcs]
              /\ Post(n, own, {})
              /\ UNCHANGED <<seq, round, state, waiting, proposer, roundVars, pendingRequest,
                             pendingRequests, chainVars, votes>>

\* roundChangeSet.MaxRound(num), 0 for none.
RoundsWith(n, num) ==
    {r \in Rounds : Cardinality({x \in roundChangeSet[n] : x.round = r}) >= num}

\* handleTimeoutMsg.  The timer is armed in every view.
HandleTimeout(n) ==
    LET ahead == IF waiting[n] THEN {}
                 ELSE {r \in RoundsWith(n, F[seq[n]] + 1) : r > round[n]}
    IN  /\ n \in Impatient /\ seq[n] <= MaxSeq
        /\ \/ \E r \in ahead :
                /\ \A q \in ahead : q <= r
                /\ SendRoundChange(n, r, locked[n], roundChangeSet[n], events[n])
                /\ UNCHANGED <<state, chainVars>>
           \/ ahead = {} /\ NewSequence(n, events[n])
           \/ ahead = {} /\ Height(n) < seq[n] /\ SendNextRoundChange(n, events[n])

\* handleFinalCommitted, the answer to NewChainHead; without a new head it does nothing.
HandleFinalCommitted(n) == NewSequence(n, events[n])

-----------------------------------------------------------------------------
(* The chain, and faults.                                                  *)

coreVars == <<seq, round, state, waiting, proposer, roundVars, pendingRequest,
              roundChangeSet, pendingRequests>>

\* Mutant: the chain does not check that the block goes on its head.
IsWrittenAnywhere(n, ins) == ins.verify => ins.valid

\* Does the chain write the block: it goes on the head, and the importer, which
\* Seal does not go through, finds its seals valid.
IsWritten(n, ins) ==
    Number[ins.block] = Height(n) + 1 /\ (ins.verify => ins.valid)

\* The block handed over by Commit is written or dropped.
InsertBlock(n) ==
    /\ inserting[n] # None
    /\ LET ins == inserting[n]
       IN  chain' = [chain EXCEPT ![n] = IF IsWritten(n, ins)
               THEN Append(@, [block |-> ins.block, valid |-> ins.valid]) ELSE @]
    /\ inserting' = [inserting EXCEPT ![n] = None]
    /\ UNCHANGED <<coreVars, events, bad, votes>>

\* The fetcher or the downloader gets the next block from a peer and verifies it.
ImportBlock(n, p) ==
    /\ n \in Importers
    /\ Height(p) > Height(n)
    /\ chain[p][Height(n) + 1].valid
    /\ chain' = [chain EXCEPT ![n] = Append(@, chain[p][Height(n) + 1])]
    /\ UNCHANGED <<coreVars, events, inserting, bad, votes>>

\* Stop and Start: a fresh core on the chain as it is.  A block still on its way
\* to the chain may be lost with the process.  HandleMsg drops what comes while the core
\* is stopped, and the backlog is gone; messages still on the wire come later.
Restart(n) ==
    /\ n \in Unreliable
    /\ seq' = [seq EXCEPT ![n] = Height(n) + 1]
    /\ round' = [round EXCEPT ![n] = 0]
    /\ state' = [state EXCEPT ![n] = AcceptRequest]
    /\ waiting' = [waiting EXCEPT ![n] = FALSE]
    /\ proposer' = [proposer EXCEPT ![n] = CalcProposer(n, Height(n) + 1, 0)]
    /\ UpdateRoundState(n, None, FALSE)
    /\ roundChangeSet' = [roundChangeSet EXCEPT ![n] = {}]
    /\ pendingRequests' = [pendingRequests EXCEPT ![n] = {}]
    /\ \E kept \in SUBSET events[n] : events' = [events EXCEPT ![n] = kept]
    /\ \E ins \in {None, inserting[n]} : inserting' = [inserting EXCEPT ![n] = ins]
    /\ UNCHANGED <<chain, bad, votes>>

\* The chain failed to process a block and recorded it as bad (HasBadProposal).
ReportBadBlock(n, b) ==
    /\ n \in Unreliable
    /\ b = locked[n] /\ b \notin bad[n]
    /\ bad' = [bad EXCEPT ![n] = @ \cup {b}]
    /\ UNCHANGED <<coreVars, events, chain, inserting, votes>>

-----------------------------------------------------------------------------
(* core.New and Start on the genesis block.                                *)
Init ==
    /\ seq = [n \in Node |-> 1]
    /\ round = [n \in Node |-> 0]
    /\ state = [n \in Node |-> AcceptRequest]
    /\ waiting = [n \in Node |-> FALSE]
    /\ proposer = [n \in Node |-> RoundRobinProposer(1, None, 0)]
    /\ preprepare = [n \in Node |-> None]
    /\ prepares = [n \in Node |-> {}]
    /\ commits = [n \in Node |-> {}]
    /\ locked = [n \in Node |-> None]
    /\ pendingRequest = [n \in Node |-> None]
    /\ roundChangeSet = [n \in Node |-> {}]
    /\ pendingRequests = [n \in Node |-> {}]
    /\ events = [n \in Node |-> {}]
    /\ chain = [n \in Node |-> <<>>]
    /\ inserting = [n \in Node |-> None]
    /\ bad = [n \in Node |-> {}]
    /\ votes = {}

\* handleCheckedMsg: one message from n's queue.
HandleMsg(n, m) ==
    \/ HandleUnauthorized(n, m)
    \/ DropOwnFuture(n, m)
    \/ HandleOldPreprepare(n, m)
    \/ HandlePreprepare(n, m)
    \/ HandlePrepare(n, m)
    \/ HandleCommit(n, m)
    \/ HandleRoundChange(n, m)

NodeStep(n) ==
    \/ \E m \in events[n] : HandleMsg(n, m)
    \/ \E b \in Block : HandleRequest(n, b)
    \/ HandlePendingRequest(n)
    \/ HandleTimeout(n)
    \/ HandleFinalCommitted(n)
    \/ InsertBlock(n)
    \/ \E p \in Node : ImportBlock(n, p)

FaultStep(n) ==
    \/ Restart(n)
    \/ \E b \in Block : ReportBadBlock(n, b)

Next == \E n \in Node : NodeStep(n) \/ FaultStep(n)

Spec == Init /\ [][Next]_vars

\* The event loop takes what is queued, an armed timer fires, the importer and the
\* fetcher work off what they have, and the miner seals on every head.
Fairness ==
    \A n \in Node :
        /\ WF_vars(\E m \in events[n] : HandleMsg(n, m))
        /\ WF_vars(\E b \in Block : HandleRequest(n, b))
        /\ WF_vars(HandlePendingRequest(n))
        /\ WF_vars(HandleTimeout(n))
        /\ WF_vars(HandleFinalCommitted(n))
        /\ WF_vars(InsertBlock(n))
        /\ WF_vars(\E p \in Node : ImportBlock(n, p))

LiveSpec == Spec /\ Fairness

-----------------------------------------------------------------------------
(* Properties.                                                             *)

\* The view of a node, its round state, its messages and requests, and its chain.
ViewTypes ==
    /\ seq \in [Node -> Seqs] /\ round \in [Node -> Rounds]
    /\ state \in [Node -> AcceptRequest .. Committed] /\ waiting \in [Node -> BOOLEAN]
    /\ proposer \in [Node -> Node] /\ \A n \in Node : proposer[n] \in Validators[seq[n]]

RoundTypes ==
    /\ preprepare \in [Node -> Block \cup {None}] /\ locked \in [Node -> Block \cup {None}]
    /\ prepares \in [Node -> SUBSET Node] /\ commits \in [Node -> SUBSET Message]
    /\ pendingRequest \in [Node -> Block \cup {None}]

MessageTypes ==
    /\ roundChangeSet \in [Node -> SUBSET Message] /\ pendingRequests \in [Node -> SUBSET Block]
    /\ events \in [Node -> SUBSET Message] /\ votes \subseteq Message

ChainTypes ==
    /\ chain \in [Node -> Seq([block : Block, valid : BOOLEAN])]
    /\ inserting \in [Node -> [block : Block, valid : BOOLEAN, verify : BOOLEAN] \cup {None}]
    /\ bad \in [Node -> SUBSET Block]

\* Every field of the core holds a value of its Go type, and the proposer of a view is
\* a validator of its height.
TypeOK == ViewTypes /\ RoundTypes /\ MessageTypes /\ ChainTypes

\* What n counts: PREPAREs, COMMITs and ROUND CHANGEs.
CountsCurrent(n) ==
    /\ prepares[n] \subseteq Validators[seq[n]]
    /\ \A c \in commits[n] :
          /\ c.code = "COMMIT" /\ c.src \in Validators[seq[n]]
          /\ c.seq = seq[n] /\ c.round = round[n] /\ c.block = preprepare[n]
          /\ \A d \in commits[n] : c.src = d.src => c = d
    /\ \A m \in roundChangeSet[n] :
          /\ m = RoundChangeMsg(m.src, seq[n], m.round)
          /\ m.src \in Validators[seq[n]] /\ m.round >= round[n]

\* What a node counts towards a quorum belongs to the view and the proposal it is
\* at, and comes from validators of the height, once each (checkMessage,
\* verifyPrepare, verifyCommit, messageSet.Add, roundChangeSet.Clear).
CountsCurrentView == \A n \in Node : CountsCurrent(n)

\* No two nodes ever write different blocks at the same height, however rounds,
\* imports and restarts interleave (commit, startNewRound, Backend.Commit).
Agreement ==
    \A n, p \in Node : \A h \in 1 .. Height(n) :
        h <= Height(p) => chain[n][h].block = chain[p][h].block

\* handlePrepare relies on it: "Passing verifyPrepare and checkMessage implies it is
\* processing on the locked block".  A lock always has its proposal beside it, so
\* that LockHash never replaces a lock and Reproposal is the locked block.
LockedProposal ==
    \A n \in Node \ Unreliable : locked[n] # None => preprepare[n] = locked[n]

\* A node that keeps its memory casts at most one PREPARE in a view, and never
\* COMMITs to two blocks of one height, whatever rounds it goes through
\* (handlePreprepare, handlePrepare, startNewRound).
NoDoubleVote ==
    \A v, w \in votes :
        /\ v.src = w.src /\ v.src \notin Unreliable
        /\ v.code = w.code /\ v.seq = w.seq
        /\ v.code = "PREPARE" => v.round = w.round
        => v.block = w.block

\* Among the votes vs: the COMMITs of a quorum of validators for one view.
Decided(vs, h, b) ==
    \E r \in Rounds : \E Q \in SUBSET Validators[h] :
        /\ Cardinality(Q) >= QuorumSize[h]
        /\ \A q \in Q : CommitMsg(q, h, r, b, b) \in vs

\* Every block on a chain has the COMMITs of a quorum that voted in one and the same
\* round, although handleCommit also counts the COMMITs that sendCommitForOldBlock
\* sends for any round.
ChainDecided ==
    \A n \in Node : \A h \in 1 .. Height(n) : Decided(votes, h, chain[n][h].block)

\* "We've received 2f+1/Ceil(2N/3) ROUND CHANGE messages, start a new round
\* immediately": no node goes on holding a quorum of ROUND CHANGEs to a round that
\* it waits for or that lies ahead.
RoundChangeQuorum ==
    \A n \in Node : \A r \in round[n] .. MaxRound :
        r > round[n] \/ waiting[n] =>
            Cardinality({m \in roundChangeSet[n] : m.round = r}) < QuorumSize[seq[n]]

\* Within a height a lock is never released or moved, and the view only grows
\* (catchUpRound, updateRoundState, LockHash).
LockStable ==
    [][\A n \in Node \ Unreliable :
        /\ seq'[n] > seq[n] \/ (seq'[n] = seq[n] /\ round'[n] >= round[n])
        /\ seq'[n] = seq[n] /\ locked[n] # None => locked'[n] = locked[n]]_vars

\* What the chain is promised: every node copies one and the same ledger.
Written == [n \in Node |-> [h \in 1 .. Height(n) |-> chain[n][h].block]]
L == INSTANCE Ledger WITH ledger <- Written

\* The chains implement the ledger: InsertBlock and ImportBlock write the one block
\* of the next height, and nothing else touches a chain.
LedgerSpec == L!Spec

\* A block on a chain carries seals that every other node accepts: finalizeMessage
\* adds the seal as "proof of consensus" on the block the COMMIT is about.
ChainSealed == \A n \in Node : \A h \in 1 .. Height(n) : chain[n][h].valid

\* sendPreprepare proposes "If I'm the proposer": whoever proposes in a view is the
\* proposer that CalcProposer gives for it.
OnlyProposerProposes ==
    \A n \in Node : \A m \in events[n] :
        m.code = "PREPREPARE" => m.src = CalcProposer(m.src, m.seq, m.round)

\* A node that has asked for a round change does not wait for ever: the round starts
\* with the others' ROUND CHANGEs, or the chain takes the node past the height.
RoundChangeCompletes == \A n \in Node : waiting[n] ~> ~waiting[n]

\* When no timer fires, every message arrives and the proposer has a request, every
\* node writes the block, in whatever order the messages are handled.
EventuallyCommitted == <>(\A n \in Node : Height(n) = MaxSeq)

=============================================================================
