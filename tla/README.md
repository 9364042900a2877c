# Wormholes in TLA+

This directory specifies the parts in which Wormholes differs from go-ethereum: how its
nodes agree on blocks, how a block gets from the miner through consensus to the chain and
survives a crash, who becomes a validator, and what happens to the NFTs in the state. The
engine is the one that the shipped chain configurations run: IBFT, the legacy Istanbul
protocol inherited from Quorum (`consensus/istanbul`), with the round robin proposer policy
and quorums of `ceil(2N/3)`.

## The system and its parts

| part | code | state | operations | module |
|------|------|-------|------------|--------|
| IBFT core | `consensus/istanbul/ibft/core` | view, state, proposer, round state (proposal, votes, lock), round change set, pending requests | one handler per event of `handleEvents` | `IBFTCore`, `CheckMessage` |
| backlog | `ibft/core/backlog.go` | one priority queue per validator | store, process on every `setState`, posted events | `Backlog`, `CheckMessage` |
| backend and miner worker | `consensus/istanbul/backend`, `miner/worker.go`, `miner/miner.go` | `sealMu`, `proposedBlockHash`, `commitCh`, goroutines of `Seal`, tasks, results | `Seal`, `Commit`, `Start`, `Stop`, `taskLoop`, `resultLoop`, `update` | `SealCommit`; as the core sees it in `IBFTCore` |
| chain | `core/blockchain.go` | blocks, states, the seven lists of each block, head | `insertChain`, `writeBlockWithState`, `Stop`, `NewBlockChain` | `BlockStore`; `Ledger` is what consensus promises |
| stakes and their lists | `core/vm/evm.go`, `core/evm.go`, `core/types/*_account.go`, `active_miner_pool.go` | pledged balances, exchanges, lists of stakers, validators and active miners | transaction types 9 to 12, 21, 22, proofs of being online, end of a block | `Staking` |
| election | `core/types/active_miner_pool.go`, `stake_account.go` | | `ValidatorByDistanceAndWeight` | `Selection` |
| SNFTs | `core/state/statedb.go`, `core/types/nfttypes.go` | owners and levels, exchange list, injected ranges, nomination | merge, split, transfer, exchange, inject, vote, mint | `OfficialNFT` |
| user NFTs and sales | `core/evm.go`, `core/state/statedb.go` | owner, approvals, royalty, exclusive exchange, balances | mint, transfer, approve, open and close, seven kinds of sale | `Market` |
| QBFT, snapshot voting, Clique, ethash, networking, transaction pool, tries, RPC | | | | not modelled, see the end |

How they interact. The miner builds a block and `Seal` posts it to the core as a request.
The proposer of the view broadcasts it (PREPREPARE), validators answer with PREPARE, a
quorum locks the block and sends COMMIT, a quorum of COMMITs commits. `Backend.Commit` gives
the block to the waiting `Seal` if this node sealed it, and to the importer otherwise.
`writeBlockWithState` writes it, with seven lists that its transactions have changed: these
say who may be elected for the next height, and which SNFTs the next block gives out. The
chain announces the new head, `NewChainHead` tells the core, and the next height begins.
When nothing comes, a timer asks for a round change. Blocks also come from peers, beside all
of this.

What makes it hard:

* the core of each node is single-threaded, but nodes, timers, deliveries and imports
  interleave freely;
* a lock must survive every path by which a round can change (`catchUpRound`,
  `startNewRound`, a timeout, a weak certificate of F + 1 messages);
* nothing of the core is persisted;
* old and future messages are not errors: some are answered, others are kept;
* the chain moves under the core, and the validator set with it;
* the core, the goroutines of `Seal`, the worker's loops and the miner share one mutex, two
  channels and a hash that is read without the mutex;
* a block is written in many steps, none of which is undone by a crash;
* what a transaction changes is kept twice, in the accounts and in the lists, and only the
  accounts have a journal;
* an SNFT changes its address when it merges, and again when it is split.

`PROJECT.json` lists these as hazards, each at its line, with the properties that would
catch it.

## Modules

`CheckMessage` is `checkMessage`: which messages are old, current or of the future.

`IBFTCore` has one function over nodes per field of `core` and `roundState`, and one action
per event:

| action | code |
|--------|------|
| `HandleRequest`, `HandlePendingRequest` | `handleRequest`, `storeRequestMsg`, `processPendingRequests` |
| `HandlePreprepare`, `HandleOldPreprepare` | `handlePreprepare` in the current and in an old view |
| `HandlePrepare`, `HandleCommit` | `handlePrepare`, `handleCommit` with `commit` and `Backend.Commit` |
| `HandleRoundChange`, `HandleTimeout` | `handleRoundChange`, `handleTimeoutMsg` |
| `HandleFinalCommitted` | `handleFinalCommitted`, after `NewChainHead` |
| `HandleUnauthorized`, `DropOwnFuture` | messages `handleMsg` refuses, and a node's own that `storeBacklog` does not keep |
| `InsertBlock`, `ImportBlock` | the block of `Commit` and a peer's block reach the chain |
| `Restart`, `ReportBadBlock` | `Stop` and `Start`; a block recorded as bad |

Abstractions. A block stands for its hash. A message is a record of code, sender, view,
block and seal. `events[n]` holds every message that n may still handle, wherever it is: on
the wire, in the event mux or in the backlog. Messages may be late or overtake each other,
and a message that is never taken is a lost one. A message that comes twice is handled like
the first copy or not at all, so a set is enough. Old votes leave `events` when the view
passes them, because their handlers would do nothing. `votes` is a history variable: every
vote cast in the voter's own view. No node forges messages. Nodes in `Unreliable` lose
locks, by a restart or by a bad block. A restart loses any of the messages that wait for the
node; the others, still on the wire, come afterwards, also votes of a round that the node
had left. `Backend.Commit` does not fail for the blocks and seals that `commit` gives it, so
its error path, a round change without the lock, is left out. Verification of a block's
contents is not modelled; `Verify` fails on bad blocks and may fail once the chain has moved
on, since it takes the validators of the current head. `IBFTCore` keeps the chain of a node
that restarts. `BlockStore` shows the limit of this: a full node flushes states only now and
then, so if all validators die at once, each goes back to an older head, and heights that
were decided may be decided again.

`Ledger` is the abstract specification of consensus: one sequence of blocks that every node
copies block by block. `IBFTCore!LedgerSpec` instantiates it with the blocks of `chain`.

`Backlog` has the queues of one node. Its view moves as the core moves it; wherever the code
calls `setState`, the queues are processed. Priorities are computed as the code computes
them, the rounding of the conversion to float32 included; among equal priorities the heap
may give any. The property `NothingCurrentWaits` is what `IBFTCore` relies on when it lets a
node take any current message from `events`.

`SealCommit` is one node from task to chain. `sealing[b]` is where the goroutine of a task
is: waiting for the block's time (`delay`), for `sealMu` (`mutex`), for its block from
`commitCh` (`watch`), for room in `resultCh` once it has it (`deliver`), on its way out
(`return`), or over. A send to a full channel waits; a goroutine that is stopped sees the
stop when there is room for its nil. A decided block that is as high as the head may replace
it, by the tie-break of `writeBlockWithState`, and `resultLoop` drops a block whose task
`clearPending` has forgotten. `phase` follows `worker.stop` and `worker.start`, each of
which takes two steps, and is `crashed` once a method of the nil core was called. What the
network decides, and when, is an input: `Decide` stands for all of `IBFTCore`.

`BlockStore` is one node's database and memory. `Import` is `insertChain` on a block that is
known, executable or pruned; `Execute`, `WriteBlock`, `CommitState`, `WritePool` and
`WriteHead` are the steps of executing and writing it, between any two of which the process
may die. `Sealed` and `WriteSealed` are the way of the node's own blocks. A list that is
missing is an error, an empty list or a nil pointer, as the code that reads it has it.

`Staking` executes block after block, from a genesis block with validators and exchanges:
one action per transaction, which changes the account fields and leaves a note, and
`WriteBlock`, which carries the notes over to the lists. For the accounts in `Reverters` the
code at the called address may fail after the handler has succeeded, which undoes the
account fields only. A proof of being online may carry any amount to anyone; the amount is a
new miner's stake until the block is written. `Selection` computes the election over all
pools and hashes of a small ring of addresses; where the sort is free to choose, so is the
model.

`OfficialNFT` keeps the SNFTs in `object`, a function from the addresses that have a state
object. Addresses are numbers and their digits have base `Base`, so merging and splitting
are the arithmetic that the code does on strings. A transfer may go to the zero address;
`burnt` remembers what is gone that way, and `uneven` whether a range was added that does
not begin where the others end. State objects persist, also of an SNFT that has merged,
because `stateObject.empty` is never true. `CreateNFTByOfficial16` is the end of a block,
with the election that may be due. `Market` has the NFTs of users. Each of the seven kinds
of sale is an action, and they share `Paid`, which divides the price into fee, royalty and
the rest. Signed messages are inputs: an old message or one about another amount changes
nothing, and anybody may sign another. `Call` asks for a free balance of the sender even
when another party pays, or when the sender takes a pledge back.

The `MC...` modules give the constants of the runs. The proofs about `IBFTCore` are in
`IBFTInvariant` (the invariant, and a lemma for each step) and `IBFTCoreProofs` (quorums and
the theorems), the others in `BacklogProofs`, `SealCommitProofs`, `BlockStoreProofs`,
`StakingProofs` and `MarketProofs`. `FoldLemmas` has what the last two need about sums.

## Model checking

`tlc -config <cfg> <module>`; each run takes less than four minutes with two workers.

| run | module, configuration | instance | checks |
|-----|-----------------------|----------|--------|
| `rounds` | `MCIBFTCore`, `MCRounds` | 3 validators, 2 blocks, 2 rounds, 2 timers, imports at n3 | `Agreement` |
| `faults` | `MCIBFTCore`, `MCFaults` | 2 validators, one unreliable, 2 rounds | `LockedProposal`, `NoDoubleVote`, `ChainDecided`, `LockStable` |
| `handover` | `MCIBFTCore`, `MCLeave` | 2 nodes, 2 heights, one is a validator of the first only, no timer, fairness | `TypeOK`, `CountsCurrentView`, `LedgerSpec`, `EventuallyCommitted` |
| `live_rounds` | `MCIBFTCore`, `MCLivePair` | 2 validators, 3 rounds, both timers, imports, fairness | `RoundChangeQuorum`, `RoundChangeCompletes` |
| `backlog` | `MCBacklog` | 2 peers, 2 heights, 3 rounds, 3 messages | `NothingCurrentWaits`, `NothingLost` |
| `seal` | `MCSealCommit`, `MCSeal` | 3 tasks on 2 heads, 2 commits of a block, 1 stop, fairness | `WritesDecided`, `OneWatcher`, `Watched`, `CoreUnblocks`, `StopReturns`, `SealProceeds` |
| `store` | `BlockStore`, `MCStore` | full node, snap synchronisation, 4 blocks, 2 crashes, 1 stop, fairness | `HeadHasState`, `HeadComplete`, `StopKeepsHead`, `CatchesUp` |
| `stake` | `MCStaking`, `MCStake` | 2 accounts, a validator and an exchange, the calls of one may fail late, 6 blocks, 4 transactions | `TypeOK`, `PledgeMirror`, `StakersCover`, `ActiveIsStaked`, `SilentLeave`, `NothingMinted` |
| `snft` | `MCOfficialNFT`, `MCSnft` | 2 owners, 2 exchanges, 8 indexes, 4 blocks, up to 7 transactions | `EachOnce`, `FullyMerged`, `NamedOnly`, `MintGoesOn`, `HeaviestNominated` |
| `market` | `MCMarket` | 2 users, 2 exchanges, 1 NFT, 2 sales, 2 blocks | `ApprovedByOwner`, `MoneyKept`, `NoDebt`, `ExclusiveEarns` |
| `old_commit_seal` | `MCIBFTCore`, `MCSealOld` | 3 validators, 2 rounds | `ChainSealed`, which is violated |
| `select` | `Selection`, `MCSelectClosest` | up to 3 miners, stakes 1 to 3, 8 addresses | `Closest`, which is violated |

What they show. The first four: in every interleaving of timers, votes, imports and restarts
the nodes agree, nobody votes twice, locks hold, votes of other views are not counted, and
what must happen does happen. `backlog`: no message that could be handled is held back.
`seal`: only decided blocks are written, one goroutine at a time reads `commitCh`, and
neither the core nor a stop of the miner hangs. `store`: a full node never loses the state
of its head nor starts from a head without its lists, and gets the whole chain in the end.
`stake`: the lists agree with the accounts, no token is paid back twice, and silent miners
leave. `snft`: every index is in one place, whoever owns what part; the next index has a
range as long as each new range begins where the ranges end; the heaviest vote is the one
nominated, also when it comes after a lighter one. `market`: an approval ends with the
ownership, and sales keep the money.

Some of these properties have an exception, because the code does not keep more:

* `Watched` excepts a block whose task was stopped after `Commit` had compared the hash, and
  a second copy of a block that is already on its way.
* `CoreUnblocks` and `StopReturns` except the case in which the newest task has no
  goroutine, because `Seal` refused it or, for `StopReturns`, because it is over. Then
  `Backend.Stop` holds `coreMu` and waits for a core that waits for room in `commitCh`,
  while `newWorkLoop` waits in `NewChainHead` for the same mutex and brings no other task. A
  core that waits while the miner is being stopped is the subject of `StopReturns`.
* `HeadComplete` and `CatchesUp` except the pivot of a fast synchronisation, which has none
  of its lists (`pivots`).
* `PledgeMirror` and `StakersCover` are about the accounts outside `Reverters`; `EachOnce`,
  `NamedOnly` and `OwnerFound` about states before the first reverted exchange.
* `MintGoesOn` supposes that every new range, injected or elected, begins where the ranges
  end (`~uneven`); `MintNeverStops` is the same without the condition, and fails.
* `NoDebt` supposes that royalty and fee together do not exceed the price.

Beside the runs there are configurations for single questions. `MCPair` has 2 validators, 2
blocks and 3 rounds with late requests and imports (`NoDoubleVote`, `ChainDecided`,
`RoundChangeQuorum`); `MCHandover` 3 nodes, one of which joins at height 2 (`TypeOK`,
`CountsCurrentView`); `MCLiveAuthors` both validators as authors, with timers and fairness
(`Agreement`, `LedgerSpec`, `RoundChangeCompletes`); `MCStoreLong` a chain of 5 blocks
(`TypeOK` too); `MCSnftRanges` 16 indexes, 6 blocks, and trades, votes and injections beside
a transfer (`TypeOK`, `OwnerFound`, `UnusedKept` too); `MCSelect` checks that one more token
of stake never costs a miner its place (`MoreStakeHelps`). All of these hold. The others are
named under "Where the code does not do what it says".

Bounds of the IBFT runs. Two competing blocks are enough for a disagreement, and a
disagreement needs two rounds. With three validators a quorum is two, so two quorums meet in
a single node: the smallest instance in which the lock of that one node matters. The pair
makes all votes necessary and leaves room for a third round and for imports: the least in
which F + 1 messages pull a waiting node to a later round. The handover needs two heights
and no second round. In `live_rounds` the author of the block proposes in the first and the
last of the three rounds, and the middle one passes without a new proposal. `Impatient` and
`Importers` limit which nodes time out and which import, `MaxRound` and `MaxSeq` how far; a
step that would go beyond does not happen. The runs switch deadlock checking off because the
bounds end every behaviour. `rounds` uses `SafetyView`, which leaves out what no later step
reads: votes that a node has already acted on, ROUND CHANGEs to the round it is in, old
votes, old PREPREPAREs that everybody is past, the state and the proposer of a node that
waits for a round change, and requests that can no longer be proposed. Its constraint
`PromptMiner` drops the behaviours in which the second proposer's block is not ready when
the first message comes; `faults` and `MCPair` have late requests. In `faults` both blocks
are the same node's and symmetric, and the view keeps the votes and all messages of the node
that may come back to an earlier round (`VotesView`). `LedgerSpec` is checked in the small
runs because the refinement is evaluated on every step. In `backlog` three messages are one
more than an inversion of two needs.

Bounds of the others. In `seal` two tasks on one head and one on the next are the least in
which a task is stopped, one is late, and a block is left over for another's goroutine. Its
result queue has room for one block instead of ten, so that it fills, and a task is
forgotten at once (`StaleThreshold` 0 instead of 7). In `store` four blocks with states kept
for two leave room for a head whose parent's state is gone, and two crashes for one during
the recovery from the other. `Staking` and `OfficialNFT` bound the transactions of the whole
behaviour, not of a block. A behaviour of `OfficialNFT` has one of several `Bounds`: in
`snft` three transfers and exchanges, or one and a trade, between two owners, or three
trades and four injections and votes with one. The three blocks' beneficiaries use up ranges
of one to four indexes; the injected ones follow the others, overlap them or leave a gap.
Four votes and trades of up to weight 2 let one nominee replace another. In `Market` users
and exchanges are different accounts, a bound: the shares of a sale may still coincide, as a
user is buyer, seller and creator. The constants of the code are scaled down: a cycle of 30
blocks, a grace of 119 and a check at 9 to 2, 3 and 1 (`Staking`), the 72 blocks between
opening and closing an exchange to 1 or 2, sixteen siblings to 2, 65536 indexes of an
elected range to 3 and the 110 at which it is due to 1, with 3 beneficiaries of a block
instead of 11 (`OfficialNFT`), and rates of 10000 parts to 4 (`Market`). What the properties
use is kept: the grace is longer than a cycle, an elected range larger than what is due,
what is due enough for several ranges near their ends (`OfficialBounds`), and shares are
rounded. Three levels of merging are as many as a split of a split needs. The owners,
exchanges and users are symmetric in the runs that say so.

Fairness (`LiveSpec`). `IBFTCore`: weak fairness of each kind of step of each node: the
event loop takes what is queued, `newRoundChangeTimer` arms a timer in every view, the
importer and the fetcher work off what they have, and the miner seals on every head. There
is no fairness for faults. `EventuallyCommitted` holds with no timer firing; with timers
racing the votes a height may go through rounds without end, which nothing in the code
excludes. `SealCommit`: each loop and goroutine goes on, `sync.Mutex` starves nobody (strong
fairness of `SealLock`), a synchronisation ends, and `newWorkLoop` asks for work on every
head. The last is the weakest: in one block of a cycle `newWorkLoop` first sends the proof
of being online, and gives up this head if that fails. `BlockStore`: peers offer blocks
beyond the head, what is begun goes on, and a node that is down is started again.

## Where the code does not do what it says

The runs `old_commit_seal` and `select` end in a violation of a statement of the code's own
comments, which `PROJECT.json` quotes. The other configurations named here do so too: each
checks, in its strict form, one statement that the code makes about itself.

Consensus and sealing:

* `MCSingle` (`RoundChangeQuorum`): with one validator a quorum of ROUND CHANGEs is also F +
  1 of them. `handleRoundChange` tests F + 1 first and returns, so the round never starts.
* `MCStaleProposer` (`OnlyProposerProposes`): after `catchUpRound` a node is still in state
  AcceptRequest with the proposer of the round it has left. A request arriving now makes
  that proposer send a PREPREPARE for the new round. The receivers ignore it, unless the
  sender is the proposer there.
* `old_commit_seal` (`ChainSealed`): the COMMIT of `sendCommitForOldBlock` names an old
  block, and its seal is over the present proposal, or missing where there is none, as in
  the trace that TLC gives. The author of the block counts it and writes the block with
  seals that no other node accepts; the others have the same block with other seals.
* `MCBacklogHigh` (`NothingCurrentWaits`): from height 16777 on a float32 can not tell the
  codes of a view apart. A PREPREPARE may stay in the backlog behind a PREPARE of its own
  view until the next change of state, which is a round change or an imported block.
* The exception of `Watched`: `Commit` compares the hash without `sealMu`. A new task may
  stop the goroutine of `Seal` before the block is read, and the next goroutine throws the
  block away: the node has to get its own block from a peer. (`IBFTCore` lets `InsertBlock`
  happen all the same, as such an import.)
* `MCSealResume` (`ResumesMining`): `Backend.stop` sets the core to nil while tasks go on.
  The next call of `sb.core.IsProposer` ends the process in the middle of a synchronisation.

Writing blocks:

* `MCStoreArchive` (`HeadHasLists`): an archive node flushes the state of a block before its
  lists. If it dies in between, the block is known afterwards and becomes the head without
  its lists.
* `MCStoreSnap` (`SyncCatchesUp`): a fast or snap synchronisation ends with a pivot that has
  no lists at all, and no block can be executed on it.

Stakes and the election:

* `MCStakeRevert` (`RevertsAll`): a call whose code fails after the handler has succeeded is
  reverted in the accounts and not in the lists.
* `MCStakeMinimum` (`MinimumStake`): a pledge may be taken back in part, down to any rest.
* `select` (`Closest`): the comment of `ValidatorByDistanceAndWeight` speaks of the
  validators closest to the random number. The weights grow with the distance and are sorted
  in descending order, so of equal stakes the farthest are elected.

NFTs:

* `MCSnftPool` (`PoolUnheld`): the exchange list counts 256 addresses per level and both
  ends, where sixteen merge, so it gives out addresses that others hold.
* `MCSnftLetters` (`ExchangeTakes`): `SplitNFT16` compares digits of checksummed addresses.
  Where a letter is written differently, nothing is split, and an exchanged part stays with
  its owner.
* `MCSnftOverlap` (`MintNeverStops`): an injected range may begin anywhere. `RemainderNum`
  counts an index once for every range that ends behind it, so ranges that overlap put the
  election off; then the next index has no range, and `CreateNFTByOfficial16` returns before
  the election in every later block, unless exchanged SNFTs are there to give out instead. A
  gap does the same.
* `MCSnftRoyalty` (`RoyaltyFound`): royalty and creator are looked for at the address of the
  part, which was cleaned when it merged.
* `MCMarketDebt` (`NeverInDebt`): royalty and fee may together exceed the price, and the
  seller pays the rest, if need be with a balance below zero.

Met on the way, without a statement to hold against it: `cmd/geth/conf/genesis.json` lets
the first range begin at index 1, while minting begins at 0; a reverted mint of a user NFT
skips an address.

## Proofs

`tlapm` on each of the proof modules; the two about `IBFTCore` take some ten minutes each,
the others less. Everything below holds for every value of the constants that the named
assumptions allow. `PROJECT.json` says which theorem states which property of the runs.

`IBFTCoreProofs`. The inductive invariant `Inv` (`IBFTInvariant`) joins the type invariant,
`CountsCurrentView`, `LockedProposal` and `NoDoubleVote` with what they need to be
inductive: that a message on its way names a block of its height, and a COMMIT was cast or
answers a block already written (`MessageInv`), the same of the round state, whose COMMITs
are empty before a proposal is accepted (`RoundStateInv`), that votes are PREPAREs and
COMMITs for blocks (`VoteInv`), that a vote once cast binds its reliable voter's later
states (`LockInv`), and that what is written or on its way to be written has a quorum of
COMMITs cast in one round (`ChainInv`). The invariant is needed because none of the
properties says how a vote, once cast, binds the voter's later state. There is one lemma per
action; `NextInv` puts them together.

* `TypeCorrect`, `CountsOnlyCurrentView`, `LockHasProposal`, `VotesOnce` and
  `WritesOnlyDecided` follow from `Inv` without further assumptions.
* `AgreementHolds` and `ImplementsLedger` assume `QuorumsOverlap`, that two quorums of a
  height have more than F validators in common, and `FewUnreliable`, that at most F
  validators of a height may lose a lock. The argument: two decided blocks of a height have
  quorums that share a reliable validator, which COMMITs to one block only
  (`DecidedUnique`). `ceil(2N/3)` satisfies `QuorumsOverlap` for every N, while 2F + 1, in
  force below `Ceil2Nby3Block`, does so for N = 3F + 1 only. `Ledger`'s steps are then
  `InsertBlock` and `ImportBlock`.
* `StepMoves` says what any step does to one node's view, lock and ROUND CHANGEs: nothing,
  one ROUND CHANGE more, a later round of the height (`CatchesUp`, which keeps the lock) or
  a new round (`Enters`, which keeps it within the height). `LocksStay`, the action property
  `LockStable`, is read off from it; a lock that `handlePrepare` sets again is the old one
  because of `LockedProposal`.
* `QuorumStartsRound` (`RoundChangeQuorum`) assumes `WeakBelowQuorum`, that F + 1 is less
  than a quorum. This holds from 2 validators on with `ceil(2N/3)` and from 4 on with 2F +
  1; `MCSingle` shows that the property fails where it does not. ROUND CHANGEs are
  counted one at a time, so the one that makes a quorum makes it exactly, is not the one
  that makes F + 1, and starts the round; a node that is moved to a later round by F + 1 of
  them, or by its timer, holds no quorum for that round yet.

`BacklogProofs`. `CurrentFirst` shows that in any view a message that can be handled has a
smaller priority than any that can not; with it `NothingCurrentWaits` is inductive together
with the types. `BacklogKeepsUp` and `BacklogLosesNothing` assume `ExactPriorities`: rounds
up to 99, as the comment of `toPriority` says, and heights up to 16776, below which float32
is exact.

`SealCommitProofs`. `WritesDecided` is not inductive, because it says nothing of the blocks
on their way. `Inv` adds that whatever is being sent, in `commitCh`, in `resultCh` or about
to be written has won its height (`Delivered`), that a block of this miner is decided at its
own height only and the importer has decided blocks (`DecidedInv`), and that whoever holds
`sealMu` is watching, delivering or returning (`MutexInv`); `DeliverInv` says of the block a
goroutine has taken that it was decided. The tie-break changes nothing, because the block it
may put in the place of the head is the head (`SameHead`), nor does a forgotten task, whose
block is on the chain. `SealWritesDecided`, `SealOneWatcher` and `SealTypeCorrect` follow,
for any tasks, heights, commits, stops and room in the channels. `SealWatched` (`Watched`)
needs a second invariant beside it, `WatchInv`: a task that has begun is at most one above
the chain, a goroutine on its way out has been stopped or has taken its block and passed it
on, and a block that the core sends or has sent has a goroutine that watches, or one of the
two has happened to it. What is passed on stays so (`SettledStays`), as `resultCh` is worked
off into the chain and the chain does not shrink.

`BlockStoreProofs`, for a chain, a cache, and numbers of crashes and stops of any size.

* `CurrentHasState` (`HeadHasState`): the state of the current block is in memory or on disk
  except while a higher block is being written, whose own state is there from the second
  step on and may have displaced it (`StateInv`).
* `StopLosesNothing` (`StopKeepsHead`): `Stop` flushes the state of the head among others,
  and the marker of the head on disk is the current block or still the genesis block
  (`MarkerInv`).
* `HeadHasAllLists` (`HeadComplete`) assumes a full node. Every block whose state is on disk
  has its lists or came with a synchronisation; of those in memory only the block being
  written may lack some, and that one loses its state in a crash (`ListsInv`). The second
  half is what an archive node does not have, and `MCStoreArchive` shows the difference.
* `StoreTypeCorrect`: the types, in particular that what `insertSideChain` executes first
  are blocks of the chain.

`FoldLemmas`. The sums of `Staking` and `Market` are folds of the community modules, which
are recursive functions over the subsets of a set. `Recursion` shows that such a function
exists for any finite set, `SumParts` that the sum of a function over a set splits off any
element, and `SumShift` and `SumConst` follow. The induction over finite sets
(`SubsetInduction`) and over numbers (`NatSet`) is stated for sets of values, not with an
operator as parameter: the smallest number outside of a set exists as `<` is well-founded.

`StakingProofs`, for any finite set of accounts, any stakes and exchanges in genesis, any
number of blocks and transactions, and any cycle and grace with `StakingBounds`.
`UpdatedSteps` takes the fold over the notes of a block apart: one note more is one
`Carried` more. `Inv` says what the lists are once the notes gathered so far have been
carried over (`ListInv`): they agree with the accounts whose calls are not reverted, and
every validator, also one whose calls are, has a stake. It adds that the active miners are
validators (`ActiveIsStaked`) and that each was online no longer ago than the grace and the
blocks since the last check (`RecentlyOnline`).

* `NeverOverdrawn` (`TypeOK`): no balance, pledge or exchange gets negative.
* `ValidatorsMirrorPledges` and `StakersCoverExchanges`: the lists agree with the accounts.
* `MinersAreStaked` and `SilentMinersLeave`: who is on the list of active miners, and for
  how long. The second needs arithmetic of `%`, as the list is checked once in a cycle.
* `TokensNotMinted` (`NothingMinted`): no step adds to the sum over all accounts.

`MarketProofs`, for any finite sets of users and exchanges, any prices, royalties, fees and
rates. Every kind of sale is `Sold` or `MintedAndSold`, with an exchange that `Earns` by it
(`SellIs`, `SellNewIs`). `Inv` has the types, with an exchange that is open being one of
`Exchangers`, and the three invariants of the run.

* `SoldForOwner` (`ApprovedByOwner`): a change of the owner takes the approval away.
* `SalesKeepMoney` (`MoneyKept`): a payment moves the price through four accounts, any of
  which may be the same; `PaidKeeps` follows it through the sum.
* `SalesMakeNoDebt` (`NoDebt`): the buyer has the price, and the seller's rest is not
  negative where royalty and fee do not exceed the price. The rounding down of the two
  shares is in the seller's favour.
* `ExclusiveIsPaid` (`ExclusiveEarns`).

Model-checked only:

* all liveness properties (`EventuallyCommitted`, `RoundChangeCompletes`, `CoreUnblocks`,
  `StopReturns`, `SealProceeds`, `CatchesUp`), as fairness is out of the prover's reach;
* the properties of `OfficialNFT`, whose merging and splitting of addresses are recursive
  operators, which the prover does not take;
* `MoreStakeHelps` of `Selection`, which is about one step from any pool and not about a
  history; TLC goes through all pools of up to three miners.

## Not modelled

* QBFT (`consensus/istanbul/qbft`). No shipped configuration has a `TestQBFTBlock`, so the
  hand-over in `startNewRound` does not happen. Its justified round changes and prepared
  certificates are a protocol of their own.
* The operations of contract code on NFTs (`core/vm/instructions.go`), the formats and
  signatures of messages, and the older merging by 256, which nothing calls.
* Header fields and extra data, gas, rewards in money, and how a block is filled with
  transactions: no property here depends on them.
* The snapshots of `backend/snapshot.go`, which only the RPC interface reads; Clique and
  ethash, which a Wormholes chain does not use.
* Networking, transaction pool, downloader, RPC, tries, the freezer and the snapshot tree:
  upstream go-ethereum. The models assume of them what the code relies on: messages may be
  late, reordered or lost, and blocks come from peers verified.
* Side forks and reorganisations of more than one block: a chain of decided blocks has none,
  and the tie-break of `SealCommit` finds the same block.
* How long a backlog queue gets: `storeBacklog` sets no limit, so there is nothing to check.
  That a proposal with a future time is handled when the time has come: `Backlog` and
  `IBFTCore` have no clock.
