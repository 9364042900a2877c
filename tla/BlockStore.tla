----------------------------- MODULE BlockStore -----------------------------
(***************************************************************************)
(* How one node writes blocks and comes back after a crash                 *)
(* (core/blockchain.go).  Beside the block and its state, Wormholes keeps  *)
(* seven lists per block (minting depth, SNFT exchanges, injected and      *)
(* nominated NFTs, stakers, validators, active miners).  None of them is   *)
(* in the state trie: each is a database entry of its own, written one     *)
(* after the other by writeBlockWithState and read when the child is       *)
(* executed.                                                               *)
(*                                                                         *)
(* The chain is what consensus has decided, one block per number, so a     *)
(* block is its number and a total difficulty too.  States are in memory   *)
(* until they are flushed: at once in an archive node, now and then in a   *)
(* full node, and at a graceful stop.                                      *)
(***************************************************************************)
EXTENDS Integers, Sequences, FiniteSets, FiniteSetsExt

CONSTANTS
    MaxBlock,       \* bound: the last block the peers have
    TriesInMemory,  \* how many states a full node keeps in memory
    Archive,        \* cacheConfig.TrieDirtyDisabled
    SnapSync,       \* whether an empty node begins with a fast or snap synchronisation
    MaxCrashes,     \* bound: how often the process dies
    MaxStops        \* bound: how often it is stopped

ASSUME StoreBounds ==
    /\ MaxBlock \in Nat \ {0} /\ TriesInMemory \in Nat \ {0}
    /\ Archive \in BOOLEAN /\ SnapSync \in BOOLEAN
    /\ MaxCrashes \in Nat /\ MaxStops \in Nat

Block == 1 .. MaxBlock
Genesis == 0

\* The lists, in the order in which writeBlockWithState writes them.
PoolOrder == <<"mint", "snft", "official", "nominated", "stake", "validator", "active">>
Pools == {PoolOrder[i] : i \in DOMAIN PoolOrder}

VARIABLES
    bodies,         \* disk: the blocks stored with header and receipts
    flushed,        \* disk: the blocks whose state trie is there
    pools,          \* disk: the lists stored beside each block
    head,           \* disk: the head block marker
    cached,         \* memory: the blocks whose state trie is there
    current,        \* memory: the current block
    todo,           \* memory: the rest of the blocks insertChain works on
    sealed,         \* memory: what resultLoop has found missing and will write, or 0
    writing, step,  \* memory: the block in writeBlockWithState, or 0, and its last step
    phase,          \* "up", "stopped" or "down"
    pivots,         \* history: the heads of synchronisations
    crashes, stops

disk == <<bodies, flushed, pools, head>>
memory == <<cached, current, todo, sealed, writing, step>>
vars == <<disk, memory, phase, pivots, crashes, stops>>

Up == phase = "up"

\* No block is being written.  Between two blocks insertChain keeps chainmu while it has
\* blocks to do.
Free == Up /\ writing = 0

HasBlock(b) == b = Genesis \/ b \in bodies
HasState(b) == b \in cached \cup flushed

\* The genesis block.  Its minting depth, exchanges and nomination are not stored:
\* insertChain puts in the first ones.
Init ==
    /\ bodies = {} /\ flushed = {Genesis} /\ head = Genesis
    /\ pools = [b \in {Genesis} \cup Block |-> IF b = Genesis THEN Pools ELSE {}]
    /\ cached = {} /\ current = Genesis /\ todo = <<>> /\ sealed = 0
    /\ writing = 0 /\ step = 0
    /\ phase = "up" /\ pivots = {} /\ crashes = 0 /\ stops = 0

-----------------------------------------------------------------------------
(* What becomes of a block that comes from a peer.                         *)

\* ErrKnownBlock of ValidateBody.
Known(b) == HasBlock(b) /\ HasState(b)

\* A block that is known is not executed again.  It becomes the head if it is better than
\* the head.
SkipKnown(b) ==
    /\ Known(b)
    /\ IF b > current THEN head' = b /\ current' = b ELSE UNCHANGED <<head, current>>
    /\ UNCHANGED <<bodies, flushed, pools, cached, todo, sealed, writing, step>>

\* Mutant: a block that is stored is not executed again.
ExecutableNew(b) ==
    /\ ~ HasBlock(b) /\ HasBlock(b - 1) /\ HasState(b - 1)
    /\ todo' = <<b>>
    /\ UNCHANGED <<disk, cached, current, sealed, writing, step>>

\* The parent has its state: the block is executed.
Executable(b) ==
    /\ ~ Known(b) /\ HasBlock(b - 1) /\ HasState(b - 1)
    /\ todo' = <<b>>
    /\ UNCHANGED <<disk, cached, current, sealed, writing, step>>

\* insertSideChain: the parent's state is not there.  The block is stored, and when it is
\* better than the head, all its ancestors without a state are executed first.
Pruned(b) ==
    LET stateful == Max({a \in 0 .. b - 1 : HasState(a)})
    IN /\ ~ Known(b) /\ HasBlock(b - 1) /\ ~ HasState(b - 1)
       /\ bodies' = bodies \cup {b}
       /\ todo' = IF current > b THEN <<>> ELSE [i \in 1 .. b - stateful |-> stateful + i]
       /\ UNCHANGED <<flushed, pools, head, cached, current, sealed, writing, step>>

\* A block comes from the fetcher or the downloader.
Import(b) ==
    /\ Free /\ todo = <<>>
    /\ SkipKnown(b) \/ Executable(b) \/ Pruned(b)
    /\ UNCHANGED <<phase, pivots, crashes, stops>>

-----------------------------------------------------------------------------
(* Execution, and the writes of writeBlockWithState.                       *)

\* The process dies: what is in memory is gone.
LoseMemory ==
    /\ cached' = {} /\ todo' = <<>> /\ sealed' = 0 /\ writing' = 0 /\ step' = 0
    /\ current' = head

\* insertChain executes the next block with the lists of its parent.  Without the minting
\* depth it returns an error.  A missing exchange list is an empty one, but without the
\* injected NFTs the process dies of a nil pointer.  The others are not read here.
Execute ==
    /\ Free /\ todo # <<>>
    /\ LET b == Head(todo)
       IN CASE "mint" \notin pools[b - 1] ->
                  /\ todo' = <<>>
                  /\ UNCHANGED <<disk, cached, current, sealed, writing, step, phase>>
            [] "mint" \in pools[b - 1] /\ "official" \notin pools[b - 1] ->
                  LoseMemory /\ phase' = "down" /\ UNCHANGED disk
            [] OTHER ->
                  /\ writing' = b /\ step' = 0 /\ todo' = Tail(todo)
                  /\ UNCHANGED <<disk, cached, current, sealed, phase>>
    /\ UNCHANGED <<pivots, crashes, stops>>

\* The miner builds a block on the current one, consensus agrees, and resultLoop finds that
\* the block is not stored.  Prepare reads the lists of the current block, and the process
\* dies of a nil pointer when they are missing.
Sealed ==
    /\ Up /\ sealed = 0
    /\ current + 1 \in Block /\ current + 1 \notin bodies /\ HasState(current)
    /\ IF pools[current] = Pools
       THEN /\ sealed' = current + 1
            /\ UNCHANGED <<cached, current, todo, writing, step, phase>>
       ELSE LoseMemory /\ phase' = "down"
    /\ UNCHANGED <<disk, pivots, crashes, stops>>

\* WriteBlockWithState has got chainmu.  The block may have come from a peer meanwhile.
WriteSealed ==
    /\ Free /\ todo = <<>> /\ sealed # 0
    /\ writing' = sealed /\ step' = 0 /\ sealed' = 0
    /\ UNCHANGED <<disk, cached, current, todo, phase, pivots, crashes, stops>>

\* blockBatch: header, body, receipts and total difficulty together.
WriteBlock ==
    /\ Up /\ writing # 0 /\ step = 0
    /\ bodies' = bodies \cup {writing} /\ step' = 1
    /\ UNCHANGED <<flushed, pools, head, cached, current, todo, sealed, writing, phase, pivots, crashes, stops>>

\* Mutant: no state is kept.
ChosenAll(b) == b

\* The states up to this number are dropped from memory when b is written.
Chosen(b) == b - TriesInMemory

\* state.Commit.  An archive node flushes the state.  A full node keeps it in memory, may
\* flush the oldest one it still has when it has worked for long enough, and drops what is
\* too old.
CommitState ==
    /\ Up /\ writing # 0 /\ step = 1
    /\ IF Archive THEN flushed' = flushed \cup {writing} /\ UNCHANGED cached
       ELSE LET chosen == Chosen(writing)
                all == cached \cup {writing}
            IN /\ flushed' \in {flushed, flushed \cup ({chosen} \cap cached)}
               /\ cached' = {b \in all : b > chosen}
    /\ step' = 2
    /\ UNCHANGED <<bodies, pools, head, current, todo, sealed, writing, phase, pivots, crashes, stops>>

\* The lists, one by one.  Stakers, validators and active miners are those of the parent,
\* changed by the block: without them the process dies of a nil pointer here.
WritePool ==
    /\ Up /\ writing # 0 /\ step \in 2 .. Len(PoolOrder) + 1
    /\ LET pool == PoolOrder[step - 1]
       IN IF pool \in {"stake", "validator", "active"} /\ pool \notin pools[writing - 1]
          THEN LoseMemory /\ phase' = "down" /\ UNCHANGED pools
          ELSE /\ pools' = [pools EXCEPT ![writing] = @ \cup {pool}]
               /\ step' = step + 1
               /\ UNCHANGED <<cached, current, todo, sealed, writing, phase>>
    /\ UNCHANGED <<bodies, flushed, head, pivots, crashes, stops>>

\* Mutant: the head moves before the lists of validators are there.
AfterStake == step = Len(PoolOrder)

\* Everything that belongs to the block is written.
AfterPools == step = Len(PoolOrder) + 2

\* The head moves to a better block.
WriteHead ==
    /\ Up /\ writing # 0 /\ AfterPools
    /\ IF writing > current THEN head' = writing /\ current' = writing
       ELSE UNCHANGED <<head, current>>
    /\ writing' = 0 /\ step' = 0
    /\ UNCHANGED <<bodies, flushed, pools, cached, todo, sealed, phase, pivots, crashes, stops>>

-----------------------------------------------------------------------------
(* Fast and snap synchronisation, stop, crash and restart.                 *)

\* InsertReceiptChain stores bodies and receipts, the state of the pivot is fetched from
\* peers, and FastSyncCommitHead makes it the current block, in memory.
FastSyncCommitHead(pivot) ==
    /\ SnapSync /\ Free /\ todo = <<>> /\ sealed = 0
    /\ current = Genesis
    /\ bodies' = bodies \cup 1 .. pivot /\ flushed' = flushed \cup {pivot} /\ current' = pivot
    /\ pivots' = pivots \cup {pivot}
    /\ UNCHANGED <<pools, head, cached, todo, sealed, writing, step, phase, crashes, stops>>

\* Mutant: the state of the current block is not written.
OffsetsBelow == {1, TriesInMemory - 1}

\* HEAD, HEAD-1 and HEAD-127.
Offsets == {0, 1, TriesInMemory - 1}

\* Stop waits for the block that is being written.
Stop ==
    /\ Free /\ stops < MaxStops
    /\ stops' = stops + 1
    /\ flushed' = IF Archive THEN flushed
                  ELSE flushed \cup ({current - o : o \in {o \in Offsets : current > o}} \cap cached)
    /\ phase' = "stopped" /\ LoseMemory
    /\ UNCHANGED <<bodies, pools, head, pivots, crashes>>

Crash ==
    /\ Up /\ crashes < MaxCrashes
    /\ crashes' = crashes + 1
    /\ phase' = "down" /\ LoseMemory
    /\ UNCHANGED <<disk, pivots, stops>>

\* SetHeadBeyondRoot: where the head may go back to when its state is missing.  With
\* snapshots it goes back beyond the snapshot's root.
Rewound == {b \in flushed : b <= head}

\* NewBlockChain.
Restart ==
    /\ ~ Up
    /\ \E b \in (IF head \in flushed THEN {head} ELSE Rewound) : head' = b /\ current' = b
    /\ phase' = "up"
    /\ UNCHANGED <<bodies, flushed, pools, cached, todo, sealed, writing, step, pivots, crashes, stops>>

-----------------------------------------------------------------------------
Write == WriteBlock \/ CommitState \/ WritePool \/ WriteHead
Next ==
    \/ \E b \in Block : Import(b) \/ FastSyncCommitHead(b)
    \/ Execute \/ Sealed \/ WriteSealed \/ Write
    \/ Stop \/ Crash \/ Restart

Spec == Init /\ [][Next]_vars

\* The peers offer blocks beyond the head, whatever is begun goes on, and a node that is
\* down is started again.
LiveSpec ==
    /\ Spec
    /\ WF_vars(\E b \in Block : b > current /\ Import(b))
    /\ WF_vars(Execute) /\ WF_vars(WriteSealed) /\ WF_vars(Write)
    /\ WF_vars(Restart)

-----------------------------------------------------------------------------
TypeOK ==
    /\ bodies \subseteq Block /\ flushed \subseteq {Genesis} \cup Block
    /\ pools \in [{Genesis} \cup Block -> SUBSET Pools]
    /\ head \in {Genesis} \cup Block /\ current \in {Genesis} \cup Block
    /\ cached \subseteq Block /\ todo \in Seq(Block)
    /\ sealed \in 0 .. MaxBlock /\ writing \in 0 .. MaxBlock /\ step \in 0 .. Len(PoolOrder) + 2
    /\ phase \in {"up", "stopped", "down"} /\ (~ Up => cached = {})
    /\ pivots \subseteq Block /\ crashes \in 0 .. MaxCrashes /\ stops \in 0 .. MaxStops

\* The block the node will start from has all its lists, wherever the process dies in the
\* middle of a write and whatever is written again afterwards (writeBlockWithState, "writes
\* the block and all associated state to the database").  The head of a
\* synchronisation is the exception: its lists are not fetched.
HeadComplete == pools[head] = Pools \/ head \in pivots

\* When no block is being written, the state of the current block is there: the garbage
\* collection of writeBlockWithState never drops it, also when old blocks are executed
\* again below or above the head.
HeadHasState == Free => HasState(current)

\* A graceful stop loses no block: Stop flushes what NewBlockChain needs to go on from the
\* same head, unless a synchronisation has put a head in memory only.
StopKeepsHead ==
    [][phase = "stopped" /\ phase' = "up" => head' = head]_vars

\* A node that dies a bounded number of times has the whole chain in the end: what was
\* written in part is executed again, ancestors whose states were lost included.  The
\* exception is a node that has stood on the head of a synchronisation.
CatchesUp == <>[](Up /\ current = MaxBlock) \/ <>(current \in pivots)

\* "Quickly download the headers, full sync only at the chain": also a node that begins
\* with a synchronisation has the whole chain in the end.
SyncCatchesUp == <>[](Up /\ current = MaxBlock)

\* The block the node will start from has all its lists, however it got there.
HeadHasLists == pools[head] = Pools
=============================================================================
