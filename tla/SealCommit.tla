------------------------------ MODULE SealCommit ------------------------------
(***************************************************************************)
(* How a block gets from one node's miner to its core and back to its      *)
(* chain: taskLoop and resultLoop of the worker (miner/worker.go), the     *)
(* goroutines of Backend.Seal, Backend.Commit and the channels between     *)
(* them (consensus/istanbul/backend), and the miner that stops and starts  *)
(* all of this around a synchronisation (miner/miner.go).                  *)
(*                                                                         *)
(* Each task has a goroutine.  It waits for the block's time, takes sealMu *)
(* to publish its hash, and then watches commitCh until its own block      *)
(* comes or it is stopped, which happens when the next task is there.  The *)
(* core reads the hash without sealMu.  What the network decides, and when *)
(* a peer has the block, is left open; IBFTCore is about that.             *)
(***************************************************************************)
EXTENDS Integers, Sequences, FiniteSets

CONSTANTS
    Block,       \* the blocks of this node's miner, one task each
    Number,      \* their heights
    MaxSeq,      \* bound: the highest block number decided
    MaxCommits,  \* bound: how often the core commits at a height, in several rounds
    MaxStops,    \* bound: how often a synchronisation stops the miner
    QueueSize,   \* resultQueueSize
    StaleThreshold, \* staleThreshold: how far behind the head a task is forgotten
    Sits,        \* the heights at which this node is a validator
    Foreign,     \* a block of another node
    None         \* nil

ASSUME SealBounds ==
    /\ MaxSeq \in Nat /\ MaxCommits \in Nat /\ MaxStops \in Nat /\ QueueSize \in Nat \ {0}
    /\ StaleThreshold \in Nat /\ Number \in [Block -> Nat \ {0}]
ASSUME SealNames == None \notin Block /\ Foreign \notin Block /\ None # Foreign

Seqs == 1 .. MaxSeq

VARIABLES
    prev,               \* the task that taskLoop has sent to Seal last
    stopped,            \* the tasks whose stop channel is closed
    sealing,            \* where the goroutine of each task is
    sealMu,             \* who holds sealMu
    proposedBlockHash,
    commitCh,           \* the channel, which has room for one block
    resultCh,           \* blocks on their way to resultLoop
    writing,            \* what resultLoop found missing on the chain and will write
    posted,             \* the blocks posted to the core
    decided,            \* what the network has decided on each height
    seq, commits,       \* the core's sequence, and its commits there
    sending,            \* the block Commit is sending to commitCh
    enqueued,           \* heights whose blocks Commit gave to the importer
    chain,
    phase, stops        \* whether the worker and the core run, and how often they stopped

taskVars == <<prev, stopped>>
sealVars == <<sealing, sealMu, proposedBlockHash>>
coreVars == <<posted, decided, seq, commits, sending, enqueued>>
writeVars == <<resultCh, writing, chain>>
minerVars == <<phase, stops>>
vars == <<taskVars, sealVars, commitCh, coreVars, writeVars, minerVars>>

Height == Len(chain)

\* The process has not died.
Up == phase # "crashed"

\* sb.core is nil while the core is not running, and a call of one of its methods ends
\* the process.
CoreIsNil == phase # "on"
Panic ==
    /\ phase' = "crashed"
    /\ UNCHANGED <<taskVars, sealVars, commitCh, coreVars, writeVars, stops>>

Init ==
    /\ prev = None /\ stopped = {}
    /\ sealing = [b \in Block |-> "none"] /\ sealMu = None /\ proposedBlockHash = None
    /\ commitCh = <<>> /\ resultCh = <<>> /\ writing = None
    /\ posted = {} /\ decided = [h \in Seqs |-> None] /\ seq = 1 /\ commits = 0
    /\ sending = None /\ enqueued = {} /\ chain = <<>>
    /\ phase = "on" /\ stops = 0

-----------------------------------------------------------------------------
(* taskLoop.                                                               *)

\* Mutant: the task before goes on.
InterruptNot == UNCHANGED stopped

\* interrupt: the stop channel of the task before is closed.
Interrupt == stopped' = stopped \cup ({prev} \ {None})

\* A task on some head that the chain has had comes to taskLoop, which hands it to Seal.
\* Seal refuses it when the node is not a validator; the task before is stopped all the
\* same.
NewTask(b) ==
    /\ Up /\ phase # "off" /\ sealing[b] = "none"
    /\ Number[b] <= Height + 1
    /\ prev # None => Number[b] >= Number[prev]
    /\ IF CoreIsNil THEN Panic
       ELSE /\ Interrupt
            /\ prev' = b
            /\ sealing' = [sealing EXCEPT ![b] = IF Number[b] \in Sits THEN "delay" ELSE "failed"]
            /\ UNCHANGED <<sealMu, proposedBlockHash, commitCh, coreVars, writeVars, minerVars>>

-----------------------------------------------------------------------------
(* The goroutine of Seal.                                                  *)

\* results <- block, or nil; it waits while resultCh is full.
Results(b) == Len(resultCh) < QueueSize /\ resultCh' = Append(resultCh, b)

\* The block's time has come, or the task is stopped before.
SealDelay(b) ==
    /\ Up /\ sealing[b] = "delay"
    /\ \/ sealing' = [sealing EXCEPT ![b] = "mutex"] /\ UNCHANGED resultCh
       \/ /\ b \in stopped /\ Results(None)
          /\ sealing' = [sealing EXCEPT ![b] = "done"]
    /\ UNCHANGED <<taskVars, sealMu, proposedBlockHash, commitCh, coreVars, writing, chain,
                   minerVars>>

\* With sealMu the hash is set and the block posted to the core, stopped or not.
SealLock(b) ==
    /\ Up /\ sealing[b] = "mutex" /\ sealMu = None
    /\ IF CoreIsNil THEN Panic
       ELSE /\ sealMu' = b
            /\ proposedBlockHash' = b
            /\ sealing' = [sealing EXCEPT ![b] = "watch"]
            /\ posted' = posted \cup {b}
            /\ UNCHANGED <<taskVars, commitCh, decided, seq, commits, sending, enqueued, writeVars,
                           minerVars>>

\* Mutants: any block ends the wait, and the own one is the result; a block of
\* another task is put back.
TakesAny(b, result) ==
    /\ commitCh' = <<>>
    /\ sealing' = [sealing EXCEPT ![b] = "deliver"]
PutsBack(b, result) ==
    /\ result = b
    /\ commitCh' = <<>>
    /\ sealing' = [sealing EXCEPT ![b] = "deliver"]

\* Mutant: a result is dropped when resultLoop is slow.
DropsResult(b, result) ==
    /\ commitCh' = <<>>
    /\ sealing' = [sealing EXCEPT ![b] =
          IF result # b THEN @ ELSE IF Len(resultCh) < QueueSize THEN "deliver" ELSE "return"]

\* A result from commitCh: another block is dropped, "keep waiting the next hash".
TakesResult(b, result) ==
    /\ commitCh' = <<>>
    /\ sealing' = [sealing EXCEPT ![b] = IF result = b THEN "deliver" ELSE @]

SealReceive(b) ==
    /\ Up /\ sealing[b] = "watch" /\ commitCh # <<>>
    /\ TakesResult(b, commitCh[1])
    /\ UNCHANGED <<taskVars, sealMu, proposedBlockHash, coreVars, writeVars, minerVars>>

\* results <- result.  commitCh is free meanwhile, and nobody reads it.
SealDeliver(b) ==
    /\ Up /\ sealing[b] = "deliver"
    /\ Results(b)
    /\ sealing' = [sealing EXCEPT ![b] = "return"]
    /\ UNCHANGED <<taskVars, sealMu, proposedBlockHash, commitCh, coreVars, writing, chain,
                   minerVars>>

\* The goroutine sees the stop once there is room for its nil.
SealStop(b) ==
    /\ Up /\ sealing[b] = "watch" /\ b \in stopped
    /\ Results(None)
    /\ sealing' = [sealing EXCEPT ![b] = "return"]
    /\ UNCHANGED <<taskVars, sealMu, proposedBlockHash, commitCh, coreVars, writing, chain,
                   minerVars>>

\* Mutant: the hash stays.
ClearNot == UNCHANGED proposedBlockHash

Clear == proposedBlockHash' = None

\* The deferred function.
SealReturn(b) ==
    /\ Up /\ sealing[b] = "return"
    /\ sealing' = [sealing EXCEPT ![b] = "done"]
    /\ Clear
    /\ sealMu' = None
    /\ UNCHANGED <<taskVars, commitCh, coreVars, writeVars, minerVars>>

Seal(b) ==
    \/ SealDelay(b) \/ SealLock(b) \/ SealReceive(b) \/ SealDeliver(b) \/ SealStop(b)
    \/ SealReturn(b)

-----------------------------------------------------------------------------
(* The core, which is blocked while it is sending.                         *)

\* The validators decide on a block of this node or of another.
Decide(h, b) ==
    /\ Up /\ decided[h] = None /\ (h > 1 => decided[h - 1] # None)
    /\ b = Foreign \/ (b \in posted /\ Number[b] = h)
    /\ decided' = [decided EXCEPT ![h] = b]
    /\ UNCHANGED <<taskVars, sealVars, commitCh, posted, seq, commits, sending, enqueued,
                   writeVars, minerVars>>

\* Backend.Commit.  A read of proposedBlockHash that races a write of it gives the hash
\* before, the hash after, or no block's hash.
Commit ==
    /\ phase = "on" /\ sending = None
    /\ seq \in Seqs /\ decided[seq] # None /\ commits < MaxCommits
    /\ commits' = commits + 1
    /\ IF proposedBlockHash = decided[seq]
       THEN sending' = decided[seq] /\ UNCHANGED enqueued
       ELSE enqueued' = enqueued \cup {seq} /\ UNCHANGED sending
    /\ UNCHANGED <<taskVars, sealVars, commitCh, posted, decided, seq, writeVars, minerVars>>

\* sb.commitCh <- block.
CommitSend ==
    /\ Up /\ sending # None /\ commitCh = <<>>
    /\ commitCh' = <<sending>>
    /\ sending' = None
    /\ UNCHANGED <<taskVars, sealVars, posted, decided, seq, commits, enqueued, writeVars,
                   minerVars>>

\* NewChainHead has told the core, or the timer has made it look.
NewSequence ==
    /\ phase = "on" /\ sending = None /\ Height >= seq
    /\ seq' = Height + 1
    /\ commits' = 0
    /\ UNCHANGED <<taskVars, sealVars, commitCh, posted, decided, sending, enqueued, writeVars,
                   minerVars>>

-----------------------------------------------------------------------------
(* The chain.                                                              *)

\* clearPending, called on every head, may have deleted the task.
Forgotten(b) == Number[b] + StaleThreshold <= Height

\* resultLoop takes a block and looks whether the chain has it, and whether there still is
\* a task for it ("no relative pending task").
TakeResult ==
    /\ Up /\ resultCh # <<>> /\ writing = None
    /\ resultCh' = Tail(resultCh)
    /\ LET b == Head(resultCh)
           hasBlock == Number[b] <= Height /\ chain[Number[b]] = b
       IN  writing' \in IF b = None \/ hasBlock THEN {None}
                        ELSE IF Forgotten(b) THEN {None, b} ELSE {b}
    /\ UNCHANGED <<taskVars, sealVars, commitCh, coreVars, chain, minerVars>>

\* A block extends the chain; one as high as the head may take its place, by the tie-break
\* between blocks of the same difficulty; a lower one becomes a side block.
Extends(h, b) ==
    \/ h = Height + 1 /\ chain' = Append(chain, b)
    \/ h = Height /\ h > 0 /\ chain' = [chain EXCEPT ![h] = b]
    \/ h # Height + 1 /\ UNCHANGED chain

\* WriteBlockWithState, which does not look again.
WriteResult ==
    /\ Up /\ writing # None
    /\ Extends(Number[writing], writing)
    /\ writing' = None
    /\ UNCHANGED <<taskVars, sealVars, commitCh, coreVars, resultCh, minerVars>>

\* The importer inserts the block of height h that Commit has given to it.
InsertEnqueued(h) ==
    /\ Up /\ h \in enqueued
    /\ enqueued' = enqueued \ {h}
    /\ Extends(h, decided[h])
    /\ UNCHANGED <<taskVars, sealVars, commitCh, posted, decided, seq, commits, sending,
                   resultCh, writing, minerVars>>

\* A peer has the next block already.
ImportBlock ==
    /\ Up /\ Height + 1 \in Seqs /\ decided[Height + 1] # None
    /\ Extends(Height + 1, decided[Height + 1])
    /\ UNCHANGED <<taskVars, sealVars, commitCh, coreVars, resultCh, writing, minerVars>>

-----------------------------------------------------------------------------
(* The miner.  worker.stop and worker.start change running and the core in *)
(* two steps; no goroutine of Seal is told of either.                      *)

\* StartEvent: worker.stop calls Backend.Stop, which sets sb.core to nil ...
StopCore ==
    /\ phase = "on" /\ stops < MaxStops
    /\ phase' = "stopping" /\ stops' = stops + 1
    /\ UNCHANGED <<taskVars, sealVars, commitCh, coreVars, writeVars>>

\* ... and waits for the event loop; then running is 0.
StopWorker ==
    /\ phase = "stopping" /\ sending = None
    /\ phase' = "off"
    /\ UNCHANGED <<taskVars, sealVars, commitCh, coreVars, writeVars, stops>>

\* DoneEvent or FailedEvent: worker.start sets running ...
StartWorker ==
    /\ phase = "off"
    /\ phase' = "starting"
    /\ UNCHANGED <<taskVars, sealVars, commitCh, coreVars, writeVars, stops>>

\* ... and calls Backend.Start, which clears the previous data and makes a new core.
StartCore ==
    /\ phase = "starting"
    /\ phase' = "on"
    /\ Clear
    /\ commitCh' = <<>>
    /\ seq' = Height + 1 /\ commits' = 0
    /\ UNCHANGED <<taskVars, sealing, sealMu, posted, decided, sending, enqueued, writeVars, stops>>

Miner == StopCore \/ StopWorker \/ StartWorker \/ StartCore

-----------------------------------------------------------------------------
Next ==
    \/ \E b \in Block : NewTask(b) \/ Seal(b)
    \/ \E h \in Seqs, b \in Block \cup {Foreign} : Decide(h, b)
    \/ Commit \/ CommitSend \/ NewSequence
    \/ TakeResult \/ WriteResult \/ ImportBlock
    \/ \E h \in Seqs : InsertEnqueued(h)
    \/ Miner

Spec == Init /\ [][Next]_vars

\* newWorkLoop asks for work on every head.
NewTaskOnHead(b) ==
    /\ phase = "on" /\ Number[b] = Height + 1
    /\ prev # None => Number[prev] # Height + 1
    /\ NewTask(b)

\* The loops and goroutines go on, sync.Mutex starves no one, and a synchronisation
\* ends.
LiveSpec ==
    /\ Spec
    /\ \A b \in Block : WF_vars(Seal(b)) /\ SF_vars(SealLock(b))
    /\ WF_vars(\E b \in Block : NewTaskOnHead(b))
    /\ WF_vars(CommitSend) /\ WF_vars(NewSequence)
    /\ WF_vars(TakeResult) /\ WF_vars(WriteResult)
    /\ WF_vars(\E h \in Seqs : InsertEnqueued(h))
    /\ WF_vars(StopWorker) /\ WF_vars(StartWorker) /\ WF_vars(StartCore)

-----------------------------------------------------------------------------
(* Properties.                                                             *)

Places == {"none", "delay", "mutex", "watch", "deliver", "return", "done", "failed"}
Phases == {"on", "stopping", "off", "starting", "crashed"}
Blocks == Block \cup {Foreign}

SealTypes ==
    /\ prev \in Block \cup {None} /\ stopped \subseteq Block
    /\ sealing \in [Block -> Places]
    /\ sealMu \in Block \cup {None} /\ proposedBlockHash \in Block \cup {None}
    /\ phase \in Phases /\ stops \in 0 .. MaxStops

ChannelTypes ==
    /\ commitCh \in Seq(Block) /\ Len(commitCh) <= 1
    /\ resultCh \in Seq(Block \cup {None}) /\ Len(resultCh) <= QueueSize
    /\ writing \in Block \cup {None}

CoreTypes ==
    /\ posted \subseteq Block /\ decided \in [Seqs -> Blocks \cup {None}]
    /\ seq \in 1 .. MaxSeq + 1 /\ commits \in 0 .. MaxCommits
    /\ sending \in Block \cup {None} /\ enqueued \subseteq Seqs

ChainTypes == chain \in Seq(Blocks) /\ Height <= MaxSeq

\* Every variable has its type, commitCh and resultCh stay within their room, and the
\* chain grows no further than the network decides.
TypeOK == SealTypes /\ ChannelTypes /\ CoreTypes /\ ChainTypes

\* What stands on the chain was decided: however tasks, results, imports and restarts of
\* the core overlap, resultLoop writes no block of this miner that lost its height.
WritesDecided == \A h \in DOMAIN chain : h \in Seqs /\ chain[h] = decided[h]

\* The hash that Commit compares with is the block of the one goroutine that has sealMu,
\* and only that goroutine takes blocks from commitCh.
OneWatcher ==
    /\ \A b \in Block : sealing[b] \in {"watch", "deliver", "return"} => sealMu = b
    /\ proposedBlockHash # None => proposedBlockHash = sealMu

\* The core does not hang in Commit: someone makes room in commitCh.  The exceptions are
\* a task that Seal has refused, after which nobody reads the channel until the next one,
\* and a miner that is being stopped, which is StopReturns.
CoreUnblocks ==
    sending # None ~> \/ sending = None \/ phase = "stopping" \/ ~Up
                      \/ prev # None /\ sealing[prev] = "failed"

\* The newest task gets sealMu: the tasks before it give it back when they are stopped.
SealProceeds ==
    \A b \in Block : sealing[b] = "mutex" ~> (sealing[b] # "mutex" \/ prev # b \/ ~Up)

\* worker.stop returns, although Backend.Stop waits for a core that may be sending, as
\* long as the newest task has a goroutine: newWorkLoop waits for Stop and gives no other.
StopReturns ==
    phase = "stopping" ~> \/ phase # "stopping"
                          \/ prev # None /\ sealing[prev] \in {"done", "failed"}

\* The goroutine of b has taken the block, to pass it on to resultLoop, or has done so.
PassedOn(b) ==
    \/ sealing[b] = "deliver"
    \/ \E i \in DOMAIN resultCh : resultCh[i] = b
    \/ writing = b
    \/ \E h \in DOMAIN chain : chain[h] = b

\* Commit's comment: what it sends "is being watched inside the engine.Seal() function".
\* The comparison is made without sealMu, so the watcher may be gone when the block is in
\* the channel; then its task was stopped in between, or the block is a second copy.
Watched ==
    \A i \in DOMAIN commitCh :
        LET b == commitCh[i] IN sealing[b] = "watch" \/ b \in stopped \/ PassedOn(b)

\* update's comment: "Resume mining after sync was finished".
ResumesMining == phase = "stopping" ~> phase = "on"
===============================================================================
