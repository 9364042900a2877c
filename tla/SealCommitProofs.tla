-------------------------- MODULE SealCommitProofs --------------------------
(***************************************************************************)
(* What the properties of SealCommit rest on, for every set of blocks and  *)
(* all bounds: only decided blocks are on their way from Commit over       *)
(* commitCh, a goroutine of Seal and resultCh to the chain, sealMu         *)
(* separates the goroutines, and what Commit sends is watched until it is  *)
(* past its goroutine or the task is stopped.                              *)
(***************************************************************************)
EXTENDS SealCommit, TLAPS

\* The block has been decided on its height.
Won(b) == Number[b] \in Seqs /\ decided[Number[b]] = b

\* What Commit sends, and what is under way because of it, has been decided.
Delivered ==
    /\ sending # None => Won(sending)
    /\ commitCh # <<>> => Won(commitCh[1])
    /\ \A i \in DOMAIN resultCh : resultCh[i] # None => Won(resultCh[i])
    /\ writing # None => Won(writing)

\* The part of the types and of Delivered that is about resultCh.
QueueInv ==
    /\ resultCh \in Seq(Block \cup {None}) /\ Len(resultCh) <= QueueSize
    /\ \A i \in DOMAIN resultCh : resultCh[i] # None => Won(resultCh[i])

\* A block of this miner is decided at its own height only, and the importer has decided
\* blocks.
DecidedInv ==
    /\ \A h \in Seqs : decided[h] \in Block => Number[decided[h]] = h
    /\ \A h \in enqueued : decided[h] # None

\* The goroutine with sealMu is between Lock and Unlock.
MutexInv == sealMu # None => sealing[sealMu] \in {"watch", "deliver", "return"}

Inv == TypeOK /\ OneWatcher /\ MutexInv /\ WritesDecided /\ Delivered /\ DecidedInv

\* What a goroutine has taken from commitCh has been decided.
DeliverInv == \A b \in Block : sealing[b] = "deliver" => Won(b)

\* The state that Start leaves.
LEMMA SealInit ==
    Init => Inv /\ DeliverInv
<1>. SUFFICES ASSUME Init PROVE Inv /\ DeliverInv
  OBVIOUS
<1>1. TypeOK
  BY SealBounds, SealNames
  DEF Init, TypeOK, SealTypes, ChannelTypes, CoreTypes, ChainTypes, Places, Phases, Blocks,
      Seqs, Height
<1>2. OneWatcher /\ MutexInv
  BY DEF Init, OneWatcher, MutexInv
<1>3. WritesDecided /\ Delivered
  BY DEF Init, WritesDecided, Delivered
<1>4. DecidedInv
  BY SealNames DEF Init, DecidedInv
<1>5. DeliverInv
  BY DEF Init, DeliverInv
<1>. QED  BY <1>1, <1>2, <1>3, <1>4, <1>5 DEF Inv

\* Steps that leave the goroutines and the miner alone.
LEMMA SealKept ==
    ASSUME SealTypes, OneWatcher, MutexInv, UNCHANGED <<taskVars, sealVars, minerVars>>
    PROVE  SealTypes' /\ OneWatcher' /\ MutexInv'
BY DEF SealTypes, OneWatcher, MutexInv, taskVars, sealVars, minerVars

\* The channels, together with what makes their contents decided.
LEMMA ChannelKept ==
    ASSUME ChannelTypes, Delivered, UNCHANGED <<commitCh, resultCh, writing, sending, decided>>
    PROVE  ChannelTypes' /\ Delivered'
BY DEF ChannelTypes, Delivered, Won

\* The core and the chain.
LEMMA CoreKept ==
    ASSUME CoreTypes, ChainTypes, WritesDecided, DecidedInv, UNCHANGED <<coreVars, chain>>
    PROVE  CoreTypes' /\ ChainTypes' /\ WritesDecided' /\ DecidedInv'
BY DEF CoreTypes, ChainTypes, WritesDecided, DecidedInv, Height, coreVars

\* What is appended to resultCh is nil or a decided block.
LEMMA ResultsStep ==
    ASSUME ChannelTypes, Delivered, NEW x \in Block \cup {None}, x # None => Won(x),
           Results(x), UNCHANGED decided
    PROVE  QueueInv'
<1>1. /\ resultCh \in Seq(Block \cup {None}) /\ Len(resultCh) < QueueSize
      /\ QueueSize \in Nat /\ resultCh' = Append(resultCh, x)
  BY SealBounds DEF ChannelTypes, Results
<1>2. resultCh' \in Seq(Block \cup {None}) /\ Len(resultCh') <= QueueSize
  BY <1>1
<1>3. \A i \in DOMAIN resultCh' : \/ resultCh'[i] = x
                                  \/ i \in DOMAIN resultCh /\ resultCh'[i] = resultCh[i]
  BY <1>1
<1>4. \A b : Won(b) => Won(b)'
  BY DEF Won
<1>5. \A i \in DOMAIN resultCh' : resultCh'[i] # None => Won(resultCh'[i])
  BY <1>3, Zenon DEF Delivered
<1>. QED  BY <1>2, <1>4, <1>5, Zenon DEF QueueInv

\* The tie-break changes nothing: a decided block as high as the head is the head.
LEMMA SameHead ==
    ASSUME ChainTypes, WritesDecided, NEW h, h = Height, h > 0
    PROVE  [chain EXCEPT ![h] = decided[h]] = chain
<1>1. h \in DOMAIN chain /\ chain = [i \in DOMAIN chain |-> chain[i]]
  BY DEF ChainTypes, Height
<1>2. chain[h] = decided[h]
  BY <1>1, Zenon DEF WritesDecided
<1>. QED  BY <1>1, <1>2

\* A decided block extends the chain.
LEMMA ExtendsStep ==
    ASSUME ChainTypes, CoreTypes, WritesDecided, NEW h \in Seqs, decided[h] # None,
           Extends(h, decided[h]), UNCHANGED decided
    PROVE  ChainTypes' /\ WritesDecided'
<1>1. CASE h = Len(chain) + 1
  <2>1. chain \in Seq(Blocks) /\ decided[h] \in Blocks /\ chain' = Append(chain, decided[h])
    BY <1>1 DEF ChainTypes, CoreTypes, Extends, Height, Seqs
  <2>2. chain' \in Seq(Blocks) /\ Len(chain') = h
    BY <1>1, <2>1
  <2>3. h <= MaxSeq
    BY SealBounds DEF Seqs
  <2>4. \A i \in DOMAIN chain' : \/ i = h /\ chain'[i] = decided[h]
                                 \/ i \in DOMAIN chain /\ chain'[i] = chain[i]
    BY <1>1, <2>1
  <2>5. ChainTypes'
    BY <2>2, <2>3, Zenon DEF ChainTypes, Height
  <2>6. WritesDecided'
    BY <2>4, Zenon DEF WritesDecided
  <2>. QED  BY <2>5, <2>6, Zenon
<1>2. CASE h # Len(chain) + 1
  <2>1. UNCHANGED chain
    BY <1>2, SameHead DEF Extends, Height
  <2>. QED  BY <2>1, Zenon DEF ChainTypes, WritesDecided, Height
<1>. QED  BY <1>1, <1>2, Zenon

\* taskLoop touches no block.
LEMMA NewTaskInv ==
    ASSUME Inv, NEW b \in Block, NewTask(b)
    PROVE  Inv'
<1>0. SealTypes /\ ChannelTypes /\ CoreTypes /\ ChainTypes
  BY Zenon DEF Inv, TypeOK
<1>a. OneWatcher /\ MutexInv /\ WritesDecided /\ Delivered /\ DecidedInv
  BY Zenon DEF Inv
<1>1. ChannelTypes' /\ Delivered'
  <2>1. UNCHANGED <<commitCh, resultCh, writing, sending, decided>>
    BY Zenon DEF NewTask, Interrupt, Panic, taskVars, sealVars, coreVars, writeVars, minerVars
  <2>. QED  BY <1>0, <1>a, <2>1, ChannelKept, Zenon
<1>2. CoreTypes' /\ ChainTypes' /\ WritesDecided' /\ DecidedInv'
  <2>1. UNCHANGED <<coreVars, chain>>
    BY Zenon DEF NewTask, Interrupt, Panic, taskVars, sealVars, coreVars, writeVars, minerVars
  <2>. QED  BY <1>0, <1>a, <2>1, CoreKept, Zenon
<1>3. SealTypes'
  BY SealBounds, SealNames, <1>0
  DEF SealTypes, Places, Phases, taskVars, sealVars, coreVars, writeVars, minerVars, NewTask,
      Interrupt, Panic
<1>4. OneWatcher' /\ MutexInv'
  BY SealBounds, SealNames, <1>0, <1>a
  DEF OneWatcher, MutexInv, SealTypes, taskVars, sealVars, coreVars, writeVars, minerVars,
      NewTask, Interrupt, Panic
<1>. QED
  BY <1>1, <1>2, <1>3, <1>4, Zenon DEF Inv, TypeOK

\* A task stopped before its time leaves a nil in resultCh.
LEMMA SealDelayInv ==
    ASSUME Inv, NEW b \in Block, SealDelay(b)
    PROVE  Inv'
<1>0. SealTypes /\ ChannelTypes /\ CoreTypes /\ ChainTypes
  BY Zenon DEF Inv, TypeOK
<1>a. OneWatcher /\ MutexInv /\ WritesDecided /\ Delivered /\ DecidedInv
  BY Zenon DEF Inv
<1>b. UNCHANGED <<commitCh, writing, sending, decided>>
  BY Zenon DEF SealDelay, coreVars
<1>c. QueueInv'
  <2>1. CASE Results(None)
    BY <1>0, <1>a, <1>b, <2>1, ResultsStep, Zenon
  <2>2. CASE UNCHANGED resultCh
    BY <1>0, <1>a, <1>b, <2>2 DEF QueueInv, ChannelTypes, Delivered, Won
  <2>. QED  BY <2>1, <2>2, Zenon DEF SealDelay
<1>1. CoreTypes' /\ ChainTypes' /\ WritesDecided' /\ DecidedInv'
  <2>1. UNCHANGED <<coreVars, chain>>
    BY Zenon DEF SealDelay, Results, taskVars, coreVars, minerVars
  <2>. QED  BY <1>0, <1>a, <2>1, CoreKept, Zenon
<1>2. SealTypes'
  BY SealBounds, SealNames, <1>0
  DEF SealTypes, Places, Phases, taskVars, coreVars, minerVars, SealDelay, Results
<1>3. ChannelTypes'
  BY <1>0, <1>b, <1>c DEF ChannelTypes, QueueInv
<1>4. OneWatcher' /\ MutexInv'
  BY SealBounds, SealNames, <1>0, <1>a
  DEF OneWatcher, MutexInv, SealTypes, taskVars, coreVars, minerVars, SealDelay, Results
<1>5. Delivered'
  BY <1>a, <1>b, <1>c DEF Delivered, QueueInv, Won
<1>. QED
  BY <1>1, <1>2, <1>3, <1>4, <1>5, Zenon DEF Inv, TypeOK

\* The goroutine takes sealMu and publishes its hash.
LEMMA SealLockInv ==
    ASSUME Inv, NEW b \in Block, SealLock(b)
    PROVE  Inv'
<1>0. SealTypes /\ ChannelTypes /\ CoreTypes /\ ChainTypes
  BY Zenon DEF Inv, TypeOK
<1>a. OneWatcher /\ MutexInv /\ WritesDecided /\ Delivered /\ DecidedInv
  BY Zenon DEF Inv
<1>1. ChannelTypes' /\ Delivered'
  <2>1. UNCHANGED <<commitCh, resultCh, writing, sending, decided>>
    BY Zenon DEF SealLock, Panic, taskVars, sealVars, coreVars, writeVars, minerVars
  <2>. QED  BY <1>0, <1>a, <2>1, ChannelKept, Zenon
<1>2. SealTypes'
  BY SealBounds, SealNames, <1>0
  DEF SealTypes, Places, Phases, taskVars, sealVars, coreVars, writeVars, minerVars, SealLock,
      Panic
<1>3. CoreTypes'
  BY <1>0, Zenon
  DEF CoreTypes, Blocks, Seqs, taskVars, sealVars, coreVars, writeVars, minerVars, SealLock,
      Panic
<1>4. ChainTypes'
  BY SealBounds, SealNames, <1>0
  DEF ChainTypes, Blocks, Height, Seqs, taskVars, sealVars, coreVars, writeVars, minerVars,
      SealLock, Panic
<1>5. OneWatcher' /\ MutexInv'
  BY SealBounds, SealNames, <1>0, <1>a
  DEF OneWatcher, MutexInv, SealTypes, taskVars, sealVars, coreVars, writeVars, minerVars,
      SealLock, Panic
<1>6. WritesDecided'
  BY SealBounds, SealNames, <1>0, <1>a
  DEF WritesDecided, CoreTypes, ChainTypes, Height, taskVars, sealVars, coreVars, writeVars,
      minerVars, SealLock, Panic
<1>7. DecidedInv'
  BY SealBounds, SealNames, <1>0, <1>a
  DEF DecidedInv, CoreTypes, Blocks, taskVars, sealVars, coreVars, writeVars, minerVars,
      SealLock, Panic
<1>. QED
  BY <1>1, <1>2, <1>3, <1>4, <1>5, <1>6, <1>7, Zenon DEF Inv, TypeOK

\* The block from commitCh is taken.
LEMMA SealReceiveInv ==
    ASSUME Inv, NEW b \in Block, SealReceive(b)
    PROVE  Inv'
<1>0. SealTypes /\ ChannelTypes /\ CoreTypes /\ ChainTypes
  BY Zenon DEF Inv, TypeOK
<1>a. OneWatcher /\ MutexInv /\ WritesDecided /\ Delivered /\ DecidedInv
  BY Zenon DEF Inv
<1>b. commitCh' = <<>> /\ UNCHANGED <<resultCh, writing, sending, decided>>
  BY Zenon DEF SealReceive, TakesResult, coreVars, writeVars
<1>1. CoreTypes' /\ ChainTypes' /\ WritesDecided' /\ DecidedInv'
  <2>1. UNCHANGED <<coreVars, chain>>
    BY Zenon DEF SealReceive, TakesResult, taskVars, coreVars, writeVars, minerVars
  <2>. QED  BY <1>0, <1>a, <2>1, CoreKept, Zenon
<1>2. SealTypes'
  BY SealBounds, SealNames, <1>0
  DEF SealTypes, Places, Phases, taskVars, coreVars, minerVars, SealReceive, TakesResult
<1>3. ChannelTypes'
  BY <1>0, <1>b DEF ChannelTypes
<1>4. OneWatcher' /\ MutexInv'
  BY SealBounds, SealNames, <1>0, <1>a
  DEF OneWatcher, MutexInv, SealTypes, taskVars, coreVars, minerVars, SealReceive, TakesResult
<1>5. Delivered'
  BY <1>a, <1>b DEF Delivered, Won
<1>. QED
  BY <1>1, <1>2, <1>3, <1>4, <1>5, Zenon DEF Inv, TypeOK

\* The block taken goes to resultCh.
LEMMA SealDeliverInv ==
    ASSUME Inv, DeliverInv, NEW b \in Block, SealDeliver(b)
    PROVE  Inv'
<1>0. SealTypes /\ ChannelTypes /\ CoreTypes /\ ChainTypes
  BY Zenon DEF Inv, TypeOK
<1>a. OneWatcher /\ MutexInv /\ WritesDecided /\ Delivered /\ DecidedInv
  BY Zenon DEF Inv
<1>b. UNCHANGED <<commitCh, writing, sending, decided>> /\ Results(b) /\ Won(b)
  BY Zenon DEF SealDeliver, DeliverInv, coreVars
<1>c. QueueInv'
  BY <1>0, <1>a, <1>b, ResultsStep, Zenon
<1>1. CoreTypes' /\ ChainTypes' /\ WritesDecided' /\ DecidedInv'
  <2>1. UNCHANGED <<coreVars, chain>>
    BY Zenon DEF SealDeliver, Results, taskVars, coreVars, minerVars
  <2>. QED  BY <1>0, <1>a, <2>1, CoreKept, Zenon
<1>2. SealTypes'
  BY SealBounds, SealNames, <1>0
  DEF SealTypes, Places, Phases, taskVars, coreVars, minerVars, SealDeliver, Results
<1>3. ChannelTypes'
  BY <1>0, <1>b, <1>c DEF ChannelTypes, QueueInv
<1>4. OneWatcher' /\ MutexInv'
  BY SealBounds, SealNames, <1>0, <1>a
  DEF OneWatcher, MutexInv, SealTypes, taskVars, coreVars, minerVars, SealDeliver, Results
<1>5. Delivered'
  BY <1>a, <1>b, <1>c DEF Delivered, QueueInv, Won
<1>. QED
  BY <1>1, <1>2, <1>3, <1>4, <1>5, Zenon DEF Inv, TypeOK

\* A stopped goroutine leaves a nil in resultCh.
LEMMA SealStopInv ==
    ASSUME Inv, NEW b \in Block, SealStop(b)
    PROVE  Inv'
<1>0. SealTypes /\ ChannelTypes /\ CoreTypes /\ ChainTypes
  BY Zenon DEF Inv, TypeOK
<1>a. OneWatcher /\ MutexInv /\ WritesDecided /\ Delivered /\ DecidedInv
  BY Zenon DEF Inv
<1>b. UNCHANGED <<commitCh, writing, sending, decided>> /\ Results(None)
  BY Zenon DEF SealStop, coreVars
<1>c. QueueInv'
  BY <1>0, <1>a, <1>b, ResultsStep, Zenon
<1>1. CoreTypes' /\ ChainTypes' /\ WritesDecided' /\ DecidedInv'
  <2>1. UNCHANGED <<coreVars, chain>>
    BY Zenon DEF SealStop, Results, taskVars, coreVars, minerVars
  <2>. QED  BY <1>0, <1>a, <2>1, CoreKept, Zenon
<1>2. SealTypes'
  BY SealBounds, SealNames, <1>0
  DEF SealTypes, Places, Phases, taskVars, coreVars, minerVars, SealStop, Results
<1>3. ChannelTypes'
  BY <1>0, <1>b, <1>c DEF ChannelTypes, QueueInv
<1>4. OneWatcher' /\ MutexInv'
  BY SealBounds, SealNames, <1>0, <1>a
  DEF OneWatcher, MutexInv, SealTypes, taskVars, coreVars, minerVars, SealStop, Results
<1>5. Delivered'
  BY <1>a, <1>b, <1>c DEF Delivered, QueueInv, Won
<1>. QED
  BY <1>1, <1>2, <1>3, <1>4, <1>5, Zenon DEF Inv, TypeOK

\* The hash is cleared and sealMu released.
LEMMA SealReturnInv ==
    ASSUME Inv, NEW b \in Block, SealReturn(b)
    PROVE  Inv'
<1>0. SealTypes /\ ChannelTypes /\ CoreTypes /\ ChainTypes
  BY Zenon DEF Inv, TypeOK
<1>a. OneWatcher /\ MutexInv /\ WritesDecided /\ Delivered /\ DecidedInv
  BY Zenon DEF Inv
<1>1. ChannelTypes' /\ Delivered'
  <2>1. UNCHANGED <<commitCh, resultCh, writing, sending, decided>>
    BY Zenon DEF SealReturn, Clear, taskVars, coreVars, writeVars, minerVars
  <2>. QED  BY <1>0, <1>a, <2>1, ChannelKept, Zenon
<1>2. CoreTypes' /\ ChainTypes' /\ WritesDecided' /\ DecidedInv'
  <2>1. UNCHANGED <<coreVars, chain>>
    BY Zenon DEF SealReturn, Clear, taskVars, coreVars, writeVars, minerVars
  <2>. QED  BY <1>0, <1>a, <2>1, CoreKept, Zenon
<1>3. SealTypes'
  BY SealBounds, SealNames, <1>0
  DEF SealTypes, Places, Phases, taskVars, coreVars, writeVars, minerVars, SealReturn, Clear
<1>4. OneWatcher' /\ MutexInv'
  BY SealBounds, SealNames, <1>0, <1>a
  DEF OneWatcher, MutexInv, SealTypes, taskVars, coreVars, writeVars, minerVars, SealReturn,
      Clear
<1>. QED
  BY <1>1, <1>2, <1>3, <1>4, Zenon DEF Inv, TypeOK

\* A decision is made once.
LEMMA DecideInv ==
    ASSUME Inv, NEW h \in Seqs, NEW b \in Blocks, Decide(h, b)
    PROVE  Inv'
<1>0. SealTypes /\ ChannelTypes /\ CoreTypes /\ ChainTypes
  BY Zenon DEF Inv, TypeOK
<1>a. OneWatcher /\ MutexInv /\ WritesDecided /\ Delivered /\ DecidedInv
  BY Zenon DEF Inv
<1>b. decided[h] = None /\ decided' = [decided EXCEPT ![h] = b] /\ UNCHANGED chain
  BY Zenon DEF Decide, writeVars
<1>c. \A g \in Seqs : decided[g] # None => decided'[g] = decided[g]
  BY <1>0, <1>b DEF CoreTypes
<1>d. \A i \in DOMAIN chain : chain[i] # None
  BY SealNames, <1>0 DEF ChainTypes, Blocks
<1>1. SealTypes' /\ OneWatcher' /\ MutexInv'
  <2>1. UNCHANGED <<taskVars, sealVars, minerVars>>
    BY Zenon DEF Decide, taskVars, sealVars, writeVars, minerVars
  <2>. QED  BY <1>0, <1>a, <2>1, SealKept, Zenon
<1>2. ChannelTypes'
  BY SealBounds, SealNames, <1>0
  DEF ChannelTypes, taskVars, sealVars, writeVars, minerVars, Decide
<1>3. CoreTypes'
  BY SealBounds, SealNames, <1>0
  DEF CoreTypes, Blocks, Seqs, taskVars, sealVars, writeVars, minerVars, Decide
<1>4. ChainTypes'
  BY SealBounds, SealNames, <1>0
  DEF ChainTypes, Blocks, Height, Seqs, taskVars, sealVars, writeVars, minerVars, Decide
<1>5. WritesDecided'
  BY <1>a, <1>b, <1>c, <1>d, Zenon DEF WritesDecided
<1>6. Delivered'
  BY SealBounds, SealNames, <1>0, <1>a
  DEF Delivered, Won, ChannelTypes, CoreTypes, taskVars, sealVars, writeVars, minerVars, Decide
<1>7. DecidedInv'
  BY SealBounds, SealNames, <1>0, <1>a
  DEF DecidedInv, CoreTypes, Blocks, taskVars, sealVars, writeVars, minerVars, Decide
<1>. QED
  BY <1>1, <1>2, <1>3, <1>4, <1>5, <1>6, <1>7, Zenon DEF Inv, TypeOK

\* Commit gives the decided block away.
LEMMA CommitInv ==
    ASSUME Inv, Commit
    PROVE  Inv'
<1>0. SealTypes /\ ChannelTypes /\ CoreTypes /\ ChainTypes
  BY Zenon DEF Inv, TypeOK
<1>a. OneWatcher /\ MutexInv /\ WritesDecided /\ Delivered /\ DecidedInv
  BY Zenon DEF Inv
<1>b. /\ seq \in Seqs /\ decided[seq] # None /\ commits' = commits + 1 /\ commits < MaxCommits
      /\ UNCHANGED <<commitCh, posted, decided, seq, writeVars>>
  BY Zenon DEF Commit
<1>c. \/ proposedBlockHash = decided[seq] /\ sending' = decided[seq] /\ UNCHANGED enqueued
      \/ enqueued' = enqueued \cup {seq} /\ UNCHANGED sending
  BY Zenon DEF Commit
<1>d. decided[seq] = proposedBlockHash => decided[seq] \in Block
  BY <1>0, <1>b DEF SealTypes
<1>1. SealTypes' /\ OneWatcher' /\ MutexInv'
  <2>1. UNCHANGED <<taskVars, sealVars, minerVars>>
    BY Zenon DEF Commit, taskVars, sealVars, writeVars, minerVars
  <2>. QED  BY <1>0, <1>a, <2>1, SealKept, Zenon
<1>2. ChannelTypes'
  BY SealBounds, SealNames, <1>0
  DEF ChannelTypes, taskVars, sealVars, writeVars, minerVars, Commit
<1>3. CoreTypes'
  <2>1. sending' \in Block \cup {None}
    BY <1>0, <1>c, <1>d, Zenon DEF CoreTypes
  <2>2. enqueued' \subseteq Seqs
    BY <1>0, <1>b, <1>c, Zenon DEF CoreTypes
  <2>3. commits' \in 0 .. MaxCommits
    BY SealBounds, <1>0, <1>b DEF CoreTypes
  <2>. QED  BY <1>0, <1>b, <2>1, <2>2, <2>3, Zenon DEF CoreTypes
<1>4. ChainTypes'
  BY SealBounds, SealNames, <1>0
  DEF ChainTypes, Blocks, Height, Seqs, taskVars, sealVars, writeVars, minerVars, Commit
<1>5. WritesDecided'
  BY SealBounds, SealNames, <1>0, <1>a
  DEF WritesDecided, CoreTypes, ChainTypes, Height, taskVars, sealVars, writeVars, minerVars,
      Commit
<1>6. Delivered'
  BY <1>0, <1>a, <1>b, <1>c, <1>d
  DEF Delivered, Won, DecidedInv, ChannelTypes, CoreTypes, writeVars
<1>7. DecidedInv'
  BY <1>0, <1>a, <1>b, <1>c, Zenon DEF DecidedInv, CoreTypes
<1>. QED
  BY <1>1, <1>2, <1>3, <1>4, <1>5, <1>6, <1>7, Zenon DEF Inv, TypeOK

\* The block enters commitCh.
LEMMA CommitSendInv ==
    ASSUME Inv, CommitSend
    PROVE  Inv'
<1>0. SealTypes /\ ChannelTypes /\ CoreTypes /\ ChainTypes
  BY Zenon DEF Inv, TypeOK
<1>a. OneWatcher /\ MutexInv /\ WritesDecided /\ Delivered /\ DecidedInv
  BY Zenon DEF Inv
<1>b. sending \in Block /\ commitCh' = <<sending>> /\ UNCHANGED <<resultCh, writing>>
  BY <1>0 DEF CommitSend, CoreTypes, writeVars
<1>c. <<sending>> \in Seq(Block) /\ Len(<<sending>>) <= 1
  BY <1>b
<1>1. SealTypes' /\ OneWatcher' /\ MutexInv'
  <2>1. UNCHANGED <<taskVars, sealVars, minerVars>>
    BY Zenon DEF CommitSend, taskVars, sealVars, writeVars, minerVars
  <2>. QED  BY <1>0, <1>a, <2>1, SealKept, Zenon
<1>2. ChannelTypes'
  BY <1>0, <1>b, <1>c, Zenon DEF ChannelTypes
<1>3. CoreTypes'
  BY SealBounds, SealNames, <1>0
  DEF CoreTypes, Blocks, Seqs, taskVars, sealVars, writeVars, minerVars, CommitSend
<1>4. ChainTypes'
  BY SealBounds, SealNames, <1>0
  DEF ChainTypes, Blocks, Height, Seqs, taskVars, sealVars, writeVars, minerVars, CommitSend
<1>5. WritesDecided'
  BY SealBounds, SealNames, <1>0, <1>a
  DEF WritesDecided, CoreTypes, ChainTypes, Height, taskVars, sealVars, writeVars, minerVars,
      CommitSend
<1>6. Delivered'
  BY SealBounds, SealNames, <1>0, <1>a
  DEF Delivered, Won, ChannelTypes, CoreTypes, taskVars, sealVars, writeVars, minerVars,
      CommitSend
<1>7. DecidedInv'
  BY SealBounds, SealNames, <1>0, <1>a
  DEF DecidedInv, CoreTypes, Blocks, taskVars, sealVars, writeVars, minerVars, CommitSend
<1>. QED
  BY <1>1, <1>2, <1>3, <1>4, <1>5, <1>6, <1>7, Zenon DEF Inv, TypeOK

\* The core follows the chain.
LEMMA NewSequenceInv ==
    ASSUME Inv, NewSequence
    PROVE  Inv'
<1>0. SealTypes /\ ChannelTypes /\ CoreTypes /\ ChainTypes
  BY Zenon DEF Inv, TypeOK
<1>a. OneWatcher /\ MutexInv /\ WritesDecided /\ Delivered /\ DecidedInv
  BY Zenon DEF Inv
<1>1. SealTypes' /\ OneWatcher' /\ MutexInv'
  <2>1. UNCHANGED <<taskVars, sealVars, minerVars>>
    BY Zenon DEF NewSequence, taskVars, sealVars, writeVars, minerVars
  <2>. QED  BY <1>0, <1>a, <2>1, SealKept, Zenon
<1>2. ChannelTypes' /\ Delivered'
  <2>1. UNCHANGED <<commitCh, resultCh, writing, sending, decided>>
    BY Zenon DEF NewSequence, taskVars, sealVars, writeVars, minerVars
  <2>. QED  BY <1>0, <1>a, <2>1, ChannelKept, Zenon
<1>3. CoreTypes'
  BY SealBounds, <1>0 DEF CoreTypes, ChainTypes, Height, NewSequence
<1>4. ChainTypes'
  BY SealBounds, SealNames, <1>0
  DEF ChainTypes, Blocks, Height, Seqs, taskVars, sealVars, writeVars, minerVars, NewSequence
<1>5. WritesDecided'
  BY SealBounds, SealNames, <1>0, <1>a
  DEF WritesDecided, CoreTypes, ChainTypes, Height, taskVars, sealVars, writeVars, minerVars,
      NewSequence
<1>6. DecidedInv'
  BY SealBounds, SealNames, <1>0, <1>a
  DEF DecidedInv, CoreTypes, Blocks, taskVars, sealVars, writeVars, minerVars, NewSequence
<1>. QED
  BY <1>1, <1>2, <1>3, <1>4, <1>5, <1>6, Zenon DEF Inv, TypeOK

\* resultLoop takes a result.
LEMMA TakeResultInv ==
    ASSUME Inv, TakeResult
    PROVE  Inv'
<1>0. SealTypes /\ ChannelTypes /\ CoreTypes /\ ChainTypes
  BY Zenon DEF Inv, TypeOK
<1>a. OneWatcher /\ MutexInv /\ WritesDecided /\ Delivered /\ DecidedInv
  BY Zenon DEF Inv
<1>1. SealTypes' /\ OneWatcher' /\ MutexInv'
  <2>1. UNCHANGED <<taskVars, sealVars, minerVars>>
    BY Zenon DEF TakeResult, taskVars, sealVars, coreVars, minerVars
  <2>. QED  BY <1>0, <1>a, <2>1, SealKept, Zenon
<1>2. CoreTypes' /\ ChainTypes' /\ WritesDecided' /\ DecidedInv'
  <2>1. UNCHANGED <<coreVars, chain>>
    BY Zenon DEF TakeResult, taskVars, sealVars, coreVars, minerVars
  <2>. QED  BY <1>0, <1>a, <2>1, CoreKept, Zenon
<1>3. ChannelTypes'
  BY SealBounds, SealNames, <1>0
  DEF ChannelTypes, taskVars, sealVars, coreVars, minerVars, TakeResult
<1>4. Delivered'
  BY SealBounds, SealNames, <1>0, <1>a
  DEF Delivered, Won, ChannelTypes, CoreTypes, taskVars, sealVars, coreVars, minerVars,
      TakeResult
<1>. QED
  BY <1>1, <1>2, <1>3, <1>4, Zenon DEF Inv, TypeOK

\* resultLoop writes a decided block on top of the chain, or nothing.
LEMMA WriteResultInv ==
    ASSUME Inv, WriteResult
    PROVE  Inv'
<1>0. SealTypes /\ ChannelTypes /\ CoreTypes /\ ChainTypes
  BY Zenon DEF Inv, TypeOK
<1>a. OneWatcher /\ MutexInv /\ WritesDecided /\ Delivered /\ DecidedInv
  BY Zenon DEF Inv
<1>b. \E h \in Seqs : decided[h] # None /\ Extends(h, decided[h]) /\ UNCHANGED decided
  <2>1. writing # None /\ Won(writing) /\ Extends(Number[writing], writing) /\ UNCHANGED decided
    BY <1>a, Zenon DEF WriteResult, Delivered, coreVars
  <2>. QED  BY <2>1, Zenon DEF Won
<1>e. ChainTypes' /\ WritesDecided'
  BY <1>0, <1>a, <1>b, ExtendsStep, Zenon
<1>1. SealTypes' /\ OneWatcher' /\ MutexInv'
  <2>1. UNCHANGED <<taskVars, sealVars, minerVars>>
    BY Zenon DEF WriteResult, Extends, taskVars, sealVars, coreVars, minerVars
  <2>. QED  BY <1>0, <1>a, <2>1, SealKept, Zenon
<1>2. ChannelTypes'
  BY SealBounds, SealNames, <1>0
  DEF ChannelTypes, taskVars, sealVars, coreVars, minerVars, WriteResult, Extends
<1>3. CoreTypes'
  BY SealBounds, SealNames, <1>0
  DEF CoreTypes, Blocks, Seqs, taskVars, sealVars, coreVars, minerVars, WriteResult, Extends
<1>4. ChainTypes'
  BY <1>e
<1>5. WritesDecided'
  BY <1>e
<1>6. Delivered'
  BY SealBounds, SealNames, <1>0, <1>a
  DEF Delivered, Won, ChannelTypes, CoreTypes, taskVars, sealVars, coreVars, minerVars,
      WriteResult, Extends
<1>7. DecidedInv'
  BY SealBounds, SealNames, <1>0, <1>a
  DEF DecidedInv, CoreTypes, Blocks, taskVars, sealVars, coreVars, minerVars, WriteResult,
      Extends
<1>. QED
  BY <1>1, <1>2, <1>3, <1>4, <1>5, <1>6, <1>7, Zenon DEF Inv, TypeOK

\* The importer writes a decided block on top of the chain, or nothing.
LEMMA InsertEnqueuedInv ==
    ASSUME Inv, NEW h \in Seqs, InsertEnqueued(h)
    PROVE  Inv'
<1>0. SealTypes /\ ChannelTypes /\ CoreTypes /\ ChainTypes
  BY Zenon DEF Inv, TypeOK
<1>a. OneWatcher /\ MutexInv /\ WritesDecided /\ Delivered /\ DecidedInv
  BY Zenon DEF Inv
<1>b. decided[h] # None /\ Extends(h, decided[h]) /\ UNCHANGED decided
  BY <1>a, Zenon DEF InsertEnqueued, DecidedInv
<1>e. ChainTypes' /\ WritesDecided'
  BY <1>0, <1>a, <1>b, ExtendsStep, Zenon
<1>1. SealTypes' /\ OneWatcher' /\ MutexInv'
  <2>1. UNCHANGED <<taskVars, sealVars, minerVars>>
    BY Zenon DEF InsertEnqueued, Extends, taskVars, sealVars, minerVars
  <2>. QED  BY <1>0, <1>a, <2>1, SealKept, Zenon
<1>2. ChannelTypes' /\ Delivered'
  <2>1. UNCHANGED <<commitCh, resultCh, writing, sending, decided>>
    BY Zenon DEF InsertEnqueued, Extends, taskVars, sealVars, minerVars
  <2>. QED  BY <1>0, <1>a, <2>1, ChannelKept, Zenon
<1>3. CoreTypes'
  BY SealBounds, SealNames, <1>0
  DEF CoreTypes, Blocks, Seqs, taskVars, sealVars, minerVars, InsertEnqueued, Extends
<1>4. ChainTypes'
  BY <1>e
<1>5. WritesDecided'
  BY <1>e
<1>6. DecidedInv'
  BY SealBounds, SealNames, <1>0, <1>a
  DEF DecidedInv, CoreTypes, Blocks, taskVars, sealVars, minerVars, InsertEnqueued, Extends
<1>. QED
  BY <1>1, <1>2, <1>3, <1>4, <1>5, <1>6, Zenon DEF Inv, TypeOK

\* A peer has a decided block.
LEMMA ImportBlockInv ==
    ASSUME Inv, ImportBlock
    PROVE  Inv'
<1>0. SealTypes /\ ChannelTypes /\ CoreTypes /\ ChainTypes
  BY Zenon DEF Inv, TypeOK
<1>a. OneWatcher /\ MutexInv /\ WritesDecided /\ Delivered /\ DecidedInv
  BY Zenon DEF Inv
<1>b. \E h \in Seqs : decided[h] # None /\ Extends(h, decided[h]) /\ UNCHANGED decided
  BY Zenon DEF ImportBlock, coreVars
<1>e. ChainTypes' /\ WritesDecided'
  BY <1>0, <1>a, <1>b, ExtendsStep, Zenon
<1>1. SealTypes' /\ OneWatcher' /\ MutexInv'
  <2>1. UNCHANGED <<taskVars, sealVars, minerVars>>
    BY Zenon DEF ImportBlock, Extends, taskVars, sealVars, coreVars, minerVars
  <2>. QED  BY <1>0, <1>a, <2>1, SealKept, Zenon
<1>2. ChannelTypes' /\ Delivered'
  <2>1. UNCHANGED <<commitCh, resultCh, writing, sending, decided>>
    BY Zenon DEF ImportBlock, Extends, taskVars, sealVars, coreVars, minerVars
  <2>. QED  BY <1>0, <1>a, <2>1, ChannelKept, Zenon
<1>3. CoreTypes'
  BY SealBounds, SealNames, <1>0
  DEF CoreTypes, Blocks, Seqs, taskVars, sealVars, coreVars, minerVars, ImportBlock, Extends
<1>4. ChainTypes'
  BY <1>e
<1>5. WritesDecided'
  BY <1>e
<1>6. DecidedInv'
  BY SealBounds, SealNames, <1>0, <1>a
  DEF DecidedInv, CoreTypes, Blocks, taskVars, sealVars, coreVars, minerVars, ImportBlock,
      Extends
<1>. QED
  BY <1>1, <1>2, <1>3, <1>4, <1>5, <1>6, Zenon DEF Inv, TypeOK

\* Stop and Start touch no block.
LEMMA MinerInv ==
    ASSUME Inv, Miner
    PROVE  Inv'
<1>0. SealTypes /\ ChannelTypes /\ CoreTypes /\ ChainTypes
  BY Zenon DEF Inv, TypeOK
<1>a. OneWatcher /\ MutexInv /\ WritesDecided /\ Delivered /\ DecidedInv
  BY Zenon DEF Inv
<1>b. (UNCHANGED commitCh \/ commitCh' = <<>>) /\ UNCHANGED <<resultCh, writing>>
  BY Zenon DEF Miner, StopCore, StopWorker, StartWorker, StartCore, writeVars
<1>c. <<>> \in Seq(Block) /\ Len(<<>>) <= 1
  OBVIOUS
<1>1. SealTypes'
  BY SealBounds, SealNames, <1>0
  DEF SealTypes, Places, Phases, taskVars, sealVars, coreVars, writeVars, Miner, StopCore,
      StopWorker, StartWorker, StartCore, Clear
<1>2. ChannelTypes'
  BY <1>0, <1>b, <1>c, Zenon DEF ChannelTypes
<1>3. CoreTypes'
  BY SealBounds, <1>0
  DEF CoreTypes, ChainTypes, Height, taskVars, sealVars, coreVars, writeVars, Miner, StopCore,
      StopWorker, StartWorker, StartCore
<1>4. ChainTypes'
  BY SealBounds, SealNames, <1>0
  DEF ChainTypes, Blocks, Height, Seqs, taskVars, sealVars, coreVars, writeVars, Miner,
      StopCore, StopWorker, StartWorker, StartCore, Clear
<1>5. OneWatcher' /\ MutexInv'
  BY SealBounds, SealNames, <1>0, <1>a
  DEF OneWatcher, MutexInv, SealTypes, taskVars, sealVars, coreVars, writeVars, Miner,
      StopCore, StopWorker, StartWorker, StartCore, Clear
<1>6. WritesDecided'
  BY SealBounds, SealNames, <1>0, <1>a
  DEF WritesDecided, CoreTypes, ChainTypes, Height, taskVars, sealVars, coreVars, writeVars,
      Miner, StopCore, StopWorker, StartWorker, StartCore, Clear
<1>7. Delivered'
  BY SealBounds, SealNames, <1>0, <1>a
  DEF Delivered, Won, ChannelTypes, CoreTypes, taskVars, sealVars, coreVars, writeVars, Miner,
      StopCore, StopWorker, StartWorker, StartCore, Clear
<1>8. DecidedInv'
  BY SealBounds, SealNames, <1>0, <1>a
  DEF DecidedInv, CoreTypes, Blocks, taskVars, sealVars, coreVars, writeVars, Miner, StopCore,
      StopWorker, StartWorker, StartCore, Clear
<1>. QED
  BY <1>1, <1>2, <1>3, <1>4, <1>5, <1>6, <1>7, <1>8, Zenon DEF Inv, TypeOK

\* A goroutine has what it delivers from commitCh, and decisions are final.
LEMMA DeliverNext ==
    ASSUME Inv, DeliverInv, [Next]_vars
    PROVE  DeliverInv'
<1>. USE DEF taskVars, sealVars, coreVars, writeVars, minerVars
<1>0. /\ sealing \in [Block -> Places] /\ decided \in [Seqs -> Blocks \cup {None}]
      /\ commitCh # <<>> => Won(commitCh[1])
  BY DEF Inv, TypeOK, SealTypes, CoreTypes, Delivered
<1>1. ASSUME UNCHANGED <<sealing, decided>> PROVE DeliverInv'
  BY <1>1, Zenon DEF DeliverInv, Won
<1>2. ASSUME NEW b \in Block, NEW p, p = "deliver" => Won(b), UNCHANGED decided,
             sealing' = [sealing EXCEPT ![b] = p]
      PROVE  DeliverInv'
  <2>1. sealing'[b] = p /\ \A c \in Block : c # b => sealing'[c] = sealing[c]
    BY <1>0, <1>2
  <2>. QED  BY <1>2, <2>1, Zenon DEF DeliverInv, Won
<1>3. ASSUME NEW b \in Block, NewTask(b) PROVE DeliverInv'
  <2>1. CASE Panic
    BY <1>1, <2>1, Zenon DEF Panic
  <2>2. CASE ~Panic
    <3>. DEFINE p == IF Number[b] \in Sits THEN "delay" ELSE "failed"
    <3>1. p # "deliver"
      OBVIOUS
    <3>2. UNCHANGED decided /\ sealing' = [sealing EXCEPT ![b] = p]
      BY <1>3, <2>2, Zenon DEF NewTask
    <3>. HIDE DEF p
    <3>. QED  BY <1>2, <3>1, <3>2, Zenon
  <2>. QED  BY <2>1, <2>2
<1>4. ASSUME NEW b \in Block, SealDelay(b) \/ SealStop(b) \/ SealDeliver(b) \/ SealReturn(b)
      PROVE  DeliverInv'
  <2>1. \A p \in {"mutex", "return", "done"} : p # "deliver"
    OBVIOUS
  <2>2. /\ UNCHANGED decided
        /\ \E p \in {"mutex", "return", "done"} : sealing' = [sealing EXCEPT ![b] = p]
    BY <1>4, Zenon DEF SealDelay, SealStop, SealDeliver, SealReturn
  <2>. QED  BY <1>2, <2>1, <2>2, Zenon
<1>5. ASSUME NEW b \in Block, SealLock(b) PROVE DeliverInv'
  <2>1. "watch" # "deliver"
    OBVIOUS
  <2>2. UNCHANGED decided /\ (UNCHANGED sealing \/ sealing' = [sealing EXCEPT ![b] = "watch"])
    BY <1>5, Zenon DEF SealLock, Panic
  <2>. QED  BY <1>1, <1>2, <2>1, <2>2, Zenon
<1>6. ASSUME NEW b \in Block, SealReceive(b) PROVE DeliverInv'
  <2>1. UNCHANGED decided /\ commitCh # <<>>
    BY <1>6, Zenon DEF SealReceive
  <2>2. CASE commitCh[1] = b
    <3>1. Won(b)
      BY <1>0, <2>1, <2>2, Zenon
    <3>2. sealing' = [sealing EXCEPT ![b] = "deliver"]
      BY <1>6, <2>2, Zenon DEF SealReceive, TakesResult
    <3>. QED  BY <1>2, <2>1, <3>1, <3>2, Zenon
  <2>3. CASE commitCh[1] # b
    BY <1>0, <1>1, <1>6, <2>1, <2>3 DEF SealReceive, TakesResult
  <2>. QED  BY <2>2, <2>3
<1>7. ASSUME NEW h \in Seqs, NEW x \in Block \cup {Foreign}, Decide(h, x) PROVE DeliverInv'
  <2>1. /\ UNCHANGED sealing /\ decided[h] = None
        /\ \A i \in Seqs : i # h => decided'[i] = decided[i]
    BY <1>0, <1>7 DEF Decide
  <2>. QED  BY <2>1, SealNames DEF DeliverInv, Won
<1>8. CASE \/ Commit \/ CommitSend \/ NewSequence \/ TakeResult \/ WriteResult \/ ImportBlock
           \/ \E h \in Seqs : InsertEnqueued(h)
  BY <1>1, <1>8, Zenon
  DEF Commit, CommitSend, NewSequence, TakeResult, WriteResult, ImportBlock, InsertEnqueued
<1>9. CASE Miner
  BY <1>1, <1>9, Zenon DEF Miner, StopCore, StopWorker, StartWorker, StartCore
<1>10. CASE UNCHANGED vars
  BY <1>1, <1>10, Zenon DEF vars
<1>. QED
  BY <1>3, <1>4, <1>5, <1>6, <1>7, <1>8, <1>9, <1>10, Zenon DEF Next, Seal

\* Inv is inductive: one lemma per action.
LEMMA SealNext ==
    ASSUME Inv, DeliverInv, [Next]_vars
    PROVE  Inv'
<1>1. CASE Next
  BY <1>1, NewTaskInv, SealDelayInv, SealLockInv, SealReceiveInv, SealDeliverInv, SealStopInv,
     SealReturnInv, DecideInv, CommitInv, CommitSendInv, NewSequenceInv, TakeResultInv,
     WriteResultInv, InsertEnqueuedInv, ImportBlockInv, MinerInv, Zenon
  DEF Next, Seal, Blocks
<1>2. CASE UNCHANGED vars
  <2>1. /\ UNCHANGED <<taskVars, sealVars, minerVars>> /\ UNCHANGED <<coreVars, chain>>
        /\ UNCHANGED <<commitCh, resultCh, writing, sending, decided>>
    BY <1>2, Zenon DEF vars, coreVars, writeVars
  <2>. QED  BY <2>1, SealKept, ChannelKept, CoreKept, Zenon DEF Inv, TypeOK
<1>. QED  BY <1>1, <1>2, Zenon

\* Inv holds in every reachable state.
LEMMA SealInvariant ==
    Spec => [](Inv /\ DeliverInv)
BY SealInit, SealNext, DeliverNext, PTL DEF Spec

\* Only decided blocks are written, for every set of blocks, heights and bounds.
THEOREM SealWritesDecided ==
    Spec => []WritesDecided
<1>1. Inv => WritesDecided
  BY DEF Inv
<1>. QED  BY <1>1, SealInvariant, PTL

\* One goroutine at a time reads commitCh, and Commit compares with its block.
THEOREM SealOneWatcher ==
    Spec => []OneWatcher
<1>1. Inv => OneWatcher
  BY DEF Inv
<1>. QED  BY <1>1, SealInvariant, PTL

\* Every variable of the sealing keeps its type, the channels their room.
THEOREM SealTypeCorrect ==
    Spec => []TypeOK
<1>1. Inv => TypeOK
  BY DEF Inv
<1>. QED  BY <1>1, SealInvariant, PTL

-----------------------------------------------------------------------------
(* What is sent is watched.                                                *)

\* The task of b is over, or its block is past its goroutine.
Settled(b) == b \in stopped \/ PassedOn(b)

\* A block of a task extends the chain or is on it: taskLoop has had its parent.
Near(b) == Number[b] <= Height + 1

\* The block of a task, and what is passed on, builds on the chain ...
BegunInv == \A b \in Block :
    sealing[b] # "none" \/ writing = b \/ (\E i \in DOMAIN resultCh : resultCh[i] = b) => Near(b)

\* ... a goroutine returns because of its block or of a stop ...
ReturnInv == \A b \in Block : sealing[b] = "return" => Settled(b)

\* ... and what the core sends, or has sent, has its goroutine or is settled.
SentInv == \A b \in Block :
    sending = b \/ (commitCh # <<>> /\ commitCh[1] = b) => sealing[b] = "watch" \/ Settled(b)

WatchInv == BegunInv /\ ReturnInv /\ SentInv

\* How a step may change the goroutines: a watching one goes on to return, and only
\* with its block taken and in resultCh or after a stop ...
GoroutinesMove ==
    /\ stopped \subseteq stopped'
    /\ \A b \in Block :
          /\ sealing[b] = "watch" => sealing'[b] \in {"watch", "deliver", "return"}
          /\ sealing[b] = "deliver" =>
                sealing'[b] = "deliver" \/ \E i \in DOMAIN resultCh' : resultCh'[i] = b
          /\ sealing'[b] = "return" =>
                \/ sealing[b] = "return" \/ b \in stopped
                \/ \E i \in DOMAIN resultCh' : resultCh'[i] = b
          /\ sealing'[b] # "none" => sealing[b] # "none" \/ Near(b)

\* ... resultCh: what enters comes from a delivering goroutine, and what leaves is nil, on
\* the chain or written next ...
QueueMoves ==
    /\ \A i \in DOMAIN resultCh :
          \/ \E j \in DOMAIN resultCh' : resultCh'[j] = resultCh[i]
          \/ resultCh[i] \in {None, writing'}
          \/ \E h \in DOMAIN chain : chain[h] = resultCh[i]
    /\ \A j \in DOMAIN resultCh' :
          \/ \E i \in DOMAIN resultCh : resultCh'[j] = resultCh[i]
          \/ resultCh'[j] = None \/ sealing[resultCh'[j]] = "deliver"
    /\ writing' \in {writing, None} \/ \E i \in DOMAIN resultCh : writing' = resultCh[i]

\* ... the chain, which only grows, and gets the block that resultLoop writes ...
ChainMoves ==
    /\ Height <= Height'
    /\ \A h \in DOMAIN chain : h \in DOMAIN chain' /\ chain'[h] = chain[h]
    /\ writing # None => writing' = writing \/ \E h \in DOMAIN chain' : chain'[h] = writing

\* ... and what Commit sends.
SendingMoves ==
    /\ sending' \in {sending, None} \/ (sending' = proposedBlockHash /\ sending' # None)
    /\ commitCh' \in {commitCh, <<>>} \/ (commitCh' = <<sending>> /\ sending # None)

AllMove == GoroutinesMove /\ QueueMoves /\ ChainMoves /\ SendingMoves

\* A settled block stays so.
LEMMA SettledStays ==
    ASSUME Inv, AllMove, NEW b \in Block, Settled(b)
    PROVE  Settled(b)'
<1>1. b # None
  BY SealNames
<1>2. CASE b \in stopped
  BY <1>2, Zenon DEF AllMove, GoroutinesMove, Settled
<1>3. CASE \E h \in DOMAIN chain : chain[h] = b
  BY <1>3, Zenon DEF AllMove, ChainMoves, Settled, PassedOn
<1>4. CASE writing = b
  BY <1>1, <1>4, Zenon DEF AllMove, ChainMoves, Settled, PassedOn
<1>5. CASE \E i \in DOMAIN resultCh : resultCh[i] = b
  <2>1. \/ \E j \in DOMAIN resultCh' : resultCh'[j] = b
        \/ b \in {None, writing'} \/ \E h \in DOMAIN chain : chain[h] = b
    BY <1>5, Zenon DEF AllMove, QueueMoves
  <2>. QED  BY <1>1, <1>3, <2>1, Zenon DEF Settled, PassedOn
<1>6. CASE sealing[b] = "deliver"
  BY <1>6, Zenon DEF AllMove, GoroutinesMove, Settled, PassedOn
<1>. QED  BY <1>2, <1>3, <1>4, <1>5, <1>6, Zenon DEF Settled, PassedOn

\* Steps that move so keep what is sent watched.
LEMMA WatchKept ==
    ASSUME Inv, WatchInv, AllMove, Inv'
    PROVE  WatchInv'
<1>0. /\ SealTypes /\ ChannelTypes /\ CoreTypes /\ ChainTypes /\ Number \in [Block -> Nat \ {0}]
      /\ SealTypes' /\ ChannelTypes' /\ CoreTypes' /\ ChainTypes'
  BY SealBounds, Zenon DEF Inv, TypeOK
<1>1. \A b \in Block : Near(b) => Near(b)'
  BY <1>0 DEF Near, AllMove, ChainMoves, ChainTypes, Height
<1>2. BegunInv'
  <2>. SUFFICES ASSUME NEW b \in Block,
                       \/ sealing'[b] # "none" \/ writing' = b
                       \/ \E i \in DOMAIN resultCh' : resultCh'[i] = b
                PROVE  Near(b)'
    BY Zenon DEF BegunInv
  <2>1. b # None
    BY SealNames
  <2>2. sealing[b] = "deliver" => sealing[b] # "none"
    OBVIOUS
  <2>3. \/ sealing[b] # "none" \/ Near(b) \/ writing = b
        \/ \E i \in DOMAIN resultCh : resultCh[i] = b
    <3>1. CASE sealing'[b] # "none"
      BY <3>1, Zenon DEF AllMove, GoroutinesMove
    <3>2. CASE writing' = b
      BY <2>1, <3>2, Zenon DEF AllMove, QueueMoves
    <3>3. CASE \E i \in DOMAIN resultCh' : resultCh'[i] = b
      BY <2>1, <2>2, <3>3, Zenon DEF AllMove, QueueMoves
    <3>. QED  BY <3>1, <3>2, <3>3, Zenon
  <2>. QED  BY <1>1, <2>3, Zenon DEF WatchInv, BegunInv
<1>5. ReturnInv'
  <2>. SUFFICES ASSUME NEW b \in Block, sealing'[b] = "return" PROVE Settled(b)'
    BY DEF ReturnInv
  <2>1. sealing[b] = "return" \/ b \in stopped => Settled(b)'
    BY SettledStays, Zenon DEF WatchInv, ReturnInv, Settled
  <2>. QED  BY <2>1, Zenon DEF AllMove, GoroutinesMove, Settled, PassedOn
<1>6. ASSUME NEW b \in Block, sealing[b] = "watch" \/ Settled(b)
      PROVE  sealing'[b] = "watch" \/ Settled(b)'
  BY <1>5, <1>6, SettledStays, Zenon
  DEF ReturnInv, AllMove, GoroutinesMove, Settled, PassedOn
<1>7. \A b \in Block : proposedBlockHash = b => sealing[b] = "watch" \/ Settled(b)
  <2>. SUFFICES ASSUME NEW b \in Block, proposedBlockHash = b
                PROVE  sealing[b] = "watch" \/ Settled(b)
    OBVIOUS
  <2>1. b # None
    BY SealNames
  <2>2. sealing[b] \in {"watch", "deliver", "return"}
    BY <2>1, Zenon DEF Inv, OneWatcher, MutexInv
  <2>. QED  BY <2>2, Zenon DEF WatchInv, ReturnInv, Settled, PassedOn
<1>8. SentInv'
  <2>. SUFFICES ASSUME NEW b \in Block, sending' = b \/ (commitCh' # <<>> /\ commitCh'[1] = b)
                PROVE  sealing'[b] = "watch" \/ Settled(b)'
    BY Zenon DEF SentInv
  <2>1. b # None
    BY SealNames
  <2>2. commitCh' = <<sending>> => commitCh'[1] = sending
    OBVIOUS
  <2>3. \/ sending = b \/ proposedBlockHash = b
        \/ commitCh # <<>> /\ commitCh[1] = b
    BY <2>1, <2>2, Zenon DEF AllMove, SendingMoves
  <2>. QED  BY <1>6, <1>7, <2>3, Zenon DEF WatchInv, SentInv
<1>. QED  BY <1>2, <1>5, <1>8, Zenon DEF WatchInv

\* What a step that leaves a part alone does to it.
LEMMA Stills ==
    ASSUME Inv
    PROVE  /\ UNCHANGED <<stopped, sealing>> => GoroutinesMove
           /\ UNCHANGED <<resultCh, writing>> => QueueMoves
           /\ UNCHANGED <<chain, writing>> => ChainMoves
           /\ UNCHANGED <<sending, commitCh>> => SendingMoves
<1>1. UNCHANGED <<stopped, sealing>> => GoroutinesMove
  BY Zenon DEF GoroutinesMove
<1>2. UNCHANGED <<resultCh, writing>> => QueueMoves
  BY Zenon DEF QueueMoves
<1>3. UNCHANGED <<chain, writing>> => ChainMoves
  BY DEF ChainMoves, Height, Inv, TypeOK, ChainTypes
<1>4. UNCHANGED <<sending, commitCh>> => SendingMoves
  BY Zenon DEF SendingMoves
<1>. QED  BY <1>1, <1>2, <1>3, <1>4

\* results <- block: nil, or the block of a delivering goroutine.
LEMMA ResultsMoves ==
    ASSUME Inv, NEW x, x = None \/ sealing[x] = "deliver", Results(x), UNCHANGED writing
    PROVE  QueueMoves /\ \E i \in DOMAIN resultCh' : resultCh'[i] = x
<1>1. resultCh \in Seq(Block \cup {None}) /\ resultCh' = Append(resultCh, x)
  BY DEF Inv, TypeOK, ChannelTypes, Results
<1>2. \A i \in DOMAIN resultCh : i \in DOMAIN resultCh' /\ resultCh'[i] = resultCh[i]
  BY <1>1
<1>3. \A j \in DOMAIN resultCh' : j \in DOMAIN resultCh \/ resultCh'[j] = x
  BY <1>1
<1>4. Len(resultCh) + 1 \in DOMAIN resultCh' /\ resultCh'[Len(resultCh) + 1] = x
  BY <1>1
<1>. QED  BY <1>2, <1>3, <1>4, Zenon DEF QueueMoves

\* A goroutine takes its block or is stopped, delivers it, and returns.
LEMMA GoroutineMoves ==
    ASSUME Inv, NEW b \in Block, NEW p, sealing' = [sealing EXCEPT ![b] = p], UNCHANGED stopped,
           sealing[b] # "none" \/ Near(b), sealing[b] = "watch" => p \in {"deliver", "return"},
           sealing[b] = "deliver" => \E i \in DOMAIN resultCh' : resultCh'[i] = b,
           p = "return" => b \in stopped \/ \E i \in DOMAIN resultCh' : resultCh'[i] = b
    PROVE  GoroutinesMove
<1>1. /\ sealing'[b] = p
      /\ \A c \in Block : c # b => sealing'[c] = sealing[c]
  BY DEF Inv, TypeOK, SealTypes
<1>. QED  BY <1>1, Zenon DEF GoroutinesMove

\* The chain grows by a decided block or not at all.
LEMMA ExtendsMoves ==
    ASSUME Inv, NEW h \in Seqs, NEW x, Extends(h, x), x = decided[h]
    PROVE  /\ Height <= Height'
           /\ \A i \in DOMAIN chain : i \in DOMAIN chain' /\ chain'[i] = chain[i]
           /\ h = Height + 1 => \E i \in DOMAIN chain' : chain'[i] = x
<1>0. chain \in Seq(Blocks) /\ ChainTypes /\ WritesDecided /\ h \in Nat
  BY DEF Inv, TypeOK, ChainTypes, Seqs
<1>1. chain' = IF h = Len(chain) + 1 THEN Append(chain, x) ELSE chain
  BY <1>0, SameHead DEF Extends, Height
<1>2. CASE h = Len(chain) + 1
  <2>1. chain' = Append(chain, x)
    BY <1>1, <1>2
  <2>2. /\ Len(chain') = Len(chain) + 1 /\ Len(chain) \in Nat
        /\ \A i \in DOMAIN chain : i \in DOMAIN chain' /\ chain'[i] = chain[i]
        /\ h \in DOMAIN chain' /\ chain'[h] = x
    BY <1>0, <1>2, <2>1
  <2>. QED  BY <2>2 DEF Height
<1>3. CASE h # Len(chain) + 1
  BY <1>0, <1>1, <1>3 DEF Height
<1>. QED  BY <1>2, <1>3

\* resultLoop takes what is nil, on the chain already, or written next.
LEMMA TakeResultMoves ==
    ASSUME Inv, TakeResult
    PROVE  QueueMoves /\ ChainMoves
<1>. DEFINE b == Head(resultCh)
            hasBlock == Number[b] <= Height /\ chain[Number[b]] = b
<1>1. /\ resultCh \in Seq(Block \cup {None}) /\ chain \in Seq(Blocks) /\ resultCh # <<>>
      /\ resultCh' = Tail(resultCh) /\ writing = None /\ UNCHANGED chain
      /\ writing' \in IF b = None \/ hasBlock THEN {None}
                      ELSE IF Forgotten(b) THEN {None, b} ELSE {b}
  BY DEF Inv, TypeOK, ChannelTypes, ChainTypes, TakeResult
<1>2. 1 \in DOMAIN resultCh /\ b = resultCh[1] /\ b \in Block \cup {None}
  BY <1>1
<1>3. /\ \A i \in DOMAIN resultCh :
            i = 1 \/ (i - 1 \in DOMAIN resultCh' /\ resultCh'[i - 1] = resultCh[i])
      /\ \A j \in DOMAIN resultCh' : j + 1 \in DOMAIN resultCh /\ resultCh'[j] = resultCh[j + 1]
  BY <1>1
<1>5. b \in {None, writing'} \/ \E h \in DOMAIN chain : chain[h] = b
  <2>1. CASE b \in Block /\ Number[b] <= Height
    <3>1. Won(b)
      BY <1>2, <2>1, SealNames, Zenon DEF Inv, Delivered
    <3>2. Number[b] \in DOMAIN chain
      BY <1>1, <2>1, SealBounds DEF Height
    <3>. QED  BY <3>1, <3>2, Zenon DEF Inv, WritesDecided, Won
  <2>2. CASE b \in Block /\ ~(Number[b] <= Height)
    <3>1. b # None /\ ~hasBlock /\ ~Forgotten(b)
      BY <1>1, <2>2, SealBounds, SealNames DEF Height, Forgotten
    <3>. QED  BY <1>1, <3>1, Zenon
  <2>. QED  BY <1>2, <2>1, <2>2, Zenon
<1>6. writing' = None \/ writing' = b
  BY <1>1, Zenon
<1>7. QueueMoves
  BY <1>2, <1>3, <1>5, <1>6, Zenon DEF QueueMoves
<1>8. ChainMoves
  BY <1>1 DEF ChainMoves, Height
<1>. QED  BY <1>7, <1>8

\* What resultLoop writes is on the chain afterwards, as head or because it was there.
LEMMA WriteResultMoves ==
    ASSUME Inv, WatchInv, WriteResult
    PROVE  QueueMoves /\ ChainMoves
<1>1. /\ writing \in Block /\ writing' = None /\ UNCHANGED resultCh
      /\ Extends(Number[writing], writing) /\ Height \in Nat /\ Number[writing] \in Nat \ {0}
      /\ DOMAIN chain = 1 .. Height
  BY SealBounds DEF WriteResult, Inv, TypeOK, ChannelTypes, ChainTypes, Height
<1>2. Number[writing] <= Height + 1
  BY <1>1, Zenon DEF WatchInv, BegunInv, Near
<1>3. Number[writing] \in Seqs /\ decided[Number[writing]] = writing
  BY SealNames, <1>1, Zenon DEF Inv, Delivered, Won
<1>4. /\ Height <= Height'
      /\ \A i \in DOMAIN chain : i \in DOMAIN chain' /\ chain'[i] = chain[i]
      /\ Number[writing] = Height + 1 => \E i \in DOMAIN chain' : chain'[i] = writing
  BY <1>1, <1>3, ExtendsMoves
<1>5. Number[writing] # Height + 1 => Number[writing] \in DOMAIN chain
  BY <1>1, <1>2
<1>6. \E i \in DOMAIN chain' : chain'[i] = writing
  BY <1>3, <1>4, <1>5, Zenon DEF Inv, WritesDecided
<1>7. ChainMoves
  BY <1>4, <1>6, Zenon DEF ChainMoves
<1>8. QueueMoves
  BY <1>1, Zenon DEF QueueMoves
<1>. QED  BY <1>7, <1>8

\* Every step moves so.
LEMMA StepsMove ==
    ASSUME Inv, WatchInv, [Next]_vars
    PROVE  AllMove
<1>. USE DEF taskVars, sealVars, coreVars, writeVars, minerVars
<1>1. ASSUME NEW b \in Block, NewTask(b) PROVE AllMove
  <2>1. QueueMoves /\ ChainMoves /\ SendingMoves
    BY <1>1, Stills, Zenon DEF NewTask, Panic
  <2>2. CASE Panic
    BY <2>1, <2>2, Stills, Zenon DEF Panic, AllMove
  <2>3. CASE ~Panic
    <3>1. /\ Number[b] <= Height + 1 /\ stopped \subseteq stopped' /\ sealing[b] = "none"
          /\ sealing' = [sealing EXCEPT ![b] = IF Number[b] \in Sits THEN "delay" ELSE "failed"]
      BY <1>1, <2>3 DEF NewTask, Interrupt
    <3>2. /\ \A c \in Block : c # b => sealing'[c] = sealing[c]
          /\ sealing'[b] # "return"
      BY <3>1 DEF Inv, TypeOK, SealTypes
    <3>3. sealing[b] # "watch" /\ sealing[b] # "deliver"
      BY <3>1
    <3>4. GoroutinesMove
      BY <3>1, <3>2, <3>3, Zenon DEF GoroutinesMove, Near
    <3>. QED  BY <2>1, <3>4 DEF AllMove
  <2>. QED  BY <2>2, <2>3
<1>2. ASSUME NEW b \in Block, SealDelay(b) PROVE AllMove
  <2>1. sealing[b] # "none" /\ sealing[b] # "watch" /\ sealing[b] # "deliver"
    BY <1>2 DEF SealDelay
  <2>2. /\ \/ sealing' = [sealing EXCEPT ![b] = "mutex"] /\ UNCHANGED resultCh
           \/ Results(None) /\ sealing' = [sealing EXCEPT ![b] = "done"]
        /\ UNCHANGED <<stopped, writing, chain, sending, commitCh>>
    BY <1>2, Zenon DEF SealDelay
  <2>3. "mutex" # "return" /\ "done" # "return"
    OBVIOUS
  <2>4. GoroutinesMove
    BY <2>1, <2>2, <2>3, GoroutineMoves, Zenon
  <2>. QED  BY <2>2, <2>4, Stills, ResultsMoves, Zenon DEF AllMove
<1>3. ASSUME NEW b \in Block, SealLock(b) PROVE AllMove
  <2>1. /\ sealing[b] # "none" /\ sealing[b] # "watch" /\ sealing[b] # "deliver"
        /\ "watch" # "return"
    BY <1>3 DEF SealLock
  <2>2. /\ \/ sealing' = [sealing EXCEPT ![b] = "watch"] \/ UNCHANGED sealing
        /\ UNCHANGED <<stopped, resultCh, writing, chain, sending, commitCh>>
    BY <1>3, Zenon DEF SealLock, Panic
  <2>3. GoroutinesMove
    BY <2>1, <2>2, GoroutineMoves, Stills, Zenon
  <2>. QED  BY <2>2, <2>3, Stills, Zenon DEF AllMove
<1>4. ASSUME NEW b \in Block, SealReceive(b) PROVE AllMove
  <2>1. /\ sealing[b] = "watch" /\ sealing[b] # "none" /\ sealing[b] # "deliver"
        /\ "deliver" # "return" /\ commitCh' = <<>>
        /\ UNCHANGED <<stopped, resultCh, writing, chain, sending>>
    BY <1>4 DEF SealReceive, TakesResult
  <2>2. sealing' = [sealing EXCEPT ![b] = "deliver"] \/ UNCHANGED sealing
    BY <1>4 DEF SealReceive, TakesResult, Inv, TypeOK, SealTypes
  <2>3. SendingMoves
    BY <2>1, Zenon DEF SendingMoves
  <2>4. GoroutinesMove
    BY <2>1, <2>2, GoroutineMoves, Stills, Zenon
  <2>. QED  BY <2>1, <2>3, <2>4, Stills, Zenon DEF AllMove
<1>14. ASSUME NEW b \in Block, SealDeliver(b) PROVE AllMove
  <2>1. /\ sealing[b] = "deliver" /\ sealing[b] # "none" /\ sealing[b] # "watch" /\ Results(b)
        /\ sealing' = [sealing EXCEPT ![b] = "return"]
        /\ UNCHANGED <<stopped, writing, chain, sending, commitCh>>
    BY <1>14 DEF SealDeliver
  <2>2. QueueMoves /\ \E i \in DOMAIN resultCh' : resultCh'[i] = b
    BY <2>1, ResultsMoves, Zenon
  <2>3. GoroutinesMove
    BY <2>1, <2>2, GoroutineMoves, Zenon
  <2>. QED  BY <2>1, <2>2, <2>3, Stills, Zenon DEF AllMove
<1>5. ASSUME NEW b \in Block, SealStop(b) PROVE AllMove
  <2>1. /\ sealing[b] # "none" /\ sealing[b] # "deliver" /\ b \in stopped /\ Results(None)
        /\ sealing' = [sealing EXCEPT ![b] = "return"]
        /\ UNCHANGED <<stopped, writing, chain, sending, commitCh>>
    BY <1>5 DEF SealStop
  <2>2. GoroutinesMove
    BY <2>1, GoroutineMoves, Zenon
  <2>. QED  BY <2>1, <2>2, ResultsMoves, Stills, Zenon DEF AllMove
<1>6. ASSUME NEW b \in Block, SealReturn(b) PROVE AllMove
  <2>1. /\ sealing[b] # "none" /\ sealing[b] # "watch" /\ sealing[b] # "deliver"
        /\ "done" # "return"
        /\ sealing' = [sealing EXCEPT ![b] = "done"]
        /\ UNCHANGED <<stopped, resultCh, writing, chain, sending, commitCh>>
    BY <1>6 DEF SealReturn
  <2>2. GoroutinesMove
    BY <2>1, GoroutineMoves, Zenon
  <2>. QED  BY <2>1, <2>2, Stills, Zenon DEF AllMove
<1>7. CASE Commit
  <2>1. SendingMoves
    <3>1. /\ UNCHANGED commitCh /\ decided[seq] # None
          /\ UNCHANGED sending \/ (sending' = decided[seq] /\ proposedBlockHash = decided[seq])
      BY <1>7, Zenon DEF Commit
    <3>. QED  BY <3>1, Zenon DEF SendingMoves
  <2>. QED  BY <1>7, <2>1, Stills, Zenon DEF Commit, AllMove
<1>8. CASE CommitSend
  <2>1. SendingMoves
    BY <1>8, Zenon DEF CommitSend, SendingMoves
  <2>. QED  BY <1>8, <2>1, Stills, Zenon DEF CommitSend, AllMove
<1>9. CASE TakeResult
  BY <1>9, TakeResultMoves, Stills, Zenon DEF TakeResult, AllMove
<1>10. CASE WriteResult
  BY <1>10, WriteResultMoves, Stills, Zenon DEF WriteResult, AllMove
<1>11. CASE ImportBlock \/ \E h \in Seqs : InsertEnqueued(h)
  <2>1. /\ \E h \in Seqs : Extends(h, decided[h])
        /\ UNCHANGED <<stopped, sealing, resultCh, writing, sending, commitCh>>
    BY <1>11, Zenon DEF ImportBlock, InsertEnqueued
  <2>2. ChainMoves
    BY <2>1, ExtendsMoves, Zenon DEF ChainMoves
  <2>. QED  BY <2>1, <2>2, Stills, Zenon DEF AllMove
<1>12. CASE Miner
  <2>1. SendingMoves
    BY <1>12, Zenon DEF Miner, StopCore, StopWorker, StartWorker, StartCore, SendingMoves
  <2>. QED
    BY <1>12, <2>1, Stills, Zenon DEF Miner, StopCore, StopWorker, StartWorker, StartCore, AllMove
<1>13. CASE NewSequence \/ (\E h \in Seqs, b \in Block \cup {Foreign} : Decide(h, b))
            \/ UNCHANGED vars
  BY <1>13, Stills, Zenon DEF NewSequence, Decide, vars, AllMove
<1>. QED
  BY <1>1, <1>2, <1>3, <1>4, <1>14, <1>5, <1>6, <1>7, <1>8, <1>9, <1>10, <1>11, <1>12, <1>13,
     Zenon
  DEF Next, Seal

\* Commit's "is being watched" holds until the task is stopped or its block is on its way,
\* for every set of blocks and all bounds, although Commit reads the hash without sealMu.
THEOREM SealWatched ==
    Spec => []Watched
<1>1. Init => WatchInv
  BY SealNames DEF Init, WatchInv, BegunInv, ReturnInv, SentInv
<1>2. Inv /\ DeliverInv /\ WatchInv /\ [Next]_vars => WatchInv'
  BY SealNext, StepsMove, WatchKept
<1>3. Inv /\ WatchInv => Watched
  <2>. SUFFICES ASSUME Inv, WatchInv, NEW i \in DOMAIN commitCh
                PROVE  \/ sealing[commitCh[i]] = "watch" \/ commitCh[i] \in stopped
                       \/ PassedOn(commitCh[i])
    BY Zenon DEF Watched
  <2>1. i = 1 /\ commitCh # <<>> /\ commitCh[1] \in Block
    BY DEF Inv, TypeOK, ChannelTypes
  <2>. QED  BY <2>1, Zenon DEF WatchInv, SentInv, Settled
<1>. QED  BY <1>1, <1>2, <1>3, SealInvariant, PTL DEF Spec
=============================================================================
