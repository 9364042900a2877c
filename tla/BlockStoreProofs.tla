-------------------------- MODULE BlockStoreProofs --------------------------
(***************************************************************************)
(* What a node finds again after crashes and stops (BlockStore), for every *)
(* length of the chain, number of states kept in memory and of crashes:    *)
(* the state of the current block survives the garbage collection, a stop  *)
(* keeps the head, and the head of a full node has its lists.              *)
(***************************************************************************)
EXTENDS BlockStore, WellFoundedInduction, TLAPS

\* The states in memory and on disk.  While a block above the current one is written, its
\* own state may have displaced that of the current one.
StateInv ==
    /\ Genesis \in flushed
    /\ Archive => cached = {}
    /\ step >= 2 => writing # 0 /\ HasState(writing)
    /\ Up => HasState(current) \/ (writing > current /\ step >= 2)

\* The marker on disk follows the current block, except over the head of a
\* synchronisation, which an empty node puts in memory only.
MarkerInv ==
    /\ head = current \/ head = Genesis
    /\ phase = "stopped" => head \in flushed

Inv == TypeOK /\ StateInv /\ MarkerInv

\* The block has its lists, or it came with a synchronisation.
Whole(b) == pools[b] = Pools \/ b \in pivots

\* A full node has lists for every block whose state it has, but the one it is writing.
ListsInv ==
    /\ HeadComplete /\ pools[Genesis] = Pools
    /\ \A b \in flushed : Whole(b)
    /\ \A b \in cached : Whole(b) \/ (b = writing /\ step >= 2)
    /\ \A i \in 1 .. step - 2 : PoolOrder[i] \in pools[writing]

-----------------------------------------------------------------------------
(* Types.                                                                  *)

\* There are seven lists.
LEMMA SevenPools ==
    /\ Len(PoolOrder) = 7
    /\ Pools = {PoolOrder[i] : i \in 1 .. 7}
    /\ \A i \in 1 .. 7 : PoolOrder[i] \in Pools
<1>1. Len(PoolOrder) = 7 /\ DOMAIN PoolOrder = 1 .. 7
  BY DEF PoolOrder
<1>. QED  BY <1>1, Zenon DEF Pools

\* A set of numbers up to a bound has a greatest one.
LEMMA MaxIn ==
    ASSUME NEW S \in SUBSET Nat, S # {}, NEW m \in Nat, \A x \in S : x <= m
    PROVE  Max(S) \in S /\ \A x \in S : x <= Max(S)
<1>1. \E x \in S : \A y \in S : x >= y
  <2>. DEFINE T == {m - x : x \in S}
  <2>1. T \subseteq Nat
    BY \A x \in S : m - x \in Nat
  <2>2. T # {}
    OBVIOUS
  <2>3. PICK t \in T : \A u \in T : <<u, t>> \notin OpToRel(<, Nat)
    BY <2>1, <2>2, NatLessThanWellFounded, WFMin, Zenon
  <2>4. \A u \in T : ~ (u < t)
    BY <2>1, <2>3, Zenon DEF OpToRel
  <2>5. PICK x \in S : t = m - x
    OBVIOUS
  <2>6. \A y \in S : m - y \in T
    OBVIOUS
  <2>. HIDE DEF T
  <2>. QED  BY <2>4, <2>5, <2>6
<1>2. Max(S) = CHOOSE x \in S : \A y \in S : x >= y
  BY DEF Max
<1>. QED  BY <1>1, <1>2, Zenon

\* The ancestors that insertSideChain executes first are blocks.
LEMMA PrunedTodo ==
    ASSUME Inv, NEW b \in Block, Pruned(b)
    PROVE  todo' \in Seq(Block)
<1>. DEFINE S == {a \in 0 .. b - 1 : HasState(a)}
            m == Max(S)
<1>1. b \in Nat \ {0} /\ b <= MaxBlock /\ MaxBlock \in Nat
  BY StoreBounds DEF Block
<1>2. S \in SUBSET Nat /\ S # {} /\ \A x \in S : x <= b
  <2>1. 0 \in S
    BY <1>1 DEF Inv, StateInv, HasState, Genesis
  <2>. QED  BY <1>1, <2>1
<1>3. m \in 0 .. b - 1
  <2>1. m \in S
    BY <1>1, <1>2, MaxIn, Zenon
  <2>. QED  BY <2>1
<1>4. todo' = IF current > b THEN <<>> ELSE [i \in 1 .. b - m |-> m + i]
  BY DEF Pruned
<1>. HIDE DEF m
<1>5. [i \in 1 .. b - m |-> m + i] \in Seq(Block)
  <2>1. b - m \in Nat /\ \A i \in 1 .. b - m : m + i \in Block
    BY <1>1, <1>3 DEF Block
  <2>. QED  BY <2>1
<1>. QED  BY <1>4, <1>5

\* The lists and the bounds of TypeOK.
LEMMA Types ==
    ASSUME Inv
    PROVE  /\ MaxBlock \in Nat \ {0} /\ TriesInMemory \in Nat \ {0} /\ Archive \in BOOLEAN
           /\ current \in 0 .. MaxBlock /\ head \in 0 .. MaxBlock /\ {Genesis} \cup Block = 0 .. MaxBlock
           /\ step \in 0 .. 9 /\ sealed \in 0 .. MaxBlock /\ writing \in 0 .. MaxBlock
<1>1. {Genesis} \cup Block = 0 .. MaxBlock
  BY StoreBounds DEF Genesis, Block
<1>. QED  BY <1>1, StoreBounds, SevenPools DEF Inv, TypeOK

\* Losing the memory keeps the types.
LEMMA LoseMemoryTypes ==
    ASSUME Inv, LoseMemory, phase' \in {"stopped", "down"},
           bodies' \subseteq Block, flushed' \subseteq {Genesis} \cup Block,
           UNCHANGED <<pools, head, pivots>>, crashes' \in 0 .. MaxCrashes, stops' \in 0 .. MaxStops
    PROVE  TypeOK'
BY Types, SMTT(30) DEF Inv, TypeOK, LoseMemory, Up

\* An import.
LEMMA ImportTypes ==
    ASSUME Inv, NEW b \in Block, Import(b)
    PROVE  TypeOK'
<1>1. CASE SkipKnown(b)
  BY <1>1, Types DEF Import, SkipKnown, Inv, TypeOK, Up, Free
<1>2. CASE Executable(b)
  BY <1>2 DEF Import, Executable, Inv, TypeOK, Up, Free, disk
<1>3. CASE Pruned(b)
  BY <1>3, PrunedTodo DEF Import, Pruned, Inv, TypeOK, Up, Free
<1>. QED  BY <1>1, <1>2, <1>3 DEF Import

\* The execution of a block.
LEMMA ExecuteTypes ==
    ASSUME Inv, Execute
    PROVE  TypeOK'
<1>. DEFINE b == Head(todo)
<1>1. b \in Block /\ Tail(todo) \in Seq(Block)
  BY DEF Execute, Inv, TypeOK
<1>2. UNCHANGED <<pivots, crashes, stops>>
  BY Zenon DEF Execute
<1>3. CASE todo' = <<>> /\ UNCHANGED <<disk, cached, current, sealed, writing, step, phase>>
  BY <1>2, <1>3 DEF Inv, TypeOK, Up, disk
<1>4. CASE LoseMemory /\ phase' = "down" /\ UNCHANGED disk
  BY <1>2, <1>4, LoseMemoryTypes DEF Inv, TypeOK, disk
<1>5. CASE /\ writing' = b /\ step' = 0 /\ todo' = Tail(todo)
           /\ UNCHANGED <<disk, cached, current, sealed, phase>>
  <2>1. writing' \in 0 .. MaxBlock /\ step' \in 0 .. Len(PoolOrder) + 2 /\ todo' \in Seq(Block)
    BY <1>1, <1>5, SevenPools DEF Block
  <2>. QED  BY <1>2, <1>5, <2>1, SMTT(30) DEF Inv, TypeOK, Up, disk
<1>. QED  BY <1>3, <1>4, <1>5, Zenon DEF Execute

\* Between two blocks: the miner's block, a synchronisation, stop, crash and restart.
LEMMA BetweenTypes ==
    ASSUME Inv, Sealed \/ WriteSealed \/ Stop \/ Crash \/ Restart
                \/ \E b \in Block : FastSyncCommitHead(b)
    PROVE  TypeOK'
<1>1. CASE Sealed
  <2>1. CASE sealed' = current + 1 /\ UNCHANGED <<cached, current, todo, writing, step, phase>>
    BY <1>1, <2>1, Types, Zenon DEF Sealed, Inv, TypeOK, Up, disk, Block
  <2>2. CASE LoseMemory /\ phase' = "down"
    BY <1>1, <2>2, LoseMemoryTypes DEF Sealed, Inv, TypeOK, disk
  <2>. QED  BY <1>1, <2>1, <2>2, Zenon DEF Sealed
<1>2. CASE WriteSealed
  BY <1>2, Types, SevenPools, SMTT(30) DEF WriteSealed, Inv, TypeOK, Up, disk
<1>3. CASE Stop
  <2>1. flushed' \subseteq flushed \cup cached
    BY <1>3, Zenon DEF Stop
  <2>2. flushed' \subseteq {Genesis} \cup Block
    BY <2>1 DEF Inv, TypeOK
  <2>3. stops' \in 0 .. MaxStops
    BY <1>3, StoreBounds DEF Stop, Inv, TypeOK
  <2>. QED  BY <1>3, <2>2, <2>3, LoseMemoryTypes, SMTT(30) DEF Stop, Inv, TypeOK
<1>4. CASE Crash
  <2>1. crashes' \in 0 .. MaxCrashes
    BY <1>4, StoreBounds DEF Crash, Inv, TypeOK
  <2>. QED  BY <1>4, <2>1, LoseMemoryTypes DEF Crash, Inv, TypeOK, disk
<1>5. CASE Restart
  <2>1. PICK b \in (IF head \in flushed THEN {head} ELSE Rewound) : head' = b /\ current' = b
    BY <1>5 DEF Restart
  <2>2. b \in flushed
    BY DEF Rewound
  <2>. QED  BY <1>5, <2>1, <2>2 DEF Restart, Inv, TypeOK, Up
<1>6. ASSUME NEW b \in Block, FastSyncCommitHead(b) PROVE TypeOK'
  <2>1. 1 .. b \subseteq Block
    BY StoreBounds DEF Block
  <2>. QED  BY <1>6, <2>1 DEF FastSyncCommitHead, Inv, TypeOK, Up, Free
<1>. QED  BY <1>1, <1>2, <1>3, <1>4, <1>5, <1>6

\* The steps of writeBlockWithState.
LEMMA WriteTypes ==
    ASSUME Inv, Write
    PROVE  TypeOK'
<1>1. CASE WriteBlock
  <2>1. writing \in Block /\ 1 \in 0 .. Len(PoolOrder) + 2
    BY <1>1, Types, SevenPools DEF WriteBlock, Block
  <2>2. bodies' \subseteq Block
    BY <1>1, <2>1 DEF WriteBlock, Inv, TypeOK
  <2>. QED  BY <1>1, <2>1, <2>2 DEF WriteBlock, Inv, TypeOK, Up
<1>2. CASE CommitState
  <2>1. writing \in Block /\ 2 \in 0 .. Len(PoolOrder) + 2
    BY <1>2, Types, SevenPools DEF CommitState, Block
  <2>2. cached' \subseteq cached \cup {writing} /\ flushed' \subseteq flushed \cup cached \cup {writing}
    BY <1>2, <2>1 DEF CommitState
  <2>3. cached' \subseteq Block /\ flushed' \subseteq {Genesis} \cup Block
    BY <2>1, <2>2, Zenon DEF Inv, TypeOK
  <2>. QED  BY <1>2, <2>1, <2>3 DEF CommitState, Inv, TypeOK, Up
<1>3. CASE WritePool
  <2>. DEFINE pool == PoolOrder[step - 1]
  <2>1. step - 1 \in 1 .. 7 /\ step' \in {0, step + 1} /\ step + 1 \in 0 .. Len(PoolOrder) + 2
    BY <1>3, Types, SevenPools, SMTT(30) DEF WritePool, LoseMemory
  <2>2. pool \in Pools
    BY <2>1, SevenPools
  <2>. HIDE DEF pool
  <2>3. CASE LoseMemory /\ phase' = "down" /\ UNCHANGED pools
    BY <1>3, <2>3, LoseMemoryTypes, SMTT(30) DEF WritePool, Inv, TypeOK
  <2>4. CASE /\ pools' = [pools EXCEPT ![writing] = @ \cup {pool}] /\ step' = step + 1
             /\ UNCHANGED <<cached, current, todo, sealed, writing, phase>>
    <3>1. pools' \in [{Genesis} \cup Block -> SUBSET Pools]
      BY <2>2, <2>4, Zenon DEF Inv, TypeOK
    <3>2. UNCHANGED <<bodies, flushed, head, pivots, crashes, stops>>
      BY <1>3, Zenon DEF WritePool
    <3>. QED  BY <2>1, <2>4, <3>1, <3>2 DEF Inv, TypeOK, Up
  <2>. QED  BY <1>3, <2>3, <2>4, Zenon DEF WritePool, pool
<1>4. CASE WriteHead
  BY <1>4, Types, SevenPools, SMTT(30) DEF WriteHead, Inv, TypeOK, Up
<1>. QED  BY <1>1, <1>2, <1>3, <1>4 DEF Write

\* Every step keeps the types.
LEMMA NextTypes ==
    ASSUME Inv, [Next]_vars
    PROVE  TypeOK'
<1>1. CASE UNCHANGED vars
  BY <1>1 DEF vars, disk, memory, Inv, TypeOK, Up
<1>. QED  BY <1>1, ImportTypes, ExecuteTypes, BetweenTypes, WriteTypes, Zenon DEF Next

-----------------------------------------------------------------------------
(* States and the head marker.                                             *)

\* A node that dies or stops has only its disk.
LEMMA LoseMemoryState ==
    ASSUME Inv, LoseMemory, phase' # "up", flushed \subseteq flushed', UNCHANGED head,
           phase' = "stopped" => head \in flushed'
    PROVE  StateInv' /\ MarkerInv'
BY DEF Inv, StateInv, MarkerInv, LoseMemory, Up, HasState

\* Import, Execute, Sealed and WriteSealed drop no state.
LEMMA TakeState ==
    ASSUME Inv,
           Execute \/ Sealed \/ WriteSealed \/ \E b \in Block : Import(b) \/ FastSyncCommitHead(b)
    PROVE  StateInv' /\ MarkerInv'
<1>0. step >= 2 => writing # 0
  BY DEF Inv, StateInv
<1>1. ASSUME NEW b \in Block, Import(b) PROVE StateInv' /\ MarkerInv'
  <2>1. UNCHANGED <<flushed, cached, writing, step, phase>> /\ Free
    BY <1>1, Zenon DEF Import, SkipKnown, Executable, Pruned, disk
  <2>2. \/ head' = b /\ current' = b /\ HasState(b)
        \/ UNCHANGED <<head, current>>
    BY <1>1, Zenon DEF Import, SkipKnown, Known, Executable, Pruned, disk
  <2>. QED  BY <2>1, <2>2 DEF Inv, StateInv, MarkerInv, HasState, Free, Up
<1>2. CASE Execute
  <2>1. Free /\ UNCHANGED disk
    BY <1>2, Zenon DEF Execute
  <2>2. CASE LoseMemory /\ phase' = "down"
    BY <2>1, <2>2, LoseMemoryState DEF disk
  <2>3. CASE UNCHANGED <<cached, current, writing, step, phase>>
    BY <2>1, <2>3 DEF Inv, StateInv, MarkerInv, HasState, Up, disk
  <2>4. CASE step' = 0 /\ UNCHANGED <<cached, current, phase>>
    BY <1>0, <2>1, <2>4 DEF Inv, StateInv, MarkerInv, HasState, Up, Free, disk
  <2>. QED  BY <1>2, <2>2, <2>3, <2>4, Zenon DEF Execute
<1>3. CASE Sealed
  <2>1. CASE LoseMemory /\ phase' = "down"
    BY <1>3, <2>1, LoseMemoryState DEF Sealed, disk
  <2>2. CASE UNCHANGED <<cached, current, writing, step, phase>>
    BY <1>3, <2>2 DEF Sealed, Inv, StateInv, MarkerInv, HasState, Up, disk
  <2>. QED  BY <1>3, <2>1, <2>2, Zenon DEF Sealed
<1>4. CASE WriteSealed
  BY <1>0, <1>4 DEF WriteSealed, Inv, StateInv, MarkerInv, HasState, Up, Free, disk
<1>5. ASSUME NEW b \in Block, FastSyncCommitHead(b) PROVE StateInv' /\ MarkerInv'
  BY <1>5 DEF FastSyncCommitHead, Inv, StateInv, MarkerInv, HasState, Up, Free
<1>. QED  BY <1>1, <1>2, <1>3, <1>4, <1>5

\* The garbage collection keeps the state of the current block, or the block that is
\* written will be the current one.
LEMMA CommitStateKeeps ==
    ASSUME Inv, CommitState
    PROVE  StateInv' /\ MarkerInv'
<1>1. /\ writing \in Nat \ {0} /\ current \in Nat /\ TriesInMemory \in Nat \ {0} /\ step = 1 /\ step' = 2
      /\ UNCHANGED <<head, current, writing, phase>> /\ Up
  BY Types DEF CommitState
<1>2. flushed \subseteq flushed' /\ (Archive => cached' = {}) /\ writing \in cached' \cup flushed'
  BY <1>1 DEF CommitState, Chosen, Inv, StateInv
<1>3. HasState(current)
  BY <1>1 DEF Inv, StateInv
<1>4. current \in cached' \cup flushed' \/ writing > current
  BY <1>1, <1>3, Types DEF CommitState, Chosen, HasState
<1>. QED  BY <1>1, <1>2, <1>4 DEF Inv, StateInv, MarkerInv, HasState, Up

\* The other writes; the head moves to a block with a state.
LEMMA WriteState ==
    ASSUME Inv, Write
    PROVE  StateInv' /\ MarkerInv'
<1>1. CASE WriteBlock
  BY <1>1 DEF WriteBlock, Inv, StateInv, MarkerInv, HasState, Up
<1>2. CASE WritePool
  <2>1. UNCHANGED <<flushed, head>> /\ step >= 2 /\ step + 1 >= 2
    BY <1>2, Types, SevenPools DEF WritePool
  <2>2. CASE LoseMemory /\ phase' = "down"
    BY <2>1, <2>2, LoseMemoryState
  <2>3. CASE step' = step + 1 /\ UNCHANGED <<cached, current, writing, phase>>
    BY <2>1, <2>3 DEF Inv, StateInv, MarkerInv, HasState, Up
  <2>. QED  BY <1>2, <2>2, <2>3, Zenon DEF WritePool
<1>3. CASE WriteHead
  <2>1. step >= 2 /\ HasState(writing) /\ writing \in Nat /\ current \in Nat
    BY <1>3, Types, SevenPools DEF WriteHead, AfterPools, Inv, StateInv
  <2>2. HasState(current)'
    BY <1>3, <2>1 DEF WriteHead, HasState, Inv, StateInv
  <2>3. UNCHANGED <<flushed, cached, phase>> /\ step' = 0 /\ phase = "up"
        /\ (head' = current' \/ UNCHANGED <<head, current>>)
    BY <1>3 DEF WriteHead, Up
  <2>. QED  BY <2>2, <2>3 DEF Inv, StateInv, MarkerInv, Up
<1>. QED  BY <1>1, <1>2, <1>3, CommitStateKeeps DEF Write

\* Stop writes the state of the current block, and a crash loses what is in memory only.
LEMMA StopState ==
    ASSUME Inv, Stop \/ Crash \/ Restart
    PROVE  StateInv' /\ MarkerInv'
<1>1. CASE Stop
  <2>1. HasState(current) /\ current \in Nat
    BY <1>1, Types DEF Stop, Free, Inv, StateInv, Up
  <2>2. flushed \subseteq flushed'
    BY <1>1, Zenon DEF Stop
  <2>3. current \in flushed'
    <3>1. CASE Archive
      BY <2>1, <2>2, <3>1 DEF Inv, StateInv, HasState
    <3>2. CASE current = 0
      BY <2>2, <3>2 DEF Inv, StateInv, Genesis
    <3>3. CASE ~ Archive /\ current # 0
      <4>1. current \in {current - o : o \in {o \in Offsets : current > o}}
        <5>1. 0 \in {o \in Offsets : current > o} /\ current = current - 0
          BY <2>1, <3>3 DEF Offsets
        <5>. QED  BY <5>1, Zenon
      <4>2. current \in cached \cup flushed
        BY <2>1 DEF HasState
      <4>. QED  BY <1>1, <2>2, <3>3, <4>1, <4>2, Zenon DEF Stop
    <3>. QED  BY <3>1, <3>2, <3>3
  <2>4. head \in flushed'
    BY <2>2, <2>3 DEF Inv, StateInv, MarkerInv
  <2>. QED  BY <1>1, <2>2, <2>4, LoseMemoryState DEF Stop
<1>2. CASE Crash
  BY <1>2, LoseMemoryState DEF Crash, disk
<1>3. CASE Restart
  BY <1>3 DEF Restart, Rewound, Inv, StateInv, MarkerInv, HasState, Up
<1>. QED  BY <1>1, <1>2, <1>3

\* The state the node starts in.
LEMMA StoreInit == Init => Inv
<1>. SUFFICES ASSUME Init PROVE Inv
  OBVIOUS
<1>1. TypeOK
  BY StoreBounds, SevenPools DEF Init, TypeOK, Up
<1>2. StateInv /\ MarkerInv
  BY DEF Init, StateInv, MarkerInv, HasState
<1>. QED  BY <1>1, <1>2 DEF Inv

\* Every step preserves the invariant.
LEMMA StoreNext == Inv /\ [Next]_vars => Inv'
<1>. SUFFICES ASSUME Inv, [Next]_vars PROVE Inv'
  OBVIOUS
<1>1. CASE UNCHANGED vars
  <2>1. StateInv' /\ MarkerInv'
    BY <1>1 DEF vars, disk, memory, Inv, StateInv, MarkerInv, HasState, Up
  <2>. QED  BY <2>1, NextTypes DEF Inv
<1>. QED  BY <1>1, NextTypes, TakeState, WriteState, StopState, Zenon DEF Next, Inv

\* The invariant holds of every state the node reaches.
LEMMA StoreInvariant == Spec => []Inv
BY StoreInit, StoreNext, PTL DEF Spec

\* Every variable keeps its type; what insertSideChain executes first are blocks.
THEOREM StoreTypeCorrect == Spec => []TypeOK
<1>1. Inv => TypeOK
  BY DEF Inv
<1>. QED  BY <1>1, StoreInvariant, PTL

\* For any number of states kept in memory, and of crashes and stops, the state of the
\* current block is there when no block is being written.
THEOREM CurrentHasState == Spec => []HeadHasState
<1>1. Inv => HeadHasState
  BY DEF Inv, StateInv, HeadHasState, Free
<1>. QED  BY <1>1, StoreInvariant, PTL

\* A node that was stopped starts on the head it had.
THEOREM StopLosesNothing == Spec => StopKeepsHead
<1>1. Inv /\ [Next]_vars => [phase = "stopped" /\ phase' = "up" => head' = head]_vars
  <2>. SUFFICES ASSUME Inv, Next, phase = "stopped", phase' = "up" PROVE head' = head
    BY DEF vars
  <2>1. Restart
    BY DEF Next, Import, FastSyncCommitHead, Execute, Sealed, WriteSealed, Write, WriteBlock,
           CommitState, WritePool, WriteHead, Stop, Crash, Free, Up
  <2>2. head \in flushed
    BY DEF Inv, MarkerInv
  <2>. QED  BY <2>1, <2>2 DEF Restart
<1>. QED  BY <1>1, StoreInvariant, PTL DEF Spec, StopKeepsHead

-----------------------------------------------------------------------------
(* The lists.                                                              *)

\* Between two writes, every block with a state has its lists.
LEMMA WholeStates ==
    ASSUME Inv, ListsInv, step < 2
    PROVE  \A b \in flushed \cup cached \cup {head} : Whole(b)
<1>1. ~ (step >= 2)
  BY Types
<1>. QED  BY <1>1, Zenon DEF ListsInv, HeadComplete, Whole

\* A step that keeps the lists, after which no state has been written without them.
LEMMA ListsKept ==
    ASSUME Inv, Inv', ListsInv, UNCHANGED pools, pivots \subseteq pivots', step' < 2,
           \A b \in flushed' \cup cached' \cup {head'} : pools[b] = Pools \/ b \in pivots'
    PROVE  ListsInv'
<1>1. \A i \in 1 .. step' - 2 : FALSE
  <2>1. step' \in 0 .. Len(PoolOrder) + 2
    BY Zenon DEF Inv, TypeOK
  <2>2. step' \in 0 .. 9
    BY <2>1, SevenPools
  <2>3. \A k \in 0 .. 9 : k < 2 => 1 .. k - 2 = {}
    OBVIOUS
  <2>4. 1 .. step' - 2 = {}
    BY <2>2, <2>3, Zenon
  <2>. QED  BY <2>4, Zenon
<1>. QED  BY <1>1, Zenon DEF ListsInv, HeadComplete, Whole

\* The steps between two writes.
LEMMA BetweenLists ==
    ASSUME ~ Archive, Inv, Inv', ListsInv,
           Execute \/ WriteSealed \/ Stop \/ \E b \in Block : Import(b) \/ FastSyncCommitHead(b)
    PROVE  ListsInv'
<1>1. Free /\ UNCHANGED pools
  BY Zenon DEF Execute, WriteSealed, Stop, Import, FastSyncCommitHead, SkipKnown, Executable,
               Pruned, disk
<1>2. step < 2
  BY <1>1, Types DEF Free, Inv, StateInv
<1>3. \A b \in flushed \cup cached \cup {head} : pools[b] = Pools \/ b \in pivots
  BY <1>2, WholeStates, Zenon DEF Whole
<1>4. step' \in {0, step}
  BY Zenon DEF Execute, WriteSealed, Stop, Import, FastSyncCommitHead, SkipKnown, Executable,
               Pruned, LoseMemory
<1>5. CASE Execute \/ WriteSealed \/ Stop
  <2>1. flushed' \subseteq flushed \cup cached /\ UNCHANGED <<head, pivots>>
    BY <1>5, Zenon DEF Execute, WriteSealed, Stop, disk
  <2>2. cached' = cached \/ cached' = {}
    BY <1>5, Zenon DEF Execute, WriteSealed, Stop, LoseMemory
  <2>. QED  BY <1>1, <1>2, <1>3, <1>4, <2>1, <2>2, ListsKept
<1>6. ASSUME NEW b \in Block, Import(b) PROVE ListsInv'
  <2>1. UNCHANGED <<flushed, cached, pivots>> /\ (head' = head \/ head' \in cached \cup flushed)
    BY <1>6, Zenon DEF Import, SkipKnown, Known, HasState, Executable, Pruned, disk
  <2>. QED  BY <1>1, <1>2, <1>3, <1>4, <2>1, ListsKept
<1>7. ASSUME NEW b \in Block, FastSyncCommitHead(b) PROVE ListsInv'
  <2>1. /\ flushed' = flushed \cup {b} /\ pivots' = pivots \cup {b} /\ UNCHANGED <<cached, head>>
    BY <1>7, Zenon DEF FastSyncCommitHead
  <2>. QED  BY <1>1, <1>2, <1>3, <1>4, <2>1, ListsKept
<1>. QED  BY <1>5, <1>6, <1>7

\* A node that dies keeps only the states on disk, and starts from one of them.
LEMMA DownLists ==
    ASSUME ~ Archive, Inv, Inv', ListsInv, Sealed \/ Crash \/ Restart
    PROVE  ListsInv'
<1>1. UNCHANGED <<pools, flushed, pivots>>
  BY Zenon DEF Sealed, Crash, Restart, disk
<1>2. CASE LoseMemory /\ UNCHANGED head
  BY <1>1, <1>2, ListsKept DEF LoseMemory, ListsInv, HeadComplete, Whole
<1>3. CASE UNCHANGED <<cached, writing, step>> /\ (head' = head \/ head' \in flushed)
  BY <1>1, <1>3, Zenon DEF ListsInv, HeadComplete, Whole
<1>. QED
  BY <1>2, <1>3, Zenon DEF Sealed, Crash, Restart, Rewound, disk

\* The lists are written between the state and the head.
LEMMA WriteLists ==
    ASSUME ~ Archive, Inv, Inv', ListsInv, Write
    PROVE  ListsInv'
<1>1. CASE WriteBlock
  <2>1. step < 2 /\ step' < 2 /\ UNCHANGED <<pools, pivots, flushed, cached, head>>
    BY <1>1 DEF WriteBlock
  <2>. QED  BY <2>1, WholeStates, ListsKept DEF Whole
<1>2. CASE CommitState
  <2>1. /\ step < 2 /\ step' = 2 /\ UNCHANGED <<pools, pivots, head, writing>>
        /\ flushed' \subseteq flushed \cup cached /\ cached' \subseteq cached \cup {writing}
    BY <1>2 DEF CommitState
  <2>2. \A i \in 1 .. step' - 2 : FALSE
    BY <2>1
  <2>3. \A b \in flushed \cup cached \cup {head} : Whole(b) /\ Whole(b)'
    BY <2>1, WholeStates, Zenon DEF Whole
  <2>4. step' >= 2
    BY <2>1
  <2>5. \A b \in flushed' : Whole(b)'
    BY <2>1, <2>3
  <2>6. \A b \in cached' : Whole(b)' \/ (b = writing' /\ step' >= 2)
    BY <2>1, <2>3, <2>4
  <2>. QED  BY <2>1, <2>2, <2>5, <2>6, Zenon DEF ListsInv, HeadComplete
<1>3. CASE WritePool
  <2>. DEFINE pool == PoolOrder[step - 1]
  <2>1. step - 1 \in 1 .. 7 /\ step \in Int /\ writing \in {Genesis} \cup Block
    BY <1>3, Types, SevenPools DEF WritePool
  <2>2. pool \in Pools /\ UNCHANGED <<flushed, head, pivots>>
    BY <1>3, <2>1, SevenPools, SMTT(30) DEF WritePool
  <2>. HIDE DEF pool
  <2>3. CASE LoseMemory /\ UNCHANGED pools
    BY <2>2, <2>3, ListsKept DEF LoseMemory, ListsInv, HeadComplete, Whole
  <2>4. CASE /\ pools' = [pools EXCEPT ![writing] = @ \cup {pool}] /\ step' = step + 1
             /\ UNCHANGED <<cached, writing>>
    <3>1. /\ pools \in [{Genesis} \cup Block -> SUBSET Pools]
          /\ flushed \cup cached \cup {head, Genesis} \subseteq {Genesis} \cup Block
      BY SMTT(30) DEF Inv, TypeOK
    <3>2. \A b \in {Genesis} \cup Block : pools[b] \subseteq pools'[b] /\ pools'[b] \subseteq Pools
      BY <2>1, <2>2, <2>4, <3>1
    <3>3. \A b \in {Genesis} \cup Block : Whole(b) => Whole(b)'
      BY <2>2, <3>2 DEF Whole
    <3>4. ASSUME NEW i \in 1 .. step' - 2 PROVE PoolOrder[i] \in pools'[writing]
      <4>1. CASE i = step - 1
        <5>1. PoolOrder[i] = pool /\ pool \in pools'[writing]
          BY <2>1, <2>4, <3>1, <4>1 DEF pool
        <5>. QED  BY <5>1
      <4>2. CASE i # step - 1
        <5>1. i \in 1 .. step - 2
          BY <2>1, <2>4, <4>2
        <5>2. PoolOrder[i] \in pools[writing]
          BY <5>1 DEF ListsInv
        <5>. QED  BY <2>1, <3>2, <5>2
      <4>. QED  BY <4>1, <4>2
    <3>5. HeadComplete' /\ (pools[Genesis] = Pools)'
      BY <2>2, <3>1, <3>2, <3>3 DEF ListsInv, HeadComplete, Whole
    <3>6. step >= 2 => step' >= 2
      BY <2>1, <2>4
    <3>7. \A b \in flushed' : Whole(b)'
      BY <2>2, <3>1, <3>3 DEF ListsInv
    <3>8. \A b \in cached' : Whole(b)' \/ (b = writing' /\ step' >= 2)
      BY <2>4, <3>1, <3>3, <3>6 DEF ListsInv
    <3>. QED  BY <2>4, <3>4, <3>5, <3>7, <3>8, Zenon DEF ListsInv
  <2>. QED  BY <1>3, <2>3, <2>4, Zenon DEF WritePool, pool
<1>4. CASE WriteHead
  <2>1. /\ step = 9 /\ step' = 0 /\ UNCHANGED <<pools, pivots, flushed, cached>>
        /\ head' \in {head, writing} /\ writing \in {Genesis} \cup Block
    BY <1>4, Types, SevenPools DEF WriteHead, AfterPools
  <2>2. pools[writing] = Pools
    <3>1. pools[writing] \subseteq Pools
      BY <2>1, SMTT(30) DEF Inv, TypeOK
    <3>2. \A i \in 1 .. 7 : PoolOrder[i] \in pools[writing]
      BY <2>1 DEF ListsInv
    <3>. QED  BY <3>1, <3>2, SevenPools
  <2>3. \A b \in flushed \cup cached \cup {head, writing} : Whole(b)
    BY <2>2, Zenon DEF ListsInv, HeadComplete, Whole
  <2>4. step' < 2
    BY <2>1
  <2>. QED  BY <2>1, <2>3, <2>4, ListsKept DEF Whole
<1>. QED  BY <1>1, <1>2, <1>3, <1>4 DEF Write

\* Wherever a full node dies, the head it starts from has all its lists, unless it came
\* with a synchronisation.  An archive node has the state on disk before the lists.
THEOREM HeadHasAllLists ==
    ASSUME ~ Archive
    PROVE  Spec => []HeadComplete
<1>1. Init => ListsInv
  BY DEF Init, ListsInv, HeadComplete, Whole, Genesis, Block
<1>2. Inv /\ ListsInv /\ [Next]_vars => ListsInv'
  <2>. SUFFICES ASSUME Inv, ListsInv, [Next]_vars PROVE ListsInv'
    OBVIOUS
  <2>1. Inv'
    BY StoreNext
  <2>2. CASE UNCHANGED vars
    BY <2>2, Zenon DEF vars, disk, memory, ListsInv, HeadComplete, Whole
  <2>. QED  BY <2>1, <2>2, BetweenLists, DownLists, WriteLists, Zenon DEF Next
<1>3. ListsInv => HeadComplete
  BY DEF ListsInv
<1>. QED  BY <1>1, <1>2, <1>3, StoreInvariant, PTL DEF Spec
=============================================================================
