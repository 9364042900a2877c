----------------------------- MODULE BacklogProofs -----------------------------
(***************************************************************************)
(* The backlog never holds back a message that can be handled, for any     *)
(* peers, validators and number of stored messages, as long as priorities  *)
(* are exact: up to round 99, and up to the height where float32 begins to *)
(* round.                                                                  *)
(***************************************************************************)
EXTENDS Backlog, TLAPS

\* The limits within which toPriority is exact: the one its comment names, "the
\* range of round is from 0 to 99", and the one of float32's 24 bits.
ExactPriorities == MaxRound <= 99 /\ LastSeq * 1000 + 999 < 16777216

\* NothingCurrentWaits of the queues bl in a given view.
NoneCurrent(bl, s, r, w, st) ==
    \A p \in Peer : \A m \in bl[p] : IsOld(m, s, r) \/ IsFuture(m, s, r, w, st)

\* Below 2^24 the conversion to float32 is exact, so toPriority computes what it
\* says: a ROUND CHANGE first in its height, the rest by round and then by code.
LEMMA PriorityValue ==
    ASSUME ExactPriorities, NEW m \in Message
    PROVE  toPriority(m) = m.seq * 1000 +
             (IF m.code = "ROUNDCHANGE" THEN 0
              ELSE m.round * 10 + (IF m.code = "PREPREPARE" THEN 1
                                   ELSE IF m.code = "COMMIT" THEN 2 ELSE 3))
  <1>1. m.seq \in Nat /\ m.seq <= LastSeq /\ m.round \in Nat /\ m.round <= MaxRound
        /\ m.code \in Code /\ LastSeq \in Nat /\ MaxRound \in Nat
    BY BacklogBounds DEF Message, Seqs, Rounds
  <1>2. 2^24 = 16777216
    BY SMT
  <1>3. \A x \in Nat : x <= LastSeq * 1000 + 999 => Float32(x) = x
    BY <1>1, <1>2 DEF Float32, ExactPriorities
  <1>4. CASE m.code = "ROUNDCHANGE"
    BY <1>1, <1>3, <1>4 DEF toPriority
  <1>5. CASE m.code # "ROUNDCHANGE"
    <2>1. /\ m.code \in {"PREPREPARE", "COMMIT", "PREPARE"}
          /\ msgPriority[m.code] = IF m.code = "PREPREPARE" THEN 1
                                   ELSE IF m.code = "COMMIT" THEN 2 ELSE 3
      BY <1>1, <1>5 DEF Code, msgPriority
    <2>2. m.round <= 99
      BY <1>1 DEF ExactPriorities
    <2> QED
      BY <1>1, <1>3, <1>5, <2>1, <2>2 DEF toPriority
  <1> QED
    BY <1>4, <1>5

\* In any view, what can be handled comes out before what can not.
LEMMA CurrentFirst ==
    ASSUME ExactPriorities, NEW m \in Message, NEW f \in Message,
           NEW s \in Seqs, NEW r \in Rounds, NEW w \in BOOLEAN,
           NEW st \in AcceptRequest .. Committed,
           ~IsOld(m, s, r), ~IsFuture(m, s, r, w, st), IsFuture(f, s, r, w, st)
    PROVE  toPriority(m) < toPriority(f)
  <1>1. /\ m.seq \in Nat /\ m.round \in Nat /\ m.round <= 99 /\ m.code \in Code
        /\ f.seq \in Nat /\ f.round \in Nat /\ f.code \in Code
        /\ s \in Nat /\ r \in Nat
    BY BacklogBounds DEF Message, Seqs, Rounds, ExactPriorities
  <1>2. m.seq = s /\ f.seq >= s
    BY <1>1 DEF IsOld, IsFuture
  <1>3. CASE f.seq > s
    BY <1>1, <1>2, <1>3, PriorityValue
  <1>4. CASE f.seq = s
    <2>1. f.code # "ROUNDCHANGE" /\ f.round >= r
      BY <1>1, <1>4 DEF IsFuture
    <2>2. CASE m.code = "ROUNDCHANGE"
      BY <1>1, <1>2, <1>4, <2>1, <2>2, PriorityValue
    <2>3. CASE m.code # "ROUNDCHANGE"
      <3>1. m.round = r /\ w = FALSE /\ (st = AcceptRequest => m.code = "PREPREPARE")
        BY <1>1, <1>2, <2>3 DEF IsOld, IsFuture
      <3>2. f.round > r \/ (f.round = r /\ m.code = "PREPREPARE" /\ f.code # "PREPREPARE")
        BY <1>1, <1>4, <2>1, <3>1 DEF IsFuture
      <3> QED
        BY <1>1, <1>2, <1>4, <2>1, <2>3, <3>1, <3>2, PriorityValue
    <2> QED
      BY <2>2, <2>3
  <1> QED
    BY <1>1, <1>2, <1>3, <1>4

\* processBacklog leaves nothing behind that could be handled in the view it is
\* called in.
LEMMA ProcessBacklogStep ==
    ASSUME ExactPriorities, TypeOK,
           NEW s \in Seqs, NEW r \in Rounds, NEW w \in BOOLEAN,
           NEW st \in AcceptRequest .. Committed,
           ProcessBacklog(s, r, w, st)
    PROVE  /\ backlogs' \in [Peer -> SUBSET Message]
           /\ \A p \in Peer : \A m \in backlogs'[p] : m.src = p
           /\ posted' \subseteq Message
           /\ \A p \in Peer : \A m \in backlogs'[p] :
                IsOld(m, s, r) \/ IsFuture(m, s, r, w, st)
           /\ \A p \in Peer : \A m \in backlogs[p] \ backlogs'[p] :
                m \in posted' \/ IsOld(m, s, r) \/ p \notin ValidatorsAt[s]
  <1> DEFINE all == UNION {backlogs[p] : p \in ValidatorsAt[s]}
             sure == {m \in all : Surely(m, backlogs[m.src], s, r, w, st)}
             ties == {m \in all : Maybe(m, backlogs[m.src], s, r, w, st)} \ sure
  <1>1. PICK tied \in SUBSET ties :
          /\ backlogs' = [p \in Peer |->
                IF p \in ValidatorsAt[s] THEN backlogs[p] \ (sure \cup tied) ELSE {}]
          /\ posted' = posted \cup {m \in sure \cup tied : ~IsOld(m, s, r)}
    BY Zenon DEF ProcessBacklog, Remaining
  <1>2. ValidatorsAt[s] \in SUBSET Peer
    BY PeerAssumption
  <1>3. /\ backlogs \in [Peer -> SUBSET Message] /\ posted \subseteq Message
        /\ \A p \in Peer : \A m \in backlogs[p] : m.src = p
    BY DEF TypeOK
  <1>4. all \subseteq Message
    BY <1>2, <1>3
  <1> DEFINE taken == sure \cup tied
  <1>5. taken \subseteq Message
    BY <1>4
  <1>6. /\ \A p \in Peer : backlogs'[p] \subseteq backlogs[p]
        /\ \A p \in Peer : p \in ValidatorsAt[s] => backlogs'[p] = backlogs[p] \ taken
        /\ \A p \in Peer : p \notin ValidatorsAt[s] => backlogs'[p] = {}
        /\ backlogs' \in [Peer -> SUBSET Message]
    BY <1>1, <1>3
  <1>7. ASSUME NEW p \in Peer, NEW m \in backlogs'[p], ~IsOld(m, s, r)
        PROVE  IsFuture(m, s, r, w, st)
    <2>1. p \in ValidatorsAt[s] /\ m \in backlogs[p] /\ m \notin sure /\ m.src = p
      BY <1>3, <1>6, <1>7
    <2>2. m \in all /\ m \in Message
      BY <1>4, <2>1
    <2>3. ~Surely(m, backlogs[p], s, r, w, st)
      BY <2>1, <2>2
    <2>4. SUFFICES ASSUME ~IsFuture(m, s, r, w, st) PROVE FALSE
      OBVIOUS
    <2>5. PICK f \in backlogs[p] : /\ IsFuture(f, s, r, w, st)
                                   /\ ~(toPriority(m) < toPriority(f))
      BY <2>3, <2>4 DEF Surely
    <2>6. f \in Message
      BY <1>3
    <2> QED
      BY <1>7, <2>2, <2>4, <2>5, <2>6, CurrentFirst
  <1>8. posted' \subseteq Message
    BY <1>1, <1>3, <1>5
  <1>9. ASSUME NEW p \in Peer, NEW m \in backlogs[p] \ backlogs'[p], p \in ValidatorsAt[s]
        PROVE  m \in posted' \/ IsOld(m, s, r)
    <2>1. m \in taken
      BY <1>6, <1>9
    <2> QED
      BY <1>1, <2>1
  <1> QED
    BY <1>3, <1>6, <1>7, <1>8, <1>9

\* The inductive invariant: the queues hold messages of their peers, none current.
Inv == TypeOK /\ NothingCurrentWaits

\* One step of Next keeps Inv, and loses no message.
LEMMA NextInv ==
    ASSUME ExactPriorities, Inv, [Next]_vars
    PROVE  Inv' /\ (vars' = vars \/ \A p \in Peer : \A m \in backlogs[p] \ backlogs'[p] :
                m \in posted' \/ IsOld(m, seq', round') \/ p \notin ValidatorsAt[seq'])
  <1> DEFINE Loses == \A p \in Peer : \A m \in backlogs[p] \ backlogs'[p] :
                m \in posted' \/ IsOld(m, seq', round') \/ p \notin ValidatorsAt[seq']
  <1>t. /\ seq \in Seqs /\ round \in Rounds /\ waiting \in BOOLEAN
        /\ state \in AcceptRequest .. Committed
        /\ backlogs \in [Peer -> SUBSET Message]
        /\ \A p \in Peer : \A m \in backlogs[p] : m.src = p
        /\ posted \subseteq Message
    BY DEF Inv, TypeOK
  <1>c. \A p \in Peer : \A m \in backlogs[p] :
            IsOld(m, seq, round) \/ IsFuture(m, seq, round, waiting, state)
    BY DEF Inv, NothingCurrentWaits, Current, Future
  <1>n. NothingCurrentWaits' <=> NoneCurrent(backlogs', seq', round', waiting', state')
    BY Zenon DEF NothingCurrentWaits, NoneCurrent, Current, Future, IsOld, IsFuture
  <1>s. ASSUME NEW s \in Seqs, NEW r \in Rounds, NEW st \in AcceptRequest .. Committed,
               SetState(s, r, st)
        PROVE  Inv' /\ Loses
    <2>1. /\ seq' = s /\ round' = r /\ state' = st /\ waiting' = FALSE
          /\ ProcessBacklog(s, r, FALSE, st)
      BY <1>s, Zenon DEF SetState
    <2>2. TypeOK /\ FALSE \in BOOLEAN
      BY DEF Inv
    <2>3. /\ backlogs' \in [Peer -> SUBSET Message]
          /\ \A p \in Peer : \A m \in backlogs'[p] : m.src = p
          /\ posted' \subseteq Message
          /\ NoneCurrent(backlogs', s, r, FALSE, st)
          /\ \A p \in Peer : \A m \in backlogs[p] \ backlogs'[p] :
                m \in posted' \/ IsOld(m, s, r) \/ p \notin ValidatorsAt[s]
      BY <2>1, <2>2, ProcessBacklogStep, Zenon DEF NoneCurrent
    <2>4. TypeOK'
      BY <1>s, <2>1, <2>3, Zenon DEF TypeOK
    <2>5. NothingCurrentWaits'
      BY <2>1, <2>3, <1>n, Zenon
    <2>6. Loses
      BY <2>1, <2>3, Zenon
    <2> QED
      BY <2>4, <2>5, <2>6 DEF Inv
  <1>1. ASSUME NEW m \in Message, HandleFutureMsg(m)
        PROVE  Inv' /\ Loses
    BY <1>1, <1>t, <1>c
       DEF HandleFutureMsg, Store, Inv, TypeOK, NothingCurrentWaits, Current, Future, Message
  <1>2. ASSUME NEW m \in posted, HandleBacklogEvent(m)
        PROVE  Inv' /\ Loses
    BY <1>2, <1>t, <1>c
       DEF HandleBacklogEvent, Store, Inv, TypeOK, NothingCurrentWaits, Current, Future, Message
  <1>3. CASE StartNewRound
    <2>1. 0 \in Rounds /\ AcceptRequest \in AcceptRequest .. Committed
      BY BacklogBounds DEF Rounds, AcceptRequest, Committed
    <2> QED
      BY <1>3, <1>s, <1>t, <2>1 DEF StartNewRound
  <1>4. CASE Advance
    <2>1. PICK st \in Preprepared .. Committed : SetState(seq, round, st)
      BY <1>4 DEF Advance
    <2>2. st \in AcceptRequest .. Committed
      BY DEF AcceptRequest, Preprepared, Committed
    <2> QED
      BY <1>s, <1>t, <2>1, <2>2
  <1>5. CASE CatchUpRound
    <2>1. PICK r \in Rounds : /\ r > round /\ round' = r /\ waiting' = TRUE
                              /\ UNCHANGED <<seq, state, backlogs, posted>>
      BY <1>5 DEF CatchUpRound
    <2>2. ASSUME NEW p \in Peer, NEW m \in backlogs[p]
          PROVE  IsOld(m, seq, r) \/ IsFuture(m, seq, r, TRUE, state)
      <3>1. m.seq \in Int /\ m.round \in Int /\ seq \in Int /\ round \in Int /\ r \in Int
        BY <1>t, BacklogBounds DEF Message, Seqs, Rounds
      <3>2. IsOld(m, seq, round) \/ IsFuture(m, seq, round, waiting, state)
        BY <1>c
      <3> QED
        BY <2>1, <3>1, <3>2 DEF IsOld, IsFuture
    <2>3. TypeOK' /\ Loses
      BY <1>t, <2>1 DEF TypeOK
    <2>4. NothingCurrentWaits'
      BY <1>n, <2>1, <2>2, Zenon DEF NoneCurrent
    <2> QED
      BY <2>3, <2>4 DEF Inv
  <1>6. CASE UNCHANGED vars
    BY <1>6 DEF vars, Inv, TypeOK, NothingCurrentWaits, Current, Future
  <1> QED
    BY <1>1, <1>2, <1>3, <1>4, <1>5, <1>6 DEF Next

\* Initially every queue is empty.
LEMMA InitInv ==
    ASSUME Init
    PROVE  Inv
  <1>1. FirstSeq \in Seqs /\ 0 \in Rounds /\ AcceptRequest \in AcceptRequest .. Committed
    BY BacklogBounds DEF Seqs, Rounds, AcceptRequest, Committed
  <1>2. \A p \in Peer : backlogs[p] = {}
    BY DEF Init
  <1>3. backlogs \in [Peer -> SUBSET Message]
    BY DEF Init
  <1>4. TypeOK
    BY <1>1, <1>2, <1>3, Zenon DEF Init, TypeOK
  <1> QED
    BY <1>2, <1>4 DEF Inv, NothingCurrentWaits

\* Within the limits of toPriority the loop of processBacklog never gives up too
\* early: no message that can be handled waits in a queue.
THEOREM BacklogKeepsUp ==
    ASSUME ExactPriorities
    PROVE  Spec => []NothingCurrentWaits
  <1>1. Init => Inv
    BY InitInv
  <1>2. Inv /\ [Next]_vars => Inv'
    BY NextInv
  <1>3. Inv => NothingCurrentWaits
    BY DEF Inv
  <1> QED
    BY <1>1, <1>2, <1>3, PTL DEF Spec

\* Within the same limits a stored message leaves its queue only to be handled, when
\* its view has passed, or with a peer that is no validator any more.
THEOREM BacklogLosesNothing ==
    ASSUME ExactPriorities
    PROVE  Spec => NothingLost
  <1>1. Init => Inv
    BY InitInv
  <1>2. Inv /\ [Next]_vars => Inv'
    BY NextInv
  <1>3. Inv /\ [Next]_vars =>
          [\A p \in Peer : \A m \in backlogs[p] \ backlogs'[p] :
             m \in posted' \/ IsOld(m, seq', round') \/ p \notin ValidatorsAt[seq']]_vars
    BY NextInv
  <1> QED
    BY <1>1, <1>2, <1>3, PTL DEF Spec, NothingLost

================================================================================
