------------------------------- MODULE Backlog -------------------------------
(***************************************************************************)
(* The backlog of the IBFT core (consensus/istanbul/ibft/core/backlog.go): *)
(* one priority queue per validator for the messages of views that have    *)
(* not come yet.  setState goes through the queues; a queue gives up at    *)
(* the first message that is still of the future.                          *)
(*                                                                         *)
(* The model is one node.  Its view moves as the core moves it, with the   *)
(* backlog processed where the core calls setState; the peers' messages    *)
(* come in any order, and the events that processBacklog posts (one        *)
(* goroutine each) are handled in any order, after any number of moves.    *)
(***************************************************************************)
EXTENDS CheckMessage, Integers, FiniteSets

CONSTANTS
    Peer,            \* the other nodes
    ValidatorsAt,    \* ValidatorsAt[s]: the peers that are validators of height s
    FirstSeq,        \* bounds: the heights of the run
    LastSeq,
    MaxRound,        \* bound: the highest round
    MaxStored        \* bound: messages kept at a time; the code has no limit

Seqs == FirstSeq .. LastSeq
Rounds == 0 .. MaxRound

ASSUME BacklogBounds ==
    /\ FirstSeq \in Nat /\ LastSeq \in Nat /\ MaxRound \in Nat /\ MaxStored \in Nat
    /\ FirstSeq <= LastSeq
ASSUME PeerAssumption == ValidatorsAt \in [Seqs -> SUBSET Peer]

Message == [code : Code, src : Peer, seq : Seqs, round : Rounds]

VARIABLES
    seq, round, state, waiting,   \* what checkMessage looks at
    backlogs,                     \* core.backlogs: the queue of each peer
    posted                        \* the backlogEvents not yet handled

vars == <<seq, round, state, waiting, backlogs, posted>>

-----------------------------------------------------------------------------
(* Priorities.                                                             *)

\* Round x to a multiple of u, a tie to the even one.
RoundToEven(x, u) ==
    LET q == x \div u
    IN  IF 2 * (x % u) < u \/ (2 * (x % u) = u /\ q % 2 = 0) THEN q * u ELSE (q + 1) * u

\* The conversion of a natural number below 2^27 to float32, which has 24 bits.
Float32(x) ==
    IF x < 2^24 THEN x
    ELSE RoundToEven(x, IF x < 2^25 THEN 2 ELSE IF x < 2^26 THEN 4 ELSE 8)

msgPriority == [PREPREPARE |-> 1, COMMIT |-> 2, PREPARE |-> 3]

\* Mutant: the codes in the order of their numbers, PREPARE before PREPREPARE.
toPriorityByCode(m) ==
    IF m.code = "ROUNDCHANGE" THEN Float32(m.seq * 1000)
    ELSE Float32(m.seq * 1000 + m.round * 10 + 4 - msgPriority[m.code])

\* toPriority without its minus sign: the smallest comes out first.
toPriority(m) ==
    IF m.code = "ROUNDCHANGE" THEN Float32(m.seq * 1000)
    ELSE Float32(m.seq * 1000 + m.round * 10 + msgPriority[m.code])

-----------------------------------------------------------------------------
(* The queues.                                                             *)

Future(m) == IsFuture(m, seq, round, waiting, state)
Current(m) == ~IsOld(m, seq, round) /\ ~Future(m)

\* storeBacklog: with the sender's.
Store(m) == backlogs' = [backlogs EXCEPT ![m.src] = @ \cup {m}]

\* Does m of the queue q come out before the loop meets a message of the future:
\* Surely, or, where priorities are equal, Maybe - the heap may give either first.
Surely(m, q, s, r, w, st) ==
    /\ ~IsFuture(m, s, r, w, st)
    /\ \A f \in q : IsFuture(f, s, r, w, st) => toPriority(m) < toPriority(f)
Maybe(m, q, s, r, w, st) ==
    /\ ~IsFuture(m, s, r, w, st)
    /\ \A f \in q : IsFuture(f, s, r, w, st) => toPriority(m) <= toPriority(f)

\* Mutant: the message of the future that ends the loop is not pushed back.
RemainingNoPushBack(q, taken, s, r, w, st) ==
    {m \in q \ taken : \E f \in q \ taken : toPriority(f) < toPriority(m)}

\* What is left of the queue q: the message of the future that ended the loop has
\* been pushed back, and the rest was not looked at.
Remaining(q, taken, s, r, w, st) == q \ taken

\* processBacklog in the view (s, r), with waiting w and state st.  The queues of
\* peers that are no validators any more are deleted; old messages are skipped.
ProcessBacklog(s, r, w, st) ==
    LET all == UNION {backlogs[p] : p \in ValidatorsAt[s]}
        sure == {m \in all : Surely(m, backlogs[m.src], s, r, w, st)}
        ties == {m \in all : Maybe(m, backlogs[m.src], s, r, w, st)} \ sure
    IN  \E tied \in SUBSET ties :
          /\ backlogs' = [p \in Peer |->
                IF p \in ValidatorsAt[s]
                THEN Remaining(backlogs[p], sure \cup tied, s, r, w, st) ELSE {}]
          /\ posted' = posted \cup {m \in sure \cup tied : ~IsOld(m, s, r)}

\* setState in the view (s, r).
SetState(s, r, st) ==
    /\ seq' = s /\ round' = r /\ state' = st /\ waiting' = FALSE
    /\ ProcessBacklog(s, r, FALSE, st)

-----------------------------------------------------------------------------
Init ==
    /\ seq = FirstSeq /\ round = 0 /\ state = AcceptRequest /\ waiting = FALSE
    /\ backlogs = [p \in Peer |-> {}]
    /\ posted = {}

\* handleMsg of a message of the future from a validator.  What a message of the
\* present does to the view is among the steps below.
HandleFutureMsg(m) ==
    /\ m.src \in ValidatorsAt[seq] /\ Future(m)
    /\ Cardinality(UNION {backlogs[p] : p \in Peer} \cup posted) < MaxStored
    /\ Store(m)
    /\ UNCHANGED <<seq, round, state, waiting, posted>>

\* handleCheckedMsg of a backlogEvent: stored again if the view has moved so that
\* it is of the future once more, handed on or dropped otherwise.
HandleBacklogEvent(m) ==
    /\ m \in posted
    /\ posted' = posted \ {m}
    /\ IF Future(m) THEN Store(m) ELSE UNCHANGED backlogs
    /\ UNCHANGED <<seq, round, state, waiting>>

\* startNewRound: a new sequence, or a round that is ahead or waited for.
StartNewRound ==
    \/ \E s \in Seqs : s > seq /\ SetState(s, 0, AcceptRequest)
    \/ \E r \in Rounds : /\ r > round \/ (r = round /\ waiting)
                         /\ SetState(seq, r, AcceptRequest)

\* acceptPreprepare, handlePrepare and commit: the state moves on in the view.
Advance == \E st \in Preprepared .. Committed :
    ~waiting /\ st > state /\ SetState(seq, round, st)

\* catchUpRound changes the view without a setState.
CatchUpRound ==
    \E r \in Rounds :
        /\ r > round
        /\ round' = r /\ waiting' = TRUE
        /\ UNCHANGED <<seq, state, backlogs, posted>>

Next ==
    \/ \E m \in Message : HandleFutureMsg(m)
    \/ \E m \in posted : HandleBacklogEvent(m)
    \/ StartNewRound
    \/ Advance
    \/ CatchUpRound

Spec == Init /\ [][Next]_vars

-----------------------------------------------------------------------------
(* Properties.                                                             *)

\* Every queue holds messages of its own peer.
TypeOK ==
    /\ seq \in Seqs /\ round \in Rounds /\ waiting \in BOOLEAN
    /\ state \in AcceptRequest .. Committed
    /\ backlogs \in [Peer -> SUBSET Message]
    /\ \A p \in Peer : \A m \in backlogs[p] : m.src = p
    /\ posted \subseteq Message

\* The order "msgPreprepare > msgCommit > msgPrepare" within a view, and by view
\* otherwise, is such that the loop never gives up too early: no message that could
\* be handled now is held back behind one that can not (toPriority, processBacklog).
NothingCurrentWaits ==
    \A p \in Peer : \A m \in backlogs[p] : ~Current(m)

\* A message leaves its queue only as a backlogEvent, when its view has passed, or
\* with the queue of a peer that is no validator any more (processBacklog).
NothingLost ==
    [][\A p \in Peer : \A m \in backlogs[p] \ backlogs'[p] :
        m \in posted' \/ IsOld(m, seq', round') \/ p \notin ValidatorsAt[seq']]_vars
=============================================================================
