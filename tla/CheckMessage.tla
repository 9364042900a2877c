---------------------------- MODULE CheckMessage ----------------------------
(***************************************************************************)
(* checkMessage of the IBFT core: for the view a node is at, its           *)
(* waitingForRoundChange flag and its state, a message is old, current or  *)
(* future.  A message is a record with at least a code, a seq and a round. *)
(***************************************************************************)
EXTENDS Integers

\* ibfttypes.State, in the order State.Cmp gives it.
AcceptRequest == 0
Preprepared == 1
Prepared == 2
Committed == 3

Code == {"PREPREPARE", "PREPARE", "COMMIT", "ROUNDCHANGE"}

IsOld(m, s, r) == m.seq < s \/ (m.seq = s /\ m.round < r)

\* A ROUND CHANGE is of the future only when its sequence is.
IsFuture(m, s, r, w, st) ==
    \/ m.seq > s
    \/ /\ m.seq = s
       /\ m.code # "ROUNDCHANGE"
       /\ \/ m.round > r
          \/ m.round = r /\ (w \/ (st = AcceptRequest /\ m.code # "PREPREPARE"))
=============================================================================
