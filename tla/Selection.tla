----------------------------- MODULE Selection -----------------------------
(***************************************************************************)
(* The election by distance and stake (ValidatorByDistanceAndWeight).      *)
(* After each block eleven of the active miners become the validators of   *)
(* the next one (Random11ValidatorFromPool), and Prepare rewards six of    *)
(* these.  Both use the hash of the block as a point among the addresses.  *)
(* The weights are sorted out of a Go map by an unstable sort: among equal *)
(* weights any order may come out, and another one on another node.        *)
(***************************************************************************)
EXTENDS Integers, FiniteSets, FiniteSetsExt, Functions

CONSTANTS
    MaxValue,       \* the largest address
    MaxStake,       \* bound: the largest stake
    MaxMiners,      \* bound: the number of active miners
    Eleven, Six     \* how many are elected and rewarded

VARIABLES
    miners,         \* the active miners, with their stakes
    hash,           \* the last 160 bits of the hash of the block
    elected, rewarded, stage

vars == <<miners, hash, elected, rewarded, stage>>

Address == 0 .. MaxValue
Abs(n) == IF n < 0 THEN - n ELSE n

\* The shorter way around the addresses.  The way around has MaxValue steps.
Distance(a, x) == Min({Abs(a - x), MaxValue - Abs(a - x)})

TotalStakeBalance(pool) == SumFunction(pool)

Weight(pool, a, x) == (Distance(a, x) * pool[a]) \div TotalStakeBalance(pool)

\* The sets of the first k addresses, when the weights descend.
ValidatorByDistanceAndWeight(pool, k, x) ==
    {S \in kSubset(Min({k, Cardinality(DOMAIN pool)}), DOMAIN pool) :
        \A a \in S, b \in DOMAIN pool \ S : Weight(pool, a, x) >= Weight(pool, b, x)}

Init ==
    /\ miners \in UNION {[A -> 1 .. MaxStake] : A \in UNION {kSubset(k, Address) : k \in 1 .. MaxMiners}}
    /\ hash \in Address
    /\ elected = {} /\ rewarded = {} /\ stage = "elect"

Random11ValidatorFromPool ==
    /\ stage = "elect" /\ stage' = "reward"
    /\ elected' \in ValidatorByDistanceAndWeight(miners, Eleven, hash)
    /\ UNCHANGED <<miners, hash, rewarded>>

\* The weights are computed anew, with the stakes of the elected only.
RandomNValidatorFromEleven ==
    /\ stage = "reward" /\ stage' = "done"
    /\ rewarded' \in ValidatorByDistanceAndWeight(Restrict(miners, elected), Six, hash)
    /\ UNCHANGED <<miners, hash, elected>>

Next == Random11ValidatorFromPool \/ RandomNValidatorFromEleven
Spec == Init /\ [][Next]_vars

-----------------------------------------------------------------------------
May(pool, a) == \E S \in ValidatorByDistanceAndWeight(pool, Eleven, hash) : a \in S

\* More stake never hurts: who may be elected may still be elected with one more token,
\* although the sum of all stakes, by which the weights are divided, grows with it and the
\* division cuts off.
MoreStakeHelps ==
    \A a \in elected : May([miners EXCEPT ![a] = @ + 1], a)

\* Of two miners with the same stake, whose weights differ, the closer one is preferred.
PrefersCloser(S, pool) ==
    \A a \in S, b \in DOMAIN pool \ S :
        pool[a] = pool[b] /\ Weight(pool, a, hash) # Weight(pool, b, hash) =>
            Distance(a, hash) < Distance(b, hash)

\* ValidatorByDistanceAndWeight's comment: "Query K validators closest to random numbers
\* based on distance and pledge amount".  Among equal stakes the elected, and the rewarded
\* among these, are those closest to the hash; ties of the weights are left aside.
Closest ==
    /\ stage # "elect" => PrefersCloser(elected, miners)
    /\ stage = "done" => PrefersCloser(rewarded, Restrict(miners, elected))
=============================================================================
