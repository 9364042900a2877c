------------------------------ MODULE Staking ------------------------------
(***************************************************************************)
(* Stakes, and the lists of stakers, validators and active miners that     *)
(* follow them.  An account pledges tokens to become a validator, or opens *)
(* an exchange and becomes a staker; a validator proves now and then that  *)
(* it is online.  The transactions change account fields in the state trie *)
(* and note what they did in PledgedTokenPool, ExchangerTokenPool and      *)
(* ActiveMinersPool of the StateDB.  writeBlockWithState carries the notes *)
(* over to the lists of the parent, which are stored with the block.       *)
(*                                                                         *)
(* One block after the other is executed.  Gas and rewards are left out.   *)
(***************************************************************************)
EXTENDS Integers, Sequences, FiniteSets, FiniteSetsExt, Functions

CONSTANTS
    Accounts,
    Values,         \* bound: the amounts of transactions
    MinPledge,      \* 100000 ERB
    MinExchanger,   \* 100 ERB
    DocumentedMin,  \* the 100 ERB in the comment of PledgeToken
    CloseInterval,  \* CloseExchangerInterval
    Cycle,          \* activeCycle: a validator proves that it is online once in as many blocks
    CheckAt,        \* when in a cycle inactive miners are removed
    Grace,          \* how many blocks a miner may be silent
    Funds,          \* what each account has in the genesis block
    Genesis,        \* who has pledged in the genesis block, and how much
    GenesisStake,   \* who has opened an exchange in it, and with how much
    Reverters,      \* accounts that call code which may fail
    MaxNumber, MaxTx    \* bounds: blocks, and transactions

ASSUME StakingBounds ==
    /\ Values \subseteq Nat /\ IsFiniteSet(Accounts)
    /\ MinPledge \in Nat \ {0} /\ MinExchanger \in Nat \ {0}
    /\ Cycle \in Nat \ {0} /\ CheckAt \in 0 .. Cycle - 1 /\ Grace \in Nat /\ Grace >= Cycle
    /\ Funds \in Nat /\ MaxNumber \in Nat \ {0} /\ MaxTx \in Nat
    /\ DOMAIN Genesis \subseteq Accounts /\ Genesis \in [DOMAIN Genesis -> MinPledge .. Funds]
    /\ DOMAIN GenesisStake \subseteq Accounts
    /\ GenesisStake \in [DOMAIN GenesisStake -> MinExchanger .. Funds]
    /\ \A a \in DOMAIN Genesis \cap DOMAIN GenesisStake : Genesis[a] + GenesisStake[a] <= Funds

VARIABLES
    balance, pledged, exchanger,    \* the balances of an account
    opened,                         \* when its exchange was opened: ExchangerFlag and BlockNumber
    pledgeList, exchangeList,       \* PledgedTokenPool and ExchangerTokenPool
    active,                         \* ActiveMinersPool of the state
    stakers, validators, miners,    \* the lists stored with the last block
    number, txs                     \* the block being executed, and the transactions so far

account == <<balance, pledged, exchanger, opened>>
lists == <<pledgeList, exchangeList, active>>
stored == <<stakers, validators, miners>>
vars == <<account, lists, stored, number, txs>>

NotOpen == [flag |-> FALSE, since |-> 0]
Amount(pool, a) == IF a \in DOMAIN pool THEN pool[a] ELSE 0

\* The genesis block.
Init ==
    /\ pledged = [a \in Accounts |-> Amount(Genesis, a)]
    /\ exchanger = [a \in Accounts |-> Amount(GenesisStake, a)]
    /\ balance = [a \in Accounts |-> Funds - Amount(Genesis, a) - Amount(GenesisStake, a)]
    /\ opened = [a \in Accounts |-> [flag |-> a \in DOMAIN GenesisStake, since |-> 0]]
    /\ pledgeList = <<>> /\ exchangeList = <<>>
    /\ stakers = GenesisStake /\ validators = Genesis
    /\ miners = [a \in DOMAIN Genesis |-> [stake |-> Genesis[a], height |-> 0]]
    /\ active = miners
    /\ number = 1 /\ txs = 0

\* f with the value v for a, whether f had one for it or not.
Put(f, a, v) == [x \in DOMAIN f \cup {a} |-> IF x = a THEN v ELSE f[x]]

-----------------------------------------------------------------------------
(* Transactions.                                                           *)

Noted(list, a, amount, flag) == Append(list, [addr |-> a, amount |-> amount, flag |-> flag])

\* The handler has succeeded, and the code at the called address fails: RevertToSnapshot
\* restores what the journal knows, which is the account fields.
Reverted(a) == a \in Reverters /\ UNCHANGED account

\* One more transaction of the block being executed.  Call asks that the sender has the
\* amount, also when the transaction pays it back.
Call(a, amount) ==
    /\ txs < MaxTx /\ (amount = 0 \/ balance[a] >= amount)
    /\ txs' = txs + 1 /\ UNCHANGED <<stored, number>>

CanPledge(a, amount) == amount >= MinPledge /\ balance[a] >= amount

\* Mutant: the pledge is not taken from the balance.
PledgeTokenFree(a, amount) ==
    /\ Call(a, amount)
    /\ CanPledge(a, amount)
    /\ pledgeList' = Noted(pledgeList, a, amount, TRUE)
    /\ pledged' = [pledged EXCEPT ![a] = @ + amount]
    /\ UNCHANGED <<balance, exchanger, opened, exchangeList, active>>

\* Type 9.
PledgeToken(a, amount) ==
    /\ Call(a, amount)
    /\ CanPledge(a, amount)
    /\ pledgeList' = Noted(pledgeList, a, amount, TRUE)
    /\ \/ /\ balance' = [balance EXCEPT ![a] = @ - amount]
          /\ pledged' = [pledged EXCEPT ![a] = @ + amount]
          /\ UNCHANGED <<exchanger, opened>>
       \/ Reverted(a)
    /\ UNCHANGED <<exchangeList, active>>

\* Mutant: more may be taken back than was pledged.
Unverified(a, amount) == TRUE

VerifyPledgedBalance(a, amount) == pledged[a] >= amount

\* Type 10.
CancelPledgedToken(a, amount) ==
    /\ Call(a, amount)
    /\ VerifyPledgedBalance(a, amount)
    /\ pledgeList' = Noted(pledgeList, a, amount, FALSE)
    /\ \/ /\ balance' = [balance EXCEPT ![a] = @ + amount]
          /\ pledged' = [pledged EXCEPT ![a] = @ - amount]
          /\ UNCHANGED <<exchanger, opened>>
       \/ Reverted(a)
    /\ UNCHANGED <<exchangeList, active>>

\* Whether the exchange is open already is not asked.
CanOpen(a, amount) == amount >= MinExchanger /\ balance[a] >= amount

\* Type 11.  An exchange that is open already keeps its opening time, but its balance is
\* replaced.
OpenExchanger(a, amount) ==
    /\ Call(a, amount)
    /\ CanOpen(a, amount)
    /\ exchangeList' = Noted(exchangeList, a, amount, TRUE)
    /\ \/ /\ balance' = [balance EXCEPT ![a] = @ - amount]
          /\ exchanger' = [exchanger EXCEPT ![a] = amount]
          /\ opened' = IF opened[a].flag THEN opened
                       ELSE [opened EXCEPT ![a] = [flag |-> TRUE, since |-> number]]
          /\ UNCHANGED pledged
       \/ Reverted(a)
    /\ UNCHANGED <<pledgeList, active>>

\* Nor whether there is one to close.
CanClose(a) == number - opened[a].since >= CloseInterval /\ number > opened[a].since

\* Type 12.
CloseExchanger(a) ==
    /\ Call(a, 0)
    /\ CanClose(a)
    /\ exchangeList' = Noted(exchangeList, a, exchanger[a], FALSE)
    /\ \/ /\ balance' = [balance EXCEPT ![a] = @ + exchanger[a]]
          /\ exchanger' = [exchanger EXCEPT ![a] = 0]
          /\ opened' = IF opened[a].flag THEN [opened EXCEPT ![a] = NotOpen] ELSE opened
          /\ UNCHANGED pledged
       \/ Reverted(a)
    /\ UNCHANGED <<pledgeList, active>>

\* Mutant: the list of stakers is forgotten.
AddExchangerTokenUnnoted(a, amount) ==
    /\ Call(a, amount)
    /\ balance[a] >= amount
    /\ balance' = [balance EXCEPT ![a] = @ - amount]
    /\ exchanger' = [exchanger EXCEPT ![a] = @ + amount]
    /\ UNCHANGED <<pledged, opened, lists>>

\* Type 21.
AddExchangerToken(a, amount) ==
    /\ Call(a, amount)
    /\ balance[a] >= amount
    /\ exchangeList' = Noted(exchangeList, a, amount, TRUE)
    /\ \/ /\ balance' = [balance EXCEPT ![a] = @ - amount]
          /\ exchanger' = [exchanger EXCEPT ![a] = @ + amount]
          /\ UNCHANGED <<pledged, opened>>
       \/ Reverted(a)
    /\ UNCHANGED <<pledgeList, active>>

CanReduce(a, amount) == exchanger[a] >= amount + MinExchanger

\* Type 22.
SubExchangerToken(a, amount) ==
    /\ Call(a, amount)
    /\ CanReduce(a, amount)
    /\ exchangeList' = Noted(exchangeList, a, amount, FALSE)
    /\ \/ /\ balance' = [balance EXCEPT ![a] = @ + amount]
          /\ exchanger' = [exchanger EXCEPT ![a] = @ - amount]
          /\ UNCHANGED <<pledged, opened>>
       \/ Reverted(a)
    /\ UNCHANGED <<pledgeList, active>>

\* Type 30, with any amount for anyone.  A new miner's stake is the amount until the block
\* is written.  The list of miners is not in the journal either.
LivenessTx(a, to, amount) ==
    /\ Call(a, amount)
    /\ LET stake == IF a \in DOMAIN active THEN active[a].stake ELSE amount
       IN active' = Put(active, a, [stake |-> stake, height |-> number])
    /\ \/ /\ balance' = [balance EXCEPT ![a] = @ - amount, ![to] = @ + amount]
          /\ UNCHANGED <<pledged, exchanger, opened>>
       \/ Reverted(a)
    /\ UNCHANGED <<pledgeList, exchangeList>>

-----------------------------------------------------------------------------
(* The lists, when the block is written.                                   *)

Added(pool, a, amount) == Put(pool, a, amount + Amount(pool, a))

\* Mutant: a validator that takes back a part is removed.
RemovedAll(pool, a, amount) == Restrict(pool, DOMAIN pool \ {a})

\* RemoveValidator and RemoveStaker.  Whoever is left with nothing, or with less, goes.
Removed(pool, a, amount) ==
    IF a \in DOMAIN pool /\ pool[a] > amount THEN [pool EXCEPT ![a] = @ - amount]
    ELSE Restrict(pool, DOMAIN pool \ {a})

Carried(pool, t) ==
    IF t.flag THEN Added(pool, t.addr, t.amount) ELSE Removed(pool, t.addr, t.amount)

\* The lists after a block: its notes are carried over in their order.
Updated(pool, list) ==
    MapThenFoldSet(LAMBDA t, p : Carried(p, t), pool, LAMBDA i : list[i], Max, DOMAIN list)

\* Mutant: a check in the last block of the grace period only.
InactiveOnce(height) == number - height = Grace + 1 /\ number % Cycle = CheckAt

\* Inactive miners are looked for once in a cycle, and not in the first one.
Inactive(height) == number % Cycle = CheckAt /\ number > Cycle /\ number - height > Grace

\* Mutant: everyone who is online is effective.
EffectiveAll(pool) == [a \in DOMAIN active |-> [active[a] EXCEPT !.stake = IF a \in DOMAIN pool THEN pool[a] ELSE @]]

\* EnsureEffectiveMiners: validators only, with their stakes.
Effective(pool) ==
    [a \in DOMAIN active \cap DOMAIN pool |-> [active[a] EXCEPT !.stake = pool[a]]]

WriteBlock ==
    /\ number < MaxNumber
    /\ stakers' = Updated(stakers, exchangeList)
    /\ validators' = Updated(validators, pledgeList)
    /\ LET effective == Effective(validators')
       IN miners' = Restrict(effective, {a \in DOMAIN effective : ~ Inactive(effective[a].height)})
    /\ active' = miners'
    /\ pledgeList' = <<>> /\ exchangeList' = <<>>
    /\ number' = number + 1 /\ UNCHANGED txs
    /\ UNCHANGED account

Next ==
    \/ \E a \in Accounts :
          \/ CloseExchanger(a)
          \/ \E to \in Accounts, v \in Values : LivenessTx(a, to, v)
          \/ \E v \in Values : \/ PledgeToken(a, v) \/ CancelPledgedToken(a, v)
                               \/ OpenExchanger(a, v)
                               \/ AddExchangerToken(a, v) \/ SubExchangerToken(a, v)
    \/ WriteBlock

Spec == Init /\ [][Next]_vars

-----------------------------------------------------------------------------
IsPool(p) == DOMAIN p \subseteq Accounts /\ \A a \in DOMAIN p : p[a] \in Nat
AreMiners(m) ==
    /\ DOMAIN m \subseteq Accounts
    /\ \A a \in DOMAIN m : m[a].stake \in Nat /\ m[a].height \in 0 .. number
IsNotes(list) == \A i \in DOMAIN list :
    list[i].addr \in Accounts /\ list[i].amount \in Nat /\ list[i].flag \in BOOLEAN

\* No balance is ever negative; that the amounts taken back are covered is what
\* VerifyPledgedBalance and VerifyExchangerBalance are for.
TypeOK ==
    /\ balance \in [Accounts -> Nat] /\ pledged \in [Accounts -> Nat] /\ exchanger \in [Accounts -> Nat]
    /\ \A a \in Accounts : opened[a].flag \in BOOLEAN /\ opened[a].since \in 0 .. number
    /\ IsNotes(pledgeList) /\ IsNotes(exchangeList)
    /\ IsPool(stakers) /\ IsPool(validators) /\ AreMiners(miners) /\ AreMiners(active)
    /\ number \in 1 .. MaxNumber /\ txs \in 0 .. MaxTx

\* The list of validators and the pledge of a say the same, once the notes of the block
\* being executed are carried over.
Mirrors(a) ==
    LET pool == Updated(validators, pledgeList)
    IN IF a \in DOMAIN pool THEN pledged[a] = pool[a] /\ pledged[a] > 0 ELSE pledged[a] = 0

\* Who has pledged is a validator with just that stake (PledgeToken and CancelPledgedToken
\* against AddValidator and RemoveValidator), whatever becomes of the calls of others.  The
\* exception are accounts whose own calls are reverted: the notes stay.
PledgeMirror == \A a \in Accounts \ Reverters : Mirrors(a)

\* Call "reverses the state in case of an execution error".
RevertsAll == \A a \in Accounts : Mirrors(a)

\* The list of stakers covers every exchange: an exchange's balance is never more than what
\* its owner has in the list, however often it is opened again, filled up, reduced and
\* closed, with the same exception.
StakersCover ==
    LET pool == Updated(stakers, exchangeList)
    IN \A a \in Accounts \ Reverters :
          exchanger[a] > 0 => a \in DOMAIN pool /\ pool[a] >= exchanger[a]

Total == SumFunction([a \in Accounts |-> balance[a] + pledged[a] + exchanger[a]])

\* No transaction makes tokens: what is paid back was paid in before, and only once.
NothingMinted == [][Total' <= Total]_vars

\* In every stored block the active miners are validators, with the stakes of the list of
\* validators, and none of them has nothing: the election divides by the sum of the stakes
\* ("make sure that ActiveMinersPool is always in validatorPool", EnsureEffectiveMiners).
ActiveIsStaked ==
    \A a \in DOMAIN miners : a \in DOMAIN validators /\ miners[a].stake = validators[a] /\ miners[a].stake > 0

\* Who is silent leaves the list of active miners: nobody is in it more than one cycle
\* after the grace period, although inactive miners are looked for once in a cycle only.
SilentLeave == \A a \in DOMAIN miners : number - 1 - miners[a].height < Grace + Cycle

\* No validator has less than the minimum of the comment of PledgeToken.
MinimumStake == \A a \in DOMAIN validators : validators[a] >= DocumentedMin
=============================================================================
