--------------------------- MODULE StakingProofs ---------------------------
(***************************************************************************)
(* Machine-checked proofs about Staking, for every set of accounts and     *)
(* every number of blocks and transactions.                                *)
(***************************************************************************)
EXTENDS Staking, FoldLemmas

-----------------------------------------------------------------------------
(* What carrying over the notes of a block computes.                       *)

Pool == UNION {[D -> Nat] : D \in SUBSET Accounts}
Note == [addr : Accounts, amount : Nat, flag : BOOLEAN]

\* A pool is a function, with any domain.
LEMMA PoolIs ==
    /\ \A p \in Pool : DOMAIN p \in SUBSET Accounts /\ p = [a \in DOMAIN p |-> p[a]]
                       /\ \A a \in DOMAIN p : p[a] \in Nat
    /\ \A D \in SUBSET Accounts : [D -> Nat] \subseteq Pool
BY DEF Pool

\* Adding and removing a stake concerns one account.
LEMMA CarriedIs ==
    ASSUME NEW p \in Pool, NEW t \in Note
    PROVE  /\ Carried(p, t) \in Pool
           /\ \A a \in Accounts \ {t.addr} :
                 /\ a \in DOMAIN Carried(p, t) <=> a \in DOMAIN p
                 /\ a \in DOMAIN p => Carried(p, t)[a] = p[a]
           /\ t.flag => /\ t.addr \in DOMAIN Carried(p, t)
                        /\ Carried(p, t)[t.addr] =
                              t.amount + (IF t.addr \in DOMAIN p THEN p[t.addr] ELSE 0)
           /\ ~ t.flag /\ t.addr \in DOMAIN p /\ p[t.addr] > t.amount =>
                 /\ t.addr \in DOMAIN Carried(p, t)
                 /\ Carried(p, t)[t.addr] = p[t.addr] - t.amount
           /\ ~ t.flag /\ (t.addr \in DOMAIN p => p[t.addr] <= t.amount) =>
                 t.addr \notin DOMAIN Carried(p, t)
<1>. DEFINE a == t.addr
            v == t.amount
            q == Carried(p, t)
<1>1. a \in Accounts /\ v \in Nat /\ t.flag \in BOOLEAN
  BY DEF Note
<1>2. DOMAIN p \in SUBSET Accounts /\ (\A x \in DOMAIN p : p[x] \in Nat) /\ p = [x \in DOMAIN p |-> p[x]]
  BY PoolIs
<1>3. \A D \in SUBSET Accounts : \A f \in [D -> Nat] : f \in Pool
  BY PoolIs
<1>4. CASE t.flag
  <2>1. q = [x \in DOMAIN p \cup {a} |-> IF x = a THEN v + (IF a \in DOMAIN p THEN p[a] ELSE 0) ELSE p[x]]
    BY <1>4 DEF Carried, Added, Put, Amount
  <2>2. q \in [DOMAIN p \cup {a} -> Nat] /\ DOMAIN p \cup {a} \in SUBSET Accounts
    BY <1>1, <1>2, <2>1
  <2>3. q \in Pool
    BY <1>3, <2>2, Zenon
  <2>. QED  BY <1>4, <2>1, <2>3
<1>5. CASE ~ t.flag /\ a \in DOMAIN p /\ p[a] > v
  <2>1. q = [p EXCEPT ![a] = p[a] - v]
    BY <1>5 DEF Carried, Removed
  <2>2. q \in [DOMAIN p -> Nat]
    BY <1>1, <1>2, <1>5, <2>1
  <2>3. q \in Pool
    BY <1>2, <1>3, <2>2, Zenon
  <2>. QED  BY <1>1, <1>2, <1>5, <2>1, <2>3
<1>6. CASE ~ t.flag /\ ~ (a \in DOMAIN p /\ p[a] > v)
  <2>1. q = [x \in DOMAIN p \ {a} |-> p[x]]
    BY <1>6 DEF Carried, Removed, Restrict
  <2>2. q \in [DOMAIN p \ {a} -> Nat] /\ DOMAIN p \ {a} \in SUBSET Accounts
    BY <1>2, <2>1
  <2>3. q \in Pool
    BY <1>3, <2>2, Zenon
  <2>. QED  BY <1>1, <1>2, <1>6, <2>1, <2>3
<1>. QED  BY <1>1, <1>4, <1>5, <1>6

UpTo(g, pool, list) ==
    /\ g \in [0 .. Len(list) -> Pool] /\ g[0] = pool
    /\ \A i \in 1 .. Len(list) : g[i] = Carried(g[i - 1], list[i])
    /\ Updated(pool, list) = g[Len(list)]

\* The notes are carried over in their order.
LEMMA UpdatedIs ==
    ASSUME NEW pool \in Pool, NEW list \in Seq(Note)
    PROVE  \E g : UpTo(g, pool, list)
<1>. DEFINE n == Len(list)
            S == 1 .. n
            choice == [s \in SUBSET S |-> Max(s)]
            step == [i \in S |-> [p \in Pool |-> Carried(p, list[i])]]
<1>1. n \in Nat /\ DOMAIN list = S /\ \A i \in S : list[i] \in Note
  OBVIOUS
<1>. HIDE DEF n
<1>2. ASSUME NEW s \in SUBSET S, s # {} PROVE Max(s) \in s /\ \A x \in s : x <= Max(s)
  <2>1. s \in SUBSET Nat /\ \A x \in s : x <= n
    BY <1>1
  <2>. QED  BY <1>1, <1>2, <2>1, MaxIn, Zenon
<1>3. Chooses(choice, S)
  BY <1>2 DEF Chooses
<1>4. step \in [S -> [Pool -> Pool]]
  BY <1>1, CarriedIs
<1>5. IsFiniteSet(S)
  BY <1>1, FS_Interval
<1>6. PICK g \in [SUBSET S -> Pool] : Recursive(g, S, pool, choice, step)
  <2>. HIDE DEF S, choice, step
  <2>. QED  BY <1>3, <1>4, <1>5, Recursion, Zenon
<1>7. ASSUME NEW s \in SUBSET S
      PROVE  g[s] = IF s = {} THEN pool ELSE Carried(g[s \ {Max(s)}], list[Max(s)])
  <2>1. g[s] = IF s = {} THEN pool ELSE step[choice[s]][g[s \ {choice[s]}]]
    BY <1>6, Zenon DEF Recursive
  <2>2. CASE s # {}
    <3>1. choice[s] = Max(s) /\ Max(s) \in S /\ s \ {Max(s)} \in SUBSET S
      BY <1>2, <2>2, Zenon
    <3>2. g[s \ {Max(s)}] \in Pool
      BY <3>1
    <3>. QED  BY <2>1, <2>2, <3>1, <3>2
  <2>. QED  BY <2>1, <2>2
<1>8. g = [s \in SUBSET S |-> IF s = {} THEN pool ELSE Carried(g[s \ {Max(s)}], list[Max(s)])]
  BY <1>7, Zenon
<1>. DEFINE k == [i \in 0 .. n |-> g[1 .. i]]
<1>9. \A i \in 0 .. n : 1 .. i \in SUBSET S
  BY <1>1
<1>10. k \in [0 .. n -> Pool] /\ k[0] = pool
  <2>1. k \in [0 .. n -> Pool]
    BY <1>9
  <2>2. k[0] = g[{}] /\ {} \in SUBSET S
    BY <1>1
  <2>. QED  BY <1>7, <2>1, <2>2, Zenon
<1>11. ASSUME NEW i \in 1 .. n PROVE k[i] = Carried(k[i - 1], list[i])
  <2>1. i \in 0 .. n /\ i - 1 \in 0 .. n /\ i \in 1 .. i
    BY <1>1
  <2>2. 1 .. i \in SUBSET S /\ 1 .. i # {}
    BY <1>9, <2>1
  <2>3. Max(1 .. i) \in 1 .. i /\ i <= Max(1 .. i)
    BY <1>2, <2>1, <2>2, Zenon
  <2>4. Max(1 .. i) = i
    BY <1>1, <2>3
  <2>5. (1 .. i) \ {i} = 1 .. (i - 1)
    BY <1>1
  <2>6. g[1 .. i] = Carried(g[1 .. (i - 1)], list[i])
    BY <1>7, <2>2, <2>4, <2>5
  <2>. QED  BY <2>1, <2>6
<1>12. Updated(pool, list) = g[S]
  <2>. DEFINE Body(h, s) == IF s = {} THEN pool ELSE Carried(h[s \ {Max(s)}], list[Max(s)])
  <2>1. PICK h : h = [s \in SUBSET S |-> Body(h, s)] /\ Updated(pool, list) = h[S]
    <3>. HIDE DEF S
    <3>1. DOMAIN list = S
      BY <1>1
    <3>. QED  BY <1>8, <3>1, Zenon DEF Updated, MapThenFoldSet
  <2>. DEFINE E == {s \in SUBSET S : h[s] = g[s]}
  <2>2. ASSUME NEW T \in SUBSET S, \A x \in T : T \ {x} \in E PROVE T \in E
    <3>1. h[T] = Body(h, T)
      BY <2>1, Zenon
    <3>2. T # {} => T \ {Max(T)} \in E
      BY <1>2, <2>2, Zenon
    <3>3. h[T] = g[T]
      BY <1>7, <3>1, <3>2, Zenon
    <3>. QED  BY <3>3
  <2>3. E \in SUBSET SUBSET S
    OBVIOUS
  <2>. HIDE DEF E, S
  <2>4. E = SUBSET S
    BY <1>5, <2>2, <2>3, SubsetInduction, Zenon
  <2>. QED  BY <2>1, <2>4, Zenon DEF E
<1>13. k[n] = g[S]
  BY <1>1
<1>. HIDE DEF k, S
<1>. QED  BY <1>10, <1>11, <1>12, <1>13, Zenon DEF UpTo, n

\* Without notes nothing changes; one more note is carried over last.
LEMMA UpdatedSteps ==
    ASSUME NEW pool \in Pool, NEW list \in Seq(Note)
    PROVE  /\ Updated(pool, <<>>) = pool
           /\ Updated(pool, list) \in Pool
           /\ \A t \in Note : Updated(pool, Append(list, t)) = Carried(Updated(pool, list), t)
<1>1. Updated(pool, <<>>) = pool
  <2>1. <<>> \in Seq(Note) /\ Len(<<>>) = 0
    OBVIOUS
  <2>2. PICK g : UpTo(g, pool, <<>>)
    BY <2>1, UpdatedIs, Zenon
  <2>. QED  BY <2>1, <2>2, Zenon DEF UpTo
<1>2. PICK g : UpTo(g, pool, list)
  BY UpdatedIs, Zenon
<1>3. Len(list) \in Nat /\ Len(list) \in 0 .. Len(list)
  OBVIOUS
<1>4. Updated(pool, list) = g[Len(list)] /\ g[Len(list)] \in Pool
  BY <1>2, <1>3 DEF UpTo
<1>5. ASSUME NEW t \in Note PROVE Updated(pool, Append(list, t)) = Carried(g[Len(list)], t)
  <2>. DEFINE more == Append(list, t)
              n == Len(list)
  <2>1. /\ more \in Seq(Note) /\ Len(more) = n + 1 /\ more[n + 1] = t /\ n \in Nat
        /\ \A i \in 1 .. n : more[i] = list[i]
    OBVIOUS
  <2>. HIDE DEF more
  <2>2. PICK h : UpTo(h, pool, more)
    BY <2>1, UpdatedIs, Zenon
  <2>. HIDE DEF n
  <2>3. /\ g[0] = pool /\ \A i \in 1 .. n : g[i] = Carried(g[i - 1], list[i])
        /\ h[0] = pool /\ \A i \in 1 .. n + 1 : h[i] = Carried(h[i - 1], more[i])
        /\ Updated(pool, more) = h[n + 1]
    BY <1>2, <2>1, <2>2 DEF UpTo, n
  <2>. DEFINE E == {i \in Nat : i <= n => g[i] = h[i]}
  <2>4. E \in SUBSET Nat /\ 0 \in E
    BY <2>3
  <2>5. ASSUME NEW i \in E PROVE i + 1 \in E
    <3>. SUFFICES ASSUME i + 1 <= n PROVE g[i + 1] = h[i + 1]
      OBVIOUS
    <3>1. i + 1 \in 1 .. n /\ i + 1 \in 1 .. n + 1 /\ (i + 1) - 1 = i /\ i <= n
      BY <2>1
    <3>2. g[i + 1] = Carried(g[i], list[i + 1]) /\ h[i + 1] = Carried(h[i], more[i + 1])
      BY <2>3, <3>1
    <3>. QED  BY <2>1, <3>1, <3>2
  <2>. HIDE DEF E
  <2>6. E = Nat
    BY <2>4, <2>5, NatSet, Zenon
  <2>7. g[n] = h[n]
    BY <2>1, <2>6 DEF E
  <2>8. n + 1 \in 1 .. n + 1 /\ (n + 1) - 1 = n
    BY <2>1
  <2>9. h[n + 1] = Carried(h[n], t)
    BY <2>1, <2>3, <2>8
  <2>. QED  BY <2>3, <2>7, <2>9 DEF n, more
<1>. QED  BY <1>1, <1>4, <1>5

-----------------------------------------------------------------------------
(* Types.                                                                  *)

Miners == UNION {[D -> [stake : Nat, height : Nat]] : D \in SUBSET Accounts}
Opened == [flag : BOOLEAN, since : Nat]

AccountTypes ==
    /\ balance \in [Accounts -> Nat] /\ pledged \in [Accounts -> Nat] /\ exchanger \in [Accounts -> Nat]
    /\ opened \in [Accounts -> Opened] /\ \A a \in Accounts : opened[a].since <= number

ListTypes ==
    /\ pledgeList \in Seq(Note) /\ exchangeList \in Seq(Note)
    /\ stakers \in Pool /\ validators \in Pool

MinerTypes ==
    /\ miners \in Miners /\ active \in Miners
    /\ \A a \in DOMAIN miners : miners[a].height <= number
    /\ \A a \in DOMAIN active : active[a].height <= number

Types == /\ AccountTypes /\ ListTypes /\ MinerTypes
         /\ number \in 1 .. MaxNumber /\ txs \in 0 .. MaxTx

\* The types that the runs check follow.
LEMMA TypesTypeOK == Types => TypeOK
<1>. SUFFICES ASSUME Types PROVE TypeOK
  OBVIOUS
<1>1. number \in 1 .. MaxNumber /\ txs \in 0 .. MaxTx /\ number \in Nat
  BY DEF Types
<1>2. /\ balance \in [Accounts -> Nat] /\ pledged \in [Accounts -> Nat] /\ exchanger \in [Accounts -> Nat]
      /\ \A a \in Accounts : opened[a].flag \in BOOLEAN /\ opened[a].since \in 0 .. number
  BY <1>1 DEF Types, AccountTypes, Opened
<1>3. IsNotes(pledgeList) /\ IsNotes(exchangeList)
  <2>1. ASSUME NEW l \in Seq(Note) PROVE IsNotes(l)
    <3>1. \A i \in DOMAIN l : l[i] \in Note
      OBVIOUS
    <3>. QED  BY <3>1 DEF IsNotes, Note
  <2>. QED  BY <2>1, Zenon DEF Types, ListTypes
<1>4. IsPool(stakers) /\ IsPool(validators)
  BY PoolIs DEF Types, ListTypes, IsPool
<1>5. AreMiners(miners) /\ AreMiners(active)
  BY <1>1 DEF Types, MinerTypes, AreMiners, Miners
<1>. QED  BY <1>1, <1>2, <1>3, <1>4, <1>5, Zenon DEF TypeOK

\* A transaction that changes the accounts, one note, and no list of miners.
Spends(a, note) ==
    /\ txs < MaxTx /\ txs' = txs + 1
    /\ balance' \in [Accounts -> Nat] /\ pledged' \in [Accounts -> Nat] /\ exchanger' \in [Accounts -> Nat]
    /\ opened' \in [Accounts -> Opened] /\ \A x \in Accounts : opened'[x].since <= number
    /\ \A x \in Accounts \ {a} : /\ balance'[x] = balance[x] /\ pledged'[x] = pledged[x]
                                 /\ exchanger'[x] = exchanger[x]
    /\ note \in Note /\ note.addr = a
    /\ UNCHANGED <<stored, number, active>>

\* What a pledge does to the accounts.
LEMMA PledgeSpends ==
    ASSUME Types, NEW a \in Accounts, NEW v \in Values, PledgeToken(a, v)
    PROVE  /\ Spends(a, [addr |-> a, amount |-> v, flag |-> TRUE])
           /\ pledgeList' = Append(pledgeList, [addr |-> a, amount |-> v, flag |-> TRUE])
           /\ UNCHANGED <<exchangeList, exchanger>> /\ v \in Nat /\ v > 0
           /\ \/ a \in Reverters /\ UNCHANGED account
              \/ balance'[a] = balance[a] - v /\ pledged'[a] = pledged[a] + v
<1>1. v \in Nat /\ MinPledge \in Nat /\ MinPledge > 0 /\ MinExchanger \in Nat /\ MinExchanger > 0
  BY StakingBounds
<1>2. /\ balance \in [Accounts -> Nat] /\ pledged \in [Accounts -> Nat] /\ exchanger \in [Accounts -> Nat]
      /\ opened \in [Accounts -> Opened] /\ \A x \in Accounts : opened[x].since <= number
      /\ number \in Nat
  BY DEF Types, AccountTypes
<1>3. v >= MinPledge /\ balance[a] >= v
  BY DEF PledgeToken, CanPledge
<1>4. /\ txs < MaxTx /\ txs' = txs + 1 /\ UNCHANGED <<stored, number, active, exchangeList>>
      /\ pledgeList' = Append(pledgeList, [addr |-> a, amount |-> v, flag |-> TRUE])
  BY Zenon DEF PledgeToken, Call, Noted
<1>5. [addr |-> a, amount |-> v, flag |-> TRUE] \in Note
  BY <1>1, <1>2 DEF Note
<1>6. CASE UNCHANGED account /\ a \in Reverters
  BY <1>1, <1>2, <1>3, <1>4, <1>5, <1>6 DEF Spends, account
<1>7. CASE /\ balance' = [balance EXCEPT ![a] = @ - v] /\ pledged' = [pledged EXCEPT ![a] = @ + v]
           /\ UNCHANGED <<exchanger, opened>>
  <2>1. balance[a] - v \in Nat /\ pledged[a] + v \in Nat
    BY <1>1, <1>2, <1>3
  <2>. QED  BY <1>1, <1>2, <1>3, <1>4, <1>5, <1>7, <2>1 DEF Spends
<1>. QED  BY <1>6, <1>7, Zenon DEF PledgeToken, Reverted

\* What taking back a pledge does.
LEMMA CancelSpends ==
    ASSUME Types, NEW a \in Accounts, NEW v \in Values, CancelPledgedToken(a, v)
    PROVE  /\ Spends(a, [addr |-> a, amount |-> v, flag |-> FALSE])
           /\ pledgeList' = Append(pledgeList, [addr |-> a, amount |-> v, flag |-> FALSE])
           /\ UNCHANGED <<exchangeList, exchanger>> /\ v \in Nat /\ pledged[a] >= v
           /\ \/ a \in Reverters /\ UNCHANGED account
              \/ balance'[a] = balance[a] + v /\ pledged'[a] = pledged[a] - v
<1>1. v \in Nat /\ MinPledge \in Nat /\ MinPledge > 0 /\ MinExchanger \in Nat /\ MinExchanger > 0
  BY StakingBounds
<1>2. /\ balance \in [Accounts -> Nat] /\ pledged \in [Accounts -> Nat] /\ exchanger \in [Accounts -> Nat]
      /\ opened \in [Accounts -> Opened] /\ \A x \in Accounts : opened[x].since <= number
      /\ number \in Nat
  BY DEF Types, AccountTypes
<1>3. pledged[a] >= v
  BY DEF CancelPledgedToken, VerifyPledgedBalance
<1>4. /\ txs < MaxTx /\ txs' = txs + 1 /\ UNCHANGED <<stored, number, active, exchangeList>>
      /\ pledgeList' = Append(pledgeList, [addr |-> a, amount |-> v, flag |-> FALSE])
  BY Zenon DEF CancelPledgedToken, Call, Noted
<1>5. [addr |-> a, amount |-> v, flag |-> FALSE] \in Note
  BY <1>1, <1>2 DEF Note
<1>6. CASE UNCHANGED account /\ a \in Reverters
  BY <1>1, <1>2, <1>3, <1>4, <1>5, <1>6 DEF Spends, account
<1>7. CASE /\ balance' = [balance EXCEPT ![a] = @ + v] /\ pledged' = [pledged EXCEPT ![a] = @ - v]
           /\ UNCHANGED <<exchanger, opened>>
  <2>1. balance[a] + v \in Nat /\ pledged[a] - v \in Nat
    BY <1>1, <1>2, <1>3
  <2>. QED  BY <1>1, <1>2, <1>3, <1>4, <1>5, <1>7, <2>1 DEF Spends
<1>. QED  BY <1>6, <1>7, Zenon DEF CancelPledgedToken, Reverted

\* What opening an exchange does.
LEMMA OpenSpends ==
    ASSUME Types, NEW a \in Accounts, NEW v \in Values, OpenExchanger(a, v)
    PROVE  /\ Spends(a, [addr |-> a, amount |-> v, flag |-> TRUE])
           /\ exchangeList' = Append(exchangeList, [addr |-> a, amount |-> v, flag |-> TRUE])
           /\ UNCHANGED <<pledgeList, pledged>> /\ v \in Nat /\ v > 0
           /\ \/ a \in Reverters /\ UNCHANGED account
              \/ balance'[a] = balance[a] - v /\ exchanger'[a] = v
<1>1. v \in Nat /\ MinPledge \in Nat /\ MinPledge > 0 /\ MinExchanger \in Nat /\ MinExchanger > 0
  BY StakingBounds
<1>2. /\ balance \in [Accounts -> Nat] /\ pledged \in [Accounts -> Nat] /\ exchanger \in [Accounts -> Nat]
      /\ opened \in [Accounts -> Opened] /\ \A x \in Accounts : opened[x].since <= number
      /\ number \in Nat
  BY DEF Types, AccountTypes
<1>3. v >= MinExchanger /\ balance[a] >= v
  BY DEF OpenExchanger, CanOpen
<1>4. /\ txs < MaxTx /\ txs' = txs + 1 /\ UNCHANGED <<stored, number, active, pledgeList>>
      /\ exchangeList' = Append(exchangeList, [addr |-> a, amount |-> v, flag |-> TRUE])
  BY Zenon DEF OpenExchanger, Call, Noted
<1>5. [addr |-> a, amount |-> v, flag |-> TRUE] \in Note
  BY <1>1, <1>2 DEF Note
<1>6. CASE UNCHANGED account /\ a \in Reverters
  BY <1>1, <1>2, <1>3, <1>4, <1>5, <1>6 DEF Spends, account
<1>7. CASE /\ balance' = [balance EXCEPT ![a] = @ - v] /\ exchanger' = [exchanger EXCEPT ![a] = v]
           /\ opened' = IF opened[a].flag THEN opened
                        ELSE [opened EXCEPT ![a] = [flag |-> TRUE, since |-> number]]
           /\ UNCHANGED pledged
  <2>1. balance[a] - v \in Nat /\ v \in Nat
    BY <1>1, <1>2, <1>3
  <2>2. opened' \in [Accounts -> Opened] /\ \A x \in Accounts : opened'[x].since <= number
    <3>1. [flag |-> TRUE, since |-> number] \in Opened
      BY <1>2 DEF Opened
    <3>. QED  BY <1>2, <1>7, <3>1 DEF Opened
  <2>. QED  BY <1>1, <1>2, <1>3, <1>4, <1>5, <1>7, <2>1, <2>2 DEF Spends
<1>. QED  BY <1>6, <1>7, Zenon DEF OpenExchanger, Reverted

\* What closing one does.
LEMMA CloseSpends ==
    ASSUME Types, NEW a \in Accounts, CloseExchanger(a)
    PROVE  /\ Spends(a, [addr |-> a, amount |-> exchanger[a], flag |-> FALSE])
           /\ exchangeList' = Append(exchangeList, [addr |-> a, amount |-> exchanger[a], flag |-> FALSE])
           /\ UNCHANGED <<pledgeList, pledged>> /\ exchanger[a] \in Nat /\ exchanger[a] >= 0
           /\ \/ a \in Reverters /\ UNCHANGED account
              \/ balance'[a] = balance[a] + exchanger[a] /\ exchanger'[a] = 0
<1>1. MinPledge \in Nat /\ MinPledge > 0 /\ MinExchanger \in Nat /\ MinExchanger > 0
  BY StakingBounds
<1>2. /\ balance \in [Accounts -> Nat] /\ pledged \in [Accounts -> Nat] /\ exchanger \in [Accounts -> Nat]
      /\ opened \in [Accounts -> Opened] /\ \A x \in Accounts : opened[x].since <= number
      /\ number \in Nat
  BY DEF Types, AccountTypes
<1>3. exchanger[a] \in Nat
  BY <1>2
<1>4. /\ txs < MaxTx /\ txs' = txs + 1 /\ UNCHANGED <<stored, number, active, pledgeList>>
      /\ exchangeList' = Append(exchangeList, [addr |-> a, amount |-> exchanger[a], flag |-> FALSE])
  BY Zenon DEF CloseExchanger, Call, Noted
<1>5. [addr |-> a, amount |-> exchanger[a], flag |-> FALSE] \in Note
  BY <1>1, <1>2 DEF Note
<1>6. CASE UNCHANGED account /\ a \in Reverters
  BY <1>1, <1>2, <1>3, <1>4, <1>5, <1>6 DEF Spends, account
<1>7. CASE /\ balance' = [balance EXCEPT ![a] = @ + exchanger[a]] /\ exchanger' = [exchanger EXCEPT ![a] = 0]
           /\ opened' = IF opened[a].flag THEN [opened EXCEPT ![a] = NotOpen] ELSE opened
           /\ UNCHANGED pledged
  <2>1. balance[a] + exchanger[a] \in Nat /\ 0 \in Nat
    BY <1>1, <1>2, <1>3
  <2>2. opened' \in [Accounts -> Opened] /\ \A x \in Accounts : opened'[x].since <= number
    <3>1. NotOpen \in Opened /\ NotOpen.since <= number
      BY <1>2 DEF Opened, NotOpen
    <3>. QED  BY <1>2, <1>7, <3>1
  <2>. QED  BY <1>1, <1>2, <1>3, <1>4, <1>5, <1>7, <2>1, <2>2 DEF Spends
<1>. QED  BY <1>6, <1>7, Zenon DEF CloseExchanger, Reverted

\* What adding to one does.
LEMMA AddSpends ==
    ASSUME Types, NEW a \in Accounts, NEW v \in Values, AddExchangerToken(a, v)
    PROVE  /\ Spends(a, [addr |-> a, amount |-> v, flag |-> TRUE])
           /\ exchangeList' = Append(exchangeList, [addr |-> a, amount |-> v, flag |-> TRUE])
           /\ UNCHANGED <<pledgeList, pledged>> /\ v \in Nat /\ v >= 0
           /\ \/ a \in Reverters /\ UNCHANGED account
              \/ balance'[a] = balance[a] - v /\ exchanger'[a] = exchanger[a] + v
<1>1. v \in Nat /\ MinPledge \in Nat /\ MinPledge > 0 /\ MinExchanger \in Nat /\ MinExchanger > 0
  BY StakingBounds
<1>2. /\ balance \in [Accounts -> Nat] /\ pledged \in [Accounts -> Nat] /\ exchanger \in [Accounts -> Nat]
      /\ opened \in [Accounts -> Opened] /\ \A x \in Accounts : opened[x].since <= number
      /\ number \in Nat
  BY DEF Types, AccountTypes
<1>3. balance[a] >= v
  BY DEF AddExchangerToken
<1>4. /\ txs < MaxTx /\ txs' = txs + 1 /\ UNCHANGED <<stored, number, active, pledgeList>>
      /\ exchangeList' = Append(exchangeList, [addr |-> a, amount |-> v, flag |-> TRUE])
  BY Zenon DEF AddExchangerToken, Call, Noted
<1>5. [addr |-> a, amount |-> v, flag |-> TRUE] \in Note
  BY <1>1, <1>2 DEF Note
<1>6. CASE UNCHANGED account /\ a \in Reverters
  BY <1>1, <1>2, <1>3, <1>4, <1>5, <1>6 DEF Spends, account
<1>7. CASE /\ balance' = [balance EXCEPT ![a] = @ - v] /\ exchanger' = [exchanger EXCEPT ![a] = @ + v]
           /\ UNCHANGED <<pledged, opened>>
  <2>1. balance[a] - v \in Nat /\ exchanger[a] + v \in Nat
    BY <1>1, <1>2, <1>3
  <2>. QED  BY <1>1, <1>2, <1>3, <1>4, <1>5, <1>7, <2>1 DEF Spends
<1>. QED  BY <1>6, <1>7, Zenon DEF AddExchangerToken, Reverted

\* What taking some of it back does.
LEMMA SubSpends ==
    ASSUME Types, NEW a \in Accounts, NEW v \in Values, SubExchangerToken(a, v)
    PROVE  /\ Spends(a, [addr |-> a, amount |-> v, flag |-> FALSE])
           /\ exchangeList' = Append(exchangeList, [addr |-> a, amount |-> v, flag |-> FALSE])
           /\ UNCHANGED <<pledgeList, pledged>> /\ v \in Nat /\ exchanger[a] > v
           /\ \/ a \in Reverters /\ UNCHANGED account
              \/ balance'[a] = balance[a] + v /\ exchanger'[a] = exchanger[a] - v
<1>1. v \in Nat /\ MinPledge \in Nat /\ MinPledge > 0 /\ MinExchanger \in Nat /\ MinExchanger > 0
  BY StakingBounds
<1>2. /\ balance \in [Accounts -> Nat] /\ pledged \in [Accounts -> Nat] /\ exchanger \in [Accounts -> Nat]
      /\ opened \in [Accounts -> Opened] /\ \A x \in Accounts : opened[x].since <= number
      /\ number \in Nat
  BY DEF Types, AccountTypes
<1>3. exchanger[a] >= v + MinExchanger
  BY DEF SubExchangerToken, CanReduce
<1>4. /\ txs < MaxTx /\ txs' = txs + 1 /\ UNCHANGED <<stored, number, active, pledgeList>>
      /\ exchangeList' = Append(exchangeList, [addr |-> a, amount |-> v, flag |-> FALSE])
  BY Zenon DEF SubExchangerToken, Call, Noted
<1>5. [addr |-> a, amount |-> v, flag |-> FALSE] \in Note
  BY <1>1, <1>2 DEF Note
<1>6. CASE UNCHANGED account /\ a \in Reverters
  BY <1>1, <1>2, <1>3, <1>4, <1>5, <1>6 DEF Spends, account
<1>7. CASE /\ balance' = [balance EXCEPT ![a] = @ + v] /\ exchanger' = [exchanger EXCEPT ![a] = @ - v]
           /\ UNCHANGED <<pledged, opened>>
  <2>1. balance[a] + v \in Nat /\ exchanger[a] - v \in Nat
    BY <1>1, <1>2, <1>3
  <2>. QED  BY <1>1, <1>2, <1>3, <1>4, <1>5, <1>7, <2>1 DEF Spends
<1>. QED  BY <1>6, <1>7, Zenon DEF SubExchangerToken, Reverted

Notes(note) ==
    \/ pledgeList' = Append(pledgeList, note) /\ UNCHANGED exchangeList
    \/ exchangeList' = Append(exchangeList, note) /\ UNCHANGED pledgeList

\* Transactions with amounts keep the types.
LEMMA SpendsTypes ==
    ASSUME Types, NEW a, NEW note, Spends(a, note), Notes(note)
    PROVE  Types'
<1>1. stored' = stored /\ number' = number /\ active' = active
  BY DEF Spends
<1>2. AccountTypes'
  BY <1>1 DEF Spends, AccountTypes
<1>3. ListTypes'
  <2>1. note \in Note
    BY DEF Spends
  <2>2. \A l \in Seq(Note) : Append(l, note) \in Seq(Note)
    BY <2>1
  <2>3. stakers' = stakers /\ validators' = validators
    BY <1>1 DEF stored
  <2>. QED  BY <2>2, <2>3, Zenon DEF Types, ListTypes, Notes
<1>4. MinerTypes'
  BY <1>1, Zenon DEF Types, MinerTypes, stored
<1>5. txs' \in 0 .. MaxTx
  BY StakingBounds DEF Spends, Types
<1>. QED  BY <1>1, <1>2, <1>3, <1>4, <1>5 DEF Types

\* Miners are functions, with any domain.
LEMMA MinersAre ==
    /\ \A m \in Miners : DOMAIN m \in SUBSET Accounts /\ \A a \in DOMAIN m : m[a].stake \in Nat /\ m[a].height \in Nat
    /\ \A D \in SUBSET Accounts : \A m \in [D -> [stake : Nat, height : Nat]] : m \in Miners
<1>1. \A D \in SUBSET Accounts : \A m \in [D -> [stake : Nat, height : Nat]] : m \in Miners
  BY DEF Miners
<1>2. ASSUME NEW m \in Miners
      PROVE  DOMAIN m \in SUBSET Accounts /\ \A a \in DOMAIN m : m[a].stake \in Nat /\ m[a].height \in Nat
  BY DEF Miners
<1>. QED  BY <1>1, <1>2

\* What a proof of being online pays.
Pays(a, to, v) ==
    \/ balance' = balance
    \/ balance[a] >= v /\ balance' = [balance EXCEPT ![a] = @ - v, ![to] = @ + v]

\* A miner that shows that it is online gets the number of the block.
LEMMA LivenessIs ==
    ASSUME Types, NEW a \in Accounts, NEW to \in Accounts, NEW v \in Values, LivenessTx(a, to, v)
    PROVE  /\ active' \in Miners /\ DOMAIN active' = DOMAIN active \cup {a}
           /\ active'[a].height = number
           /\ \A x \in DOMAIN active \ {a} : active'[x] = active[x]
           /\ txs' = txs + 1 /\ txs < MaxTx /\ Pays(a, to, v)
           /\ UNCHANGED <<pledged, exchanger, opened, pledgeList, exchangeList, stored, number>>
<1>. DEFINE st == IF a \in DOMAIN active THEN active[a].stake ELSE v
            r == [stake |-> st, height |-> number]
<1>1. active' = [x \in DOMAIN active \cup {a} |-> IF x = a THEN r ELSE active[x]]
  BY Zenon DEF LivenessTx, Put
<1>2. active \in Miners /\ number \in Nat /\ v \in Nat /\ balance[a] \in Nat
  BY StakingBounds DEF Types, MinerTypes, AccountTypes
<1>3. DOMAIN active \in SUBSET Accounts /\ active \in [DOMAIN active -> [stake : Nat, height : Nat]]
  BY <1>2 DEF Miners
<1>4. r \in [stake : Nat, height : Nat]
  BY <1>2, <1>3
<1>5. r.height = number
  OBVIOUS
<1>. HIDE DEF r
<1>6. active' \in [DOMAIN active \cup {a} -> [stake : Nat, height : Nat]] /\ DOMAIN active \cup {a} \in SUBSET Accounts
  BY <1>1, <1>3, <1>4
<1>7. active' \in Miners
  BY <1>6, MinersAre, Zenon
<1>8. /\ txs' = txs + 1 /\ txs < MaxTx
      /\ UNCHANGED <<pledged, exchanger, opened, pledgeList, exchangeList, stored, number>>
  BY DEF LivenessTx, Call, Reverted, account
<1>9. v = 0 \/ balance[a] >= v
  BY DEF LivenessTx, Call
<1>10. balance' = balance \/ balance' = [balance EXCEPT ![a] = @ - v, ![to] = @ + v]
  BY Zenon DEF LivenessTx, Reverted, account
<1>11. Pays(a, to, v)
  BY <1>2, <1>9, <1>10 DEF Pays
<1>. QED  BY <1>1, <1>5, <1>7, <1>8, <1>11

\* It takes what it pays from one account, and gives it to another.
LEMMA PaysTypes ==
    ASSUME Types, NEW a \in Accounts, NEW to \in Accounts, NEW v \in Values, Pays(a, to, v)
    PROVE  balance' \in [Accounts -> Nat]
<1>1. balance \in [Accounts -> Nat] /\ v \in Nat
  BY StakingBounds DEF Types, AccountTypes
<1>. QED  BY <1>1 DEF Pays

\* A proof of being online keeps the types.
LEMMA LivenessTypes ==
    ASSUME Types, NEW a \in Accounts, NEW to \in Accounts, NEW v \in Values, LivenessTx(a, to, v)
    PROVE  Types'
<1>1. /\ active' \in Miners /\ DOMAIN active' = DOMAIN active \cup {a} /\ active'[a].height = number
      /\ \A x \in DOMAIN active \ {a} : active'[x] = active[x]
      /\ txs' = txs + 1 /\ txs < MaxTx /\ Pays(a, to, v)
      /\ UNCHANGED <<pledged, exchanger, opened, pledgeList, exchangeList, stored, number>>
  BY LivenessIs
<1>2. balance' \in [Accounts -> Nat]
  BY <1>1, PaysTypes, Zenon
<1>3. AccountTypes' /\ ListTypes'
  BY <1>1, <1>2 DEF Types, AccountTypes, ListTypes, stored
<1>4. MinerTypes'
  BY <1>1 DEF Types, MinerTypes, stored
<1>5. txs' \in 0 .. MaxTx
  BY <1>1, StakingBounds DEF Types
<1>. QED  BY <1>1, <1>3, <1>4, <1>5 DEF Types

\* The miners of a block are the validators that were online lately.
LEMMA WriteBlockIs ==
    ASSUME Types, WriteBlock
    PROVE  /\ stakers' = Updated(stakers, exchangeList) /\ stakers' \in Pool
           /\ validators' = Updated(validators, pledgeList) /\ validators' \in Pool
           /\ miners' \in Miners /\ active' = miners'
           /\ \A a \in DOMAIN miners' :
                 /\ a \in DOMAIN active /\ a \in DOMAIN validators'
                 /\ miners'[a].stake = validators'[a] /\ miners'[a].height = active[a].height
                 /\ ~ Inactive(active[a].height)
           /\ pledgeList' = <<>> /\ exchangeList' = <<>> /\ number' = number + 1 /\ number < MaxNumber
           /\ UNCHANGED <<account, txs>>
<1>1. /\ stakers' = Updated(stakers, exchangeList) /\ validators' = Updated(validators, pledgeList)
      /\ pledgeList' = <<>> /\ exchangeList' = <<>> /\ number' = number + 1 /\ number < MaxNumber
      /\ UNCHANGED <<account, txs>> /\ active' = miners'
  BY DEF WriteBlock
<1>2. stakers' \in Pool /\ validators' \in Pool
  BY <1>1, UpdatedSteps, Zenon DEF Types, ListTypes
<1>. DEFINE v == validators'
            e == Effective(v)
            D == {a \in DOMAIN e : ~ Inactive(e[a].height)}
<1>3. miners' = [a \in D |-> e[a]]
  BY Zenon DEF WriteBlock, Restrict
<1>. HIDE DEF v
<1>4. active \in Miners /\ active \in [DOMAIN active -> [stake : Nat, height : Nat]]
  BY DEF Types, MinerTypes, Miners
<1>5. DOMAIN v \in SUBSET Accounts /\ \A a \in DOMAIN v : v[a] \in Nat
  BY <1>2, PoolIs DEF v
<1>6. /\ DOMAIN e = DOMAIN active \cap DOMAIN v
      /\ \A a \in DOMAIN e : e[a] = [active[a] EXCEPT !.stake = v[a]]
  BY DEF Effective
<1>7. ASSUME NEW a \in DOMAIN e
      PROVE  /\ e[a] \in [stake : Nat, height : Nat] /\ e[a].stake = v[a]
             /\ e[a].height = active[a].height
  BY <1>4, <1>5, <1>6
<1>. HIDE DEF e
<1>8. miners' \in [D -> [stake : Nat, height : Nat]] /\ D \in SUBSET Accounts
  BY <1>3, <1>5, <1>6, <1>7
<1>9. miners' \in Miners
  BY <1>8, MinersAre, Zenon
<1>10. ASSUME NEW a \in DOMAIN miners'
       PROVE  /\ a \in DOMAIN active /\ a \in DOMAIN v
              /\ miners'[a].stake = v[a] /\ miners'[a].height = active[a].height
              /\ ~ Inactive(active[a].height)
  <2>1. a \in DOMAIN e /\ ~ Inactive(e[a].height) /\ miners'[a] = e[a]
    BY <1>3
  <2>. QED  BY <1>6, <1>7, <2>1
<1>. QED  BY <1>1, <1>2, <1>9, <1>10 DEF v

\* So does the end of a block.
LEMMA WriteBlockTypes ==
    ASSUME Types, WriteBlock
    PROVE  Types'
<1>1. /\ stakers' \in Pool /\ validators' \in Pool /\ miners' \in Miners /\ active' = miners'
      /\ \A a \in DOMAIN miners' : a \in DOMAIN active /\ miners'[a].height = active[a].height
      /\ pledgeList' = <<>> /\ exchangeList' = <<>> /\ number' = number + 1 /\ number < MaxNumber
      /\ UNCHANGED <<account, txs>>
  BY WriteBlockIs
<1>2. number \in Nat /\ number' \in 1 .. MaxNumber
  BY <1>1, StakingBounds DEF Types
<1>3. AccountTypes'
  <2>1. ASSUME NEW a \in Accounts PROVE opened[a].since <= number + 1
    BY <1>2 DEF Types, AccountTypes, Opened
  <2>. QED  BY <1>1, <2>1 DEF Types, AccountTypes, account
<1>4. ListTypes'
  BY <1>1 DEF ListTypes
<1>5. MinerTypes'
  <2>1. \A a \in DOMAIN active : active[a].height \in Nat /\ active[a].height <= number
    BY MinersAre DEF Types, MinerTypes
  <2>2. \A a \in DOMAIN miners' : miners'[a].height <= number'
    BY <1>1, <1>2, <2>1
  <2>. QED  BY <1>1, <2>2, Zenon DEF MinerTypes
<1>. QED  BY <1>1, <1>2, <1>3, <1>4, <1>5 DEF Types

-----------------------------------------------------------------------------
(* The lists against the accounts.                                         *)

NewValidators == Updated(validators, pledgeList)
NewStakers == Updated(stakers, exchangeList)

\* A validator has a stake, also one whose calls are reverted.
Staked == \A a \in DOMAIN NewValidators : NewValidators[a] > 0

ListInv == PledgeMirror /\ Staked /\ StakersCover

\* Both lists are pools, with the notes carried over.
LEMMA NewPools ==
    ASSUME Types
    PROVE  /\ NewValidators \in Pool /\ NewStakers \in Pool
           /\ \A a \in DOMAIN NewValidators : a \in Accounts /\ NewValidators[a] \in Nat
           /\ \A a \in DOMAIN NewStakers : a \in Accounts /\ NewStakers[a] \in Nat
<1>1. NewValidators \in Pool /\ NewStakers \in Pool
  BY UpdatedSteps, Zenon DEF Types, ListTypes, NewValidators, NewStakers
<1>. QED  BY <1>1, PoolIs

\* A note on a pledge changes the list of validators by that note.
LEMMA PledgeNoted ==
    ASSUME Types, NEW note \in Note, pledgeList' = Append(pledgeList, note),
           UNCHANGED <<stored, exchangeList>>
    PROVE  NewValidators' = Carried(NewValidators, note) /\ NewStakers' = NewStakers
<1>1. validators' = validators /\ stakers' = stakers /\ exchangeList' = exchangeList
  BY DEF stored
<1>2. validators \in Pool /\ pledgeList \in Seq(Note)
  BY DEF Types, ListTypes
<1>3. Updated(validators, Append(pledgeList, note)) = Carried(Updated(validators, pledgeList), note)
  BY <1>2, UpdatedSteps, Zenon
<1>. QED  BY <1>1, <1>3, Zenon DEF NewValidators, NewStakers

\* The same of exchanges.
LEMMA ExchangeNoted ==
    ASSUME Types, NEW note \in Note, exchangeList' = Append(exchangeList, note),
           UNCHANGED <<stored, pledgeList>>
    PROVE  NewStakers' = Carried(NewStakers, note) /\ NewValidators' = NewValidators
<1>1. validators' = validators /\ stakers' = stakers /\ pledgeList' = pledgeList
  BY DEF stored
<1>2. stakers \in Pool /\ exchangeList \in Seq(Note)
  BY DEF Types, ListTypes
<1>3. Updated(stakers, Append(exchangeList, note)) = Carried(Updated(stakers, exchangeList), note)
  BY <1>2, UpdatedSteps, Zenon
<1>. QED  BY <1>1, <1>3, Zenon DEF NewValidators, NewStakers

\* A pledge, and taking one back, change the accounts and the list alike.
LEMMA PledgeListInv ==
    ASSUME Types, ListInv, NEW a \in Accounts, NEW v \in Values,
           PledgeToken(a, v) \/ CancelPledgedToken(a, v)
    PROVE  ListInv'
<1>0. PICK f \in BOOLEAN :
        /\ Spends(a, [addr |-> a, amount |-> v, flag |-> f])
        /\ pledgeList' = Append(pledgeList, [addr |-> a, amount |-> v, flag |-> f])
        /\ UNCHANGED <<exchangeList, exchanger>> /\ v \in Nat
        /\ f => v > 0
        /\ ~ f => pledged[a] >= v
        /\ \/ a \in Reverters /\ UNCHANGED account
           \/ pledged'[a] = IF f THEN pledged[a] + v ELSE pledged[a] - v
  <2>1. CASE PledgeToken(a, v)
    BY <2>1, PledgeSpends, Zenon
  <2>2. CASE CancelPledgedToken(a, v)
    BY <2>2, CancelSpends, Zenon
  <2>. QED  BY <2>1, <2>2, Zenon
<1>. DEFINE note == [addr |-> a, amount |-> v, flag |-> f]
            pool == NewValidators
            new == Carried(NewValidators, note)
<1>1. note \in Note /\ note.addr = a /\ note.amount = v /\ note.flag = f
  BY <1>0 DEF Note
<1>2. /\ UNCHANGED <<stored, exchangeList, exchanger>>
      /\ \A x \in Accounts \ {a} : pledged'[x] = pledged[x]
      /\ pledged \in [Accounts -> Nat]
  BY <1>0, Zenon DEF Spends, Types, AccountTypes
<1>3. pledgeList' = Append(pledgeList, note)
  BY <1>0
<1>. HIDE DEF note
<1>4. NewValidators' = new /\ NewStakers' = NewStakers
  BY <1>1, <1>2, <1>3, PledgeNoted, Zenon
<1>5. pool \in Pool /\ \A x \in DOMAIN pool : pool[x] \in Nat
  BY NewPools
<1>. HIDE DEF pool
<1>6. /\ new \in Pool
      /\ \A x \in Accounts \ {a} : (x \in DOMAIN new <=> x \in DOMAIN pool) /\ (x \in DOMAIN pool => new[x] = pool[x])
      /\ f => a \in DOMAIN new /\ new[a] = v + (IF a \in DOMAIN pool THEN pool[a] ELSE 0)
      /\ ~ f /\ a \in DOMAIN pool /\ pool[a] > v => a \in DOMAIN new /\ new[a] = pool[a] - v
      /\ ~ f /\ (a \in DOMAIN pool => pool[a] <= v) => a \notin DOMAIN new
  BY <1>1, <1>5, CarriedIs DEF pool
<1>7. \A x \in DOMAIN new : x \in Accounts
  BY <1>6, PoolIs
<1>. HIDE DEF new
<1>8. \A x \in DOMAIN pool : pool[x] > 0
  BY DEF ListInv, Staked, pool
<1>9. Staked'
  <2>1. ASSUME NEW x \in DOMAIN new PROVE new[x] > 0
    BY <1>0, <1>5, <1>6, <1>7, <1>8, SMTT(30)
  <2>. QED  BY <1>4, <2>1, SMTT(30) DEF Staked
<1>10. PledgeMirror'
  <2>. SUFFICES ASSUME NEW x \in Accounts \ Reverters
                PROVE  IF x \in DOMAIN new THEN pledged'[x] = new[x] /\ pledged'[x] > 0 ELSE pledged'[x] = 0
    BY <1>4, SMTT(30) DEF PledgeMirror, Mirrors, NewValidators
  <2>1. IF x \in DOMAIN pool THEN pledged[x] = pool[x] /\ pledged[x] > 0 ELSE pledged[x] = 0
    BY DEF ListInv, PledgeMirror, Mirrors, NewValidators, pool
  <2>2. CASE x # a
    BY <1>2, <1>6, <2>1, <2>2, SMTT(30)
  <2>3. CASE x = a /\ f
    BY <1>0, <1>2, <1>5, <1>6, <2>1, <2>3, SMTT(30)
  <2>4. CASE x = a /\ ~ f
    BY <1>0, <1>2, <1>5, <1>6, <2>1, <2>4, SMTT(30)
  <2>. QED  BY <2>2, <2>3, <2>4, SMTT(30)
<1>11. StakersCover'
  BY <1>2, <1>4 DEF ListInv, StakersCover, NewStakers
<1>. QED  BY <1>9, <1>10, <1>11, Zenon DEF ListInv

Exchanges(a, v, f) ==
    /\ Spends(a, [addr |-> a, amount |-> v, flag |-> f])
    /\ exchangeList' = Append(exchangeList, [addr |-> a, amount |-> v, flag |-> f])
    /\ UNCHANGED <<pledgeList, pledged>>
    /\ \/ a \in Reverters /\ UNCHANGED account
       \/ f /\ exchanger'[a] \in {v, exchanger[a] + v}
       \/ ~ f /\ exchanger'[a] = exchanger[a] - v /\ exchanger[a] >= v

\* The transactions of an exchange note what they add or take away.
LEMMA ExchangeSpends ==
    ASSUME Types, NEW a \in Accounts,
           \/ CloseExchanger(a)
           \/ \E v \in Values : OpenExchanger(a, v) \/ AddExchangerToken(a, v) \/ SubExchangerToken(a, v)
    PROVE  \E v \in Nat, f \in BOOLEAN : Exchanges(a, v, f)
<1>0. exchanger[a] \in Nat
  BY DEF Types, AccountTypes
<1>1. CASE CloseExchanger(a)
  <2>1. 0 = exchanger[a] - exchanger[a] /\ exchanger[a] >= exchanger[a]
    BY <1>0
  <2>2. Exchanges(a, exchanger[a], FALSE)
    BY <1>1, <2>1, CloseSpends, Zenon DEF Exchanges
  <2>. QED  BY <1>0, <2>2, Zenon
<1>2. ASSUME NEW v \in Values, OpenExchanger(a, v) PROVE v \in Nat /\ Exchanges(a, v, TRUE)
  <2>1. v \in Nat /\ v \in {v, exchanger[a] + v}
    BY <1>2, OpenSpends, Zenon
  <2>. QED  BY <1>2, <2>1, OpenSpends, Zenon DEF Exchanges
<1>3. ASSUME NEW v \in Values, AddExchangerToken(a, v) PROVE v \in Nat /\ Exchanges(a, v, TRUE)
  <2>1. v \in Nat /\ exchanger[a] + v \in {v, exchanger[a] + v}
    BY <1>3, AddSpends, Zenon
  <2>. QED  BY <1>3, <2>1, AddSpends, Zenon DEF Exchanges
<1>4. ASSUME NEW v \in Values, SubExchangerToken(a, v) PROVE v \in Nat /\ Exchanges(a, v, FALSE)
  <2>1. v \in Nat /\ exchanger[a] > v
    BY <1>4, SubSpends, Zenon
  <2>2. exchanger[a] >= v
    BY <1>0, <2>1
  <2>. QED  BY <1>4, <2>1, <2>2, SubSpends, Zenon DEF Exchanges
<1>5. TRUE \in BOOLEAN /\ FALSE \in BOOLEAN
  OBVIOUS
<1>. QED  BY <1>1, <1>2, <1>3, <1>4, <1>5, Zenon

\* They change the accounts and the list alike, but for a balance that is replaced: that
\* stays in the list.
LEMMA ExchangeListInv ==
    ASSUME Types, ListInv, NEW a \in Accounts, NEW v \in Nat, NEW f \in BOOLEAN, Exchanges(a, v, f)
    PROVE  ListInv'
<1>. DEFINE note == [addr |-> a, amount |-> v, flag |-> f]
            pool == NewStakers
            new == Carried(NewStakers, note)
<1>1. note \in Note /\ note.addr = a /\ note.amount = v /\ note.flag = f
  BY DEF Note
<1>2. /\ UNCHANGED <<stored, pledgeList, pledged>>
      /\ \A x \in Accounts \ {a} : exchanger'[x] = exchanger[x]
      /\ exchanger \in [Accounts -> Nat] /\ exchanger' \in [Accounts -> Nat]
      /\ exchangeList' = Append(exchangeList, note)
  BY Zenon DEF Exchanges, Spends, Types, AccountTypes
<1>. HIDE DEF note
<1>3. NewStakers' = new /\ NewValidators' = NewValidators
  BY <1>1, <1>2, ExchangeNoted, Zenon
<1>4. pool \in Pool /\ \A x \in DOMAIN pool : pool[x] \in Nat
  BY NewPools
<1>. HIDE DEF pool
<1>5. /\ \A x \in Accounts \ {a} : (x \in DOMAIN new <=> x \in DOMAIN pool) /\ (x \in DOMAIN pool => new[x] = pool[x])
      /\ f => a \in DOMAIN new /\ new[a] = v + (IF a \in DOMAIN pool THEN pool[a] ELSE 0)
      /\ ~ f /\ a \in DOMAIN pool /\ pool[a] > v => a \in DOMAIN new /\ new[a] = pool[a] - v
  BY <1>1, <1>4, CarriedIs, SMTT(30) DEF pool
<1>. HIDE DEF new
<1>6. Staked' /\ PledgeMirror'
  BY <1>2, <1>3 DEF ListInv, Staked, PledgeMirror, Mirrors, NewValidators
<1>7. StakersCover'
  <2>. SUFFICES ASSUME NEW x \in Accounts \ Reverters, exchanger'[x] > 0
                PROVE  x \in DOMAIN new /\ new[x] >= exchanger'[x]
    BY <1>3 DEF StakersCover, NewStakers
  <2>1. exchanger[x] > 0 => x \in DOMAIN pool /\ pool[x] >= exchanger[x]
    BY DEF ListInv, StakersCover, NewStakers, pool
  <2>2. CASE x # a
    BY <1>2, <1>5, <2>1, <2>2
  <2>3. CASE x = a /\ f
    <3>1. exchanger'[a] \in {v, exchanger[a] + v}
      BY <2>3 DEF Exchanges
    <3>. QED  BY <1>2, <1>4, <1>5, <2>1, <2>3, <3>1, SMTT(30)
  <2>4. CASE x = a /\ ~ f
    <3>1. exchanger'[a] = exchanger[a] - v /\ exchanger[a] >= v
      BY <2>4 DEF Exchanges
    <3>. QED  BY <1>2, <1>4, <1>5, <2>1, <2>4, <3>1
  <2>. QED  BY <2>2, <2>3, <2>4
<1>. QED  BY <1>6, <1>7, Zenon DEF ListInv

\* Writing the block stores the lists with the notes carried over.
LEMMA WriteBlockListInv ==
    ASSUME Types, ListInv, WriteBlock
    PROVE  ListInv' /\ NewValidators' = validators'
<1>1. /\ stakers' = NewStakers /\ validators' = NewValidators /\ stakers' \in Pool /\ validators' \in Pool
      /\ pledgeList' = <<>> /\ exchangeList' = <<>> /\ UNCHANGED account
  BY WriteBlockIs DEF NewStakers, NewValidators
<1>2. <<>> \in Seq(Note)
  OBVIOUS
<1>3. Updated(stakers', <<>>) = stakers' /\ Updated(validators', <<>>) = validators'
  BY <1>1, <1>2, UpdatedSteps, Zenon
<1>4. NewStakers' = NewStakers /\ NewValidators' = NewValidators
  BY <1>1, <1>3, Zenon DEF NewStakers, NewValidators
<1>5. pledged' = pledged /\ exchanger' = exchanger
  BY <1>1 DEF account
<1>6. PledgeMirror'
  BY <1>4, <1>5 DEF ListInv, PledgeMirror, Mirrors, NewValidators
<1>7. StakersCover'
  BY <1>4, <1>5 DEF ListInv, StakersCover, NewStakers
<1>8. Staked'
  BY <1>4 DEF ListInv, Staked
<1>. QED  BY <1>1, <1>4, <1>6, <1>7, <1>8, ZenonT(30) DEF ListInv

-----------------------------------------------------------------------------
(* Active miners.                                                          *)

\* Division with remainder.
LEMMA DivMod == ASSUME NEW C \in Nat \ {0}, NEW y \in Int
  PROVE y \div C \in Int /\ y % C \in 0 .. C - 1 /\ y = C * (y \div C) + (y % C)
OBVIOUS

\* The remainder is the only one.
LEMMA ModIs == ASSUME NEW C \in Nat \ {0}, NEW q \in Int, NEW r \in 0 .. C - 1
  PROVE (C * q + r) % C = r
<1>. DEFINE y == C * q + r
            p == y \div C
            s == y % C
<1>1. y \in Int
  OBVIOUS
<1>2. p \in Int /\ s \in 0 .. C - 1 /\ y = C * p + s
  BY <1>1, DivMod
<1>. HIDE DEF p, s
<1>3. C * q - C * p = s - r
  BY <1>2
<1>4. C * (q - p) = s - r
  BY <1>2, <1>3
<1>. DEFINE d == q - p
<1>5. d \in Int /\ C * d = s - r
  BY <1>2, <1>4
<1>. HIDE DEF d
<1>6. CASE d >= 1
  <2>1. C * d >= C
    BY <1>5, <1>6
  <2>. QED BY <1>2, <1>5, <2>1
<1>7. CASE d <= -1
  <2>1. C * d <= -C
    BY <1>5, <1>7
  <2>. QED BY <1>2, <1>5, <2>1
<1>8. CASE d = 0
  BY <1>2, <1>5, <1>8 DEF s
<1>. QED BY <1>5, <1>6, <1>7, <1>8

\* The number of blocks since inactive miners were, or could have been, looked for.
Since(n) == (n + Cycle - CheckAt) % Cycle

\* It counts up, except where they are looked for.
LEMMA SinceSteps ==
    ASSUME NEW n \in Nat
    PROVE  /\ Since(n) \in 0 .. Cycle - 1
           /\ (n + 1) % Cycle # CheckAt => Since(n + 1) = Since(n) + 1
<1>. DEFINE x == n + Cycle - CheckAt
            q == x \div Cycle
            r == x % Cycle
<1>1. Cycle \in Nat \ {0} /\ CheckAt \in 0 .. Cycle - 1 /\ x \in Int
  BY StakingBounds
<1>2. q \in Int /\ r \in 0 .. Cycle - 1 /\ x = Cycle * q + r
  BY <1>1, DivMod
<1>3. Since(n) = r /\ Since(n + 1) = (x + 1) % Cycle
  BY <1>1 DEF Since
<1>. HIDE DEF q, r
<1>4. CASE r + 1 \in 0 .. Cycle - 1
  <2>1. x + 1 = Cycle * q + (r + 1)
    BY <1>1, <1>2
  <2>2. (Cycle * q + (r + 1)) % Cycle = r + 1
    BY <1>1, <1>2, <1>4, ModIs, Zenon
  <2>. QED  BY <1>2, <1>3, <2>1, <2>2
<1>5. CASE r = Cycle - 1
  <2>1. n + 1 = Cycle * q + CheckAt
    BY <1>1, <1>2, <1>5
  <2>2. (Cycle * q + CheckAt) % Cycle = CheckAt
    BY <1>1, <1>2, ModIs, Zenon
  <2>. QED  BY <1>2, <1>3, <2>1, <2>2
<1>. QED  BY <1>1, <1>2, <1>4, <1>5

Recently(height) == number - 1 - height <= Grace + Since(number - 1)

RecentlyOnline ==
    /\ \A a \in DOMAIN miners : Recently(miners[a].height)
    /\ \A a \in DOMAIN active : Recently(active[a].height)

\* Whoever is in the list after a block was online lately.
LEMMA WriteBlockMiners ==
    ASSUME Types, ListInv, RecentlyOnline, WriteBlock
    PROVE  ActiveIsStaked' /\ RecentlyOnline'
<1>1. /\ miners' \in Miners /\ active' = miners' /\ number' = number + 1
      /\ \A a \in DOMAIN miners' :
            /\ a \in DOMAIN active /\ a \in DOMAIN validators'
            /\ miners'[a].stake = validators'[a] /\ miners'[a].height = active[a].height
            /\ ~ Inactive(active[a].height)
  BY WriteBlockIs
<1>2. \A a \in DOMAIN validators' : validators'[a] > 0
  BY WriteBlockListInv DEF ListInv, Staked
<1>3. ActiveIsStaked'
  BY <1>1, <1>2 DEF ActiveIsStaked
<1>4. /\ number \in Nat \ {0} /\ Cycle \in Nat \ {0} /\ CheckAt \in 0 .. Cycle - 1
      /\ Grace \in Nat /\ Grace >= Cycle
  BY StakingBounds DEF Types
<1>5. ASSUME NEW a \in DOMAIN miners' PROVE number - miners'[a].height <= Grace + Since(number)
  <2>. DEFINE h == active[a].height
  <2>1. h \in Nat /\ Recently(h) /\ miners'[a].height = h /\ ~ Inactive(h)
    BY <1>1, MinersAre DEF Types, MinerTypes, RecentlyOnline
  <2>. HIDE DEF h
  <2>2. number - 1 \in Nat /\ (number - 1) + 1 = number
    BY <1>4
  <2>3. Since(number) \in 0 .. Cycle - 1 /\ Since(number - 1) \in 0 .. Cycle - 1
    BY <1>4, <2>2, SinceSteps
  <2>4. CASE number % Cycle # CheckAt
    <3>1. Since(number) = Since(number - 1) + 1
      BY <2>2, <2>4, SinceSteps
    <3>. QED  BY <1>4, <2>1, <2>3, <3>1 DEF Recently
  <2>5. CASE number % Cycle = CheckAt /\ number <= Cycle
    BY <1>4, <2>1, <2>3, <2>5
  <2>6. CASE number % Cycle = CheckAt /\ number > Cycle
    BY <1>4, <2>1, <2>3, <2>6 DEF Inactive
  <2>. QED  BY <1>4, <2>4, <2>5, <2>6
<1>6. RecentlyOnline'
  <2>1. number' - 1 = number
    BY <1>1, <1>4
  <2>. QED  BY <1>1, <1>5, <2>1 DEF RecentlyOnline, Recently
<1>. QED  BY <1>3, <1>6

\* Within a block miners come in, and none gets older.
LEMMA LivenessMiners ==
    ASSUME Types, RecentlyOnline, NEW a \in Accounts, NEW to \in Accounts, NEW v \in Values,
           LivenessTx(a, to, v)
    PROVE  RecentlyOnline'
<1>1. /\ DOMAIN active' = DOMAIN active \cup {a} /\ active'[a].height = number
      /\ \A x \in DOMAIN active \ {a} : active'[x] = active[x]
      /\ UNCHANGED <<stored, number>>
  BY LivenessIs
<1>2. number \in Nat \ {0} /\ Grace \in Nat /\ Since(number - 1) \in Nat
  BY StakingBounds, SinceSteps DEF Types
<1>3. Recently(number)
  BY <1>2 DEF Recently
<1>4. \A x \in DOMAIN active' : Recently(active'[x].height)
  BY <1>1, <1>3 DEF RecentlyOnline
<1>5. miners' = miners /\ number' = number
  BY <1>1 DEF stored
<1>. QED  BY <1>4, <1>5 DEF RecentlyOnline, Recently

-----------------------------------------------------------------------------
(* The tokens of all accounts together.                                    *)

Owns(a) == balance[a] + pledged[a] + exchanger[a]

\* Who changes one account only, and leaves it no more than it had, makes no tokens.
LEMMA OneAccount ==
    ASSUME Types, NEW a \in Accounts, NEW note, Spends(a, note), Owns(a)' <= Owns(a)
    PROVE  Total' <= Total
<1>. DEFINE t == [x \in Accounts |-> balance[x] + pledged[x] + exchanger[x]]
            u == [x \in Accounts |-> balance'[x] + pledged'[x] + exchanger'[x]]
            d == u[a] - t[a]
<1>1. /\ balance \in [Accounts -> Nat] /\ pledged \in [Accounts -> Nat] /\ exchanger \in [Accounts -> Nat]
      /\ balance' \in [Accounts -> Nat] /\ pledged' \in [Accounts -> Nat] /\ exchanger' \in [Accounts -> Nat]
      /\ \A x \in Accounts \ {a} : /\ balance'[x] = balance[x] /\ pledged'[x] = pledged[x]
                                   /\ exchanger'[x] = exchanger[x]
  BY Zenon DEF Types, AccountTypes, Spends
<1>2. t \in [Accounts -> Int] /\ u \in [Accounts -> Int] /\ \A x \in Accounts \ {a} : u[x] = t[x]
  BY <1>1, SMTT(30)
<1>3. u[a] <= t[a] /\ DOMAIN t = Accounts /\ DOMAIN u = Accounts
  BY DEF Owns
<1>4. Total = SumFunctionOnSet(t, Accounts) /\ Total' = SumFunctionOnSet(u, Accounts)
  <2>1. Total = SumFunction(t) /\ Total' = SumFunction(u)
    BY DEF Total
  <2>. QED  BY <1>3, <2>1, Zenon DEF SumFunction
<1>. HIDE DEF t, u
<1>5. d \in Int /\ d <= 0
  BY <1>2, <1>3
<1>6. u = Shifted(t, Accounts, a, d)
  BY <1>2 DEF Shifted
<1>. HIDE DEF d
<1>7. IsFiniteSet(Accounts)
  BY StakingBounds
<1>8. SumFunctionOnSet(u, Accounts) = SumFunctionOnSet(t, Accounts) + d
  BY <1>2, <1>5, <1>6, <1>7, SumShift, Zenon
<1>9. SumFunctionOnSet(t, Accounts) \in Int
  <2>1. AddsUp(t, Accounts)
    BY <1>2, <1>7, SumParts, Zenon
  <2>. QED  BY <2>1 DEF AddsUp
<1>. QED  BY <1>4, <1>5, <1>8, <1>9

\* What is paid to another account stays in the sum.
LEMMA PaysKeeps ==
    ASSUME Types, NEW a \in Accounts, NEW to \in Accounts, NEW v \in Values, Pays(a, to, v),
           UNCHANGED <<pledged, exchanger>>
    PROVE  Total' = Total
<1>. DEFINE t == [x \in Accounts |-> balance[x] + pledged[x] + exchanger[x]]
            m == Shifted(t, Accounts, a, 0 - v)
            u == Shifted(m, Accounts, to, v)
<1>1. /\ balance \in [Accounts -> Nat] /\ pledged \in [Accounts -> Nat] /\ exchanger \in [Accounts -> Nat]
      /\ v \in Nat /\ IsFiniteSet(Accounts)
  BY StakingBounds DEF Types, AccountTypes
<1>2. CASE balance' = balance
  BY <1>2 DEF Total
<1>3. CASE balance' = [balance EXCEPT ![a] = @ - v, ![to] = @ + v]
  <2>1. t \in [Accounts -> Int] /\ 0 - v \in Int
    BY <1>1
  <2>2. m \in [Accounts -> Int]
    BY <1>1 DEF Shifted
  <2>3. \A x \in Accounts : balance'[x] + pledged'[x] + exchanger'[x] = u[x]
    <3>. TAKE x \in Accounts
    <3>1. u[x] = balance[x] + pledged[x] + exchanger[x] + (IF x = a THEN 0 - v ELSE 0) + (IF x = to THEN v ELSE 0)
      BY DEF Shifted
    <3>2. balance'[x] = balance[x] + (IF x = a THEN 0 - v ELSE 0) + (IF x = to THEN v ELSE 0)
      BY <1>1, <1>3
    <3>. QED  BY <1>1, <3>1, <3>2
  <2>4. DOMAIN t = Accounts /\ DOMAIN u = Accounts /\ u = [x \in Accounts |-> u[x]]
    BY DEF Shifted
  <2>. DEFINE w == [x \in Accounts |-> balance'[x] + pledged'[x] + exchanger'[x]]
  <2>5. w = u
    BY <2>3, <2>4
  <2>6. Total = SumFunction(t) /\ Total' = SumFunction(w)
    BY DEF Total
  <2>7. Total = SumFunctionOnSet(t, Accounts) /\ Total' = SumFunctionOnSet(u, Accounts)
    BY <2>4, <2>5, <2>6, Zenon DEF SumFunction
  <2>. HIDE DEF t
  <2>8. SumFunctionOnSet(m, Accounts) = SumFunctionOnSet(t, Accounts) + (0 - v)
    BY <1>1, <2>1, SumShift, Zenon
  <2>. HIDE DEF m
  <2>9. SumFunctionOnSet(u, Accounts) = SumFunctionOnSet(m, Accounts) + v
    <3>1. v \in Int
      BY <1>1
    <3>. QED  BY <1>1, <2>2, <3>1, SumShift, Zenon
  <2>10. SumFunctionOnSet(t, Accounts) \in Int
    <3>1. AddsUp(t, Accounts)
      BY <1>1, <2>1, SumParts, Zenon
    <3>. QED  BY <3>1 DEF AddsUp
  <2>. HIDE DEF u
  <2>. QED  BY <1>1, <2>7, <2>8, <2>9, <2>10
<1>. QED  BY <1>2, <1>3 DEF Pays

\* The sum is a number.
LEMMA TotalInt == Types => Total \in Int
<1>. SUFFICES ASSUME Types PROVE Total \in Int
  OBVIOUS
<1>. DEFINE t == [x \in Accounts |-> balance[x] + pledged[x] + exchanger[x]]
<1>1. t \in [Accounts -> Int] /\ DOMAIN t = Accounts
  BY DEF Types, AccountTypes
<1>2. Total = SumFunctionOnSet(t, Accounts)
  BY <1>1, Zenon DEF Total, SumFunction
<1>. HIDE DEF t
<1>3. AddsUp(t, Accounts)
  BY <1>1, StakingBounds, SumParts, Zenon
<1>. QED  BY <1>2, <1>3 DEF AddsUp

\* Pledging moves tokens of an account, and so does taking a pledge back.
LEMMA PledgeOwns ==
    ASSUME Types, NEW a \in Accounts, NEW v \in Values, PledgeToken(a, v) \/ CancelPledgedToken(a, v)
    PROVE  \E note : Spends(a, note) /\ Notes(note) /\ Owns(a)' <= Owns(a)
<1>1. balance[a] \in Nat /\ pledged[a] \in Nat /\ exchanger[a] \in Nat
  BY DEF Types, AccountTypes
<1>2. CASE PledgeToken(a, v)
  <2>. DEFINE note == [addr |-> a, amount |-> v, flag |-> TRUE]
  <2>1. Spends(a, note) /\ Notes(note)
    BY <1>2, PledgeSpends DEF Notes
  <2>2. Owns(a)' <= Owns(a)
    <3>1. /\ v \in Nat /\ exchanger' = exchanger
          /\ \/ balance' = balance /\ pledged' = pledged
             \/ balance'[a] = balance[a] - v /\ pledged'[a] = pledged[a] + v
      BY <1>2, PledgeSpends, Zenon DEF account
    <3>. QED  BY <1>1, <3>1 DEF Owns
  <2>. QED  BY <2>1, <2>2, Zenon
<1>3. CASE CancelPledgedToken(a, v)
  <2>. DEFINE note == [addr |-> a, amount |-> v, flag |-> FALSE]
  <2>1. Spends(a, note) /\ Notes(note)
    BY <1>3, CancelSpends DEF Notes
  <2>2. Owns(a)' <= Owns(a)
    <3>1. /\ v \in Nat /\ exchanger' = exchanger
          /\ \/ balance' = balance /\ pledged' = pledged
             \/ balance'[a] = balance[a] + v /\ pledged'[a] = pledged[a] - v
      BY <1>3, CancelSpends, Zenon DEF account
    <3>. QED  BY <1>1, <3>1 DEF Owns
  <2>. QED  BY <2>1, <2>2, Zenon
<1>. QED  BY <1>2, <1>3

\* An exchange pays back what it has, and opening it again loses that.
LEMMA ExchangeOwns ==
    ASSUME Types, NEW a \in Accounts,
           \/ CloseExchanger(a)
           \/ \E v \in Values : OpenExchanger(a, v) \/ AddExchangerToken(a, v) \/ SubExchangerToken(a, v)
    PROVE  \E note : Spends(a, note) /\ Notes(note) /\ Owns(a)' <= Owns(a)
<1>1. balance[a] \in Nat /\ pledged[a] \in Nat /\ exchanger[a] \in Nat
  BY DEF Types, AccountTypes
<1>2. PICK v \in Nat, f \in BOOLEAN : Exchanges(a, v, f)
  BY ExchangeSpends, Zenon
<1>3. \E note : Spends(a, note) /\ Notes(note)
  BY <1>2, Zenon DEF Exchanges, Notes
<1>4. Owns(a)' <= Owns(a)
  <2>0. pledged' = pledged
    BY <1>2, SMTT(30) DEF Exchanges
  <2>1. CASE CloseExchanger(a)
    <3>1. /\ pledged' = pledged
          /\ \/ balance' = balance /\ exchanger' = exchanger
             \/ balance'[a] = balance[a] + exchanger[a] /\ exchanger'[a] = 0
      BY <2>0, <2>1, CloseSpends, Zenon DEF account
    <3>. QED  BY <1>1, <3>1 DEF Owns
  <2>2. ASSUME NEW w \in Values, OpenExchanger(a, w) PROVE Owns(a)' <= Owns(a)
    <3>1. /\ w \in Nat /\ pledged' = pledged
          /\ \/ balance' = balance /\ exchanger' = exchanger
             \/ balance'[a] = balance[a] - w /\ exchanger'[a] = w
      BY <2>0, <2>2, OpenSpends, Zenon DEF account
    <3>. QED  BY <1>1, <3>1 DEF Owns
  <2>3. ASSUME NEW w \in Values, AddExchangerToken(a, w) PROVE Owns(a)' <= Owns(a)
    <3>1. /\ w \in Nat /\ pledged' = pledged
          /\ \/ balance' = balance /\ exchanger' = exchanger
             \/ balance'[a] = balance[a] - w /\ exchanger'[a] = exchanger[a] + w
      BY <2>0, <2>3, AddSpends, Zenon DEF account
    <3>. QED  BY <1>1, <3>1 DEF Owns
  <2>4. ASSUME NEW w \in Values, SubExchangerToken(a, w) PROVE Owns(a)' <= Owns(a)
    <3>1. /\ w \in Nat /\ pledged' = pledged
          /\ \/ balance' = balance /\ exchanger' = exchanger
             \/ balance'[a] = balance[a] + w /\ exchanger'[a] = exchanger[a] - w
      BY <2>0, <2>4, SubSpends, Zenon DEF account
    <3>. QED  BY <1>1, <3>1 DEF Owns
  <2>. QED  BY <2>1, <2>2, <2>3, <2>4, ZenonT(30)
<1>. QED  BY <1>3, <1>4, Zenon

-----------------------------------------------------------------------------
(* The invariant.                                                          *)

Inv == Types /\ ListInv /\ ActiveIsStaked /\ RecentlyOnline

\* The genesis block satisfies it.
LEMMA InitInv == Init => Inv
<1>. SUFFICES ASSUME Init PROVE Inv
  OBVIOUS
<1>1. /\ DOMAIN Genesis \in SUBSET Accounts /\ Genesis \in [DOMAIN Genesis -> Nat]
      /\ \A a \in DOMAIN Genesis : Genesis[a] > 0 /\ Genesis[a] <= Funds
      /\ DOMAIN GenesisStake \in SUBSET Accounts /\ GenesisStake \in [DOMAIN GenesisStake -> Nat]
      /\ \A a \in DOMAIN GenesisStake : GenesisStake[a] > 0 /\ GenesisStake[a] <= Funds
      /\ \A a \in DOMAIN Genesis \cap DOMAIN GenesisStake : Genesis[a] + GenesisStake[a] <= Funds
      /\ Funds \in Nat /\ MaxNumber \in Nat \ {0} /\ MaxTx \in Nat /\ Grace \in Nat
  BY StakingBounds
<1>2. AccountTypes
  <2>1. balance \in [Accounts -> Nat] /\ pledged \in [Accounts -> Nat] /\ exchanger \in [Accounts -> Nat]
    BY <1>1 DEF Init, Amount
  <2>2. opened \in [Accounts -> Opened] /\ \A a \in Accounts : opened[a].since <= number
    BY DEF Init, Opened
  <2>. QED  BY <2>1, <2>2, Zenon DEF AccountTypes
<1>3. validators = Genesis /\ stakers = GenesisStake /\ pledgeList = <<>> /\ exchangeList = <<>>
  BY DEF Init
<1>4. Genesis \in Pool /\ GenesisStake \in Pool
  BY <1>1, PoolIs, Zenon
<1>5. ListTypes
  BY <1>3, <1>4 DEF ListTypes
<1>6. /\ miners = [a \in DOMAIN Genesis |-> [stake |-> Genesis[a], height |-> 0]] /\ active = miners
      /\ number = 1 /\ txs = 0
  BY DEF Init
<1>7. MinerTypes
  <2>1. miners \in [DOMAIN Genesis -> [stake : Nat, height : Nat]]
    BY <1>1, <1>6
  <2>2. miners \in Miners
    BY <1>1, <2>1, MinersAre, Zenon
  <2>. QED  BY <1>6, <2>2 DEF MinerTypes
<1>8. Types
  BY <1>1, <1>2, <1>5, <1>6, <1>7 DEF Types
<1>9. NewValidators = Genesis /\ NewStakers = GenesisStake
  <2>1. <<>> \in Seq(Note)
    OBVIOUS
  <2>. QED  BY <1>3, <1>4, <2>1, UpdatedSteps, Zenon DEF NewValidators, NewStakers
<1>10. PledgeMirror
  <2>1. \A a \in Accounts : pledged[a] = IF a \in DOMAIN Genesis THEN Genesis[a] ELSE 0
    BY DEF Init, Amount
  <2>. QED  BY <1>1, <1>9, <2>1 DEF PledgeMirror, Mirrors, NewValidators
<1>11. Staked
  BY <1>1, <1>9 DEF Staked
<1>12. StakersCover
  <2>1. \A a \in Accounts : exchanger[a] = IF a \in DOMAIN GenesisStake THEN GenesisStake[a] ELSE 0
    BY DEF Init, Amount
  <2>. QED  BY <1>1, <1>9, <2>1 DEF StakersCover, NewStakers
<1>13. ActiveIsStaked
  BY <1>1, <1>3, <1>6 DEF ActiveIsStaked
<1>14. RecentlyOnline
  <2>1. Since(0) \in Nat
    BY SinceSteps, StakingBounds
  <2>2. Recently(0)
    BY <1>1, <1>6, <2>1 DEF Recently
  <2>. QED  BY <1>6, <2>2 DEF RecentlyOnline
<1>. QED  BY <1>8, <1>10, <1>11, <1>12, <1>13, <1>14, Zenon DEF Inv, ListInv

\* A transaction with an amount keeps the miners.
LEMMA SpendsMiners ==
    ASSUME Inv, NEW a, NEW note, Spends(a, note), Notes(note)
    PROVE  Types' /\ ActiveIsStaked' /\ RecentlyOnline'
<1>1. Types'
  BY SpendsTypes, Zenon DEF Inv
<1>2. miners' = miners /\ validators' = validators /\ active' = active /\ number' = number
  BY DEF Spends, stored
<1>3. ActiveIsStaked' /\ RecentlyOnline'
  BY <1>2, Zenon DEF Inv, ActiveIsStaked, RecentlyOnline, Recently
<1>. QED  BY <1>1, <1>3

\* Every step of the system preserves the invariant, and makes no tokens.
LEMMA NextInv ==
    ASSUME Inv, [Next]_vars
    PROVE  Inv' /\ Total' <= Total
<1>0. Total \in Int
  BY TotalInt DEF Inv
<1>1. CASE UNCHANGED vars
  <2>1. Inv'
    BY <1>1, Zenon DEF vars, account, lists, stored, Inv, Types, AccountTypes, ListTypes, MinerTypes,
       ListInv, PledgeMirror, Mirrors, Staked, StakersCover, NewValidators, ActiveIsStaked,
       RecentlyOnline, Recently
  <2>2. Total' = Total
    BY <1>1 DEF Total, vars, account
  <2>. QED  BY <1>0, <2>1, <2>2
<1>2. ASSUME NEW a \in Accounts, NEW v \in Values, PledgeToken(a, v) \/ CancelPledgedToken(a, v)
      PROVE  Inv' /\ Total' <= Total
  <2>1. ListInv'
    BY <1>2, PledgeListInv, Zenon DEF Inv
  <2>2. PICK note : Spends(a, note) /\ Notes(note) /\ Owns(a)' <= Owns(a)
    BY <1>2, PledgeOwns, Zenon DEF Inv
  <2>. QED  BY <2>1, <2>2, SpendsMiners, OneAccount, Zenon DEF Inv
<1>3. ASSUME NEW a \in Accounts,
             \/ CloseExchanger(a)
             \/ \E v \in Values : OpenExchanger(a, v) \/ AddExchangerToken(a, v) \/ SubExchangerToken(a, v)
      PROVE  Inv' /\ Total' <= Total
  <2>1. ListInv'
    BY <1>3, ExchangeSpends, ExchangeListInv, Zenon DEF Inv
  <2>2. PICK note : Spends(a, note) /\ Notes(note) /\ Owns(a)' <= Owns(a)
    BY <1>3, ExchangeOwns, Zenon DEF Inv
  <2>. QED  BY <2>1, <2>2, SpendsMiners, OneAccount, Zenon DEF Inv
<1>4. ASSUME NEW a \in Accounts, NEW to \in Accounts, NEW v \in Values, LivenessTx(a, to, v)
      PROVE  Inv' /\ Total' <= Total
  <2>1. Types' /\ RecentlyOnline'
    BY <1>4, LivenessTypes, LivenessMiners, Zenon DEF Inv
  <2>2. Pays(a, to, v) /\ UNCHANGED <<pledged, exchanger, opened, pledgeList, exchangeList, stored>>
    BY <1>4, LivenessIs, ZenonT(30) DEF Inv
  <2>3. ListInv' /\ ActiveIsStaked'
    BY <2>2, Zenon DEF stored, Inv, ListInv, PledgeMirror, Mirrors, Staked, StakersCover,
       NewValidators, ActiveIsStaked
  <2>4. Total' = Total
    BY <2>2, PaysKeeps, Zenon DEF Inv
  <2>. QED  BY <1>0, <2>1, <2>3, <2>4 DEF Inv
<1>5. ASSUME WriteBlock PROVE Inv' /\ Total' <= Total
  <2>1. Inv'
    BY <1>5, WriteBlockTypes, WriteBlockListInv, WriteBlockMiners, Zenon DEF Inv
  <2>2. Total' = Total
    BY <1>5, Zenon DEF WriteBlock, Total, account
  <2>. QED  BY <1>0, <2>1, <2>2
<1>. QED  BY <1>1, <1>2, <1>3, <1>4, <1>5, Zenon DEF Next

\* The invariant holds in every state the chain reaches.
THEOREM StakingInvariant == Spec => []Inv
<1>1. Inv /\ [Next]_vars => Inv'
  BY NextInv, Zenon
<1>. QED  BY <1>1, InitInv, PTL DEF Spec

\* No balance, pledge or exchange is ever overdrawn, whatever is taken back how often.
THEOREM NeverOverdrawn == Spec => []TypeOK
<1>1. Inv => TypeOK
  BY TypesTypeOK, Zenon DEF Inv
<1>. QED  BY <1>1, StakingInvariant, PTL

\* The list of validators says what each account has pledged, for every account none of
\* whose calls are reverted.
THEOREM ValidatorsMirrorPledges == Spec => []PledgeMirror
<1>1. Inv => PledgeMirror
  BY Zenon DEF Inv, ListInv
<1>. QED  BY <1>1, StakingInvariant, PTL

\* The list of stakers has at least what each exchange has, for the same accounts.
THEOREM StakersCoverExchanges == Spec => []StakersCover
<1>1. Inv => StakersCover
  BY Zenon DEF Inv, ListInv
<1>. QED  BY <1>1, StakingInvariant, PTL

\* The active miners of a stored block are validators with a stake, so the election never
\* divides by nothing - also when calls are reverted.
THEOREM MinersAreStaked == Spec => []ActiveIsStaked
<1>1. Inv => ActiveIsStaked
  BY Zenon DEF Inv
<1>. QED  BY <1>1, StakingInvariant, PTL

\* A silent miner leaves the list within a cycle after the grace period.
THEOREM SilentMinersLeave == Spec => []SilentLeave
<1>1. Inv => SilentLeave
  <2>. SUFFICES ASSUME Inv, NEW a \in DOMAIN miners
                PROVE  number - 1 - miners[a].height < Grace + Cycle
    BY DEF SilentLeave
  <2>1. number \in Nat \ {0} /\ number - 1 \in Nat /\ miners[a].height \in Nat
    BY MinersAre DEF Inv, Types, MinerTypes
  <2>2. Recently(miners[a].height)
    BY DEF Inv, RecentlyOnline
  <2>3. Since(number - 1) \in 0 .. Cycle - 1 /\ Grace \in Nat /\ Cycle \in Nat
    BY <2>1, SinceSteps, StakingBounds
  <2>. QED  BY <2>1, <2>2, <2>3 DEF Recently
<1>. QED  BY <1>1, StakingInvariant, PTL

\* No transaction, and no block, makes tokens.
THEOREM TokensNotMinted == Spec => NothingMinted
<1>1. Inv /\ [Next]_vars => [Total' <= Total]_vars
  BY NextInv, Zenon
<1>. QED  BY <1>1, StakingInvariant, PTL DEF Spec, NothingMinted
=============================================================================
