---------------------------- MODULE OfficialNFT ----------------------------
(***************************************************************************)
(* The official NFTs (SNFTs) of the chain's state.  Every block gives one  *)
(* to each beneficiary (CreateNFTByOfficial16): one of the exchange list   *)
(* if there is any, otherwise the next index, with the name of the         *)
(* injected range it is in.  Sixteen siblings of one owner merge into one  *)
(* SNFT of the next level, which is split again when a part of it changes  *)
(* hands.  New ranges are injected by a transaction, or elected when the   *)
(* indexes run short.                                                      *)
(*                                                                         *)
(* An address is an index, without the bit that marks it as official; its  *)
(* digits have the base Base.  State objects are never removed, since      *)
(* stateObject.empty asks whether an array of 20 bytes has no elements.    *)
(***************************************************************************)
EXTENDS Integers, Sequences, FiniteSets, SequencesExt, FiniteSetsExt, TLC

CONSTANTS
    Accounts,       \* owners of SNFTs
    Exchangers,     \* accounts that get vote weight from trades
    None,           \* the zero address
    Base,           \* siblings that merge: 16
    Digits,         \* bound: digits of an index
    QueryDepthLimit,\* QUERYDEPTHLIMIT16
    CaseDiffers,    \* pairs of addresses whose common digits differ in case when formatted
    MaxOwners,      \* beneficiaries of a block, at most: 11
    MaxPool,        \* bound: entries of the exchange list
    MaxPoolLevel,   \* bound: the level of an exchanged SNFT
    Names,          \* names (directory, royalty, creator) of injected ranges
    DefaultName,    \* the one ElectNominatedOfficialNFT uses when nobody is nominated
    GenesisNumber,  \* size of the range of the genesis block
    Batch,          \* size of an elected range: 65536
    Short,          \* an election is due when no more indexes are left: 110
    Injections,     \* <<start, number>> of the injected ranges
    MaxRanges,      \* bound: ranges in the list, for injections
    MaxWeight,      \* bound: vote weight
    Bounds,         \* bounds, one record per behaviour: how many transfers and exchanges, how
                    \* many trades, how many injections and votes, which accounts take part,
                    \* and how many of them a block rewards
    MaxNumber       \* bound: blocks

Index == 0 .. Base^Digits - 1

ASSUME OfficialBounds ==
    /\ Base \in Nat \ {0, 1} /\ Digits \in Nat /\ QueryDepthLimit > Digits
    /\ CaseDiffers \subseteq Index \X Index
    /\ None \notin Accounts \cup Exchangers
    /\ GenesisNumber \in Nat \ {0} /\ Batch > Short /\ GenesisNumber >= MaxOwners
    /\ Short >= ((MaxOwners - 1) * (MaxOwners - 2)) \div 2
    /\ Bounds \subseteq [moves : Nat, trades : Nat, polls : Nat, accounts : SUBSET Accounts,
                         owners : 1 .. MaxOwners]

VARIABLES
    object,         \* the NFT part of the state objects that exist
    mint,           \* MintDeep.OfficialMint
    pool,           \* SNFTExchangePool
    ranges,         \* OfficialNFTPool
    nominated,      \* NominatedOfficialNFT, whose number is Batch
    weight,         \* VoteWeight
    claim,          \* history: the weight each voted with since the last election
    reverted,       \* history: whether a reverted call has entered the exchange list
    burnt,          \* history: the indexes transferred to the zero address
    uneven,         \* history: whether a range was added that did not go on where they end
    number,         \* the block being executed
    budget          \* what the bounds leave

nfts == <<object, mint, pool>>
lists == <<ranges, nominated, weight, claim>>
histories == <<reverted, burnt, uneven>>
vars == <<nfts, lists, histories, number, budget>>

-----------------------------------------------------------------------------
(* Merging and splitting.                                                  *)

Clean == [owner |-> None, level |-> 0, name |-> None]

\* The address with its last n digits zeroed.
Prefix(a, n) == (a \div Base^n) * Base^n

\* The addresses of level l under the one of level l + 1 that a is in.
Siblings(a, l) == {Prefix(a, l + 1) + i * Base^l : i \in 0 .. Base - 1}

IsCanMergeNFT16(o, a) ==
    \A s \in Siblings(a, o[a].level) \ {a} :
        s \in DOMAIN o /\ o[s].owner = o[a].owner /\ o[s].level = o[a].level

Merged(o, a) ==
    Prefix(a, o[a].level + 1) :> [o[a] EXCEPT !.level = @ + 1]
    @@ [s \in Siblings(a, o[a].level) |-> Clean] @@ o

\* Mutant: one level at a time.
MergeOnce(o, a) == IF IsCanMergeNFT16(o, a) THEN Merged(o, a) ELSE o

RECURSIVE MergeNFT16(_, _)
MergeNFT16(o, a) ==
    IF IsCanMergeNFT16(o, a) THEN MergeNFT16(Merged(o, a), Prefix(a, o[a].level + 1)) ELSE o

\* Where the SNFT that a belongs to is kept.
RECURSIVE GetNFTStoreAddress16(_, _, _)
GetNFTStoreAddress16(o, a, depth) ==
    IF depth > QueryDepthLimit \/ a \notin DOMAIN o THEN None
    ELSE IF o[a].owner # None /\ o[a].level = depth THEN a
    ELSE GetNFTStoreAddress16(o, Prefix(a, depth + 1), depth + 1)

GetNFTOwner16(o, a) ==
    LET store == GetNFTStoreAddress16(o, a, 0) IN IF store = None THEN None ELSE o[store].owner

\* Mutant: one level is left out.
SplitOnce(o, a, level) ==
    LET store == GetNFTStoreAddress16(o, a, 0)
    IN IF store = None \/ o[store].level <= level \/ <<store, a>> \in CaseDiffers THEN o
       ELSE [s \in Siblings(a, level) |-> [o[store] EXCEPT !.level = level]] @@ o

\* The SNFT that a belongs to falls apart into siblings on every level down to the named
\* one.  Where an address is on several levels, the lowest is written last.  The
\* addresses are compared as checksummed text.
SplitNFT16(o, a, level) ==
    LET store == GetNFTStoreAddress16(o, a, 0)
        levels == level .. o[store].level - 1
        parts == UNION {Siblings(a, l) : l \in levels}
    IN IF store = None \/ o[store].level <= level \/ <<store, a>> \in CaseDiffers THEN o
       ELSE [s \in parts |-> [o[store] EXCEPT !.level = Min({l \in levels : s \in Siblings(a, l)})]]
            @@ o

\* Mutant: the SNFT is not split.
ChangeStoreOwner(o, a, newOwner, level) ==
    LET store == GetNFTStoreAddress16(o, a, 0) IN MergeNFT16([o EXCEPT ![store].owner = newOwner], store)

ChangeNFTOwner(o, a, newOwner, level) ==
    MergeNFT16([SplitNFT16(o, a, level) EXCEPT ![a].owner = newOwner], a)

-----------------------------------------------------------------------------
(* The exchange list and the injected ranges.                              *)

\* The last address that the entry gives out.  Its size is counted with the base 256, of
\* an older kind of merging, which is the square of 16.
MaxNFTAddress(e) == IF e.level = 0 THEN e.addr ELSE e.addr + (Base * Base)^e.level

CanPop(list) == list # <<>> /\ Head(list).block < number

PopAddress(list) ==
    IF Head(list).current = MaxNFTAddress(Head(list)) THEN Tail(list)
    ELSE [list EXCEPT ![1].current = @ + 1]

\* The first range that has the index.  Its end is taken to belong to it.
GetInjectedInfo(list, a) ==
    LET has == {k \in DOMAIN list : list[k].start <= a /\ a <= list[k].start + list[k].number}
    IN IF has = {} THEN None ELSE list[Min(has)]

\* Ranges in front that are used up are dropped, unless all of them are.
DeleteExpireElem(list, n) ==
    LET left == {k \in DOMAIN list : list[k].start + list[k].number > n}
    IN SubSeq(list, IF left = {} THEN 1 ELSE Min(left), Len(list))

\* Mutant: every range counts in full.
RemainderAll(list, n) == FoldLeft(LAMBDA s, r : s + r.number, 0, list)

\* What is left up to the end of each range.
RemainderNum(list, n) ==
    FoldLeft(LAMBDA s, r : s + Max({0, r.start + r.number - n}), 0, list)

MaxIndex(list) == Max({0} \cup {list[k].start + list[k].number : k \in DOMAIN list})

-----------------------------------------------------------------------------
(* Transactions.                                                           *)

Init ==
    /\ object = <<>> /\ mint = 0 /\ pool = <<>>
    /\ ranges = <<[start |-> 0, number |-> GenesisNumber, name |-> DefaultName]>>
    /\ nominated = [by |-> None, start |-> GenesisNumber, name |-> DefaultName]
    /\ weight = [e \in Exchangers |-> 0] /\ claim = [e \in Exchangers |-> 0]
    /\ reverted = FALSE /\ burnt = {} /\ uneven = FALSE /\ number = 1 /\ budget \in Bounds

Call(kind) == budget[kind] > 0 /\ budget' = [budget EXCEPT ![kind] = @ - 1] /\ UNCHANGED number

\* The name of an address leaves out its last digits; they are filled with zeros.
GetNftAddressAndLevel(a, level) == Prefix(a, level) = a

\* The indexes of an SNFT.
Part(a, level) == a .. a + Base^level - 1

\* Type 1.  The receiver may be the zero address, which then owns nothing.
TransferNFT(caller, a, level, to) ==
    /\ Call("moves")
    /\ GetNftAddressAndLevel(a, level)
    /\ GetNFTOwner16(object, a) = caller
    /\ object' = ChangeNFTOwner(object, a, to, level)
    /\ burnt' = IF to = None THEN burnt \cup Part(a, SplitNFT16(object, a, level)[a].level) ELSE burnt
    /\ UNCHANGED <<mint, pool, lists, reverted, uneven>>

\* Types 14, 15, 18 and 20.  Who may sell, and what is paid, is in Market.
BuyNFT(exchanger, a, level, buyer, amount) ==
    /\ Call("trades")
    /\ weight[exchanger] + amount <= MaxWeight
    /\ GetNftAddressAndLevel(a, level)
    /\ GetNFTOwner16(object, a) # None
    /\ object' = ChangeNFTOwner(object, a, buyer, level)
    /\ weight' = [weight EXCEPT ![exchanger] = @ + amount]
    /\ UNCHANGED <<mint, pool, ranges, nominated, claim, histories>>

\* Type 6.  The list is not in the journal, so a call that is reverted has entered it.  What
\* the holder is paid is left out.
ExchangeNFTToCurrency(caller, a, level) ==
    LET split == SplitNFT16(object, a, level)
        entry == [addr |-> a, level |-> split[a].level, current |-> a, block |-> number,
                  name |-> split[a].name]
    IN /\ Call("moves")
       /\ Len(pool) < MaxPool /\ GetNftAddressAndLevel(a, level)
       /\ GetNFTOwner16(object, a) = caller
       /\ entry.level <= MaxPoolLevel
       /\ pool' = Append(pool, entry)
       /\ \/ object' = [split EXCEPT ![a] = Clean] /\ UNCHANGED reverted
          \/ reverted' = TRUE /\ UNCHANGED object
       /\ UNCHANGED <<mint, lists, burnt, uneven>>

\* Type 13.  Any start and any number are taken.
InjectOfficialNFT(start, size, name) ==
    /\ Call("polls")
    /\ Len(ranges) < MaxRanges
    /\ ranges' = Append(ranges, [start |-> start, number |-> size, name |-> name])
    /\ uneven' = (uneven \/ start # MaxIndex(ranges) \/ size = 0)
    /\ UNCHANGED <<nfts, nominated, weight, claim, reverted, burnt>>

\* Mutant: any vote is a nomination.
OutweighsAny(e) == TRUE

Outweighs(e) == weight[e] > (IF nominated.by = None THEN 0 ELSE weight[nominated.by])

\* Types 23 and 24.
VoteOfficialNFT(e, name) ==
    /\ Call("polls")
    /\ nominated' = IF Outweighs(e) THEN [by |-> e, start |-> MaxIndex(ranges), name |-> name]
                    ELSE nominated
    /\ claim' = [claim EXCEPT ![e] = weight[e]]
    /\ UNCHANGED <<nfts, ranges, weight, histories>>

-----------------------------------------------------------------------------
(* The end of a block.                                                     *)

\* One beneficiary.  Without a range for the index nobody after gets anything either.
Mint(st, owner) ==
    LET pop == CanPop(st.pool)
        a == IF pop THEN Head(st.pool).current ELSE st.mint
        info == IF pop THEN Head(st.pool) ELSE GetInjectedInfo(st.ranges, a)
        nft == [owner |-> owner, level |-> 0, name |-> info.name]
    IN IF st.failed \/ info = None THEN [st EXCEPT !.failed = TRUE]
       ELSE [object |-> MergeNFT16(a :> nft @@ st.object, a),
             mint |-> IF pop THEN st.mint ELSE st.mint + 1,
             pool |-> IF pop THEN PopAddress(st.pool) ELSE st.pool,
             ranges |-> IF pop THEN st.ranges ELSE DeleteExpireElem(st.ranges, st.mint),
             failed |-> FALSE]

\* The nominated range if there is one, otherwise one of the default name at the end.
ElectNominatedOfficialNFT(list) ==
    LET won == nominated.by # None
        added == Append(list, [start |-> IF won THEN nominated.start ELSE MaxIndex(list),
                               number |-> Batch,
                               name |-> IF won THEN nominated.name ELSE DefaultName])
    IN /\ ranges' = added
       /\ nominated' = IF won THEN [by |-> None, start |-> MaxIndex(added), name |-> DefaultName]
                       ELSE nominated
       /\ weight' = IF won THEN [weight EXCEPT ![nominated.by] = 0] ELSE weight
       /\ claim' = IF won THEN [e \in Exchangers |-> 0] ELSE claim
       /\ uneven' = (uneven \/ Last(added).start # MaxIndex(list))

\* Finalize and FinalizeAndAssemble.
CreateNFTByOfficial16(owners) ==
    LET end == FoldLeft(Mint, [object |-> object, mint |-> mint, pool |-> pool,
                               ranges |-> ranges, failed |-> FALSE], owners)
    IN /\ number < MaxNumber /\ DOMAIN end.object \subseteq Index
       /\ object' = end.object /\ mint' = end.mint /\ pool' = end.pool
       /\ IF ~end.failed /\ RemainderNum(end.ranges, end.mint) <= Short
          THEN ElectNominatedOfficialNFT(end.ranges)
          ELSE ranges' = end.ranges /\ UNCHANGED <<nominated, weight, claim, uneven>>
       /\ number' = number + 1 /\ UNCHANGED <<reverted, burnt, budget>>

Beneficiaries == UNION {[1 .. n -> budget.accounts] : n \in 1 .. budget.owners}

Next ==
    \/ \E caller \in budget.accounts, a \in DOMAIN object, l \in 0 .. Digits :
          \/ \E to \in budget.accounts \cup {None} : TransferNFT(caller, a, l, to)
          \/ \E e \in Exchangers, amount \in 1 .. MaxWeight : BuyNFT(e, a, l, caller, amount)
          \/ ExchangeNFTToCurrency(caller, a, l)
    \/ \E r \in Injections, n \in Names : InjectOfficialNFT(r[1], r[2], n)
    \/ \E e \in Exchangers, n \in Names : VoteOfficialNFT(e, n)
    \/ \E owners \in Beneficiaries : CreateNFTByOfficial16(owners)

Spec == Init /\ [][Next]_vars

-----------------------------------------------------------------------------
(* Properties.                                                             *)

Held == {a \in DOMAIN object : object[a].owner # None}

\* The indexes that an entry of the exchange list still gives out.
Waiting(e) == e.current .. MaxNFTAddress(e)

\* The variables have the types of the code's fields; an SNFT is kept at the first address
\* of its level.
TypeOK ==
    /\ \A a \in DOMAIN object :
        /\ a \in Index /\ object[a].owner \in Accounts \cup {None}
        /\ object[a].level \in 0 .. Digits /\ Prefix(a, object[a].level) = a
    /\ mint \in Nat
    /\ \A k \in DOMAIN pool : pool[k].current >= pool[k].addr /\ pool[k].block <= number
    /\ nominated.by \in Exchangers \cup {None} /\ weight \in [Exchangers -> 0 .. MaxWeight]

\* Every index handed out so far and not transferred to the zero address is in one SNFT of
\* one owner, or waits in the exchange list once; no other index is anywhere.  So merging,
\* splitting, trading, exchanging and giving out again never lose or copy one, unless an
\* exchange was reverted.
EachOnce ==
    ~reverted => \A x \in Index :
        Cardinality({a \in Held : x \in Part(a, object[a].level)})
            + Cardinality({k \in DOMAIN pool : x \in Waiting(pool[k])})
        = IF x < mint /\ x \notin burnt THEN 1 ELSE 0

\* GetNFTStoreAddress16, which looks for an SNFT digit by digit, finds the one that an
\* index is in, with the same exception.
OwnerFound ==
    ~reverted => \A a \in Held : \A x \in Part(a, object[a].level) : GetNFTStoreAddress16(object, x, 0) = a

\* ChangeNFTOwner and CreateNFTByOfficial16 merge at once: no owner has all siblings of a
\* level unmerged.
FullyMerged == \A a \in Held : ~IsCanMergeNFT16(object, a)

\* A transfer gives the named SNFT to the new owner, and a trade to the buyer; no index
\* outside the named part changes hands, although the SNFT around it is split and others
\* merge (ChangeNFTOwner), with the same exception.
NamedOnly ==
    [][~reverted /\ number' = number /\ pool' = pool /\ object' # object =>
        \A a \in DOMAIN object, l \in 0 .. Digits, to \in Accounts \cup {None} :
            /\ GetNftAddressAndLevel(a, l) /\ GetNFTOwner16(object, a) # None
            /\ object' = ChangeNFTOwner(object, a, to, l)
            => /\ GetNFTOwner16(object', a) = to
               /\ \A x \in DOMAIN object \ Part(a, l) : GetNFTOwner16(object', x) = GetNFTOwner16(object, x)]_vars

\* An SNFT that its holder exchanges has no holder afterwards (ExchangeNFTToCurrency),
\* unless the call was reverted.
ExchangeTakes ==
    [][number' = number /\ pool' # pool /\ ~reverted' => GetNFTOwner16(object', Last(pool').addr) = None]_vars

\* What the exchange list gives out was exchanged into it, so nobody holds it.
PoolUnheld ==
    \A k \in DOMAIN pool : \A x \in Waiting(pool[k]) :
        x \notin UNION {Part(a, object[a].level) : a \in Held}

\* Whoever owns an SNFT, a royalty and a creator are found under its address, as a trade
\* looks for them (GetNFTRoyalty and GetNFTCreator, called with the address of the trade).
RoyaltyFound ==
    \A x \in DOMAIN object : GetNFTOwner16(object, x) # None => object[x].name # None

\* Every beneficiary of the next block gets an SNFT.
NextMinted == \A i \in mint .. mint + MaxOwners - 1 : GetInjectedInfo(ranges, i) # None

\* As long as each new range goes on where the ranges end, the next block finds a range for
\* every beneficiary: the election of CreateNFTByOfficial16 comes in time, although
\* RemainderNum counts an index once for every range that ends behind it.
MintGoesOn == ~uneven => NextMinted

\* The same without the condition.  InjectOfficialNFT does not look at the start it is given:
\* a gap has no range, and ranges that overlap make RemainderNum put the election off until
\* there is no index left, and then CreateNFTByOfficial16 returns before it.
MintNeverStops == NextMinted

\* DeleteExpireElem never drops a range that has indexes still to be given out.
UnusedKept ==
    [][\A k \in DOMAIN ranges :
        ranges[k].start + ranges[k].number > mint' => \E j \in DOMAIN ranges' : ranges'[j] = ranges[k]]_vars

\* The nominee outweighs what every exchange has voted with since the last election, also
\* when several vote in turn while their trades go on.
HeaviestNominated ==
    \A e \in Exchangers : claim[e] <= (IF nominated.by = None THEN 0 ELSE weight[nominated.by])

=============================================================================
