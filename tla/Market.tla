------------------------------- MODULE Market -------------------------------
(***************************************************************************)
(* The NFTs that users mint, who may sell them, and what a sale pays to    *)
(* whom.  A sale is one transaction that carries what the absent parties   *)
(* have signed: an offer of the buyer, a price of the seller, a power of   *)
(* attorney of an exchange.  A signed message names the last block it is   *)
(* good for and repeats the amount of the transaction.  One that is too    *)
(* old or names another amount changes nothing, and anybody may sign       *)
(* another, so the signer of a message is an input of the action here.     *)
(* SNFTs and the elections that the vote weight decides are in             *)
(* OfficialNFT, the pledges of exchanges in Staking.                       *)
(***************************************************************************)
EXTENDS Integers, Sequences, FiniteSets, Functions, FiniteSetsExt

CONSTANTS
    Users,          \* accounts that mint, buy and sell
    Exchangers,     \* accounts that may open an exchange
    None,           \* the zero address
    Unit,           \* rates are counted in parts of it: 10000
    Royalties, FeeRates,
    Prices,         \* amounts of a sale
    Funds,          \* the balance of an account at first
    CloseInterval,  \* blocks an exchange stays open
    MaxNFTs,        \* bound: NFTs
    MaxTraded,      \* bound: no sale once the prices paid add up to it
    MaxNumber       \* bound: blocks

Accounts == Users \cup Exchangers

ASSUME MarketBounds ==
    /\ None \notin Accounts /\ IsFiniteSet(Accounts) /\ Unit \in Nat \ {0} /\ Funds \in Nat
    /\ Royalties \cup FeeRates \subseteq 1 .. Unit - 1 /\ Prices \subseteq Nat \ {0}

VARIABLES
    nft,            \* the NFT part of the state objects, in the order of UserMint
    approvedAll,    \* ApproveAddressList: who may sell all that an account has
    exchange,       \* the fee rate, 0 if the exchange is not open, and the block it opened in
    balance,        \* Balance
    weight,         \* VoteWeight
    approver,       \* history: who approved the exchange that may sell an NFT
    number          \* the block being executed

vars == <<nft, approvedAll, exchange, balance, weight, approver, number>>

-----------------------------------------------------------------------------
Init ==
    /\ nft = <<>> /\ approver = <<>>
    /\ approvedAll = [a \in Users |-> {}]
    /\ exchange = [a \in Accounts |-> [fee |-> 0, since |-> 0]]
    /\ balance = [a \in Accounts |-> Funds] /\ weight = [a \in Accounts |-> 0]
    /\ number = 1

\* GetExchangerFlag: opening needs a positive rate, and closing sets it to zero.
Open(a) == exchange[a].fee > 0

\* Call asks that the sender has the amount of the transaction, whoever is to pay it.
Call(caller, amount) == balance[caller] >= amount

\* Mutant: the approval of the former owner stays.
KeepApproved(n, newOwner) == [n EXCEPT !.owner = newOwner]

\* The exchange that the former owner approved loses its right.
ChangeNFTOwner(n, newOwner) ==
    IF n.owner = newOwner THEN n ELSE [n EXCEPT !.owner = newOwner, !.approved = None]

NewNFT(owner, royalty, exclusive) ==
    [owner |-> owner, creator |-> owner, royalty |-> royalty, exclusive |-> exclusive,
     approved |-> None]

\* An approval that has ended leaves no history.
Approver == [n \in DOMAIN nft |-> IF nft'[n].approved = None THEN None ELSE approver[n]]

IsApproved(n, a) == nft[n].approved = a \/ a \in approvedAll[nft[n].owner]

-----------------------------------------------------------------------------
(* Minting, transfers, approvals and exchanges.                            *)

\* Type 0.
CreateNFTByUser(owner, royalty, exclusive) ==
    /\ Len(nft) < MaxNFTs
    /\ nft' = Append(nft, NewNFT(owner, royalty, exclusive)) /\ approver' = Append(approver, None)
    /\ UNCHANGED <<approvedAll, exchange, balance, weight, number>>

\* Type 1.
TransferNFT(caller, n, to) ==
    /\ nft[n].owner = caller
    /\ nft' = [nft EXCEPT ![n] = ChangeNFTOwner(@, to)] /\ approver' = Approver
    /\ UNCHANGED <<approvedAll, exchange, balance, weight, number>>

\* Type 2.
ChangeNFTApproveAddress(caller, n, x) ==
    /\ Open(x) /\ nft[n].owner = caller
    /\ nft' = [nft EXCEPT ![n].approved = x] /\ approver' = [approver EXCEPT ![n] = caller]
    /\ UNCHANGED <<approvedAll, exchange, balance, weight, number>>

\* Type 3.
CancelNFTApproveAddress(caller, n, x) ==
    /\ nft[n].owner = caller /\ nft[n].approved = x
    /\ nft' = [nft EXCEPT ![n].approved = None] /\ approver' = Approver
    /\ UNCHANGED <<approvedAll, exchange, balance, weight, number>>

\* Type 4.
ChangeApproveAddress(caller, x) ==
    /\ Open(x)
    /\ approvedAll' = [approvedAll EXCEPT ![caller] = @ \cup {x}]
    /\ UNCHANGED <<nft, exchange, balance, weight, approver, number>>

\* Type 5.
CancelApproveAddress(caller, x) ==
    /\ approvedAll' = [approvedAll EXCEPT ![caller] = @ \ {x}]
    /\ UNCHANGED <<nft, exchange, balance, weight, approver, number>>

\* Type 11.
OpenExchanger(x, rate) ==
    /\ ~Open(x)
    /\ exchange' = [exchange EXCEPT ![x] = [fee |-> rate, since |-> number]]
    /\ UNCHANGED <<nft, approvedAll, balance, weight, approver, number>>

\* Type 12.
CloseExchanger(x) ==
    /\ Open(x) /\ number - exchange[x].since >= CloseInterval
    /\ exchange' = [exchange EXCEPT ![x] = [fee |-> 0, since |-> 0]]
    /\ UNCHANGED <<nft, approvedAll, balance, weight, approver, number>>

-----------------------------------------------------------------------------
(* Sales.                                                                  *)

\* What is paid is rounded down to whole parts of Unit before the rates are applied.
Share(amount, rate) == (amount \div Unit) * rate

\* Mutant: the royalty is not taken from what the seller gets.
PaidTwice(buyer, seller, creator, royalty, x, amount) ==
    LET fee == Share(amount, exchange[x].fee)
    IN [a \in Accounts |-> balance[a]
            - (IF a = buyer THEN amount ELSE 0) + (IF a = seller THEN amount - fee ELSE 0)
            + (IF a = creator THEN Share(amount, royalty) ELSE 0) + (IF a = x THEN fee ELSE 0)]

\* The balances after the buyer has paid: the creator and the exchange x get their shares,
\* the seller the rest.
Paid(buyer, seller, creator, royalty, x, amount) ==
    LET fee == Share(amount, exchange[x].fee)
        royaltyAmount == Share(amount, royalty)
    IN [a \in Accounts |-> balance[a]
            - (IF a = buyer THEN amount ELSE 0)
            + (IF a = seller THEN amount - (fee + royaltyAmount) ELSE 0)
            + (IF a = creator THEN royaltyAmount ELSE 0) + (IF a = x THEN fee ELSE 0)]

\* Mutant: only the caller's balance is looked at.
CanPayUnchecked(buyer, amount) == TRUE

CanPay(buyer, amount) == balance[buyer] >= amount

\* NFT n is sold, and x is the exchange that earns by it.
Sold(n, buyer, amount, x) ==
    /\ CanPay(buyer, amount)
    /\ balance' = Paid(buyer, nft[n].owner, nft[n].creator, nft[n].royalty, x, amount)
    /\ weight' = [weight EXCEPT ![x] = @ + amount]
    /\ nft' = [nft EXCEPT ![n] = ChangeNFTOwner(@, buyer)] /\ approver' = Approver
    /\ UNCHANGED <<approvedAll, exchange, number>>

\* A new NFT is sold; its creator is the seller, and no royalty is due.
MintedAndSold(seller, buyer, amount, royalty, exclusive, x) ==
    /\ CanPay(buyer, amount) /\ Len(nft) < MaxNFTs
    /\ balance' = Paid(buyer, seller, seller, 0, x, amount)
    /\ weight' = [weight EXCEPT ![x] = @ + amount]
    /\ nft' = Append(nft, ChangeNFTOwner(NewNFT(seller, royalty, IF exclusive THEN x ELSE None), buyer))
    /\ approver' = Append(approver, None)
    /\ UNCHANGED <<approvedAll, exchange, number>>

\* An exchange other than the one the NFT was minted for sells it only while that is closed.
MaySell(n, x) == \A e \in Exchangers \ {x} : nft[n].exclusive = e => ~Open(e)

\* Type 14, with an offer of the buyer that names the exchange x.
BuyNFTBySellerOrExchanger(caller, n, buyer, x, amount) ==
    LET exclusive == nft[n].exclusive
    IN /\ Call(caller, amount)
       /\ \/ /\ caller = nft[n].owner
             /\ Sold(n, buyer, amount, IF exclusive # None /\ Open(exclusive) THEN exclusive ELSE x)
          \/ /\ caller # nft[n].owner /\ IsApproved(n, caller)
             /\ MaySell(n, caller) /\ (exclusive = None => caller = x)
             /\ Sold(n, buyer, amount, caller)

\* Type 15, with a price of the owner that names the exchange x.
BuyNFTByBuyer(caller, n, x, amount) ==
    /\ Call(caller, amount)
    /\ Sold(n, caller, amount, IF nft[n].exclusive # None THEN nft[n].exclusive ELSE x)

\* Type 16, with a price of the seller.
BuyAndMintNFTByBuyer(caller, seller, x, amount, royalty, exclusive) ==
    /\ Call(caller, amount)
    /\ MintedAndSold(seller, caller, amount, royalty, exclusive, x)

\* Type 17, with an offer of the buyer and a price of the seller.
BuyAndMintNFTByExchanger(caller, seller, buyer, amount, royalty, exclusive) ==
    /\ Call(caller, amount) /\ Open(caller)
    /\ MintedAndSold(seller, buyer, amount, royalty, exclusive, caller)

\* Mutant: the exchange the NFT was minted for is not asked.
ApprovedUnasked(caller, n, buyer, x, amount) ==
    /\ Call(caller, amount) /\ IsApproved(n, x)
    /\ Sold(n, buyer, amount, x)

\* Type 18, with an offer of the buyer and a power of attorney of the exchange x.
BuyNFTByApproveExchanger(caller, n, buyer, x, amount) ==
    /\ Call(caller, amount) /\ IsApproved(n, x) /\ MaySell(n, x)
    /\ Sold(n, buyer, amount, x)

\* Type 19, with all three messages.
BuyAndMintNFTByApprovedExchanger(caller, seller, buyer, x, amount, royalty, exclusive) ==
    /\ Call(caller, amount) /\ Open(x)
    /\ MintedAndSold(seller, buyer, amount, royalty, exclusive, x)

\* Type 20, with an offer of the buyer and a price of the owner that name exchanges.
BuyNFTByExchanger(caller, n, buyer, named, amount) ==
    /\ Call(caller, amount)
    /\ IF nft[n].exclusive # None THEN MaySell(n, caller) ELSE caller \in named
    /\ Sold(n, buyer, amount, caller)

NextBlock ==
    /\ number < MaxNumber /\ number' = number + 1
    /\ UNCHANGED <<nft, approvedAll, exchange, balance, weight, approver>>

Manage ==
    \/ \E o \in Users, r \in Royalties, x \in Exchangers \cup {None} : CreateNFTByUser(o, r, x)
    \/ \E c, to \in Users, n \in DOMAIN nft : TransferNFT(c, n, to)
    \/ \E c \in Users, n \in DOMAIN nft, x \in Exchangers :
        ChangeNFTApproveAddress(c, n, x) \/ CancelNFTApproveAddress(c, n, x)
    \/ \E c \in Users, x \in Exchangers : ChangeApproveAddress(c, x) \/ CancelApproveAddress(c, x)
    \/ \E x \in Exchangers, f \in FeeRates : OpenExchanger(x, f)
    \/ \E x \in Exchangers : CloseExchanger(x)
    \/ NextBlock

Bounded == SumFunction(weight) < MaxTraded

Sell ==
    /\ Bounded
    /\ \E c \in Accounts, n \in DOMAIN nft, b \in Users, x \in Exchangers, p \in Prices :
        \/ BuyNFTBySellerOrExchanger(c, n, b, x, p)
        \/ BuyNFTByBuyer(b, n, x, p)
        \/ BuyNFTByApproveExchanger(c, n, b, x, p)
        \/ BuyNFTByExchanger(c, n, b, {x}, p)

SellNew ==
    /\ Bounded
    /\ \E c \in Accounts, s, b \in Users, x \in Exchangers, p \in Prices, r \in Royalties, e \in BOOLEAN :
        \/ BuyAndMintNFTByBuyer(b, s, x, p, r, e)
        \/ BuyAndMintNFTByExchanger(c, s, b, p, r, e)
        \/ BuyAndMintNFTByApprovedExchanger(c, s, b, x, p, r, e)

Next == Manage \/ Sell \/ SellNew

Spec == Init /\ [][Next]_vars

-----------------------------------------------------------------------------
(* Properties.                                                             *)

\* An exchange that may sell a single NFT was approved by the one who owns it now, through
\* all transfers and sales (ChangeNFTOwner of the state object).
ApprovedByOwner == \A n \in DOMAIN nft : nft[n].approved # None => approver[n] = nft[n].owner

\* As long as the exchange an NFT was minted for is open, it is the one that earns by every
\* sale of the NFT, whoever calls and whichever messages are used.
ExclusiveEarns ==
    [][\A n \in DOMAIN nft :
        LET x == nft[n].exclusive
        IN nft'[n].owner # nft[n].owner /\ weight' # weight /\ x # None /\ Open(x)
           => weight'[x] > weight[x]]_vars

\* Sales create and destroy no money, also when parties coincide or a share is rounded.
MoneyKept == SumFunction(balance) = Cardinality(Accounts) * Funds

\* Nobody is left with less than nothing: a balance can not be stored then.
NeverInDebt == \A a \in Accounts : balance[a] >= 0

\* A royalty and a fee that leave the seller something leave nobody with less than nothing,
\* though what the caller has is looked at and another may be the one who pays.
NoDebt == (\A r \in Royalties, f \in FeeRates : r + f <= Unit) => NeverInDebt
=============================================================================
