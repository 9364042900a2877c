---------------------------- MODULE MarketProofs ----------------------------
(***************************************************************************)
(* Machine-checked proofs about Market, for all users, exchanges, rates    *)
(* and prices, and any number of NFTs, sales and blocks.                   *)
(***************************************************************************)
EXTENDS Market, FoldLemmas

NFT == [owner : Users, creator : Users, royalty : Royalties, exclusive : Exchangers \cup {None},
        approved : Exchangers \cup {None}]

Fees == FeeRates \cup {0}

Types ==
    /\ nft \in Seq(NFT) /\ approver \in Seq(Users \cup {None}) /\ Len(approver) = Len(nft)
    /\ exchange \in [Accounts -> [fee : Fees, since : Nat]]
    /\ \A a \in Accounts : Open(a) => a \in Exchangers
    /\ approvedAll \in [Users -> SUBSET Exchangers]
    /\ balance \in [Accounts -> Int] /\ weight \in [Accounts -> Nat] /\ number \in Nat

\* What an NFT has.
LEMMA NFTsAre ==
    ASSUME Types, NEW n \in DOMAIN nft
    PROVE  /\ nft[n] \in NFT /\ nft[n].owner \in Users /\ nft[n].creator \in Users
           /\ nft[n].royalty \in Royalties /\ nft[n].exclusive \in Exchangers \cup {None}
<1>1. nft[n] \in NFT
  BY DEF Types
<1>. QED  BY <1>1 DEF NFT

\* Sequences that differ in one entry.
LEMMA OneEntry ==
    ASSUME NEW S, NEW s \in Seq(S), NEW n \in DOMAIN s, NEW y \in S
    PROVE  /\ [s EXCEPT ![n] = y] \in Seq(S) /\ Len([s EXCEPT ![n] = y]) = Len(s)
           /\ DOMAIN [s EXCEPT ![n] = y] = DOMAIN s /\ [s EXCEPT ![n] = y][n] = y
           /\ \A m \in DOMAIN s \ {n} : [s EXCEPT ![n] = y][m] = s[m]
OBVIOUS

\* An NFT that changes hands keeps everything but its approval.
LEMMA OwnerChanged ==
    ASSUME NEW r \in NFT, NEW u \in Users
    PROVE  LET c == ChangeNFTOwner(r, u)
           IN /\ c \in NFT /\ c.owner = u /\ c.exclusive = r.exclusive
              /\ c.approved # None => c = r
BY DEF NFT, ChangeNFTOwner

\* The history of approvals.
LEMMA ApproverIs ==
    ASSUME Types
    PROVE  /\ Approver \in Seq(Users \cup {None}) /\ Len(Approver) = Len(nft)
           /\ \A n \in DOMAIN nft : Approver[n] = IF nft'[n].approved = None THEN None ELSE approver[n]
<1>1. DOMAIN nft = 1 .. Len(nft) /\ Len(nft) \in Nat /\ \A n \in DOMAIN nft : approver[n] \in Users \cup {None}
  BY DEF Types
<1>. DEFINE h == [n \in 1 .. Len(nft) |-> IF nft'[n].approved = None THEN None ELSE approver[n]]
<1>2. Approver = h
  BY <1>1 DEF Approver
<1>3. h \in Seq(Users \cup {None}) /\ Len(h) = Len(nft)
  BY <1>1
<1>. QED  BY <1>1, <1>2, <1>3

-----------------------------------------------------------------------------
(* What a sale pays.                                                       *)

\* Shares of a price, for rates that do not add up to more than everything.
LEMMA ShareIs ==
    ASSUME NEW p \in Nat, NEW r \in Nat, NEW f \in Nat
    PROVE  /\ Share(p, r) \in Nat /\ Share(p, f) \in Nat
           /\ r + f <= Unit => Share(p, f) + Share(p, r) <= p
<1>. DEFINE q == p \div Unit
<1>1. Unit \in Nat \ {0}
  BY MarketBounds
<1>2. q \in Nat /\ q * Unit <= p
  BY <1>1
<1>3. Share(p, r) = q * r /\ Share(p, f) = q * f
  BY DEF Share
<1>. HIDE DEF q
<1>4. q * r \in Nat /\ q * f \in Nat
  BY <1>2
<1>5. ASSUME r + f <= Unit PROVE q * f + q * r <= p
  <2>1. PICK d \in Nat : Unit = r + f + d
    BY <1>1, <1>5, Unit - (r + f) \in Nat
  <2>2. q * Unit = q * r + q * f + q * d /\ q * d \in Nat
    BY <1>2, <2>1
  <2>. QED  BY <1>2, <1>4, <2>2
<1>. QED  BY <1>3, <1>4, <1>5

\* Fees are numbers, and leave something.
LEMMA FeesAre == Types => \A x \in Accounts : exchange[x].fee \in Nat /\ exchange[x].fee < Unit
<1>. SUFFICES ASSUME Types, NEW x \in Accounts PROVE exchange[x].fee \in Nat /\ exchange[x].fee < Unit
  OBVIOUS
<1>1. exchange[x].fee \in FeeRates \cup {0}
  BY DEF Types, Fees
<1>. QED  BY <1>1, MarketBounds

\* The parties to a sale.
Parties(buyer, seller, creator, royalty, x, p) ==
    /\ buyer \in Accounts /\ seller \in Accounts /\ creator \in Accounts /\ x \in Accounts
    /\ royalty \in Nat /\ p \in Nat

\* A sale moves money from the buyer to the others, whoever coincides, and loses none.
LEMMA PaidKeeps ==
    ASSUME Types, NEW buyer, NEW seller, NEW creator, NEW royalty, NEW x, NEW p,
           Parties(buyer, seller, creator, royalty, x, p)
    PROVE  /\ Paid(buyer, seller, creator, royalty, x, p) \in [Accounts -> Int]
           /\ SumFunctionOnSet(Paid(buyer, seller, creator, royalty, x, p), Accounts)
                = SumFunctionOnSet(balance, Accounts)
<1>. DEFINE fee == Share(p, exchange[x].fee)
            roy == Share(p, royalty)
            b1 == Shifted(balance, Accounts, buyer, - p)
            b2 == Shifted(b1, Accounts, seller, p - (fee + roy))
            b3 == Shifted(b2, Accounts, creator, roy)
            b4 == Shifted(b3, Accounts, x, fee)
<1>0. /\ buyer \in Accounts /\ seller \in Accounts /\ creator \in Accounts /\ x \in Accounts
      /\ royalty \in Nat /\ p \in Nat
  BY DEF Parties
<1>1. exchange[x].fee \in Nat
  BY <1>0, FeesAre, Zenon
<1>2. fee \in Int /\ roy \in Int /\ - p \in Int /\ p - (fee + roy) \in Int
  <2>1. fee \in Nat /\ roy \in Nat
    BY <1>0, <1>1, ShareIs, Zenon
  <2>. QED  BY <1>0, <2>1
<1>. HIDE DEF fee, roy
<1>3. balance \in [Accounts -> Int] /\ IsFiniteSet(Accounts)
  BY MarketBounds DEF Types
<1>4. b1 \in [Accounts -> Int] /\ b2 \in [Accounts -> Int] /\ b3 \in [Accounts -> Int] /\ b4 \in [Accounts -> Int]
  BY <1>2, <1>3 DEF Shifted
<1>5. Paid(buyer, seller, creator, royalty, x, p) = b4
  <2>1. ASSUME NEW a \in Accounts
        PROVE  b4[a] = balance[a] - (IF a = buyer THEN p ELSE 0)
                       + (IF a = seller THEN p - (fee + roy) ELSE 0)
                       + (IF a = creator THEN roy ELSE 0) + (IF a = x THEN fee ELSE 0)
    BY <1>0, <1>2, <1>3 DEF Shifted
  <2>. QED  BY <1>4, <2>1 DEF Paid, fee, roy
<1>. HIDE DEF b1, b2, b3, b4
<1>a. \A f \in [Accounts -> Int] : \A a \in Accounts : \A d \in Int :
         SumFunctionOnSet(Shifted(f, Accounts, a, d), Accounts) = SumFunctionOnSet(f, Accounts) + d
  BY <1>3, SumShift, Zenon
<1>6. SumFunctionOnSet(b1, Accounts) = SumFunctionOnSet(balance, Accounts) + (- p)
  BY <1>0, <1>2, <1>3, <1>a, Zenon DEF b1
<1>7. SumFunctionOnSet(b2, Accounts) = SumFunctionOnSet(b1, Accounts) + (p - (fee + roy))
  BY <1>0, <1>2, <1>4, <1>a, Zenon DEF b2
<1>8. SumFunctionOnSet(b3, Accounts) = SumFunctionOnSet(b2, Accounts) + roy
  BY <1>0, <1>2, <1>4, <1>a, Zenon DEF b3
<1>9. SumFunctionOnSet(b4, Accounts) = SumFunctionOnSet(b3, Accounts) + fee
  BY <1>0, <1>2, <1>4, <1>a, Zenon DEF b4
<1>10. SumFunctionOnSet(balance, Accounts) \in Int
  <2>1. AddsUp(balance, Accounts)
    BY <1>3, SumParts, Zenon
  <2>. QED  BY <2>1 DEF AddsUp
<1>11. SumFunctionOnSet(b4, Accounts) = SumFunctionOnSet(balance, Accounts)
  BY <1>0, <1>2, <1>6, <1>7, <1>8, <1>9, <1>10
<1>. QED  BY <1>4, <1>5, <1>11, Zenon

\* Nobody is left with less than nothing, if the buyer can pay and the shares fit.
LEMMA PaidCovered ==
    ASSUME Types, NEW buyer, NEW seller, NEW creator, NEW royalty, NEW x, NEW p,
           Parties(buyer, seller, creator, royalty, x, p),
           NeverInDebt, balance[buyer] >= p, royalty + exchange[x].fee <= Unit
    PROVE  \A a \in Accounts : Paid(buyer, seller, creator, royalty, x, p)[a] >= 0
<1>. DEFINE fee == Share(p, exchange[x].fee)
            roy == Share(p, royalty)
<1>0. /\ buyer \in Accounts /\ seller \in Accounts /\ creator \in Accounts /\ x \in Accounts
      /\ royalty \in Nat /\ p \in Nat
  BY DEF Parties
<1>1. exchange[x].fee \in Nat
  BY <1>0, FeesAre, Zenon
<1>2. fee \in Nat /\ roy \in Nat /\ fee + roy <= p
  BY <1>0, <1>1, ShareIs, Zenon
<1>. HIDE DEF fee, roy
<1>. SUFFICES ASSUME NEW a \in Accounts
              PROVE  balance[a] - (IF a = buyer THEN p ELSE 0)
                       + (IF a = seller THEN p - (fee + roy) ELSE 0)
                       + (IF a = creator THEN roy ELSE 0) + (IF a = x THEN fee ELSE 0) >= 0
  BY DEF Paid, fee, roy
<1>3. balance[a] \in Int /\ balance[a] >= 0 /\ (a = buyer => balance[a] >= p)
  BY DEF Types, NeverInDebt
<1>. QED  BY <1>0, <1>2, <1>3

-----------------------------------------------------------------------------
(* Sales, whoever calls and whatever was signed.                           *)

Earns(n, y) == nft[n].exclusive # None /\ Open(nft[n].exclusive) => y = nft[n].exclusive

\* The exchange an NFT was minted for, while it is open, is the one that may sell it.
LEMMA MaySellEarns ==
    ASSUME Types, NEW n \in DOMAIN nft, NEW y, MaySell(n, y)
    PROVE  Earns(n, y)
<1>1. nft[n].exclusive \in Exchangers \cup {None}
  BY NFTsAre, Zenon
<1>. QED  BY <1>1 DEF MaySell, Earns

\* Every sale of an NFT pays and changes the owner in the same way.
LEMMA SellIs ==
    ASSUME Types, Sell
    PROVE  \E n \in DOMAIN nft, b \in Users, p \in Prices, y \in Accounts :
              Sold(n, b, p, y) /\ Earns(n, y)
<1>1. PICK c \in Accounts, n \in DOMAIN nft, b \in Users, x \in Exchangers, p \in Prices :
         \/ BuyNFTBySellerOrExchanger(c, n, b, x, p) \/ BuyNFTByBuyer(b, n, x, p)
         \/ BuyNFTByApproveExchanger(c, n, b, x, p) \/ BuyNFTByExchanger(c, n, b, {x}, p)
  BY Zenon DEF Sell
<1>. DEFINE e == nft[n].exclusive
<1>2. e \in Exchangers \cup {None} /\ x \in Accounts /\ (e # None => e \in Accounts)
  BY NFTsAre DEF Accounts
<1>. SUFFICES \E y \in Accounts : Sold(n, b, p, y) /\ Earns(n, y)
  BY Zenon
<1>3. CASE BuyNFTBySellerOrExchanger(c, n, b, x, p)
  <2>1. CASE Sold(n, b, p, IF e # None /\ Open(e) THEN e ELSE x)
    <3>. DEFINE y == IF e # None /\ Open(e) THEN e ELSE x
    <3>1. y \in Accounts /\ Earns(n, y)
      BY <1>2 DEF Earns
    <3>. QED  BY <2>1, <3>1, Zenon
  <2>2. CASE MaySell(n, c) /\ Sold(n, b, p, c)
    BY <2>2, MaySellEarns, Zenon
  <2>. QED  BY <1>3, <2>1, <2>2, Zenon DEF BuyNFTBySellerOrExchanger
<1>4. CASE BuyNFTByBuyer(b, n, x, p)
  <2>. DEFINE y == IF e # None THEN e ELSE x
  <2>1. y \in Accounts /\ Earns(n, y)
    BY <1>2 DEF Earns
  <2>. QED  BY <1>4, <2>1, Zenon DEF BuyNFTByBuyer
<1>5. CASE BuyNFTByApproveExchanger(c, n, b, x, p)
  BY <1>2, <1>5, MaySellEarns, Zenon DEF BuyNFTByApproveExchanger
<1>6. CASE BuyNFTByExchanger(c, n, b, {x}, p)
  <2>1. Earns(n, c)
    <3>1. CASE e # None
      BY <1>6, <3>1, MaySellEarns, Zenon DEF BuyNFTByExchanger
    <3>2. CASE e = None
      BY <3>2 DEF Earns
    <3>. QED  BY <3>1, <3>2
  <2>. QED  BY <1>6, <2>1, Zenon DEF BuyNFTByExchanger
<1>. QED  BY <1>1, <1>3, <1>4, <1>5, <1>6, Zenon

\* So does every sale of an NFT that is minted with it.
LEMMA SellNewIs ==
    ASSUME Types, SellNew
    PROVE  \E seller, b \in Users, p \in Prices, r \in Royalties, e \in BOOLEAN, y \in Exchangers :
              MintedAndSold(seller, b, p, r, e, y)
<1>1. PICK c \in Accounts, seller \in Users, b \in Users, x \in Exchangers, p \in Prices,
           r \in Royalties, e \in BOOLEAN :
         \/ BuyAndMintNFTByBuyer(b, seller, x, p, r, e)
         \/ BuyAndMintNFTByExchanger(c, seller, b, p, r, e)
         \/ BuyAndMintNFTByApprovedExchanger(c, seller, b, x, p, r, e)
  BY Zenon DEF SellNew
<1>2. CASE BuyAndMintNFTByExchanger(c, seller, b, p, r, e)
  <2>1. Open(c) /\ MintedAndSold(seller, b, p, r, e, c)
    BY <1>2, Zenon DEF BuyAndMintNFTByExchanger
  <2>2. c \in Exchangers
    BY <2>1 DEF Types
  <2>. QED  BY <2>1, <2>2, Zenon
<1>3. CASE MintedAndSold(seller, b, p, r, e, x)
  BY <1>3, Zenon
<1>. QED  BY <1>1, <1>2, <1>3, Zenon DEF BuyAndMintNFTByBuyer, BuyAndMintNFTByApprovedExchanger

-----------------------------------------------------------------------------
(* The invariant.                                                          *)

Inv == Types /\ ApprovedByOwner /\ MoneyKept /\ NoDebt

\* The invariant holds at first.
LEMMA InitInv == Init => Inv
<1>. SUFFICES ASSUME Init PROVE Inv
  OBVIOUS
<1>1. Funds \in Int /\ IsFiniteSet(Accounts)
  BY MarketBounds
<1>2. Types
  <2>1. exchange \in [Accounts -> [fee : Fees, since : Nat]] /\ \A a \in Accounts : ~ Open(a)
    BY DEF Init, Open, Fees
  <2>2. nft \in Seq(NFT) /\ approver \in Seq(Users \cup {None}) /\ Len(approver) = Len(nft)
    BY DEF Init
  <2>3. /\ approvedAll \in [Users -> SUBSET Exchangers] /\ number \in Nat
        /\ balance \in [Accounts -> Int] /\ weight \in [Accounts -> Nat]
    BY <1>1 DEF Init
  <2>. QED  BY <2>1, <2>2, <2>3, Zenon DEF Types
<1>3. ApprovedByOwner
  BY DEF Init, ApprovedByOwner
<1>4. MoneyKept
  <2>1. balance = [a \in Accounts |-> Funds] /\ DOMAIN balance = Accounts
    BY DEF Init
  <2>2. SumFunctionOnSet([a \in Accounts |-> Funds], Accounts) = Cardinality(Accounts) * Funds
    BY <1>1, SumConst, Zenon
  <2>. QED  BY <2>1, <2>2, Zenon DEF MoneyKept, SumFunction
<1>5. NoDebt
  BY MarketBounds DEF Init, NoDebt, NeverInDebt
<1>. QED  BY <1>2, <1>3, <1>4, <1>5, Zenon DEF Inv

\* NFT n is replaced by r, whose approval, if it has one, its owner has given.
Replaced(n, r) ==
    /\ r \in NFT /\ (r.approved # None => approver'[n] = r.owner)
    /\ nft' = [nft EXCEPT ![n] = r]
    /\ approver' \in Seq(Users \cup {None}) /\ Len(approver') = Len(nft)
    /\ \A m \in DOMAIN nft \ {n} : nft[m].approved # None => approver'[m] = approver[m]

\* One NFT replaced: the list keeps its types, and approvals stay with the owners.
LEMMA ReplacedKeeps ==
    ASSUME Types, ApprovedByOwner, NEW n \in DOMAIN nft, NEW r, Replaced(n, r)
    PROVE  /\ nft' \in Seq(NFT) /\ Len(approver') = Len(nft') /\ DOMAIN nft' = DOMAIN nft
           /\ ApprovedByOwner'
<1>1. nft \in Seq(NFT) /\ r \in NFT /\ nft' = [nft EXCEPT ![n] = r]
  BY Zenon DEF Types, Replaced
<1>2. /\ nft' \in Seq(NFT) /\ Len(nft') = Len(nft) /\ DOMAIN nft' = DOMAIN nft /\ nft'[n] = r
      /\ \A m \in DOMAIN nft \ {n} : nft'[m] = nft[m]
  BY <1>1, OneEntry
<1>3. ApprovedByOwner'
  BY <1>2 DEF ApprovedByOwner, Replaced
<1>. QED  BY <1>2, <1>3 DEF Replaced

\* One NFT is added, which nobody may sell for its owner.
AddedNFT(r) ==
    /\ r \in NFT /\ r.approved = None
    /\ nft' = Append(nft, r) /\ approver' = Append(approver, None)

\* The same of one NFT more.
LEMMA AddedKeeps ==
    ASSUME Types, ApprovedByOwner, NEW r, AddedNFT(r)
    PROVE  /\ nft' \in Seq(NFT) /\ approver' \in Seq(Users \cup {None}) /\ Len(approver') = Len(nft')
           /\ ApprovedByOwner' /\ \A m \in DOMAIN nft : nft'[m] = nft[m]
<1>1. nft \in Seq(NFT) /\ approver \in Seq(Users \cup {None}) /\ Len(approver) = Len(nft) /\ r \in NFT
  BY DEF Types, AddedNFT
<1>2. /\ nft' \in Seq(NFT) /\ approver' \in Seq(Users \cup {None}) /\ Len(approver') = Len(nft')
      /\ DOMAIN nft' = DOMAIN nft \cup {Len(nft) + 1} /\ nft'[Len(nft) + 1] = r
      /\ \A m \in DOMAIN nft : nft'[m] = nft[m] /\ approver'[m] = approver[m]
  BY <1>1 DEF AddedNFT
<1>3. ApprovedByOwner'
  BY <1>2 DEF ApprovedByOwner, AddedNFT
<1>. QED  BY <1>2, <1>3

\* Changing the owner of an NFT ends its approval.
LEMMA OwnerReplaced ==
    ASSUME Types, ApprovedByOwner, NEW n \in DOMAIN nft, NEW u \in Users,
           nft' = [nft EXCEPT ![n] = ChangeNFTOwner(@, u)], approver' = Approver
    PROVE  Replaced(n, ChangeNFTOwner(nft[n], u))
<1>. DEFINE r == ChangeNFTOwner(nft[n], u)
<1>1. nft[n] \in NFT /\ nft \in Seq(NFT)
  BY NFTsAre DEF Types
<1>2. r \in NFT /\ r.owner = u /\ (r.approved # None => r = nft[n])
  BY <1>1, OwnerChanged
<1>3. nft' = [nft EXCEPT ![n] = r]
  OBVIOUS
<1>. HIDE DEF r
<1>4. nft'[n] = r /\ \A m \in DOMAIN nft \ {n} : nft'[m] = nft[m]
  BY <1>1, <1>2, <1>3, OneEntry
<1>5. /\ approver' \in Seq(Users \cup {None}) /\ Len(approver') = Len(nft)
      /\ \A m \in DOMAIN nft : approver'[m] = IF nft'[m].approved = None THEN None ELSE approver[m]
  BY ApproverIs, Zenon
<1>6. \A m \in DOMAIN nft \ {n} : nft[m].approved # None => approver'[m] = approver[m]
  BY <1>4, <1>5
<1>7. r.approved # None => approver'[n] = r.owner
  BY <1>2, <1>4, <1>5 DEF ApprovedByOwner
<1>. QED  BY <1>2, <1>3, <1>5, <1>6, <1>7 DEF Replaced, r

\* Money is kept when a sale is paid for, and debts are not made.
LEMMA SalePaid ==
    ASSUME Inv, NEW b, NEW seller, NEW creator, NEW royalty, NEW y, NEW p,
           Parties(b, seller, creator, royalty, y, p), royalty \in Royalties \cup {0}, CanPay(b, p),
           balance' = Paid(b, seller, creator, royalty, y, p)
    PROVE  balance' \in [Accounts -> Int] /\ MoneyKept' /\ NoDebt'
<1>1. Types /\ balance \in [Accounts -> Int]
  BY DEF Inv, Types
<1>2. /\ balance' \in [Accounts -> Int]
      /\ SumFunctionOnSet(balance', Accounts) = SumFunctionOnSet(balance, Accounts)
  BY <1>1, PaidKeeps
<1>3. DOMAIN balance = Accounts /\ DOMAIN balance' = Accounts
  BY <1>1, <1>2
<1>4. MoneyKept'
  BY <1>2, <1>3, Zenon DEF Inv, MoneyKept, SumFunction
<1>5. ASSUME \A r \in Royalties, f \in FeeRates : r + f <= Unit PROVE NeverInDebt'
  <2>1. NeverInDebt
    BY <1>5 DEF Inv, NoDebt
  <2>2. balance[b] >= p
    BY DEF CanPay
  <2>3. royalty + exchange[y].fee <= Unit
    <3>1. y \in Accounts /\ royalty \in Nat
      BY DEF Parties
    <3>2. exchange[y].fee \in FeeRates \cup {0} /\ exchange[y].fee \in Nat /\ exchange[y].fee < Unit
      BY <1>1, <3>1, FeesAre DEF Types, Fees
    <3>3. Unit \in Nat /\ royalty < Unit
      BY MarketBounds
    <3>. QED  BY <1>5, <3>1, <3>2, <3>3
  <2>4. \A a \in Accounts : Paid(b, seller, creator, royalty, y, p)[a] >= 0
    BY <1>1, <2>1, <2>2, <2>3, PaidCovered, Zenon
  <2>. QED  BY <2>4, Zenon DEF NeverInDebt
<1>6. NoDebt'
  BY <1>5, Zenon DEF NoDebt
<1>. QED  BY <1>2, <1>4, <1>6

\* A sale of an NFT preserves the invariant; the exchange y earns by it.
LEMMA SoldStep ==
    ASSUME Inv, NEW n \in DOMAIN nft, NEW b \in Users, NEW p \in Prices, NEW y \in Accounts,
           Sold(n, b, p, y)
    PROVE  /\ Inv' /\ weight'[y] > weight[y]
           /\ \A m \in DOMAIN nft \ {n} : nft'[m].owner = nft[m].owner
<1>0. Types /\ ApprovedByOwner
  BY DEF Inv
<1>1. /\ CanPay(b, p) /\ balance' = Paid(b, nft[n].owner, nft[n].creator, nft[n].royalty, y, p)
      /\ weight' = [weight EXCEPT ![y] = @ + p]
      /\ nft' = [nft EXCEPT ![n] = ChangeNFTOwner(@, b)] /\ approver' = Approver
      /\ UNCHANGED <<approvedAll, exchange, number>>
  BY Zenon DEF Sold
<1>2. p \in Nat /\ p > 0 /\ Royalties \subseteq Nat
  BY MarketBounds
<1>3. Parties(b, nft[n].owner, nft[n].creator, nft[n].royalty, y, p) /\ nft[n].royalty \in Royalties \cup {0}
  BY <1>0, <1>2, NFTsAre DEF Parties, Accounts
<1>4. balance' \in [Accounts -> Int] /\ MoneyKept' /\ NoDebt'
  BY <1>1, <1>3, SalePaid
<1>. DEFINE r == ChangeNFTOwner(nft[n], b)
<1>5. Replaced(n, r)
  BY <1>0, <1>1, OwnerReplaced
<1>. HIDE DEF r
<1>6. /\ nft' \in Seq(NFT) /\ Len(approver') = Len(nft') /\ DOMAIN nft' = DOMAIN nft
      /\ ApprovedByOwner' /\ approver' \in Seq(Users \cup {None}) /\ nft' = [nft EXCEPT ![n] = r]
  BY <1>0, <1>5, ReplacedKeeps DEF Replaced
<1>7. weight \in [Accounts -> Nat]
  BY <1>0 DEF Types
<1>8. weight' \in [Accounts -> Nat] /\ weight'[y] > weight[y]
  BY <1>1, <1>2, <1>7
<1>9. Types'
  <2>1. /\ exchange \in [Accounts -> [fee : Fees, since : Nat]]
        /\ \A a \in Accounts : Open(a) => a \in Exchangers
        /\ approvedAll \in [Users -> SUBSET Exchangers] /\ number \in Nat
    BY <1>0, Zenon DEF Types
  <2>2. \A a \in Accounts : Open(a)' => a \in Exchangers
    BY <1>1, <2>1, Zenon DEF Open
  <2>. QED  BY <1>1, <1>4, <1>6, <1>8, <2>1, <2>2, Zenon DEF Types
<1>10. \A m \in DOMAIN nft \ {n} : nft'[m].owner = nft[m].owner
  BY <1>0, <1>6 DEF Types
<1>. QED  BY <1>4, <1>6, <1>8, <1>9, <1>10 DEF Inv

\* So does a sale of a new one, which leaves the others alone.
LEMMA MintedStep ==
    ASSUME Inv, NEW seller \in Users, NEW b \in Users, NEW p \in Prices, NEW r \in Royalties,
           NEW e \in BOOLEAN, NEW y \in Exchangers, MintedAndSold(seller, b, p, r, e, y)
    PROVE  Inv' /\ \A m \in DOMAIN nft : nft'[m] = nft[m]
<1>0. Types /\ ApprovedByOwner
  BY DEF Inv
<1>. DEFINE minted == NewNFT(seller, r, IF e THEN y ELSE None)
            sold == ChangeNFTOwner(minted, b)
<1>1. /\ CanPay(b, p) /\ balance' = Paid(b, seller, seller, 0, y, p)
      /\ weight' = [weight EXCEPT ![y] = @ + p]
      /\ nft' = Append(nft, sold) /\ approver' = Append(approver, None)
      /\ UNCHANGED <<approvedAll, exchange, number>>
  BY Zenon DEF MintedAndSold
<1>2. p \in Nat /\ y \in Accounts /\ seller \in Accounts /\ b \in Accounts
  BY MarketBounds DEF Accounts
<1>3. Parties(b, seller, seller, 0, y, p) /\ 0 \in Royalties \cup {0}
  BY <1>2 DEF Parties
<1>4. balance' \in [Accounts -> Int] /\ MoneyKept' /\ NoDebt'
  BY <1>1, <1>3, SalePaid
<1>5. minted \in NFT /\ minted.approved = None
  BY DEF NFT, NewNFT
<1>. HIDE DEF minted
<1>6. sold \in NFT /\ sold.approved = None
  BY <1>5, OwnerChanged
<1>7. AddedNFT(sold)
  BY <1>1, <1>6 DEF AddedNFT
<1>. HIDE DEF sold
<1>8. /\ nft' \in Seq(NFT) /\ approver' \in Seq(Users \cup {None}) /\ Len(approver') = Len(nft')
      /\ ApprovedByOwner' /\ \A m \in DOMAIN nft : nft'[m] = nft[m]
  BY <1>0, <1>7, AddedKeeps
<1>9. weight' \in [Accounts -> Nat]
  BY <1>0, <1>1, <1>2 DEF Types
<1>10. Types'
  <2>1. /\ exchange \in [Accounts -> [fee : Fees, since : Nat]]
        /\ \A a \in Accounts : Open(a) => a \in Exchangers
        /\ approvedAll \in [Users -> SUBSET Exchangers] /\ number \in Nat
    BY <1>0, Zenon DEF Types
  <2>2. \A a \in Accounts : Open(a)' => a \in Exchangers
    BY <1>1, <2>1, Zenon DEF Open
  <2>. QED  BY <1>1, <1>4, <1>8, <1>9, <2>1, <2>2, Zenon DEF Types
<1>. QED  BY <1>4, <1>8, <1>10 DEF Inv

\* What leaves the money and the exchanges alone, and the NFTs well.
LEMMA NFTStep ==
    ASSUME Inv, UNCHANGED <<exchange, balance, weight, number>>,
           nft' \in Seq(NFT), approver' \in Seq(Users \cup {None}), Len(approver') = Len(nft'),
           ApprovedByOwner', approvedAll' \in [Users -> SUBSET Exchangers]
    PROVE  Inv'
<1>1. Types'
  BY Zenon DEF Inv, Types, Open
<1>2. MoneyKept' /\ NoDebt'
  BY Zenon DEF Inv, MoneyKept, NoDebt, NeverInDebt
<1>. QED  BY <1>1, <1>2, Zenon DEF Inv

\* What leaves the NFTs and the money alone.
LEMMA ExchangeStep ==
    ASSUME Inv, UNCHANGED <<nft, approvedAll, balance, weight, approver>>, number' \in Nat,
           exchange' \in [Accounts -> [fee : Fees, since : Nat]],
           \A a \in Accounts : Open(a)' => a \in Exchangers
    PROVE  Inv'
<1>1. Types'
  BY Zenon DEF Inv, Types
<1>2. ApprovedByOwner' /\ MoneyKept' /\ NoDebt'
  BY Zenon DEF Inv, ApprovedByOwner, MoneyKept, NoDebt, NeverInDebt
<1>. QED  BY <1>1, <1>2, Zenon DEF Inv

\* Minting, transfers, approvals and exchanges preserve the invariant.
LEMMA ManageStep ==
    ASSUME Inv, Manage
    PROVE  Inv' /\ UNCHANGED weight
<1>0. /\ Types /\ ApprovedByOwner /\ nft \in Seq(NFT) /\ approver \in Seq(Users \cup {None})
      /\ Len(approver) = Len(nft) /\ approvedAll \in [Users -> SUBSET Exchangers]
      /\ exchange \in [Accounts -> [fee : Fees, since : Nat]] /\ number \in Nat
      /\ \A a \in Accounts : Open(a) => a \in Exchangers
  BY DEF Inv, Types
<1>1. ASSUME NEW o \in Users, NEW r \in Royalties, NEW x \in Exchangers \cup {None}, CreateNFTByUser(o, r, x)
      PROVE  Inv' /\ UNCHANGED weight
  <2>. DEFINE new == NewNFT(o, r, x)
  <2>1. new \in NFT /\ new.approved = None
    BY DEF NFT, NewNFT
  <2>2. /\ nft' = Append(nft, new) /\ approver' = Append(approver, None)
        /\ UNCHANGED <<approvedAll, exchange, balance, weight, number>>
    BY <1>1, Zenon DEF CreateNFTByUser
  <2>. HIDE DEF new
  <2>3. AddedNFT(new)
    BY <2>1, <2>2 DEF AddedNFT
  <2>. QED  BY <1>0, <2>2, <2>3, AddedKeeps, NFTStep
<1>2. ASSUME NEW c \in Users, NEW to \in Users, NEW n \in DOMAIN nft, TransferNFT(c, n, to)
      PROVE  Inv' /\ UNCHANGED weight
  <2>1. /\ nft' = [nft EXCEPT ![n] = ChangeNFTOwner(@, to)] /\ approver' = Approver
        /\ UNCHANGED <<approvedAll, exchange, balance, weight, number>>
    BY <1>2, Zenon DEF TransferNFT
  <2>. DEFINE r == ChangeNFTOwner(nft[n], to)
  <2>2. Replaced(n, r)
    BY <1>0, <2>1, OwnerReplaced
  <2>. HIDE DEF r
  <2>. QED  BY <1>0, <2>1, <2>2, ReplacedKeeps, NFTStep DEF Replaced
<1>3. ASSUME NEW c \in Users, NEW n \in DOMAIN nft, NEW x \in Exchangers, ChangeNFTApproveAddress(c, n, x)
      PROVE  Inv' /\ UNCHANGED weight
  <2>1. /\ nft[n].owner = c /\ nft' = [nft EXCEPT ![n].approved = x]
        /\ approver' = [approver EXCEPT ![n] = c]
        /\ UNCHANGED <<approvedAll, exchange, balance, weight, number>>
    BY <1>3, Zenon DEF ChangeNFTApproveAddress
  <2>. DEFINE r == [nft[n] EXCEPT !.approved = x]
  <2>2. nft[n] \in NFT
    BY <1>0, NFTsAre
  <2>3. r \in NFT /\ r.owner = c /\ nft' = [nft EXCEPT ![n] = r]
    BY <2>1, <2>2 DEF NFT
  <2>. HIDE DEF r
  <2>4. n \in DOMAIN approver /\ c \in Users \cup {None}
    BY <1>0
  <2>5. /\ approver' \in Seq(Users \cup {None}) /\ Len(approver') = Len(approver) /\ approver'[n] = c
        /\ \A m \in DOMAIN approver \ {n} : approver'[m] = approver[m]
    BY <1>0, <2>1, <2>4, OneEntry
  <2>6. Replaced(n, r)
    BY <1>0, <2>3, <2>5 DEF Replaced
  <2>. QED  BY <1>0, <2>1, <2>6, ReplacedKeeps, NFTStep DEF Replaced
<1>4. ASSUME NEW c \in Users, NEW n \in DOMAIN nft, NEW x \in Exchangers, CancelNFTApproveAddress(c, n, x)
      PROVE  Inv' /\ UNCHANGED weight
  <2>1. /\ nft' = [nft EXCEPT ![n].approved = None] /\ approver' = Approver
        /\ UNCHANGED <<approvedAll, exchange, balance, weight, number>>
    BY <1>4, Zenon DEF CancelNFTApproveAddress
  <2>. DEFINE r == [nft[n] EXCEPT !.approved = None]
  <2>2. nft[n] \in NFT
    BY <1>0, NFTsAre
  <2>3. r \in NFT /\ r.approved = None /\ nft' = [nft EXCEPT ![n] = r]
    BY <2>1, <2>2 DEF NFT
  <2>. HIDE DEF r
  <2>4. \A m \in DOMAIN nft \ {n} : nft'[m] = nft[m]
    BY <1>0, <2>3, OneEntry
  <2>5. Replaced(n, r)
    <3>1. /\ approver' \in Seq(Users \cup {None}) /\ Len(approver') = Len(nft)
          /\ \A m \in DOMAIN nft : approver'[m] = IF nft'[m].approved = None THEN None ELSE approver[m]
      BY <1>0, <2>1, ApproverIs, Zenon
    <3>2. \A m \in DOMAIN nft \ {n} : nft[m].approved # None => approver'[m] = approver[m]
      BY <2>4, <3>1
    <3>. QED  BY <2>3, <3>1, <3>2 DEF Replaced
  <2>. QED  BY <1>0, <2>1, <2>5, ReplacedKeeps, NFTStep DEF Replaced
<1>5. ASSUME NEW c \in Users, NEW x \in Exchangers, ChangeApproveAddress(c, x) \/ CancelApproveAddress(c, x)
      PROVE  Inv' /\ UNCHANGED weight
  <2>1. /\ UNCHANGED <<nft, exchange, balance, weight, approver, number>>
        /\ approvedAll' \in [Users -> SUBSET Exchangers]
    BY <1>0, <1>5 DEF ChangeApproveAddress, CancelApproveAddress
  <2>2. ApprovedByOwner'
    BY <1>0, <2>1 DEF ApprovedByOwner
  <2>. QED  BY <1>0, <2>1, <2>2, NFTStep
<1>6. ASSUME NEW x \in Exchangers, NEW r \in Fees,
             \E t \in Nat : exchange' = [exchange EXCEPT ![x] = [fee |-> r, since |-> t]],
             UNCHANGED <<nft, approvedAll, balance, weight, approver, number>>
      PROVE  Inv' /\ UNCHANGED weight
  <2>1. PICK t \in Nat : exchange' = [exchange EXCEPT ![x] = [fee |-> r, since |-> t]]
    BY <1>6
  <2>2. x \in Accounts /\ [fee |-> r, since |-> t] \in [fee : Fees, since : Nat]
    BY DEF Accounts
  <2>3. /\ exchange' \in [Accounts -> [fee : Fees, since : Nat]]
        /\ \A a \in Accounts \ {x} : exchange'[a] = exchange[a]
    BY <1>0, <2>1, <2>2
  <2>4. \A a \in Accounts : Open(a)' => a \in Exchangers
    BY <1>0, <2>3 DEF Open
  <2>. QED  BY <1>0, <1>6, <2>3, <2>4, ExchangeStep
<1>7. ASSUME NEW x \in Exchangers, NEW f \in FeeRates, OpenExchanger(x, f) PROVE Inv' /\ UNCHANGED weight
  <2>1. f \in Fees
    BY DEF Fees
  <2>2. /\ exchange' = [exchange EXCEPT ![x] = [fee |-> f, since |-> number]]
        /\ UNCHANGED <<nft, approvedAll, balance, weight, approver, number>>
    BY <1>7, Zenon DEF OpenExchanger
  <2>. QED  BY <1>0, <1>6, <2>1, <2>2, Zenon
<1>8. ASSUME NEW x \in Exchangers, CloseExchanger(x) PROVE Inv' /\ UNCHANGED weight
  <2>1. 0 \in Fees /\ 0 \in Nat
    BY DEF Fees
  <2>2. /\ exchange' = [exchange EXCEPT ![x] = [fee |-> 0, since |-> 0]]
        /\ UNCHANGED <<nft, approvedAll, balance, weight, approver, number>>
    BY <1>8, Zenon DEF CloseExchanger
  <2>. QED  BY <1>6, <2>1, <2>2, Zenon
<1>9. ASSUME NextBlock PROVE Inv' /\ UNCHANGED weight
  <2>1. UNCHANGED <<nft, approvedAll, exchange, balance, weight, approver>> /\ number' \in Nat
    BY <1>0, <1>9 DEF NextBlock
  <2>2. \A a \in Accounts : Open(a)' => a \in Exchangers
    BY <1>0, <2>1 DEF Open
  <2>. QED  BY <1>0, <2>1, <2>2, ExchangeStep
<1>. QED  BY <1>1, <1>2, <1>3, <1>4, <1>5, <1>7, <1>8, <1>9, Zenon DEF Manage

ExclusiveEarnsStep ==
    \A n \in DOMAIN nft :
        LET x == nft[n].exclusive
        IN nft'[n].owner # nft[n].owner /\ weight' # weight /\ x # None /\ Open(x)
           => weight'[x] > weight[x]

\* Every step preserves the invariant, and pays the exchange an NFT was minted for.
LEMMA NextInv ==
    ASSUME Inv, [Next]_vars
    PROVE  Inv' /\ [ExclusiveEarnsStep]_vars
<1>0. Types
  BY DEF Inv
<1>1. CASE UNCHANGED vars
  <2>1. Inv'
    BY <1>1, Zenon DEF vars, Inv, Types, Open, ApprovedByOwner, MoneyKept, NoDebt, NeverInDebt
  <2>. QED  BY <1>1, <2>1
<1>2. CASE Manage
  BY <1>2, ManageStep DEF ExclusiveEarnsStep
<1>3. CASE Sell
  <2>1. PICK n \in DOMAIN nft, b \in Users, p \in Prices, y \in Accounts :
           Sold(n, b, p, y) /\ Earns(n, y)
    BY <1>0, <1>3, SellIs, Zenon
  <2>2. /\ Inv' /\ weight'[y] > weight[y]
        /\ \A m \in DOMAIN nft \ {n} : nft'[m].owner = nft[m].owner
    BY <2>1, SoldStep
  <2>3. ExclusiveEarnsStep
    BY <2>1, <2>2 DEF ExclusiveEarnsStep, Earns
  <2>. QED  BY <2>2, <2>3
<1>4. CASE SellNew
  <2>1. Inv' /\ \A m \in DOMAIN nft : nft'[m] = nft[m]
    BY <1>0, <1>4, SellNewIs, MintedStep, Zenon
  <2>. QED  BY <2>1 DEF ExclusiveEarnsStep
<1>. QED  BY <1>1, <1>2, <1>3, <1>4 DEF Next

\* The invariant holds in every state the market reaches.
THEOREM MarketInvariant == Spec => []Inv
<1>1. Inv /\ [Next]_vars => Inv'
  BY NextInv, Zenon
<1>. QED  BY <1>1, InitInv, PTL DEF Spec

\* Whoever may sell a single NFT was approved by its owner, not by a former one.
THEOREM SoldForOwner == Spec => []ApprovedByOwner
<1>1. Inv => ApprovedByOwner
  BY Zenon DEF Inv
<1>. QED  BY <1>1, MarketInvariant, PTL

\* Sales neither create nor destroy money, for any rates, also when the buyer, the seller,
\* the creator and the exchange coincide, and whatever is lost by rounding the shares.
THEOREM SalesKeepMoney == Spec => []MoneyKept
<1>1. Inv => MoneyKept
  BY Zenon DEF Inv
<1>. QED  BY <1>1, MarketInvariant, PTL

\* No balance gets negative if no royalty and no fee add up to more than the price.
THEOREM SalesMakeNoDebt == Spec => []NoDebt
<1>1. Inv => NoDebt
  BY Zenon DEF Inv
<1>. QED  BY <1>1, MarketInvariant, PTL

\* The exchange an NFT was minted for earns by every sale of it while it is open.
THEOREM ExclusiveIsPaid == Spec => ExclusiveEarns
<1>1. Inv /\ [Next]_vars => [ExclusiveEarnsStep]_vars
  BY NextInv, Zenon
<1>. QED  BY <1>1, MarketInvariant, PTL DEF Spec, ExclusiveEarns, ExclusiveEarnsStep
=============================================================================
