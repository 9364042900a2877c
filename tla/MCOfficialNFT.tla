--------------------------- MODULE MCOfficialNFT ---------------------------
(* The constants of the runs of OfficialNFT.                               *)
EXTENDS OfficialNFT

\* The accounts may be exchanged for each other, and so may the exchanges.
Symmetry == Permutations(Accounts) \cup Permutations(Exchangers)

\* No digit of the addresses is a letter, as with the first ten SNFTs of level 1.
NoLetters == {}

\* The second SNFT of level 1 and its second index.
OneLetter == {<<Base, Base + 1>>}

\* Ranges that follow the genesis range and each other, overlap it, and leave a gap.
SomeInjections == {<<2, 2>>, <<4, 1>>, <<5, 2>>}

\* SNFTs move between two accounts, are also traded, or the ranges and nominations change.
MovesOrPolls ==
    {[moves |-> 3, trades |-> 0, polls |-> 0, accounts |-> Accounts, owners |-> 2],
     [moves |-> 1, trades |-> 1, polls |-> 0, accounts |-> Accounts, owners |-> 2]} \cup
    {[moves |-> 0, trades |-> 3, polls |-> 4, accounts |-> {a}, owners |-> 3] : a \in Accounts}

\* Only transfers and exchanges.
Moves == {[moves |-> 3, trades |-> 0, polls |-> 0, accounts |-> Accounts, owners |-> 2]}

\* Ranges that overlap, or follow each other, and blocks that use them up.
Polls == {[moves |-> 0, trades |-> 0, polls |-> 3, accounts |-> Accounts, owners |-> 3]}

\* A little of everything.
Trades == {[moves |-> 1, trades |-> 1, polls |-> 3, accounts |-> Accounts, owners |-> 2]}
=============================================================================
