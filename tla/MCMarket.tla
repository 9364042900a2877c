------------------------------ MODULE MCMarket ------------------------------
(* Instances of Market for model checking.                                 *)
EXTENDS Market, TLC

\* Users may be exchanged for each other, and so may exchanges.
MarketSymmetry == Permutations(Users) \cup Permutations(Exchangers)
=============================================================================
