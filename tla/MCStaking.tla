----------------------------- MODULE MCStaking -----------------------------
\* Instances of Staking for model checking.
EXTENDS Staking, TLC

CONSTANTS a1, a2

OneStaked == a1 :> MinPledge
OneExchange == a2 :> MinExchanger
=============================================================================
