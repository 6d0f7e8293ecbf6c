----------------------------- MODULE MCCoinFlip -----------------------------
(* Instances of CoinFlip for TLC. *)
EXTENDS CoinFlip, TLC

CONSTANTS ada, bob

\* The coin falls on tails for one player and one seed only.
MCCoinOf == [x \in (0..MaxBlock) \X Players |->
                IF x[2] = ada /\ x[1] = 0 THEN 1 ELSE 0]
=============================================================================
