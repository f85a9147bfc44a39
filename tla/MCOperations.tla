------------------------------ MODULE MCOperations -----------------------------
(* A small instance of Operations: one demo mint, two rungs a side, and       *)
(* prices so low that all of the seed's offsets fall on one strike, or on two.*)
EXTENDS Operations

Bids == <<45, 50>>
Asks == <<55, 60>>
Offsets == <<0, 4, 3>>

AllScripts ==
  {"create-busdc-mint", "mint-demo-usdc", "update-usdc-mint", "reinit-rewards-pools",
   "seed-demo-liquidity", "morning", "test-trade"}

\* A run that seeds two strikes is alone.
TwoStrikesAlone ==
  Len(run) > 1 =>
    \A i \in DOMAIN run :
      run[i].script = "seed-demo-liquidity" /\ run[i].todo # <<>> => Head(run[i].todo) = 10
================================================================================
