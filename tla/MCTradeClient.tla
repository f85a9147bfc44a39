----------------------------- MODULE MCTradeClient -----------------------------
(* Small instances of TradeClient: one trader's page and one dealer. *)
EXTENDS TradeClient, TLC

CONSTANT dealer

PageUsers == {trader, dealer}

\* A contract is two base units.  Others trade half contracts too, at two prices;
\* the dealer can bid for whole contracts and offer one and a half.
PageUsdc == (trader :> 4) @@ (dealer :> 2)
PageYes == (trader :> 0) @@ (dealer :> 3)

\* The gates close one at a time, the page is loaded or shown anew only once
\* something was submitted, and nothing more is submitted after a hasty submission.
ClientBounds ==
  /\ ~(paused /\ settled)
  /\ reloads <= submits
  /\ hasty => submits <= 1

================================================================================
