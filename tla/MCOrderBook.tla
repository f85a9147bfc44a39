------------------------------ MODULE MCOrderBook ------------------------------
(* Small instances of OrderBook: the sets the configurations substitute. *)
EXTENDS OrderBook, TLC

CONSTANTS u1, u2

TwoUsers == {u1, u2}

\* A buyer and a seller who can also take the other side.
PairUsdc == (u1 :> 6) @@ (u2 :> 4)
PairYes == (u1 :> 1) @@ (u2 :> 4)

\* The gates close, and tokens stray in, while the book is small; one at a time.
Closed == Cardinality({b \in {1, 2, 3} : <<paused, settled, ~mintCurrent>>[b]})
BookBounds ==
  /\ Closed + strayUsdc + strayYes <= 1
  /\ Closed + strayUsdc + strayYes = 1 => nextSeq <= 2
================================================================================
