------------------------------- MODULE OrderMath -------------------------------
(******************************************************************************)
(* The rounding arithmetic of matching.rs.  Prices are USDC base units per    *)
(* PRICE_SCALE base units of YES; escrow is rounded up, and a fill is charged *)
(* the difference of two such roundings so that fills telescope.              *)
(******************************************************************************)
EXTENDS Integers

CONSTANT PRICE_SCALE  \* 1_000_000: the price of one whole dollar

ASSUME OrderMathAssumption == PRICE_SCALE \in Nat \ {0}

(* The USDC a bid for size YES at price must escrow, rounded up. *)
bid_cost_ceil(price, size) == (price * size + (PRICE_SCALE - 1)) \div PRICE_SCALE

(* Mutant: each fill rounded on its own. *)
fill_usdc_PerFill(price, before, after) == bid_cost_ceil(price, before - after)

(* The USDC moved by a fill that shrinks a resting order from before to after. *)
fill_usdc(price, before, after) ==
  bid_cost_ceil(price, before) - bid_cost_ceil(price, after)
================================================================================
