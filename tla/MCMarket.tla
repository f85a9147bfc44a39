-------------------------------- MODULE MCMarket -------------------------------
(* Small instances of Market: the sets the configurations substitute. *)
EXTENDS Market, FiniteSets, TLC

CONSTANTS u1, u2

TwoUsers == {u1, u2}

\* One wallet can mint and pay the fee; the other lives off transfers.
CollateralUsdc == (u1 :> 4) @@ (u2 :> 0)

Fee(m, p, w, mo, r) ==
  [mint_fee_bps |-> m, platform_retain_bps |-> p, weekly_pool_bps |-> w,
   monthly_pool_bps |-> mo, creator_rebate_bps |-> r, force_redeem_grace_secs |-> 1]

FeesOff == Fee(0, 2, 1, 1, 4)
\* Full rate on tier one with an uneven split, half the rate rebated; the other
\* record validate_fee_params must refuse.
FeesOn == Fee(4, 2, 1, 1, 2)
FeeMenu == {FeesOn, Fee(4, 2, 2, 2, 2)}

Reading(p, c, d) == [price |-> p, confidence |-> c, slot_delta |-> d]

\* A price on each side of the strike, one exactly on it, a zero price with zero
\* confidence, a wide price and a stale one.
ReadingMenu ==
  {Reading(5, 1, 0), Reading(3, 0, 3), Reading(0, 0, 0), Reading(5, 3, 0),
   Reading(5, 0, 20)}

\* The second wallet trades, redeems and donates but does not mint.  It and the
\* delegate join in while there is no fee, nothing is paused or flipped and the
\* delay is the one at the start; these four come one at a time.
Solo == yes[u2] + no[u2] + donated = 0 /\ approved = {}
Oddities ==
  {i \in 1..4 : <<feeConfig.mint_fee_bps > 0, paused, ~mintCurrent, overrideDelay = 0>>[i]}
MarketBounds ==
  /\ Cardinality(approved) + donated <= 1
  /\ ~userConfig[u2].exists
  /\ Oddities = {} \/ (Cardinality(Oddities) = 1 /\ Solo)

================================================================================
