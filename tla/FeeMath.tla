-------------------------------- MODULE FeeMath --------------------------------
(******************************************************************************)
(* The mint fee of instructions/mint_pair.rs as pure operators.  The basis    *)
(* point scale, the tier table and the decay window are parameters so that    *)
(* small instances reach every tier and every rounding case; the program      *)
(* fixes them in state.rs (10_000 bps, 200/150/100 bps, 30 days).             *)
(* The u128 intermediates of the code never overflow and its u16 casts are    *)
(* lossless because mint_fee_bps <= 10_000, so plain integers stand for both. *)
(******************************************************************************)
EXTENDS Integers

CONSTANTS
  BPS,            \* 10_000: one whole in basis points
  TIER_BREAK_1K,  \* first tier boundary of mint_volume_30d
  TIER_BREAK_10K, \* second tier boundary
  TIER1_BPS, TIER2_BPS, TIER3_BPS, \* fee rate of each tier
  DECAY_WINDOW    \* MINT_VOLUME_DECAY_WINDOW_SECS

ASSUME FeeAssumption ==
  /\ BPS \in Nat \ {0}
  /\ TIER_BREAK_1K \in Nat
  /\ TIER_BREAK_10K \in Nat
  /\ TIER1_BPS \in Nat \ {0}
  /\ TIER2_BPS \in Nat
  /\ TIER3_BPS \in Nat
  /\ TIER2_BPS <= TIER1_BPS
  /\ TIER3_BPS <= TIER2_BPS
  /\ DECAY_WINDOW \in Nat \ {0}

SaturatingSub(a, b) == IF b <= a THEN a - b ELSE 0

SaturatingAdd(a, b, max) == IF a + b <= max THEN a + b ELSE max

(* The rate bought by a 30-day mint volume. *)
tier_fee_bps(volume) ==
  IF volume < TIER_BREAK_1K THEN TIER1_BPS
  ELSE IF volume < TIER_BREAK_10K THEN TIER2_BPS
  ELSE TIER3_BPS

(* The part of a rate left to the creator of the strike. *)
fee_after_rebate(tier_bps, rebate_bps) ==
  (tier_bps * SaturatingSub(BPS, rebate_bps)) \div BPS

(* Lazy linear decay, re-anchored by the caller on every mint. *)
apply_linear_decay(volume, lastDecay, t) ==
  IF t <= lastDecay THEN volume
  ELSE IF t - lastDecay >= DECAY_WINDOW THEN 0
  ELSE (volume * (DECAY_WINDOW - (t - lastDecay))) \div DECAY_WINDOW

(* mint_fee_bps is the tier-1 rate; the other tiers scale with it. *)
effective_bps(fc, volume, rebated) ==
  LET afterTier == (tier_fee_bps(volume) * fc.mint_fee_bps) \div TIER1_BPS
  IN IF rebated THEN fee_after_rebate(afterTier, fc.creator_rebate_bps)
     ELSE afterTier

fee_total(amount, bps) == (amount * bps) \div BPS

(* The three sinks; the monthly pool takes what the other two divisions leave. *)
split_fee(fee, fc) ==
  LET platform == (fee * fc.platform_retain_bps) \div BPS
      weekly   == (fee * fc.weekly_pool_bps) \div BPS
  IN [platform |-> platform,
      weekly   |-> weekly,
      monthly  |-> SaturatingSub(SaturatingSub(fee, platform), weekly)]

(* What update_fee_config and initialize_fee_config accept.  The sums of the  *)
(* two ten-entry distribution tables are the concern of the payout programme  *)
(* and are not part of the record.                                            *)
validate_fee_params(fc) ==
  /\ fc.mint_fee_bps <= BPS
  /\ fc.creator_rebate_bps <= BPS
  /\ fc.force_redeem_grace_secs > 0
  /\ fc.platform_retain_bps + fc.weekly_pool_bps + fc.monthly_pool_bps = BPS

FeeConfigType ==
  [mint_fee_bps : Nat, platform_retain_bps : Nat, weekly_pool_bps : Nat,
   monthly_pool_bps : Nat, creator_rebate_bps : Nat, force_redeem_grace_secs : Int]
================================================================================
