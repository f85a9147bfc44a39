------------------------------ MODULE MarketProofs -----------------------------
(******************************************************************************)
(* Theorems about Market, for every value of its constants: type correctness, *)
(* the solvency of the vault, the meaning of a settlement, the kill switch.   *)
(******************************************************************************)
EXTENDS Market, TLAPS

--------------------------------------------------------------------------------
(* Arithmetic *)

(* Flooring division of a natural number gives a natural number. *)
LEMMA DivNat ==
  ASSUME NEW a \in Nat, NEW b \in Nat \ {0}
  PROVE  a \div b \in Nat
OBVIOUS

(* Two floors never exceed the floor of the sum. *)
LEMMA DivSum ==
  ASSUME NEW a \in Nat, NEW c \in Nat, NEW b \in Nat \ {0}
  PROVE  (a \div b) + (c \div b) <= (a + c) \div b
OBVIOUS

(* A basis point share of a natural number is a natural number. *)
LEMMA ShareNat ==
  ASSUME NEW a \in Nat, NEW bps \in Nat, NEW b \in Nat \ {0}
  PROVE  (a * bps) \div b \in Nat
<1>1. a * bps \in Nat
  OBVIOUS
<1> QED
  BY <1>1, DivNat

LEMMA SaturatingNat ==
  ASSUME NEW a \in Nat, NEW b \in Nat, NEW max \in Nat
  PROVE  SaturatingSub(a, b) \in Nat /\ SaturatingAdd(a, b, max) \in Nat
BY DEF SaturatingSub, SaturatingAdd

(* Every rate the tier table, the scaling and the rebate can produce. *)
LEMMA RateNat ==
  ASSUME NEW fc \in FeeConfigType, NEW volume \in Nat, NEW rebated \in BOOLEAN
  PROVE  effective_bps(fc, volume, rebated) \in Nat
<1> DEFINE afterTier == (tier_fee_bps(volume) * fc.mint_fee_bps) \div TIER1_BPS
<1>1. tier_fee_bps(volume) \in Nat
  BY FeeAssumption DEF FeeAssumption, tier_fee_bps
<1>2. afterTier \in Nat
  BY <1>1, ShareNat, FeeAssumption DEF FeeAssumption, FeeConfigType
<1>3. SaturatingSub(BPS, fc.creator_rebate_bps) \in Nat
  BY FeeAssumption DEF FeeAssumption, SaturatingSub, FeeConfigType
<1>4. fee_after_rebate(afterTier, fc.creator_rebate_bps) \in Nat
  <2> HIDE DEF afterTier
  <2> QED
    BY <1>2, <1>3, ShareNat, FeeAssumption DEF FeeAssumption, fee_after_rebate
<1> QED
  BY <1>2, <1>4 DEF effective_bps

(* The three parts of a fee are natural numbers. *)
LEMMA FeePartsNat ==
  ASSUME NEW fc \in FeeConfigType, NEW amount \in Nat, NEW bps \in Nat
  PROVE  /\ split_fee(fee_total(amount, bps), fc).platform \in Nat
         /\ split_fee(fee_total(amount, bps), fc).weekly \in Nat
         /\ split_fee(fee_total(amount, bps), fc).monthly \in Nat
<1> DEFINE fee == fee_total(amount, bps)
           platform == (fee * fc.platform_retain_bps) \div BPS
           weekly == (fee * fc.weekly_pool_bps) \div BPS
<1>1. fee \in Nat
  BY ShareNat, FeeAssumption DEF FeeAssumption, fee_total
<1>2. platform \in Nat /\ weekly \in Nat
  <2> HIDE DEF fee
  <2> QED
    BY <1>1, ShareNat, FeeAssumption DEF FeeAssumption, FeeConfigType
<1>3. SaturatingSub(SaturatingSub(fee, platform), weekly) \in Nat
  <2> HIDE DEF fee, platform, weekly
  <2> QED
    BY <1>1, <1>2 DEF SaturatingSub
<1> QED
  BY <1>2, <1>3 DEF split_fee

(* Decay never raises a volume. *)
LEMMA DecayBounds ==
  ASSUME NEW volume \in Nat, NEW last \in Int, NEW t \in Int
  PROVE  /\ apply_linear_decay(volume, last, t) \in Nat
         /\ apply_linear_decay(volume, last, t) <= volume
<1>1. CASE t <= last
  BY <1>1 DEF apply_linear_decay
<1>2. CASE t > last /\ t - last >= DECAY_WINDOW
  BY <1>2, FeeAssumption DEF apply_linear_decay, FeeAssumption
<1>3. CASE t > last /\ t - last < DECAY_WINDOW
  <2> DEFINE rest == DECAY_WINDOW - (t - last)
  <2>1. rest \in Nat /\ rest <= DECAY_WINDOW /\ DECAY_WINDOW \in Nat \ {0}
    BY <1>3, FeeAssumption DEF FeeAssumption
  <2>2. apply_linear_decay(volume, last, t) = (volume * rest) \div DECAY_WINDOW
    BY <1>3, <2>1 DEF apply_linear_decay
  <2> HIDE DEF rest
  <2>3. volume * rest \in Nat /\ volume * rest <= volume * DECAY_WINDOW
    BY <2>1
  <2>4. (volume * rest) \div DECAY_WINDOW <= volume
    BY <2>1, <2>3
  <2> QED
    BY <2>1, <2>2, <2>3, <2>4, DivNat
<1> QED
  BY <1>1, <1>2, <1>3, FeeAssumption DEF FeeAssumption

--------------------------------------------------------------------------------
(* Type correctness *)

LEMMA TypeInit == Init => TypeOK
<1> SUFFICES ASSUME Init PROVE TypeOK
  OBVIOUS
<1>1. NewUserConfig \in UserConfigType
  BY DEF NewUserConfig, UserConfigType
<1>2. userConfig \in [Users -> UserConfigType]
  BY <1>1 DEF Init
<1>3. outcome \in Outcomes
  BY DEF Init, Outcomes
<1>4. feeConfig \in FeeConfigType /\ usdc \in [Users -> Nat] /\ overrideDelay \in Nat
  BY MarketAssumption DEF MarketAssumption, Init
<1>5. /\ yes \in [Users -> Nat]
      /\ no \in [Users -> Nat]
      /\ approved \subseteq Users
      /\ creator \in Users \cup {Nobody}
  BY DEF Init
<1>6. /\ paused \in BOOLEAN
      /\ mintCurrent \in BOOLEAN
      /\ created \in BOOLEAN
      /\ vaultOpen \in BOOLEAN
  BY DEF Init
<1>7. /\ now \in Nat /\ strike \in Int /\ expiry \in Nat /\ eligibleAt \in Nat
      /\ settlePrice \in Int /\ settledAt \in Nat
      /\ pairs \in Nat /\ vault \in Nat /\ yesSupply \in Nat /\ noSupply \in Nat
      /\ treasury \in Nat /\ weeklyPool \in Nat /\ monthlyPool \in Nat /\ donated \in Nat
  BY DEF Init
<1> QED
  BY <1>2, <1>3, <1>4, <1>5, <1>6, <1>7 DEF TypeOK

(* The account a mint finds or creates, decayed and re-anchored: its volume   *)
(* is not larger than it was.                                                 *)
LEMMA TouchedType ==
  ASSUME TypeOK, NEW u \in Users
  PROVE  /\ TouchedUserConfig(u) \in UserConfigType
         /\ TouchedUserConfig(u).mint_volume_30d <= userConfig[u].mint_volume_30d
<1> DEFINE c == userConfig[u]
           decayed == apply_linear_decay(c.mint_volume_30d, c.last_decay, now)
           volume == IF c.exists THEN decayed ELSE c.mint_volume_30d
<1>1. c \in UserConfigType /\ now \in Nat
  BY DEF TypeOK
<1>2. c.mint_volume_30d \in Nat /\ c.last_decay \in Int
  BY <1>1 DEF UserConfigType
<1>3. decayed \in Nat /\ decayed <= c.mint_volume_30d
  BY <1>1, <1>2, DecayBounds
<1>4. volume \in Nat /\ volume <= c.mint_volume_30d
  <2> HIDE DEF decayed
  <2> QED
    BY <1>2, <1>3
<1>5. TouchedUserConfig(u)
        = [c EXCEPT !.exists = TRUE, !.last_decay = now, !.mint_volume_30d = volume]
  BY DEF TouchedUserConfig
<1> HIDE DEF c, volume
<1>6. TouchedUserConfig(u).mint_volume_30d = volume
  BY <1>1, <1>5 DEF UserConfigType
<1>7. TouchedUserConfig(u) \in UserConfigType
  <2>1. now \in Int
    BY <1>1
  <2> QED
    BY <1>1, <1>4, <1>5, <2>1 DEF UserConfigType
<1> QED
  BY <1>4, <1>6, <1>7 DEF c

(* The fee of a mint, in natural numbers. *)
LEMMA MintFeeNat ==
  ASSUME TypeOK, NEW u \in Users, NEW amount \in Nat
  PROVE  /\ MintFee(u, amount).platform \in Nat
         /\ MintFee(u, amount).weekly \in Nat
         /\ MintFee(u, amount).monthly \in Nat
<1>1. TouchedUserConfig(u) \in UserConfigType
  BY TouchedType
<1>2. effective_bps(feeConfig, TouchedUserConfig(u).mint_volume_30d,
                    CreatorRebateFires(u)) \in Nat
  BY <1>1, RateNat DEF TypeOK, CreatorRebateFires, UserConfigType
<1> QED
  BY <1>2, FeePartsNat DEF MintFee, TypeOK

LEMMA CountedType ==
  ASSUME TypeOK, NEW u \in Users, NEW amount \in Nat
  PROVE  CountedUserConfig(u, amount) \in UserConfigType
<1>1. TouchedUserConfig(u) \in UserConfigType
  BY TouchedType
<1> QED
  BY <1>1, SaturatingNat, MarketAssumption
     DEF MarketAssumption, CountedUserConfig, UserConfigType

LEMMA TypeStep == TypeOK /\ [Next]_vars => TypeOK'
<1> SUFFICES ASSUME TypeOK, [Next]_vars PROVE TypeOK'
  OBVIOUS
<1> USE DEF configVars, identityVars, outcomeVars, vaultVars, tokenVars, feeVars
<1>1. CASE Tick
  BY <1>1 DEF Tick, TypeOK
<1>2. ASSUME NEW u \in Users, NEW amount \in Amounts, MintPair(u, amount)
      PROVE  TypeOK'
  <2>1. amount \in Nat /\ U64_MAX \in Nat
    BY MarketAssumption DEF MarketAssumption
  <2>2. /\ MintFee(u, amount).platform \in Nat
        /\ MintFee(u, amount).weekly \in Nat
        /\ MintFee(u, amount).monthly \in Nat
    BY <2>1, MintFeeNat
  <2>3. userConfig' \in [Users -> UserConfigType]
    BY <1>2, <2>1, CountedType DEF MintPair, TypeOK
  <2>4. usdc' \in [Users -> Nat]
    BY <1>2, <2>1, <2>2 DEF MintPair, TypeOK
  <2>5. /\ yes' \in [Users -> Nat]
        /\ no' \in [Users -> Nat]
        /\ yesSupply' \in Nat
        /\ noSupply' \in Nat
    BY <1>2, <2>1 DEF MintPair, TypeOK
  <2>6. pairs' \in Nat
    BY <1>2, <2>1, SaturatingNat DEF MintPair, TypeOK
  <2>7. vault' \in Nat /\ treasury' \in Nat /\ weeklyPool' \in Nat /\ monthlyPool' \in Nat
    BY <1>2, <2>1, <2>2 DEF MintPair, TypeOK
  <2> QED
    BY <1>2, <2>3, <2>4, <2>5, <2>6, <2>7 DEF MintPair, TypeOK
<1>3. ASSUME NEW u \in Users, NEW amount \in Amounts, PayOut(u, amount),
             \/ BurnWinning(u, amount)
             \/ BurnYes(u, amount) /\ BurnNo(u, amount)
      PROVE  TypeOK'
  <2>1. amount \in Nat
    BY MarketAssumption DEF MarketAssumption
  <2>2. /\ yes' \in [Users -> Nat]
        /\ no' \in [Users -> Nat]
        /\ yesSupply' \in Nat
        /\ noSupply' \in Nat
    BY <1>3, <2>1 DEF BurnWinning, BurnYes, BurnNo, TypeOK
  <2>3. pairs' \in Nat
    BY <1>3, <2>1 DEF PayOut, SaturatingSub, TypeOK
  <2>4. usdc' \in [Users -> Nat] /\ vault' \in Nat
    BY <1>3, <2>1 DEF PayOut, FromVault, TypeOK
  <2> QED
    BY <1>3, <2>2, <2>3, <2>4 DEF PayOut, FromVault, TypeOK
<1>4. ASSUME NEW who \in Users \cup {Nobody}, NEW k \in Strikes, NEW e \in Expiries,
             InitMarket(who, k, e)
      PROVE  TypeOK'
  BY <1>4, MarketAssumption DEF MarketAssumption, InitMarket, TypeOK
<1>5. ASSUME NEW r \in Readings, SettleMarket(r)
      PROVE  TypeOK'
  BY <1>5, MarketAssumption
     DEF MarketAssumption, SettleMarket, WriteOutcome, TypeOK, Outcomes, ReadingType,
         outcome_for_settled_price
<1>6. ASSUME NEW forced \in Outcomes, AdminSettle(forced)
      PROVE  TypeOK'
  BY <1>6 DEF AdminSettle, WriteOutcome, TypeOK
<1>7. CASE CloseSettledMarket
  BY <1>7 DEF CloseSettledMarket, TypeOK
<1>8. ASSUME NEW b \in BOOLEAN, Pause(b) \/ UpdateUsdcMint(b)
      PROVE  TypeOK'
  BY <1>8 DEF Pause, UpdateUsdcMint, TypeOK
<1>9. ASSUME NEW d \in OverrideDelays, UpdateAdminOverrideDelaySecs(d)
      PROVE  TypeOK'
  BY <1>9, MarketAssumption DEF MarketAssumption, UpdateAdminOverrideDelaySecs, TypeOK
<1>10. ASSUME NEW fc \in FeeConfigs, UpdateFeeConfig(fc)
       PROVE  TypeOK'
  BY <1>10, MarketAssumption DEF MarketAssumption, UpdateFeeConfig, TypeOK
<1>11. ASSUME NEW u \in Users, NEW v \in Users, NEW amount \in SplAmounts,
              SplTransferYes(u, v, amount) \/ SplTransferNo(u, v, amount)
       PROVE  TypeOK'
  BY <1>11, MarketAssumption DEF MarketAssumption, SplTransferYes, SplTransferNo, TypeOK
<1>12. ASSUME NEW u \in Users, NEW amount \in SplAmounts, SplBurn(u, amount)
       PROVE  TypeOK'
  BY <1>12, MarketAssumption DEF MarketAssumption, SplBurn, BurnYes, BurnNo, TypeOK
<1>13. ASSUME NEW u \in Users, NEW amount \in SplAmounts, SplDonate(u, amount)
       PROVE  TypeOK'
  BY <1>13, MarketAssumption DEF MarketAssumption, SplDonate, TypeOK
<1>14. ASSUME NEW u \in Users, SplApprove(u)
       PROVE  TypeOK'
  BY <1>14 DEF SplApprove, TypeOK
<1>15. CASE UNCHANGED vars
  BY <1>15 DEF vars, TypeOK
<1>16. ASSUME NEW u \in Users, HolderStep(u)
       PROVE  TypeOK'
  BY <1>2, <1>3, <1>16 DEF HolderStep, RedeemPair, Redeem, RedeemInvalid
<1>17. CASE AdminStep
  <2>1. ASSUME NEW u \in Users, NEW amount \in Amounts, ForceRedeem(u, amount)
        PROVE  TypeOK'
    BY <1>3, <2>1 DEF ForceRedeem
  <2> QED
    BY <1>4, <1>6, <1>8, <1>9, <1>10, <1>17, <2>1, MarketAssumption
       DEF MarketAssumption, AdminStep, CreateStrikeMarket
<1>18. CASE PermissionlessStep
  BY <1>4, <1>5, <1>7, <1>18 DEF PermissionlessStep, UserCreateStrikeMarket
<1>19. CASE SplStep
  BY <1>11, <1>12, <1>13, <1>14, <1>19 DEF SplStep
<1> QED
  BY <1>1, <1>15, <1>16, <1>17, <1>18, <1>19 DEF Next

(* Every reachable state is well typed: in particular no wallet, supply,      *)
(* vault, pool or counter is ever driven below zero.                          *)
THEOREM TypeCorrect == Spec => []TypeOK
<1>1. Init => TypeOK
  BY TypeInit
<1>2. TypeOK /\ [Next]_vars => TypeOK'
  BY TypeStep
<1> QED
  BY <1>1, <1>2, PTL DEF Spec

--------------------------------------------------------------------------------
(* Safety *)

(* What ties the outcome to the life of the account: nothing is settled       *)
(* before the market exists, and no price is written before the outcome.      *)
LifeCycle ==
  /\ ~created => outcome = "Unsettled"
  /\ outcome = "Unsettled" => settlePrice = 0

(* The inductive invariant.  VaultHoldsPairs alone is not inductive: a redeem *)
(* keeps it only if the burned tokens were counted (ClaimsCounted), since     *)
(* saturating_sub would hide a deficit; ClosedOwesNothing rests on both, and  *)
(* SettlementProvenance on LifeCycle.                                         *)
Solvency ==
  /\ VaultHoldsPairs
  /\ ClaimsCounted
  /\ ClosedOwesNothing
  /\ LifeCycle
  /\ SettlementProvenance

LEMMA SolvencyInit == Init => Solvency
BY DEF Init, Solvency, VaultHoldsPairs, ClaimsCounted, ClosedOwesNothing, LifeCycle,
       SettlementProvenance

(* A step that leaves the vault, the supplies and the outcome alone. *)
LEMMA SolvencyFrame ==
  ASSUME Solvency, UNCHANGED <<vaultVars, yesSupply, noSupply, outcomeVars, identityVars>>
  PROVE  Solvency'
BY DEF Solvency, VaultHoldsPairs, ClaimsCounted, ClosedOwesNothing, LifeCycle,
       SettlementProvenance, outcome_for_settled_price, vaultVars, outcomeVars, identityVars

(* Paying out against the burn of the side or sides the outcome asks for. *)
LEMMA SolvencyPayOut ==
  ASSUME TypeOK, Solvency, NEW u \in Users, NEW amount \in Nat, PayOut(u, amount),
         \/ BurnWinning(u, amount)
         \/ outcome \notin {"Yes", "No"} /\ BurnYes(u, amount) /\ BurnNo(u, amount)
  PROVE  Solvency'
<1> USE DEF outcomeVars, identityVars
<1>1. amount <= pairs
  BY DEF BurnWinning, BurnYes, BurnNo, Solvency, ClaimsCounted, TypeOK
<1>2. pairs' = pairs - amount /\ vault' = vault - amount /\ donated' = donated
  BY <1>1 DEF PayOut, FromVault, SaturatingSub, TypeOK
<1>3. VaultHoldsPairs'
  BY <1>2 DEF Solvency, VaultHoldsPairs, TypeOK
<1>4. ClaimsCounted'
  BY <1>2 DEF Solvency, ClaimsCounted, BurnWinning, BurnYes, BurnNo, PayOut, FromVault, TypeOK
<1>5. ClosedOwesNothing'
  BY DEF PayOut, FromVault, ClosedOwesNothing
<1>6. LifeCycle' /\ SettlementProvenance'
  BY DEF PayOut, FromVault, Solvency, LifeCycle, SettlementProvenance, outcome_for_settled_price
<1> QED
  BY <1>3, <1>4, <1>5, <1>6 DEF Solvency

(* A mint adds the same amount to the vault, to both supplies and, since the  *)
(* vault did not overflow, to the counter.                                    *)
LEMMA SolvencyMint ==
  ASSUME TypeOK, Solvency, NEW u \in Users, NEW amount \in Nat, MintPair(u, amount)
  PROVE  Solvency'
<1> USE DEF outcomeVars, identityVars
<1>1. pairs + amount <= U64_MAX
  BY MarketAssumption DEF MarketAssumption, MintPair, Solvency, VaultHoldsPairs, TypeOK
<1>2. pairs' = pairs + amount /\ vault' = vault + amount /\ donated' = donated
  BY <1>1 DEF MintPair, SaturatingAdd, TypeOK
<1>3. VaultHoldsPairs'
  BY <1>2 DEF Solvency, VaultHoldsPairs, TypeOK
<1>4. ClaimsCounted'
  BY <1>2 DEF MintPair, Solvency, ClaimsCounted, TypeOK
<1>5. ClosedOwesNothing'
  BY DEF MintPair, ClosedOwesNothing
<1>6. LifeCycle' /\ SettlementProvenance'
  BY DEF MintPair, Solvency, LifeCycle, SettlementProvenance
<1> QED
  BY <1>3, <1>4, <1>5, <1>6 DEF Solvency

(* The single write of an outcome, by a reading or by the admin. *)
LEMMA SolvencySettle ==
  ASSUME TypeOK, Solvency,
         \/ \E r \in Readings : SettleMarket(r)
         \/ \E forced \in Outcomes : AdminSettle(forced)
  PROVE  Solvency'
<1> USE DEF vaultVars, tokenVars, identityVars
<1>1. /\ created /\ outcome = "Unsettled" /\ outcome' # "Unsettled"
      /\ settledAt' = now
      /\ UNCHANGED <<vaultVars, tokenVars, identityVars>>
  BY DEF SettleMarket, AdminSettle, WriteOutcome, outcome_for_settled_price
<1>2. VaultHoldsPairs' /\ ClaimsCounted'
  BY <1>1 DEF Solvency, VaultHoldsPairs, ClaimsCounted
<1>3. ClosedOwesNothing'
  BY <1>1 DEF Solvency, ClosedOwesNothing
<1>4. LifeCycle'
  BY <1>1 DEF LifeCycle
<1>5. SettlementProvenance'
  <2>1. ASSUME NEW r \in Readings, SettleMarket(r)
        PROVE  SettlementProvenance'
    <3>1. r.price # 0
      BY <2>1, MarketAssumption
         DEF MarketAssumption, SettleMarket, ReadingAccepted, confidence_within_bps, abs,
             ReadingType
    <3> QED
      BY <1>1, <2>1, <3>1
         DEF SettleMarket, WriteOutcome, SettlementProvenance, outcome_for_settled_price
  <2>2. ASSUME NEW forced \in Outcomes, AdminSettle(forced)
        PROVE  SettlementProvenance'
    BY <1>1, <2>2 DEF AdminSettle, WriteOutcome, Solvency, LifeCycle, SettlementProvenance
  <2> QED
    BY <2>1, <2>2
<1> QED
  BY <1>2, <1>3, <1>4, <1>5 DEF Solvency

LEMMA SolvencyStep == TypeOK /\ Solvency /\ [Next]_vars => Solvency'
<1> SUFFICES ASSUME TypeOK, Solvency, [Next]_vars PROVE Solvency'
  OBVIOUS
<1> USE DEF configVars, identityVars, outcomeVars, vaultVars, tokenVars
<1> USE MarketAssumption DEF MarketAssumption
<1>1. CASE Tick
  BY <1>1, SolvencyFrame DEF Tick
<1>2. ASSUME NEW u \in Users, HolderStep(u)
      PROVE  Solvency'
  <2> PICK amount \in Amounts : \/ MintPair(u, amount)
                               \/ RedeemPair(u, amount)
                               \/ Redeem(u, amount)
                               \/ RedeemInvalid(u, amount)
    BY <1>2 DEF HolderStep
  <2>1. amount \in Nat
    OBVIOUS
  <2>2. CASE MintPair(u, amount)
    BY <2>1, <2>2, SolvencyMint
  <2>3. CASE RedeemPair(u, amount)
    BY <2>1, <2>3, SolvencyPayOut DEF RedeemPair
  <2>4. CASE Redeem(u, amount)
    BY <2>1, <2>4, SolvencyPayOut DEF Redeem
  <2>5. CASE RedeemInvalid(u, amount)
    BY <2>1, <2>5, SolvencyPayOut DEF RedeemInvalid
  <2> QED
    BY <2>2, <2>3, <2>4, <2>5
<1>3. ASSUME NEW who, NEW k, NEW e, InitMarket(who, k, e)
      PROVE  Solvency'
  BY <1>3 DEF InitMarket, Solvency, VaultHoldsPairs, ClaimsCounted, ClosedOwesNothing,
              LifeCycle, SettlementProvenance
<1>4. CASE AdminStep
  <2>1. ASSUME NEW u \in Users, NEW amount \in Amounts, ForceRedeem(u, amount)
        PROVE  Solvency'
    BY <2>1, SolvencyPayOut DEF ForceRedeem
  <2>2. ASSUME NEW forced \in Outcomes, AdminSettle(forced)
        PROVE  Solvency'
    BY <2>2, SolvencySettle
  <2>3. ASSUME NEW b, Pause(b) \/ UpdateUsdcMint(b)
        PROVE  Solvency'
    BY <2>3, SolvencyFrame DEF Pause, UpdateUsdcMint
  <2>4. ASSUME NEW d, UpdateAdminOverrideDelaySecs(d)
        PROVE  Solvency'
    BY <2>4, SolvencyFrame DEF UpdateAdminOverrideDelaySecs
  <2>5. ASSUME NEW fc, UpdateFeeConfig(fc)
        PROVE  Solvency'
    BY <2>5, SolvencyFrame DEF UpdateFeeConfig
  <2> QED
    BY <1>3, <1>4, <2>1, <2>2, <2>3, <2>4, <2>5 DEF AdminStep, CreateStrikeMarket
<1>5. CASE CloseSettledMarket
  BY <1>5 DEF CloseSettledMarket, Solvency, VaultHoldsPairs, ClaimsCounted,
              ClosedOwesNothing, LifeCycle, SettlementProvenance, TypeOK
<1>6. CASE PermissionlessStep
  BY <1>3, <1>5, <1>6, SolvencySettle DEF PermissionlessStep, UserCreateStrikeMarket
<1>7. CASE SplStep
  <2>1. ASSUME NEW u \in Users, NEW v \in Users, NEW amount \in SplAmounts,
               SplTransferYes(u, v, amount) \/ SplTransferNo(u, v, amount)
        PROVE  Solvency'
    BY <2>1, SolvencyFrame DEF SplTransferYes, SplTransferNo
  <2>2. ASSUME NEW u \in Users, NEW amount \in SplAmounts, SplBurn(u, amount)
        PROVE  Solvency'
    BY <2>2 DEF SplBurn, BurnYes, BurnNo, Solvency, VaultHoldsPairs, ClaimsCounted,
                ClosedOwesNothing, LifeCycle, SettlementProvenance, TypeOK
  <2>3. ASSUME NEW u \in Users, NEW amount \in SplAmounts, SplDonate(u, amount)
        PROVE  Solvency'
    BY <2>3 DEF SplDonate, Solvency, VaultHoldsPairs, ClaimsCounted,
                ClosedOwesNothing, LifeCycle, SettlementProvenance, TypeOK
  <2>4. ASSUME NEW u \in Users, SplApprove(u)
        PROVE  Solvency'
    BY <2>4, SolvencyFrame DEF SplApprove
  <2> QED
    BY <1>7, <2>1, <2>2, <2>3, <2>4 DEF SplStep
<1>8. CASE UNCHANGED vars
  BY <1>8, SolvencyFrame DEF vars
<1> QED
  BY <1>1, <1>2, <1>4, <1>6, <1>7, <1>8 DEF Next

LEMMA Invariant == Spec => [](TypeOK /\ Solvency)
<1>1. Init => TypeOK /\ Solvency
  BY TypeInit, SolvencyInit
<1>2. TypeOK /\ Solvency /\ [Next]_vars => (TypeOK /\ Solvency)'
  BY TypeStep, SolvencyStep
<1> QED
  BY <1>1, <1>2, PTL DEF Spec

(* The $1 invariant: however mints, redemptions, settlements and outside      *)
(* transfers interleave, the vault holds one unit per outstanding pair.       *)
THEOREM VaultSolvent == Spec => []VaultHoldsPairs
BY Invariant, PTL DEF Solvency

(* Every token that still has a claim is counted among the outstanding pairs. *)
THEOREM ClaimsAreCounted == Spec => []ClaimsCounted
BY Invariant, PTL DEF Solvency

(* A closed vault leaves nobody with a claim. *)
THEOREM NothingOwedAfterClose == Spec => []ClosedOwesNothing
BY Invariant, PTL DEF Solvency

(* settle_price = 0 identifies the rulings of the admin, and they respect the *)
(* instant fixed when the market was created.                                 *)
THEOREM ProvenanceReadable == Spec => []SettlementProvenance
BY Invariant, PTL DEF Solvency

--------------------------------------------------------------------------------
(* Action properties *)

(* The kinds of step, by what they do to collateral and outcome. *)
Mints == \E u \in Users, amount \in Amounts : MintPair(u, amount)

Pays ==
  \E u \in Users, amount \in Amounts :
    /\ PayOut(u, amount)
    /\ \/ BurnWinning(u, amount)
       \/ outcome \notin {"Yes", "No"} /\ BurnYes(u, amount) /\ BurnNo(u, amount)

Settles ==
  \/ \E r \in Readings : SettleMarket(r)
  \/ \E forced \in Outcomes : AdminSettle(forced)

Creates == \E who \in Users \cup {Nobody}, k \in Strikes, e \in Expiries : InitMarket(who, k, e)

BurnsOutside == \E u \in Users, amount \in SplAmounts : SplBurn(u, amount)

Donates == \E u \in Users, amount \in SplAmounts : SplDonate(u, amount)

Quiet == UNCHANGED <<vaultVars, yesSupply, noSupply, outcomeVars, identityVars, feeVars>>

LEMMA StepKinds ==
  ASSUME [Next]_vars
  PROVE  \/ Mints \/ Pays \/ Settles \/ Creates
         \/ CloseSettledMarket \/ BurnsOutside \/ Donates \/ Quiet
<1> USE DEF configVars, identityVars, outcomeVars, vaultVars, tokenVars, feeVars
<1>1. CASE Tick \/ UNCHANGED vars
  BY <1>1 DEF Tick, vars, Quiet
<1>2. ASSUME NEW u \in Users, HolderStep(u)
      PROVE  Mints \/ Pays
  BY <1>2 DEF HolderStep, Mints, Pays, RedeemPair, Redeem, RedeemInvalid
<1>3. CASE AdminStep
  <2>1. ASSUME NEW u \in Users, NEW amount \in Amounts, ForceRedeem(u, amount)
        PROVE  Pays
    BY <2>1 DEF ForceRedeem, Pays
  <2>2. ASSUME NEW x, \/ Pause(x) \/ UpdateUsdcMint(x)
                      \/ UpdateAdminOverrideDelaySecs(x) \/ UpdateFeeConfig(x)
        PROVE  Quiet
    BY <2>2 DEF Pause, UpdateUsdcMint, UpdateAdminOverrideDelaySecs, UpdateFeeConfig, Quiet
  <2> QED
    BY <1>3, <2>1, <2>2 DEF AdminStep, CreateStrikeMarket, Creates, Settles
<1>4. CASE PermissionlessStep
  BY <1>4 DEF PermissionlessStep, UserCreateStrikeMarket, Creates, Settles
<1>5. CASE SplStep
  BY <1>5 DEF SplStep, SplTransferYes, SplTransferNo, SplApprove, BurnsOutside, Donates, Quiet
<1> QED
  BY <1>1, <1>2, <1>3, <1>4, <1>5 DEF Next

LEMMA OutcomeFinalStep ==
  ASSUME Solvency, [Next]_vars, outcome # "Unsettled"
  PROVE  UNCHANGED outcomeVars
<1> USE DEF outcomeVars
<1>1. CASE Mints
  BY <1>1 DEF Mints, MintPair
<1>2. CASE Pays
  BY <1>2 DEF Pays, PayOut, FromVault
<1>3. CASE Settles
  BY <1>3 DEF Settles, SettleMarket, AdminSettle
<1>4. CASE Creates
  BY <1>4 DEF Creates, InitMarket
<1>5. CASE CloseSettledMarket \/ BurnsOutside \/ Donates \/ Quiet
  BY <1>5 DEF CloseSettledMarket, BurnsOutside, Donates, Quiet, SplBurn, SplDonate
<1> QED
  BY <1>1, <1>2, <1>3, <1>4, <1>5, StepKinds

(* Whoever settles first, the outcome, its price and its time never change. *)
THEOREM OutcomeIsFinal == Spec => OutcomeFinal
<1>1. Solvency /\ [Next]_vars => [outcome # "Unsettled" => UNCHANGED outcomeVars]_vars
  BY OutcomeFinalStep
<1> QED
  BY <1>1, Invariant, PTL DEF Spec, OutcomeFinal

LEMMA VaultPaysStep ==
  ASSUME TypeOK, [Next]_vars, vault' < vault
  PROVE  \E u \in Users :
           LET paid == vault - vault' IN
           /\ usdc' = [usdc EXCEPT ![u] = @ + paid]
           /\ outcome # "No"  => yes' = [yes EXCEPT ![u] = @ - paid]
           /\ outcome # "Yes" => no'  = [no EXCEPT ![u] = @ - paid]
<1> USE MarketAssumption DEF MarketAssumption, vaultVars, TypeOK
<1>1. CASE Pays
  <2> PICK u \in Users, amount \in Amounts :
        /\ PayOut(u, amount)
        /\ \/ BurnWinning(u, amount)
           \/ outcome \notin {"Yes", "No"} /\ BurnYes(u, amount) /\ BurnNo(u, amount)
    BY <1>1 DEF Pays
  <2>1. vault - vault' = amount
    BY DEF PayOut, FromVault
  <2>2. usdc' = [usdc EXCEPT ![u] = @ + amount]
    BY DEF PayOut, FromVault
  <2>3. /\ outcome # "No"  => yes' = [yes EXCEPT ![u] = @ - amount]
        /\ outcome # "Yes" => no'  = [no EXCEPT ![u] = @ - amount]
    BY DEF BurnWinning, BurnYes, BurnNo
  <2> QED
    BY <2>1, <2>2, <2>3
<1>2. CASE Mints
  BY <1>2 DEF Mints, MintPair
<1>3. CASE Settles \/ Creates \/ CloseSettledMarket \/ BurnsOutside \/ Quiet
  BY <1>3 DEF Settles, SettleMarket, AdminSettle, WriteOutcome, Creates, InitMarket,
              CloseSettledMarket, BurnsOutside, SplBurn, Quiet
<1>4. CASE Donates
  BY <1>4 DEF Donates, SplDonate
<1> QED
  BY <1>1, <1>2, <1>3, <1>4, StepKinds

(* USDC leaves the vault only against the tokens the outcome asks for. *)
THEOREM VaultPaysOnlyForBurns == Spec => VaultPaysForBurns
<1>1. TypeOK /\ [Next]_vars =>
        [vault' < vault =>
           \E u \in Users :
             LET paid == vault - vault' IN
             /\ usdc' = [usdc EXCEPT ![u] = @ + paid]
             /\ outcome # "No"  => yes' = [yes EXCEPT ![u] = @ - paid]
             /\ outcome # "Yes" => no'  = [no EXCEPT ![u] = @ - paid]]_vars
  BY VaultPaysStep
<1> QED
  BY <1>1, TypeCorrect, PTL DEF Spec, VaultPaysForBurns

LEMMA PausedFreezesStep ==
  ASSUME TypeOK, [Next]_vars, paused
  PROVE  /\ vault' >= vault
         /\ yesSupply' <= yesSupply
         /\ noSupply' <= noSupply
         /\ UNCHANGED <<outcomeVars, identityVars, pairs, vaultOpen, feeVars>>
<1> USE MarketAssumption
    DEF MarketAssumption, TypeOK, outcomeVars, identityVars, vaultVars, tokenVars, feeVars
<1>1. ~(Mints \/ Pays \/ Settles \/ Creates \/ CloseSettledMarket)
  BY DEF Mints, MintPair, Pays, PayOut, FromVault, Settles, SettleMarket, AdminSettle,
         Creates, InitMarket, CloseSettledMarket, Operational
<1>2. CASE BurnsOutside
  BY <1>2 DEF BurnsOutside, SplBurn, BurnYes, BurnNo
<1>3. CASE Donates
  BY <1>3 DEF Donates, SplDonate
<1>4. CASE Quiet
  BY <1>4 DEF Quiet
<1> QED
  BY <1>1, <1>2, <1>3, <1>4, StepKinds

(* While paused, the vault, the supplies, the outcome and the pools are safe. *)
THEOREM PauseFreezes == Spec => PausedFreezes
<1>1. TypeOK /\ [Next]_vars =>
        [paused /\ paused' =>
           /\ vault' >= vault
           /\ yesSupply' <= yesSupply
           /\ noSupply' <= noSupply
           /\ UNCHANGED <<outcomeVars, identityVars, pairs, vaultOpen, feeVars>>]_vars
  BY PausedFreezesStep
<1> QED
  BY <1>1, TypeCorrect, PTL DEF Spec, PausedFreezes

--------------------------------------------------------------------------------
(* Refinement: each kind of step is a step of CollateralPromise or a stutter. *)

PromiseStep == [Promise!Next]_(Promise!promiseVars)

LEMMA PromiseInit == Init => Promise!Init
BY DEF Init, Promise!Init

LEMMA PromiseFrame ==
  ASSUME UNCHANGED <<created, vaultOpen, outcome, vault, yesSupply, noSupply>>
  PROVE  PromiseStep
BY DEF PromiseStep, Promise!promiseVars

LEMMA PromisePays ==
  ASSUME TypeOK, TypeOK', Solvency, Pays
  PROVE  Promise!PayOut
<1> USE MarketAssumption DEF MarketAssumption, TypeOK, vaultVars, identityVars, outcomeVars
<1> PICK u \in Users, amount \in Amounts :
      /\ PayOut(u, amount)
      /\ \/ BurnWinning(u, amount)
         \/ outcome \notin {"Yes", "No"} /\ BurnYes(u, amount) /\ BurnNo(u, amount)
  BY DEF Pays
<1>1. /\ created /\ vaultOpen
      /\ UNCHANGED <<created, vaultOpen, outcome>>
      /\ amount \in Nat /\ amount > 0
      /\ vault' = vault - amount
  BY DEF PayOut, FromVault, Operational
<1>2. /\ yesSupply' = IF outcome = "No" THEN yesSupply ELSE yesSupply - amount
      /\ noSupply' = IF outcome = "Yes" THEN noSupply ELSE noSupply - amount
  BY DEF BurnWinning, BurnYes, BurnNo
<1>3. vault - vault' = amount
  BY <1>1
<1> QED
  BY <1>1, <1>2, <1>3 DEF Promise!PayOut

LEMMA PromiseMints ==
  ASSUME TypeOK, TypeOK', Mints
  PROVE  Promise!Back
<1> USE MarketAssumption DEF MarketAssumption, TypeOK, vaultVars, identityVars, outcomeVars
<1> PICK u \in Users, amount \in Amounts : MintPair(u, amount)
  BY DEF Mints
<1>1. /\ created /\ vaultOpen /\ outcome = "Unsettled"
      /\ UNCHANGED <<created, vaultOpen, outcome>>
      /\ amount \in Nat /\ amount > 0
      /\ vault' = vault + amount
      /\ yesSupply' = yesSupply + amount
      /\ noSupply' = noSupply + amount
  BY DEF MintPair, Operational
<1>2. vault' - vault = amount
  BY <1>1
<1> QED
  BY <1>1, <1>2 DEF Promise!Back

LEMMA PromiseSettles ==
  ASSUME TypeOK, TypeOK', Solvency, Settles
  PROVE  Promise!Decide
<1> USE MarketAssumption DEF MarketAssumption, TypeOK, vaultVars, identityVars, outcomeVars, tokenVars
<1>1. /\ created /\ outcome = "Unsettled" /\ outcome' # "Unsettled"
      /\ UNCHANGED <<created, vaultOpen, vault, yesSupply, noSupply>>
  BY DEF Settles, SettleMarket, AdminSettle, WriteOutcome, outcome_for_settled_price
<1>2. vaultOpen
  BY <1>1 DEF Solvency, ClosedOwesNothing
<1> QED
  BY <1>1, <1>2 DEF Promise!Decide, Outcomes

LEMMA PromiseCloses ==
  ASSUME TypeOK, Solvency, CloseSettledMarket
  PROVE  Promise!Close
<1> USE DEF TypeOK, vaultVars, identityVars, outcomeVars, tokenVars
<1>1. /\ created /\ vaultOpen /\ ~vaultOpen' /\ outcome # "Unsettled"
      /\ pairs = 0 /\ vault = 0
      /\ UNCHANGED <<created, outcome, vault, yesSupply, noSupply>>
  BY DEF CloseSettledMarket, Operational
<1>2. /\ outcome # "No" => yesSupply = 0
      /\ outcome # "Yes" => noSupply = 0
  BY <1>1 DEF Solvency, ClaimsCounted
<1> QED
  BY <1>1, <1>2 DEF Promise!Close

LEMMA PromiseBurnsOutside ==
  ASSUME TypeOK, TypeOK', BurnsOutside
  PROVE  Promise!Forfeit
<1> USE MarketAssumption DEF MarketAssumption, TypeOK, vaultVars, identityVars, outcomeVars
<1> PICK u \in Users, amount \in SplAmounts : SplBurn(u, amount)
  BY DEF BurnsOutside
<1>1. /\ UNCHANGED <<created, vaultOpen, outcome, vault>>
      /\ amount \in Nat
      /\ yesSupply' \in {yesSupply, yesSupply - amount}
      /\ noSupply' \in {noSupply, noSupply - amount}
  BY DEF SplBurn, BurnYes, BurnNo
<1>2. yesSupply' \in 0..yesSupply /\ noSupply' \in 0..noSupply
  BY <1>1
<1> QED
  BY <1>1, <1>2 DEF Promise!Forfeit

(* The vault account exists only for a created market. *)
VaultOfMarket == vaultOpen => created

LEMMA VaultOfMarketInvariant == Spec => []VaultOfMarket
<1> USE DEF VaultOfMarket, vaultVars, identityVars
<1>1. Init => VaultOfMarket
  BY DEF Init
<1>2. ASSUME VaultOfMarket, [Next]_vars
      PROVE  VaultOfMarket'
  <2>0. CASE Mints
    <3>1. UNCHANGED <<vaultOpen, created>>
      BY <2>0, Zenon DEF Mints, MintPair
    <3> QED
      BY <1>2, <3>1
  <2>1. CASE Pays
    BY <1>2, <2>1, SMTT(20) DEF Pays, PayOut, FromVault
  <2>2. CASE Settles \/ Creates \/ CloseSettledMarket
    BY <1>2, <2>2 DEF Settles, SettleMarket, AdminSettle, WriteOutcome, Creates, InitMarket,
                      CloseSettledMarket
  <2>3. CASE BurnsOutside \/ Donates \/ Quiet
    BY <1>2, <2>3 DEF BurnsOutside, SplBurn, Donates, SplDonate, Quiet
  <2> QED
    BY <1>2, <2>0, <2>1, <2>2, <2>3, StepKinds
<1> QED
  BY <1>1, <1>2, PTL DEF Spec

LEMMA PromiseKeptByStep ==
  ASSUME TypeOK, TypeOK', Solvency, VaultOfMarket, [Next]_vars
  PROVE  PromiseStep
<1> USE DEF PromiseStep, Promise!Next, vaultVars, identityVars, outcomeVars, tokenVars
<1>1. CASE Mints
  BY <1>1, PromiseMints
<1>2. CASE Pays
  BY <1>2, PromisePays
<1>3. CASE Settles
  BY <1>3, PromiseSettles
<1>4. CASE Creates
  BY <1>4 DEF Creates, InitMarket, Promise!Open
<1>5. CASE CloseSettledMarket
  BY <1>5, PromiseCloses
<1>6. CASE BurnsOutside
  BY <1>6, PromiseBurnsOutside
<1>7. CASE Donates
  <2> PICK u \in Users, amount \in SplAmounts : SplDonate(u, amount)
    BY <1>7 DEF Donates
  <2>1. vault' > vault
    BY MarketAssumption DEF SplDonate, MarketAssumption, TypeOK
  <2>2. created
    BY DEF SplDonate, VaultOfMarket
  <2> QED
    BY <2>1, <2>2 DEF SplDonate, Promise!Gift, TypeOK
<1>8. CASE Quiet
  BY <1>8, PromiseFrame DEF Quiet
<1> QED
  BY <1>1, <1>2, <1>3, <1>4, <1>5, <1>6, <1>7, <1>8, StepKinds

(* The market implements the promise: it starts where the promise starts, and *)
(* every instruction, of anybody, is a step of it or invisible to it.         *)
THEOREM MarketKeepsPromise == Spec => ImplementsPromise
<1>1. TypeOK /\ TypeOK' /\ Solvency /\ VaultOfMarket /\ [Next]_vars
        => [Promise!Next]_(Promise!promiseVars)
  BY PromiseKeptByStep DEF PromiseStep
<1> QED
  BY <1>1, PromiseInit, Invariant, VaultOfMarketInvariant, PTL DEF Spec, ImplementsPromise, Promise!Spec

--------------------------------------------------------------------------------
(* Fees *)

(* With validated shares the three parts of a fee add up to it exactly. *)
LEMMA FeePartsSum ==
  ASSUME NEW fc \in FeeConfigType, validate_fee_params(fc),
         NEW amount \in Nat, NEW bps \in Nat
  PROVE  split_fee(fee_total(amount, bps), fc).platform
           + split_fee(fee_total(amount, bps), fc).weekly
           + split_fee(fee_total(amount, bps), fc).monthly
         = fee_total(amount, bps)
<1> DEFINE fee == fee_total(amount, bps)
           platform == (fee * fc.platform_retain_bps) \div BPS
           weekly == (fee * fc.weekly_pool_bps) \div BPS
           both == fc.platform_retain_bps + fc.weekly_pool_bps
<1>1. fee \in Nat
  BY ShareNat, FeeAssumption DEF FeeAssumption, fee_total
<1>2. /\ fc.platform_retain_bps \in Nat
      /\ fc.weekly_pool_bps \in Nat
      /\ both \in Nat /\ both <= BPS
      /\ BPS \in Nat \ {0}
  BY FeeAssumption DEF FeeAssumption, FeeConfigType, validate_fee_params
<1>3. platform \in Nat /\ weekly \in Nat /\ platform + weekly <= fee
  <2> HIDE DEF fee
  <2>1. fee * fc.platform_retain_bps \in Nat /\ fee * fc.weekly_pool_bps \in Nat
    BY <1>1, <1>2
  <2>2. platform \in Nat /\ weekly \in Nat
    BY <1>2, <2>1, DivNat
  <2>3. platform + weekly
          <= (fee * fc.platform_retain_bps + fee * fc.weekly_pool_bps) \div BPS
    BY <1>2, <2>1, DivSum
  <2>4. (fee * fc.platform_retain_bps + fee * fc.weekly_pool_bps) \div BPS
          = (fee * both) \div BPS
    <3>1. fee * fc.platform_retain_bps + fee * fc.weekly_pool_bps = fee * both
      BY <1>1, <1>2
    <3> QED
      BY <3>1
  <2>5. (fee * both) \div BPS <= fee
    <3> HIDE DEF both
    <3>1. fee * both <= fee * BPS
      BY <1>1, <1>2
    <3> QED
      BY <1>1, <1>2, <3>1
  <2>6. (fee * both) \div BPS \in Int
    BY <1>1, <1>2
  <2> HIDE DEF platform, weekly
  <2>7. platform + weekly <= (fee * both) \div BPS
    BY <2>3, <2>4 DEF platform, weekly
  <2> QED
    BY <1>1, <2>2, <2>5, <2>6, <2>7
<1>4. split_fee(fee, fc) = [platform |-> platform, weekly |-> weekly,
                            monthly |-> SaturatingSub(SaturatingSub(fee, platform), weekly)]
  BY DEF split_fee
<1> HIDE DEF fee, platform, weekly
<1> QED
  BY <1>1, <1>3, <1>4 DEF fee, SaturatingSub

(* The record in force always passed validate_fee_params. *)
FeesValid == validate_fee_params(feeConfig)

LEMMA FeesValidInvariant == Spec => []FeesValid
<1>1. Init => FeesValid
  BY MarketAssumption DEF MarketAssumption, Init, FeesValid
<1>2. FeesValid /\ [Next]_vars => FeesValid'
  <2> SUFFICES ASSUME FeesValid, [Next]_vars PROVE FeesValid'
    OBVIOUS
  <2>1. CASE UNCHANGED feeConfig
    BY <2>1 DEF FeesValid, validate_fee_params
  <2>2. ASSUME NEW fc \in FeeConfigs, UpdateFeeConfig(fc)
        PROVE  FeesValid'
    BY <2>2 DEF UpdateFeeConfig, FeesValid, validate_fee_params
  <2> QED
    BY <2>1, <2>2
       DEF Next, vars, configVars, HolderStep, AdminStep, PermissionlessStep, SplStep,
           Tick, MintPair, RedeemPair, Redeem, RedeemInvalid, ForceRedeem, PayOut, FromVault,
           CreateStrikeMarket, UserCreateStrikeMarket, InitMarket, SettleMarket, AdminSettle,
           WriteOutcome, CloseSettledMarket, Pause, UpdateUsdcMint,
           UpdateAdminOverrideDelaySecs, SplTransferYes, SplTransferNo, SplBurn, SplDonate,
           SplApprove
<1> QED
  BY <1>1, <1>2, PTL DEF Spec

LEMMA TierVolumeStep ==
  ASSUME TypeOK, Solvency, FeesValid, [Next]_vars,
         NEW u \in Users, userConfig'[u].mint_volume_30d > userConfig[u].mint_volume_30d
  PROVE  (treasury' + weeklyPool' + monthlyPool') - (treasury + weeklyPool + monthlyPool)
         = fee_total(pairs' - pairs,
                     effective_bps(feeConfig, TouchedUserConfig(u).mint_volume_30d, FALSE))
<1>1. userConfig[u].mint_volume_30d \in Nat
  BY DEF TypeOK, UserConfigType
<1>2. PICK w \in Users, amount \in Amounts : MintPair(w, amount)
  <2>1. ~UNCHANGED userConfig
    BY <1>1
  <2> QED
    BY <2>1, StepKinds
       DEF Mints, Pays, PayOut, FromVault, Settles, SettleMarket, AdminSettle, WriteOutcome,
           Creates, InitMarket, CloseSettledMarket, BurnsOutside, SplBurn, Donates, SplDonate,
           Quiet, feeVars
<1>3. amount \in Nat /\ U64_MAX \in Nat
  BY MarketAssumption DEF MarketAssumption
<1>4. userConfig' = [userConfig EXCEPT ![w] = CountedUserConfig(w, amount)]
  BY <1>2 DEF MintPair
<1>5. w = u
  BY <1>1, <1>4 DEF TypeOK
<1>6. TouchedUserConfig(u) \in UserConfigType
      /\ TouchedUserConfig(u).mint_volume_30d <= userConfig[u].mint_volume_30d
  BY TouchedType
<1>7. CountedUserConfig(u, amount).mint_volume_30d > userConfig[u].mint_volume_30d
  BY <1>4, <1>5 DEF TypeOK
<1>8. CreatorRebateFires(u) = FALSE
  <2>1. SUFFICES ASSUME CreatorRebateFires(u) PROVE FALSE
    BY DEF CreatorRebateFires
  <2>2. CountedUserConfig(u, amount).mint_volume_30d = TouchedUserConfig(u).mint_volume_30d
    BY <1>6, <2>1 DEF CountedUserConfig, UserConfigType
  <2> QED
    BY <1>1, <1>6, <1>7, <2>2 DEF UserConfigType
<1> DEFINE bps == effective_bps(feeConfig, TouchedUserConfig(u).mint_volume_30d, FALSE)
           fee == split_fee(fee_total(amount, bps), feeConfig)
<1>9. bps \in Nat
  BY <1>6, RateNat DEF TypeOK, UserConfigType
<1>10. MintFee(u, amount) = fee
  BY <1>8 DEF MintFee
<1>11. pairs' - pairs = amount
  BY <1>2, <1>3 DEF MintPair, SaturatingAdd, Solvency, VaultHoldsPairs, TypeOK
<1>12. /\ fee.platform \in Nat /\ fee.weekly \in Nat /\ fee.monthly \in Nat
       /\ fee.platform + fee.weekly + fee.monthly = fee_total(amount, bps)
  <2>1. feeConfig \in FeeConfigType /\ validate_fee_params(feeConfig) /\ amount \in Nat
    BY <1>3 DEF TypeOK, FeesValid
  <2> HIDE DEF bps
  <2>2. fee.platform \in Nat /\ fee.weekly \in Nat /\ fee.monthly \in Nat
    BY <1>9, <2>1, FeePartsNat
  <2>3. fee.platform + fee.weekly + fee.monthly = fee_total(amount, bps)
    BY <1>9, <2>1, FeePartsSum
  <2> QED
    BY <2>2, <2>3
<1>13. /\ treasury' = treasury + fee.platform
       /\ weeklyPool' = weeklyPool + fee.weekly
       /\ monthlyPool' = monthlyPool + fee.monthly
  BY <1>2, <1>5, <1>10 DEF MintPair
<1>14. fee_total(amount, bps) \in Nat
  BY <1>3, <1>9, ShareNat, FeeAssumption DEF FeeAssumption, fee_total
<1>15. (treasury' + weeklyPool' + monthlyPool') - (treasury + weeklyPool + monthlyPool)
         = fee_total(amount, bps)
  <2> HIDE DEF fee, bps
  <2>1. treasury \in Nat /\ weeklyPool \in Nat /\ monthlyPool \in Nat
    BY DEF TypeOK
  <2> QED
    BY <1>12, <1>13, <1>14, <2>1
<1> QED
  BY <1>11, <1>15

(* Nobody earns tier volume without paying the full fee of their tier. *)
THEOREM TierVolumeIsEarned == Spec => TierVolumeEarned
<1>1. TypeOK /\ Solvency /\ FeesValid /\ [Next]_vars =>
        [\A u \in Users :
           userConfig'[u].mint_volume_30d > userConfig[u].mint_volume_30d =>
             (treasury' + weeklyPool' + monthlyPool')
               - (treasury + weeklyPool + monthlyPool)
             = fee_total(pairs' - pairs,
                         effective_bps(feeConfig,
                                       TouchedUserConfig(u).mint_volume_30d, FALSE))]_vars
  BY TierVolumeStep
<1> QED
  BY <1>1, Invariant, FeesValidInvariant, PTL DEF Spec, TierVolumeEarned

--------------------------------------------------------------------------------
(* The promise itself, over variables of its own: it is one that can be kept, *)
(* since no sequence of its steps ever owes more than the reserve.            *)

VARIABLES phase, verdict, reserve, yesClaims, noClaims

Any == INSTANCE CollateralPromise

(* The inductive invariant of the promise. *)
PromiseKept == Any!PromiseTypeOK /\ Any!Backed

(* What is added to the reserve can be added to a claim. *)
LEMMA PromiseGrown ==
  ASSUME NEW a \in Nat, NEW b \in Nat, NEW c \in Nat, c - b > 0
  PROVE  a + (c - b) \in Nat /\ (a + (c - b)) - a = c - b
OBVIOUS

(* The empty reserve owes nothing. *)
LEMMA PromiseKeptInit == Any!Init => PromiseKept
BY DEF Any!Init, PromiseKept, Any!PromiseTypeOK, Any!Backed

(* No step of the promise breaks it. *)
LEMMA PromiseKeptStep == PromiseKept /\ [Any!Next]_(Any!promiseVars) => PromiseKept'
<1> SUFFICES ASSUME PromiseKept, [Any!Next]_(Any!promiseVars)
             PROVE  PromiseKept'
  OBVIOUS
<1> USE DEF PromiseKept, Any!PromiseTypeOK, Any!Backed
<1>1. CASE Any!Open
  BY <1>1 DEF Any!Open
<1>2. CASE Any!Back
  <2>1. /\ reserve' \in Nat /\ yesClaims' \in Nat /\ noClaims' \in Nat
        /\ yesClaims' - yesClaims = reserve' - reserve
        /\ noClaims' - noClaims = reserve' - reserve
    <3>1. /\ reserve' \in Nat /\ reserve' - reserve > 0
          /\ yesClaims' = yesClaims + (reserve' - reserve)
          /\ noClaims' = noClaims + (reserve' - reserve)
      BY <1>2 DEF Any!Back
    <3>2. reserve \in Nat /\ yesClaims \in Nat /\ noClaims \in Nat
      OBVIOUS
    <3> QED
      BY <3>1, <3>2, PromiseGrown
  <2>2. phase = "open" /\ phase' = phase /\ verdict = "Unsettled" /\ verdict' = verdict
    BY <1>2 DEF Any!Back
  <2>3. yesClaims <= reserve /\ noClaims <= reserve
    BY <2>2
  <2>4. yesClaims' <= reserve' /\ noClaims' <= reserve'
    BY <2>1, <2>3
  <2> QED
    BY <2>1, <2>2, <2>4
<1>3. CASE Any!PayOut
  <2>1. Any!PromiseTypeOK'
    BY <1>3 DEF Any!PayOut
  <2>2. phase = "open" /\ phase' = phase /\ verdict' = verdict
    BY <1>3 DEF Any!PayOut
  <2>3. ASSUME verdict # "No"
        PROVE  yesClaims' <= reserve'
    <3>1. yesClaims' - yesClaims = reserve' - reserve
      BY <1>3, <2>3 DEF Any!PayOut
    <3> QED
      BY <3>1, <2>1, <2>3
  <2>4. ASSUME verdict # "Yes"
        PROVE  noClaims' <= reserve'
    <3>1. noClaims' - noClaims = reserve' - reserve
      BY <1>3, <2>4 DEF Any!PayOut
    <3> QED
      BY <3>1, <2>1, <2>4
  <2> QED
    BY <2>1, <2>2, <2>3, <2>4
<1>4. CASE Any!Gift
  BY <1>4 DEF Any!Gift
<1>5. CASE Any!Forfeit
  BY <1>5 DEF Any!Forfeit
<1>6. CASE Any!Decide
  BY <1>6 DEF Any!Decide
<1>7. CASE Any!Close
  BY <1>7 DEF Any!Close
<1>8. CASE UNCHANGED Any!promiseVars
  BY <1>8 DEF Any!promiseVars
<1> QED
  BY <1>1, <1>2, <1>3, <1>4, <1>5, <1>6, <1>7, <1>8 DEF Any!Next

(* Whatever happens, every claim that may still be worth a unit has one in    *)
(* the reserve, and a closed reserve is empty.                                *)
THEOREM PromiseIsBacked == Any!Spec => []Any!Backed
<1>1. PromiseKept => Any!Backed
  BY DEF PromiseKept
<1> QED
  BY <1>1, PromiseKeptInit, PromiseKeptStep, PTL DEF Any!Spec
================================================================================
