--------------------------------- MODULE Market --------------------------------
(******************************************************************************)
(* One strike market of the on-chain program: its collateral vault, its YES   *)
(* and NO mints, the wallets that hold them, and its life from creation to    *)
(* the closing of the vault.                                                  *)
(*                                                                            *)
(* A Solana instruction is atomic: it runs alone on the accounts it writes    *)
(* and every failed check rolls back all of it, so each instruction is one    *)
(* action and a failed one is no step.  Interleaving is between instructions. *)
(* The SPL Token program is external: anybody may move or burn tokens they    *)
(* own, approve a delegate, and send USDC to the vault's public address.      *)
(*                                                                            *)
(* The USDC mint of config is abstracted to whether it equals the mint the    *)
(* vault of this market was created with, which is all any handler asks.      *)
(* Token and USDC amounts are base units.                                     *)
(******************************************************************************)
EXTENDS FeeMath, Oracle, Functions

CONSTANTS
  Users,             \* wallets
  Nobody,            \* Pubkey::default(), the creator of an admin-made market
  InitialUsdc,       \* [Users -> Nat]: USDC in the wallets at the start
  Amounts,           \* amounts a caller may ask for
  SplAmounts,        \* amounts moved or burned outside the program
  U64_MAX,           \* the largest u64
  Strikes,           \* strike prices a creator may ask for
  StrikeTick,        \* ticker_config.strike_tick_size
  StrikeDeviation,   \* ticker_config.max_user_strike_deviation_bps
  Expiries,          \* expiry instants a creator may ask for
  CloseTimes,        \* instants expiry_is_market_close_time accepts
  ExpiryHorizon,     \* MAX_EXPIRY_HORIZON_SECS
  MintFlips,         \* directions config.usdc_mint may be flipped in
  OverrideDelays,    \* values admin_override_delay_secs is set to
  FeeConfigs,        \* parameter records an admin may submit
  InitialFeeConfig,  \* the record in force at the start
  Readings,          \* oracle readings
  MaxTime            \* bound on the clock

ASSUME MarketAssumption ==
  /\ Nobody \notin Users
  /\ InitialUsdc \in [Users -> Nat]
  /\ Amounts \subseteq Nat
  /\ SplAmounts \subseteq Nat
  /\ U64_MAX \in Nat
  /\ Strikes \subseteq Int
  /\ StrikeTick \in Int
  /\ StrikeDeviation \in Nat
  /\ Expiries \subseteq Nat
  /\ CloseTimes \subseteq Int
  /\ ExpiryHorizon \in Nat
  /\ MintFlips \subseteq BOOLEAN
  /\ OverrideDelays \subseteq Nat
  /\ OverrideDelays \ {0} # {}
  /\ FeeConfigs \subseteq FeeConfigType
  /\ InitialFeeConfig \in FeeConfigType
  /\ validate_fee_params(InitialFeeConfig)
  /\ Readings \subseteq ReadingType
  /\ MaxTime \in Nat

VARIABLES
  now,            \* the cluster clock, in seconds
  paused,         \* config.paused
  mintCurrent,    \* config.usdc_mint is the mint of this market's vault
  overrideDelay,  \* config.admin_override_delay_secs
  feeConfig,      \* the FeeConfig account
  created,        \* the StrikeMarket account exists
  creator,        \* strike_market.creator
  strike,         \* strike_market.strike_price
  expiry,         \* strike_market.expiry_unix
  eligibleAt,     \* strike_market.admin_override_eligible_at
  outcome,        \* strike_market.outcome
  settlePrice,    \* strike_market.settle_price
  settledAt,      \* strike_market.settled_at_unix
  pairs,          \* strike_market.pairs_outstanding
  vaultOpen,      \* the usdc_vault account exists
  vault,          \* usdc_vault.amount
  yesSupply,      \* yes_mint.supply
  noSupply,       \* no_mint.supply
  yes,            \* YES in each wallet
  no,             \* NO in each wallet
  usdc,           \* USDC in each wallet
  approved,       \* wallets that made the strike_market PDA their delegate
  userConfig,     \* UserConfig accounts
  treasury,       \* fee_collector_usdc.amount
  weeklyPool,     \* weekly_pool.amount
  monthlyPool,    \* monthly_pool.amount
  donated         \* history: USDC sent to the vault outside the program

configVars   == <<paused, mintCurrent, overrideDelay, feeConfig>>
identityVars == <<created, creator, strike, expiry, eligibleAt>>
outcomeVars  == <<outcome, settlePrice, settledAt>>
vaultVars    == <<vaultOpen, vault, pairs, donated>>
tokenVars    == <<yesSupply, noSupply, yes, no>>
feeVars      == <<userConfig, treasury, weeklyPool, monthlyPool>>
vars == <<now, configVars, identityVars, outcomeVars, vaultVars, tokenVars,
          usdc, approved, feeVars>>

Outcomes == {"Unsettled", "Yes", "No", "Invalid"}

UserConfigType ==
  [exists : BOOLEAN, mint_volume_30d : Nat, mint_volume_lifetime : Nat,
   last_decay : Int]

NewUserConfig ==
  [exists |-> FALSE, mint_volume_30d |-> 0, mint_volume_lifetime |-> 0,
   last_decay |-> 0]

--------------------------------------------------------------------------------

Init ==
  /\ now = 0
  /\ paused = FALSE
  /\ mintCurrent = TRUE
  /\ overrideDelay \in OverrideDelays \ {0}
  /\ feeConfig = InitialFeeConfig
  /\ created = FALSE
  /\ creator = Nobody
  /\ strike = 0
  /\ expiry = 0
  /\ eligibleAt = 0
  /\ outcome = "Unsettled"
  /\ settlePrice = 0
  /\ settledAt = 0
  /\ pairs = 0
  /\ vaultOpen = FALSE
  /\ vault = 0
  /\ yesSupply = 0
  /\ noSupply = 0
  /\ yes = [u \in Users |-> 0]
  /\ no = [u \in Users |-> 0]
  /\ usdc = InitialUsdc
  /\ approved = {}
  /\ userConfig = [u \in Users |-> NewUserConfig]
  /\ treasury = 0
  /\ weeklyPool = 0
  /\ monthlyPool = 0
  /\ donated = 0

(* The account constraints every collateral instruction shares. *)
Operational == created /\ ~paused /\ mintCurrent

(* Time passes between instructions. *)
Tick ==
  /\ now < MaxTime
  /\ now' = now + 1
  /\ UNCHANGED <<configVars, identityVars, outcomeVars, vaultVars, tokenVars,
                 usdc, approved, feeVars>>

(* What both creation instructions write once their checks have passed: the   *)
(* override instant is fixed here from the delay then in force.               *)
InitMarket(who, k, e) ==
  /\ ~created
  /\ ~paused
  /\ mintCurrent
  /\ k > 0
  /\ e > now
  /\ e - now <= ExpiryHorizon
  /\ created' = TRUE
  /\ creator' = who
  /\ strike' = k
  /\ expiry' = e
  /\ eligibleAt' = e + overrideDelay
  /\ vaultOpen' = TRUE
  /\ UNCHANGED <<now, configVars, outcomeVars, vault, pairs, donated, tokenVars,
                 usdc, approved, feeVars>>

CreateStrikeMarket(k, e) == InitMarket(Nobody, k, e)

(* The permissionless path adds the calendar, the grid and the live price. *)
UserCreateStrikeMarket(u, k, e, r) ==
  /\ e \in CloseTimes
  /\ strike_aligned_to_tick(k, StrikeTick)
  /\ r.price > 0
  /\ ReadingAccepted(r)
  /\ strike_within_deviation(k, r.price, StrikeDeviation)
  /\ InitMarket(u, k, e)

--------------------------------------------------------------------------------
(* Minting *)

(* The UserConfig account as the handler leaves it before the fee is read:    *)
(* created on a first mint, decayed and re-anchored on every later one.       *)
TouchedUserConfig(u) ==
  LET c == userConfig[u] IN
  [c EXCEPT !.exists = TRUE,
            !.last_decay = now,
            !.mint_volume_30d =
               IF c.exists
               THEN apply_linear_decay(c.mint_volume_30d, c.last_decay, now)
               ELSE @]

CreatorRebateFires(u) == feeConfig.creator_rebate_bps > 0 /\ creator = u

(* Mutant: rebated mints earn tier volume. *)
CountedUserConfig_RebateCounts(u, amount) ==
  LET c == TouchedUserConfig(u) IN
  [c EXCEPT !.mint_volume_lifetime = SaturatingAdd(@, amount, U64_MAX),
            !.mint_volume_30d = SaturatingAdd(@, amount, U64_MAX)]

(* Lifetime volume always grows, tier volume only on mints without a rebate. *)
CountedUserConfig(u, amount) ==
  LET c == TouchedUserConfig(u) IN
  [c EXCEPT !.mint_volume_lifetime = SaturatingAdd(@, amount, U64_MAX),
            !.mint_volume_30d = IF CreatorRebateFires(u) THEN @
                                ELSE SaturatingAdd(@, amount, U64_MAX)]

MintFee(u, amount) ==
  split_fee(fee_total(amount,
                      effective_bps(feeConfig, TouchedUserConfig(u).mint_volume_30d,
                                    CreatorRebateFires(u))),
            feeConfig)

(* The principal goes to the vault, the fee on top of it to the three sinks,  *)
(* and as many YES and NO as principal to the caller.  The token program      *)
(* refuses to overflow a supply or the vault.                                 *)
MintPair(u, amount) ==
  LET fee == MintFee(u, amount) IN
  /\ Operational
  /\ outcome = "Unsettled"
  /\ vaultOpen
  /\ amount > 0
  /\ amount + fee.platform + fee.weekly + fee.monthly <= usdc[u]
  /\ yesSupply + amount <= U64_MAX
  /\ noSupply + amount <= U64_MAX
  /\ vault + amount <= U64_MAX
  /\ usdc' = [usdc EXCEPT ![u] = @ - amount - fee.platform - fee.weekly - fee.monthly]
  /\ vault' = vault + amount
  /\ treasury' = treasury + fee.platform
  /\ weeklyPool' = weeklyPool + fee.weekly
  /\ monthlyPool' = monthlyPool + fee.monthly
  /\ yes' = [yes EXCEPT ![u] = @ + amount]
  /\ no' = [no EXCEPT ![u] = @ + amount]
  /\ yesSupply' = yesSupply + amount
  /\ noSupply' = noSupply + amount
  /\ pairs' = SaturatingAdd(pairs, amount, U64_MAX)
  /\ userConfig' = [userConfig EXCEPT ![u] = CountedUserConfig(u, amount)]
  /\ UNCHANGED <<now, configVars, identityVars, outcomeVars, vaultOpen, donated,
                 approved>>

--------------------------------------------------------------------------------
(* Settlement *)

WriteOutcome(o, price) ==
  /\ outcome' = o
  /\ settlePrice' = price
  /\ settledAt' = now
  /\ UNCHANGED <<now, configVars, identityVars, vaultVars, tokenVars, usdc,
                 approved, feeVars>>

(* Permissionless: anybody may present a reading once the market expired. *)
SettleMarket(r) ==
  /\ created
  /\ ~paused
  /\ outcome = "Unsettled"
  /\ now >= expiry
  /\ ReadingAccepted(r)
  /\ WriteOutcome(outcome_for_settled_price(r.price, strike), r.price)

(* Mutant: the override instant recomputed from the delay now in force. *)
AdminSettle_CurrentDelay(forced) ==
  /\ created
  /\ ~paused
  /\ outcome = "Unsettled"
  /\ forced # "Unsettled"
  /\ now >= expiry + overrideDelay
  /\ WriteOutcome(forced, settlePrice)

(* The admin may rule after the override instant; settle_price keeps its 0. *)
AdminSettle(forced) ==
  /\ created
  /\ ~paused
  /\ outcome = "Unsettled"
  /\ forced # "Unsettled"
  /\ now >= eligibleAt
  /\ WriteOutcome(forced, settlePrice)

--------------------------------------------------------------------------------
(* Redemption *)

BurnYes(u, amount) ==
  /\ amount <= yes[u]
  /\ amount <= yesSupply
  /\ yes' = [yes EXCEPT ![u] = @ - amount]
  /\ yesSupply' = yesSupply - amount

(* Mutant: a burn bounded by neither the wallet nor the supply. *)
BurnNo_Unbounded(u, amount) ==
  /\ no' = [no EXCEPT ![u] = @ - amount]
  /\ noSupply' = noSupply - amount

BurnNo(u, amount) ==
  /\ amount <= no[u]
  /\ amount <= noSupply
  /\ no' = [no EXCEPT ![u] = @ - amount]
  /\ noSupply' = noSupply - amount

(* select_winning_side picks the mint to burn; Invalid and Unsettled fail. *)
BurnWinning(u, amount) ==
  \/ outcome = "Yes" /\ BurnYes(u, amount) /\ UNCHANGED <<no, noSupply>>
  \/ outcome = "No"  /\ BurnNo(u, amount)  /\ UNCHANGED <<yes, yesSupply>>

(* The vault transfer the payouts share. *)
FromVault(u, amount) ==
  /\ Operational
  /\ vaultOpen
  /\ amount > 0
  /\ amount <= vault
  /\ vault' = vault - amount
  /\ usdc' = [usdc EXCEPT ![u] = @ + amount]
  /\ UNCHANGED <<now, configVars, identityVars, outcomeVars, vaultOpen, donated,
                 approved, feeVars>>

(* Mutant: the outstanding counter forgotten. *)
PayOut_KeepsPairs(u, amount) == FromVault(u, amount) /\ pairs' = pairs

(* The vault pays one USDC unit per unit burned. *)
PayOut(u, amount) ==
  FromVault(u, amount) /\ pairs' = SaturatingSub(pairs, amount)

Redeem(u, amount) == BurnWinning(u, amount) /\ PayOut(u, amount)

RedeemPair(u, amount) ==
  /\ outcome = "Unsettled"
  /\ BurnYes(u, amount)
  /\ BurnNo(u, amount)
  /\ PayOut(u, amount)

(* Mutant: a refund that burns only the YES leg. *)
RedeemInvalid_YesOnly(u, amount) ==
  /\ outcome = "Invalid"
  /\ BurnYes(u, amount)
  /\ UNCHANGED <<no, noSupply>>
  /\ PayOut(u, amount)

RedeemInvalid(u, amount) ==
  /\ outcome = "Invalid"
  /\ BurnYes(u, amount)
  /\ BurnNo(u, amount)
  /\ PayOut(u, amount)

grace_period_elapsed == now > settledAt + feeConfig.force_redeem_grace_secs

(* The admin burns through the delegation the holder gave the market and pays *)
(* the holder.                                                                *)
ForceRedeem(u, amount) ==
  /\ grace_period_elapsed
  /\ u \in approved
  /\ BurnWinning(u, amount)
  /\ PayOut(u, amount)

(* Mutant: an empty market may close before it settles. *)
CloseSettledMarket_AnyOutcome ==
  /\ Operational
  /\ vaultOpen
  /\ pairs = 0
  /\ vault = 0
  /\ vaultOpen' = FALSE
  /\ UNCHANGED <<now, configVars, identityVars, outcomeVars, vault, pairs, donated,
                 tokenVars, usdc, approved, feeVars>>

(* Anybody may close the emptied vault; the StrikeMarket account stays. *)
CloseSettledMarket ==
  /\ Operational
  /\ vaultOpen
  /\ outcome # "Unsettled"
  /\ pairs = 0
  /\ vault = 0
  /\ vaultOpen' = FALSE
  /\ UNCHANGED <<now, configVars, identityVars, outcomeVars, vault, pairs, donated,
                 tokenVars, usdc, approved, feeVars>>

--------------------------------------------------------------------------------
(* Administration *)

Pause(b) ==
  /\ paused' = b
  /\ UNCHANGED <<now, mintCurrent, overrideDelay, feeConfig, identityVars,
                 outcomeVars, vaultVars, tokenVars, usdc, approved, feeVars>>

(* Flips config.usdc_mint away from, or back to, this market's mint. *)
UpdateUsdcMint(b) ==
  /\ mintCurrent' = b
  /\ UNCHANGED <<now, paused, overrideDelay, feeConfig, identityVars,
                 outcomeVars, vaultVars, tokenVars, usdc, approved, feeVars>>

UpdateAdminOverrideDelaySecs(d) ==
  /\ overrideDelay' = d
  /\ UNCHANGED <<now, paused, mintCurrent, feeConfig, identityVars,
                 outcomeVars, vaultVars, tokenVars, usdc, approved, feeVars>>

UpdateFeeConfig(fc) ==
  /\ ~paused
  /\ validate_fee_params(fc)
  /\ feeConfig' = fc
  /\ UNCHANGED <<now, paused, mintCurrent, overrideDelay, identityVars,
                 outcomeVars, vaultVars, tokenVars, usdc, approved, feeVars>>

--------------------------------------------------------------------------------
(* The SPL Token program, external: what holders may do without this program. *)

SplTransferYes(u, v, amount) ==
  /\ 0 < amount /\ amount <= yes[u] /\ u # v
  /\ yes' = [yes EXCEPT ![u] = @ - amount, ![v] = @ + amount]
  /\ UNCHANGED <<now, configVars, identityVars, outcomeVars, vaultVars, yesSupply,
                 noSupply, no, usdc, approved, feeVars>>

SplTransferNo(u, v, amount) ==
  /\ 0 < amount /\ amount <= no[u] /\ u # v
  /\ no' = [no EXCEPT ![u] = @ - amount, ![v] = @ + amount]
  /\ UNCHANGED <<now, configVars, identityVars, outcomeVars, vaultVars, yesSupply,
                 noSupply, yes, usdc, approved, feeVars>>

SplBurn(u, amount) ==
  /\ amount > 0
  /\ \/ BurnYes(u, amount) /\ UNCHANGED <<no, noSupply>>
     \/ BurnNo(u, amount) /\ UNCHANGED <<yes, yesSupply>>
  /\ UNCHANGED <<now, configVars, identityVars, outcomeVars, vaultVars, usdc,
                 approved, feeVars>>

SplDonate(u, amount) ==
  /\ vaultOpen
  /\ 0 < amount /\ amount <= usdc[u]
  /\ vault + amount <= U64_MAX
  /\ usdc' = [usdc EXCEPT ![u] = @ - amount]
  /\ vault' = vault + amount
  /\ donated' = donated + amount
  /\ UNCHANGED <<now, configVars, identityVars, outcomeVars, vaultOpen, pairs,
                 tokenVars, approved, feeVars>>

SplApprove(u) ==
  /\ created
  /\ approved' = approved \cup {u}
  /\ UNCHANGED <<now, configVars, identityVars, outcomeVars, vaultVars, tokenVars,
                 usdc, feeVars>>

--------------------------------------------------------------------------------

HolderStep(u) ==
  \E amount \in Amounts :
    \/ MintPair(u, amount)
    \/ RedeemPair(u, amount)
    \/ Redeem(u, amount)
    \/ RedeemInvalid(u, amount)

AdminStep ==
  \/ \E k \in Strikes, e \in Expiries : CreateStrikeMarket(k, e)
  \/ \E forced \in Outcomes : AdminSettle(forced)
  \/ \E u \in Users, amount \in Amounts : ForceRedeem(u, amount)
  \/ \E b \in BOOLEAN : Pause(b)
  \/ \E b \in MintFlips : UpdateUsdcMint(b)
  \/ \E d \in OverrideDelays : UpdateAdminOverrideDelaySecs(d)
  \/ \E fc \in FeeConfigs : UpdateFeeConfig(fc)

PermissionlessStep ==
  \/ \E u \in Users, k \in Strikes, e \in Expiries, r \in Readings :
       UserCreateStrikeMarket(u, k, e, r)
  \/ \E r \in Readings : SettleMarket(r)
  \/ CloseSettledMarket

SplStep ==
  \/ \E u, v \in Users, amount \in SplAmounts :
       SplTransferYes(u, v, amount) \/ SplTransferNo(u, v, amount)
  \/ \E u \in Users, amount \in SplAmounts : SplBurn(u, amount) \/ SplDonate(u, amount)
  \/ \E u \in Users : SplApprove(u)

Next ==
  \/ Tick
  \/ \E u \in Users : HolderStep(u)
  \/ AdminStep
  \/ PermissionlessStep
  \/ SplStep

Spec == Init /\ [][Next]_vars

--------------------------------------------------------------------------------
(* Properties *)

TypeOK ==
  /\ now \in Nat
  /\ paused \in BOOLEAN
  /\ mintCurrent \in BOOLEAN
  /\ overrideDelay \in Nat
  /\ feeConfig \in FeeConfigType
  /\ created \in BOOLEAN
  /\ creator \in Users \cup {Nobody}
  /\ strike \in Int
  /\ expiry \in Nat
  /\ eligibleAt \in Nat
  /\ outcome \in Outcomes
  /\ settlePrice \in Int
  /\ settledAt \in Nat
  /\ pairs \in Nat
  /\ vaultOpen \in BOOLEAN
  /\ vault \in Nat
  /\ yesSupply \in Nat
  /\ noSupply \in Nat
  /\ yes \in [Users -> Nat]
  /\ no \in [Users -> Nat]
  /\ usdc \in [Users -> Nat]
  /\ approved \subseteq Users
  /\ userConfig \in [Users -> UserConfigType]
  /\ treasury \in Nat
  /\ weeklyPool \in Nat
  /\ monthlyPool \in Nat
  /\ donated \in Nat

(* The $1 invariant of README.md and mint_pair.rs: the vault holds one USDC   *)
(* unit per outstanding pair, plus only what was sent to it from outside.     *)
VaultHoldsPairs == vault = pairs + donated

(* Every token that can still be turned into USDC is counted by               *)
(* pairs_outstanding; only the losing side of a settled market may exceed it. *)
ClaimsCounted ==
  /\ outcome # "No"  => yesSupply <= pairs
  /\ outcome # "Yes" => noSupply <= pairs

(* close_settled_market closes a vault only when no claim on it is left. *)
ClosedOwesNothing ==
  created /\ ~vaultOpen =>
    /\ vault = 0
    /\ outcome # "Unsettled"
    /\ outcome # "No"  => yesSupply = 0
    /\ outcome # "Yes" => noSupply = 0

(* The badge downstream consumers read (admin_settle.rs): settle_price is 0   *)
(* exactly for a ruling by the admin, which respects the override instant     *)
(* fixed at creation; any other price explains the outcome.                   *)
SettlementProvenance ==
  outcome # "Unsettled" =>
    IF settlePrice = 0 THEN settledAt >= eligibleAt
    ELSE /\ settledAt >= expiry
         /\ outcome = outcome_for_settled_price(settlePrice, strike)

(* An outcome, once written by whichever of the nudger, a stranger or the     *)
(* admin came first, is never rewritten.                                      *)
OutcomeFinal == [][outcome # "Unsettled" => UNCHANGED outcomeVars]_vars

(* USDC leaves the vault only to one wallet that gives up, in the same step,  *)
(* as many tokens of each side the outcome makes it surrender.                *)
VaultPaysForBurns ==
  [][vault' < vault =>
       \E u \in Users :
         LET paid == vault - vault' IN
         /\ usdc' = [usdc EXCEPT ![u] = @ + paid]
         /\ outcome # "No"  => yes' = [yes EXCEPT ![u] = @ - paid]
         /\ outcome # "Yes" => no'  = [no EXCEPT ![u] = @ - paid]]_vars

(* The kill switch: while paused no instruction moves collateral, mints,      *)
(* settles, closes or collects a fee; the vault can only receive.             *)
PausedFreezes ==
  [][paused /\ paused' =>
       /\ vault' >= vault
       /\ yesSupply' <= yesSupply
       /\ noSupply' <= noSupply
       /\ UNCHANGED <<outcomeVars, identityVars, pairs, vaultOpen, feeVars>>]_vars

(* DR-008 anti-tier-gaming: 30-day volume grows only on a mint that paid the  *)
(* full fee of the caller's tier, never on one the creator rebate touched.    *)
TierVolumeEarned ==
  [][\A u \in Users :
       userConfig'[u].mint_volume_30d > userConfig[u].mint_volume_30d =>
         (treasury' + weeklyPool' + monthlyPool')
           - (treasury + weeklyPool + monthlyPool)
         = fee_total(pairs' - pairs,
                     effective_bps(feeConfig,
                                   TouchedUserConfig(u).mint_volume_30d, FALSE))]_vars

Promise == INSTANCE CollateralPromise WITH
  phase <- IF ~created THEN "absent" ELSE IF vaultOpen THEN "open" ELSE "closed",
  verdict <- outcome,
  reserve <- vault,
  yesClaims <- yesSupply,
  noClaims <- noSupply

(* Seen through its vault and its two supplies, whatever the wallets, the     *)
(* nudger and the admin do, the market keeps the promise: one verdict, no     *)
(* USDC out but against the claims the verdict leaves worth it, and a vault   *)
(* closed only with nothing owed.                                             *)
ImplementsPromise == Promise!Spec
================================================================================
