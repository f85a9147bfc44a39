--------------------------------- MODULE Oracle --------------------------------
(******************************************************************************)
(* The gates a Pyth reading passes before it may settle a strike or bound a   *)
(* user-created one (oracle.rs, settle_market.rs, user_create_strike_market). *)
(* A reading is what parse_pyth_price returns for a well-formed account whose *)
(* aggregate is trading; any other account makes the transaction fail, which  *)
(* leaves the state as it was.                                                *)
(******************************************************************************)
EXTENDS Integers

CONSTANTS
  ORACLE_BPS,           \* 10_000
  PRICE_STALENESS_SECS, \* config.price_staleness_secs
  PRICE_CONFIDENCE_BPS  \* config.price_confidence_bps

ASSUME OracleAssumption ==
  /\ ORACLE_BPS \in Nat \ {0}
  /\ PRICE_STALENESS_SECS \in Nat \ {0}
  /\ PRICE_CONFIDENCE_BPS \in Nat \ {0}

abs(x) == IF x < 0 THEN -x ELSE x

(* Two and a half slots make a second.  The widths of the cast are modelled   *)
(* where they matter, not here: slot distances of a live cluster are small.   *)
slot_delta_to_age_secs(slotDelta) == (slotDelta * 2) \div 5

(* conf / |price| <= maxBps; a price of exactly zero is always too wide. *)
confidence_within_bps(conf, absPrice, maxBps) ==
  /\ absPrice # 0
  /\ conf * ORACLE_BPS <= absPrice * maxBps

(* At or above the strike is Yes. *)
outcome_for_settled_price(price, strike) == IF price >= strike THEN "Yes" ELSE "No"

(* The staleness and confidence gates, shared by settlement and user creation. *)
ReadingAccepted(r) ==
  /\ slot_delta_to_age_secs(r.slot_delta) <= PRICE_STALENESS_SECS
  /\ confidence_within_bps(r.confidence, abs(r.price), PRICE_CONFIDENCE_BPS)

strike_within_deviation(strike, spot, maxBps) ==
  /\ spot > 0
  /\ abs(strike - spot) * ORACLE_BPS <= spot * maxBps

strike_aligned_to_tick(strike, tick) == tick > 0 /\ strike % tick = 0

ReadingType == [price : Int, confidence : Nat, slot_delta : Nat]
================================================================================
