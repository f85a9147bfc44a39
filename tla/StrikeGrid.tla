------------------------------- MODULE StrikeGrid ------------------------------
(******************************************************************************)
(* The strikes the automation service derives from a price: the MAG7 grids of *)
(* the morning job (strike-calc.ts), the per-ticker grids and their expansion *)
(* (ticker-config.ts), and the earnings calendar that widens the range users  *)
(* may create strikes in (earnings-calendar.ts).  Prices are whole dollars    *)
(* and percentages are exact; the one rounding of doubles that matters is     *)
(* that of reading a strike back from the chain, see Inexact.                 *)
(******************************************************************************)
EXTENDS Calendar, FiniteSets, Bags

CONSTANT Inexact \* dollar strikes that reading back from the chain turns into another double

ASSUME InexactAssumption == Inexact \subseteq Nat

HighVol == {"NVDA", "META", "TSLA"}
MidVol == {"AMZN"}
LowVol == {"AAPL", "MSFT", "GOOGL"}
MAG7 == HighVol \union MidVol \union LowVol

TICKER_DEFAULTS == [t \in MAG7 |->
  CASE t \in HighVol -> [cap |-> 3000, tick |-> 5, threshold |-> 800]
    [] t \in MidVol  -> [cap |-> 2000, tick |-> 2, threshold |-> 600]
    [] t \in LowVol  -> [cap |-> 1500, tick |-> 1, threshold |-> 400]]

STRIKE_PERCENT_OFFSETS == {-9, -6, -3, 3, 6, 9}
STRIKE_ROUNDING_USD == 10

(* n / d rounded to the nearest integer, halves up: Math.round. *)
roundDiv(n, d) == (2 * n + d) \div (2 * d)

(* value * (100 + percent) / 100, to the nearest multiple of the tick. *)
roundToTick(value, percent, tick) == roundDiv(value * (100 + percent), 100 * tick) * tick

computeStrikeGrid(capCenter, tick) ==
  {s \in {roundToTick(capCenter, p, tick) : p \in STRIKE_PERCENT_OFFSETS \union {0}} : s > 0}

computeStrikesForStock(previousClose) == computeStrikeGrid(previousClose, STRIKE_ROUNDING_USD)

abs(x) == IF x < 0 THEN -x ELSE x

driftBps(spot, capCenter) == roundDiv(abs(spot - capCenter) * 10000, capCenter)

(* Mutant: the existing strikes are dropped. *)
expandedStrikeGrid_DropsOld(newSpot, tick, existing) ==
  SetToBag(computeStrikeGrid(newSpot, tick))

(* The existing strikes and the fresh ones are merged as doubles: a strike in *)
(* both is one element only if it was read back exactly.                      *)
expandedStrikeGrid(newSpot, tick, existing) ==
  LET fresh == computeStrikeGrid(newSpot, tick)
  IN [s \in BagToSet(existing) \union fresh |->
        IF BagIn(s, existing) /\ s \in fresh /\ s \in Inexact THEN 2 ELSE 1]

--------------------------------------------------------------------------------
(* The earnings calendar. *)

EARNINGS_DATES_2026 == [t \in MAG7 |->
  CASE t = "AAPL" -> {Ymd(1, 29), Ymd(5, 1), Ymd(7, 30), Ymd(10, 29)}
    [] t = "MSFT" -> {Ymd(1, 30), Ymd(4, 30), Ymd(7, 30), Ymd(10, 30)}
    [] t = "AMZN" -> {Ymd(1, 29), Ymd(5, 1), Ymd(7, 30), Ymd(10, 30)}
    [] t = "NVDA" -> {Ymd(2, 19), Ymd(5, 22), Ymd(8, 28), Ymd(11, 20)}
    [] t = "TSLA" -> {Ymd(1, 22), Ymd(4, 24), Ymd(7, 24), Ymd(10, 23)}
    [] OTHER      -> {Ymd(1, 29), Ymd(4, 30), Ymd(7, 30), Ymd(10, 30)}]

EARNINGS_PREEXPAND_BPS == [t \in MAG7 |->
  CASE t \in HighVol -> 5000 [] t \in MidVol -> 3000 [] t \in LowVol -> 2500]

tickersReportingOn(day) == {t \in MAG7 : day \in EARNINGS_DATES_2026[t]}

tickersToPreExpand(today) == tickersReportingOn(nextTradingDay(today))

(* Mutant: looks at the wrong neighbour. *)
tickersToRestore_NextDay(today) == tickersReportingOn(nextTradingDay(today))

tickersToRestore(today) == tickersReportingOn(previousTradingDay(today))

listMalformedEarningsDates ==
  {p \in UNION {{t} \X EARNINGS_DATES_2026[t] : t \in MAG7} : ~isTradingDay(p[2])}

listInvalidExpansionCaps ==
  {t \in MAG7 : EARNINGS_PREEXPAND_BPS[t] <= TICKER_DEFAULTS[t].cap}

ASSUME EarningsTablesSound == listMalformedEarningsDates = {} /\ listInvalidExpansionCaps = {}
================================================================================
