----------------------------- MODULE GridEvolution -----------------------------
(******************************************************************************)
(* The scheduled jobs that keep each ticker's on-chain configuration: the     *)
(* anchor after the close (phases 1 and 1b), the wild-swing checks before and *)
(* after hours (phases 2 and 3) and the earnings cron (grid-evolution.ts,     *)
(* earnings-evolution.ts and their files under jobs/).  A job takes the       *)
(* tickers in turn and, for each, waits for the price, for the configuration  *)
(* and for the transaction; two jobs of one slot interleave at those waits,   *)
(* and each wait may end in an error that is recorded before the loop goes    *)
(* on.  Every maxDuration ends before the next slot in which a job is due, so *)
(* the clock moves when all jobs are idle; a job may be cut off at any time.  *)
(******************************************************************************)
EXTENDS StrikeGrid, FiniteSetsExt, Functions

CONSTANTS
  Tickers,             \* the tickers the loops go over, in order
  Spots,               \* prices the feed may show
  FirstDay, LastDay,   \* the days modelled
  MAX_ALLOWED_STRIKES, \* slots in TickerConfig.allowed_strikes
  NoConfig             \* the TickerConfig account does not exist

ASSUME GridAssumption ==
  /\ Tickers \in Seq(MAG7)
  /\ Spots \subseteq Nat \ {0}
  /\ {FirstDay, LastDay} \subseteq 15..350
  /\ MAX_ALLOWED_STRIKES \in Nat \ {0}

VARIABLES
  day, slot, \* the clock: a day, and the index of the slot last reached on it
  spot,      \* the price of each ticker
  config,    \* TickerConfig of each ticker
  due,       \* jobs scheduled for this slot and not begun
  job,       \* each job: the positions left, the stage, and what it has read
  anchored,  \* anchor runs begun today, at which slots
  missed,    \* runs and writes lost since the cap was last widened, per ticker
  widened    \* the day on which each ticker's cap was last widened, or -1

clockVars == <<day, slot, spot>>
vars == <<clockVars, config, due, job, anchored, missed, widened>>

Jobs == {"anchor", "wild", "earnings"}

(* The Eastern minutes at which a cron may fire and something depends on it:  *)
(* 9:00 and 9:30, 13:05, 16:05, 16:30, 20:00 and 20:30.                       *)
SlotTimes == <<540, 570, 785, 965, 990, 1200, 1230>>

time == SlotTimes[slot]

idle == [todo |-> {}, stage |-> "idle", price |-> 0, view |-> NoConfig]

Init ==
  /\ day = FirstDay /\ slot = 1
  /\ spot \in [Range(Tickers) -> Spots]
  /\ config = [t \in Range(Tickers) |-> NoConfig]
  /\ due = {}
  /\ job = [j \in Jobs |-> idle]
  /\ anchored = {}
  /\ missed = [t \in Range(Tickers) |-> 0]
  /\ widened = [t \in Range(Tickers) |-> -1]

--------------------------------------------------------------------------------
(* Schedules and gates. *)

(* Both anchor crons fire on weekdays; each lets only its own days through. *)
anchorDue(d, m) ==
  \/ m = 965 /\ isRegularTradingDay(d)
  \/ m = 785 /\ isHalfDay(d)

isInPhaseWindow(d, m, phase) ==
  /\ isTradingDay(d)
  /\ IF phase = "ah" THEN 990 <= m /\ m <= 1200 ELSE 240 <= m /\ m <= 540

wildDue(d, m) ==
  \/ m \in {540, 570} /\ isInPhaseWindow(d, m, "pm")
  \/ m \in {990, 1200, 1230} /\ isInPhaseWindow(d, m, "ah")

earningsDue(d, m) == m = 990 /\ isTradingDay(d)

dueAt(d, m) ==
  {j \in Jobs : \/ j = "anchor" /\ anchorDue(d, m)
                \/ j = "wild" /\ wildDue(d, m)
                \/ j = "earnings" /\ earningsDue(d, m)}

(* The next slot; prices may have moved. *)
Tick ==
  /\ due = {} /\ \A j \in Jobs : job[j] = idle
  /\ IF slot < Len(SlotTimes)
     THEN slot' = slot + 1 /\ UNCHANGED <<day, anchored>>
     ELSE day < LastDay /\ day' = day + 1 /\ slot' = 1 /\ anchored' = {}
  /\ spot' \in [Range(Tickers) -> Spots]
  /\ due' = dueAt(day', SlotTimes[slot'])
  /\ UNCHANGED <<config, job, missed, widened>>

targets(j) ==
  IF j # "earnings" THEN Range(Tickers)
  ELSE tickersToPreExpand(day) \union tickersToRestore(day)

(* A run finds the clients and the tickers it is for. *)
Begin(j) ==
  /\ j \in due
  /\ due' = due \ {j}
  /\ job' = [job EXCEPT ![j].todo = {n \in DOMAIN Tickers : Tickers[n] \in targets(j)},
                        ![j].stage = IF targets(j) \intersect Range(Tickers) = {}
                                     THEN "idle" ELSE "price"]
  /\ anchored' = IF j = "anchor" THEN anchored \union {time} ELSE anchored
  /\ UNCHANGED <<clockVars, config, missed, widened>>

miss(ts) == [t \in Range(Tickers) |->
  IF t \in ts /\ missed[t] < 3 THEN missed[t] + 1 ELSE missed[t]]

(* Every attempt of the scheduler throws while the clients are built. *)
Skip(j) ==
  /\ j \in due
  /\ due' = due \ {j}
  /\ missed' = miss(targets(j))
  /\ UNCHANGED <<clockVars, config, job, anchored, widened>>

(* The tickers of the positions left. *)
remaining(j) == {Tickers[n] : n \in job[j].todo}

(* A running job is stopped: maxDuration, or the worker dies. *)
Stop(j) ==
  /\ job[j] # idle
  /\ missed' = miss(remaining(j))
  /\ job' = [job EXCEPT ![j] = idle]
  /\ UNCHANGED <<clockVars, config, due, anchored, widened>>

--------------------------------------------------------------------------------
(* One ticker of a loop. *)

(* In the order of the list; the earnings cron widens before it restores.     *)
position(j) ==
  LET toWiden == {n \in job[j].todo : j = "earnings" /\ Tickers[n] \in tickersToPreExpand(day)}
  IN Min(IF toWiden # {} THEN toWiden ELSE job[j].todo)

ticker(j) == Tickers[position(j)]

nextTicker(j) ==
  LET rest == job[j].todo \ {position(j)}
  IN IF rest = {} THEN idle ELSE [idle EXCEPT !.todo = rest, !.stage = "price"]

(* The earnings cron may find a ticker on both lists; pre-expansion is first. *)
targetCap(j, t) ==
  IF j = "earnings" /\ t \in tickersToPreExpand(day)
  THEN EARNINGS_PREEXPAND_BPS[t] ELSE TICKER_DEFAULTS[t].cap

(* An error is recorded and the loop continues with the next ticker. *)
Errored(j) ==
  /\ job[j].stage # "idle"
  /\ job' = [job EXCEPT ![j] = nextTicker(j)]
  /\ missed' = miss({ticker(j)})
  /\ UNCHANGED <<clockVars, config, due, anchored, widened>>

(* Hermes answers with the price of the moment, closed market or not. *)
getPreviousClose(j) ==
  /\ job[j].stage = "price"
  /\ job' = [job EXCEPT ![j].price = spot[ticker(j)],
                        ![j].stage = IF j = "anchor" THEN "write" ELSE "read"]
  /\ UNCHANGED <<clockVars, config, due, anchored, missed, widened>>

(* Nothing to write: no account, no drift, or the cap is what it should be. *)
nothingToDo(j, t) ==
  \/ config[t] = NoConfig
  \/ /\ j = "wild"
     /\ driftBps(job[j].price, config[t].center) <= TICKER_DEFAULTS[t].threshold
  \/ j = "earnings" /\ config[t].cap = targetCap(j, t)

defaultReadTickerConfig(j) ==
  /\ job[j].stage = "read"
  /\ job' = [job EXCEPT ![j] = IF nothingToDo(j, ticker(j)) THEN nextTicker(j)
                               ELSE [@ EXCEPT !.view = config[ticker(j)], !.stage = "write"]]
  /\ UNCHANGED <<clockVars, config, due, anchored, missed, widened>>

(* What a job asks update_ticker_config to write. *)
update(j, t) ==
  LET d == TICKER_DEFAULTS[t]
  IN CASE j = "anchor" ->
            [center |-> job[j].price, cap |-> d.cap, phase |-> j,
             strikes |-> SetToBag(computeStrikeGrid(job[j].price, d.tick))]
       [] j = "wild" ->
            [center |-> job[j].price, cap |-> d.cap, phase |-> j,
             strikes |-> expandedStrikeGrid(job[j].price, d.tick, job[j].view.strikes)]
       [] j = "earnings" -> [job[j].view EXCEPT !.cap = targetCap(j, t), !.phase = j]

(* The transaction is refused before it is sent, or by the program, when the  *)
(* strikes do not fit; every other argument is within the program's bounds.   *)
writable(u) == BagCardinality(u.strikes) \in 1..MAX_ALLOWED_STRIKES

defaultUpdateTickerConfigTx(j) ==
  LET t == ticker(j)
      u == update(j, t)
  IN /\ job[j].stage = "write"
     /\ writable(u)
     /\ config' = [config EXCEPT ![t] = u]
     /\ IF u.cap > TICKER_DEFAULTS[t].cap
        THEN missed' = [missed EXCEPT ![t] = 0] /\ widened' = [widened EXCEPT ![t] = day]
        ELSE UNCHANGED <<missed, widened>>
     /\ job' = [job EXCEPT ![j] = nextTicker(j)]
     /\ UNCHANGED <<clockVars, due, anchored>>

JobStep(j) ==
  \/ Begin(j) \/ getPreviousClose(j) \/ defaultReadTickerConfig(j)
  \/ defaultUpdateTickerConfigTx(j)

JobFault(j) == Skip(j) \/ Stop(j) \/ Errored(j)

Next == Tick \/ \E j \in Jobs : JobStep(j) \/ JobFault(j)

Spec == Init /\ [][Next]_vars

--------------------------------------------------------------------------------
(* Properties. *)

expanded(t) == config[t] # NoConfig /\ config[t].cap > TICKER_DEFAULTS[t].cap

(* The two anchor crons never both act on one day, nor before the day's       *)
(* close, nor on a day without one: an early anchor would fix the next day's  *)
(* grid on a price that is not the close (jobs/grid-evolution.ts phases 1, 1b).*)
OneAnchorAfterClose ==
  /\ \A m \in anchored : isTradingDay(day) /\ m > closeHourEt(day) * 60
  /\ \A m, n \in anchored : m = n

(* A cap widened for an earnings date is back at its default once the 4:30    *)
(* slot of the session after that date is over, unless three runs or writes   *)
(* were lost on the way: two anchors and the restoration each narrow it.      *)
ExpandedCapEnds ==
  \A t \in Range(Tickers) : expanded(t) /\ missed[t] < 3 =>
    LET after == nextTradingDay(nextTradingDay(widened[t]))
    IN day < after \/ (day = after /\ time <= 990)

(* Strikes leave allowed_strikes only when a new session is anchored, or when *)
(* a job writes over an update that landed after it had read: "their strike   *)
(* doesn't vanish from allowed_strikes mid-trading-cycle" holds between jobs  *)
(* that do not overlap (ticker-config.ts expandedStrikeGrid).                 *)
StrikesVanishOnlyInRace ==
  [][\A t \in Range(Tickers) :
       config[t] # NoConfig /\ config'[t] # config[t] /\ config'[t].phase # "anchor" =>
         \/ BagToSet(config[t].strikes) \subseteq BagToSet(config'[t].strikes)
         \/ job[config'[t].phase].view # config[t]]_vars
================================================================================
