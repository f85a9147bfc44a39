--------------------------------- MODULE JobProofs -----------------------------
(******************************************************************************)
(* Theorems about the scheduled jobs.                                         *)
(*                                                                            *)
(* GridEvolution, for every list of tickers, every range of days and every    *)
(* price: the anchor acts once a day and after the close, no strike is        *)
(* dropped but by an anchor or by a job that had read an older configuration, *)
(* and a range widened for an earnings date is narrowed again.                *)
(*                                                                            *)
(* SettlementNudger, for every set of markets, retry interval, deadline and   *)
(* duration: what a run reports is true and complete, and no market's retry   *)
(* window is passed.                                                          *)
(******************************************************************************)
EXTENDS GridEvolution, SettlementNudger, SumTheorems

--------------------------------------------------------------------------------
(* The calendar. *)

(* Where the days of the tables fall. *)
LEMMA HolidaysFall == FULL_HOLIDAYS_2026 = {0, 18, 46, 92, 144, 169, 183, 249, 329, 358}
BY DEF FULL_HOLIDAYS_2026, Ymd, MonthStart

(* And those of the half-days. *)
LEMMA HalfDaysFall == HALF_DAYS_2026 = {330, 357}
BY DEF HALF_DAYS_2026, Ymd, MonthStart

(* A half-day trades. *)
LEMMA HalfDayTrades ==
  ASSUME NEW d, isHalfDay(d)
  PROVE  isTradingDay(d)
<1>1. d \in {330, 357}
  BY HalfDaysFall DEF isHalfDay
<1>2. d \notin FULL_HOLIDAYS_2026
  BY <1>1, HolidaysFall
<1>3. Weekday(d) \in 1..5
  <2>1. (330 + 4) % 7 = 5 /\ (357 + 4) % 7 = 4
    OBVIOUS
  <2> QED
    BY <1>1, <2>1 DEF Weekday
<1> QED
  BY <1>2, <1>3 DEF isTradingDay

(* No holiday of the table is a Tuesday. *)
LEMMA TuesdayTrades ==
  ASSUME NEW d \in Int, Weekday(d) = 2
  PROVE  isTradingDay(d)
<1>1. d \notin {0, 18, 46, 92, 144, 169, 183, 249, 329, 358}
  BY DEF Weekday
<1> QED
  BY <1>1, HolidaysFall DEF isTradingDay

(* Seven days in a row hold a Tuesday. *)
LEMMA TuesdayComes ==
  ASSUME NEW from \in Nat
  PROVE  \E d \in from + 1 .. from + 7 : Weekday(d) = 2
<1> DEFINE r == (from + 5) % 7
           q == (from + 5) \div 7
           k == IF r <= 2 THEN 2 - r ELSE 9 - r
<1>1. r \in 0..6 /\ q \in Nat /\ from + 5 = 7 * q + r
  OBVIOUS
<1>2. k \in 0..6 /\ (from + 5 + k = 7 * q + 2 \/ from + 5 + k = 7 * (q + 1) + 2)
  <2> HIDE DEF r, q
  <2> QED
    BY <1>1
<1>3. \A n \in Nat : (7 * n + 2) % 7 = 2
  OBVIOUS
<1>4. (from + 5 + k) % 7 = 2
  <2> HIDE DEF k
  <2> QED
    BY <1>1, <1>2, <1>3
<1>5. from + 1 + k \in from + 1 .. from + 7 /\ (from + 1 + k) + 4 = from + 5 + k
  <2> HIDE DEF k
  <2> QED
    BY <1>2
<1> HIDE DEF k
<1> QED
  BY <1>4, <1>5 DEF Weekday

(* A nonempty set of numbers has a least one. *)
LEMMA LeastNumber ==
  ASSUME NEW S \in SUBSET Nat, S # {}
  PROVE  \E n \in S : \A m \in S : n <= m
<1> SUFFICES ASSUME \A n \in S : \E m \in S : m < n
             PROVE  FALSE
  OBVIOUS
<1> DEFINE T == {n \in Nat : \A m \in S : n <= m}
<1>1. 0 \in T
  OBVIOUS
<1>2. \A n \in Nat : n \in T => n + 1 \in T
  OBVIOUS
<1>3. Nat \subseteq T
  <2> HIDE DEF T
  <2> QED
    BY <1>1, <1>2, NatInductionSet
<1>4. PICK n \in S : TRUE
  OBVIOUS
<1> QED
  BY <1>3, <1>4

(* What nextTradingDay answers. *)
IsNextTradingDay(from, d) ==
  /\ d \in from + 1 .. from + 14
  /\ isTradingDay(d)
  /\ \A e \in from + 1 .. d - 1 : ~isTradingDay(e)

(* nextTradingDay finds one, as every fortnight has a Tuesday that trades.    *)
LEMMA NextTradingDay ==
  ASSUME NEW from \in Nat
  PROVE  IsNextTradingDay(from, nextTradingDay(from))
<1> DEFINE S == {d \in from + 1 .. from + 14 : isTradingDay(d)}
<1>1. \E d \in from + 1 .. from + 7 : Weekday(d) = 2
  BY TuesdayComes
<1>2. S # {} /\ S \in SUBSET Nat
  BY <1>1, TuesdayTrades
<1>3. PICK d \in S : \A m \in S : d <= m
  <2> HIDE DEF S
  <2> QED
    BY <1>2, LeastNumber
<1>4. \A e \in from + 1 .. d - 1 : ~isTradingDay(e)
  BY <1>3
<1>5. \E n \in from + 1 .. from + 14 :
        isTradingDay(n) /\ \A e \in from + 1 .. n - 1 : ~isTradingDay(e)
  BY <1>3, <1>4
<1> QED
  BY <1>5 DEF nextTradingDay, IsNextTradingDay

(* The trading day before the next trading day is the trading day at hand. *)
LEMMA PreviousOfNext ==
  ASSUME NEW from \in Nat, isTradingDay(from), NEW d, IsNextTradingDay(from, d)
  PROVE  previousTradingDay(d) = from
<1> DEFINE P(n) == isTradingDay(n) /\ \A e \in n + 1 .. d - 1 : ~isTradingDay(e)
<1>1. d \in Nat /\ from < d /\ d <= from + 14
  BY DEF IsNextTradingDay
<1>2. from \in d - 14 .. d - 1 /\ P(from)
  BY <1>1 DEF IsNextTradingDay
<1>3. \A n \in d - 14 .. d - 1 : P(n) => n = from
  <2> SUFFICES ASSUME NEW n \in d - 14 .. d - 1, P(n), n # from
               PROVE  FALSE
    OBVIOUS
  <2>1. CASE n < from
    BY <2>1, <1>1
  <2>2. CASE from < n
    BY <2>2, <1>1 DEF IsNextTradingDay
  <2> QED
    BY <2>1, <2>2, <1>1
<1> QED
  BY <1>2, <1>3 DEF previousTradingDay

--------------------------------------------------------------------------------
(* Types. *)

(* Multisets of dollar strikes. *)
StrikeBags == UNION {[S -> Nat] : S \in SUBSET Nat}

Configs == [center : Nat, cap : Nat, phase : Jobs, strikes : StrikeBags]

Stages == {"idle", "price", "read", "write"}

JobStates == [todo : SUBSET DOMAIN Tickers, stage : Stages, price : Nat,
              view : Configs \union {NoConfig}]

(* The type invariant.  A job at work has a ticker left, and one that writes  *)
(* what it has read has read something.                                       *)
TypeOK ==
  /\ day \in 15..350
  /\ slot \in 1..7
  /\ spot \in [Range(Tickers) -> Spots]
  /\ config \in [Range(Tickers) -> Configs \union {NoConfig}]
  /\ due \in SUBSET Jobs
  /\ job \in [Jobs -> JobStates]
  /\ anchored \in SUBSET Nat
  /\ missed \in [Range(Tickers) -> 0..3]
  /\ widened \in [Range(Tickers) -> -1 .. 350]

JobsAtWork ==
  \A j \in Jobs : /\ job[j].stage # "idle" => job[j].todo # {}
                  /\ job[j].stage = "write" /\ j # "anchor" => job[j].view # NoConfig
                  /\ job[j].stage = "read" => j # "anchor"

(* A grid is a set of prices. *)
LEMMA GridTypes ==
  ASSUME NEW c \in Nat, NEW tick \in Nat \ {0}
  PROVE  computeStrikeGrid(c, tick) \in SUBSET Nat
<1>1. ASSUME NEW p \in STRIKE_PERCENT_OFFSETS \union {0}
      PROVE  roundToTick(c, p, tick) \in Int
  <2>1. p \in Int
    BY DEF STRIKE_PERCENT_OFFSETS
  <2>2. c * (100 + p) \in Int /\ 100 * tick \in Nat /\ 100 * tick > 0
    BY <2>1
  <2>3. \A n \in Int, d \in Nat : d > 0 => roundDiv(n, d) \in Int
    BY DEF roundDiv
  <2>4. roundDiv(c * (100 + p), 100 * tick) \in Int
    BY <2>2, <2>3
  <2>5. \A n \in Int : n * tick \in Int
    OBVIOUS
  <2> QED
    BY <2>4, <2>5 DEF roundToTick
<1>2. computeStrikeGrid(c, tick) =
        {s \in {roundToTick(c, p, tick) : p \in STRIKE_PERCENT_OFFSETS \union {0}} : s > 0}
  BY DEF computeStrikeGrid
<1> QED
  BY <1>1, <1>2

(* The tables cover every ticker. *)
LEMMA DefaultTypes ==
  ASSUME NEW t \in MAG7
  PROVE  /\ TICKER_DEFAULTS[t].cap \in Nat
         /\ TICKER_DEFAULTS[t].tick \in Nat \ {0}
         /\ EARNINGS_PREEXPAND_BPS[t] \in Nat
BY DEF TICKER_DEFAULTS, EARNINGS_PREEXPAND_BPS, MAG7, HighVol, MidVol, LowVol

(* What is written: a configuration of the phase that writes it, and of the   *)
(* cap that is asked for.                                                     *)
LEMMA UpdateTypes ==
  ASSUME NEW j \in Jobs, NEW t \in MAG7, TypeOK, JobsAtWork, job[j].stage = "write"
  PROVE  /\ update(j, t) \in Configs
         /\ update(j, t).phase = j
         /\ update(j, t).cap = IF j = "earnings" THEN targetCap(j, t) ELSE TICKER_DEFAULTS[t].cap
         /\ j # "anchor" => /\ job[j].view \in Configs
                            /\ BagToSet(job[j].view.strikes) \subseteq BagToSet(update(j, t).strikes)
<1>1. /\ TICKER_DEFAULTS[t].cap \in Nat /\ TICKER_DEFAULTS[t].tick \in Nat \ {0}
      /\ targetCap(j, t) \in Nat
  BY DefaultTypes DEF targetCap
<1>2. job[j] \in JobStates /\ job[j].price \in Nat
  BY DEF TypeOK, JobStates
<1>3. j # "anchor" => job[j].view \in Configs
  BY <1>2 DEF JobsAtWork, JobStates
<1> DEFINE fresh == computeStrikeGrid(job[j].price, TICKER_DEFAULTS[t].tick)
<1>4. fresh \in SUBSET Nat
  BY <1>1, <1>2, GridTypes
<1> HIDE DEF fresh
<1>5. CASE j = "anchor"
  <2>1. update(j, t) = [center |-> job[j].price, cap |-> TICKER_DEFAULTS[t].cap, phase |-> j,
                        strikes |-> SetToBag(fresh)]
    BY <1>5 DEF update, fresh
  <2>2. SetToBag(fresh) \in StrikeBags
    BY <1>4 DEF SetToBag, StrikeBags
  <2> QED
    BY <2>1, <2>2, <1>1, <1>2, <1>5 DEF Configs
<1>6. CASE j = "wild"
  <2> DEFINE old == job[j].view.strikes
             new == expandedStrikeGrid(job[j].price, TICKER_DEFAULTS[t].tick, old)
  <2>1. update(j, t) = [center |-> job[j].price, cap |-> TICKER_DEFAULTS[t].cap, phase |-> j,
                        strikes |-> new]
    BY <1>6 DEF update
  <2>2. new = [s \in BagToSet(old) \union fresh |->
                 IF BagIn(s, old) /\ s \in fresh /\ s \in Inexact THEN 2 ELSE 1]
    BY DEF expandedStrikeGrid, fresh
  <2>3. old \in StrikeBags /\ BagToSet(old) \in SUBSET Nat
    BY <1>3, <1>6 DEF Configs, StrikeBags, BagToSet
  <2> HIDE DEF old, new
  <2>4. new \in StrikeBags /\ BagToSet(new) = BagToSet(old) \union fresh
    BY <2>2, <2>3, <1>4 DEF StrikeBags, BagToSet
  <2>5. update(j, t).strikes = new
    BY <2>1
  <2>6. update(j, t) \in Configs /\ update(j, t).phase = j
        /\ update(j, t).cap = TICKER_DEFAULTS[t].cap
    BY <2>1, <2>4, <1>1, <1>2 DEF Configs
  <2> QED
    BY <2>4, <2>5, <2>6, <1>3, <1>6 DEF old
<1>7. CASE j = "earnings"
  <2>1. update(j, t) = [job[j].view EXCEPT !.cap = targetCap(j, t), !.phase = j]
    BY <1>7 DEF update
  <2> QED
    BY <2>1, <1>1, <1>3, <1>7 DEF Configs
<1> QED
  BY <1>5, <1>6, <1>7 DEF Jobs

--------------------------------------------------------------------------------
(* The steps of a job. *)

(* What a position of Tickers refers to. *)
LEMMA TickersListed ==
  /\ DOMAIN Tickers \in SUBSET Nat
  /\ Range(Tickers) \subseteq MAG7
  /\ \A n \in DOMAIN Tickers : Tickers[n] \in Range(Tickers)
BY GridAssumption DEF GridAssumption, Range

(* The position at hand is one of those left. *)
LEMMA PositionLeft ==
  ASSUME NEW j \in Jobs, TypeOK, job[j].todo # {}
  PROVE  position(j) \in job[j].todo /\ ticker(j) \in remaining(j) /\ ticker(j) \in Range(Tickers)
<1> DEFINE toWiden == {n \in job[j].todo : j = "earnings" /\ Tickers[n] \in tickersToPreExpand(day)}
           S == IF toWiden # {} THEN toWiden ELSE job[j].todo
<1>1. job[j].todo \in SUBSET DOMAIN Tickers
  BY DEF TypeOK, JobStates
<1>2. S \in SUBSET Nat /\ S # {} /\ S \subseteq job[j].todo
  BY <1>1, TickersListed
<1>3. position(j) = Min(S)
  BY DEF position
<1> HIDE DEF S
<1>4. Min(S) \in S
  BY <1>2, LeastNumber DEF Min
<1>5. position(j) \in job[j].todo
  BY <1>2, <1>3, <1>4
<1> QED
  BY <1>1, <1>5, TickersListed DEF ticker, remaining

(* What is left after it. *)
LEMMA NextTypes ==
  ASSUME NEW j \in Jobs, TypeOK
  PROVE  /\ nextTicker(j) \in JobStates
         /\ nextTicker(j).todo = job[j].todo \ {position(j)}
         /\ nextTicker(j).stage = IF nextTicker(j).todo = {} THEN "idle" ELSE "price"
<1> DEFINE rest == job[j].todo \ {position(j)}
<1>1. rest \in SUBSET DOMAIN Tickers
  BY DEF TypeOK, JobStates
<1>2. nextTicker(j) = IF rest = {} THEN idle ELSE [idle EXCEPT !.todo = rest, !.stage = "price"]
  BY DEF nextTicker
<1> HIDE DEF rest
<1>3. idle \in JobStates
  BY DEF idle, JobStates, Stages
<1>4. nextTicker(j) \in JobStates
  BY <1>1, <1>2, <1>3 DEF JobStates, Stages
<1>5. nextTicker(j).todo = rest /\ (nextTicker(j).stage = IF rest = {} THEN "idle" ELSE "price")
  BY <1>2 DEF idle
<1> QED
  BY <1>4, <1>5 DEF rest

(* Anchor runs were begun at slots that were theirs. *)
AnchorsOnTime ==
  /\ \A m \in anchored : anchorDue(day, m)
  /\ "anchor" \in due => anchorDue(day, time)

GridInv == TypeOK /\ JobsAtWork /\ AnchorsOnTime

(* The first slot of the first day. *)
LEMMA GridInvInit == Init => GridInv
<1> SUFFICES ASSUME Init PROVE GridInv
  OBVIOUS
<1>1. idle \in JobStates /\ idle.stage = "idle"
  BY DEF idle, JobStates, Stages
<1>2. TypeOK
  BY <1>1, GridAssumption DEF Init, TypeOK, GridAssumption
<1>3. JobsAtWork
  BY <1>1 DEF Init, JobsAtWork
<1>4. AnchorsOnTime
  BY DEF Init, AnchorsOnTime
<1> QED
  BY <1>2, <1>3, <1>4 DEF GridInv

(* Misses are counted up to three. *)
LEMMA MissTypes ==
  ASSUME TypeOK, NEW ts
  PROVE  miss(ts) \in [Range(Tickers) -> 0..3]
BY DEF TypeOK, miss

(* The slots of a day. *)
LEMMA SlotsRun == Len(SlotTimes) = 7 /\ \A s \in 1..7 : SlotTimes[s] \in Nat
BY DEF SlotTimes

(* The clock goes on only when no job is due or at work. *)
LEMMA TickKeeps ==
  ASSUME GridInv, Tick
  PROVE  GridInv'
<1> USE DEF GridInv
<1>1. TypeOK'
  <2>1. slot' \in 1..7 /\ day' \in 15..350
    <3>1. CASE slot < 7
      BY <3>1, SlotsRun DEF Tick, TypeOK
    <3>2. CASE ~(slot < 7)
      <4>1. day < LastDay /\ day' = day + 1 /\ slot' = 1
        BY <3>2, SlotsRun DEF Tick
      <4>2. LastDay \in 15..350 /\ day \in 15..350
        BY GridAssumption DEF GridAssumption, TypeOK
      <4> QED
        BY <4>1, <4>2
    <3> QED
      BY <3>1, <3>2
  <2>2. anchored' \in SUBSET Nat /\ due' \in SUBSET Jobs
    BY DEF Tick, TypeOK, dueAt
  <2> QED
    BY <2>1, <2>2 DEF Tick, TypeOK
<1>2. JobsAtWork'
  BY DEF Tick, JobsAtWork
<1>3. AnchorsOnTime'
  <2>1. "anchor" \in due' => anchorDue(day', SlotTimes[slot'])
    BY DEF Tick, dueAt, Jobs
  <2>2. \A m \in anchored' : anchorDue(day', m)
    BY DEF Tick, AnchorsOnTime
  <2> QED
    BY <2>1, <2>2 DEF AnchorsOnTime, time
<1> QED
  BY <1>1, <1>2, <1>3

(* A step that changes no more than one job, the record of losses and what    *)
(* is due keeps the invariant if that job's state fits.                       *)
JobFits(j, s) ==
  /\ s \in JobStates
  /\ s.stage # "idle" => s.todo # {}
  /\ s.stage = "write" /\ j # "anchor" => s.view # NoConfig
  /\ s.stage = "read" => j # "anchor"

(* A job that moves to a state it may be in. *)
LEMMA JobMoves ==
  ASSUME TypeOK, JobsAtWork, NEW j \in Jobs, NEW s, JobFits(j, s), job' = [job EXCEPT ![j] = s]
  PROVE  job' \in [Jobs -> JobStates] /\ JobsAtWork'
<1>1. job' \in [Jobs -> JobStates]
  BY DEF TypeOK, JobFits
<1>2. \A i \in Jobs : job'[i] = IF i = j THEN s ELSE job[i]
  BY DEF TypeOK
<1> QED
  BY <1>1, <1>2 DEF JobsAtWork, JobFits

(* Going on to the next ticker is such a move. *)
LEMMA NextFits ==
  ASSUME NEW j \in Jobs, TypeOK
  PROVE  JobFits(j, nextTicker(j))
BY NextTypes DEF JobFits

(* A job begins. *)
LEMMA BeginKeeps ==
  ASSUME GridInv, NEW j \in Jobs, Begin(j)
  PROVE  GridInv'
<1> USE DEF GridInv
<1> DEFINE left == {n \in DOMAIN Tickers : Tickers[n] \in targets(j)}
           s == [job[j] EXCEPT !.todo = left,
                   !.stage = IF targets(j) \intersect Range(Tickers) = {} THEN "idle" ELSE "price"]
<1>1. JobFits(j, s)
  <2>1. job[j] \in JobStates /\ left \in SUBSET DOMAIN Tickers
    BY DEF TypeOK
  <2>2. targets(j) \intersect Range(Tickers) # {} => left # {}
    BY DEF Range
  <2> QED
    BY <2>1, <2>2 DEF JobFits, JobStates, Stages
<1>2. job' = [job EXCEPT ![j] = s]
  BY DEF Begin, TypeOK
<1>3. job' \in [Jobs -> JobStates] /\ JobsAtWork'
  <2> HIDE DEF s
  <2> QED
    BY <1>1, <1>2, JobMoves
<1>4. UNCHANGED <<day, slot, spot, config, missed, widened>> /\ due' = due \ {j}
      /\ anchored' = (IF j = "anchor" THEN anchored \union {time} ELSE anchored)
      /\ j \in due
  BY DEF Begin, clockVars
<1>5. time \in Nat /\ time' = time
  BY <1>4, SlotsRun DEF TypeOK, time
<1>6. TypeOK'
  BY <1>3, <1>4, <1>5 DEF TypeOK
<1>7. AnchorsOnTime'
  BY <1>4, <1>5 DEF AnchorsOnTime
<1> QED
  BY <1>3, <1>6, <1>7

(* A job skips a ticker, or its run ends early. *)
LEMMA FaultKeeps ==
  ASSUME GridInv, NEW j \in Jobs, JobFault(j)
  PROVE  GridInv'
<1> USE DEF GridInv
<1>1. UNCHANGED <<day, slot, spot, config, anchored, widened>> /\ due' \in SUBSET due
      /\ missed' \in [Range(Tickers) -> 0..3] /\ time' = time
  BY MissTypes DEF JobFault, Skip, Stop, Errored, clockVars, time
<1>2. job' \in [Jobs -> JobStates] /\ JobsAtWork'
  <2>1. CASE Skip(j)
    BY <2>1 DEF Skip, TypeOK, JobsAtWork
  <2>2. CASE Stop(j)
    <3>1. JobFits(j, idle)
      BY DEF JobFits, idle, JobStates, Stages
    <3> QED
      BY <2>2, <3>1, JobMoves DEF Stop
  <2>3. CASE Errored(j)
    BY <2>3, NextFits, JobMoves DEF Errored
  <2> QED
    BY <2>1, <2>2, <2>3 DEF JobFault
<1>3. TypeOK'
  BY <1>1, <1>2 DEF TypeOK
<1>4. AnchorsOnTime'
  BY <1>1 DEF AnchorsOnTime
<1> QED
  BY <1>2, <1>3, <1>4

(* A job reads the close or the configuration. *)
LEMMA ReadKeeps ==
  ASSUME GridInv, NEW j \in Jobs, getPreviousClose(j) \/ defaultReadTickerConfig(j)
  PROVE  GridInv'
<1> USE DEF GridInv
<1>1. UNCHANGED <<day, slot, spot, config, due, anchored, missed, widened>> /\ time' = time
  BY DEF getPreviousClose, defaultReadTickerConfig, clockVars, time
<1>2. job[j] \in JobStates
  BY DEF TypeOK
<1>3. job' \in [Jobs -> JobStates] /\ JobsAtWork'
  <2>1. CASE getPreviousClose(j)
    <3> DEFINE s == [job[j] EXCEPT !.price = spot[ticker(j)],
                       !.stage = IF j = "anchor" THEN "write" ELSE "read"]
    <3>1. job[j].stage = "price" /\ job[j].todo # {}
      BY <2>1 DEF getPreviousClose, JobsAtWork
    <3>2. spot[ticker(j)] \in Nat
      BY <3>1, PositionLeft, GridAssumption DEF TypeOK, GridAssumption
    <3>3. JobFits(j, s)
      BY <1>2, <3>1, <3>2 DEF JobFits, JobStates, Stages
    <3>4. job' = [job EXCEPT ![j] = s]
      BY <2>1 DEF getPreviousClose, TypeOK
    <3> HIDE DEF s
    <3> QED
      BY <3>3, <3>4, JobMoves
  <2>2. CASE defaultReadTickerConfig(j)
    <3> DEFINE s == [job[j] EXCEPT !.view = config[ticker(j)], !.stage = "write"]
    <3>1. job[j].stage = "read" /\ job[j].todo # {}
      BY <2>2 DEF defaultReadTickerConfig, JobsAtWork
    <3>2. config[ticker(j)] \in Configs \union {NoConfig}
      BY <3>1, PositionLeft DEF TypeOK
    <3>3. ~nothingToDo(j, ticker(j)) => JobFits(j, s)
      BY <1>2, <3>1, <3>2 DEF JobFits, JobStates, Stages, nothingToDo, JobsAtWork
    <3>4. \/ ~nothingToDo(j, ticker(j)) /\ job' = [job EXCEPT ![j] = s]
          \/ job' = [job EXCEPT ![j] = nextTicker(j)]
      BY <2>2 DEF defaultReadTickerConfig, TypeOK
    <3> HIDE DEF s
    <3> QED
      BY <3>3, <3>4, JobMoves, NextFits
  <2> QED
    BY <2>1, <2>2
<1>4. TypeOK'
  BY <1>1, <1>3 DEF TypeOK
<1>5. AnchorsOnTime'
  BY <1>1 DEF AnchorsOnTime
<1> QED
  BY <1>3, <1>4, <1>5

(* A job writes the configuration of its ticker. *)
LEMMA WriteKeeps ==
  ASSUME GridInv, NEW j \in Jobs, defaultUpdateTickerConfigTx(j)
  PROVE  GridInv'
<1> USE DEF GridInv
<1> DEFINE t == ticker(j)
<1>1. job[j].stage = "write" /\ job[j].todo # {}
  BY DEF defaultUpdateTickerConfigTx, JobsAtWork
<1>2. t \in Range(Tickers) /\ t \in MAG7
  BY <1>1, PositionLeft, TickersListed
<1>3. update(j, t) \in Configs
  BY <1>1, <1>2, UpdateTypes
<1>4. config' = [config EXCEPT ![t] = update(j, t)] /\ job' = [job EXCEPT ![j] = nextTicker(j)]
      /\ UNCHANGED <<day, slot, spot, due, anchored>> /\ time' = time
      /\ \/ missed' = [missed EXCEPT ![t] = 0] /\ widened' = [widened EXCEPT ![t] = day]
         \/ UNCHANGED <<missed, widened>>
  BY DEF defaultUpdateTickerConfigTx, clockVars, time
<1>5. job' \in [Jobs -> JobStates] /\ JobsAtWork'
  BY <1>4, NextFits, JobMoves
<1>6. config' \in [Range(Tickers) -> Configs \union {NoConfig}]
  BY <1>2, <1>3, <1>4 DEF TypeOK
<1>7. missed' \in [Range(Tickers) -> 0..3] /\ widened' \in [Range(Tickers) -> -1 .. 350]
  <2> HIDE DEF t
  <2> QED
    BY <1>2, <1>4 DEF TypeOK
<1>8. TypeOK'
  BY <1>4, <1>5, <1>6, <1>7 DEF TypeOK
<1>9. AnchorsOnTime'
  BY <1>4 DEF AnchorsOnTime
<1> QED
  BY <1>5, <1>8, <1>9

(* Every step keeps the invariant. *)
LEMMA GridInvStep == GridInv /\ [Next]_vars => GridInv'
<1> SUFFICES ASSUME GridInv, [Next]_vars PROVE GridInv'
  OBVIOUS
<1>1. CASE Tick
  BY <1>1, TickKeeps
<1>2. ASSUME NEW j \in Jobs, JobStep(j)
      PROVE  GridInv'
  BY <1>2, BeginKeeps, ReadKeeps, WriteKeeps DEF JobStep
<1>3. ASSUME NEW j \in Jobs, JobFault(j)
      PROVE  GridInv'
  BY <1>3, FaultKeeps
<1>4. CASE UNCHANGED vars
  BY <1>4 DEF vars, clockVars, GridInv, TypeOK, JobsAtWork, AnchorsOnTime, time
<1> QED
  BY <1>1, <1>2, <1>3, <1>4 DEF Next

(* Every reachable state satisfies the invariant. *)
LEMMA GridInvariant == Spec => []GridInv
BY GridInvInit, GridInvStep, PTL DEF Spec

--------------------------------------------------------------------------------
(* One anchor, after the close. *)

(* The anchor is due five minutes after the close of its day. *)
LEMMA AnchorDueAfterClose ==
  ASSUME NEW d, NEW m, anchorDue(d, m)
  PROVE  /\ isTradingDay(d) /\ m > closeHourEt(d) * 60
         /\ m = IF isHalfDay(d) THEN 785 ELSE 965
BY HalfDayTrades DEF anchorDue, isRegularTradingDay, closeHourEt

(* Of the two anchor crons at most one acts on a day, and not before the      *)
(* close of that day: the gates isRegularTradingDay and isHalfDay exclude     *)
(* each other and a half-day of the calendar is a trading day.                *)
THEOREM AnchoredOnce == Spec => []OneAnchorAfterClose
<1>1. GridInv => OneAnchorAfterClose
  BY AnchorDueAfterClose DEF GridInv, AnchorsOnTime, OneAnchorAfterClose
<1> QED
  BY <1>1, GridInvariant, PTL

--------------------------------------------------------------------------------
(* Strikes are kept. *)

(* A write that is no anchor's, over the configuration that its job had read, *)
(* keeps every strike.                                                        *)
LEMMA StrikesKept ==
  ASSUME GridInv, [Next]_vars, NEW t \in Range(Tickers),
         config[t] # NoConfig, config'[t] # config[t], config'[t].phase # "anchor"
  PROVE  \/ BagToSet(config[t].strikes) \subseteq BagToSet(config'[t].strikes)
         \/ job[config'[t].phase].view # config[t]
<1>1. PICK j \in Jobs : defaultUpdateTickerConfigTx(j)
  BY DEF Next, vars, Tick, JobStep, JobFault, Begin, getPreviousClose, defaultReadTickerConfig,
         Skip, Stop, Errored
<1>2. job[j].stage = "write" /\ job[j].todo # {}
  BY <1>1 DEF defaultUpdateTickerConfigTx, GridInv, JobsAtWork
<1>3. config' = [config EXCEPT ![ticker(j)] = update(j, ticker(j))]
  BY <1>1 DEF defaultUpdateTickerConfigTx
<1>4. t = ticker(j) /\ config'[t] = update(j, t)
  BY <1>3 DEF GridInv, TypeOK
<1>5. t \in MAG7
  BY TickersListed
<1>6. /\ config'[t].phase = j
      /\ j # "anchor" => BagToSet(job[j].view.strikes) \subseteq BagToSet(config'[t].strikes)
  BY <1>2, <1>4, <1>5, UpdateTypes DEF GridInv
<1> QED
  BY <1>6

(* No step takes a strike out of allowed_strikes but the anchor of a new      *)
(* session, or a job that writes over an update it had not read.              *)
THEOREM StrikesStay == Spec => StrikesVanishOnlyInRace
<1>1. ASSUME GridInv, [Next]_vars
      PROVE  [\A t \in Range(Tickers) :
                config[t] # NoConfig /\ config'[t] # config[t] /\ config'[t].phase # "anchor" =>
                  \/ BagToSet(config[t].strikes) \subseteq BagToSet(config'[t].strikes)
                  \/ job[config'[t].phase].view # config[t]]_vars
  BY <1>1, StrikesKept
<1> QED
  BY <1>1, GridInvariant, PTL DEF Spec, StrikesVanishOnlyInRace

--------------------------------------------------------------------------------
(* A widened range ends.  Between the widening and the evening of the session *)
(* after the earnings date three runs narrow it: the anchor of the date, the  *)
(* anchor of the session after, and the restoration of that evening.  Each of *)
(* them that has passed with the range still wide was lost and counted.       *)

(* The minute of a job on a trading day. *)
dueMinute(j, d) == IF j # "anchor" THEN 990 ELSE IF isHalfDay(d) THEN 785 ELSE 965

(* Nothing is left to do for a ticker of the run that is due this minute. *)
RunOver(j, t) == j \notin due /\ t \notin remaining(j)

Passed(j, d, t) ==
  \/ day > d
  \/ day = d /\ time > dueMinute(j, d)
  \/ day = d /\ time = dueMinute(j, d) /\ RunOver(j, t)

one(b) == IF b THEN 1 ELSE 0

(* The session of the earnings date, and the one after it. *)
reportDay(w) == nextTradingDay(w)
dayAfter(w) == nextTradingDay(nextTradingDay(w))

LostRuns(w, t) == one(Passed("anchor", reportDay(w), t)) + one(Passed("anchor", dayAfter(w), t))
                + one(Passed("earnings", dayAfter(w), t))

WideAccounted(t) ==
  expanded(t) => /\ widened[t] \in Nat
                 /\ reportDay(widened[t]) \in EARNINGS_DATES_2026[t]
                 /\ LostRuns(widened[t], t) <= missed[t]

WideInv == \A t \in Range(Tickers) : WideAccounted(t)

(* The dates of one ticker are a quarter apart. *)
LEMMA EarningsApart ==
  ASSUME NEW t \in MAG7, NEW d \in EARNINGS_DATES_2026[t], NEW e \in EARNINGS_DATES_2026[t], d < e
  PROVE  d + 28 < e
<1>1. EARNINGS_DATES_2026[t] \in
        {{28, 120, 210, 301}, {29, 119, 210, 302}, {28, 120, 210, 302}, {49, 141, 239, 323},
         {21, 113, 204, 295}, {28, 119, 210, 302}}
  BY DEF EARNINGS_DATES_2026, MAG7, HighVol, MidVol, LowVol, Ymd, MonthStart
<1> QED
  BY <1>1

(* The sessions around an earnings date. *)
LEMMA ReportSessions ==
  ASSUME NEW w \in Nat, NEW t \in MAG7, reportDay(w) \in EARNINGS_DATES_2026[t]
  PROVE  /\ reportDay(w) \in Nat /\ dayAfter(w) \in Nat
         /\ w < reportDay(w) /\ reportDay(w) < dayAfter(w)
         /\ isTradingDay(reportDay(w)) /\ isTradingDay(dayAfter(w))
         /\ t \in tickersToRestore(dayAfter(w))
         /\ t \notin tickersToPreExpand(dayAfter(w))
<1> DEFINE e == reportDay(w)
           a == nextTradingDay(e)
           b == nextTradingDay(a)
<1>1. IsNextTradingDay(w, e)
  BY NextTradingDay DEF reportDay
<1>2. e \in Nat /\ w < e /\ isTradingDay(e)
  <2> HIDE DEF e
  <2> QED
    BY <1>1 DEF IsNextTradingDay
<1>3. IsNextTradingDay(e, a)
  <2> HIDE DEF e
  <2> QED
    BY <1>2, NextTradingDay
<1>4. a \in Nat /\ e < a /\ a <= e + 14 /\ isTradingDay(a)
  <2> HIDE DEF e, a
  <2> QED
    BY <1>2, <1>3 DEF IsNextTradingDay
<1>5. IsNextTradingDay(a, b)
  <2> HIDE DEF a
  <2> QED
    BY <1>4, NextTradingDay
<1>6. b \in Nat /\ a < b /\ b <= a + 14
  <2> HIDE DEF a, b
  <2> QED
    BY <1>4, <1>5 DEF IsNextTradingDay
<1>7. previousTradingDay(a) = e
  <2> HIDE DEF e, a
  <2> QED
    BY <1>2, <1>3, PreviousOfNext
<1>8. t \in tickersToRestore(a)
  BY <1>7 DEF tickersToRestore, tickersReportingOn
<1>9. b \notin EARNINGS_DATES_2026[t]
  <2> HIDE DEF a, b
  <2> QED
    BY <1>2, <1>4, <1>6, EarningsApart
<1>10. t \notin tickersToPreExpand(a)
  BY <1>9 DEF tickersToPreExpand, tickersReportingOn
<1>11. dayAfter(w) = a
  BY DEF dayAfter, reportDay
<1> HIDE DEF e, a
<1> QED
  BY <1>2, <1>4, <1>8, <1>10, <1>11 DEF e

(* The clock passes no run that has not been over. *)
LEMMA TickPasses ==
  ASSUME GridInv, Tick, NEW j \in {"anchor", "earnings"}, NEW d \in Nat, isTradingDay(d), NEW t,
         Passed(j, d, t)'
  PROVE  Passed(j, d, t)
<1>1. day \in Nat /\ slot \in 1..7
  BY DEF GridInv, TypeOK
<1>2. due = {} /\ remaining(j) = {}
  BY DEF Tick, remaining, idle, Jobs
<1>3. dueMinute(j, d) \in {785, 965, 990}
  BY DEF dueMinute
<1>4. day' = d /\ time' = dueMinute(j, d) => j \in due'
  <2> SUFFICES ASSUME day' = d, time' = dueMinute(j, d)
               PROVE  j \in due'
    OBVIOUS
  <2>1. due' = dueAt(day', time')
    BY DEF Tick, time
  <2>2. j = "anchor" => anchorDue(d, dueMinute(j, d))
    BY DEF anchorDue, dueMinute, isRegularTradingDay
  <2>3. j = "earnings" => earningsDue(d, dueMinute(j, d))
    BY DEF earningsDue, dueMinute
  <2> QED
    BY <2>1, <2>2, <2>3 DEF dueAt, Jobs
<1>5. day' > d \/ (day' = d /\ time' > dueMinute(j, d))
  BY <1>4 DEF Passed, RunOver
<1>6. SlotTimes = <<540, 570, 785, 965, 990, 1200, 1230>> /\ Len(SlotTimes) = 7
  BY DEF SlotTimes
<1>7. CASE slot < 7
  <2>1. slot' = slot + 1 /\ day' = day
    BY <1>6, <1>7 DEF Tick
  <2>2. time = SlotTimes[slot] /\ time' = SlotTimes[slot + 1]
    BY <2>1 DEF time
  <2>3. slot \in {1, 2, 3, 4, 5, 6}
    BY <1>1, <1>7
  <2>4. time' > dueMinute(j, d) => time >= dueMinute(j, d)
    BY <2>2, <2>3, <1>3, <1>6
  <2>5. time \in Nat
    BY <2>2, <2>3, <1>6
  <2>6. day > d \/ (day = d /\ time >= dueMinute(j, d))
    BY <2>1, <2>4, <1>5
  <2> QED
    BY <2>5, <2>6, <1>2, <1>3 DEF Passed, RunOver
<1>8. CASE slot = 7
  <2>1. slot' = 1 /\ day' = day + 1
    BY <1>6, <1>8 DEF Tick
  <2>2. time = 1230 /\ time' = 540
    BY <2>1, <1>6, <1>8 DEF time
  <2>3. day' > d
    BY <2>2, <1>3, <1>5
  <2>4. day > d \/ (day = d /\ time > dueMinute(j, d))
    BY <2>1, <2>2, <2>3, <1>1, <1>3
  <2> QED
    BY <2>4 DEF Passed
<1> QED
  BY <1>1, <1>7, <1>8

(* A job passes for a ticker in the step in which its run is over.  *)
LEMMA RunPasses ==
  ASSUME NEW j, NEW d, NEW t, UNCHANGED <<day, slot>>, Passed(j, d, t)', ~Passed(j, d, t)
  PROVE  day = d /\ time = dueMinute(j, d) /\ ~RunOver(j, t) /\ RunOver(j, t)'
BY DEF Passed, time

(* What a run that is over for a ticker, its range still wide, has cost.  A   *)
(* run the ticker must be narrowed by: every anchor, and a restoration of its *)
(* own evening.                                                               *)
Narrows(j, t) ==
  \/ j = "anchor"
  \/ j = "earnings" /\ t \in tickersToRestore(day) /\ t \notin tickersToPreExpand(day)

Counted(t) == missed'[t] = IF missed[t] < 3 THEN missed[t] + 1 ELSE missed[t]

(* The tickers left of the other jobs stay, and of this one at most the one   *)
(* at hand goes.                                                              *)
LEMMA OneLeaves ==
  ASSUME GridInv, NEW j \in Jobs, job' = [job EXCEPT ![j] = nextTicker(j)],
         NEW t \in remaining(j), t \notin remaining(j)'
  PROVE  t = ticker(j)
<1>1. PICK n \in job[j].todo : t = Tickers[n]
  BY DEF remaining
<1>2. job'[j].todo = job[j].todo \ {position(j)}
  BY NextTypes DEF GridInv, TypeOK
<1>3. n = position(j)
  BY <1>1, <1>2 DEF remaining
<1> QED
  BY <1>1, <1>3 DEF ticker

(* A step of one job leaves the runs of the others as they are. *)
LEMMA OthersStay ==
  ASSUME GridInv, NEW j \in Jobs, JobStep(j) \/ JobFault(j), NEW i \in Jobs, i # j, NEW t
  PROVE  RunOver(i, t)' = RunOver(i, t)
<1>1. job'[i] = job[i] /\ (i \in due' <=> i \in due)
  BY DEF GridInv, TypeOK, JobStep, JobFault, Begin, getPreviousClose, defaultReadTickerConfig,
         defaultUpdateTickerConfigTx, Skip, Stop, Errored
<1> QED
  BY <1>1 DEF RunOver, remaining

(* The steps that leave a wide range as it is. *)
LEMMA LossCounted ==
  ASSUME GridInv, NEW j \in Jobs, JobStep(j) \/ JobFault(j), NEW t \in Range(Tickers),
         expanded(t), ~(defaultUpdateTickerConfigTx(j) /\ t = ticker(j)),
         Narrows(j, t), ~RunOver(j, t), RunOver(j, t)'
  PROVE  Counted(t)
<1>0. t \in targets(j)
  BY DEF Narrows, targets
<1>1. CASE Begin(j)
  <2>1. PICK n \in DOMAIN Tickers : Tickers[n] = t
    BY DEF Range
  <2>2. job'[j].todo = {m \in DOMAIN Tickers : Tickers[m] \in targets(j)}
    BY <1>1 DEF Begin, GridInv, TypeOK, JobStates
  <2>3. t \in remaining(j)'
    BY <2>1, <2>2, <1>0 DEF remaining
  <2> QED
    BY <2>3 DEF RunOver
<1>2. CASE getPreviousClose(j)
  <2>1. job'[j].todo = job[j].todo /\ due' = due
    BY <1>2 DEF getPreviousClose, GridInv, TypeOK, JobStates
  <2> QED
    BY <2>1 DEF RunOver, remaining
<1>3. CASE defaultReadTickerConfig(j)
  <2>1. due' = due /\ t \in remaining(j) /\ t \notin remaining(j)'
    BY <1>3 DEF defaultReadTickerConfig, RunOver
  <2>2. job' # [job EXCEPT ![j] = [@ EXCEPT !.view = config[ticker(j)], !.stage = "write"]]
    <3> DEFINE s == [job[j] EXCEPT !.view = config[ticker(j)], !.stage = "write"]
    <3> SUFFICES ASSUME job' = [job EXCEPT ![j] = s]
                 PROVE  FALSE
      BY DEF GridInv, TypeOK
    <3>1. s.todo = job[j].todo
      BY DEF GridInv, TypeOK, JobStates
    <3> HIDE DEF s
    <3>2. job'[j].todo = job[j].todo
      BY <3>1 DEF GridInv, TypeOK
    <3> QED
      BY <2>1, <3>2 DEF remaining
  <2>3. nothingToDo(j, ticker(j)) /\ job' = [job EXCEPT ![j] = nextTicker(j)]
    BY <1>3, <2>2 DEF defaultReadTickerConfig
  <2>4. t = ticker(j)
    BY <2>1, <2>3, OneLeaves
  <2>5. j = "earnings"
    BY <1>3 DEF defaultReadTickerConfig, GridInv, JobsAtWork, Narrows
  <2>6. targetCap(j, t) = TICKER_DEFAULTS[t].cap
    BY <2>5 DEF Narrows, targetCap
  <2>7. config[t] # NoConfig /\ config[t].cap # TICKER_DEFAULTS[t].cap
    <3>1. TICKER_DEFAULTS[t].cap \in Nat
      BY DefaultTypes, TickersListed
    <3> QED
      BY <3>1 DEF expanded
  <2> QED
    BY <2>3, <2>4, <2>5, <2>6, <2>7 DEF nothingToDo
<1>4. CASE defaultUpdateTickerConfigTx(j)
  <2>1. due' = due /\ job' = [job EXCEPT ![j] = nextTicker(j)]
    BY <1>4 DEF defaultUpdateTickerConfigTx
  <2>2. t \in remaining(j) /\ t \notin remaining(j)'
    BY <2>1 DEF RunOver
  <2> QED
    BY <1>4, <2>1, <2>2, OneLeaves
<1>5. CASE Skip(j)
  BY <1>0, <1>5 DEF Skip, miss, Counted
<1>6. CASE Stop(j)
  <2>1. t \in remaining(j)
    BY <1>6 DEF Stop, RunOver
  <2> QED
    BY <1>6, <2>1 DEF Stop, miss, Counted
<1>7. CASE Errored(j)
  <2>1. due' = due /\ job' = [job EXCEPT ![j] = nextTicker(j)]
    BY <1>7 DEF Errored
  <2>2. t \in remaining(j) /\ t \notin remaining(j)'
    BY <2>1 DEF RunOver
  <2>3. t = ticker(j)
    BY <2>1, <2>2, OneLeaves
  <2> QED
    BY <1>7, <2>3 DEF Errored, miss, Counted
<1> QED
  BY <1>1, <1>2, <1>3, <1>4, <1>5, <1>6, <1>7 DEF JobStep, JobFault

(* Only a write changes a configuration, and misses are not forgotten.        *)
LEMMA RestOfTicker ==
  ASSUME GridInv, NEW j \in Jobs, JobStep(j) \/ JobFault(j), NEW t \in Range(Tickers),
         ~(defaultUpdateTickerConfigTx(j) /\ t = ticker(j))
  PROVE  config'[t] = config[t] /\ widened'[t] = widened[t] /\ missed[t] <= missed'[t]
<1>1. missed[t] \in Nat
  BY DEF GridInv, TypeOK
<1>2. CASE defaultUpdateTickerConfigTx(j)
  BY <1>1, <1>2 DEF defaultUpdateTickerConfigTx, GridInv, TypeOK
<1>3. CASE ~defaultUpdateTickerConfigTx(j)
  <2>1. config' = config /\ widened' = widened
    BY <1>3 DEF JobStep, JobFault, Begin, getPreviousClose, defaultReadTickerConfig, Skip, Stop, Errored
  <2>2. missed' = missed \/ \E ts : missed' = miss(ts)
    BY <1>3 DEF JobStep, JobFault, Begin, getPreviousClose, defaultReadTickerConfig, Skip, Stop, Errored
  <2> QED
    BY <1>1, <2>1, <2>2 DEF miss
<1> QED
  BY <1>2, <1>3

(* At most one of three runs passes in a step, and it is counted. *)
LEMMA OneRunLost ==
  ASSUME NEW p \in 0..1, NEW q \in 0..1, NEW r \in 0..1,
         NEW p2 \in 0..1, NEW q2 \in 0..1, NEW r2 \in 0..1, NEW m \in 0..3, NEW m2 \in 0..3,
         p + q + r <= m, m <= m2,
         p2 > p \/ q2 > q \/ r2 > r => m2 = IF m < 3 THEN m + 1 ELSE m,
         ~(p2 > p /\ q2 > q), ~(p2 > p /\ r2 > r), ~(q2 > q /\ r2 > r)
  PROVE  p2 + q2 + r2 <= m2
OBVIOUS

(* A step of a job keeps the account of a ticker. *)
LEMMA WideKept ==
  ASSUME GridInv, WideInv, NEW j \in Jobs, JobStep(j) \/ JobFault(j), NEW t \in Range(Tickers)
  PROVE  WideAccounted(t)'
<1> SUFFICES ASSUME expanded(t)'
             PROVE  /\ widened'[t] \in Nat
                    /\ reportDay(widened'[t]) \in EARNINGS_DATES_2026[t]
                    /\ LostRuns(widened[t], t)' <= missed'[t]
  BY DEF WideAccounted
<1>0. t \in MAG7 /\ day \in Nat /\ missed[t] \in 0..3 /\ UNCHANGED <<day, slot>>
  BY TickersListed DEF GridInv, TypeOK, JobStep, JobFault, Begin, getPreviousClose, clockVars,
       defaultReadTickerConfig, defaultUpdateTickerConfigTx, Skip, Stop, Errored
<1>1. CASE defaultUpdateTickerConfigTx(j) /\ t = ticker(j)
  <2>1. job[j].stage = "write" /\ job[j].todo # {}
    BY <1>1 DEF defaultUpdateTickerConfigTx, GridInv, JobsAtWork
  <2>2. config'[t] = update(j, t)
    BY <1>1 DEF defaultUpdateTickerConfigTx, GridInv, TypeOK
  <2>3. update(j, t).cap > TICKER_DEFAULTS[t].cap
    BY <2>2 DEF expanded
  <2>4. update(j, t).cap = IF j = "earnings" THEN targetCap(j, t) ELSE TICKER_DEFAULTS[t].cap
    BY <1>0, <2>1, UpdateTypes DEF GridInv
  <2>5. TICKER_DEFAULTS[t].cap \in Nat
    BY <1>0, DefaultTypes
  <2>6. t \in tickersToPreExpand(day)
    BY <2>3, <2>4, <2>5 DEF targetCap
  <2>7. missed'[t] = 0 /\ widened'[t] = day
    BY <1>1, <2>3 DEF defaultUpdateTickerConfigTx, GridInv, TypeOK
  <2>8. reportDay(day) \in EARNINGS_DATES_2026[t]
    BY <2>6 DEF tickersToPreExpand, tickersReportingOn, reportDay
  <2>9. PICK w \in Nat : w = day
    BY <1>0
  <2>10. /\ reportDay(w) \in Nat /\ dayAfter(w) \in Nat
         /\ w < reportDay(w) /\ reportDay(w) < dayAfter(w)
    BY <1>0, <2>8, <2>9, ReportSessions
  <2>11. /\ ~Passed("anchor", reportDay(w), t)'
         /\ ~Passed("anchor", dayAfter(w), t)'
         /\ ~Passed("earnings", dayAfter(w), t)'
    BY <1>0, <2>9, <2>10 DEF Passed
  <2>12. LostRuns(w, t)' = 0
    BY <2>11 DEF LostRuns, one
  <2>13. widened'[t] = w
    BY <2>7, <2>9
  <2>14. LostRuns(widened[t], t)' = LostRuns(w, t)'
    BY <2>13 DEF LostRuns
  <2> QED
    BY <1>0, <2>7, <2>8, <2>12, <2>14
<1>2. CASE ~(defaultUpdateTickerConfigTx(j) /\ t = ticker(j))
  <2>1. config'[t] = config[t] /\ widened'[t] = widened[t] /\ missed[t] <= missed'[t]
    BY <1>2, RestOfTicker
  <2>2. expanded(t)
    BY <2>1 DEF expanded
  <2>3. /\ widened[t] \in Nat
        /\ reportDay(widened[t]) \in EARNINGS_DATES_2026[t]
        /\ LostRuns(widened[t], t) <= missed[t]
    BY <2>2 DEF WideInv, WideAccounted
  <2>4. PICK w \in Nat : w = widened[t]
    BY <2>3
  <2> DEFINE e == reportDay(w)
             a == dayAfter(w)
  <2>5. /\ e \in Nat /\ a \in Nat /\ e < a
        /\ t \in tickersToRestore(a) /\ t \notin tickersToPreExpand(a)
    BY <1>0, <2>3, <2>4, ReportSessions
  <2> HIDE DEF e, a
  <2>6. ASSUME NEW i \in {"anchor", "earnings"}, NEW d, d = e \/ d = a, i = "earnings" => d = a,
               Passed(i, d, t)', ~Passed(i, d, t)
        PROVE  i = j /\ day = d /\ Counted(t)
    <3>1. day = d /\ ~RunOver(i, t) /\ RunOver(i, t)'
      BY <1>0, <2>6, RunPasses
    <3>2. i = j
      BY <3>1, OthersStay DEF Jobs
    <3>3. Narrows(j, t)
      BY <2>5, <2>6, <3>1, <3>2 DEF Narrows
    <3> QED
      BY <1>2, <2>2, <3>1, <3>2, <3>3, LossCounted
  <2> DEFINE p == one(Passed("anchor", e, t))
             q == one(Passed("anchor", a, t))
             r == one(Passed("earnings", a, t))
  <2>7. p \in 0..1 /\ q \in 0..1 /\ r \in 0..1 /\ p' \in 0..1 /\ q' \in 0..1 /\ r' \in 0..1
    BY DEF one
  <2>8. /\ p' > p => j = "anchor" /\ day = e /\ Counted(t)
        /\ q' > q => j = "anchor" /\ day = a /\ Counted(t)
        /\ r' > r => j = "earnings" /\ day = a /\ Counted(t)
    <3>1. p' > p => Passed("anchor", e, t)' /\ ~Passed("anchor", e, t)
      BY DEF one
    <3>2. q' > q => Passed("anchor", a, t)' /\ ~Passed("anchor", a, t)
      BY DEF one
    <3>3. r' > r => Passed("earnings", a, t)' /\ ~Passed("earnings", a, t)
      BY DEF one
    <3> HIDE DEF p, q, r
    <3> QED
      BY <2>6, <3>1, <3>2, <3>3
  <2>9. LostRuns(w, t) = p + q + r /\ LostRuns(w, t)' = p' + q' + r'
    BY DEF LostRuns, e, a
  <2>10. p + q + r <= missed[t]
    BY <2>3, <2>4, <2>9
  <2>11. p' + q' + r' <= missed'[t]
    <3>1. missed'[t] \in 0..3
      BY GridInvStep DEF GridInv, TypeOK, Next
    <3>2. /\ p' > p \/ q' > q \/ r' > r =>
               missed'[t] = IF missed[t] < 3 THEN missed[t] + 1 ELSE missed[t]
          /\ ~(p' > p /\ q' > q) /\ ~(p' > p /\ r' > r) /\ ~(q' > q /\ r' > r)
      <4> HIDE DEF p, q, r
      <4> QED
        BY <2>5, <2>8 DEF Counted
    <3> HIDE DEF p, q, r
    <3> QED
      BY <1>0, <2>1, <2>7, <2>10, <3>1, <3>2, OneRunLost
  <2>12. LostRuns(widened[t], t)' = LostRuns(w, t)'
    BY <2>1, <2>4 DEF LostRuns
  <2> QED
    BY <2>1, <2>3, <2>9, <2>11, <2>12
<1> QED
  BY <1>1, <1>2

(* As the clock goes on, a run that is due is counted among those to come.    *)
LEMMA WideTick ==
  ASSUME GridInv, WideInv, Tick, NEW t \in Range(Tickers)
  PROVE  WideAccounted(t)'
<1>1. config' = config /\ missed' = missed /\ widened' = widened
  BY DEF Tick
<1>2. CASE ~expanded(t)
  BY <1>1, <1>2 DEF expanded, WideAccounted
<1>3. CASE expanded(t)
  <2>1. /\ widened[t] \in Nat
        /\ reportDay(widened[t]) \in EARNINGS_DATES_2026[t]
        /\ LostRuns(widened[t], t) <= missed[t]
    BY <1>3 DEF WideInv, WideAccounted
  <2>2. PICK w \in Nat : w = widened[t]
    BY <2>1
  <2>3. /\ reportDay(w) \in Nat /\ dayAfter(w) \in Nat
        /\ isTradingDay(reportDay(w)) /\ isTradingDay(dayAfter(w))
    BY <2>1, <2>2, ReportSessions, TickersListed
  <2>4. /\ Passed("anchor", reportDay(w), t)' => Passed("anchor", reportDay(w), t)
        /\ Passed("anchor", dayAfter(w), t)' => Passed("anchor", dayAfter(w), t)
        /\ Passed("earnings", dayAfter(w), t)' => Passed("earnings", dayAfter(w), t)
    BY <2>3, TickPasses
  <2>5. LostRuns(w, t)' <= LostRuns(w, t)
    BY <2>4 DEF LostRuns, one
  <2>6. LostRuns(w, t)' \in Nat /\ LostRuns(w, t) \in Nat
    BY DEF LostRuns, one
  <2>7. LostRuns(widened[t], t)' = LostRuns(w, t)' /\ LostRuns(widened[t], t) = LostRuns(w, t)
    BY <1>1, <2>2 DEF LostRuns
  <2>8. missed[t] \in Nat
    BY DEF GridInv, TypeOK
  <2> QED
    BY <1>1, <2>1, <2>5, <2>6, <2>7, <2>8 DEF WideAccounted
<1> QED
  BY <1>2, <1>3

(* No range is widened in the beginning. *)
LEMMA WideInvInit == Init => WideInv
BY DEF Init, WideInv, WideAccounted, expanded

(* Every step accounts for every widened range. *)
LEMMA WideInvStep == GridInv /\ WideInv /\ [Next]_vars => WideInv'
<1> SUFFICES ASSUME GridInv, WideInv, [Next]_vars, NEW t \in Range(Tickers)
             PROVE  WideAccounted(t)'
  BY DEF WideInv
<1>1. CASE Tick
  BY <1>1, WideTick
<1>2. CASE \E j \in Jobs : JobStep(j) \/ JobFault(j)
  BY <1>2, WideKept
<1>3. CASE UNCHANGED vars
  <2>1. UNCHANGED <<day, slot, config, due, job, missed, widened>>
    BY <1>3 DEF vars, clockVars
  <2>2. WideAccounted(t)
    BY DEF WideInv
  <2>3. WideAccounted(t)' = WideAccounted(t)
    BY <2>1 DEF WideAccounted, expanded, LostRuns, Passed, RunOver, remaining, time
  <2> QED
    BY <2>2, <2>3
<1> QED
  BY <1>1, <1>2, <1>3 DEF Next

(* The account leaves a wide range no later evening than the one it ends on.  *)
LEMMA WideEnds == GridInv /\ WideInv => ExpandedCapEnds
<1> SUFFICES ASSUME GridInv, WideInv, NEW t \in Range(Tickers), expanded(t), missed[t] < 3
             PROVE  \/ day < dayAfter(widened[t])
                    \/ day = dayAfter(widened[t]) /\ time <= 990
  BY DEF ExpandedCapEnds, dayAfter
<1>1. /\ widened[t] \in Nat
      /\ reportDay(widened[t]) \in EARNINGS_DATES_2026[t]
      /\ LostRuns(widened[t], t) <= missed[t]
  BY DEF WideInv, WideAccounted
<1> DEFINE e == reportDay(widened[t])
           a == dayAfter(widened[t])
<1>2. e \in Nat /\ a \in Nat /\ e < a
  BY <1>1, ReportSessions, TickersListed
<1>3. ~Passed("anchor", e, t) \/ ~Passed("anchor", a, t) \/ ~Passed("earnings", a, t)
  <2>1. missed[t] \in 0..2
    BY DEF GridInv, TypeOK
  <2> QED
    BY <1>1, <2>1 DEF LostRuns, one
<1> HIDE DEF e, a
<1>4. day \in Nat /\ time \in Nat
  BY SlotsRun DEF GridInv, TypeOK, time
<1>5. dueMinute("anchor", e) <= 990 /\ dueMinute("anchor", a) <= 990 /\ dueMinute("earnings", a) = 990
  BY DEF dueMinute
<1>6. dueMinute("anchor", e) \in Nat /\ dueMinute("anchor", a) \in Nat
  BY DEF dueMinute
<1> QED
  BY <1>2, <1>3, <1>4, <1>5, <1>6 DEF Passed, a

(* A range widened for an earnings date is narrowed by the evening of the     *)
(* session after it, unless each of the two anchors and the restoration that  *)
(* narrow it was skipped, stopped or refused (earnings-evolution.ts,          *)
(* grid-evolution.ts and their crons).                                        *)
THEOREM WideRangeEnds == Spec => []ExpandedCapEnds
BY GridInvInit, GridInvStep, WideInvInit, WideInvStep, WideEnds, PTL DEF Spec

--------------------------------------------------------------------------------
(* The nudger of the settlement job. *)

Phases == {"off", "listing", "next", "attempt", "sleep", "anchor"}

Statuses == {"none", "settled", "exhausted", "non-retriable-error"}

(* The type invariant of the run; tried and spent are times. *)
RunTypeOK ==
  /\ expired \subseteq Markets
  /\ settled \subseteq Markets
  /\ feed \in [Markets -> Feeds]
  /\ phase \in Phases
  /\ expiredAtRun \subseteq Markets /\ listed \subseteq Markets /\ runs \in Nat
  /\ open \subseteq Markets /\ current \subseteq Markets
  /\ tried \in Nat /\ spent \in Nat
  /\ status \in [Markets -> Statuses]

(* The run sleeps only when the sleep ends before the deadline. *)
SleepFits == phase = "sleep" => tried + INTERVAL < DEADLINE

(* Inside the loop every listed market is still to come, at hand or reported. *)
Accounted ==
  /\ phase \in {"next", "attempt", "sleep", "anchor"} =>
       \A m \in listed : m \in open \/ m \in current \/ status[m] # "none"
  /\ phase \notin {"attempt", "sleep"} => current = {}
  /\ phase = "anchor" => open = {}

(* One market at a time. *)
OneAtHand == \A m, n \in current : m = n

RunInv ==
  /\ RunTypeOK /\ SleepFits /\ Accounted /\ OneAtHand
  /\ SettledReportTrue /\ WindowKept

(* A nudger that has not run yet. *)
LEMMA RunInit ==
  ASSUME NudgerInit
  PROVE  RunInv
<1> USE NudgerAssumption DEF NudgerAssumption
<1>1. RunTypeOK
  BY DEF NudgerInit, RunTypeOK, Phases, Statuses, Feeds
<1>2. SettledReportTrue /\ WindowKept /\ SleepFits
  BY DEF NudgerInit, SettledReportTrue, WindowKept, SleepFits
<1>3. Accounted /\ OneAtHand
  BY DEF NudgerInit, Accounted, OneAtHand
<1> QED
  BY <1>1, <1>2, <1>3 DEF RunInv

(* An attempt: the transaction lands or not, and the reply is lost or not.    *)
LEMMA AttemptStep ==
  ASSUME RunInv, NEW m \in Markets, Attempt(m)
  PROVE  RunInv'
<1>0. INTERVAL \in Nat /\ INTERVAL > 0 /\ DEADLINE \in Nat
  BY NudgerAssumption DEF NudgerAssumption
<1>1. PICK took \in 0..1, landed \in BOOLEAN :
        \E reply \in {"timeout", "unconfirmed"}
                       \cup (IF landed THEN {settle_market(m)} ELSE {}) :
          /\ tried' = tried + took
          /\ spent' = spent + took
          /\ settled' = IF landed /\ settle_market(m) = "ok"
                        THEN settled \cup {m} ELSE settled
          /\ IF ~defaultShouldRetry(reply) THEN Report(m, Reported(reply))
             ELSE IF WindowUsed(tried') THEN Report(m, "exhausted")
             ELSE phase' = "sleep" /\ UNCHANGED <<status, current>>
  BY DEF Attempt
<1>2. PICK reply \in {"timeout", "unconfirmed"}
                       \cup (IF landed THEN {settle_market(m)} ELSE {}) :
          /\ tried' = tried + took
          /\ spent' = spent + took
          /\ settled' = IF landed /\ settle_market(m) = "ok"
                        THEN settled \cup {m} ELSE settled
          /\ IF ~defaultShouldRetry(reply) THEN Report(m, Reported(reply))
             ELSE IF WindowUsed(tried') THEN Report(m, "exhausted")
             ELSE phase' = "sleep" /\ UNCHANGED <<status, current>>
  BY <1>1
<1>3. /\ phase = "attempt" /\ m \in current /\ tried < DEADLINE
      /\ UNCHANGED <<expired, feed, expiredAtRun, listed, runs, open>>
  BY DEF Attempt, listVars
<1>4. /\ RunTypeOK /\ SettledReportTrue /\ Accounted /\ OneAtHand
  BY DEF RunInv
<1>5. \/ /\ status' = [status EXCEPT ![m] = Reported(reply)]
         /\ current' = {} /\ phase' = "next"
      \/ /\ status' = [status EXCEPT ![m] = "exhausted"]
         /\ current' = {} /\ phase' = "next"
      \/ /\ ~WindowUsed(tried')
         /\ phase' = "sleep" /\ UNCHANGED <<status, current>>
  BY <1>2 DEF Report, AfterMarket
<1>6. settled \subseteq settled' /\ settled' \subseteq Markets
  BY <1>2, <1>4 DEF RunTypeOK
<1>7. Reported(reply) \in Statuses \ {"none"}
  BY DEF Reported, Statuses
<1>8. RunTypeOK'
  <2>1. tried' \in Nat /\ spent' \in Nat
    BY <1>2, <1>4 DEF RunTypeOK
  <2>2. status' \in [Markets -> Statuses]
    BY <1>4, <1>5, <1>7 DEF RunTypeOK, Statuses
  <2>3. phase' \in Phases /\ current' \subseteq Markets
    BY <1>4, <1>5 DEF RunTypeOK, Phases
  <2> QED
    BY <1>3, <1>4, <1>6, <2>1, <2>2, <2>3 DEF RunTypeOK
<1>9. SettledReportTrue'
  <2>1. Reported(reply) = "settled" => m \in settled'
    BY <1>2 DEF Reported
  <2>2. ASSUME NEW n \in Markets, status'[n] = "settled" PROVE n \in settled'
    <3>1. CASE n = m /\ status' = [status EXCEPT ![m] = Reported(reply)]
      BY <1>4, <2>1, <2>2, <3>1 DEF RunTypeOK
    <3>2. CASE status'[n] = status[n]
      BY <1>4, <1>6, <2>2, <3>2 DEF SettledReportTrue
    <3>3. CASE n = m /\ status' = [status EXCEPT ![m] = "exhausted"]
      BY <1>4, <2>2, <3>3 DEF RunTypeOK
    <3> QED
      BY <1>4, <1>5, <3>1, <3>2, <3>3 DEF RunTypeOK
  <2> QED
    BY <2>2 DEF SettledReportTrue
<1>10. WindowKept'
  BY <1>0, <1>2, <1>3, <1>4 DEF RunTypeOK, WindowKept
<1>11. SleepFits'
  <2>1. tried' \in Nat
    BY <1>8 DEF RunTypeOK
  <2>2. phase' = "sleep" => ~WindowUsed(tried')
    BY <1>5
  <2>3. ASSUME NEW now \in Nat, ~WindowUsed(now) PROVE now + INTERVAL < DEADLINE
    BY <1>0, <2>3 DEF WindowUsed
  <2> QED
    BY <2>1, <2>2, <2>3 DEF SleepFits
<1>12. Accounted'
  <2>1. \A n \in current : n = m
    BY <1>3, <1>4 DEF OneAtHand
  <2>2. ASSUME NEW n \in listed
        PROVE  n \in open \/ n \in current' \/ status'[n] # "none"
    <3>1. n \in open \/ n \in current \/ status[n] # "none"
      BY <1>3, <1>4 DEF Accounted
    <3>2. n \in Markets
      BY <1>4 DEF RunTypeOK
    <3>3. \A s : status' = [status EXCEPT ![m] = s]
             => status'[n] = IF n = m THEN s ELSE status[n]
      BY <1>4, <3>2 DEF RunTypeOK
    <3> QED
      BY <1>5, <1>7, <2>1, <3>1, <3>3
  <2> QED
    BY <1>3, <1>5, <2>2 DEF Accounted
<1>13. OneAtHand'
  BY <1>4, <1>5 DEF OneAtHand
<1> QED
  BY <1>8, <1>9, <1>10, <1>11, <1>12, <1>13 DEF RunInv

(* Every other step of the run, of the scheduler and of the chain.            *)
LEMMA RunNext ==
  ASSUME RunInv, [NudgerNext]_nudgerVars
  PROVE  RunInv'
<1>0. INTERVAL \in Nat /\ INTERVAL > 0 /\ DEADLINE \in Nat
  BY NudgerAssumption DEF NudgerAssumption
<1> USE DEF RunInv, RunTypeOK, SettledReportTrue, WindowKept, SleepFits, Accounted, OneAtHand,
            chainVars, listVars, loopVars
<1>1. ASSUME NEW m \in Markets, Expire(m) PROVE RunInv'
  BY <1>1 DEF Expire
<1>2. ASSUME NEW m \in Markets, OthersSettle(m) PROVE RunInv'
  BY <1>2 DEF OthersSettle
<1>3. ASSUME NEW m \in Markets, NEW f \in Feeds, FeedTurns(m, f) PROVE RunInv'
  BY <1>3 DEF FeedTurns
<1>4. CASE Fire
  BY <1>4 DEF Fire, Due, Phases
<1>5. CASE ListOpenMarkets
  BY <1>5 DEF ListOpenMarkets, Phases, Statuses
<1>6. CASE Throw
  BY <1>6 DEF Throw, Phases
<1>7. ASSUME NEW m \in Markets, NextMarket(m) PROVE RunInv'
  BY <1>0, <1>7 DEF NextMarket, Phases
<1>8. ASSUME NEW m \in Markets, Attempt(m) PROVE RunInv'
  BY <1>8, AttemptStep
<1>9. ASSUME NEW m \in Markets, GiveUp(m) PROVE RunInv'
  BY <1>9 DEF GiveUp, Report, AfterMarket, Phases, Statuses
<1>10. CASE Sleep
  BY <1>0, <1>10 DEF Sleep, Phases
<1>11. CASE EndLoop
  BY <1>11 DEF EndLoop, Phases
<1>12. CASE Anchor
  BY <1>12 DEF Anchor, Phases
<1>13. CASE StopRun
  BY <1>13 DEF StopRun, Phases
<1>14. CASE UNCHANGED nudgerVars
  BY <1>14 DEF nudgerVars
<1> QED
  BY <1>1, <1>2, <1>3, <1>4, <1>5, <1>6, <1>7, <1>8, <1>9, <1>10, <1>11, <1>12, <1>13, <1>14
     DEF NudgerNext, Run

(* Every reachable state satisfies the invariant of the run. *)
THEOREM RunInvariant == NudgerSpec => []RunInv
<1>1. NudgerInit => RunInv
  BY RunInit
<1>2. RunInv /\ [NudgerNext]_nudgerVars => RunInv'
  BY RunNext
<1> QED
  BY <1>1, <1>2, PTL DEF NudgerSpec

(* No market holds the loop past its deadline: neither a late sleep nor a     *)
(* slow attempt passes it.                                                    *)
THEOREM WindowKeptCorrect == NudgerSpec => []WindowKept
<1>1. RunInv => WindowKept
  BY DEF RunInv
<1> QED
  BY <1>1, RunInvariant, PTL

(* The summary of a run is true and whole: a market reported as settled has   *)
(* an outcome on chain, whichever replies were lost and whoever else settled  *)
(* meanwhile, and when the loop is over every listed market has its row.      *)
THEOREM SummaryHoldsCorrect == NudgerSpec => []SummaryHolds
<1>1. RunInv => SummaryHolds
  BY DEF RunInv, Accounted, SummaryHolds, AllReported
<1> QED
  BY <1>1, RunInvariant, PTL
================================================================================
