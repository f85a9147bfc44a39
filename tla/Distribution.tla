------------------------------ MODULE Distribution -----------------------------
(******************************************************************************)
(* Closing a leaderboard period (indexer/distribute.ts, indexer/              *)
(* distribute-v2.ts, metric-leaderboards.ts, arweave.ts, jobs/distribute.ts,  *)
(* scripts/run-distribute-once.ts): rank the users, build the Merkle tree,    *)
(* archive it, store the snapshot, commit the root on chain and pay the       *)
(* positions one by one.  Every step that waits is an action; in between the  *)
(* tables change, other attempts at the same period run, the run throws and   *)
(* is retried from the start, or it is stopped.                               *)
(*                                                                            *)
(* Weekly and monthly periods share no row and no chain entry, so a behaviour *)
(* follows one kind.  Only rows of the current period are kept: no run reads  *)
(* or writes those of another.                                                *)
(******************************************************************************)
EXTENDS Calendar, FiniteSets, FiniteSetsExt, Functions, MerkleTree

CONSTANTS
  Wallets,           \* wallets with rows in the tables
  Tables,            \* contents the tables may have when a query runs
  Pools,             \* pool balances, in cents, a caller of the library may read
  TOP_N,             \* positions per metric: 10
  Ranked,            \* metrics version 2 ranks: all four
  Days,              \* the days on which runs are modelled
  MaxAttempts,       \* bound on the attempts at one period
  None               \* a null column

ASSUME DistributionAssumption ==
  /\ IsFiniteSet(Wallets)
  /\ Pools \subseteq Nat
  /\ TOP_N \in 1..10
  /\ Ranked \subseteq 0..3 /\ Ranked # {}
  /\ Days \subseteq 7..350 /\ Days # {}
  /\ MaxAttempts \in Nat \ {0}

METRIC_ABSOLUTE_PROFIT == 0
METRIC_WIN_STREAK == 1
METRIC_WIN_RATE == 2
METRIC_ROI == 3
Metrics == METRIC_ABSOLUTE_PROFIT .. METRIC_ROI

DEFAULT_DISTRIBUTION_BPS == <<2500, 1800, 1200, 1000, 800, 700, 600, 500, 500, 400>>

DEFAULT_METRIC_POOL_SPLIT_BPS == [m \in Metrics |->
  CASE m = METRIC_ABSOLUTE_PROFIT -> 6000 [] m = METRIC_WIN_STREAK -> 2000
    [] m = METRIC_WIN_RATE -> 1500 [] m = METRIC_ROI -> 500]

ASSUME SplitsWhole ==
  /\ FoldLeft(+, 0, DEFAULT_DISTRIBUTION_BPS) = 10000
  /\ SumSet({DEFAULT_METRIC_POOL_SPLIT_BPS[m] : m \in Metrics}) = 10000

WIN_RATE_MIN_TRADES == 20
BITS_PER_METRIC == 8

VARIABLES
  kind,     \* the kind of period this behaviour follows
  day,      \* the clock
  due,      \* whether the cron of today has still to fire
  attempts, \* attempts begun at the current period
  run,      \* the attempts: their stage and what they have read
  snapshot, \* leaderboard_snapshots row of the period
  rows,     \* distributions rows of the snapshot, by position
  ring,     \* roots committed on chain for the period, oldest first
  paid      \* history: what the chain has paid for the period, in base units

dbVars == <<snapshot, rows>>
payoutVars == <<ring, paid>>
distributeVars == <<kind, day, due, attempts, run, dbVars, payoutVars>>

Kinds == {"weekly", "monthly"}
Attempts == 1..MaxAttempts

(* An attempt that has read nothing yet. *)
attempt(stage, caller, version, period) ==
  [stage |-> stage, caller |-> caller, version |-> version, period |-> period,
   top |-> None, pool |-> 0, sig |-> None, at |-> 1]

unstarted == attempt("none", None, 0, None)

finished == attempt("done", None, 0, None)

fivePmEt(d) == d * MINUTES_PER_DAY + 1020 + utcOffset(d)

cronDue(k, d) ==
  /\ Weekday(d) = 5
  /\ IF k = "weekly" THEN isTradingDay(d) ELSE isLastTradingFridayOfMonth(d)

noRuns == [i \in Attempts |-> unstarted]
noRows == [p \in 1..TOP_N |-> None]

DistributeInit ==
  /\ kind \in Kinds /\ day = Min(Days) /\ due = cronDue(kind, Min(Days))
  /\ attempts = 0 /\ run = noRuns
  /\ snapshot = None /\ rows = noRows
  /\ ring = <<>> /\ paid = 0

Ended == {"none", "done", "failed"}

(* A run lasts ten minutes at most, so none is left at the end of a day; the  *)
(* attempts and rows of a period that is over are forgotten.                  *)
Tick ==
  /\ day < Max(Days) /\ ~due
  /\ \A i \in Attempts : run[i].stage \in Ended
  /\ day' = Min({d \in Days : d > day})
  /\ due' = cronDue(kind, day')
  /\ IF periodForDate(fivePmEt(day), kind) = periodForDate(fivePmEt(day'), kind)
     THEN UNCHANGED <<attempts, run, dbVars, payoutVars>>
     ELSE /\ attempts' = 0 /\ run' = noRuns /\ snapshot' = None /\ rows' = noRows
          /\ ring' = <<>> /\ paid' = 0
  /\ UNCHANGED kind

--------------------------------------------------------------------------------
(* Who runs it.  The crons and the operator's script use version 1 with a     *)
(* zero pool and without a chain client, so what they would send is refused   *)
(* by a stub; a caller of the exported functions may choose all three.        *)

Start(caller, version) ==
  /\ attempts < MaxAttempts
  /\ attempts' = attempts + 1
  /\ run' = [run EXCEPT ![attempts + 1] =
               attempt("top", caller, version, periodForDate(fivePmEt(day), kind))]
  /\ UNCHANGED <<kind, day, dbVars, payoutVars>>

Fire == due /\ due' = FALSE /\ Start("cron", 1)

Miss == due /\ due' = FALSE /\ UNCHANGED <<kind, day, attempts, run, dbVars, payoutVars>>

runDistributeOnce == Start("script", 1) /\ UNCHANGED due

CallLibrary ==
  /\ \E v \in {1, 2} : Start("library", v)
  /\ UNCHANGED due

(* The scheduler runs a task that threw again, from the start. *)
RetryTask(i) ==
  /\ run[i].stage = "failed"
  /\ run[i].caller = "cron"
  /\ attempts < MaxAttempts
  /\ attempts' = attempts + 1
  /\ run' = [run EXCEPT ![i] = finished,
                        ![attempts + 1] = attempt("top", "cron", 1, run[i].period)]
  /\ UNCHANGED <<kind, day, due, dbVars, payoutVars>>

live(i) == run[i].caller = "library"

At(i, stage) == run[i].stage = stage

Goto(i, stage) == run' = [run EXCEPT ![i].stage = stage]

(* A query or the upload throws; version 2 swallows errors of the last loop. *)
Throw(i) ==
  /\ run[i].stage \in {"top", "pool", "upload", "snapshot", "resnapshot"}
                        \union (IF run[i].version = 1 THEN {"record"} ELSE {})
  /\ run' = [run EXCEPT ![i] =
                IF run[i].caller # "cron" THEN finished
                ELSE attempt("failed", "cron", 0, run[i].period)]
  /\ UNCHANGED <<kind, day, due, attempts, dbVars, payoutVars>>

Stop(i) ==
  /\ run[i].stage \notin Ended
  /\ run' = [run EXCEPT ![i] = finished]
  /\ UNCHANGED <<kind, day, due, attempts, dbVars, payoutVars>>

--------------------------------------------------------------------------------
(* Rankings. *)

qualifies(metric, r) ==
  CASE metric = METRIC_ABSOLUTE_PROFIT -> r.won > 0
    [] metric = METRIC_WIN_STREAK -> r.streak > 0
    [] metric = METRIC_WIN_RATE -> r.trades >= WIN_RATE_MIN_TRADES
    [] metric = METRIC_ROI -> FALSE

ranksBefore(metric, r, s) ==
  CASE metric = METRIC_ABSOLUTE_PROFIT -> r.won > s.won
    [] metric = METRIC_WIN_STREAK ->
         r.streak > s.streak \/ (r.streak = s.streak /\ r.traded > s.traded)
    [] metric = METRIC_WIN_RATE ->
         \/ r.wins * s.trades > s.wins * r.trades
         \/ r.wins * s.trades = s.wins * r.trades /\ r.trades > s.trades
    [] OTHER -> FALSE

(* What a query may answer: the best users in order.  Ties come in any order, *)
(* and version 1 shuffles them once more.                                     *)
rankings(metric, table) ==
  LET entered == {u \in Wallets : qualifies(metric, table[u])}
      n == Min({TOP_N, Cardinality(entered)})
  IN {top \in [1..n -> entered] :
        /\ \A i, j \in 1..n : i # j => top[i] # top[j]
        /\ \A i \in 1..n, u \in entered :
             ranksBefore(metric, table[u], table[top[i]]) => \E j \in 1 .. i - 1 : top[j] = u}

(* The metrics a version ranks.  Version 1 files the streak ranking under the *)
(* metric of absolute profit.                                                 *)
metricsOf(version) == IF version = 1 THEN {METRIC_ABSOLUTE_PROFIT} ELSE Ranked

rankedBy(version, metric) == IF version = 1 THEN METRIC_WIN_STREAK ELSE metric

answers(version, metric) == UNION {rankings(rankedBy(version, metric), t) : t \in Tables}

(* The queries of version 2 run in parallel and may each see other tables. *)
ReadTop(i) ==
  /\ At(i, "top")
  /\ LET asked == metricsOf(run[i].version)
     IN \E top \in [asked -> UNION {answers(run[i].version, m) : m \in asked}] :
          /\ \A m \in asked : top[m] \in answers(run[i].version, m)
          /\ run' = [run EXCEPT ![i] = [@ EXCEPT !.stage = "pool", !.top = top]]
  /\ UNCHANGED <<kind, day, due, attempts, dbVars, payoutVars>>

ReadPool(i) ==
  /\ At(i, "pool")
  /\ \E p \in IF live(i) THEN Pools ELSE {0} :
       run' = [run EXCEPT ![i] = [@ EXCEPT !.stage = "upload", !.pool = p]]
  /\ UNCHANGED <<kind, day, due, attempts, dbVars, payoutVars>>

--------------------------------------------------------------------------------
(* Amounts and the tree. *)

(* Dollars are cut to a ten-thousandth of a cent's hundredth, then rounded to *)
(* the cent; a cent is 10000 base units.                                      *)
positionAmountBase(pool, rank) ==
  LET share == (pool * DEFAULT_DISTRIBUTION_BPS[rank]) \div 100
  IN ((share + 50) \div 100) * 10000

metricBalanceCents(pool, metric) == (pool * DEFAULT_METRIC_POOL_SPLIT_BPS[metric]) \div 10000

assignAmount(pool, metric, rank) ==
  metricBalanceCents(pool, metric) * DEFAULT_DISTRIBUTION_BPS[rank]

(* hashLeaf and hashLeafV2 hash different fields in a different order. *)
leafOf(r, metric, rank, user) ==
  [format |-> r.version, recipient |-> user, rank |-> rank,
            metric |-> IF r.version = 1 THEN 0 ELSE metric,
            period |-> r.period.id,
            amount |-> IF r.version = 1 THEN positionAmountBase(r.pool, rank)
                       ELSE assignAmount(r.pool, metric, rank)]

hashLeafOf(r, metric, rank, user) == leafNode(leafOf(r, metric, rank, user))

(* The lists of the metrics one after the other.                              *)
inMetricOrder(lists) ==
  lists[METRIC_ABSOLUTE_PROFIT] \o lists[METRIC_WIN_STREAK]
    \o lists[METRIC_WIN_RATE] \o lists[METRIC_ROI]

(* Every position of the metrics that are ranked, in the order of payment.    *)
placesOf(r) ==
  inMetricOrder([m \in Metrics |->
    IF m \in DOMAIN r.top THEN [k \in 1..TOP_N |-> <<m, k>>] ELSE <<>>])

(* Those that have a winner, in the order of the leaves.                      *)
leafPlaces(r) ==
  inMetricOrder([m \in Metrics |->
    IF m \in DOMAIN r.top THEN [k \in DOMAIN r.top[m] |-> <<m, k>>] ELSE <<>>])

treeLayers(r) ==
  LET places == leafPlaces(r)
  IN buildSortedPairTreeLayers(
       [n \in DOMAIN places |->
          hashLeafOf(r, places[n][1], places[n][2], r.top[places[n][1]][places[n][2]])])

merkleRoot(r) == IF leafPlaces(r) = <<>> THEN None ELSE rootOf(treeLayers(r))

proofFor(r, metric, rank) ==
  generateSortedPairProof(treeLayers(r),
    (CHOOSE n \in DOMAIN leafPlaces(r) : leafPlaces(r)[n] = <<metric, rank>>) - 1)

(* The archive accepts the payload, or without a wallet a stub names it. *)
uploadLeaderboardToArweave(i) ==
  /\ At(i, "upload")
  /\ Goto(i, "snapshot")
  /\ UNCHANGED <<kind, day, due, attempts, dbVars, payoutVars>>

--------------------------------------------------------------------------------
(* The snapshot row and the commitment. *)

coalesce(new, old) == IF new = None THEN old ELSE new

(* Inserting over a row replaces its root and signature and nothing else. *)
insertSnapshot(i) ==
  /\ run[i].stage \in {"snapshot", "resnapshot"}
  /\ LET r == run[i]
         board == [top |-> r.top, pool |-> r.pool, version |-> r.version, period |-> r.period]
     IN snapshot' =
          IF snapshot = None
          THEN [root |-> merkleRoot(r), sig |-> r.sig, board |-> board]
          ELSE [snapshot EXCEPT !.root = coalesce(merkleRoot(r), @), !.sig = coalesce(r.sig, @)]
  /\ Goto(i, IF At(i, "resnapshot") \/ merkleRoot(run[i]) = None THEN "pay" ELSE "commit")
  /\ UNCHANGED <<kind, day, due, attempts, rows, payoutVars>>

amountAt(r, place) ==
  leafOf(r, place[1], place[2], r.top[place[1]][place[2]]).amount

totalOf(r) ==
  LET places == Range(leafPlaces(r))
  IN SumFunctionOnSet([p \in places |-> amountAt(r, p)], places)

landCommit(i) ==
  Append(ring, [root |-> merkleRoot(run[i]), claimed |-> {}, by |-> i, pool |-> run[i].pool * 10000,
                total |-> totalOf(run[i])])

(* The live adapter answers with an error for whatever it caught, also when   *)
(* the transaction landed and only its confirmation was lost.                 *)
commitLeaderboardRoot(i) ==
  /\ At(i, "commit")
  /\ \E landed, answered \in BOOLEAN :
       /\ landed => live(i)
       /\ answered => landed
       /\ ring' = IF landed THEN landCommit(i) ELSE ring
       /\ run' = [run EXCEPT ![i] = [@ EXCEPT !.stage = IF answered THEN "resnapshot" ELSE "pay",
                                             !.sig = IF answered THEN i ELSE None]]
  /\ UNCHANGED <<kind, day, due, attempts, dbVars, paid>>

--------------------------------------------------------------------------------
(* Paying the positions. *)

metricAt(i) == placesOf(run[i])[run[i].at][1]

rankAt(i) == placesOf(run[i])[run[i].at][2]

hasWinner(i) == rankAt(i) \in DOMAIN run[i].top[metricAt(i)]

winner(i) == run[i].top[metricAt(i)][rankAt(i)]

positions(i) == Len(placesOf(run[i]))

nextPosition(i) ==
  IF run[i].at = positions(i) THEN finished
  ELSE [run[i] EXCEPT !.stage = "pay", !.at = @ + 1, !.sig = None]

(* Mutant: the program finds the newest root of the period. *)
foundEntry_Newest(entries) == Len(entries)

(* The program finds the oldest root of the period. *)
foundEntry(entries) == 1

(* distribute_weekly_rewards and distribute_monthly_rewards: the leaf is      *)
(* computed from the arguments in the format of version 2.                    *)
accepts(i) ==
  LET leaf == hashLeafOf(run[i], metricAt(i), rankAt(i), winner(i))
  IN /\ ring # <<>>
     /\ leaf.leaf.amount > 0
     /\ rankAt(i) <= BITS_PER_METRIC
     /\ leaf.leaf.format = 2
     /\ verifyLeafProof(leaf, proofFor(run[i], metricAt(i), rankAt(i)), ring[foundEntry(ring)].root)
     /\ <<metricAt(i), rankAt(i)>> \notin ring[foundEntry(ring)].claimed

distributeRewards(i) ==
  /\ At(i, "pay")
  /\ hasWinner(i)
  /\ \E landed, answered \in BOOLEAN :
       /\ landed => live(i) /\ accepts(i)
       /\ answered => landed
       /\ ring' = IF landed
                  THEN [ring EXCEPT ![foundEntry(ring)].claimed = @ \union {<<metricAt(i), rankAt(i)>>}]
                  ELSE ring
       /\ paid' = IF landed THEN paid + hashLeafOf(run[i], metricAt(i), rankAt(i), winner(i)).leaf.amount
                  ELSE paid
       /\ run' = [run EXCEPT ![i] =
                    IF ~answered /\ run[i].version = 2 THEN nextPosition(i)
                    ELSE [@ EXCEPT !.stage = "record", !.sig = IF answered THEN i ELSE None]]
  /\ UNCHANGED <<kind, day, due, attempts, dbVars>>

(* A second row of a position changes its signature only. *)
insertDistribution(i) ==
  /\ At(i, "record") \/ (At(i, "pay") /\ ~hasWinner(i))
  /\ LET row == IF hasWinner(i)
                THEN [user |-> winner(i), sig |-> run[i].sig,
                      proof |-> proofFor(run[i], metricAt(i), rankAt(i))]
                ELSE [user |-> None, sig |-> None, proof |-> None]
     IN rows' = [rows EXCEPT ![rankAt(i)] =
                   IF @ = None THEN row ELSE [@ EXCEPT !.sig = coalesce(row.sig, @)]]
  /\ run' = [run EXCEPT ![i] = nextPosition(i)]
  /\ UNCHANGED <<kind, day, due, attempts, snapshot, payoutVars>>

(* Version 2 carries on when the row cannot be written. *)
lostRow(i) ==
  /\ run[i].version = 2
  /\ At(i, "record") \/ (At(i, "pay") /\ ~hasWinner(i))
  /\ run' = [run EXCEPT ![i] = nextPosition(i)]
  /\ UNCHANGED <<kind, day, due, attempts, dbVars, payoutVars>>

RunStep(i) ==
  \/ ReadTop(i) \/ ReadPool(i) \/ uploadLeaderboardToArweave(i) \/ insertSnapshot(i)
  \/ commitLeaderboardRoot(i) \/ distributeRewards(i) \/ insertDistribution(i) \/ lostRow(i)

DistributeNext ==
  \/ Tick \/ Fire \/ Miss \/ runDistributeOnce \/ CallLibrary
  \/ \E i \in Attempts : RetryTask(i) \/ Throw(i) \/ Stop(i) \/ RunStep(i)

DistributeSpec == DistributeInit /\ [][DistributeNext]_distributeVars

--------------------------------------------------------------------------------
(* Properties. *)

(* A run closes the period its day lies in, and the periods of one kind tile  *)
(* the calendar: the next one starts at the instant this one ends, and until  *)
(* the last hour it is this one that is named, across the changes of the      *)
(* clock.  The last hour is the exception of a month that ends on the morning *)
(* the clock is set back: isEtDst answers for the whole day (periods.ts).     *)
PeriodsTile ==
  \A i \in Attempts : run[i].period # None =>
    LET p == run[i].period
    IN /\ p.start <= fivePmEt(day) /\ fivePmEt(day) < p.end
       /\ periodForDate(p.end, kind).start = p.end
       /\ periodForDate(p.end - 61, kind) = p

(* The proofs an attempt sends along are those the program recomputes: of the *)
(* attempt whose root was committed first no payment to a winner not yet paid *)
(* is refused, whoever else ran, provided its rank has a bit and its amount   *)
(* is above zero (merkle-v2.ts against the program's verify_merkle_proof).    *)
OwnRootPays ==
  \A i \in Attempts :
    /\ At(i, "pay") /\ hasWinner(i) /\ run[i].version = 2
    /\ rankAt(i) <= BITS_PER_METRIC
    /\ assignAmount(run[i].pool, metricAt(i), rankAt(i)) > 0
    /\ ring # <<>> /\ ring[1].by = i
    /\ <<metricAt(i), rankAt(i)>> \notin ring[1].claimed
    => accepts(i)

(* However often a period is committed and paid, by whichever attempts and    *)
(* with whatever answers lost, the chain pays each leaf of the first root at  *)
(* most once and nothing else, and never more than the balance that was read  *)
(* for it (distribute-v2.ts, distribute_weekly_rewards.rs).  The leaves of    *)
(* version 1, whose shares are rounded to the cent, may come to more; none is *)
(* ever paid.                                                                 *)
PaidWithinPool ==
  /\ ring = <<>> => paid = 0
  /\ ring # <<>> => paid <= ring[1].total /\ paid <= ring[1].pool
================================================================================
