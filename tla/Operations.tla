------------------------------- MODULE Operations ------------------------------
(******************************************************************************)
(* The operator's scripts (services/automation/scripts, jobs/morning.ts): the *)
(* demo mint is created, the configuration is moved to it, the reward pools   *)
(* are bound to it again, strikes are created and seeded with pairs and a     *)
(* ladder of orders, a test trade is made.  Nothing schedules them: any may   *)
(* be run at any time, beside others, and run again after it threw or was     *)
(* stopped.  Each awaited read and each transaction is a step; a transaction  *)
(* may land and be reported as an error all the same.                         *)
(*                                                                            *)
(* Money is counted in half dollars and YES in lots of 50, so that one lot at *)
(* a price of p cents costs p; pairs are counted in lots too.  Only the admin *)
(* signs, the program is not paused and nothing settles while scripts run.    *)
(******************************************************************************)
EXTENDS StrikeGrid, Functions, SequencesExt

CONSTANTS
  Mints,        \* mints the demo script may create
  Circle,       \* the first mint, whose mint authority is not the admin
  Spots,        \* prices the feed may answer
  Instants,     \* hours at which scripts run
  Days,         \* --expiry-days given
  Scripts,      \* the scripts run
  STRIKE_OFFSETS_PCT,   \* --strike-offsets given, <<0, 3, -3>> by default
  ORDER_LADDER_BIDS, ORDER_LADDER_ASKS,   \* the rungs, in cents
  MaxRuns       \* bound on the runs of one behaviour

ASSUME OperationsAssumption ==
  /\ Circle \notin Mints
  /\ Spots \subseteq Nat \ {0}
  /\ Instants \subseteq Nat /\ Instants # {}
  /\ Days \subseteq 1..7
  /\ STRIKE_OFFSETS_PCT \in Seq(-99..99) /\ STRIKE_OFFSETS_PCT # <<>>
  /\ ORDER_LADDER_BIDS \in Seq(1..50) /\ ORDER_LADDER_ASKS \in Seq(51..99)
  /\ \A ladder \in {ORDER_LADDER_BIDS, ORDER_LADDER_ASKS} :
       ladder # <<>> /\ IsInjective(ladder)
  /\ MaxRuns \in Nat \ {0}

MAX_EXPIRY_HORIZON_HOURS == 7 * 24
ET_4PM_UTC_HOUR_EDT == 20

MINT_PAIR_LOTS == 4
TOP_UP_TO == 600
TRADE_PRICE == 55
Prices == Range(ORDER_LADDER_BIDS) \union Range(ORDER_LADDER_ASKS)

VARIABLES
  now,      \* the hour
  created,  \* mints created
  usdcMint, \* MarketConfig.usdc_mint
  poolMint, \* the mint of the two reward pools
  funded,   \* whether a reward pool holds anything
  markets,  \* strike markets: strike and expiry to account
  usd,      \* the admin's balance of each mint
  yes,      \* the admin's YES lots of each market
  seedings, \* history: runs that have begun to seed each market, and trades on it
  steady,   \* history: the run that has looked, if no other has moved since
  run       \* the runs, in the order they were begun

poolVars == <<usdcMint, poolMint, funded>>
marketVars == <<markets, usd, yes, seedings>>
vars == <<now, created, poolVars, marketVars, run, steady>>

(* The program as it was deployed, or after it was moved to a demo mint. *)
Init ==
  /\ now = Min(Instants)
  /\ created \in {{}} \union {{m} : m \in Mints}
  /\ usdcMint \in created \union {Circle}
  /\ poolMint = usdcMint /\ funded = FALSE
  /\ markets = <<>> /\ yes = <<>> /\ seedings = <<>>
  /\ usd = [m \in Mints \union {Circle} |-> 0]
  /\ run = <<>> /\ steady = {}

Tick ==
  /\ \E h \in Instants : h > now /\ now' = h
  /\ UNCHANGED <<created, poolVars, marketVars, run>>

--------------------------------------------------------------------------------
(* What the program accepts. *)

HasMarket(k) == k \in DOMAIN markets

canCreate(k, mint) ==
  /\ ~HasMarket(k)
  /\ mint = usdcMint
  /\ now < k[2] /\ k[2] - now <= MAX_EXPIRY_HORIZON_HOURS

newMarket(mint) ==
  [mint |-> mint, book |-> "none", pairs |-> 0, usdcEscrow |-> 0, yesEscrow |-> 0,
   bids |-> [p \in Prices |-> 0], asks |-> [p \in Prices |-> 0]]

canInit(k, mint) == HasMarket(k) /\ markets[k].book = "none" /\ mint = usdcMint

canGrow(k) == HasMarket(k) /\ markets[k].book # "none"

(* The pools and the vault must be of the configured mint too. *)
canMint(k, mint) ==
  /\ HasMarket(k)
  /\ mint = usdcMint /\ poolMint = mint /\ markets[k].mint = mint
  /\ usd[mint] >= 2 * 50 * MINT_PAIR_LOTS

bestAsk(k) == Min({p \in Prices : markets[k].asks[p] > 0} \union {100})

bestBid(k) == Max({p \in Prices : markets[k].bids[p] > 0} \union {0})

(* Each fill needs the payout account of its maker. *)
canPlace(k, mint, side, p, makers) ==
  /\ HasMarket(k) /\ markets[k].book = "open"
  /\ mint = usdcMint /\ markets[k].mint = mint
  /\ IF side = "bid" THEN usd[mint] >= p /\ (bestAsk(k) <= p => makers > 0)
                     ELSE yes[k] >= 1 /\ (bestBid(k) >= p => makers > 0)

(* The admin is the maker of every order here: a bid that crosses pays the    *)
(* admin and leaves it with the lot of the best ask.                          *)
placed(k, side, p) ==
  LET m == markets[k]
  IN IF side = "bid" /\ bestAsk(k) <= p
     THEN [m EXCEPT !.asks[bestAsk(k)] = @ - 1, !.yesEscrow = @ - 1]
     ELSE IF side = "bid" THEN [m EXCEPT !.bids[p] = @ + 1, !.usdcEscrow = @ + p]
     ELSE [m EXCEPT !.asks[p] = @ + 1, !.yesEscrow = @ + 1]

--------------------------------------------------------------------------------
(* Runs. *)

(* What a script reads from its command line, and the mint the environment    *)
(* of the operator names: the last one created, or Circle's.                  *)
newRun(script, mint, days) ==
  [script |-> script, mint |-> mint, expiry |-> (now \div 24 + days) * 24 + ET_4PM_UTC_HOUR_EDT,
   at |-> "begin", todo |-> <<>>, seen |-> FALSE, ladder |-> 1, paired |-> FALSE, clean |-> TRUE]

Begin ==
  /\ Len(run) < MaxRuns
  /\ \E script \in Scripts, mint \in created \union {Circle}, days \in Days :
       run' = Append(run, newRun(script, mint, IF script = "morning" THEN 1 ELSE days))
  /\ UNCHANGED <<now, created, poolVars, marketVars>>

At(i, script, step) == run[i].script = script /\ run[i].at = step

Ended == {"done", "failed"}

To(i, step) == run' = [run EXCEPT ![i].at = step]

(* Every await of a script may throw, and the operator may stop it; a throw   *)
(* while one strike is seeded gives up that strike, see giveStrikeUp.         *)
Fail(i) ==
  /\ run[i].at \notin Ended
  /\ To(i, "failed")
  /\ UNCHANGED <<now, created, poolVars, marketVars>>

(* Whether a transaction lands and whether its sender is told so. *)
Answers(allowed) ==
  {a \in [landed : BOOLEAN, told : BOOLEAN] : (a.landed => allowed) /\ (a.told => a.landed)}

--------------------------------------------------------------------------------
(* The mint and the pools. *)

(* Every run creates another mint. *)
createBusdcMint(i) ==
  /\ At(i, "create-busdc-mint", "begin")
  /\ \E m \in Mints \ created : created' = created \union {m}
  /\ To(i, "done")
  /\ UNCHANGED <<now, poolVars, marketVars>>

mintDemoUsdc(i) ==
  /\ At(i, "mint-demo-usdc", "begin")
  /\ run[i].mint # Circle
  /\ usd' = [usd EXCEPT ![run[i].mint] = @ + 100]
  /\ To(i, "done")
  /\ UNCHANGED <<now, created, poolVars, markets, yes, seedings>>

readConfig(i) ==
  /\ At(i, "update-usdc-mint", "begin")
  /\ To(i, IF usdcMint = run[i].mint THEN "done" ELSE "send")
  /\ UNCHANGED <<now, created, poolVars, marketVars>>

updateUsdcMint(i) ==
  /\ At(i, "update-usdc-mint", "send")
  /\ \E a \in Answers(TRUE) :
       /\ usdcMint' = IF a.landed THEN run[i].mint ELSE usdcMint
       /\ To(i, IF a.told THEN "verify" ELSE "failed")
  /\ UNCHANGED <<now, created, poolMint, funded, marketVars>>

verifyMint(i) ==
  /\ At(i, "update-usdc-mint", "verify")
  /\ To(i, IF usdcMint = run[i].mint THEN "done" ELSE "failed")
  /\ UNCHANGED <<now, created, poolVars, marketVars>>

(* The mint read here is the one the transaction names. *)
readPools(i) ==
  /\ At(i, "reinit-rewards-pools", "begin")
  /\ run' = [run EXCEPT ![i].mint = usdcMint,
               ![i].at = IF poolMint = usdcMint THEN "done" ELSE IF funded THEN "failed" ELSE "send"]
  /\ UNCHANGED <<now, created, poolVars, marketVars>>

reinitRewardsPools(i) ==
  /\ At(i, "reinit-rewards-pools", "send")
  /\ \E a \in Answers(run[i].mint = usdcMint /\ ~funded) :
       /\ poolMint' = IF a.landed THEN run[i].mint ELSE poolMint
       /\ To(i, IF a.told THEN "verify" ELSE "failed")
  /\ UNCHANGED <<now, created, usdcMint, funded, marketVars>>

verifyPools(i) ==
  /\ At(i, "reinit-rewards-pools", "verify")
  /\ To(i, IF poolMint = run[i].mint THEN "done" ELSE "failed")
  /\ UNCHANGED <<now, created, poolVars, marketVars>>

(* A fee, or anybody, puts something into a pool; a payout empties it. *)
PoolChanges ==
  /\ funded' = ~funded
  /\ UNCHANGED <<now, created, usdcMint, poolMint, marketVars, run>>

--------------------------------------------------------------------------------
(* Creating strikes. *)

strikeForOffset(spot, pct) == roundDiv(spot * (100 + pct), 100)

(* The strikes of the offsets in order, a repeated one left out. *)
seedStrikes(spot) ==
  LET all == [o \in DOMAIN STRIKE_OFFSETS_PCT |-> strikeForOffset(spot, STRIKE_OFFSETS_PCT[o])]
  IN [n \in 1 .. Cardinality(Range(all)) |->
        all[CHOOSE o \in DOMAIN all :
              /\ \A q \in 1 .. o - 1 : all[q] # all[o]
              /\ Cardinality({all[q] : q \in 1..o}) = n]]

(* Both scripts ask the feed for a price and make the list of strikes. *)
getPreviousClose(i) ==
  /\ run[i].script \in {"seed-demo-liquidity", "morning"} /\ run[i].at = "begin"
  /\ \E spot \in Spots :
       LET strikes == IF run[i].script = "morning" THEN SetToSortSeq(computeStrikesForStock(spot), <)
                      ELSE seedStrikes(spot)
       IN run' = [run EXCEPT ![i].todo = strikes,
                             ![i].at = IF run[i].script = "morning" THEN "create" ELSE "look"]
  /\ UNCHANGED <<now, created, poolVars, marketVars>>

key(i) == <<Head(run[i].todo), run[i].expiry>>

(* The next strike, after this one was seeded, skipped or given up. *)
next(i) ==
  LET rest == Tail(run[i].todo)
      first == IF run[i].script = "morning" THEN "create" ELSE "look"
  IN [run[i] EXCEPT !.todo = rest, !.at = IF rest = <<>> THEN "done" ELSE first,
                    !.seen = FALSE, !.ladder = 1, !.paired = FALSE, !.clean = TRUE]

createsMarket(i, landed) ==
  LET with(f, v) == IF landed THEN [k \in DOMAIN f \union {key(i)} |-> IF k = key(i) THEN v ELSE f[k]]
                    ELSE f
  IN /\ markets' = with(markets, newMarket(run[i].mint))
     /\ yes' = with(yes, 0)
     /\ seedings' = with(seedings, 0)

(* The morning job sends without looking, notes an error and goes on. *)
sendCreateStrikeMarket(i) ==
  /\ At(i, "morning", "create")
  /\ \E a \in Answers(canCreate(key(i), run[i].mint)) : createsMarket(i, a.landed)
  /\ run' = [run EXCEPT ![i] = next(i)]
  /\ UNCHANGED <<now, created, poolVars, usd>>

--------------------------------------------------------------------------------
(* Seeding one strike.  A throw before the pairs are minted gives the strike  *)
(* up; later errors are noted.                                                *)

Seeding(i, step) == At(i, "seed-demo-liquidity", step)

Seed(i, step) == run' = [run EXCEPT ![i].at = step]

lookForMarket(i) ==
  /\ Seeding(i, "look")
  /\ run' = [run EXCEPT ![i].at = "create", ![i].seen = HasMarket(key(i))]
  /\ UNCHANGED <<now, created, poolVars, marketVars>>

createStrikeMarket(i) ==
  /\ Seeding(i, "create")
  /\ IF run[i].seen
     THEN Seed(i, "lookBook") /\ UNCHANGED marketVars
     ELSE /\ \E a \in Answers(canCreate(key(i), run[i].mint)) :
               /\ createsMarket(i, a.landed)
               /\ run' = [run EXCEPT ![i] = IF a.told THEN [@ EXCEPT !.at = "lookBook"] ELSE next(i)]
          /\ UNCHANGED usd
  /\ UNCHANGED <<now, created, poolVars>>

(* Mutant: a market that exists is taken to have its book. *)
lookForBook_Market(i) ==
  /\ Seeding(i, "lookBook")
  /\ run' = [run EXCEPT ![i].at = "init", ![i].seen = @ \/ markets[key(i)].book # "none"]
  /\ UNCHANGED <<now, created, poolVars, marketVars>>

lookForBook(i) ==
  /\ Seeding(i, "lookBook")
  /\ run' = [run EXCEPT ![i].at = "init", ![i].seen = markets[key(i)].book # "none"]
  /\ UNCHANGED <<now, created, poolVars, marketVars>>

(* A step that changes the account of the market and is not caught. *)
onMarket(i, allowed, after, step) ==
  \E a \in Answers(allowed) :
    /\ markets' = IF a.landed THEN [markets EXCEPT ![key(i)] = after] ELSE markets
    /\ run' = [run EXCEPT ![i] = IF a.told THEN [@ EXCEPT !.at = step] ELSE next(i)]

initOrderBook(i) ==
  /\ Seeding(i, "init")
  /\ IF run[i].seen THEN Seed(i, "grow") /\ UNCHANGED markets
     ELSE onMarket(i, canInit(key(i), run[i].mint), [markets[key(i)] EXCEPT !.book = "init"], "grow")
  /\ UNCHANGED <<now, created, poolVars, usd, yes, seedings>>

growOrderBook(i) ==
  /\ Seeding(i, "grow")
  /\ onMarket(i, canGrow(key(i)), [markets[key(i)] EXCEPT !.book = "open"], "topUp")
  /\ UNCHANGED <<now, created, poolVars, usd, yes, seedings>>

(* An account that cannot be read or made gives the strike up, not the run.   *)
giveStrikeUp(i) ==
  /\ Seeding(i, "look") \/ Seeding(i, "lookBook") \/ Seeding(i, "topUp")
  /\ run' = [run EXCEPT ![i] = next(i)]
  /\ UNCHANGED <<now, created, poolVars, marketVars>>

(* --skip-place-orders. *)
skipPlaceOrders(i) ==
  /\ Seeding(i, "topUp")
  /\ run' = [run EXCEPT ![i] = next(i)]
  /\ UNCHANGED <<now, created, poolVars, marketVars>>

(* Only the authority of the mint can top up. *)
topUp(i) ==
  /\ Seeding(i, "topUp")
  /\ LET mint == run[i].mint
     IN \/ /\ usd[mint] >= TOP_UP_TO
           /\ Seed(i, "mint") /\ UNCHANGED usd
        \/ /\ usd[mint] < TOP_UP_TO
           /\ \E a \in Answers(mint # Circle) :
                /\ usd' = IF a.landed THEN [usd EXCEPT ![mint] = TOP_UP_TO] ELSE usd
                /\ run' = [run EXCEPT ![i] = IF a.told THEN [@ EXCEPT !.at = "mint"] ELSE next(i)]
  /\ seedings' = [seedings EXCEPT ![key(i)] = @ + 1]
  /\ UNCHANGED <<now, created, poolVars, markets, yes>>

mintPair(i) ==
  /\ Seeding(i, "mint")
  /\ \E a \in Answers(canMint(key(i), run[i].mint)) :
       /\ markets' = IF a.landed THEN [markets EXCEPT ![key(i)].pairs = @ + MINT_PAIR_LOTS] ELSE markets
       /\ yes' = IF a.landed THEN [yes EXCEPT ![key(i)] = @ + MINT_PAIR_LOTS] ELSE yes
       /\ usd' = IF a.landed THEN [usd EXCEPT ![run[i].mint] = @ - 100 * MINT_PAIR_LOTS] ELSE usd
       /\ run' = [run EXCEPT ![i].at = "bids", ![i].paired = a.told, ![i].clean = a.told]
  /\ UNCHANGED <<now, created, poolVars, seedings>>

(* One order: its effect, and the next rung whether it was taken or not. *)
placeOrder(i, side, p, makers, after) ==
  \E a \in Answers(canPlace(key(i), run[i].mint, side, p, makers)) :
    LET k == key(i)
        crossed == side = "bid" /\ bestAsk(k) <= p
    IN /\ markets' = IF a.landed THEN [markets EXCEPT ![k] = placed(k, side, p)] ELSE markets
       /\ usd' = IF a.landed /\ side = "bid" /\ ~crossed
                 THEN [usd EXCEPT ![run[i].mint] = @ - p] ELSE usd
       /\ yes' = IF ~a.landed THEN yes
                 ELSE [yes EXCEPT ![k] = IF crossed THEN @ + 1 ELSE IF side = "ask" THEN @ - 1 ELSE @]
       /\ run' = [run EXCEPT ![i] = [after EXCEPT !.clean = @ /\ a.told]]

(* Mutant: an order that is refused is not noted. *)
placeBids_Silent(i) ==
  /\ Seeding(i, "bids")
  /\ LET n == run[i].ladder
         after == IF n < Len(ORDER_LADDER_BIDS) THEN [run[i] EXCEPT !.ladder = n + 1]
                  ELSE [run[i] EXCEPT !.ladder = 1, !.at = IF run[i].paired THEN "asks" ELSE "report"]
     IN \/ placeOrder(i, "bid", ORDER_LADDER_BIDS[n], 0, after)
        \/ run' = [run EXCEPT ![i] = after] /\ UNCHANGED <<markets, usd, yes>>
  /\ UNCHANGED <<now, created, poolVars, seedings>>

placeBids(i) ==
  /\ Seeding(i, "bids")
  /\ LET n == run[i].ladder
         after == IF n < Len(ORDER_LADDER_BIDS) THEN [run[i] EXCEPT !.ladder = n + 1]
                  ELSE [run[i] EXCEPT !.ladder = 1, !.at = IF run[i].paired THEN "asks" ELSE "report"]
     IN placeOrder(i, "bid", ORDER_LADDER_BIDS[n], 0, after)
  /\ UNCHANGED <<now, created, poolVars, seedings>>

placeAsks(i) ==
  /\ Seeding(i, "asks")
  /\ LET n == run[i].ladder
         after == IF n < Len(ORDER_LADDER_ASKS) THEN [run[i] EXCEPT !.ladder = n + 1] ELSE [run[i] EXCEPT !.at = "report"]
     IN placeOrder(i, "ask", ORDER_LADDER_ASKS[n], 0, after)
  /\ UNCHANGED <<now, created, poolVars, seedings>>

reportStrike(i) ==
  /\ Seeding(i, "report")
  /\ run' = [run EXCEPT ![i] = next(i)]
  /\ UNCHANGED <<now, created, poolVars, marketVars>>

(* The test trade bids at the lowest ask of the ladder, with its one maker. *)
testTrade(i) ==
  /\ At(i, "test-trade", "begin")
  /\ \E k \in DOMAIN markets :
       \E a \in Answers(canPlace(k, run[i].mint, "bid", TRADE_PRICE, 1)) :
         LET crossed == bestAsk(k) <= TRADE_PRICE
         IN /\ markets' = IF a.landed THEN [markets EXCEPT ![k] = placed(k, "bid", TRADE_PRICE)] ELSE markets
            /\ usd' = IF a.landed /\ ~crossed THEN [usd EXCEPT ![run[i].mint] = @ - TRADE_PRICE] ELSE usd
            /\ yes' = IF a.landed /\ crossed THEN [yes EXCEPT ![k] = @ + 1] ELSE yes
            /\ seedings' = [seedings EXCEPT ![k] = @ + 1]
  /\ To(i, "done")
  /\ UNCHANGED <<now, created, poolVars>>

SeedStep(i) ==
  \/ getPreviousClose(i) \/ sendCreateStrikeMarket(i) \/ lookForMarket(i) \/ createStrikeMarket(i)
  \/ lookForBook(i) \/ initOrderBook(i) \/ growOrderBook(i) \/ giveStrikeUp(i)
  \/ skipPlaceOrders(i) \/ topUp(i)
  \/ mintPair(i) \/ placeBids(i) \/ placeAsks(i) \/ reportStrike(i) \/ testTrade(i)

MintStep(i) ==
  \/ createBusdcMint(i) \/ mintDemoUsdc(i) \/ readConfig(i) \/ updateUsdcMint(i) \/ verifyMint(i)
  \/ readPools(i) \/ reinitRewardsPools(i) \/ verifyPools(i)

Next ==
  \/ (Tick \/ Begin \/ PoolChanges) /\ UNCHANGED steady
  \/ \E i \in DOMAIN run :
       /\ Fail(i) \/ SeedStep(i) \/ MintStep(i)
       /\ steady' = IF run[i].at \in {"look", "lookBook"} THEN {i} ELSE steady \intersect {i}

Spec == Init /\ [][Next]_vars

--------------------------------------------------------------------------------
(* Properties. *)

(* verify-seeded-market: the book has one order on each rung, escrows   *)
(* hold what the orders cost and the vault what was minted.                   *)
verifySeededMarket(k) ==
  LET m == markets[k]
  IN /\ \A p \in Range(ORDER_LADDER_BIDS) : m.bids[p] = 1
     /\ \A p \in Range(ORDER_LADDER_ASKS) : m.asks[p] = 1
     /\ m.usdcEscrow = SumFunction(ORDER_LADDER_BIDS)
     /\ m.yesEscrow = Len(ORDER_LADDER_ASKS)
     /\ m.pairs = MINT_PAIR_LOTS

(* A market that one run has seeded, and nothing else touched, passes the     *)
(* verification script when that run reports no error (seed-demo-liquidity.ts *)
(* against verify-seeded-market.ts).                                          *)
CleanSeedVerifies ==
  \A i \in DOMAIN run :
    Seeding(i, "report") /\ run[i].clean /\ seedings[key(i)] = 1 => verifySeededMarket(key(i))

agree(i) == run[i].mint = usdcMint /\ (HasMarket(key(i)) => markets[key(i)].mint = usdcMint)

(* Whatever other runs left behind when they threw or were stopped, a run     *)
(* beside which nothing moves and which names the configured mint is never    *)
(* refused while it creates the market and its book (the checks before each   *)
(* step of seed-demo-liquidity.ts, for fewer than seven days).                *)
ResumesAfterStop ==
  \A i \in DOMAIN run :
    run[i].script = "seed-demo-liquidity" /\ run[i].todo # <<>> /\ i \in steady /\ agree(i) =>
      /\ Seeding(i, "create") /\ ~run[i].seen /\ run[i].expiry - now < 7 * 24 /\ now < run[i].expiry
           => canCreate(key(i), run[i].mint)
      /\ Seeding(i, "init") /\ ~run[i].seen => canInit(key(i), run[i].mint)
      /\ Seeding(i, "grow") => canGrow(key(i))
================================================================================
