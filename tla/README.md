# BellMarkets: a TLA+ verification project

BellMarkets sells daily yes/no contracts on the closing price of seven stocks.
A Solana program (`src/programs/bell-markets`) holds the money: it mints one YES
and one NO token for every dollar locked in a vault, runs an order book for the
YES token, settles each strike from a Pyth price or by an admin ruling, and pays
the winning side.  Around it, scheduled TypeScript jobs
(`src/services/automation`) keep each ticker's strike grid, create the day's
strikes, nudge settlement, index the results into user streaks and pay weekly
and monthly rewards; a web client (`src/apps/web`) signs users in, tells them
what happened and builds their transactions; scripts seed and verify markets.

This directory models the parts that carry state, model-checks them on small
instances with TLC, and proves the safety results of all of them with TLAPS for
every value of the constants: the collateral market, the order book and the page
that trades on it, the reward ring and the runs that pay from it, the ticker grid,
the scripts, the indexer, the nudger and the services.  Of the market it also
proves that it implements an abstract promise of its collateral.

## 1. Inventory

| part | state | operations | hard because | correct when |
|---|---|---|---|---|
| strike market and collateral (`mint_pair`, `redeem*`, `force_redeem`, `close_settled_market`) | vault, YES/NO supply and balances, `pairs_outstanding` | mint, four ways out, close | anyone may transfer, burn or donate tokens between any two instructions | vault covers every claim, pays only for burned tokens, closes owing nothing |
| mint fee (`mint_pair`, `update_fee_config`) | `UserConfig` volumes, fee record, three sinks | decay, tier lookup, rebate, three-way split | rounding, lazily applied decay, a record that changes under the minters | tier volume costs the full fee |
| settlement on chain (`settle_market`, `admin_settle`) | outcome, `settle_price`, `settled_at_unix` | oracle path, admin path | two writers race; the override instant is computed at creation from a delay that changes later | written once, and readable as who wrote it |
| administration (`pause`, `update_usdc_mint`, `update_fee_config`, `update_admin_override_delay_secs`) | `MarketConfig`, `FeeConfig` | setters | they fall between any two steps of a user | withdrawals of orders stay open, collateral keeps its promise |
| order book (`matching.rs`, `place_order`, `cancel_order`, `match_orders`, `init_order_book`, `grow_order_book`) | two sorted sides, two escrows, `next_seq` | place, cancel, crank, two-step creation | plan/settle/apply on static indices, rounding per fill, fill and slot limits | escrow equals what orders can claim, price-time priority, orders always withdrawable |
| trading page and builders (`trade-view.tsx`, its hooks, `lib/tx`, `lib/solana/order-book.ts`) | what was read once, what awaits a signature or a block | read, decide, sign, broadcast, land | everything is decided on what the chain was | the plan is what the program matches, one side at a time, bundles whole |
| leaderboard and payout (`commit_leaderboard_root`, `distribute_*_rewards`, `reinit_rewards_pools`) | ring of 24 roots with claim bitmaps, two pools | commit, pay | ring wrap, duplicate commits | nobody is paid twice for one rank, no unit lost |
| distribution cron (`indexer/distribute*.ts`, `merkle*.ts`, `periods.ts`, `metric-leaderboards.ts`) | snapshots, distributions, the root on chain | rank, build, archive, store, commit, pay | retries and overlapping runs rank anew on other tables; answers are lost; clock changes | periods tile, own proofs pass, pools share out once |
| settlement nudger (`jobs/settlement.ts`, `lib/retry.ts`) | the list read once, the market at hand, two clocks | list, settle, sleep, give up, anchor | markets one after the other in a job of bounded duration, lost replies, strangers settling meanwhile | reports are true, healthy markets get settled |
| ticker grid (`grid-evolution.ts`, `earnings-evolution.ts`, `ticker-config.ts`, `calendar.ts`) | `TickerConfig` of each ticker, jobs of one slot | anchor, wild swing, widen, restore | read, then write over whatever landed between; holidays, half-days | one anchor after the close, no strike vanishes, caps come back |
| morning job and scripts (`jobs/morning.ts`, `scripts/*.ts`) | mint, pools, markets, books, orders | create, initialise, grow, mint, ladder, verify | runs overlap, throw and stop between transactions that may have landed | a rerun resumes, a clean seed verifies |
| indexer (`helius-webhook.ts`, `settle-event-handler.ts`, `db/queries.ts`) | events, holds, streaks | handle a settle event | redelivery, reordering, concurrent requests, crash between any two writes | what is acknowledged is counted, each result once, streaks coherent |
| accounts (`auth/options.ts`, `users/upsert`, `use-ensure-user.ts`, `use-link-sign-in.ts`) | user rows, links, cookies, session, tabs | connect, sign, sign in, rename | tabs share cookies, rows are read before other awaits | links only by the signer, chosen handles kept, answers shown to their wallet |
| notifications (`web-push.ts`, `discord-bot.ts`, `use-notification-prefs.ts`) | subscriptions, login, cached preferences | send, expire, log in, toggle | batches and callers overlap; optimistic updates | gone endpoints dropped, one login, page true when quiet |
| billing (`helio/route.ts`, `store.ts`, `use-bell-pro-subscription.ts`) | one row per wallet, cached rows | purchase, cancel, deliver, poll | late, repeated, reordered events | paid features only in a paid period |
| briefings (`ai/*.ts`, `gen-briefings.ts`, `gen-pnl-digest.ts`, the route) | classifications, briefings, the CDN's copy | classify, generate, serve | passes with and without the key overlap and stop; caches | stubs leave the work, bounded staleness |

Parts with no state of their own (other pages, Phoenix layout checks, deployment
programs) are listed in `PROJECT.json` with the reason they are left out.

## 2. Modules

| module | models |
|---|---|
| `FeeMath` | tier rate, rebate, decay, fee split and parameter validation as operators |
| `Oracle` | the staleness and confidence gates of a reading, the outcome rule, the strike deviation and tick rules |
| `Market` | one strike market from creation to the closing of its vault: 27 variables, one action per instruction, plus the SPL Token moves of holders as external actions |
| `CollateralPromise` | the abstract specification `Market` implements: a verdict, a reserve, two kinds of claims |
| `OrderMath`, `OrderBook` | `bid_cost_ceil` and `fill_usdc`; both sides of the book, both escrows, the instructions that change them |
| `TradeClient` | the trading page of one trader composed with `OrderBook`: queries, the submit panel, signing, broadcasting, landing |
| `Leaderboard` | the ring of committed roots with claim bitmaps, both reward pools and the mint they are bound to |
| `Calendar` | the 2026 trading calendar, Eastern time, weekly and monthly periods, as operators |
| `StrikeGrid` | strike grids, drift, expansion, the earnings tables, as operators |
| `GridEvolution` | the anchor, wild-swing and earnings jobs that keep each ticker's account |
| `MerkleTree` | the sorted-pair tree and its proofs on symbolic hashes |
| `Distribution` | attempts at closing a period, of both versions, with the root and claims on chain |
| `Operations` | the operator's scripts and the morning job on the program's accounts |
| `Indexer` | settle events, holder rows and user streaks under concurrent, repeated and failing webhook requests, each awaited write an action |
| `SettlementNudger` | the daily job that settles expired markets one by one with a retry window each, under a scheduler that stops and retries runs |
| `Accounts`, `Notifications`, `Billing`, `Briefings` | the services around the markets, each on its own variables |
| `Services` | the four side by side |
| `MarketProofs`, `LeaderboardProofs`, `OperationsProofs`, `ServicesProofs` | theorems about the module each is named for: `MarketProofs` also about `CollateralPromise`, `ServicesProofs` about all four parts of `Services` |
| `OrderBookProofs` | theorems about `OrderBook` and about `TradeClient`, which extends it |
| `IndexerProofs` | theorems about the two services of the indexer: `Indexer` and `Distribution` with `MerkleTree` and `Calendar` |
| `JobProofs` | theorems about the jobs `GridEvolution` and `SettlementNudger` |
| `SumTheorems` | what the sum of a finite function and the weight of a sequence do under an update, an insertion, a removal, for the proofs about money and counts |
| `MC*` | the small instances TLC checks |

### How the modules read the code

A Solana instruction runs alone on the accounts it writes, and a failed
`require!`, account constraint or inner transfer undoes all of it.  So **each
instruction is one action**, its guard is the conjunction of its account
constraints and checks, and a failing call is no step.  What interleaves is
instructions of different signers, which is where the hazards are.

*Market.*  `Operational` is the accounts struct shared by every collateral
instruction (`paused`, `has_one = usdc_mint`, vault of the config's mint).
`MintPair` contains the decay of the caller's `UserConfig`, the tier and rebate,
the fee split and the six transfers and mints in one action, as the handler
does.  `FromVault` and `PayOut` are the vault transfer and the
`pairs_outstanding` decrement the four redeem paths share; `BurnWinning` is
`select_winning_side`.  `Tick` is the cluster clock.  `donated` is a history
variable: USDC sent to the vault by a plain token transfer.

*OrderBook.*  `plan_fills` and the crank's sweep are recursive functions that
merge planning with applying, since both happen inside one instruction:
emptied makers leave the side at once instead of being removed at the end, and
the best of what remains is the next index of the code.  `FillBest` and
`Fillable` are one round of the taker's walk and its condition, `TradeBests` one
crossed pair of the crank, `find_order_index` the search of a cancellation and
`remove_order` the removal both share.  `paused`,
`mintCurrent` and `settled` stand for the rest of the program.

*Leaderboard.*  A Merkle root is the set of leaves it commits; a proof is
membership.  `nth`, `commits` and `payments` are history variables.

*Indexer.*  Here nothing is atomic but a single SQL statement.  `handleSettleEvent`
is cut at every await: insert the event, fetch the holders, then for each holder
the row and the streak.  Any number of `Requests` run at once, each may fail
wherever it is, and what it wrote stays.  `applyResultToUserStreak` is one
`INSERT ... ON CONFLICT DO UPDATE`, so it is one step.  `applied` is a history
variable: how often an event was added to a streak.

*SettlementNudger.*  The job's local variables are the model's: `open` is the list
still to be walked, `current` the market of the running `retryUntilDeadline`,
`tried` its clock, `spent` the clock of the run.  An attempt may be lost before or
after it lands, with an error `defaultShouldRetry` matches ("timeout") or not
("unconfirmed").  `StopRun` is the scheduler's maximum duration, `Throw` the retry of
a job that threw, which lists the markets anew for the old `runAt`.

*Jobs, scripts and pages.*  Outside the chain the same rule holds everywhere: **what
happens between two awaits is one action**, what was read is kept in the run's
local state (`view` in `GridEvolution`, `run[i]` in `Distribution` and `Operations`,
`page` in `TradeClient`, `flow` and `posts` in `Accounts`), and anything else may move
before it is used.  A run may be stopped or throw at any await; a transaction may
land and be reported as an error.  `TradeClient` `EXTENDS OrderBook`: a landing
transaction runs the same `plan_fills`, `PlaceBid` and `PlaceAsk` helpers, pays the
makers it was built to pay or fails, and other users go on trading.

*TradeClient* has the panel's position as `trade-view.tsx` has it: three separate
queries, answered in any order, for the YES, NO and USDC balances in base units, and
`usePosition` divides by `TOKEN_SCALE` and drops the rest.  Every quantity the panel
builds is a whole number of contracts, while others may trade any size.  The list of
markets may be read again at any moment; the other queries are read once, until the
page is loaded anew (`Reload`).  `Revisit` is leaving the page within the application
and coming back: what it has read stays cached, and what awaits a signature no longer
keeps the new panel busy.

*Notifications.*  A row of preferences and what the page takes for a user without one
are two different defaults: the columns of a new row are all off (`Off`), the page's
`DEFAULT_NOTIFICATION_PREFS` has transactional e-mail on.  `queryFn` answers the latter
for the 404 of a user without a row.  `onMutate` cancels the query, remembers what was
shown and merges the patch into it; `onError` puts it back only if something had been
shown.  The update on the server is two statements, `getOrCreateNotificationPrefs` and
`patchNotificationPrefs`, and may fail before, between or after them, or go on after
the page has given it up (`connectionLost`, `serverEnds`).  The route that calls them
is not in the repository; that it calls the two, in this order, is taken from `db.ts`
and the hook.

*Operations.*  A seed goes through the strikes its offsets give (`todo`), one after the
other; whatever throws while one is seeded, an account lookup included, gives up that
strike (`giveStrikeUp`), and the script goes on to the next and reports the failure.

*Distribution.*  An attempt may be one of the weekly or monthly cron, of the operator's
script, or of any caller of the exported library functions; any of them may overlap
any other.

*Implementation of the promise.*  `Promise == INSTANCE CollateralPromise WITH ...` in
`Market` maps the vault to the reserve, the outcome to the verdict and the two
supplies to the claims; wallets, fees, delegates, oracles and the clock disappear.
`ImplementsPromise` is checked as a property of the run and proved as a theorem.

### Abstractions

* `config.usdc_mint` is a flag in `Market` and `OrderBook` (is it the mint this
  vault or escrow was made with?), a value in `Leaderboard`, where it is copied.
* `approved` in `Market` means that a wallet delegated both token accounts to
  the market for as much as it holds.
* Makers' payout accounts exist in `OrderBook`.  A maker who closed one makes
  the taker's whole transaction fail, which is no step.
* Slot distances are small naturals; the byte layout of a Pyth account, account
  sizes, rents and event logs are left out.
* The two ten-entry distribution tables of `FeeConfig` are left out of
  `validate_fee_params`: no instruction of the program reads them.
* A webhook post carries one event; `fetchTokenHolders` returns the balances at
  the settle slot, as its contract says, whenever it is called.  A payload whose
  `MarketSettled` event was not decoded is passed on with the outcome
  "unsettled" (`AnchorEvents` are the decoded ones).  The HTTP endpoint around the
  handler is not in the repository: it is taken to acknowledge when the handler
  returns and not when it throws.
* In `SettlementNudger` replies are classes: retriable feed error, refusal,
  already settled, lost.  Time is counted in retry intervals, and an attempt or a
  sleep takes up to one interval more than it should.
* Integers are unbounded except where the code saturates or the token program
  refuses to overflow (`U64_MAX`, `PERIOD_WIDTH`), which are parameters.
* `Calendar` counts days and minutes of 2026; the zone database moves the clock at
  2:00 local time while the service's own rule answers for whole days, and both
  are modelled.
* A hash in `MerkleTree` is a term, equal exactly when its inputs are.
* `GridEvolution` has the Eastern minutes at which a cron may fire and something
  depends on it; every `maxDuration` ends before the next one.
* `StrikeGrid` computes with whole dollars; the one rounding of doubles that
  matters, reading a strike back from the chain, is the constant `Inexact`.
* `Operations` counts money in half dollars and YES in lots of 50.
* `TradeClient` takes the mint fee at its deployed zero and leaves out the fee and
  slippage margins of the funds warning, which only ever refuse more.  Nobody gives the
  trader tokens but by trading, so a gift that arrives between a read and a landing is
  not among the ways exclusivity can be lost.
* The definitions that only group the actions of a module (`Next`, `Spec`, steps of one
  signer, the initial state of a part) have no counterpart in the code and no entry in
  `PROJECT.json`'s map.
* In the services, times, texts, avatars, tokens, keys and costs are left out; a
  session is the wallet and identity it names.

## 3. Runs

`CHECK_DEADLOCK FALSE` is set because the bounded instances do stop (the clock,
`MaxCommits`, `MaxDeliveries`, `MaxRuns`, wallets without money).

**Fairness.**  The on-chain program does nothing by itself, so its modules assume
none and state safety only.  `Indexer` assumes that a request that started runs
on unless it fails (`WF(Handle(r))`: it is a chain of awaits) and that Helius posts
again while nobody has acknowledged (`WF(Retry(e))`); `MaxFailures` is below
`MaxDeliveries`, so some post can succeed.  `SettlementNudger` assumes that the cron
fires (`WF(Fire)`) and the run takes its steps (`WF(Run)`), that the account scan
does not throw for ever (`SF(ListOpenMarkets)`) and that not every transaction for
a healthy feed is lost (`SF(Settles(m))`).  Nothing is assumed about which market
a run begins with, and nothing about strangers settling.  The grid's jobs, the
distribution, the scripts and the page promise nothing they must do in the end:
a run that failed is recorded and not repeated, so safety is all there is.

| run | bounds | shows |
|---|---|---|
| `market_collateral` | 2 wallets, one of them minting, 4 USDC, 4 instants, 2 fee records and an invalid one, prices on, above and below the strike, zero, wide and stale; `MarketBounds`: the second wallet and a delegate join while fees are off and nothing is paused, flipped or delayed | the vault holds its pairs and pays only for burns, tier volume is earned, the record of the settlement can be read, and the market implements `CollateralPromise` |
| `orderbook_trading` | 2 traders, 3 slots a side, 2 fills an order, 1 pair a crank, prices 1 and 3 of 4, sizes 1 and 3; `BookBounds`: pause, settlement, mint flip and stray tokens one at a time, on a book of up to two orders | escrow exact, priority, orders withdrawable, the crank resolves, only the fill limit leaves a book crossed |
| `leaderboard_rewards` | 2 slots, 3 commits, 2 metrics of 2 ranks, a tree with mixed types, an invalid metric, an invalid rank and a contested rank, two periods with equal low bits, 2 mints | bitmaps follow payments, recent roots payable, no unit lost |
| `indexer_streaks` | 3 events (YES with a wallet on both sides, refund, undecoded), 2 wallets, 2 concurrent requests, every event posted up to twice, 1 failing request | streaks coherent and auditable from the rows, acknowledged means counted, every holder counted in the end |
| `indexer_rerun` | as streaks | **violated**: see findings |
| `nudger_daily` | 2 healthy markets and a sick one, window of 3 intervals, runs of 4, 2 attempts at a run | a summary that is true and whole, window kept, healthy markets settled in the end |
| `grid` | NVDA from 18 to 28 November 2026: its earnings date, a holiday, a half-day and a weekend; three prices, three strikes that read back inexactly, 16 slots | one anchor after each close, caps come back, strikes vanish only by overwriting |
| `distribution` | 2 users, tables with a tie and tables without winners, 2 attempts of either version, the week and month around 1 November, where the clock changes; `LibraryOverlaps`: attempts that overlap one by a caller of the library are followed for the week, on its first day and if both are of version 2 (the theorems are about all of them) | periods tile, own proofs pass, a period shares out its pool once |
| `operations` | 2 runs of any two of seven scripts, one demo mint, two rungs a side, before and after an expiry; three offsets that fall on one strike at one price and on two at another, `TwoStrikesAlone`: a run has no other beside it while it is at its second strike | a clean seed verifies, an interrupted one resumes |
| `services` | 1 tab, 2 wallets of which one can sign, 2 identities; 2 batches, 3 callers, 2 channels of which one is on in the page's defaults, 2 toggles; 2 periods; 2 passes, 2 generators, 5 instants.  The parts share no variable, so each moves while the others rest (`ApartNext`); the theorems are about all their interleavings (`Spec`) | nine properties, two or so a part |
| `client` | the trader and one dealer, 2 slots, 2 fills, 2 prices, contracts of 2 base units of which the dealer trades halves too, 2 submissions, 1 reload or return to the page; `ClientBounds`: one gate closes at a time, and nothing is submitted after a hasty submission | the page's plan is the program's match on the same book, limits that do not cross included; a careful trader never buys against a whole contract of the other side |
| `client_strand` | as client | **violated**: see findings |

Why the bounds are enough.  Scales are shrunk, not removed: with `PRICE_SCALE =
4` and prices 1 and 3 every fill rounds, with three slots and two fills an
order can exhaust its fills, its slots and its sequence numbers, with
`U64_MAX` of 2 to 4 the saturating counters and the supplies reach their limit,
with a ring of two slots three commits wrap it; a run of four intervals cannot
hold the windows of the sick market and of another one, so runs are stopped with
markets left over; the eleven days of the grid hold one of every kind of day; two
runs are what it takes for one to interrupt, overlap or repeat another.  Each
constraint of an `MC` module keeps every hazard it names but takes them one at a
time.  With contracts of two base units a half is already a fraction the page drops.
`DECAY_WINDOW` is 1 in `market_collateral`, so there a volume is kept whole or lost
whole: how much of it survives when the linear decay is applied again and
again, truncated each time, is not checked, and nothing in the code says how much should.
Each property has a mutant of the code (named `<definition>_<defect>` beside
the definition it changes) that the same run refutes.

The largest runs have between half a million and two million distinct states
(`operations` 1.8, `services` 1.3, `client` 0.6, `distribution` 0.5) and take one to two
and a half minutes each.

Some properties say less than a reader may hope, because the code does less.
`StrikesVanishOnlyInRace` and `ChosenHandleKept` excuse the very write that was computed
from a row read earlier: the grid's job and the sign-in do overwrite what came between,
and what is shown is that nothing else does.  `PrefsShownTrue` excuses what `doubt`
records: mutations that overlapped, a refetch that met one, a lost answer, an update that
failed between its two statements, and a toggle refused before the first answer.
`CarefulTraderOneSided` allows less than one contract of the other side.
`ProOnlyWhilePaid` does not say that a cancelled subscription stays cancelled: a purchase
delivered after its cancellation makes the row active again, until its own expiry.

### Findings

* **`indexer_rerun`**: a test says that re-running a transaction does not
  multi-count, a migration that `tx_sig UNIQUE` makes redelivery idempotent.  The
  rows are keyed, the streak is not: a second post adds to it again.
  `AckedMeansCounted` shows that skipping known events instead would lose counts
  after a failure halfway: row and streak would have to be written in one
  transaction.
* **`client_strand`**: the specification says that a Buy NO whose YES sale does not
  fill fails as a whole, and the builder that its check makes the bug impossible.
  The check compares with the book the page once read; the program sells what it
  finds and returns the rest, so when a bid went away the trader is left with YES
  and NO.

Met while modelling and not runs of their own.

On chain:

* `update_usdc_mint.rs:11-13` says redeem paths that do not check the mint keep
  working; all of them check it, so after a flip no winner can redeem, and no
  order can be cancelled (`cancel_order.rs:13-14` promises that it always can),
  until the mint is flipped back.
* `match_orders.rs:3-5` says a correctly operated book is never left crossed; an
  order that used up `MAX_FILLS` rests its remainder against the next maker.
  `CrossedOnlyByFillLimit` shows that nothing else crosses the book, `CrankProgress`
  that the crank repairs it.
* `distribute_weekly_rewards.rs:20-21` says a second distribute for one (period,
  metric, position) reverts; if the period was committed twice it succeeds once
  the ring dropped the first entry, which is what the recommended recovery does.
* `place_order.rs:21-22` names the cost as a bid's deposit, which leaves out the
  pad.  Addresses of markets leave out the mint: after a flip a strike that
  "already-exists" is one nobody can trade.

In the jobs and scripts:

* `earnings-calendar.ts:43-45` says a widened cap stays until the session after the
  earnings date; the anchor and the wild-swing checks write the default cap before.
* `periods.ts`: on the morning the clock is set back (1 November 2026) the month's
  last hour is named as the next month's by one function and not by the other,
  since `isEtDst` answers for the whole day; the close of December is skipped.
* A distribution that is repeated stores a snapshot that no longer agrees with the
  committed root (`queries.ts:251-276`), and version 1 leaves never match the
  program's.  The cron and its script pass no chain client, so both only log.
* Version 1 rounds each share to the cent (`distribute.ts:212-215`), so that its leaves
  may total more than the pool: ten cents become twelve.  That version pays nothing on
  chain, so `PaidWithinPool` holds; `SharesWithinPool` is about version 2 alone.
* The program has 8 paid ranks a metric (`state.rs:364-368`), `distribute-v2.ts:128` ranks
  and pays 10: ranks 9 and 10 are refused, and their shares stay in the pool.
* `seed-demo-liquidity.ts:16-17` calls the script safe to run again; it mints and
  places its ladder once more each time (372, 405-446).  `--expiry-days 7` is
  refused unless it is run after 20:00Z.
* `gen-briefings.ts:106-113`: between midnight and 4 AM Eastern the next session it
  names is not the next one.
* `grid-evolution.ts:52` reckons with one retry window per run, while markets of one
  ticker share a feed: with two sick markets (`Sick = {m2, m3}` in
  `MCSettlementNudger_daily.cfg`) TLC refutes `HealthySettled` by runs that are
  stopped before they come to the healthy one, day after day.
* The program emits no `MarketSettled` event, so every payload reaches the indexer
  undecoded.

In the application:

* After `0006_users_handle_not_null.sql` a sign-in whose wallet has no row inserts a
  NULL handle (`options.ts:284-289`, `db.ts:50-52`), which the database refuses.
* `use-link-sign-in.ts:26-28` says a wallet that cannot sign proceeds unlinked; the
  cookies of an earlier signature are still there.
* `use-notification-prefs.ts:29-30` says "Optimistic rollback fires on error"; line 107
  rolls back only what had been shown before, so a toggle made before the first answer
  stays on the page when the server refuses it, until some later query is answered:
  `onMutate` cancelled the one under way.
* A user without preferences sees transactional e-mail on (`types/profile.ts:61-65`); the
  row made by the first update of any channel has it off.
* Position exclusivity (`trade-view.tsx:341`, `bell-markets-spec.md:56`) is checked on
  balances floored to whole contracts (199-204), and the program trades any size: who
  holds half a YES, bought from an ask of a half, may buy NO.
* No query of the trading page but the list of markets is asked again before a
  reload.  Balances not yet read count as zero, so exclusivity can be bypassed;
  the quantity of a limit sale is not capped by the position; a market Buy YES that
  falls back to minting leaves a matched pair; a Sell NO that fills in part does
  not revert as `build-sell-no.ts:70-74` has it, when pairs are there to burn; a
  redemption and a trade may be in front of the wallet together.

## 4. Proofs

Proved for every value of the constants, from the named assumptions of the
modules (`MarketAssumption`, `FeeAssumption`, `OracleAssumption`,
`OrderBookAssumption`, `OrderMathAssumption`, `LeaderboardAssumption`,
`IndexerAssumption`, `NudgerAssumption`, `AccountsAssumption`,
`NotificationsAssumption`, `BriefingsAssumption`, `GridAssumption`, `InexactAssumption`,
`TradeClientAssumption`, `OperationsAssumption`, `DistributionAssumption`), which TLC
evaluates on every instance.  They give the constants their types.  Five say more:
users, mints, wallets, events and endpoints are finite sets, since a ledger has
finitely many accounts and a table finitely many rows, without which a total means
nothing; `Instants` does not run backwards, being a clock; marks for "nothing"
(`None`, `NoEvent`, `NoUser`, `NoPrefs`) are not themselves data; the two ladders of
`scripts/seed-demo-liquidity.ts` are neither empty nor name a price twice, the bids at most at
fifty cents and the asks above, and its offsets are a non-empty list of percentages; and days
stay inside the tables of 2026.  Two more assumptions are facts about literal tables
of the code, which TLC evaluates and no proof uses: `EarningsTablesSound` and
`SplitsWhole`.

*Market.*  `TypeCorrect` first: that no balance goes below zero rests on the
guards of burns and transfers and, for fees, on the arithmetic of `split_fee`.
Solvency is not inductive as `VaultHoldsPairs` alone: a redemption decrements
`pairs` with `saturating_sub`, so one must know `amount <= pairs` when
`amount <= vault` is all the transfer checks.  What is missing is that the
redeemable supply never exceeds `pairs`; the inductive invariant is their
conjunction (`Solvency`: `VaultHoldsPairs`, `ClaimsCounted`).  A life-cycle
invariant (an open vault belongs to a created market, a settled market has
reached its expiry, a closed vault is empty) adds what `NothingOwedAfterClose` and
`ProvenanceReadable` need.  `OutcomeIsFinal`, `VaultPaysOnlyForBurns`,
`PauseFreezes` and `TierVolumeIsEarned` are action properties, proved one lemma
per instruction from the same invariants; the last needs that the three parts
of a fee add up to it, for which `split_fee`'s two floors are bounded by
`DivSum`.  `MarketKeepsPromise` combines the same invariants into the refinement:
the initial state maps to the promise's, every instruction maps to one of its
steps or to a stutter (`Open` for a creation, `Back` for a mint, `PayOut` for every
redemption, `Decide` for both settlements, `Gift` for a donation, `Forfeit` for a
holder's own burn), one lemma per kind.

*CollateralPromise.*  `PromiseIsBacked` (in `MarketProofs`) shows that the promise itself can be kept:
the claims the verdict leaves worth something never exceed the reserve.

*SumTheorems.*  Escrows, pools and totals are sums.  `SumFunction` of the community
modules is a fold, defined by recursion over a finite set; the theorems here unfold it
once, prove by induction over subsets that it does not depend on the
order of the terms, and derive what the proofs about the models cite: one term
changes, one is added, one goes, a sum of sums.  A side of the book is a
sequence; its `Weigh` follows an insertion, a removal and a partial fill.  The
inductions are over a set of naturals or of subsets (`NatInductionSet`,
`SubsetInduction`), since a theorem with an operator parameter cannot be cited.

*OrderBook.*  `BookInv` is the inductive invariant: types; both sides strictly
sorted with sequence numbers that are distinct and below `next_seq`; each escrow the
weight of its side plus what strangers sent; empty sides before trading is wired,
which is why `grow_order_book` may clear them.  `plan_fills` and `CrankPlan` are
recursive functions; each is carried by an invariant of its rounds, proved by
induction on the round: what left the side equals what is paid and
delivered, what remains is sorted, and a partial fill ends the walk.  The
telescoping of `fill_usdc` (`FillMath`) is what makes the sum exact.
`CrossedOnlyByFillLimit` follows from how the walk may end.  `CrankProgress` and
`OrdersReclaimable` speak of `ENABLED`, which the provers do not expand: `CrankCovered`
and `OrdersCovered` state the guards those formulas stand for (every other
conjunct of the actions assigns a primed variable once), and are proved from
`BookInv`; that the guards are all there is to `ENABLED` is what TLC's run shows.

*TradeClient.*  `ClientInv` is `BookInv` with one more clause: every transaction that
is being signed or in flight holds what `planFills` makes of the side it has seen,
at the price and size it was built for.  `PlanIsTheMatch` compares two walks
over the same side: the page's, which lists makers without changing anything, and
the program's, which takes them off.  `Mirror` relates them after any number of
fills (the fills listed so far are the page's, the rest of the side is what the page
has still to come to), and is carried through the recursive function by induction
on the fill.  `CarefulTraderOneSided` speaks of the trader alone, so nobody else's
order may touch what he has: a `Bystander`'s tokens do not move, and a trader
with no order resting is one.  `CarefulInv` adds that one transaction at most is
under way and that it does not oppose what he holds (`Opposes`: a whole contract or more
of the other side).  That a submission on the whole truth opposes nothing
(`TruthDoesNotOppose`) is where the page's floors come in: balances a contract
apart have floors at least one apart, so the panel that shows no directional holding of
the other side is right up to less than a contract.

*Leaderboard.*  `BitsDisjoint` is the mixed-radix argument that no two payable
ranks share a bit.  `ClaimsAreExact` needs that each slot holds a commit of its
own number and payments name commits of the past (`HistoryOK`): otherwise a
new commit could inherit payments.  `RewardsConserved` is not inductive by
itself: `payments` is a set, and a payment equal to an earlier one would add to a
wallet and not to the sum.  That it is new follows from the claim bitmap, so the
invariant `Ledger` takes the bookkeeping of the bitmaps in.  `EveryPayoutBacked` and
`PauseFreezesRewards` follow per instruction from type correctness.  `RootsCovered`
states the guards `RecentRootsPayable` asks to be met.  Its clear bits follow from the
bookkeeping; that the linear scan finds the root and not a slot that was never
written, whose zeroed entry also reads as period 0, weekly, needs `RingFills`:
written slots come before the others.

*Indexer.*  `StreaksStayCoherent` is inductive with types: every update of a
streak keeps its four numbers in order (`ApplyKeepsOrder`).  `AcknowledgedIsCounted`
is not: an acknowledgement says nothing about who counted the holders.  `CountInv`
adds, for every running request, that whoever is no longer on its list has been
counted, or is at hand with the row written (`Behind`), and that rows hold the
result that was counted (`RowsRight`).  It survives other requests because
no row is lost and no count taken back (`OthersKeepBehind`), and failures because a
failed request promises nothing.  `TotalsAudited` adds `Tallied`, the totals as sums
over events: a row first written, or written again, changes no sum because its
result is a function of the event (`RowsRight`), and a streak that moves adds one to
one term.

*Distribution.*  Four arguments meet.  *Trees*: layers built by `nextLayer` are a
`Tower`; climbing it, `OwnProofsPass` shows that the sibling the service takes at each
level is the other child of the node above, the orphan being paired with itself, and
`OnlyLeavesPass` goes down again: what hashes to a node of a layer is one of its two
children, and a leaf has none, so that whatever proof is sent only a leaf of the tree
is accepted.  Both hold for trees of up to 64 leaves; a period has 40 at most, which
`TreeOf` shows of every board.  *Places*: the order in which
positions are paid and that of the leaves name each of them once (`Enumerates`).
*Amounts*: what the leaves of version 2 promise is bounded by the pool that was read,
since each metric has its floor of the pool and each rank its share of that
(`SharesWithinPool`, `PromisesWithinPool`), and a sum over claimed places is no more than over all of them.
*Attempts*: `DistributeInv` says how far each is (`Healthy`), that whoever committed the
oldest root keeps, as long as it lasts, the board the root was built from (`Owns`), and that what the chain has paid is the sum of what the board behind that root
promised to its claimed places (`PaidClaims`).  The board need not be in any run any
more, so it is a witness of the formula and not a variable.  A payment adds one place
to the sum, and only a leaf of that board is accepted, whichever run sends it:
`PaidWithinPool`.  The owner of the oldest root pays leaves of its own board, so a
payment of its own is refused only for a place already claimed, by whichever other run
was first: `OwnRootPays`.  Nothing is assumed about which runs overlap.  `PeriodsTile` is
arithmetic: a week has the Monday of each of its days, a month its first, and midnight,
noon and five o'clock lie in the day they are of on every day of the year but the
night the clock is moved forward, which ends no period.

*GridEvolution.*  `GridInv` is types, what a job has at each stage (`JobsAtWork`) and that
anchor runs were begun at slots that were theirs (`AnchorsOnTime`).  The first and
last give `OneAnchorAfterClose`; a write compared with the view it was computed from
gives `StrikesVanishOnlyInRace`.  `ExpandedCapEnds` is a question of accounting: after a cap was
widened for a date three runs come by that would each restore it, and `WideInv` says
that a cap still wide has lost as many as are over (`LostRuns`).  It rests on the
tables: dates of a ticker are a quarter apart (`EarningsApart`), so no other
date widens it in between.

*Operations.*  `OpsInv` says of every run what it may rely on: where it looks for its
market and what it has found (`Finding`), how far it is on the ladder and what the
market then holds while no other run has seeded it (`Laying`); a market nobody has
seeded holds nothing (`Untouched`), and two runs at work on one market are counted as
two (`Counted`).  The last is what makes "seeded by one run alone" mean that nobody else
is placing orders in it.  `CleanSeedVerifies` then compares the ladder with what
`verify-seeded-market` sums up; `ResumesAfterStop` needs only `Finding`.

*SettlementNudger.*  `WindowKept` needs to know that a sleep is begun only when it
ends before the deadline (`SleepFits`): then a sleep one interval late, or
an attempt that takes one, ends at the deadline at the latest.  That the summary is
whole (`SummaryHolds`) needs that every listed market is to come, at hand or reported while the loop runs
(`Accounted`), and that one is at hand at a time.

*Services.*  `Parts` splits a step of `Services` into a step or a stutter of each
part, so each part is proved on its own variables, for all interleavings, where
TLC's run moves one part at a time.  `LinkedBySigner`: whatever may still
become a link or a session, cookies and flows included, is backed by a signature
(`AccSigned`).  `OwnAnswerShown`: the one request whose answer a tab will take is
about the wallet it has now (`LiveIsOwn`).  `ChosenHandleKept`: a sign-in past its
upsert finds a row (`LinkedRow`), so that what it overwrites is what it read.
`GoneIsDropped` is inductive with the types of rows and batches, `OneLogin` with the
promise that is pending while a login runs (`LoginInv`).  `PrefsShownTrue` (`PrefsSure`): a query that met no mutation holds what is stored, and
beyond doubt at most one mutation is in flight, what it would restore or has
brought back is what a query would answer (`SureEdit`), and with none in flight the
page shows that or nothing.  A mutation whose first statement made the row would restore
the page's defaults, which the row is not; its failure is a doubt, its success is not.  `ProOnlyWhilePaid`: every active row, of
the store or of a page, carries the end of a period that was bought (`Bought`).
`StubLeavesWork`: the model's name is on no article it has not classified.
`ServedWhileLatest`: what the CDN holds was the latest row at the minute it was fetched
(`LatestAt`), which later rows leave true.

Model-checked only:

* `RecentRootsPayable`, `CrankProgress` and `OrdersReclaimable` as they stand, because of
  `ENABLED`; the guards of all three are proved, see above;
* `EventuallyCounted` and `HealthySettled`, liveness under fairness.

## 5. Not modelled

Pages other than the trading page present what the modelled hooks return or send
one admin instruction each; the abandoned Phoenix adapter and the deployment
programs keep no state; the byte layout of a Pyth account, Merkle hashing and the
digest of a webhook's signature are pure functions of bytes.  The open-orders panel
of the trading page shows fixed examples.  Profile routes the client calls are not
in the repository.

`Market` and `OrderBook` are not composed in one state: `TradeClient` carries the
page's trader across both (a landing Buy NO mints and sells, a Sell NO buys and
redeems), for one wallet and without settlement of the claims.

## 6. What is left

1. Decay frequency and the widths of the oracle arithmetic in `FeeMath` and
   `Oracle`, for arguments beyond those `Market` passes.
2. `Market` and `OrderBook` in one state, with the claims of several traders.
3. The payout of `Leaderboard` under the trees `Distribution` commits, in place of
   the sets of leaves it takes as a constant.
