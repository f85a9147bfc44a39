----------------------------- MODULE TradeClient -----------------------------
(******************************************************************************)
(* The trade page of the web application (trade-view.tsx, its hooks and the   *)
(* transaction builders of lib/tx) for one trader, composed with the order    *)
(* book on chain.  The page decides on what it once read: its queries, but    *)
(* the one of the markets, are asked once and never again until the page is   *)
(* loaded anew, since useAccountSubscription has an infinite stale time and   *)
(* an empty effect.                                                           *)
(* What it decides becomes a transaction that is signed, broadcast, and lands *)
(* whole or not at all, later, on whatever the chain has become.              *)
(*                                                                            *)
(* The chain counts base units, the page whole contracts of TOKEN_SCALE base  *)
(* units.  The mint fee is at its deployed zero, and the fee and slippage     *)
(* margins that the page adds to its funds warning are left out, so it may    *)
(* submit a little more here.                                                 *)
(******************************************************************************)
EXTENDS OrderBook

CONSTANTS
  trader,        \* the wallet of the page
  TOKEN_SCALE,   \* base units of a contract, and of a dollar
  Contracts,     \* amounts and quantities typed into the panel
  PRICE_YES_ASK, \* the ask shown while the book has none
  PRICE_NO_ASK,  \* the same for NO
  MAX_SUBMITS,   \* bound: transactions the trader ever submits
  MAX_RELOADS    \* bound: times the page is loaded or shown anew

ASSUME TradeClientAssumption ==
  /\ trader \in Users
  /\ TOKEN_SCALE \in Nat \ {0}
  /\ Contracts \subseteq Nat \ {0}
  /\ PRICE_YES_ASK \in 1..PRICE_SCALE
  /\ PRICE_NO_ASK \in 1..PRICE_SCALE
  /\ MAX_SUBMITS \in Nat
  /\ MAX_RELOADS \in Nat

VARIABLES
  no,      \* the trader's NO tokens
  page,    \* what the page has read; see Unread
  signing, \* transactions in front of the wallet
  flying,  \* transactions broadcast and not yet decided
  submits, \* transactions submitted so far
  reloads, \* times the page was loaded or shown anew
  landed,  \* history: the last NO trade that landed
  hasty,   \* history: something was submitted on less than the whole truth
  opposed  \* history: a buy landed against a contract of the other side

clientVars == <<page, signing, flying, submits, reloads>>
historyVars == <<landed, hasty, opposed>>
tradeVars == <<vars, no, clientVars, historyVars>>

None == [unread |-> TRUE]

IsRead(x) == x # None

(* The queries of a freshly loaded page, none answered. *)
Unread == [market |-> None, config |-> None, book |-> None, yes |-> None, no |-> None,
           cash |-> None]

NothingLanded == [kind |-> "none", amount |-> 0, filled |-> 0]

ClientInit ==
  /\ Init
  /\ no = 0
  /\ page = Unread
  /\ signing = {}
  /\ flying = {}
  /\ submits = 0
  /\ reloads = 0
  /\ landed = NothingLanded
  /\ hasty = FALSE
  /\ opposed = FALSE

--------------------------------------------------------------------------------
(* Reading *)

(* What each query would answer now.  An account shorter than a whole book    *)
(* decodes to no book that is nevertheless there; a token account that is not *)
(* there has a balance of zero.                                               *)
useAllMarkets == [settled |-> settled, bound |-> stage = "wired"]
useMarketConfig == [paused |-> paused]
useOrderBook == [uninitialized |-> stage = "absent", bids |-> bids, asks |-> asks]
useTokenBalance(balance) == [amount |-> balance]

Answer(query) ==
  CASE query = "market"   -> useAllMarkets
    [] query = "config"   -> useMarketConfig
    [] query = "book"     -> useOrderBook
    [] query = "yes"      -> useTokenBalance(yes[trader])
    [] query = "no"       -> useTokenBalance(no)
    [] query = "cash"     -> useTokenBalance(usdc[trader])

useAccountSubscription(query) == page' = [page EXCEPT ![query] = Answer(query)]

(* A query is enabled once what it is derived from has been read. *)
Enabled(query) ==
  /\ query \in {"book", "yes", "no"} => IsRead(page.market)
  /\ query = "cash" => IsRead(page.config)

(* The markets are asked for again when they are needed a minute later; here  *)
(* at any time.                                                               *)
Read(query) ==
  /\ ~IsRead(page[query]) \/ query = "market"
  /\ Enabled(query)
  /\ useAccountSubscription(query)
  /\ UNCHANGED <<vars, no, signing, flying, submits, reloads, historyVars>>

(* A full load of the page; what is in front of the wallet is lost with it. *)
Reload ==
  /\ reloads < MAX_RELOADS
  /\ page # Unread
  /\ page' = Unread
  /\ signing' = {}
  /\ reloads' = reloads + 1
  /\ UNCHANGED <<vars, no, flying, submits, historyVars>>

(* The trader visits another page of the application and comes back: what was *)
(* read is kept, and what is in front of the wallet stays there, but no       *)
(* longer keeps the panel busy; like what flies it may yet land.              *)
Revisit ==
  /\ reloads < MAX_RELOADS
  /\ signing # {}
  /\ flying' = flying \cup signing
  /\ signing' = {}
  /\ reloads' = reloads + 1
  /\ UNCHANGED <<vars, no, page, submits, historyVars>>

(* A balance that has not been read counts as zero. *)
balance(query) == IF IsRead(page[query]) THEN page[query].amount ELSE 0

(* The position in whole contracts: less than a contract is not seen. *)
usePosition == [yes |-> balance("yes") \div TOKEN_SCALE, no |-> balance("no") \div TOKEN_SCALE]

yesBids == IF IsRead(page.book) THEN page.book.bids ELSE <<>>
yesAsks == IF IsRead(page.book) THEN page.book.asks ELSE <<>>

Excess(a, b) == IF a > b THEN a - b ELSE 0

matchedPairs == Least(usePosition.yes, usePosition.no)
directionalYes == Excess(usePosition.yes, usePosition.no)
directionalNo == Excess(usePosition.no, usePosition.yes)

--------------------------------------------------------------------------------
(* Deciding *)

(* The sides and order types the panel can be put in: NO snaps to market. *)
Forms == [side : {"buy", "sell"}, outcome : {"yes", "no"}, limit : BOOLEAN]

(* Mutant: one side need not be closed before the other is bought. *)
disableReason_NotExclusive(f) ==
  \/ ~IsRead(page.market) \/ page.market.settled \/ ~page.market.bound
  \/ IsRead(page.config) /\ page.config.paused
  \/ ~IsRead(page.book) \/ page.book.uninitialized
  \/ f.outcome = "no" /\ f.limit

(* Whether the panel gives a reason not to submit. *)
disableReason(f) ==
  \/ ~IsRead(page.market) \/ page.market.settled \/ ~page.market.bound
  \/ IsRead(page.config) /\ page.config.paused
  \/ ~IsRead(page.book) \/ page.book.uninitialized
  \/ f.outcome = "no" /\ f.limit
  \/ f.side = "buy" /\ f.outcome = "yes" /\ directionalNo > 0
  \/ f.side = "buy" /\ f.outcome = "no" /\ (directionalYes > 0 \/ yesBids = <<>>)
  \/ f.side = "sell" /\ f.outcome = "yes"
       /\ (directionalYes = 0 \/ (~f.limit /\ yesBids = <<>>))
  \/ f.side = "sell" /\ f.outcome = "no" /\ (directionalNo = 0 \/ yesAsks = <<>>)

(* The price the panel shows for buying the outcome. *)
ask(f) ==
  IF f.outcome = "yes"
  THEN IF yesAsks # <<>> THEN Head(yesAsks).price ELSE PRICE_YES_ASK
  ELSE IF yesBids # <<>> THEN PRICE_SCALE - Head(yesBids).price ELSE PRICE_NO_ASK

(* Buys only; the contracts of the amount field, whatever the limit fields say. *)
fundsWarning(f, contracts) ==
  /\ f.side = "buy"
  /\ contracts * TOKEN_SCALE * ask(f) > balance("cash") * PRICE_SCALE

(* Mutant: a bid stops at an ask of its own price. *)
planFills_Strict(side, makers, price, size, isMarket) ==
  LET before(i) == SumFunction([j \in 1..(i - 1) |-> makers[j].size])
      reached == {i \in DOMAIN makers :
        /\ i <= MAX_FILLS /\ before(i) < size
        /\ \A j \in 1..i : \/ isMarket
                           \/ side = "bid" /\ makers[j].price < price
                           \/ side = "ask" /\ makers[j].price > price}
  IN [i \in reached |->
        [maker |-> makers[i].owner, size |-> Least(size - before(i), makers[i].size)]]

(* lib/solana/order-book.ts: the mirror of plan_fills that lists the makers. *)
planFills(side, makers, price, size, isMarket) ==
  LET before(i) == SumFunction([j \in 1..(i - 1) |-> makers[j].size])
      reached == {i \in DOMAIN makers :
        /\ i <= MAX_FILLS /\ before(i) < size
        /\ \A j \in 1..i : \/ isMarket
                           \/ side = "bid" /\ makers[j].price <= price
                           \/ side = "ask" /\ makers[j].price >= price}
  IN [i \in reached |->
        [maker |-> makers[i].owner, size |-> Least(size - before(i), makers[i].size)]]

totalFilled(fills) == SumFunction([i \in DOMAIN fills |-> fills[i].size])

(* A transaction: its legs are told by its kind.  number tells two alike      *)
(* apart, seen is the side of the book it was planned on.                     *)
Tx(kind, side, size, price, isMarket) ==
  LET makers == IF side = "bid" THEN yesAsks ELSE yesBids
  IN [kind |-> kind, number |-> submits, side |-> side, amount |-> size,
      price |-> price, isMarket |-> isMarket, seen |-> makers,
      planned |-> planFills(side, makers, price, size, isMarket)]

buildMintPairTx(size) == Tx("mintPair", "bid", size, 0, TRUE)
buildBuyYesTx(size, price, isMarket) == Tx("buyYes", "bid", size, price, isMarket)
buildSellYesTx(size, price, isMarket) == Tx("sellYes", "ask", size, price, isMarket)

(* The two atomic NO trades refuse to be built unless the book seen fills     *)
(* them whole.                                                                *)
buildBuyNoTx(size) ==
  {tx \in {Tx("buyNo", "ask", size, 0, TRUE)} : totalFilled(tx.planned) = size}

buildSellNoTx(size) ==
  {tx \in {Tx("sellNo", "bid", size, 0, TRUE)} : totalFilled(tx.planned) = size}

buildRedeemPairTx(size) == Tx("redeemPair", "bid", size, 0, TRUE)

baseUnits(contracts) == contracts * TOKEN_SCALE

(* The transaction handleSubmit would build: contracts from the amount field, *)
(* price and quantity from the limit fields, the position only for a sale at  *)
(* market.  A market buy of YES with no ask mints pairs instead.              *)
Built(f, contracts, price, qty) ==
  LET sizeBase == baseUnits(contracts)
      soldBase(held) == baseUnits(Least(contracts, held)) IN
  CASE f.side = "buy" /\ f.outcome = "yes" ->
         {IF f.limit THEN buildBuyYesTx(baseUnits(qty), price, FALSE)
          ELSE IF yesAsks # <<>> THEN buildBuyYesTx(sizeBase, 0, TRUE)
          ELSE buildMintPairTx(sizeBase)}
    [] f.side = "sell" /\ f.outcome = "yes" ->
         {IF f.limit THEN buildSellYesTx(baseUnits(qty), price, FALSE)
          ELSE buildSellYesTx(soldBase(directionalYes), 0, TRUE)}
    [] f.side = "buy" /\ f.outcome = "no" -> buildBuyNoTx(sizeBase)
    [] f.side = "sell" /\ f.outcome = "no" -> buildSellNoTx(soldBase(directionalNo))

(* History: the page knows the trader's balances and nothing can change them. *)
WholeTruth ==
  /\ page.yes = Answer("yes") /\ page.no = Answer("no")
  /\ signing = {} /\ flying = {}
  /\ \A i \in DOMAIN bids : bids[i].owner # trader
  /\ \A i \in DOMAIN asks : asks[i].owner # trader

Submit(tx) ==
  /\ submits < MAX_SUBMITS
  /\ IsRead(page.market)
  /\ IsRead(page.config)
  /\ signing' = signing \cup {tx}
  /\ submits' = submits + 1
  /\ hasty' = (hasty \/ ~WholeTruth)
  /\ UNCHANGED <<vars, no, page, flying, reloads, landed, opposed>>

(* The button is off while a trade is being signed, not while pairs are. *)
handleSubmit(f, contracts, price, qty) ==
  /\ ~\E tx \in signing : tx.kind # "redeemPair"
  /\ ~disableReason(f)
  /\ ~fundsWarning(f, contracts)
  /\ \E tx \in Built(f, contracts, price, qty) : Submit(tx)

handleRedeemPair ==
  /\ ~\E tx \in signing : tx.kind = "redeemPair"
  /\ matchedPairs > 0
  /\ Submit(buildRedeemPairTx(baseUnits(matchedPairs)))

--------------------------------------------------------------------------------
(* Landing *)

(* place_order takes the listed payout accounts in the order of its own plan. *)
MakersListed(tx, fills) ==
  \A i \in DOMAIN fills : i \in DOMAIN tx.planned /\ tx.planned[i].maker = fills[i].maker

LandPair(tx) ==
  /\ ~settled /\ mintCurrent
  /\ tx.amount > 0
  /\ \/ /\ tx.kind = "mintPair"
        /\ ~paused
        /\ tx.amount <= usdc[trader]
        /\ usdc' = [usdc EXCEPT ![trader] = @ - tx.amount]
        /\ yes' = [yes EXCEPT ![trader] = @ + tx.amount]
        /\ no' = no + tx.amount
     \/ /\ tx.kind = "redeemPair"
        /\ tx.amount <= yes[trader]
        /\ tx.amount <= no
        /\ usdc' = [usdc EXCEPT ![trader] = @ + tx.amount]
        /\ yes' = [yes EXCEPT ![trader] = @ - tx.amount]
        /\ no' = no - tx.amount
  /\ UNCHANGED <<bookVars, escrowVars, gateVars, strayVars, landed>>

LandYes(tx) ==
  /\ \/ /\ tx.kind = "buyYes"
        /\ MakersListed(tx, plan_fills("bid", asks, tx.price, tx.amount, tx.isMarket).fills)
        /\ PlaceBid(trader, tx.price, tx.amount, tx.isMarket)
     \/ /\ tx.kind = "sellYes"
        /\ MakersListed(tx, plan_fills("ask", bids, tx.price, tx.amount, tx.isMarket).fills)
        /\ PlaceAsk(trader, tx.price, tx.amount, tx.isMarket)
  /\ UNCHANGED <<no, landed>>

(* mint_pair, then place_order sells the minted YES to the bids at market;    *)
(* what finds no bid comes back.                                              *)
LandBuyNo(tx) ==
  LET plan == plan_fills("ask", bids, 0, tx.amount, TRUE)
      sold == TotalSize(plan.fills)
      earned == TotalUsdc(plan.fills)
  IN
  /\ tx.kind = "buyNo"
  /\ TradingOpen
  /\ ValidOrder(0, tx.amount, TRUE)
  /\ tx.amount <= usdc[trader]
  /\ MakersListed(tx, plan.fills)
  /\ earned <= usdcEscrow
  /\ usdc' = [usdc EXCEPT ![trader] = @ - tx.amount + earned]
  /\ yes' = [v \in Users |-> yes[v] + DeliveredTo(v, plan.fills)
                               + (IF v = trader THEN tx.amount - sold ELSE 0)]
  /\ usdcEscrow' = usdcEscrow - earned
  /\ bids' = plan.makers
  /\ no' = no + tx.amount
  /\ landed' = [kind |-> "buyNo", amount |-> tx.amount, filled |-> sold]
  /\ UNCHANGED <<stage, asks, nextSeq, yesEscrow, gateVars, strayVars>>

(* place_order buys YES at market, a dollar of escrow a contract, then        *)
(* redeem_pair burns the amount from all the YES and NO there is.             *)
LandSellNo(tx) ==
  LET plan == plan_fills("bid", asks, 0, tx.amount, TRUE)
      bought == TotalSize(plan.fills)
      spent == TotalUsdc(plan.fills)
      deposit == escrow_in_usdc(0, tx.amount, TRUE)
  IN
  /\ tx.kind = "sellNo"
  /\ TradingOpen
  /\ ValidOrder(0, tx.amount, TRUE)
  /\ deposit <= usdc[trader]
  /\ MakersListed(tx, plan.fills)
  /\ spent <= deposit
  /\ bought <= yesEscrow
  /\ tx.amount <= yes[trader] + bought
  /\ tx.amount <= no
  /\ usdc' = [v \in Users |-> usdc[v] + PaidTo(v, plan.fills)
                                + (IF v = trader THEN tx.amount - spent ELSE 0)]
  /\ yes' = [yes EXCEPT ![trader] = @ + bought - tx.amount]
  /\ yesEscrow' = yesEscrow - bought
  /\ asks' = plan.makers
  /\ no' = no - tx.amount
  /\ landed' = [kind |-> "sellNo", amount |-> tx.amount, filled |-> bought]
  /\ UNCHANGED <<stage, bids, nextSeq, usdcEscrow, gateVars, strayVars>>

LandOnChain(tx) == LandPair(tx) \/ LandYes(tx) \/ LandBuyNo(tx) \/ LandSellNo(tx)

(* History: the buy finds a contract or more of the other side beyond what    *)
(* there is of its own.                                                       *)
Opposes(tx) ==
  \/ tx.kind \in {"buyYes", "mintPair"} /\ no >= yes[trader] + TOKEN_SCALE
  \/ tx.kind = "buyNo" /\ yes[trader] >= no + TOKEN_SCALE

Land(tx) ==
  /\ LandOnChain(tx)
  /\ flying' = flying \ {tx}
  /\ opposed' = (opposed \/ Opposes(tx))
  /\ UNCHANGED <<page, signing, submits, reloads, hasty>>

(* The wallet signs and the transaction is sent; the page does not wait for   *)
(* it and reads nothing again.                                                *)
broadcast(tx) ==
  /\ signing' = signing \ {tx}
  /\ flying' = flying \cup {tx}
  /\ UNCHANGED <<vars, no, page, submits, reloads, historyVars>>

(* The trader declines, or the preflight simulation fails. *)
broadcastFails(tx) ==
  /\ signing' = signing \ {tx}
  /\ UNCHANGED <<vars, no, page, flying, submits, reloads, historyVars>>

(* It aborts on chain or its blockhash expires; nothing tells the page. *)
Lost(tx) ==
  /\ flying' = flying \ {tx}
  /\ UNCHANGED <<vars, no, page, signing, submits, reloads, historyVars>>

--------------------------------------------------------------------------------

(* Everyone else on chain, as OrderBook has it. *)
Others ==
  /\ \/ InitOrderBook
     \/ GrowOrderBook
     \/ \E u \in Users \ {trader} :
          \/ \E price \in Prices, size \in Sizes :
               PlaceBid(u, price, size, FALSE) \/ PlaceAsk(u, price, size, FALSE)
          \/ \E seq \in 0..nextSeq : CancelBid(u, seq) \/ CancelAsk(u, seq)
     \/ MatchOrders
     \/ Pause(TRUE)
     \/ Settle
  /\ UNCHANGED <<no, clientVars, historyVars>>

ClientNext ==
  \/ \E query \in DOMAIN page : Read(query)
  \/ Reload \/ Revisit
  \/ \E f \in Forms, contracts \in Contracts, price \in Prices, qty \in Contracts :
       handleSubmit(f, contracts, price, qty)
  \/ handleRedeemPair
  \/ \E tx \in signing : broadcast(tx) \/ broadcastFails(tx)
  \/ \E tx \in flying : Land(tx) \/ Lost(tx)
  \/ Others

ClientSpec == ClientInit /\ [][ClientNext]_tradeVars

--------------------------------------------------------------------------------
(* Properties *)

(* As long as the side of the book a transaction was planned on has not       *)
(* moved, the plan of lib/solana/order-book.ts is the one matching.rs will    *)
(* make: same makers, same order, same sizes, limits included.                *)
PlanIsTheMatch ==
  \A tx \in flying :
    LET makers == IF tx.side = "bid" THEN asks ELSE bids
        fills == plan_fills(tx.side, makers, tx.price, tx.amount, tx.isMarket).fills
    IN tx.seen = makers =>
         /\ DOMAIN tx.planned = DOMAIN fills
         /\ \A i \in DOMAIN fills : /\ tx.planned[i].maker = fills[i].maker
                                    /\ tx.planned[i].size = fills[i].size

(* Position exclusivity as far as the page can keep it: a trader who submits  *)
(* only on balances just read, with no transaction under way and no order     *)
(* resting, never buys against a whole contract of the other side.  Against   *)
(* less than one it may: the page cannot see it.                              *)
CarefulTraderOneSided == ~hasty => ~opposed

(* What specs/bell-markets-spec.md promises of a Buy NO: if the YES sale does *)
(* not fill, the bundle fails as a whole.                                     *)
BuyNoAllOrNothing == landed.kind = "buyNo" => landed.filled = landed.amount
================================================================================
