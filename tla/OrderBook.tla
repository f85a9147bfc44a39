------------------------------- MODULE OrderBook -------------------------------
(******************************************************************************)
(* The in-program order book of one strike market (matching.rs, place_order,  *)
(* cancel_order, match_orders, init_order_book, grow_order_book): bids and    *)
(* asks in price-time order and the two escrow accounts behind them.          *)
(*                                                                            *)
(* Every instruction is atomic, so planning, settling and applying the fills  *)
(* of an order are one action; a failed check aborts all three.  The payout   *)
(* accounts a transaction lists for the makers are taken to be theirs, which  *)
(* verify_maker_account enforces; any other list fails and changes nothing.   *)
(*                                                                            *)
(* The rest of the strike market appears as three flags: the kill switch,     *)
(* whether config.usdc_mint is the mint of the escrow, and whether the        *)
(* outcome is settled.                                                        *)
(******************************************************************************)
EXTENDS OrderMath, Sequences, FiniteSets, Functions

CONSTANTS
  Users,        \* wallets
  InitialUsdc,  \* [Users -> Nat]
  InitialYes,   \* [Users -> Nat]
  Prices,       \* prices a caller may ask for
  Sizes,        \* sizes a caller may ask for
  SplAmounts,   \* amounts sent to the escrow accounts outside the program
  MintFlips,    \* directions config.usdc_mint may be flipped in
  ORDERBOOK_N,  \* slots on each side
  MAX_FILLS,    \* MAX_FILLS_PER_PLACE_ORDER, also the rounding pad of a bid
  MAX_PAIRS,    \* MAX_PAIRS_PER_CRANK
  U64_MAX       \* the largest u64; next_seq may not pass it

ASSUME OrderBookAssumption ==
  /\ InitialUsdc \in [Users -> Nat]
  /\ InitialYes \in [Users -> Nat]
  /\ Prices \subseteq Nat
  /\ Sizes \subseteq Nat
  /\ SplAmounts \subseteq Nat
  /\ MintFlips \subseteq BOOLEAN
  /\ ORDERBOOK_N \in Nat \ {0}
  /\ MAX_FILLS \in Nat \ {0}
  /\ MAX_PAIRS \in Nat \ {0}
  /\ U64_MAX \in Nat

VARIABLES
  stage,       \* life of the OrderBook account: see Stages
  bids,        \* order_book.bids[..bids_len]
  asks,        \* order_book.asks[..asks_len]
  nextSeq,     \* order_book.next_seq
  usdcEscrow,  \* usdc_escrow.amount
  yesEscrow,   \* yes_escrow.amount
  usdc,        \* USDC in each wallet
  yes,         \* YES in each wallet
  paused,      \* config.paused
  mintCurrent, \* config.usdc_mint is the mint of usdc_escrow
  settled,     \* strike_market.outcome # Unsettled
  strayUsdc,   \* history: USDC sent to usdc_escrow outside the program
  strayYes     \* history: YES sent to yes_escrow outside the program

bookVars   == <<stage, bids, asks, nextSeq>>
escrowVars == <<usdcEscrow, yesEscrow>>
walletVars == <<usdc, yes>>
gateVars   == <<paused, mintCurrent, settled>>
strayVars  == <<strayUsdc, strayYes>>
vars == <<bookVars, escrowVars, walletVars, gateVars, strayVars>>

(* absent, then short of OrderBook::LEN, then grown and wired for trading. *)
Stages == {"absent", "allocated", "wired"}

Order == [owner : Users, price : Nat, size : Nat, seq : Nat]

Least(a, b) == IF a <= b THEN a ELSE b

Init ==
  /\ stage = "absent"
  /\ bids = <<>>
  /\ asks = <<>>
  /\ nextSeq = 0
  /\ usdcEscrow = 0
  /\ yesEscrow = 0
  /\ usdc = InitialUsdc
  /\ yes = InitialYes
  /\ paused = FALSE
  /\ mintCurrent = TRUE
  /\ settled = FALSE
  /\ strayUsdc = 0
  /\ strayYes = 0

--------------------------------------------------------------------------------
(* Creation, in two permissionless instructions *)

(* The USDC escrow takes whatever mint config names at that moment.           *)
InitOrderBook ==
  /\ ~paused
  /\ stage = "absent"
  /\ stage' = "allocated"
  /\ mintCurrent' = TRUE
  /\ UNCHANGED <<bids, asks, nextSeq, escrowVars, walletVars, paused, settled,
                 strayVars>>

(* The first call clears both lengths and opens trading, a later one only     *)
(* rewires the gate.                                                          *)
GrowOrderBook ==
  /\ ~paused
  /\ stage # "absent"
  /\ stage' = "wired"
  /\ bids' = IF stage = "allocated" THEN <<>> ELSE bids
  /\ asks' = IF stage = "allocated" THEN <<>> ELSE asks
  /\ UNCHANGED <<nextSeq, escrowVars, walletVars, gateVars, strayVars>>

--------------------------------------------------------------------------------
(* The sorted sides *)

BeforeBid(o, p) == o.price > p.price \/ (o.price = p.price /\ o.seq < p.seq)

BeforeAsk(o, p) == o.price < p.price \/ (o.price = p.price /\ o.seq < p.seq)

(* The new order goes in front of the first one it precedes. *)
InsertSorted(side, order, Before(_, _)) ==
  LET ahead == {i \in 1..Len(side) : \A j \in 1..i : ~Before(order, side[j])}
      idx == CHOOSE k \in 0..Len(side) : ahead = 1..k
  IN SubSeq(side, 1, idx) \o <<order>> \o SubSeq(side, idx + 1, Len(side))

(* Mutant: a new bid passes older bids of its own price. *)
insert_sorted_bid_Jumps(side, order) ==
  InsertSorted(side, order, LAMBDA o, p : o.price >= p.price)

insert_sorted_bid(side, order) == InsertSorted(side, order, BeforeBid)

insert_sorted_ask(side, order) == InsertSorted(side, order, BeforeAsk)

(* The slot of an order: the first one whose sequence number is its own. *)
find_order_index(side, seq) ==
  {i \in 1..Len(side) : side[i].seq = seq /\ \A j \in 1..(i - 1) : side[j].seq # seq}

(* remove_bid, remove_ask: the orders behind a slot move up by one. *)
remove_order(side, idx) ==
  [j \in 1..(Len(side) - 1) |-> IF j < idx THEN side[j] ELSE side[j + 1]]

(* What is left of a side when size has been taken from its best order; an    *)
(* emptied order leaves the book.                                             *)
TakeBest(side, size) ==
  IF Head(side).size = size THEN Tail(side)
  ELSE [side EXCEPT ![1].size = @ - size]

--------------------------------------------------------------------------------
(* Planning *)

(* Mutant: equal prices do not meet. *)
Crosses_Strict(side, maker, price, isMarket) ==
  \/ isMarket
  \/ side = "bid" /\ maker.price < price
  \/ side = "ask" /\ maker.price > price

(* Whether an incoming order of the given side meets a resting one. *)
Crosses(side, maker, price, isMarket) ==
  \/ isMarket
  \/ side = "bid" /\ maker.price <= price
  \/ side = "ask" /\ maker.price >= price

(* One fill: the best maker gives what it has or what is still wanted, at its *)
(* own price.                                                                 *)
FillBest(w) ==
  LET maker == Head(w.makers)
      taken == Least(w.left, maker.size)
  IN [makers |-> TakeBest(w.makers, taken),
      left   |-> w.left - taken,
      fills  |-> Append(w.fills,
        [maker |-> maker.owner, size |-> taken,
         usdc |-> fill_usdc(maker.price, maker.size, maker.size - taken)])]

Fillable(side, w, price, isMarket) ==
  /\ w.left > 0
  /\ w.makers # <<>>
  /\ Crosses(side, Head(w.makers), price, isMarket)

(* plan_fills and apply_fills together: the walk takes the best maker while   *)
(* some size is left and it crosses, MAX_FILLS times at most.  Earlier        *)
(* makers are emptied before later ones are reached, so the best of what      *)
(* remains is the next index of the code.                                     *)
plan_fills(side, makers, price, size, isMarket) ==
  LET walk[n \in 0..MAX_FILLS] ==
        IF n = 0 THEN [makers |-> makers, left |-> size, fills |-> <<>>]
        ELSE LET w == walk[n - 1] IN
             IF Fillable(side, w, price, isMarket) THEN FillBest(w) ELSE w
  IN walk[MAX_FILLS]

TotalSize(fills) == SumFunction([i \in DOMAIN fills |-> fills[i].size])

TotalUsdc(fills) == SumFunction([i \in DOMAIN fills |-> fills[i].usdc])

PaidTo(u, fills) ==
  SumFunction([i \in DOMAIN fills |-> IF fills[i].maker = u THEN fills[i].usdc ELSE 0])

DeliveredTo(u, fills) ==
  SumFunction([i \in DOMAIN fills |-> IF fills[i].maker = u THEN fills[i].size ELSE 0])

(* The deposit of a bid: its cost, or a dollar per YES for a market order,    *)
(* and one unit for the rounding of each fill.                                *)
escrow_in_usdc(price, size, isMarket) ==
  (IF isMarket THEN size ELSE bid_cost_ceil(price, size)) + MAX_FILLS

(* What stays in escrow for a resting remainder. *)
RestingCost(price, left, isMarket) ==
  IF isMarket THEN 0 ELSE bid_cost_ceil(price, left)

--------------------------------------------------------------------------------
(* Trading *)

TradingOpen == stage = "wired" /\ ~paused /\ mintCurrent /\ ~settled

ValidOrder(price, size, isMarket) ==
  /\ size > 0
  /\ isMarket \/ price \in 1..PRICE_SCALE

(* A limit order with size left needs a slot and a sequence number. *)
CanRest(side, left, isMarket) ==
  left > 0 /\ ~isMarket => Len(side) < ORDERBOOK_N /\ nextSeq < U64_MAX

Rested(u, price, left) == [owner |-> u, price |-> price, size |-> left, seq |-> nextSeq]

NextSeqAfter(left, isMarket) == IF left > 0 /\ ~isMarket THEN nextSeq + 1 ELSE nextSeq

(* The deposit less what the makers and the resting remainder need comes back. *)
PlaceBid(u, price, size, isMarket) ==
  LET plan == plan_fills("bid", asks, price, size, isMarket)
      deposit == escrow_in_usdc(price, size, isMarket)
      spent == TotalUsdc(plan.fills)
      kept == RestingCost(price, plan.left, isMarket)
      bought == TotalSize(plan.fills)
  IN
  /\ TradingOpen
  /\ ValidOrder(price, size, isMarket)
  /\ deposit <= usdc[u]
  /\ spent + kept <= deposit
  /\ bought <= yesEscrow
  /\ CanRest(bids, plan.left, isMarket)
  /\ usdc' = [v \in Users |-> usdc[v] + PaidTo(v, plan.fills)
                                - (IF v = u THEN spent + kept ELSE 0)]
  /\ yes' = [yes EXCEPT ![u] = @ + bought]
  /\ usdcEscrow' = usdcEscrow + kept
  /\ yesEscrow' = yesEscrow - bought
  /\ asks' = plan.makers
  /\ bids' = IF plan.left > 0 /\ ~isMarket
             THEN insert_sorted_bid(bids, Rested(u, price, plan.left)) ELSE bids
  /\ nextSeq' = NextSeqAfter(plan.left, isMarket)
  /\ UNCHANGED <<stage, gateVars, strayVars>>

PlaceAsk(u, price, size, isMarket) ==
  LET plan == plan_fills("ask", bids, price, size, isMarket)
      earned == TotalUsdc(plan.fills)
      kept == IF isMarket THEN 0 ELSE plan.left
      sold == TotalSize(plan.fills)
  IN
  /\ TradingOpen
  /\ ValidOrder(price, size, isMarket)
  /\ size <= yes[u]
  /\ earned <= usdcEscrow
  /\ CanRest(asks, plan.left, isMarket)
  /\ yes' = [v \in Users |-> yes[v] + DeliveredTo(v, plan.fills)
                               - (IF v = u THEN sold + kept ELSE 0)]
  /\ usdc' = [usdc EXCEPT ![u] = @ + earned]
  /\ yesEscrow' = yesEscrow + kept
  /\ usdcEscrow' = usdcEscrow - earned
  /\ bids' = plan.makers
  /\ asks' = IF plan.left > 0 /\ ~isMarket
             THEN insert_sorted_ask(asks, Rested(u, price, plan.left)) ELSE asks
  /\ nextSeq' = NextSeqAfter(plan.left, isMarket)
  /\ UNCHANGED <<stage, gateVars, strayVars>>

--------------------------------------------------------------------------------
(* Cancelling: neither the kill switch nor the outcome is asked *)

(* Mutant: the kill switch also stops withdrawals. *)
CancelOpen_PauseGated == stage = "wired" /\ mintCurrent /\ ~paused

CancelOpen == stage = "wired" /\ mintCurrent

CancelBid(u, seq) ==
  \E i \in find_order_index(bids, seq) :
    LET refund == bid_cost_ceil(bids[i].price, bids[i].size) IN
    /\ CancelOpen
    /\ bids[i].owner = u
    /\ refund <= usdcEscrow
    /\ usdc' = [usdc EXCEPT ![u] = @ + refund]
    /\ usdcEscrow' = usdcEscrow - refund
    /\ bids' = remove_order(bids, i)
    /\ UNCHANGED <<stage, asks, nextSeq, yesEscrow, yes, gateVars, strayVars>>

CancelAsk(u, seq) ==
  \E i \in find_order_index(asks, seq) :
    LET refund == asks[i].size IN
    /\ CancelOpen
    /\ asks[i].owner = u
    /\ refund <= yesEscrow
    /\ yes' = [yes EXCEPT ![u] = @ + refund]
    /\ yesEscrow' = yesEscrow - refund
    /\ asks' = remove_order(asks, i)
    /\ UNCHANGED <<stage, bids, nextSeq, usdcEscrow, usdc, gateVars, strayVars>>

--------------------------------------------------------------------------------
(* The permissionless crank *)

(* The best bid and the best ask of two sides meet. *)
BestsCross(b, a) == b # <<>> /\ a # <<>> /\ Head(b).price >= Head(a).price

(* Mutant: equal prices do not trade. *)
PairTrades_Strict(b, a) == b # <<>> /\ a # <<>> /\ Head(b).price > Head(a).price

(* The condition under which the sweep adds one more pair. *)
PairTrades(b, a) == BestsCross(b, a)

(* One pair: the two best orders trade at the bid's price. *)
TradeBests(s) ==
  LET bid == Head(s.bids)
      ask == Head(s.asks)
      size == Least(bid.size, ask.size)
  IN [bids  |-> TakeBest(s.bids, size),
      asks  |-> TakeBest(s.asks, size),
      pairs |-> Append(s.pairs,
        [buyer |-> bid.owner, seller |-> ask.owner, size |-> size,
         usdc |-> fill_usdc(bid.price, bid.size, bid.size - size)])]

(* The sweep of match_orders: pairs trade until the bests no longer cross or  *)
(* MAX_PAIRS of them are planned.                                             *)
CrankPlan ==
  LET sweep[n \in 0..MAX_PAIRS] ==
        IF n = 0 THEN [bids |-> bids, asks |-> asks, pairs |-> <<>>]
        ELSE LET s == sweep[n - 1] IN
             IF PairTrades(s.bids, s.asks) THEN TradeBests(s) ELSE s
  IN sweep[MAX_PAIRS]

MatchOrders ==
  LET plan == CrankPlan
      paid == TotalUsdc(plan.pairs)
      delivered == TotalSize(plan.pairs)
      Received(f(_)) == SumFunction([i \in DOMAIN plan.pairs |-> f(plan.pairs[i])])
  IN
  /\ TradingOpen
  /\ paid <= usdcEscrow
  /\ delivered <= yesEscrow
  /\ usdc' = [v \in Users |-> usdc[v] +
                Received(LAMBDA p : IF p.seller = v THEN p.usdc ELSE 0)]
  /\ yes' = [v \in Users |-> yes[v] +
               Received(LAMBDA p : IF p.buyer = v THEN p.size ELSE 0)]
  /\ usdcEscrow' = usdcEscrow - paid
  /\ yesEscrow' = yesEscrow - delivered
  /\ bids' = plan.bids
  /\ asks' = plan.asks
  /\ UNCHANGED <<stage, nextSeq, gateVars, strayVars>>

--------------------------------------------------------------------------------
(* The rest of the program, as far as the book sees it *)

Pause(b) ==
  /\ paused' = b
  /\ UNCHANGED <<bookVars, escrowVars, walletVars, mintCurrent, settled, strayVars>>

UpdateUsdcMint(b) ==
  /\ mintCurrent' = b
  /\ UNCHANGED <<bookVars, escrowVars, walletVars, paused, settled, strayVars>>

(* settle_market or admin_settle: resting orders stay where they are. *)
Settle ==
  /\ ~paused
  /\ ~settled
  /\ settled' = TRUE
  /\ UNCHANGED <<bookVars, escrowVars, walletVars, paused, mintCurrent, strayVars>>

(* The SPL Token program, external: tokens sent straight to an escrow. *)
SplStray(u, amount) ==
  /\ stage # "absent"
  /\ amount > 0
  /\ \/ /\ amount <= usdc[u]
        /\ usdc' = [usdc EXCEPT ![u] = @ - amount]
        /\ usdcEscrow' = usdcEscrow + amount
        /\ strayUsdc' = strayUsdc + amount
        /\ UNCHANGED <<yes, yesEscrow, strayYes>>
     \/ /\ amount <= yes[u]
        /\ yes' = [yes EXCEPT ![u] = @ - amount]
        /\ yesEscrow' = yesEscrow + amount
        /\ strayYes' = strayYes + amount
        /\ UNCHANGED <<usdc, usdcEscrow, strayUsdc>>
  /\ UNCHANGED <<bookVars, gateVars>>

TraderStep(u) ==
  \/ \E price \in Prices, size \in Sizes, isMarket \in BOOLEAN :
       PlaceBid(u, price, size, isMarket) \/ PlaceAsk(u, price, size, isMarket)
  \/ \E seq \in 0..nextSeq : CancelBid(u, seq) \/ CancelAsk(u, seq)

Next ==
  \/ InitOrderBook
  \/ GrowOrderBook
  \/ \E u \in Users : TraderStep(u)
  \/ MatchOrders
  \/ \E b \in BOOLEAN : Pause(b)
  \/ \E b \in MintFlips : UpdateUsdcMint(b)
  \/ Settle
  \/ \E u \in Users, amount \in SplAmounts : SplStray(u, amount)

Spec == Init /\ [][Next]_vars

--------------------------------------------------------------------------------
(* Properties *)

SumOver(side, f(_)) == SumFunction([i \in DOMAIN side |-> f(side[i])])

BidCost(o) == bid_cost_ceil(o.price, o.size)

(* Each escrow holds exactly what the resting orders could claim from it: the *)
(* roundings of partial fills telescope and leave no dust and no hole.        *)
EscrowExact ==
  /\ usdcEscrow = SumOver(bids, BidCost) + strayUsdc
  /\ yesEscrow = SumOver(asks, LAMBDA o : o.size) + strayYes

(* Price-time priority: each side is strictly sorted and fits its slots, no   *)
(* emptied order stays, and no sequence number names two orders, whichever    *)
(* the side.                                                                  *)
PriceTimePriority ==
  /\ Len(bids) <= ORDERBOOK_N /\ Len(asks) <= ORDERBOOK_N
  /\ \A i, j \in 1..Len(bids) : i < j =>
       BeforeBid(bids[i], bids[j]) /\ bids[i].seq # bids[j].seq
  /\ \A i, j \in 1..Len(asks) : i < j =>
       BeforeAsk(asks[i], asks[j]) /\ asks[i].seq # asks[j].seq
  /\ \A o \in Range(bids) \cup Range(asks) : o.size > 0 /\ o.seq < nextSeq
  /\ \A o \in Range(bids), p \in Range(asks) : o.seq # p.seq

(* While the mint of config is the escrow's, every resting order can be       *)
(* withdrawn in full, paused or settled or not.                               *)
OrdersReclaimable ==
  mintCurrent =>
    /\ \A o \in Range(bids) : ENABLED CancelBid(o.owner, o.seq)
    /\ \A o \in Range(asks) : ENABLED CancelAsk(o.owner, o.seq)

(* A book is left crossed only by an order that used up its MAX_FILLS. *)
CrossedOnlyByFillLimit ==
  [][BestsCross(bids', asks') /\ ~BestsCross(bids, asks) =>
       \/ Len(asks') <= Len(asks) - MAX_FILLS
       \/ Len(bids') <= Len(bids) - MAX_FILLS]_vars

(* Whenever trading is open the crank can run: its two escrows cover what it  *)
(* plans, and it resolves a crossed book or empties MAX_PAIRS orders of it.   *)
CrankProgress ==
  TradingOpen =>
    LET plan == CrankPlan IN
    /\ ENABLED MatchOrders
    /\ \/ ~BestsCross(plan.bids, plan.asks)
       \/ Len(plan.bids) + Len(plan.asks) <= Len(bids) + Len(asks) - MAX_PAIRS
================================================================================
