---------------------------- MODULE OrderBookProofs ----------------------------
(******************************************************************************)
(* Theorems about OrderBook, for any users, prices, sizes, slots and limits:  *)
(* exact escrow, price-time priority, when a book may be left crossed, and    *)
(* that the crank and every cancellation find their guards met; and about     *)
(* TradeClient: the trading page plans the fills the program will make, and a *)
(* trader who submits only what the page shows holds one side of a market.    *)
(*                                                                            *)
(* The walk of plan_fills and the sweep of match_orders are recursions of     *)
(* MAX_FILLS and MAX_PAIRS steps; each is carried by an invariant that is     *)
(* proved by induction on the step.  The page adds up sizes instead, and the  *)
(* walk's invariant is what relates the two.  Sums over a side or over a plan *)
(* are weights of sequences (SumTheorems), so that inserting, shrinking and   *)
(* removing an order each change one term.                                    *)
(******************************************************************************)
EXTENDS TradeClient, SumTheorems

--------------------------------------------------------------------------------
(* Arithmetic *)

(* The escrow of a bid grows with its size. *)
LEMMA CostMonotone ==
  ASSUME NEW p \in Nat, NEW a \in Nat, NEW b \in Nat, a <= b
  PROVE  /\ bid_cost_ceil(p, a) \in Nat
         /\ bid_cost_ceil(p, a) <= bid_cost_ceil(p, b)
<1>1. PRICE_SCALE \in Nat \ {0}
  BY OrderMathAssumption DEF OrderMathAssumption
<1>2. p * a \in Nat /\ p * b \in Nat /\ p * a <= p * b
  OBVIOUS
<1> DEFINE x == p * a + (PRICE_SCALE - 1)
           y == p * b + (PRICE_SCALE - 1)
<1>3. x \in Nat /\ y \in Nat /\ x <= y
  BY <1>1, <1>2
<1> HIDE DEF x, y
<1>4. x \div PRICE_SCALE \in Nat /\ x \div PRICE_SCALE <= y \div PRICE_SCALE
  BY <1>1, <1>3
<1> QED
  BY <1>4 DEF bid_cost_ceil, x, y

(* The escrow of a bid is a natural number. *)
LEMMA CostNat ==
  ASSUME NEW p \in Nat, NEW a \in Nat
  PROVE  bid_cost_ceil(p, a) \in Nat
<1>1. a <= a
  OBVIOUS
<1> QED
  BY <1>1, CostMonotone

(* An emptied bid escrows nothing. *)
LEMMA CostZero ==
  ASSUME NEW p \in Nat
  PROVE  bid_cost_ceil(p, 0) = 0
<1>1. PRICE_SCALE \in Nat \ {0}
  BY OrderMathAssumption DEF OrderMathAssumption
<1>2. (PRICE_SCALE - 1) \div PRICE_SCALE = 0
  BY <1>1
<1> QED
  BY <1>1, <1>2 DEF bid_cost_ceil

(* A fill is charged what the escrow of the order it shrinks goes down by:    *)
(* the roundings telescope, and the last fill takes what is left.             *)
LEMMA FillMath ==
  ASSUME NEW p \in Nat, NEW a \in Nat, NEW b \in Nat, b <= a
  PROVE  /\ fill_usdc(p, a, b) \in Nat
         /\ fill_usdc(p, a, b) = bid_cost_ceil(p, a) - bid_cost_ceil(p, b)
         /\ fill_usdc(p, a, 0) = bid_cost_ceil(p, a)
<1>1. bid_cost_ceil(p, a) \in Nat /\ bid_cost_ceil(p, b) \in Nat
  BY CostNat
<1>2. bid_cost_ceil(p, b) <= bid_cost_ceil(p, a) /\ bid_cost_ceil(p, 0) = 0
  BY CostMonotone, CostZero
<1> QED
  BY <1>1, <1>2 DEF fill_usdc

--------------------------------------------------------------------------------
(* Sorted sides *)

(* A side of the book: orders with something left. *)
Side == {s \in Seq(Order) : \A j \in 1..Len(s) : s[j].size > 0}

(* The index insert_sorted looks for: everything in front of it is not        *)
(* preceded, the one at it is.                                                *)
LEMMA InsertIndex ==
  ASSUME NEW n \in Nat, NEW B
  PROVE  \E k \in 0..n : /\ {i \in 1..n : \A j \in 1..i : j \notin B} = 1..k
                         /\ \A j \in 1..k : j \notin B
                         /\ k < n => k + 1 \in B
<1> DEFINE Q(k) == (\A j \in 1..k : j \notin B) /\ (k < n => k + 1 \in B)
           T == {m \in Nat : m <= n => \/ \E k \in 0..n : Q(k)
                                     \/ \A j \in 1..m : j \notin B}
<1>1. 0 \in T
  OBVIOUS
<1>2. ASSUME NEW m \in Nat, m \in T PROVE m + 1 \in T
  <2> SUFFICES ASSUME m + 1 <= n, ~\E k \in 0..n : Q(k)
               PROVE  \A j \in 1..(m + 1) : j \notin B
    OBVIOUS
  <2>1. \A j \in 1..m : j \notin B
    BY <1>2
  <2>2. m + 1 \notin B
    BY <2>1
  <2> QED
    BY <2>1, <2>2
<1>3. n \in T
  <2> HIDE DEF T
  <2> QED
    BY <1>1, <1>2, NatInductionSet
<1>4. Q(n) \/ \E k \in 0..n : Q(k)
  BY <1>3
<1>5. PICK k \in 0..n : Q(k)
  BY <1>4
<1>6. {i \in 1..n : \A j \in 1..i : j \notin B} = 1..k
  <2>1. ASSUME NEW i \in 1..n, \A j \in 1..i : j \notin B PROVE i <= k
    <3>1. SUFFICES ASSUME k < i PROVE FALSE
      OBVIOUS
    <3>2. k + 1 \in B /\ k + 1 \in 1..i
      BY <1>5, <3>1
    <3> QED
      BY <2>1, <3>2
  <2>2. ASSUME NEW i \in 1..k PROVE i \in 1..n /\ \A j \in 1..i : j \notin B
    BY <1>5
  <2> QED
    BY <2>1, <2>2
<1> QED
  BY <1>5, <1>6

(* new is old with the order e put in at k + 1. *)
Inserted(new, old, e, k) ==
  /\ new \in Seq(Order)
  /\ TakenOut(old, new, k + 1)
  /\ new[k + 1] = e

(* Cutting a side in two and putting an order between the halves inserts it. *)
LEMMA InsertedAt ==
  ASSUME NEW s \in Seq(Order), NEW e \in Order, NEW k \in 0..Len(s)
  PROVE  Inserted(SubSeq(s, 1, k) \o <<e>> \o SubSeq(s, k + 1, Len(s)), s, e, k)
<1> DEFINE a == SubSeq(s, 1, k)
           b == SubSeq(s, k + 1, Len(s))
           r == a \o <<e>> \o b
<1>1. /\ a \in Seq(Order) /\ Len(a) = k
      /\ \A j \in 1..k : a[j] = s[j]
  BY SubSeqProperties
<1>2. /\ b \in Seq(Order) /\ Len(b) = Len(s) - k
      /\ \A j \in 1..(Len(s) - k) : b[j] = s[k + j]
  BY SubSeqProperties
<1> HIDE DEF a, b
<1> DEFINE c == a \o <<e>>
<1>3. /\ c \in Seq(Order) /\ Len(c) = k + 1 /\ c[k + 1] = e
      /\ \A j \in 1..k : c[j] = s[j]
  <2>1. <<e>> \in Seq(Order) /\ Len(<<e>>) = 1 /\ <<e>>[1] = e
    OBVIOUS
  <2> DEFINE d == <<e>>
  <2> HIDE DEF d
  <2>2. /\ a \o d \in Seq(Order)
        /\ Len(a \o d) = Len(a) + Len(d)
        /\ \A i \in 1 .. Len(a) + Len(d) : (a \o d)[i] =
                     IF i <= Len(a) THEN a[i] ELSE d[i - Len(a)]
    BY <1>1, <2>1, ConcatProperties DEF d
  <2> HIDE DEF c
  <2>3. c = a \o d
    BY DEF c, d
  <2> QED
    BY <1>1, <2>1, <2>2, <2>3 DEF d
<1> HIDE DEF c
<1>4. /\ c \o b \in Seq(Order)
      /\ Len(c \o b) = Len(c) + Len(b)
      /\ \A i \in 1 .. Len(c) + Len(b) : (c \o b)[i] =
                     IF i <= Len(c) THEN c[i] ELSE b[i - Len(c)]
  BY <1>3, <1>2, ConcatProperties
<1>5. r = c \o b
  BY DEF r, c
<1> HIDE DEF r
<1>6. r \in Seq(Order) /\ Len(r) = Len(s) + 1 /\ r[k + 1] = e
  BY <1>3, <1>4, <1>5, <1>2
<1>7. ASSUME NEW j \in 1..Len(s), j < k + 1 PROVE s[j] = r[j]
  BY <1>3, <1>4, <1>5, <1>2, <1>7
<1>8. ASSUME NEW j \in 1..Len(s), ~(j < k + 1) PROVE s[j] = r[j + 1]
  <2>1. j - k \in 1..(Len(s) - k)
    BY <1>8
  <2>2. r[j + 1] = b[j - k]
    BY <1>3, <1>4, <1>5, <1>2, <1>8
  <2>3. b[j - k] = s[k + (j - k)] /\ k + (j - k) = j
    BY <1>2, <2>1
  <2> QED
    BY <2>2, <2>3
<1> HIDE DEF r
<1>9. Inserted(r, s, e, k)
  BY <1>6, <1>7, <1>8 DEF Inserted, TakenOut
<1> QED
  BY <1>9 DEF a, b, r

(* insert_sorted_bid puts the order where the orders before it are not        *)
(* preceded by it and the order behind it is.                                 *)
LEMMA InsertBid ==
  ASSUME NEW s \in Seq(Order), NEW e \in Order
  PROVE  \E k \in 0..Len(s) :
           /\ Inserted(insert_sorted_bid(s, e), s, e, k)
           /\ \A j \in 1..k : ~BeforeBid(e, s[j])
           /\ k < Len(s) => BeforeBid(e, s[k + 1])
<1> DEFINE n == Len(s)
           B == {j \in 1..n : BeforeBid(e, s[j])}
           ahead == {i \in 1..n : \A j \in 1..i : ~BeforeBid(e, s[j])}
           idx == CHOOSE k \in 0..n : ahead = 1..k
<1>1. n \in Nat
  OBVIOUS
<1>2. ahead = {i \in 1..n : \A j \in 1..i : j \notin B}
  OBVIOUS
<1>3. PICK k \in 0..n : /\ {i \in 1..n : \A j \in 1..i : j \notin B} = 1..k
                        /\ \A j \in 1..k : j \notin B
                        /\ k < n => k + 1 \in B
  <2> HIDE DEF n, B
  <2> QED
    BY <1>1, InsertIndex, ZenonT(30)
<1>4. \A j \in 0..n : 1..j = 1..k => j = k
  OBVIOUS
<1>5. idx = k
  <2> HIDE DEF n, B, ahead
  <2> QED
    BY <1>2, <1>3, <1>4
<1>6. insert_sorted_bid(s, e) = SubSeq(s, 1, k) \o <<e>> \o SubSeq(s, k + 1, n)
  BY <1>5 DEF insert_sorted_bid, InsertSorted
<1> QED
  BY <1>3, <1>6, InsertedAt

(* The same of insert_sorted_ask. *)
LEMMA InsertAsk ==
  ASSUME NEW s \in Seq(Order), NEW e \in Order
  PROVE  \E k \in 0..Len(s) :
           /\ Inserted(insert_sorted_ask(s, e), s, e, k)
           /\ \A j \in 1..k : ~BeforeAsk(e, s[j])
           /\ k < Len(s) => BeforeAsk(e, s[k + 1])
<1> DEFINE n == Len(s)
           B == {j \in 1..n : BeforeAsk(e, s[j])}
           ahead == {i \in 1..n : \A j \in 1..i : ~BeforeAsk(e, s[j])}
           idx == CHOOSE k \in 0..n : ahead = 1..k
<1>1. n \in Nat
  OBVIOUS
<1>2. ahead = {i \in 1..n : \A j \in 1..i : j \notin B}
  OBVIOUS
<1>3. PICK k \in 0..n : /\ {i \in 1..n : \A j \in 1..i : j \notin B} = 1..k
                        /\ \A j \in 1..k : j \notin B
                        /\ k < n => k + 1 \in B
  <2> HIDE DEF n, B
  <2> QED
    BY <1>1, InsertIndex, ZenonT(30)
<1>4. \A j \in 0..n : 1..j = 1..k => j = k
  OBVIOUS
<1>5. idx = k
  <2> HIDE DEF n, B, ahead
  <2> QED
    BY <1>2, <1>3, <1>4
<1>6. insert_sorted_ask(s, e) = SubSeq(s, 1, k) \o <<e>> \o SubSeq(s, k + 1, n)
  BY <1>5 DEF insert_sorted_ask, InsertSorted
<1> QED
  BY <1>3, <1>6, InsertedAt

(* remove_order is undone by an insertion. *)
LEMMA RemoveInserts ==
  ASSUME NEW s \in Seq(Order), NEW i \in 1..Len(s)
  PROVE  Inserted(s, remove_order(s, i), s[i], i - 1) /\ remove_order(s, i) \in Seq(Order)
<1> DEFINE r == remove_order(s, i)
           n == Len(s) - 1
<1>1. n \in Nat /\ r = [j \in 1..n |-> IF j < i THEN s[j] ELSE s[j + 1]]
  BY DEF remove_order
<1>2. \A j \in 1..n : j \in 1..Len(s) /\ j + 1 \in 1..Len(s)
  OBVIOUS
<1>3. \A j \in 1..n : r[j] \in Order /\ r[j] = IF j < i THEN s[j] ELSE s[j + 1]
  BY <1>1, <1>2
<1>4. r \in Seq(Order) /\ Len(r) = n
  <2> HIDE DEF r, n
  <2>1. r \in [1..n -> Order]
    BY <1>1, <1>3
  <2> QED
    BY <1>1, <2>1
<1> HIDE DEF r
<1> QED
  BY <1>3, <1>4 DEF Inserted, TakenOut, r

(* So is dropping the best order. *)
LEMMA TailInserts ==
  ASSUME NEW s \in Seq(Order), s # <<>>
  PROVE  Inserted(s, Tail(s), s[1], 0) /\ Tail(s) \in Seq(Order)
<1>1. /\ Tail(s) \in Seq(Order) /\ Len(Tail(s)) = Len(s) - 1
      /\ \A j \in 1..Len(Tail(s)) : Tail(s)[j] = s[j + 1]
  BY HeadTailProperties
<1> QED
  BY <1>1 DEF Inserted, TakenOut

(* What an order weighs: its size, or the USDC its escrow must hold. *)
SizeOf == [o \in Order |-> o.size]

CostOf == [o \in Order |-> BidCost(o)]

(* What the two weights of an order are. *)
LEMMA WeightsOfOrders ==
  /\ \A o \in Order : SizeOf[o] = o.size /\ SizeOf[o] \in Nat
  /\ \A o \in Order : CostOf[o] = bid_cost_ceil(o.price, o.size) /\ CostOf[o] \in Nat
<1>1. ASSUME NEW o \in Order PROVE o.size \in Nat /\ o.price \in Nat
  BY DEF Order
<1>2. ASSUME NEW o \in Order PROVE CostOf[o] = bid_cost_ceil(o.price, o.size)
  BY DEF CostOf, BidCost
<1>3. ASSUME NEW o \in Order PROVE bid_cost_ceil(o.price, o.size) \in Nat
  BY <1>1, CostNat
<1>4. ASSUME NEW o \in Order PROVE SizeOf[o] = o.size
  BY DEF SizeOf
<1> QED
  BY <1>1, <1>2, <1>3, <1>4

(* The weights are functions the lemmas on weighed sequences apply to. *)
LEMMA IntegerWeights == SizeOf \in [Order -> Int] /\ CostOf \in [Order -> Int]
<1>1. \A n \in Nat : n \in Int
  OBVIOUS
<1>2. SizeOf = [o \in Order |-> SizeOf[o]] /\ CostOf = [o \in Order |-> CostOf[o]]
  BY DEF SizeOf, CostOf
<1>3. \A o \in Order : SizeOf[o] \in Int /\ CostOf[o] \in Int
  BY <1>1, WeightsOfOrders
<1> QED
  BY <1>2, <1>3

(* Inserting an order adds its weight. *)
LEMMA InsertedWeighs ==
  ASSUME NEW new, NEW old \in Seq(Order), NEW e \in Order, NEW k \in 0..Len(old),
         Inserted(new, old, e, k)
  PROVE  /\ Weigh(new, SizeOf) = e.size + Weigh(old, SizeOf)
         /\ Weigh(new, CostOf) = bid_cost_ceil(e.price, e.size) + Weigh(old, CostOf)
<1> DEFINE p == k + 1
<1>1. new \in Seq(Order) /\ new[p] = e /\ TakenOut(old, new, p)
  BY DEF Inserted
<1> HIDE DEF p
<1>2. Weigh(new, SizeOf) = SizeOf[new[p]] + Weigh(old, SizeOf)
  BY <1>1, IntegerWeights, WeighTakeOut
<1>3. Weigh(new, CostOf) = CostOf[new[p]] + Weigh(old, CostOf)
  BY <1>1, IntegerWeights, WeighTakeOut
<1> QED
  BY <1>1, <1>2, <1>3, WeightsOfOrders

(* Replacing an order replaces its weight. *)
LEMMA ReplacedWeighs ==
  ASSUME NEW new \in Seq(Order), NEW old \in Seq(Order), NEW p, Replaced(new, old, p)
  PROVE  /\ Weigh(new, SizeOf) = Weigh(old, SizeOf) - SizeOf[old[p]] + SizeOf[new[p]]
         /\ Weigh(new, CostOf) = Weigh(old, CostOf) - CostOf[old[p]] + CostOf[new[p]]
<1>1. ASSUME NEW wt \in [Order -> Int]
      PROVE  Weigh(new, wt) = Weigh(old, wt) - wt[old[p]] + wt[new[p]]
  BY WeighChange
<1> QED
  BY <1>1, IntegerWeights

(* r is what fills have left of s: its last orders, the first of them perhaps *)
(* smaller.                                                                   *)
LeftOf(r, s) ==
  \E d \in 0..Len(s) :
    /\ Len(r) = Len(s) - d
    /\ \A j \in 1..Len(r) : /\ r[j].owner = s[j + d].owner
                            /\ r[j].price = s[j + d].price
                            /\ r[j].seq = s[j + d].seq

(* A side is what no fill has left of it. *)
LEMMA LeftOfSelf ==
  ASSUME NEW s \in Seq(Order)
  PROVE  LeftOf(s, s)
<1>1. 0 \in 0..Len(s) /\ Len(s) = Len(s) - 0 /\ \A j \in 1..Len(s) : j + 0 = j
  OBVIOUS
<1> QED
  BY <1>1 DEF LeftOf

(* Fills compose. *)
LEMMA LeftOfLeft ==
  ASSUME NEW s \in Seq(Order), NEW r \in Seq(Order), NEW q \in Seq(Order),
         LeftOf(r, s), LeftOf(q, r)
  PROVE  LeftOf(q, s)
<1>1. PICK d \in 0..Len(s) :
        /\ Len(r) = Len(s) - d
        /\ \A j \in 1..Len(r) : /\ r[j].owner = s[j + d].owner
                                /\ r[j].price = s[j + d].price
                                /\ r[j].seq = s[j + d].seq
  BY DEF LeftOf
<1>2. PICK c \in 0..Len(r) :
        /\ Len(q) = Len(r) - c
        /\ \A j \in 1..Len(q) : /\ q[j].owner = r[j + c].owner
                                /\ q[j].price = r[j + c].price
                                /\ q[j].seq = r[j + c].seq
  BY DEF LeftOf
<1>3. c + d \in 0..Len(s) /\ Len(q) = Len(s) - (c + d)
  BY <1>1, <1>2
<1>4. ASSUME NEW j \in 1..Len(q)
      PROVE  /\ q[j].owner = s[j + (c + d)].owner
             /\ q[j].price = s[j + (c + d)].price
             /\ q[j].seq = s[j + (c + d)].seq
  <2>1. j + c \in 1..Len(r) /\ (j + c) + d = j + (c + d)
    BY <1>2
  <2> QED
    BY <1>1, <1>2, <2>1
<1> QED
  BY <1>3, <1>4 DEF LeftOf

(* A fill of the best order leaves a side that lost exactly the size taken    *)
(* and the USDC charged.                                                      *)
LEMMA TakeBestLeaves ==
  ASSUME NEW s \in Side, s # <<>>, NEW x \in 1..s[1].size
  PROVE  /\ TakeBest(s, x) \in Side
         /\ LeftOf(TakeBest(s, x), s)
         /\ Len(TakeBest(s, x)) = IF s[1].size = x THEN Len(s) - 1 ELSE Len(s)
         /\ Weigh(s, SizeOf) = x + Weigh(TakeBest(s, x), SizeOf)
         /\ Weigh(s, CostOf) = fill_usdc(s[1].price, s[1].size, s[1].size - x)
                                 + Weigh(TakeBest(s, x), CostOf)
<1> DEFINE r == TakeBest(s, x)
           a == s[1]
<1>0. /\ s \in Seq(Order) /\ Len(s) \in Nat /\ 1 \in 1..Len(s)
      /\ Head(s) = a /\ a \in Order /\ a.size \in Nat /\ a.price \in Nat
      /\ a.seq \in Nat /\ a.owner \in Users
      /\ \A j \in 1..Len(s) : s[j].size > 0 /\ s[j] \in Order
  <2>1. s \in Seq(Order) /\ \A j \in 1..Len(s) : s[j].size > 0
    BY DEF Side
  <2>2. Len(s) \in Nat /\ 1 \in 1..Len(s) /\ Head(s) = a
    BY <2>1
  <2>3. a \in Order /\ \A j \in 1..Len(s) : s[j] \in Order
    BY <2>1, <2>2
  <2>4. a.size \in Nat /\ a.price \in Nat /\ a.seq \in Nat /\ a.owner \in Users
    BY <2>3 DEF Order
  <2> QED
    BY <2>1, <2>2, <2>3, <2>4
<1>1. CASE a.size = x
  <2>1. r = Tail(s)
    BY <1>0, <1>1 DEF TakeBest
  <2>2. Inserted(s, Tail(s), a, 0) /\ Tail(s) \in Seq(Order)
    BY <1>0, TailInserts
  <2>3. /\ Len(Tail(s)) = Len(s) - 1
        /\ \A j \in 1..Len(Tail(s)) : Tail(s)[j] = s[j + 1] /\ j + 1 \in 1..Len(s)
    BY <1>0, HeadTailProperties
  <2> HIDE DEF r, a
  <2>4. r \in Side
    BY <1>0, <2>1, <2>2, <2>3 DEF Side
  <2>5. LeftOf(r, s)
    <3>1. 1 \in 0..Len(s)
      BY <1>0
    <3> QED
      BY <2>1, <2>3, <3>1 DEF LeftOf
  <2>6. /\ Weigh(s, SizeOf) = a.size + Weigh(r, SizeOf)
        /\ Weigh(s, CostOf) = bid_cost_ceil(a.price, a.size) + Weigh(r, CostOf)
    <3>1. 0 \in 0..Len(Tail(s))
      BY <2>2
    <3> QED
      BY <1>0, <2>1, <2>2, <3>1, InsertedWeighs
  <2>7. fill_usdc(a.price, a.size, a.size - x) = bid_cost_ceil(a.price, a.size)
    <3>1. a.size - x = 0 /\ 0 \in Nat /\ 0 <= a.size
      BY <1>0, <1>1
    <3> QED
      BY <1>0, <3>1, FillMath
  <2>8. Len(r) = Len(s) - 1
    BY <2>1, <2>3
  <2> QED
    BY <1>1, <2>4, <2>5, <2>6, <2>7, <2>8 DEF r, a
<1>2. CASE a.size # x
  <2> DEFINE b == [a EXCEPT !.size = @ - x]
  <2>1. r = [s EXCEPT ![1] = b]
    BY <1>0, <1>2 DEF TakeBest
  <2>2. /\ b \in Order /\ b.size = a.size - x /\ b.size > 0 /\ b.size \in Nat
        /\ b.price = a.price /\ b.seq = a.seq /\ b.owner = a.owner
    <3> HIDE DEF a
    <3>1. a.size - x \in Nat /\ a.size - x > 0
      BY <1>0, <1>2 DEF a
    <3>2. a \in Order
      BY <1>0
    <3> QED
      BY <3>1, <3>2 DEF Order
  <2> HIDE DEF a, b, r
  <2>3. /\ r \in Seq(Order) /\ Len(r) = Len(s)
        /\ r[1] = b /\ \A j \in 1..Len(s) : j # 1 => r[j] = s[j]
    BY <1>0, <2>1, <2>2
  <2>4. r \in Side
    BY <1>0, <2>2, <2>3 DEF Side
  <2>5. LeftOf(r, s)
    <3>1. 0 \in 0..Len(s) /\ Len(r) = Len(s) - 0
      BY <1>0, <2>3
    <3>2. \A j \in 1..Len(r) : /\ r[j].owner = s[j + 0].owner
                               /\ r[j].price = s[j + 0].price
                               /\ r[j].seq = s[j + 0].seq
      <4> SUFFICES ASSUME NEW j \in 1..Len(r)
                   PROVE  /\ r[j].owner = s[j].owner
                          /\ r[j].price = s[j].price
                          /\ r[j].seq = s[j].seq
        OBVIOUS
      <4> QED
        BY <2>2, <2>3 DEF a
    <3> QED
      BY <3>1, <3>2 DEF LeftOf
  <2>6. /\ Weigh(r, SizeOf) = Weigh(s, SizeOf) - SizeOf[s[1]] + SizeOf[r[1]]
        /\ Weigh(r, CostOf) = Weigh(s, CostOf) - CostOf[s[1]] + CostOf[r[1]]
    <3>1. Replaced(r, s, 1)
      BY <1>0, <2>3 DEF Replaced
    <3> QED
      BY <1>0, <2>3, <3>1, ReplacedWeighs
  <2>7. SizeOf[s[1]] = a.size /\ SizeOf[r[1]] = a.size - x
    BY <1>0, <2>2, <2>3, WeightsOfOrders DEF a
  <2>8. /\ CostOf[s[1]] = bid_cost_ceil(a.price, a.size)
        /\ CostOf[r[1]] = bid_cost_ceil(a.price, a.size - x)
    BY <1>0, <2>2, <2>3, WeightsOfOrders DEF a
  <2>9. /\ Weigh(r, SizeOf) \in Int /\ Weigh(s, SizeOf) \in Int
        /\ Weigh(r, CostOf) \in Int /\ Weigh(s, CostOf) \in Int
    BY <1>0, <2>3, IntegerWeights, WeighInt
  <2>10. /\ bid_cost_ceil(a.price, a.size) \in Nat
         /\ bid_cost_ceil(a.price, a.size - x) \in Nat
    BY <1>0, <2>2, CostNat
  <2>11. Weigh(s, SizeOf) = x + Weigh(r, SizeOf)
    <3>1. x \in Int /\ a.size \in Int
      BY <1>0
    <3> QED
      BY <2>6, <2>7, <2>9, <3>1
  <2>12. Weigh(s, CostOf) = fill_usdc(a.price, a.size, a.size - x) + Weigh(r, CostOf)
    BY <2>6, <2>8, <2>9, <2>10 DEF fill_usdc
  <2> QED
    BY <1>2, <2>3, <2>4, <2>5, <2>11, <2>12 DEF r, a
<1> QED
  BY <1>1, <1>2

--------------------------------------------------------------------------------
(* The walk of plan_fills *)

(* The walk of plan_fills, as a start and a step. *)
Start(makers, size) == [makers |-> makers, left |-> size, fills |-> <<>>]

WalkStep(side, w, price, isMarket) ==
  IF Fillable(side, w, price, isMarket) THEN FillBest(w) ELSE w

(* The recursion of plan_fills has a solution. *)
LEMMA WalkExists ==
  ASSUME NEW side, NEW makers, NEW price, NEW size, NEW isMarket
  PROVE  \A N \in Nat : \E f :
           f = [n \in 0..N |-> IF n = 0 THEN Start(makers, size)
                               ELSE WalkStep(side, f[n - 1], price, isMarket)]
<1> DEFINE Next1(f, n) == IF n = 0 THEN Start(makers, size)
                          ELSE WalkStep(side, f[n - 1], price, isMarket)
           T == {N \in Nat : \E f : f = [n \in 0..N |-> Next1(f, n)]}
<1>1. 0 \in T
  <2> DEFINE f == [n \in 0..0 |-> Start(makers, size)]
  <2>1. f = [n \in 0..0 |-> Next1(f, n)]
    <3>1. \A n \in 0..0 : n = 0
      OBVIOUS
    <3> QED
      BY <3>1
  <2> HIDE DEF f
  <2> QED
    BY <2>1
<1>2. ASSUME NEW N \in Nat, N \in T PROVE N + 1 \in T
  <2>1. PICK f : f = [n \in 0..N |-> Next1(f, n)]
    BY <1>2
  <2> DEFINE g == [n \in 0..(N + 1) |-> Next1(f, n)]
  <2>2. ASSUME NEW n \in 0..(N + 1) PROVE Next1(f, n) = Next1(g, n)
    <3>1. CASE n = 0
      BY <3>1
    <3>2. CASE n # 0
      <4>1. n - 1 \in 0..N /\ n - 1 \in 0..(N + 1)
        BY <3>2
      <4> HIDE DEF Next1
      <4>2. f[n - 1] = g[n - 1]
        BY <2>1, <4>1
      <4> HIDE DEF g
      <4> QED
        BY <3>2, <4>2 DEF Next1
    <3> QED
      BY <3>1, <3>2
  <2> HIDE DEF Next1
  <2>3. g = [n \in 0..(N + 1) |-> Next1(g, n)]
    BY <2>2
  <2> HIDE DEF g
  <2> QED
    BY <2>3
<1> HIDE DEF T
<1>3. Nat \subseteq T
  BY <1>1, <1>2, NatInductionSet
<1> QED
  BY <1>3 DEF T

(* plan_fills is the last step of a walk that begins with all of the size. *)
LEMMA PlanIsWalk ==
  ASSUME NEW side, NEW makers, NEW price, NEW size, NEW isMarket
  PROVE  \E walk :
           /\ plan_fills(side, makers, price, size, isMarket) = walk[MAX_FILLS]
           /\ walk[0] = Start(makers, size)
           /\ \A n \in Nat : n + 1 <= MAX_FILLS =>
                walk[n + 1] = WalkStep(side, walk[n], price, isMarket)
<1> DEFINE walk == CHOOSE f :
             f = [n \in 0..MAX_FILLS |-> IF n = 0 THEN Start(makers, size)
                                         ELSE WalkStep(side, f[n - 1], price, isMarket)]
<1>0. MAX_FILLS \in Nat
  BY OrderBookAssumption DEF OrderBookAssumption
<1>1. plan_fills(side, makers, price, size, isMarket) = walk[MAX_FILLS]
  BY DEF plan_fills, Start, WalkStep
<1>2. walk = [n \in 0..MAX_FILLS |-> IF n = 0 THEN Start(makers, size)
                                     ELSE WalkStep(side, walk[n - 1], price, isMarket)]
  BY <1>0, WalkExists
<1> HIDE DEF walk
<1>3. walk[0] = Start(makers, size)
  <2>1. 0 \in 0..MAX_FILLS
    BY <1>0
  <2> QED
    BY <1>2, <2>1
<1>4. ASSUME NEW n \in Nat, n + 1 <= MAX_FILLS
      PROVE  walk[n + 1] = WalkStep(side, walk[n], price, isMarket)
  <2>1. n + 1 \in 0..MAX_FILLS /\ n + 1 # 0 /\ (n + 1) - 1 = n
    BY <1>0, <1>4
  <2>2. walk[n + 1] = WalkStep(side, walk[(n + 1) - 1], price, isMarket)
    BY <1>2, <2>1
  <2> QED
    BY <2>1, <2>2
<1> QED
  BY <1>1, <1>3, <1>4

(* The fills of a plan, and what one weighs. *)
PlannedFill == [maker : Users, size : Nat, usdc : Nat]

FillSize == [f \in PlannedFill |-> f.size]

FillUsdc == [f \in PlannedFill |-> f.usdc]

(* The weights of a fill are functions to weigh a list of fills with. *)
LEMMA FillWeights ==
  /\ FillSize \in [PlannedFill -> Nat] /\ FillSize \in [PlannedFill -> Int]
  /\ FillUsdc \in [PlannedFill -> Nat] /\ FillUsdc \in [PlannedFill -> Int]
  BY DEF FillSize, FillUsdc, PlannedFill

(* What the fills move is what the makers lose. *)
WalkInv(makers, size, w) ==
  /\ w.makers \in Side
  /\ w.left \in Nat
  /\ w.fills \in Seq(PlannedFill)
  /\ LeftOf(w.makers, makers)
  /\ Weigh(makers, SizeOf) = Weigh(w.makers, SizeOf) + Weigh(w.fills, FillSize)
  /\ Weigh(makers, CostOf) = Weigh(w.makers, CostOf) + Weigh(w.fills, FillUsdc)
  /\ w.left + Weigh(w.fills, FillSize) = size

(* Least is one of the two, and within both. *)
LEMMA LeastIs ==
  ASSUME NEW a \in Nat, NEW b \in Nat, a > 0, b > 0
  PROVE  /\ Least(a, b) \in 1..a /\ Least(a, b) \in 1..b
         /\ Least(a, b) = a \/ Least(a, b) = b
  BY DEF Least

(* One fill keeps the invariant of the walk, and fills the order or empties a *)
(* maker.                                                                     *)
LEMMA FillKeeps ==
  ASSUME NEW makers \in Side, NEW size \in Nat, NEW w, WalkInv(makers, size, w),
         w.left > 0, w.makers # <<>>
  PROVE  /\ WalkInv(makers, size, FillBest(w))
         /\ FillBest(w).left = 0 \/ Len(FillBest(w).makers) = Len(w.makers) - 1
<1> DEFINE m == w.makers[1]
           taken == Least(w.left, m.size)
           rest == TakeBest(w.makers, taken)
           fill == [maker |-> m.owner, size |-> taken,
                    usdc |-> fill_usdc(m.price, m.size, m.size - taken)]
           v == FillBest(w)
<1>1. /\ w.makers \in Side /\ w.makers \in Seq(Order) /\ 1 \in 1..Len(w.makers)
      /\ Head(w.makers) = m /\ m \in Order /\ m.size > 0
  <2>1. w.makers \in Seq(Order) /\ \A j \in 1..Len(w.makers) : w.makers[j].size > 0
    BY DEF WalkInv, Side
  <2>2. 1 \in 1..Len(w.makers) /\ Head(w.makers) = m
    BY <2>1
  <2> QED
    BY <2>1, <2>2 DEF WalkInv
<1>2. m.size \in Nat /\ m.price \in Nat /\ m.owner \in Users
  BY <1>1 DEF Order
<1>3. /\ w.left \in Nat /\ w.fills \in Seq(PlannedFill) /\ LeftOf(w.makers, makers)
      /\ Weigh(makers, SizeOf) = Weigh(w.makers, SizeOf) + Weigh(w.fills, FillSize)
      /\ Weigh(makers, CostOf) = Weigh(w.makers, CostOf) + Weigh(w.fills, FillUsdc)
      /\ w.left + Weigh(w.fills, FillSize) = size
  BY DEF WalkInv
<1>4. v = [makers |-> rest, left |-> w.left - taken, fills |-> Append(w.fills, fill)]
  BY <1>1 DEF FillBest
<1> HIDE DEF m, v
<1>5. taken \in 1..w.left /\ taken \in 1..m.size /\ (taken = w.left \/ taken = m.size)
  BY <1>1, <1>2, <1>3, LeastIs
<1> HIDE DEF taken
<1>6. /\ rest \in Side /\ LeftOf(rest, w.makers)
      /\ Len(rest) = IF m.size = taken THEN Len(w.makers) - 1 ELSE Len(w.makers)
      /\ Weigh(w.makers, SizeOf) = taken + Weigh(rest, SizeOf)
      /\ Weigh(w.makers, CostOf) = fill_usdc(m.price, m.size, m.size - taken)
                                    + Weigh(rest, CostOf)
  BY <1>1, <1>5, TakeBestLeaves DEF m
<1>7. fill \in PlannedFill /\ fill.size = taken
      /\ fill.usdc = fill_usdc(m.price, m.size, m.size - taken) /\ fill.usdc \in Nat
  <2>1. m.size - taken \in Nat /\ m.size - taken <= m.size /\ taken \in Nat
    BY <1>2, <1>5
  <2>2. fill_usdc(m.price, m.size, m.size - taken) \in Nat
    BY <1>2, <2>1, FillMath
  <2> QED
    BY <1>2, <2>1, <2>2 DEF PlannedFill
<1> HIDE DEF fill
<1>8. /\ Append(w.fills, fill) \in Seq(PlannedFill)
      /\ Weigh(Append(w.fills, fill), FillSize) = Weigh(w.fills, FillSize) + taken
      /\ Weigh(Append(w.fills, fill), FillUsdc) = Weigh(w.fills, FillUsdc) + fill.usdc
  <2>1. Append(w.fills, fill) \in Seq(PlannedFill)
    BY <1>3, <1>7
  <2>2. ASSUME NEW wt \in [PlannedFill -> Int]
        PROVE  Weigh(Append(w.fills, fill), wt) = Weigh(w.fills, wt) + wt[fill]
    BY <1>3, <1>7, WeighAppend
  <2>3. FillSize[fill] = taken /\ FillUsdc[fill] = fill.usdc
    BY <1>7 DEF FillSize, FillUsdc
  <2> QED
    BY <2>1, <2>2, <2>3, FillWeights
<1>9. LeftOf(rest, makers)
  BY <1>1, <1>3, <1>6, LeftOfLeft DEF Side
<1>10. /\ Weigh(rest, SizeOf) \in Int /\ Weigh(rest, CostOf) \in Int
       /\ Weigh(w.fills, FillSize) \in Int /\ Weigh(w.fills, FillUsdc) \in Int
  <2>1. ASSUME NEW wt \in [Order -> Int] PROVE Weigh(rest, wt) \in Int
    BY <1>6, WeighInt DEF Side
  <2>2. ASSUME NEW wt \in [PlannedFill -> Int] PROVE Weigh(w.fills, wt) \in Int
    BY <1>3, WeighInt
  <2> QED
    BY <2>1, <2>2, IntegerWeights, FillWeights
<1> HIDE DEF rest
<1> DEFINE fs == Append(w.fills, fill)
<1>11. /\ w.left - taken \in Nat /\ taken \in Nat
       /\ Weigh(makers, SizeOf) = Weigh(rest, SizeOf) + Weigh(fs, FillSize)
       /\ Weigh(makers, CostOf) = Weigh(rest, CostOf) + Weigh(fs, FillUsdc)
       /\ (w.left - taken) + Weigh(fs, FillSize) = size
  <2> HIDE DEF fs
  <2>1. w.left - taken \in Nat /\ taken \in Nat /\ w.left \in Nat
    BY <1>3, <1>5
  <2>2. /\ Weigh(fs, FillSize) = Weigh(w.fills, FillSize) + taken
        /\ Weigh(fs, FillUsdc) = Weigh(w.fills, FillUsdc) + fill.usdc
    BY <1>8 DEF fs
  <2>3. Weigh(makers, SizeOf) = Weigh(rest, SizeOf) + Weigh(fs, FillSize)
    <3>1. /\ Weigh(makers, SizeOf) = Weigh(w.makers, SizeOf) + Weigh(w.fills, FillSize)
          /\ Weigh(w.makers, SizeOf) = taken + Weigh(rest, SizeOf)
      BY <1>3, <1>6
    <3> QED
      BY <1>10, <2>1, <2>2, <3>1
  <2>4. Weigh(makers, CostOf) = Weigh(rest, CostOf) + Weigh(fs, FillUsdc)
    <3>1. /\ Weigh(makers, CostOf) = Weigh(w.makers, CostOf) + Weigh(w.fills, FillUsdc)
          /\ Weigh(w.makers, CostOf) = fill.usdc + Weigh(rest, CostOf)
      BY <1>3, <1>6, <1>7
    <3>2. fill.usdc \in Int
      BY <1>7
    <3> QED
      BY <1>10, <2>2, <3>1, <3>2
  <2>5. (w.left - taken) + Weigh(fs, FillSize) = size
    BY <1>3, <1>10, <2>1, <2>2
  <2> QED
    BY <2>1, <2>3, <2>4, <2>5
<1>12. v.makers = rest /\ v.left = w.left - taken /\ v.fills = fs
  BY <1>4
<1>13. WalkInv(makers, size, v)
  BY <1>6, <1>8, <1>9, <1>11, <1>12 DEF WalkInv
<1>14. v.left = 0 \/ Len(v.makers) = Len(w.makers) - 1
  BY <1>5, <1>6, <1>3, <1>12
<1> QED
  BY <1>13, <1>14 DEF v

(* The walk begins in its invariant. *)
LEMMA StartKeeps ==
  ASSUME NEW makers \in Side, NEW size \in Nat
  PROVE  WalkInv(makers, size, Start(makers, size))
<1>1. makers \in Seq(Order)
  BY DEF Side
<1>2. LeftOf(makers, makers)
  BY <1>1, LeftOfSelf
<1>3. Weigh(<<>>, FillSize) = 0 /\ Weigh(<<>>, FillUsdc) = 0
  BY WeighNone
<1>4. Weigh(makers, SizeOf) \in Int /\ Weigh(makers, CostOf) \in Int
  <2>1. ASSUME NEW wt \in [Order -> Int] PROVE Weigh(makers, wt) \in Int
    BY <1>1, WeighInt
  <2> QED
    BY <2>1, IntegerWeights
<1> QED
  BY <1>1, <1>2, <1>3, <1>4 DEF Start, WalkInv

(* The plan: the invariant of the walk, and why the walk ended. *)
LEMMA PlanKeeps ==
  ASSUME NEW side, NEW makers \in Side, NEW price, NEW size \in Nat, NEW isMarket
  PROVE  LET plan == plan_fills(side, makers, price, size, isMarket) IN
         /\ WalkInv(makers, size, plan)
         /\ \/ ~Fillable(side, plan, price, isMarket)
            \/ Len(plan.makers) <= Len(makers) - MAX_FILLS
<1>0. MAX_FILLS \in Nat
  BY OrderBookAssumption DEF OrderBookAssumption
<1>1. PICK walk :
        /\ plan_fills(side, makers, price, size, isMarket) = walk[MAX_FILLS]
        /\ walk[0] = Start(makers, size)
        /\ \A n \in Nat : n + 1 <= MAX_FILLS =>
             walk[n + 1] = WalkStep(side, walk[n], price, isMarket)
  BY PlanIsWalk
<1> DEFINE Ends(w, n) == Fillable(side, w, price, isMarket) =>
                           Len(w.makers) <= Len(makers) - n
           T == {n \in Nat : n <= MAX_FILLS =>
                               WalkInv(makers, size, walk[n]) /\ Ends(walk[n], n)}
<1>2. 0 \in T
  <2>1. Start(makers, size).makers = makers /\ Len(makers) \in Nat
    BY DEF Start, Side
  <2> QED
    BY <1>1, <2>1, StartKeeps
<1>3. ASSUME NEW n \in Nat, n \in T PROVE n + 1 \in T
  <2> SUFFICES ASSUME n + 1 <= MAX_FILLS
               PROVE  WalkInv(makers, size, walk[n + 1]) /\ Ends(walk[n + 1], n + 1)
    OBVIOUS
  <2> DEFINE w == walk[n]
  <2>1. /\ WalkInv(makers, size, w) /\ Ends(w, n)
        /\ walk[n + 1] = WalkStep(side, w, price, isMarket)
    BY <1>0, <1>1, <1>3
  <2> HIDE DEF w
  <2>2. CASE Fillable(side, w, price, isMarket)
    <3>1. walk[n + 1] = FillBest(w)
      BY <2>1, <2>2 DEF WalkStep
    <3>2. w.left > 0 /\ w.makers # <<>>
      BY <2>2 DEF Fillable
    <3>3. /\ WalkInv(makers, size, FillBest(w))
          /\ FillBest(w).left = 0 \/ Len(FillBest(w).makers) = Len(w.makers) - 1
      BY <2>1, <3>2, FillKeeps
    <3>4. FillBest(w).left = 0 => ~Fillable(side, FillBest(w), price, isMarket)
      BY DEF Fillable
    <3>5. Len(w.makers) <= Len(makers) - n /\ Len(w.makers) \in Nat /\ Len(makers) \in Nat
      BY <2>1, <2>2 DEF WalkInv, Side
    <3> QED
      BY <3>1, <3>3, <3>4, <3>5
  <2>3. CASE ~Fillable(side, w, price, isMarket)
    BY <2>1, <2>3 DEF WalkStep
  <2> QED
    BY <2>2, <2>3
<1> HIDE DEF T
<1>4. MAX_FILLS \in T
  BY <1>0, <1>2, <1>3, NatInductionSet
<1>5. WalkInv(makers, size, walk[MAX_FILLS]) /\ Ends(walk[MAX_FILLS], MAX_FILLS)
  BY <1>0, <1>4 DEF T
<1> QED
  BY <1>1, <1>5

--------------------------------------------------------------------------------
(* The sweep of the crank *)

(* The sweep of match_orders, as a start and a step. *)
SweepStart == [bids |-> bids, asks |-> asks, pairs |-> <<>>]

SweepStep(s) == IF PairTrades(s.bids, s.asks) THEN TradeBests(s) ELSE s

(* The recursion of the crank has a solution. *)
LEMMA SweepExists ==
  \A N \in Nat : \E f :
    f = [n \in 0..N |-> IF n = 0 THEN SweepStart ELSE SweepStep(f[n - 1])]
<1> DEFINE Next1(f, n) == IF n = 0 THEN SweepStart ELSE SweepStep(f[n - 1])
           T == {N \in Nat : \E f : f = [n \in 0..N |-> Next1(f, n)]}
<1>1. 0 \in T
  <2> DEFINE f == [n \in 0..0 |-> SweepStart]
  <2>1. f = [n \in 0..0 |-> Next1(f, n)]
    <3>1. \A n \in 0..0 : n = 0
      OBVIOUS
    <3> QED
      BY <3>1
  <2> HIDE DEF f
  <2> QED
    BY <2>1
<1>2. ASSUME NEW N \in Nat, N \in T PROVE N + 1 \in T
  <2>1. PICK f : f = [n \in 0..N |-> Next1(f, n)]
    BY <1>2
  <2> DEFINE g == [n \in 0..(N + 1) |-> Next1(f, n)]
  <2>2. ASSUME NEW n \in 0..(N + 1) PROVE Next1(f, n) = Next1(g, n)
    <3>1. CASE n = 0
      BY <3>1
    <3>2. CASE n # 0
      <4>1. n - 1 \in 0..N /\ n - 1 \in 0..(N + 1)
        BY <3>2
      <4> HIDE DEF Next1
      <4>2. f[n - 1] = g[n - 1]
        BY <2>1, <4>1
      <4> HIDE DEF g
      <4> QED
        BY <3>2, <4>2 DEF Next1
    <3> QED
      BY <3>1, <3>2
  <2> HIDE DEF Next1
  <2>3. g = [n \in 0..(N + 1) |-> Next1(g, n)]
    BY <2>2
  <2> HIDE DEF g
  <2> QED
    BY <2>3
<1> HIDE DEF T
<1>3. Nat \subseteq T
  BY <1>1, <1>2, NatInductionSet
<1> QED
  BY <1>3 DEF T

(* CrankPlan is the last step of a sweep that begins with the book. *)
LEMMA CrankIsSweep ==
  \E sweep :
    /\ CrankPlan = sweep[MAX_PAIRS]
    /\ sweep[0] = SweepStart
    /\ \A n \in Nat : n + 1 <= MAX_PAIRS => sweep[n + 1] = SweepStep(sweep[n])
<1> DEFINE sweep == CHOOSE f :
             f = [n \in 0..MAX_PAIRS |->
                    IF n = 0 THEN SweepStart ELSE SweepStep(f[n - 1])]
<1>0. MAX_PAIRS \in Nat
  BY OrderBookAssumption DEF OrderBookAssumption
<1>1. CrankPlan = sweep[MAX_PAIRS]
  BY DEF CrankPlan, SweepStart, SweepStep
<1>2. sweep = [n \in 0..MAX_PAIRS |->
                 IF n = 0 THEN SweepStart ELSE SweepStep(sweep[n - 1])]
  BY <1>0, SweepExists
<1> HIDE DEF sweep
<1>3. sweep[0] = SweepStart
  <2>1. 0 \in 0..MAX_PAIRS
    BY <1>0
  <2> QED
    BY <1>2, <2>1
<1>4. ASSUME NEW n \in Nat, n + 1 <= MAX_PAIRS PROVE sweep[n + 1] = SweepStep(sweep[n])
  <2>1. n + 1 \in 0..MAX_PAIRS /\ n + 1 # 0 /\ (n + 1) - 1 = n
    BY <1>0, <1>4
  <2>2. sweep[n + 1] = SweepStep(sweep[(n + 1) - 1])
    BY <1>2, <2>1
  <2> QED
    BY <2>1, <2>2
<1> QED
  BY <1>1, <1>3, <1>4

(* The pairs of the crank, and what one weighs. *)
CrossedPair == [buyer : Users, seller : Users, size : Nat, usdc : Nat]

PairSize == [p \in CrossedPair |-> p.size]

PairUsdc == [p \in CrossedPair |-> p.usdc]

(* The weights of a pair are functions to weigh a list of pairs with. *)
LEMMA PairWeights ==
  /\ PairSize \in [CrossedPair -> Nat] /\ PairSize \in [CrossedPair -> Int]
  /\ PairUsdc \in [CrossedPair -> Nat] /\ PairUsdc \in [CrossedPair -> Int]
  BY DEF PairSize, PairUsdc, CrossedPair

(* What the pairs move is what the two sides lose. *)
SweepInv(b, a, s) ==
  /\ s.bids \in Side /\ s.asks \in Side
  /\ s.pairs \in Seq(CrossedPair)
  /\ LeftOf(s.bids, b) /\ LeftOf(s.asks, a)
  /\ Weigh(b, CostOf) = Weigh(s.bids, CostOf) + Weigh(s.pairs, PairUsdc)
  /\ Weigh(a, SizeOf) = Weigh(s.asks, SizeOf) + Weigh(s.pairs, PairSize)

(* What a side is, and what its best order is. *)
LEMMA SideFacts ==
  ASSUME NEW s \in Side
  PROVE  /\ s \in Seq(Order) /\ Len(s) \in Nat
         /\ Weigh(s, SizeOf) \in Nat /\ Weigh(s, CostOf) \in Nat
         /\ s # <<>> => /\ 1 \in 1..Len(s) /\ Head(s) = s[1] /\ s[1] \in Order
                        /\ s[1].size \in Nat /\ s[1].size > 0 /\ s[1].price \in Nat
                        /\ s[1].seq \in Nat /\ s[1].owner \in Users
<1>1. s \in Seq(Order) /\ \A j \in 1..Len(s) : s[j].size > 0
  BY DEF Side
<1>2. Len(s) \in Nat /\ (s # <<>> => 1 \in 1..Len(s) /\ Head(s) = s[1])
  BY <1>1
<1>3. s # <<>> => s[1] \in Order /\ s[1].size > 0
  BY <1>1, <1>2
<1>4. \A o \in Order : /\ o.size \in Nat /\ o.price \in Nat
                       /\ o.seq \in Nat /\ o.owner \in Users
  BY DEF Order
<1>5. SizeOf \in [Order -> Nat] /\ CostOf \in [Order -> Nat]
  <2>1. SizeOf = [o \in Order |-> SizeOf[o]] /\ CostOf = [o \in Order |-> CostOf[o]]
    BY DEF SizeOf, CostOf
  <2> QED
    BY <2>1, WeightsOfOrders
<1>6. ASSUME NEW wt \in [Order -> Nat] PROVE Weigh(s, wt) \in Nat
  BY <1>1, WeighNat
<1> QED
  BY <1>1, <1>2, <1>3, <1>4, <1>5, <1>6

(* One pair keeps the invariant of the sweep and empties an order. *)
LEMMA TradeKeeps ==
  ASSUME NEW b \in Side, NEW a \in Side, NEW s, SweepInv(b, a, s),
         s.bids # <<>>, s.asks # <<>>
  PROVE  /\ SweepInv(b, a, TradeBests(s))
         /\ Len(TradeBests(s).bids) + Len(TradeBests(s).asks)
               <= Len(s.bids) + Len(s.asks) - 1
<1> DEFINE bid == s.bids[1]
           offer == s.asks[1]
           x == Least(bid.size, offer.size)
           restB == TakeBest(s.bids, x)
           restA == TakeBest(s.asks, x)
           pair == [buyer |-> bid.owner, seller |-> offer.owner, size |-> x,
                    usdc |-> fill_usdc(bid.price, bid.size, bid.size - x)]
           v == TradeBests(s)
<1>1. /\ s.bids \in Side /\ s.asks \in Side /\ s.pairs \in Seq(CrossedPair)
      /\ LeftOf(s.bids, b) /\ LeftOf(s.asks, a)
      /\ Weigh(b, CostOf) = Weigh(s.bids, CostOf) + Weigh(s.pairs, PairUsdc)
      /\ Weigh(a, SizeOf) = Weigh(s.asks, SizeOf) + Weigh(s.pairs, PairSize)
  BY DEF SweepInv
<1>2. /\ s.bids \in Seq(Order) /\ Head(s.bids) = bid /\ bid.size \in Nat /\ bid.size > 0
      /\ bid.price \in Nat /\ bid.owner \in Users
  BY <1>1, SideFacts
<1>3. /\ s.asks \in Seq(Order) /\ Head(s.asks) = offer /\ offer.size \in Nat /\ offer.size > 0
      /\ offer.owner \in Users
  BY <1>1, SideFacts
<1>4. v = [bids |-> restB, asks |-> restA, pairs |-> Append(s.pairs, pair)]
  BY <1>2, <1>3 DEF TradeBests
<1> HIDE DEF v
<1>5. x \in 1..bid.size /\ x \in 1..offer.size /\ (x = bid.size \/ x = offer.size)
  BY <1>2, <1>3, LeastIs
<1> HIDE DEF x
<1>6. /\ restB \in Side /\ LeftOf(restB, s.bids)
      /\ Len(restB) = IF bid.size = x THEN Len(s.bids) - 1 ELSE Len(s.bids)
      /\ Weigh(s.bids, CostOf) = fill_usdc(bid.price, bid.size, bid.size - x)
                                   + Weigh(restB, CostOf)
  BY <1>1, <1>5, TakeBestLeaves
<1>7. /\ restA \in Side /\ LeftOf(restA, s.asks)
      /\ Len(restA) = IF offer.size = x THEN Len(s.asks) - 1 ELSE Len(s.asks)
      /\ Weigh(s.asks, SizeOf) = x + Weigh(restA, SizeOf)
  BY <1>1, <1>5, TakeBestLeaves
<1>8. /\ pair \in CrossedPair /\ pair.size = x /\ x \in Nat
      /\ pair.usdc = fill_usdc(bid.price, bid.size, bid.size - x) /\ pair.usdc \in Nat
  <2>1. bid.size - x \in Nat /\ bid.size - x <= bid.size /\ x \in Nat
    BY <1>2, <1>5
  <2>2. fill_usdc(bid.price, bid.size, bid.size - x) \in Nat
    BY <1>2, <2>1, FillMath
  <2> QED
    BY <1>2, <1>3, <2>1, <2>2 DEF CrossedPair
<1> HIDE DEF pair, bid, offer
<1> DEFINE ps == Append(s.pairs, pair)
<1>9. /\ ps \in Seq(CrossedPair)
      /\ Weigh(ps, PairSize) = Weigh(s.pairs, PairSize) + x
      /\ Weigh(ps, PairUsdc) = Weigh(s.pairs, PairUsdc) + pair.usdc
  <2>1. ps \in Seq(CrossedPair)
    BY <1>1, <1>8
  <2>2. ASSUME NEW wt \in [CrossedPair -> Int]
        PROVE  Weigh(ps, wt) = Weigh(s.pairs, wt) + wt[pair]
    BY <1>1, <1>8, WeighAppend
  <2>3. PairSize[pair] = x /\ PairUsdc[pair] = pair.usdc
    BY <1>8 DEF PairSize, PairUsdc
  <2> HIDE DEF ps
  <2> QED
    BY <2>1, <2>2, <2>3, PairWeights
<1>10. LeftOf(restB, b) /\ LeftOf(restA, a)
  BY <1>1, <1>6, <1>7, LeftOfLeft, SideFacts
<1> HIDE DEF restB, restA, ps
<1>11. /\ Weigh(s.pairs, PairSize) \in Int /\ Weigh(s.pairs, PairUsdc) \in Int
       /\ Weigh(restB, CostOf) \in Int /\ Weigh(restA, SizeOf) \in Int
  <2>1. ASSUME NEW wt \in [CrossedPair -> Int] PROVE Weigh(s.pairs, wt) \in Int
    BY <1>1, WeighInt
  <2>2. Weigh(restB, CostOf) \in Nat /\ Weigh(restA, SizeOf) \in Nat
    BY <1>6, <1>7, SideFacts
  <2> QED
    BY <2>1, <2>2, PairWeights
<1>12. Weigh(b, CostOf) = Weigh(restB, CostOf) + Weigh(ps, PairUsdc)
  <2>1. pair.usdc \in Int /\ Weigh(s.bids, CostOf) = pair.usdc + Weigh(restB, CostOf)
    BY <1>6, <1>8
  <2> QED
    BY <1>1, <1>9, <1>11, <2>1
<1>13. Weigh(a, SizeOf) = Weigh(restA, SizeOf) + Weigh(ps, PairSize)
  BY <1>1, <1>7, <1>8, <1>9, <1>11
<1>14. v.bids = restB /\ v.asks = restA /\ v.pairs = ps
  BY <1>4 DEF ps
<1>15. SweepInv(b, a, v)
  BY <1>6, <1>7, <1>9, <1>10, <1>12, <1>13, <1>14 DEF SweepInv
<1>16. Len(v.bids) + Len(v.asks) <= Len(s.bids) + Len(s.asks) - 1
  <2>1. Len(s.bids) \in Nat /\ Len(s.asks) \in Nat
    BY <1>1, SideFacts
  <2>2. CASE x = bid.size
    <3>1. Len(restB) = Len(s.bids) - 1
      BY <1>6, <2>2
    <3>2. Len(restA) = Len(s.asks) - 1 \/ Len(restA) = Len(s.asks)
      BY <1>7
    <3> QED
      BY <1>14, <2>1, <3>1, <3>2
  <2>3. CASE x = offer.size
    <3>1. Len(restA) = Len(s.asks) - 1
      BY <1>7, <2>3
    <3>2. Len(restB) = Len(s.bids) - 1 \/ Len(restB) = Len(s.bids)
      BY <1>6
    <3> QED
      BY <1>14, <2>1, <3>1, <3>2
  <2> QED
    BY <1>5, <2>2, <2>3
<1> QED
  BY <1>15, <1>16 DEF v

(* The count of orders after one more pair. *)
LEMMA OneLess ==
  ASSUME NEW a \in Nat, NEW b \in Nat, NEW c \in Nat, NEW d \in Nat,
         NEW e \in Nat, NEW f \in Nat, NEW n \in Nat,
         a + b <= c + d - 1, c + d <= e + f - n
  PROVE  a + b <= e + f - (n + 1)
  OBVIOUS

(* The plan of the crank: the invariant of the sweep, and why it ended. *)
LEMMA CrankKeeps ==
  ASSUME bids \in Side, asks \in Side
  PROVE  /\ SweepInv(bids, asks, CrankPlan)
         /\ \/ ~BestsCross(CrankPlan.bids, CrankPlan.asks)
            \/ Len(CrankPlan.bids) + Len(CrankPlan.asks)
                 <= Len(bids) + Len(asks) - MAX_PAIRS
<1>0. MAX_PAIRS \in Nat
  BY OrderBookAssumption DEF OrderBookAssumption
<1>1. PICK sweep :
        /\ CrankPlan = sweep[MAX_PAIRS]
        /\ sweep[0] = SweepStart
        /\ \A n \in Nat : n + 1 <= MAX_PAIRS => sweep[n + 1] = SweepStep(sweep[n])
  BY CrankIsSweep
<1>2. Len(bids) \in Nat /\ Len(asks) \in Nat /\ bids \in Seq(Order) /\ asks \in Seq(Order)
  BY SideFacts
<1> DEFINE Ends(s, n) == BestsCross(s.bids, s.asks) =>
                           Len(s.bids) + Len(s.asks) <= Len(bids) + Len(asks) - n
           T == {n \in Nat : n <= MAX_PAIRS =>
                               SweepInv(bids, asks, sweep[n]) /\ Ends(sweep[n], n)}
<1> HIDE DEF Ends
<1>3. 0 \in T
  <2>1. SweepInv(bids, asks, SweepStart)
    <3>1. LeftOf(bids, bids) /\ LeftOf(asks, asks)
      BY <1>2, LeftOfSelf
    <3>2. Weigh(<<>>, PairSize) = 0 /\ Weigh(<<>>, PairUsdc) = 0
      BY WeighNone
    <3>3. Weigh(bids, CostOf) \in Nat /\ Weigh(asks, SizeOf) \in Nat
      BY SideFacts
    <3> QED
      BY <3>1, <3>2, <3>3 DEF SweepInv, SweepStart
  <2>2. SweepStart.bids = bids /\ SweepStart.asks = asks
    BY DEF SweepStart
  <2>3. Ends(SweepStart, 0)
    BY <1>2, <2>2 DEF Ends
  <2> QED
    BY <1>1, <2>1, <2>3
<1>4. ASSUME NEW n \in Nat, n \in T PROVE n + 1 \in T
  <2> SUFFICES ASSUME n + 1 <= MAX_PAIRS
               PROVE  SweepInv(bids, asks, sweep[n + 1]) /\ Ends(sweep[n + 1], n + 1)
    OBVIOUS
  <2> DEFINE s == sweep[n]
  <2>1. SweepInv(bids, asks, s) /\ Ends(s, n) /\ sweep[n + 1] = SweepStep(s)
    BY <1>0, <1>1, <1>4
  <2> HIDE DEF s
  <2>2. CASE PairTrades(s.bids, s.asks)
    <3>1. sweep[n + 1] = TradeBests(s)
      BY <2>1, <2>2 DEF SweepStep
    <3>2. s.bids # <<>> /\ s.asks # <<>> /\ BestsCross(s.bids, s.asks)
      BY <2>2 DEF PairTrades, BestsCross
    <3>3. /\ SweepInv(bids, asks, TradeBests(s))
          /\ Len(TradeBests(s).bids) + Len(TradeBests(s).asks)
               <= Len(s.bids) + Len(s.asks) - 1
      BY <2>1, <3>2, TradeKeeps
    <3>4. Len(TradeBests(s).bids) \in Nat /\ Len(TradeBests(s).asks) \in Nat
      BY <3>3, SideFacts DEF SweepInv
    <3>5. Len(s.bids) \in Nat /\ Len(s.asks) \in Nat
      BY <2>1, SideFacts DEF SweepInv
    <3>6. Len(s.bids) + Len(s.asks) <= Len(bids) + Len(asks) - n
      BY <2>1, <3>2 DEF Ends
    <3>7. Len(TradeBests(s).bids) + Len(TradeBests(s).asks)
            <= Len(bids) + Len(asks) - (n + 1)
      BY <1>2, <3>3, <3>4, <3>5, <3>6, OneLess
    <3>8. Ends(TradeBests(s), n + 1)
      BY <3>7 DEF Ends
    <3> QED
      BY <3>1, <3>3, <3>8
  <2>3. CASE ~PairTrades(s.bids, s.asks)
    <3>1. sweep[n + 1] = s
      BY <2>1, <2>3 DEF SweepStep
    <3>2. Ends(s, n + 1)
      BY <2>3 DEF Ends, PairTrades
    <3> QED
      BY <2>1, <3>1, <3>2
  <2> QED
    BY <2>2, <2>3
<1> HIDE DEF T
<1>5. MAX_PAIRS \in T
  BY <1>0, <1>3, <1>4, NatInductionSet
<1>6. SweepInv(bids, asks, sweep[MAX_PAIRS]) /\ Ends(sweep[MAX_PAIRS], MAX_PAIRS)
  BY <1>0, <1>5 DEF T
<1> QED
  BY <1>1, <1>6 DEF Ends

--------------------------------------------------------------------------------
(* Price-time priority *)

(* o goes before p where prices are ranked by rank. *)
Ahead(rank, o, p) ==
  \/ rank[o.price] < rank[p.price]
  \/ rank[o.price] = rank[p.price] /\ o.seq < p.seq

(* Strictly in order, and no sequence number twice. *)
Ranked(rank, s) ==
  \A i, j \in 1..Len(s) : i < j => Ahead(rank, s[i], s[j]) /\ s[i].seq # s[j].seq

(* The ranks of the two sides: asks by rising price, bids by falling price. *)
Rising == [x \in Nat |-> x]

Falling == [x \in Nat |-> -x]

(* Asks are ordered by rising price, bids by falling price. *)
LEMMA RanksOfSides ==
  /\ Rising \in [Nat -> Int] /\ Falling \in [Nat -> Int]
  /\ \A o, p \in Order : BeforeAsk(o, p) <=> Ahead(Rising, o, p)
  /\ \A o, p \in Order : BeforeBid(o, p) <=> Ahead(Falling, o, p)
<1>1. \A o \in Order : o.price \in Nat
  BY DEF Order
<1> QED
  BY <1>1 DEF Rising, Falling, BeforeAsk, BeforeBid, Ahead

(* Going ahead is transitive. *)
LEMMA AheadChains ==
  ASSUME NEW rank \in [Nat -> Int], NEW o \in Order, NEW p \in Order, NEW q \in Order,
         Ahead(rank, o, p), Ahead(rank, p, q)
  PROVE  Ahead(rank, o, q)
<1>1. \A x \in Order : x.price \in Nat /\ x.seq \in Nat
  BY DEF Order
<1>2. \A x \in Order : rank[x.price] \in Int
  BY <1>1
<1> QED
  BY <1>1, <1>2 DEF Ahead

(* An older order that a newer one does not pass is ahead of it. *)
LEMMA NotBehind ==
  ASSUME NEW rank \in [Nat -> Int], NEW o \in Order, NEW p \in Order,
         o.seq < p.seq, ~Ahead(rank, p, o)
  PROVE  Ahead(rank, o, p)
<1>1. o.seq \in Nat /\ p.seq \in Nat /\ o.price \in Nat /\ p.price \in Nat
  BY DEF Order
<1>2. rank[o.price] \in Int /\ rank[p.price] \in Int
  BY <1>1
<1> QED
  BY <1>1, <1>2 DEF Ahead

(* What stands behind a new order at k + 1 stood one place further ahead. *)
LEMMA ShiftedIndex ==
  ASSUME NEW n \in Nat, NEW k \in Nat, NEW i \in 1..(n + 1), NEW j \in 1..(n + 1),
         i < j, j > k + 1
  PROVE  /\ j - 1 \in 1..n /\ j - 1 > k /\ (j - 1) + 1 = j
         /\ i < k + 1 => i \in 1..n /\ i < j - 1
         /\ i > k + 1 => i - 1 \in 1..n /\ i - 1 > k /\ (i - 1) + 1 = i /\ i - 1 < j - 1
  OBVIOUS

(* A new order put where insert_sorted puts it keeps the side ranked. *)
LEMMA InsertRanks ==
  ASSUME NEW rank \in [Nat -> Int], NEW old \in Seq(Order), NEW e \in Order,
         NEW k \in 0..Len(old), NEW new, Inserted(new, old, e, k), Ranked(rank, old),
         \A j \in 1..Len(old) : old[j].seq < e.seq,
         \A j \in 1..k : ~Ahead(rank, e, old[j]),
         k < Len(old) => Ahead(rank, e, old[k + 1])
  PROVE  Ranked(rank, new)
<1>1. /\ new \in Seq(Order) /\ Len(new) = Len(old) + 1 /\ new[k + 1] = e
      /\ \A j \in 1..Len(old) : old[j] = IF j < k + 1 THEN new[j] ELSE new[j + 1]
  BY DEF Inserted, TakenOut
<1>2. /\ Len(old) \in Nat /\ Len(new) \in Nat /\ k \in Nat /\ k <= Len(old)
      /\ Len(new) = Len(old) + 1
  BY <1>1
<1>3. \A j \in 1..Len(old) : old[j] \in Order
  OBVIOUS
<1>4. \A i \in 1..k : Ahead(rank, old[i], e) /\ old[i].seq # e.seq
  <2> SUFFICES ASSUME NEW i \in 1..k PROVE Ahead(rank, old[i], e) /\ old[i].seq # e.seq
    OBVIOUS
  <2>1. old[i] \in Order /\ old[i].seq < e.seq /\ ~Ahead(rank, e, old[i])
    BY <1>3
  <2>2. old[i].seq \in Nat /\ e.seq \in Nat
    BY <2>1 DEF Order
  <2>3. old[i].seq # e.seq
    BY <2>1, <2>2
  <2> QED
    BY <2>1, <2>3, NotBehind
<1>5. \A j \in 1..Len(old) : j > k => Ahead(rank, e, old[j]) /\ e.seq # old[j].seq
  <2> SUFFICES ASSUME NEW j \in 1..Len(old), j > k
               PROVE  Ahead(rank, e, old[j]) /\ e.seq # old[j].seq
    OBVIOUS
  <2>0. e.seq # old[j].seq
    <3>1. old[j] \in Order /\ old[j].seq < e.seq
      BY <1>3
    <3>2. old[j].seq \in Nat /\ e.seq \in Nat
      BY <3>1 DEF Order
    <3> QED
      BY <3>1, <3>2
  <2>1. Ahead(rank, e, old[k + 1])
    OBVIOUS
  <2>2. CASE j = k + 1
    BY <2>0, <2>1, <2>2
  <2>3. CASE j > k + 1
    <3>1. Ahead(rank, old[k + 1], old[j]) /\ old[k + 1] \in Order /\ old[j] \in Order
      BY <1>3, <2>3 DEF Ranked
    <3> QED
      BY <2>0, <2>1, <3>1, AheadChains
  <2> QED
    BY <2>2, <2>3
<1>6. \A j \in 1..Len(old) : j < k + 1 => new[j] = old[j]
  BY <1>1
<1>7. \A j \in 1..Len(old) : j > k => old[j] = new[j + 1]
  BY <1>1
<1>8. ASSUME NEW i \in 1..Len(new), NEW j \in 1..Len(new), i < j
      PROVE  Ahead(rank, new[i], new[j]) /\ new[i].seq # new[j].seq
  <2>1. CASE j < k + 1
    <3>1. j \in 1..Len(old)
      BY <1>2, <2>1
    <3>2. i \in 1..Len(old) /\ i < k + 1
      BY <1>2, <1>8, <2>1
    <3>3. new[i] = old[i] /\ new[j] = old[j]
      BY <1>6, <2>1, <3>1, <3>2
    <3> QED
      BY <1>8, <3>1, <3>2, <3>3 DEF Ranked
  <2>2. CASE j = k + 1
    <3>1. i \in 1..k /\ i \in 1..Len(old) /\ i < k + 1
      BY <1>1, <1>8, <2>2
    <3>2. new[i] = old[i]
      BY <1>6, <3>1
    <3> QED
      BY <1>1, <1>4, <2>2, <3>1, <3>2
  <2>3. CASE j > k + 1
    <3>0. /\ j - 1 \in 1..Len(old) /\ j - 1 > k /\ (j - 1) + 1 = j
          /\ i < k + 1 => i \in 1..Len(old) /\ i < j - 1
          /\ i > k + 1 => /\ i - 1 \in 1..Len(old) /\ i - 1 > k
                          /\ (i - 1) + 1 = i /\ i - 1 < j - 1
      BY <1>2, <1>8, <2>3, ShiftedIndex
    <3>1. j - 1 \in 1..Len(old) /\ new[j] = old[j - 1] /\ j - 1 > k
      <4>1. old[j - 1] = new[(j - 1) + 1]
        BY <1>7, <3>0
      <4> QED
        BY <3>0, <4>1
    <3>2. CASE i < k + 1
      <4>1. i \in 1..Len(old) /\ i < j - 1
        BY <3>0, <3>2
      <4>2. new[i] = old[i]
        BY <1>6, <3>2, <4>1
      <4>3. Ahead(rank, old[i], old[j - 1]) /\ old[i].seq # old[j - 1].seq
        BY <3>1, <4>1 DEF Ranked
      <4> QED
        BY <3>1, <4>2, <4>3
    <3>3. CASE i = k + 1
      BY <1>1, <1>5, <3>1, <3>3
    <3>4. CASE i > k + 1
      <4>1. i - 1 \in 1..Len(old) /\ new[i] = old[i - 1] /\ i - 1 < j - 1
        <5>1. old[i - 1] = new[(i - 1) + 1]
          BY <1>7, <3>0, <3>4
        <5> QED
          BY <3>0, <3>4, <5>1
      <4>2. Ahead(rank, old[i - 1], old[j - 1]) /\ old[i - 1].seq # old[j - 1].seq
        BY <3>1, <4>1 DEF Ranked
      <4> QED
        BY <3>1, <4>1, <4>2
    <3> QED
      BY <3>2, <3>3, <3>4
  <2> QED
    BY <2>1, <2>2, <2>3
<1> QED
  BY <1>8 DEF Ranked

(* Taking an order out keeps the side ranked. *)
LEMMA TakeOutRanks ==
  ASSUME NEW rank, NEW new \in Seq(Order), NEW old \in Seq(Order), NEW p,
         TakenOut(new, old, p), Ranked(rank, old)
  PROVE  Ranked(rank, new)
<1>1. /\ p \in 1..Len(old) /\ Len(old) = Len(new) + 1
      /\ \A j \in 1..Len(new) : new[j] = IF j < p THEN old[j] ELSE old[j + 1]
  BY DEF TakenOut
<1>2. ASSUME NEW i \in 1..Len(new), NEW j \in 1..Len(new), i < j
      PROVE  Ahead(rank, new[i], new[j]) /\ new[i].seq # new[j].seq
  <2> DEFINE at(x) == IF x < p THEN x ELSE x + 1
  <2>1. /\ at(i) \in 1..Len(old) /\ at(j) \in 1..Len(old) /\ at(i) < at(j)
        /\ new[i] = old[at(i)] /\ new[j] = old[at(j)]
    BY <1>1, <1>2
  <2> QED
    BY <2>1 DEF Ranked
<1> QED
  BY <1>2 DEF Ranked

(* Fills keep the side ranked. *)
LEMMA LeftOfRanks ==
  ASSUME NEW rank, NEW r \in Seq(Order), NEW s \in Seq(Order),
         LeftOf(r, s), Ranked(rank, s)
  PROVE  Ranked(rank, r)
<1>1. PICK d \in 0..Len(s) :
        /\ Len(r) = Len(s) - d
        /\ \A j \in 1..Len(r) : r[j].price = s[j + d].price /\ r[j].seq = s[j + d].seq
  BY DEF LeftOf
<1>2. ASSUME NEW i \in 1..Len(r), NEW j \in 1..Len(r), i < j
      PROVE  Ahead(rank, r[i], r[j]) /\ r[i].seq # r[j].seq
  <2>1. i + d \in 1..Len(s) /\ j + d \in 1..Len(s) /\ i + d < j + d
    BY <1>1, <1>2
  <2>2. Ahead(rank, s[i + d], s[j + d]) /\ s[i + d].seq # s[j + d].seq
    BY <2>1 DEF Ranked
  <2> QED
    BY <1>1, <2>2 DEF Ahead
<1> QED
  BY <1>2 DEF Ranked

--------------------------------------------------------------------------------
(* One side of the book *)

(* The sequence numbers a side has given out. *)
Seqs(s) == {s[j].seq : j \in 1..Len(s)}

(* A side in its order, within its slots, whose sequence numbers are below n. *)
Sorted(rank, s, n) ==
  /\ s \in Side
  /\ Len(s) <= ORDERBOOK_N
  /\ Ranked(rank, s)
  /\ Seqs(s) \subseteq 0..(n - 1)

(* Fills bring no sequence number in and make no side longer. *)
LEMMA LeftOfSeqs ==
  ASSUME NEW s \in Seq(Order), NEW r \in Seq(Order), LeftOf(r, s)
  PROVE  Seqs(r) \subseteq Seqs(s) /\ Len(r) <= Len(s)
<1>1. PICK d \in 0..Len(s) :
        /\ Len(r) = Len(s) - d
        /\ \A j \in 1..Len(r) : r[j].seq = s[j + d].seq
  BY DEF LeftOf
<1>2. \A j \in 1..Len(r) : j + d \in 1..Len(s) /\ r[j].seq = s[j + d].seq
  BY <1>1
<1>3. Len(r) <= Len(s)
  BY <1>1
<1> QED
  BY <1>2, <1>3 DEF Seqs

(* An insertion brings in one sequence number and one order. *)
LEMMA InsertedSeqs ==
  ASSUME NEW new, NEW old \in Seq(Order), NEW e, NEW k \in 0..Len(old),
         Inserted(new, old, e, k)
  PROVE  Seqs(new) = Seqs(old) \cup {e.seq} /\ Len(new) = Len(old) + 1
<1>1. /\ new \in Seq(Order) /\ Len(new) = Len(old) + 1 /\ new[k + 1] = e
      /\ \A j \in 1..Len(old) : old[j] = IF j < k + 1 THEN new[j] ELSE new[j + 1]
  BY DEF Inserted, TakenOut
<1>2. ASSUME NEW j \in 1..Len(old) PROVE \E i \in 1..Len(new) : old[j] = new[i]
  <2>1. j \in 1..Len(new) /\ j + 1 \in 1..Len(new)
    BY <1>1
  <2>2. old[j] = new[j] \/ old[j] = new[j + 1]
    BY <1>1
  <2> QED
    BY <2>1, <2>2
<1>3. k + 1 \in 1..Len(new)
  BY <1>1
<1>4. ASSUME NEW i \in 1..Len(new), i # k + 1
      PROVE  \E j \in 1..Len(old) : new[i] = old[j]
  <2>1. CASE i < k + 1
    <3>1. i \in 1..Len(old)
      BY <1>1, <2>1
    <3> QED
      BY <1>1, <2>1, <3>1
  <2>2. CASE i > k + 1
    <3>1. i - 1 \in 1..Len(old) /\ ~(i - 1 < k + 1) /\ (i - 1) + 1 = i
      BY <1>1, <2>2
    <3>2. old[i - 1] = IF i - 1 < k + 1 THEN new[i - 1] ELSE new[(i - 1) + 1]
      BY <1>1, <3>1
    <3>3. old[i - 1] = new[i]
      BY <3>1, <3>2
    <3> QED
      BY <3>1, <3>3
  <2>3. i \in Nat /\ k \in Nat
    BY <1>1
  <2> QED
    BY <1>4, <2>1, <2>2, <2>3
<1>5. Seqs(old) \subseteq Seqs(new)
  BY <1>2 DEF Seqs
<1>6. e.seq \in Seqs(new)
  BY <1>1, <1>3 DEF Seqs
<1>7. Seqs(new) \subseteq Seqs(old) \cup {e.seq}
  <2> SUFFICES ASSUME NEW i \in 1..Len(new) PROVE new[i].seq \in Seqs(old) \cup {e.seq}
    BY DEF Seqs
  <2>1. CASE i = k + 1
    BY <1>1, <2>1
  <2>2. CASE i # k + 1
    BY <1>4, <2>2 DEF Seqs
  <2> QED
    BY <2>1, <2>2
<1> QED
  BY <1>1, <1>5, <1>6, <1>7

(* Fills keep a side sorted. *)
LEMMA SortedLess ==
  ASSUME NEW rank, NEW s, NEW n \in Nat, NEW r \in Side,
         Sorted(rank, s, n), LeftOf(r, s)
  PROVE  Sorted(rank, r, n)
<1>1. s \in Side /\ s \in Seq(Order) /\ r \in Seq(Order) /\ Len(s) <= ORDERBOOK_N
  BY SideFacts DEF Sorted
<1>2. Ranked(rank, r)
  BY <1>1, LeftOfRanks DEF Sorted
<1>3. Seqs(r) \subseteq Seqs(s) /\ Len(r) <= Len(s)
  BY <1>1, LeftOfSeqs
<1>4. Len(r) \in Nat /\ Len(s) \in Nat /\ ORDERBOOK_N \in Nat
  BY <1>1, OrderBookAssumption DEF OrderBookAssumption
<1>5. Len(r) <= ORDERBOOK_N
  BY <1>1, <1>3, <1>4
<1> QED
  BY <1>2, <1>3, <1>5 DEF Sorted

(* A sorted side stays so when next_seq moves on. *)
LEMMA SortedLater ==
  ASSUME NEW rank, NEW s, NEW n \in Nat, Sorted(rank, s, n)
  PROVE  Sorted(rank, s, n + 1)
<1>1. 0..(n - 1) \subseteq 0..((n + 1) - 1)
  OBVIOUS
<1> QED
  BY <1>1 DEF Sorted

(* Taking an order out keeps a side sorted. *)
LEMMA SortedTakeOut ==
  ASSUME NEW rank, NEW old, NEW n \in Nat, NEW new \in Seq(Order), NEW e,
         NEW k \in 0..Len(new), Sorted(rank, old, n), Inserted(old, new, e, k)
  PROVE  Sorted(rank, new, n)
<1>1. /\ old \in Side /\ old \in Seq(Order) /\ Len(old) <= ORDERBOOK_N
      /\ \A j \in 1..Len(old) : old[j].size > 0
  BY DEF Sorted, Side
<1>2. Seqs(old) = Seqs(new) \cup {e.seq} /\ Len(old) = Len(new) + 1
  BY InsertedSeqs
<1>3. /\ TakenOut(new, old, k + 1)
      /\ \A j \in 1..Len(new) : new[j] = IF j < k + 1 THEN old[j] ELSE old[j + 1]
  BY DEF Inserted, TakenOut
<1>4. Ranked(rank, new)
  <2> DEFINE p == k + 1
  <2>1. TakenOut(new, old, p)
    BY <1>3
  <2> HIDE DEF p
  <2> QED
    BY <1>1, <2>1, TakeOutRanks DEF Sorted
<1>5. ASSUME NEW j \in 1..Len(new) PROVE new[j].size > 0
  <2>1. j \in 1..Len(old) /\ j + 1 \in 1..Len(old)
    BY <1>2
  <2>2. new[j] = old[j] \/ new[j] = old[j + 1]
    BY <1>3
  <2> QED
    BY <1>1, <2>1, <2>2
<1>6. Len(new) <= ORDERBOOK_N
  <2>1. Len(new) \in Nat /\ ORDERBOOK_N \in Nat
    BY OrderBookAssumption DEF OrderBookAssumption
  <2> QED
    BY <1>1, <1>2, <2>1
<1> QED
  BY <1>2, <1>4, <1>5, <1>6 DEF Sorted, Side

(* Putting the order numbered next_seq into a side with a free slot keeps it  *)
(* sorted.                                                                    *)
LEMMA SortedInsert ==
  ASSUME NEW rank \in [Nat -> Int], NEW old, NEW n \in Nat, NEW e \in Order, NEW new,
         NEW k \in 0..Len(old), Sorted(rank, old, n), Inserted(new, old, e, k),
         e.seq = n, e.size > 0, Len(old) < ORDERBOOK_N,
         \A j \in 1..k : ~Ahead(rank, e, old[j]),
         k < Len(old) => Ahead(rank, e, old[k + 1])
  PROVE  Sorted(rank, new, n + 1)
<1>1. /\ old \in Seq(Order) /\ \A j \in 1..Len(old) : old[j].size > 0
      /\ Ranked(rank, old) /\ Seqs(old) \subseteq 0..(n - 1)
  BY DEF Sorted, Side
<1>2. Seqs(new) = Seqs(old) \cup {e.seq} /\ Len(new) = Len(old) + 1
  BY <1>1, InsertedSeqs
<1>3. /\ new \in Seq(Order) /\ new[k + 1] = e
      /\ \A j \in 1..Len(old) : old[j] = IF j < k + 1 THEN new[j] ELSE new[j + 1]
  BY DEF Inserted, TakenOut
<1>4. \A j \in 1..Len(old) : old[j].seq < e.seq
  <2>1. \A j \in 1..Len(old) : old[j].seq \in 0..(n - 1)
    BY <1>1 DEF Seqs
  <2> QED
    BY <2>1
<1>5. Ranked(rank, new)
  BY <1>1, <1>4, InsertRanks
<1>6. ASSUME NEW i \in 1..Len(new) PROVE new[i].size > 0
  <2>1. CASE i = k + 1
    BY <1>3, <2>1
  <2>2. CASE i < k + 1
    <3>1. i \in 1..Len(old)
      BY <1>2, <2>2
    <3> QED
      BY <1>1, <1>3, <2>2, <3>1
  <2>3. CASE i > k + 1
    <3>1. i - 1 \in 1..Len(old) /\ ~(i - 1 < k + 1) /\ (i - 1) + 1 = i
      BY <1>2, <2>3
    <3>2. old[i - 1] = IF i - 1 < k + 1 THEN new[i - 1] ELSE new[(i - 1) + 1]
      BY <1>3, <3>1
    <3>3. old[i - 1] = new[i] /\ old[i - 1].size > 0
      BY <1>1, <3>1, <3>2
    <3> QED
      BY <3>3
  <2>4. i \in Nat /\ k \in Nat
    OBVIOUS
  <2> QED
    BY <2>1, <2>2, <2>3, <2>4
<1>7. Len(new) <= ORDERBOOK_N
  <2>1. Len(old) \in Nat /\ ORDERBOOK_N \in Nat
    BY <1>1, OrderBookAssumption DEF OrderBookAssumption
  <2> QED
    BY <1>2, <2>1
<1>8. Seqs(new) \subseteq 0..((n + 1) - 1)
  BY <1>1, <1>2
<1> QED
  BY <1>3, <1>5, <1>6, <1>7, <1>8 DEF Sorted, Side

--------------------------------------------------------------------------------
(* The invariant *)

(* Types of everything but the sides. *)
BookTypes ==
  /\ stage \in Stages
  /\ nextSeq \in Nat
  /\ usdcEscrow \in Nat /\ yesEscrow \in Nat
  /\ strayUsdc \in Nat /\ strayYes \in Nat
  /\ usdc \in [Users -> Nat] /\ yes \in [Users -> Nat]
  /\ paused \in BOOLEAN /\ mintCurrent \in BOOLEAN /\ settled \in BOOLEAN

(* Both sides sorted, and no sequence number on both. *)
SidesSorted ==
  /\ Sorted(Falling, bids, nextSeq)
  /\ Sorted(Rising, asks, nextSeq)
  /\ Seqs(bids) \cap Seqs(asks) = {}

(* The escrows hold what the sides weigh. *)
EscrowsWeighed ==
  /\ usdcEscrow = Weigh(bids, CostOf) + strayUsdc
  /\ yesEscrow = Weigh(asks, SizeOf) + strayYes

(* The inductive invariant.  Before trading is wired the sides are empty,     *)
(* which is why clearing them then loses nothing.                             *)
BookInv ==
  /\ BookTypes
  /\ SidesSorted
  /\ EscrowsWeighed
  /\ stage # "wired" => bids = <<>> /\ asks = <<>>

(* The assumptions on the constants, as the proofs use them. *)
LEMMA ConstantFacts ==
  /\ ORDERBOOK_N \in Nat /\ MAX_FILLS \in Nat /\ MAX_PAIRS \in Nat
  /\ PRICE_SCALE \in Nat
  /\ Prices \subseteq Nat /\ Sizes \subseteq Nat /\ SplAmounts \subseteq Nat
  /\ InitialUsdc \in [Users -> Nat] /\ InitialYes \in [Users -> Nat]
  BY OrderBookAssumption, OrderMathAssumption
  DEF OrderBookAssumption, OrderMathAssumption

(* An empty side is sorted and weighs nothing. *)
LEMMA NoOrders ==
  ASSUME NEW rank, NEW n \in Nat
  PROVE  /\ Sorted(rank, <<>>, n)
         /\ Seqs(<<>>) = {}
         /\ Weigh(<<>>, CostOf) = 0 /\ Weigh(<<>>, SizeOf) = 0
<1>1. <<>> \in Side /\ Len(<<>>) = 0 /\ 1..0 = {}
  BY DEF Side
<1>2. Seqs(<<>>) = {} /\ Ranked(rank, <<>>)
  BY <1>1 DEF Seqs, Ranked
<1>3. Len(<<>>) <= ORDERBOOK_N
  BY <1>1, ConstantFacts
<1> QED
  BY <1>1, <1>2, <1>3, WeighNone DEF Sorted

(* The totals of a plan are the weights of its fills, and nobody is paid a    *)
(* negative amount.                                                           *)
LEMMA FillTotals ==
  ASSUME NEW fs \in Seq(PlannedFill)
  PROVE  /\ TotalSize(fs) = Weigh(fs, FillSize) /\ TotalSize(fs) \in Nat
         /\ TotalUsdc(fs) = Weigh(fs, FillUsdc) /\ TotalUsdc(fs) \in Nat
         /\ \A v \in Users : PaidTo(v, fs) \in Nat /\ DeliveredTo(v, fs) \in Nat
<1>1. \A i \in DOMAIN fs : fs[i] \in PlannedFill
  OBVIOUS
<1>2. \A f \in PlannedFill : /\ FillSize[f] = f.size /\ FillUsdc[f] = f.usdc
                             /\ f.size \in Nat /\ f.usdc \in Nat
  BY DEF FillSize, FillUsdc, PlannedFill
<1>3. [i \in DOMAIN fs |-> fs[i].size] = [i \in DOMAIN fs |-> FillSize[fs[i]]]
  BY <1>1, <1>2
<1>4. [i \in DOMAIN fs |-> fs[i].usdc] = [i \in DOMAIN fs |-> FillUsdc[fs[i]]]
  BY <1>1, <1>2
<1>5. TotalSize(fs) = Weigh(fs, FillSize) /\ TotalUsdc(fs) = Weigh(fs, FillUsdc)
  BY <1>3, <1>4 DEF TotalSize, TotalUsdc, Weigh
<1>6. ASSUME NEW wt \in [PlannedFill -> Nat] PROVE Weigh(fs, wt) \in Nat
  BY WeighNat
<1>7. ASSUME NEW v \in Users PROVE PaidTo(v, fs) \in Nat /\ DeliveredTo(v, fs) \in Nat
  <2> DEFINE paid == [f \in PlannedFill |-> IF f.maker = v THEN f.usdc ELSE 0]
             got == [f \in PlannedFill |-> IF f.maker = v THEN f.size ELSE 0]
  <2>1. paid \in [PlannedFill -> Nat] /\ got \in [PlannedFill -> Nat]
    BY <1>2
  <2>2. [i \in DOMAIN fs |-> IF fs[i].maker = v THEN fs[i].usdc ELSE 0]
          = [i \in DOMAIN fs |-> paid[fs[i]]]
    BY <1>1
  <2>3. [i \in DOMAIN fs |-> IF fs[i].maker = v THEN fs[i].size ELSE 0]
          = [i \in DOMAIN fs |-> got[fs[i]]]
    BY <1>1
  <2> HIDE DEF paid, got
  <2>4. PaidTo(v, fs) = Weigh(fs, paid) /\ DeliveredTo(v, fs) = Weigh(fs, got)
    BY <2>2, <2>3 DEF PaidTo, DeliveredTo, Weigh
  <2> QED
    BY <1>6, <2>1, <2>4
<1> QED
  BY <1>5, <1>6, <1>7, FillWeights

(* The same of the pairs of the crank. *)
LEMMA PairTotals ==
  ASSUME NEW ps \in Seq(CrossedPair)
  PROVE  /\ TotalSize(ps) = Weigh(ps, PairSize) /\ TotalSize(ps) \in Nat
         /\ TotalUsdc(ps) = Weigh(ps, PairUsdc) /\ TotalUsdc(ps) \in Nat
         /\ \A v \in Users :
              /\ SumFunction([i \in DOMAIN ps |->
                    IF ps[i].seller = v THEN ps[i].usdc ELSE 0]) \in Nat
              /\ SumFunction([i \in DOMAIN ps |->
                    IF ps[i].buyer = v THEN ps[i].size ELSE 0]) \in Nat
<1>1. \A i \in DOMAIN ps : ps[i] \in CrossedPair
  OBVIOUS
<1>2. \A p \in CrossedPair : /\ PairSize[p] = p.size /\ PairUsdc[p] = p.usdc
                             /\ p.size \in Nat /\ p.usdc \in Nat
  BY DEF PairSize, PairUsdc, CrossedPair
<1>3. [i \in DOMAIN ps |-> ps[i].size] = [i \in DOMAIN ps |-> PairSize[ps[i]]]
  BY <1>1, <1>2
<1>4. [i \in DOMAIN ps |-> ps[i].usdc] = [i \in DOMAIN ps |-> PairUsdc[ps[i]]]
  BY <1>1, <1>2
<1>5. TotalSize(ps) = Weigh(ps, PairSize) /\ TotalUsdc(ps) = Weigh(ps, PairUsdc)
  BY <1>3, <1>4 DEF TotalSize, TotalUsdc, Weigh
<1>6. ASSUME NEW wt \in [CrossedPair -> Nat] PROVE Weigh(ps, wt) \in Nat
  BY WeighNat
<1>7. ASSUME NEW v \in Users
      PROVE  /\ SumFunction([i \in DOMAIN ps |->
                    IF ps[i].seller = v THEN ps[i].usdc ELSE 0]) \in Nat
             /\ SumFunction([i \in DOMAIN ps |->
                    IF ps[i].buyer = v THEN ps[i].size ELSE 0]) \in Nat
  <2> DEFINE paid == [p \in CrossedPair |-> IF p.seller = v THEN p.usdc ELSE 0]
             got == [p \in CrossedPair |-> IF p.buyer = v THEN p.size ELSE 0]
  <2>1. paid \in [CrossedPair -> Nat] /\ got \in [CrossedPair -> Nat]
    BY <1>2
  <2>2. [i \in DOMAIN ps |-> IF ps[i].seller = v THEN ps[i].usdc ELSE 0]
          = [i \in DOMAIN ps |-> paid[ps[i]]]
    BY <1>1
  <2>3. [i \in DOMAIN ps |-> IF ps[i].buyer = v THEN ps[i].size ELSE 0]
          = [i \in DOMAIN ps |-> got[ps[i]]]
    BY <1>1
  <2> HIDE DEF paid, got
  <2>4. Weigh(ps, paid) \in Nat /\ Weigh(ps, got) \in Nat
    BY <1>6, <2>1
  <2> QED
    BY <2>2, <2>3, <2>4 DEF Weigh
<1> QED
  BY <1>5, <1>6, <1>7, PairWeights

(* A bid that rests takes the next sequence number and its escrow. *)
LEMMA RestedBid ==
  ASSUME BookInv, NEW u \in Users, NEW price \in Nat, NEW left \in Nat, left > 0,
         Len(bids) < ORDERBOOK_N
  PROVE  LET new == insert_sorted_bid(bids, Rested(u, price, left)) IN
         /\ Sorted(Falling, new, nextSeq + 1)
         /\ Seqs(new) = Seqs(bids) \cup {nextSeq}
         /\ Weigh(new, CostOf) = bid_cost_ceil(price, left) + Weigh(bids, CostOf)
<1> DEFINE e == Rested(u, price, left)
           new == insert_sorted_bid(bids, e)
<1>1. nextSeq \in Nat /\ Sorted(Falling, bids, nextSeq) /\ bids \in Seq(Order)
  BY DEF BookInv, BookTypes, SidesSorted, Sorted, Side
<1>2. e \in Order /\ e.seq = nextSeq /\ e.size = left /\ e.price = price
  BY <1>1 DEF Rested, Order
<1> HIDE DEF e
<1>3. PICK k \in 0..Len(bids) :
        /\ Inserted(new, bids, e, k)
        /\ \A j \in 1..k : ~BeforeBid(e, bids[j])
        /\ k < Len(bids) => BeforeBid(e, bids[k + 1])
  BY <1>1, <1>2, InsertBid
<1> HIDE DEF new
<1>4. \A j \in 1..Len(bids) : bids[j] \in Order
  BY <1>1
<1>5. /\ \A j \in 1..k : ~Ahead(Falling, e, bids[j])
      /\ k < Len(bids) => Ahead(Falling, e, bids[k + 1])
  <2>1. \A j \in 1..k : j \in 1..Len(bids)
    BY <1>1
  <2>2. k < Len(bids) => k + 1 \in 1..Len(bids)
    BY <1>1
  <2> QED
    BY <1>2, <1>3, <1>4, <2>1, <2>2, RanksOfSides
<1>6. Sorted(Falling, new, nextSeq + 1)
  BY <1>1, <1>2, <1>3, <1>5, RanksOfSides, SortedInsert
<1>7. Seqs(new) = Seqs(bids) \cup {nextSeq}
  BY <1>1, <1>2, <1>3, InsertedSeqs
<1>8. Weigh(new, CostOf) = bid_cost_ceil(price, left) + Weigh(bids, CostOf)
  BY <1>1, <1>2, <1>3, InsertedWeighs
<1> QED
  BY <1>6, <1>7, <1>8 DEF new, e

(* An ask that rests takes the next sequence number and its size. *)
LEMMA RestedAsk ==
  ASSUME BookInv, NEW u \in Users, NEW price \in Nat, NEW left \in Nat, left > 0,
         Len(asks) < ORDERBOOK_N
  PROVE  LET new == insert_sorted_ask(asks, Rested(u, price, left)) IN
         /\ Sorted(Rising, new, nextSeq + 1)
         /\ Seqs(new) = Seqs(asks) \cup {nextSeq}
         /\ Weigh(new, SizeOf) = left + Weigh(asks, SizeOf)
<1> DEFINE e == Rested(u, price, left)
           new == insert_sorted_ask(asks, e)
<1>1. nextSeq \in Nat /\ Sorted(Rising, asks, nextSeq) /\ asks \in Seq(Order)
  BY DEF BookInv, BookTypes, SidesSorted, Sorted, Side
<1>2. e \in Order /\ e.seq = nextSeq /\ e.size = left
  BY <1>1 DEF Rested, Order
<1> HIDE DEF e
<1>3. PICK k \in 0..Len(asks) :
        /\ Inserted(new, asks, e, k)
        /\ \A j \in 1..k : ~BeforeAsk(e, asks[j])
        /\ k < Len(asks) => BeforeAsk(e, asks[k + 1])
  BY <1>1, <1>2, InsertAsk
<1> HIDE DEF new
<1>4. \A j \in 1..Len(asks) : asks[j] \in Order
  BY <1>1
<1>5. /\ \A j \in 1..k : ~Ahead(Rising, e, asks[j])
      /\ k < Len(asks) => Ahead(Rising, e, asks[k + 1])
  <2>1. \A j \in 1..k : j \in 1..Len(asks)
    BY <1>1
  <2>2. k < Len(asks) => k + 1 \in 1..Len(asks)
    BY <1>1
  <2> QED
    BY <1>2, <1>3, <1>4, <2>1, <2>2, RanksOfSides
<1>6. Sorted(Rising, new, nextSeq + 1)
  BY <1>1, <1>2, <1>3, <1>5, RanksOfSides, SortedInsert
<1>7. Seqs(new) = Seqs(asks) \cup {nextSeq}
  BY <1>1, <1>2, <1>3, InsertedSeqs
<1>8. Weigh(new, SizeOf) = left + Weigh(asks, SizeOf)
  BY <1>1, <1>2, <1>3, InsertedWeighs
<1> QED
  BY <1>6, <1>7, <1>8 DEF new, e

(* All that the proofs use of plan_fills: what it leaves of the makers, what  *)
(* it moves, and why it ended.                                                *)
Planned(rank, makers, n, side, price, size, isMarket) ==
  LET plan == plan_fills(side, makers, price, size, isMarket) IN
  /\ Sorted(rank, plan.makers, n) /\ Seqs(plan.makers) \subseteq Seqs(makers)
  /\ plan.left \in Nat /\ plan.fills \in Seq(PlannedFill)
  /\ Weigh(makers, SizeOf) = Weigh(plan.makers, SizeOf) + TotalSize(plan.fills)
  /\ Weigh(makers, CostOf) = Weigh(plan.makers, CostOf) + TotalUsdc(plan.fills)
  /\ plan.left + TotalSize(plan.fills) = size
  /\ LeftOf(plan.makers, makers)
  /\ \/ ~Fillable(side, plan, price, isMarket)
     \/ Len(plan.makers) <= Len(makers) - MAX_FILLS

(* Every plan of a sorted side is such. *)
LEMMA PlanFacts ==
  ASSUME NEW rank, NEW makers, NEW n \in Nat, Sorted(rank, makers, n),
         NEW side, NEW price, NEW size \in Nat, NEW isMarket
  PROVE  Planned(rank, makers, n, side, price, size, isMarket)
<1> DEFINE plan == plan_fills(side, makers, price, size, isMarket)
<1>1. makers \in Side /\ makers \in Seq(Order)
  BY SideFacts DEF Sorted
<1>2. /\ WalkInv(makers, size, plan)
      /\ \/ ~Fillable(side, plan, price, isMarket)
         \/ Len(plan.makers) <= Len(makers) - MAX_FILLS
  BY <1>1, PlanKeeps
<1> HIDE DEF plan
<1>3. /\ plan.makers \in Side /\ plan.left \in Nat /\ plan.fills \in Seq(PlannedFill)
      /\ LeftOf(plan.makers, makers)
      /\ Weigh(makers, SizeOf) = Weigh(plan.makers, SizeOf) + Weigh(plan.fills, FillSize)
      /\ Weigh(makers, CostOf) = Weigh(plan.makers, CostOf) + Weigh(plan.fills, FillUsdc)
      /\ plan.left + Weigh(plan.fills, FillSize) = size
  BY <1>2 DEF WalkInv
<1>4. Sorted(rank, plan.makers, n)
  BY <1>3, SortedLess
<1>5. plan.makers \in Seq(Order)
  BY <1>3, SideFacts
<1>6. Seqs(plan.makers) \subseteq Seqs(makers)
  BY <1>1, <1>3, <1>5, LeftOfSeqs
<1>7. /\ TotalSize(plan.fills) = Weigh(plan.fills, FillSize)
      /\ TotalUsdc(plan.fills) = Weigh(plan.fills, FillUsdc)
  BY <1>3, FillTotals
<1> QED
  BY <1>2, <1>3, <1>4, <1>6, <1>7 DEF plan, Planned

(* place_order of a bid keeps the invariant. *)
LEMMA PlaceBidInv ==
  ASSUME BookInv, NEW u \in Users, NEW price \in Nat, NEW size \in Nat,
         NEW isMarket \in BOOLEAN, PlaceBid(u, price, size, isMarket)
  PROVE  BookInv'
<1> DEFINE plan == plan_fills("bid", asks, price, size, isMarket)
           deposit == escrow_in_usdc(price, size, isMarket)
           spent == TotalUsdc(plan.fills)
           kept == RestingCost(price, plan.left, isMarket)
           bought == TotalSize(plan.fills)
           rests == plan.left > 0 /\ ~isMarket
<1>1. /\ BookTypes /\ EscrowsWeighed
      /\ Sorted(Falling, bids, nextSeq) /\ Sorted(Rising, asks, nextSeq)
      /\ Seqs(bids) \cap Seqs(asks) = {}
  BY DEF BookInv, SidesSorted
<1>2. /\ stage = "wired" /\ deposit <= usdc[u] /\ spent + kept <= deposit
      /\ bought <= yesEscrow /\ CanRest(bids, plan.left, isMarket)
      /\ usdc' = [v \in Users |-> usdc[v] + PaidTo(v, plan.fills)
                                    - (IF v = u THEN spent + kept ELSE 0)]
      /\ yes' = [yes EXCEPT ![u] = @ + bought]
      /\ usdcEscrow' = usdcEscrow + kept
      /\ yesEscrow' = yesEscrow - bought
      /\ asks' = plan.makers
      /\ bids' = IF rests THEN insert_sorted_bid(bids, Rested(u, price, plan.left))
                 ELSE bids
      /\ nextSeq' = IF rests THEN nextSeq + 1 ELSE nextSeq
      /\ UNCHANGED <<stage, gateVars, strayVars>>
  BY DEF PlaceBid, TradingOpen, NextSeqAfter
<1>3. nextSeq \in Nat
  BY <1>1 DEF BookTypes
<1>4. /\ Sorted(Rising, plan.makers, nextSeq) /\ Seqs(plan.makers) \subseteq Seqs(asks)
      /\ plan.left \in Nat /\ plan.fills \in Seq(PlannedFill)
      /\ Weigh(asks, SizeOf) = Weigh(plan.makers, SizeOf) + bought
  <2>1. Planned(Rising, asks, nextSeq, "bid", price, size, isMarket)
    BY <1>1, <1>3, PlanFacts
  <2> QED
    BY <2>1 DEF Planned
<1> HIDE DEF plan
<1>5. /\ bought \in Nat /\ spent \in Nat
      /\ \A v \in Users : PaidTo(v, plan.fills) \in Nat
  BY <1>4, FillTotals
<1>6. /\ kept \in Nat
      /\ kept = IF rests THEN bid_cost_ceil(price, plan.left) ELSE 0
  <2>1. bid_cost_ceil(price, plan.left) \in Nat
    BY <1>4, CostNat
  <2>2. plan.left = 0 => bid_cost_ceil(price, plan.left) = 0
    BY CostZero
  <2> QED
    BY <1>4, <2>1, <2>2 DEF RestingCost
<1>7. deposit \in Nat
  <2>1. bid_cost_ceil(price, size) \in Nat
    BY CostNat
  <2> QED
    BY <2>1, ConstantFacts DEF escrow_in_usdc
<1>8. bids \in Side /\ asks \in Side /\ plan.makers \in Side
  BY <1>1, <1>4 DEF Sorted
<1>9. /\ Weigh(bids, CostOf) \in Nat /\ Weigh(asks, SizeOf) \in Nat
      /\ Weigh(plan.makers, SizeOf) \in Nat
  BY <1>8, SideFacts
<1> HIDE DEF deposit, spent, kept, bought
<1>10. BookTypes'
  <2>1. /\ nextSeq' \in Nat /\ usdcEscrow' \in Nat /\ yesEscrow' \in Nat
        /\ yes' \in [Users -> Nat]
    <3>1. usdcEscrow \in Nat /\ yesEscrow \in Nat /\ yes \in [Users -> Nat]
      BY <1>1 DEF BookTypes
    <3>2. yes[u] + bought \in Nat
      BY <1>5, <3>1
    <3>3. yes' \in [Users -> Nat]
      BY <1>2, <3>1, <3>2
    <3> QED
      BY <1>2, <1>3, <1>5, <1>6, <3>1, <3>3
  <2>2. usdc' \in [Users -> Nat]
    <3>1. ASSUME NEW v \in Users
          PROVE  usdc[v] + PaidTo(v, plan.fills)
                   - (IF v = u THEN spent + kept ELSE 0) \in Nat
      <4>1. /\ usdc[v] \in Nat /\ PaidTo(v, plan.fills) \in Nat
            /\ v = u => spent + kept <= usdc[v]
        <5>1. usdc[v] \in Nat /\ usdc[u] \in Nat
          BY <1>1 DEF BookTypes
        <5> QED
          BY <1>2, <1>5, <1>6, <1>7, <5>1
      <4> QED
        BY <1>5, <1>6, <4>1
    <3> QED
      BY <1>2, <3>1
  <2> QED
    BY <1>1, <1>2, <2>1, <2>2 DEF BookTypes, gateVars, strayVars
<1>11. EscrowsWeighed' /\ SidesSorted'
  <2>1. yesEscrow' = Weigh(asks', SizeOf) + strayYes'
    <3>1. yesEscrow = Weigh(asks, SizeOf) + strayYes /\ strayYes \in Nat
      BY <1>1 DEF EscrowsWeighed, BookTypes
    <3> QED
      <4>1. /\ yesEscrow' = yesEscrow - bought /\ asks' = plan.makers
            /\ strayYes' = strayYes
        BY <1>2 DEF strayVars
      <4>2. Weigh(asks, SizeOf) = Weigh(plan.makers, SizeOf) + bought
        BY <1>4
      <4> QED
        BY <1>5, <1>9, <3>1, <4>1, <4>2
  <2>2. usdcEscrow = Weigh(bids, CostOf) + strayUsdc /\ strayUsdc \in Nat
    BY <1>1 DEF EscrowsWeighed, BookTypes
  <2>3. CASE rests
    <3> DEFINE new == insert_sorted_bid(bids, Rested(u, price, plan.left))
    <3>1. Len(bids) < ORDERBOOK_N
      BY <1>2, <2>3 DEF CanRest
    <3>2. /\ Sorted(Falling, new, nextSeq + 1)
          /\ Seqs(new) = Seqs(bids) \cup {nextSeq}
          /\ Weigh(new, CostOf) = bid_cost_ceil(price, plan.left) + Weigh(bids, CostOf)
      BY <1>4, <2>3, <3>1, RestedBid
    <3>3. bids' = new /\ nextSeq' = nextSeq + 1
      BY <1>2, <2>3
    <3> HIDE DEF new
    <3>4. Sorted(Rising, plan.makers, nextSeq + 1)
      BY <1>3, <1>4, SortedLater
    <3>5. Seqs(asks) \subseteq 0..(nextSeq - 1)
      BY <1>1 DEF Sorted
    <3>6. nextSeq \notin Seqs(asks)
      BY <1>3, <3>5
    <3>7. Seqs(new) \cap Seqs(plan.makers) = {}
      BY <1>1, <1>4, <3>2, <3>6
    <3>8. SidesSorted'
      BY <1>2, <3>2, <3>3, <3>4, <3>7 DEF SidesSorted
    <3>9. usdcEscrow' = Weigh(bids', CostOf) + strayUsdc'
      <4>1. usdcEscrow' = usdcEscrow + kept /\ strayUsdc' = strayUsdc /\ bids' = new
        BY <1>2, <3>3 DEF strayVars
      <4>2. Weigh(new, CostOf) = kept + Weigh(bids, CostOf) /\ kept \in Nat
        BY <1>6, <2>3, <3>2
      <4> QED
        BY <1>9, <2>2, <4>1, <4>2
    <3> QED
      BY <2>1, <3>8, <3>9 DEF EscrowsWeighed
  <2>4. CASE ~rests
    <3>1. bids' = bids /\ nextSeq' = nextSeq /\ kept = 0
      BY <1>2, <1>6, <2>4
    <3>2. Seqs(bids) \cap Seqs(plan.makers) = {}
      BY <1>1, <1>4
    <3>3. SidesSorted'
      BY <1>1, <1>2, <1>4, <3>1, <3>2 DEF SidesSorted
    <3>4. usdcEscrow' = Weigh(bids', CostOf) + strayUsdc'
      BY <1>2, <1>9, <2>2, <3>1 DEF strayVars
    <3> QED
      BY <2>1, <3>3, <3>4 DEF EscrowsWeighed
  <2> QED
    BY <2>3, <2>4
<1> QED
  BY <1>2, <1>10, <1>11 DEF BookInv

(* place_order of an ask keeps the invariant. *)
LEMMA PlaceAskInv ==
  ASSUME BookInv, NEW u \in Users, NEW price \in Nat, NEW size \in Nat,
         NEW isMarket \in BOOLEAN, PlaceAsk(u, price, size, isMarket)
  PROVE  BookInv'
<1> DEFINE plan == plan_fills("ask", bids, price, size, isMarket)
           earned == TotalUsdc(plan.fills)
           kept == IF isMarket THEN 0 ELSE plan.left
           sold == TotalSize(plan.fills)
           rests == plan.left > 0 /\ ~isMarket
<1>1. /\ BookTypes /\ EscrowsWeighed
      /\ Sorted(Falling, bids, nextSeq) /\ Sorted(Rising, asks, nextSeq)
      /\ Seqs(bids) \cap Seqs(asks) = {}
  BY DEF BookInv, SidesSorted
<1>2. /\ stage = "wired" /\ size <= yes[u] /\ earned <= usdcEscrow
      /\ CanRest(asks, plan.left, isMarket)
      /\ yes' = [v \in Users |-> yes[v] + DeliveredTo(v, plan.fills)
                                   - (IF v = u THEN sold + kept ELSE 0)]
      /\ usdc' = [usdc EXCEPT ![u] = @ + earned]
      /\ yesEscrow' = yesEscrow + kept
      /\ usdcEscrow' = usdcEscrow - earned
      /\ bids' = plan.makers
      /\ asks' = IF rests THEN insert_sorted_ask(asks, Rested(u, price, plan.left))
                 ELSE asks
      /\ nextSeq' = IF rests THEN nextSeq + 1 ELSE nextSeq
      /\ UNCHANGED <<stage, gateVars, strayVars>>
  BY DEF PlaceAsk, TradingOpen, NextSeqAfter
<1>3. nextSeq \in Nat
  BY <1>1 DEF BookTypes
<1>4. /\ Sorted(Falling, plan.makers, nextSeq) /\ Seqs(plan.makers) \subseteq Seqs(bids)
      /\ plan.left \in Nat /\ plan.fills \in Seq(PlannedFill)
      /\ Weigh(bids, CostOf) = Weigh(plan.makers, CostOf) + earned
      /\ plan.left + sold = size
  <2>1. Planned(Falling, bids, nextSeq, "ask", price, size, isMarket)
    BY <1>1, <1>3, PlanFacts
  <2> QED
    BY <2>1 DEF Planned
<1> HIDE DEF plan
<1>5. /\ sold \in Nat /\ earned \in Nat
      /\ \A v \in Users : DeliveredTo(v, plan.fills) \in Nat
  BY <1>4, FillTotals
<1>6. kept \in Nat /\ sold + kept <= size /\ (kept = IF rests THEN plan.left ELSE 0)
  <2> HIDE DEF sold
  <2> QED
    BY <1>4, <1>5
<1>7. bids \in Side /\ asks \in Side /\ plan.makers \in Side
  BY <1>1, <1>4 DEF Sorted
<1>8. /\ Weigh(bids, CostOf) \in Nat /\ Weigh(asks, SizeOf) \in Nat
      /\ Weigh(plan.makers, CostOf) \in Nat
  BY <1>7, SideFacts
<1> HIDE DEF earned, kept, sold
<1>9. BookTypes'
  <2>1. /\ nextSeq' \in Nat /\ usdcEscrow' \in Nat /\ yesEscrow' \in Nat
        /\ usdc' \in [Users -> Nat]
    <3>1. usdcEscrow \in Nat /\ yesEscrow \in Nat /\ usdc \in [Users -> Nat]
      BY <1>1 DEF BookTypes
    <3>2. usdc[u] + earned \in Nat
      BY <1>5, <3>1
    <3>3. usdc' \in [Users -> Nat]
      BY <1>2, <3>1, <3>2
    <3> QED
      BY <1>2, <1>3, <1>5, <1>6, <3>1, <3>3
  <2>2. yes' \in [Users -> Nat]
    <3>1. ASSUME NEW v \in Users
          PROVE  yes[v] + DeliveredTo(v, plan.fills)
                   - (IF v = u THEN sold + kept ELSE 0) \in Nat
      <4>1. /\ yes[v] \in Nat /\ DeliveredTo(v, plan.fills) \in Nat
            /\ v = u => sold + kept <= yes[v]
        <5>1. yes[v] \in Nat /\ yes[u] \in Nat
          BY <1>1 DEF BookTypes
        <5> QED
          BY <1>2, <1>5, <1>6, <5>1
      <4> QED
        BY <1>5, <1>6, <4>1
    <3> QED
      BY <1>2, <3>1
  <2> QED
    BY <1>1, <1>2, <2>1, <2>2 DEF BookTypes, gateVars, strayVars
<1>10. EscrowsWeighed' /\ SidesSorted'
  <2>1. usdcEscrow' = Weigh(bids', CostOf) + strayUsdc'
    <3>1. usdcEscrow = Weigh(bids, CostOf) + strayUsdc /\ strayUsdc \in Nat
      BY <1>1 DEF EscrowsWeighed, BookTypes
    <3> QED
      <4>1. /\ usdcEscrow' = usdcEscrow - earned /\ bids' = plan.makers
            /\ strayUsdc' = strayUsdc
        BY <1>2 DEF strayVars
      <4>2. Weigh(bids, CostOf) = Weigh(plan.makers, CostOf) + earned
        BY <1>4
      <4> QED
        BY <1>5, <1>8, <3>1, <4>1, <4>2
  <2>2. yesEscrow = Weigh(asks, SizeOf) + strayYes /\ strayYes \in Nat
    BY <1>1 DEF EscrowsWeighed, BookTypes
  <2>3. CASE rests
    <3> DEFINE new == insert_sorted_ask(asks, Rested(u, price, plan.left))
    <3>1. Len(asks) < ORDERBOOK_N
      BY <1>2, <2>3 DEF CanRest
    <3>2. /\ Sorted(Rising, new, nextSeq + 1)
          /\ Seqs(new) = Seqs(asks) \cup {nextSeq}
          /\ Weigh(new, SizeOf) = plan.left + Weigh(asks, SizeOf)
      BY <1>4, <2>3, <3>1, RestedAsk
    <3>3. asks' = new /\ nextSeq' = nextSeq + 1
      BY <1>2, <2>3
    <3> HIDE DEF new
    <3>4. Sorted(Falling, plan.makers, nextSeq + 1)
      BY <1>3, <1>4, SortedLater
    <3>5. Seqs(bids) \subseteq 0..(nextSeq - 1)
      BY <1>1 DEF Sorted
    <3>6. nextSeq \notin Seqs(bids)
      BY <1>3, <3>5
    <3>7. Seqs(plan.makers) \cap Seqs(new) = {}
      BY <1>1, <1>4, <3>2, <3>6
    <3>8. SidesSorted'
      BY <1>2, <3>2, <3>3, <3>4, <3>7 DEF SidesSorted
    <3>9. yesEscrow' = Weigh(asks', SizeOf) + strayYes'
      <4>1. yesEscrow' = yesEscrow + kept /\ strayYes' = strayYes /\ asks' = new
        BY <1>2, <3>3 DEF strayVars
      <4>2. kept = plan.left /\ plan.left \in Nat
        BY <1>4, <1>6, <2>3
      <4>3. Weigh(new, SizeOf) = plan.left + Weigh(asks, SizeOf)
        BY <3>2
      <4> QED
        BY <1>8, <2>2, <4>1, <4>2, <4>3
    <3> QED
      BY <2>1, <3>8, <3>9 DEF EscrowsWeighed
  <2>4. CASE ~rests
    <3>1. asks' = asks /\ nextSeq' = nextSeq /\ kept = 0
      BY <1>2, <1>6, <2>4
    <3>2. Seqs(plan.makers) \cap Seqs(asks) = {}
      BY <1>1, <1>4
    <3>3. SidesSorted'
      BY <1>1, <1>2, <1>4, <3>1, <3>2 DEF SidesSorted
    <3>4. yesEscrow' = Weigh(asks', SizeOf) + strayYes'
      BY <1>2, <1>8, <2>2, <3>1 DEF strayVars
    <3> QED
      BY <2>1, <3>3, <3>4 DEF EscrowsWeighed
  <2> QED
    BY <2>3, <2>4
<1> QED
  BY <1>2, <1>9, <1>10 DEF BookInv

(* All that the proofs use of remove_order. *)
LEMMA TakenOutFacts ==
  ASSUME NEW rank, NEW s, NEW n \in Nat, Sorted(rank, s, n), NEW i \in 1..Len(s)
  PROVE  LET new == remove_order(s, i) IN
         /\ Sorted(rank, new, n)
         /\ Seqs(new) \subseteq Seqs(s)
         /\ Weigh(s, SizeOf) = s[i].size + Weigh(new, SizeOf)
         /\ Weigh(s, CostOf) = bid_cost_ceil(s[i].price, s[i].size) + Weigh(new, CostOf)
         /\ Weigh(new, SizeOf) \in Nat /\ Weigh(new, CostOf) \in Nat
         /\ s[i].size \in Nat /\ bid_cost_ceil(s[i].price, s[i].size) \in Nat
<1> DEFINE new == remove_order(s, i)
           e == s[i]
           k == i - 1
<1>1. s \in Seq(Order) /\ e \in Order
  BY SideFacts DEF Sorted
<1>2. new \in Seq(Order) /\ Inserted(s, new, e, k)
  BY <1>1, RemoveInserts
<1>3. k \in 0..Len(new)
  BY <1>1, <1>2 DEF Inserted, TakenOut
<1> HIDE DEF new, e, k
<1>4. Sorted(rank, new, n)
  BY <1>2, <1>3, SortedTakeOut
<1>5. Seqs(new) \subseteq Seqs(s)
  BY <1>2, <1>3, InsertedSeqs
<1>6. /\ Weigh(s, SizeOf) = e.size + Weigh(new, SizeOf)
      /\ Weigh(s, CostOf) = bid_cost_ceil(e.price, e.size) + Weigh(new, CostOf)
  BY <1>1, <1>2, <1>3, InsertedWeighs
<1>7. Weigh(new, SizeOf) \in Nat /\ Weigh(new, CostOf) \in Nat
  BY <1>4, SideFacts DEF Sorted
<1>8. e.size \in Nat /\ bid_cost_ceil(e.price, e.size) \in Nat
  BY <1>1, WeightsOfOrders
<1> QED
  BY <1>4, <1>5, <1>6, <1>7, <1>8 DEF new, e

(* cancel_order of a bid keeps the invariant. *)
LEMMA CancelBidInv ==
  ASSUME BookInv, NEW u \in Users, NEW seq, CancelBid(u, seq)
  PROVE  BookInv'
<1>1. PICK i \in find_order_index(bids, seq) :
        LET refund == bid_cost_ceil(bids[i].price, bids[i].size) IN
        /\ CancelOpen
        /\ bids[i].owner = u
        /\ refund <= usdcEscrow
        /\ usdc' = [usdc EXCEPT ![u] = @ + refund]
        /\ usdcEscrow' = usdcEscrow - refund
        /\ bids' = remove_order(bids, i)
        /\ UNCHANGED <<stage, asks, nextSeq, yesEscrow, yes, gateVars, strayVars>>
  BY DEF CancelBid
<1>2. /\ BookTypes /\ EscrowsWeighed
      /\ Sorted(Falling, bids, nextSeq) /\ Sorted(Rising, asks, nextSeq)
      /\ Seqs(bids) \cap Seqs(asks) = {}
  BY DEF BookInv, SidesSorted
<1> DEFINE refund == bid_cost_ceil(bids[i].price, bids[i].size)
           new == remove_order(bids, i)
<1>3. i \in 1..Len(bids)
  BY DEF find_order_index
<1>4. nextSeq \in Nat
  BY <1>2 DEF BookTypes
<1>5. /\ Sorted(Falling, new, nextSeq) /\ Seqs(new) \subseteq Seqs(bids)
      /\ Weigh(bids, CostOf) = refund + Weigh(new, CostOf)
      /\ Weigh(new, CostOf) \in Nat /\ refund \in Nat
  BY <1>2, <1>3, <1>4, TakenOutFacts
<1> HIDE DEF refund, new
<1>6. /\ stage = "wired" /\ refund <= usdcEscrow
      /\ usdc' = [usdc EXCEPT ![u] = @ + refund]
      /\ usdcEscrow' = usdcEscrow - refund
      /\ bids' = new
      /\ UNCHANGED <<stage, asks, nextSeq, yesEscrow, yes, gateVars, strayVars>>
  BY <1>1 DEF refund, new, CancelOpen
<1>7. BookTypes'
  <2>1. usdcEscrow \in Nat /\ usdc \in [Users -> Nat]
    BY <1>2 DEF BookTypes
  <2>2. usdcEscrow' \in Nat /\ usdc[u] + refund \in Nat
    BY <1>5, <1>6, <2>1
  <2>3. usdc' \in [Users -> Nat]
    BY <1>6, <2>1, <2>2
  <2> QED
    BY <1>2, <1>6, <2>2, <2>3 DEF BookTypes, gateVars, strayVars
<1>8. SidesSorted'
  <2>1. Seqs(new) \cap Seqs(asks) = {}
    BY <1>2, <1>5
  <2> QED
    BY <1>2, <1>5, <1>6, <2>1 DEF SidesSorted
<1>9. EscrowsWeighed'
  <2>1. usdcEscrow = Weigh(bids, CostOf) + strayUsdc /\ strayUsdc \in Nat
    BY <1>2 DEF EscrowsWeighed, BookTypes
  <2>2. usdcEscrow' = Weigh(bids', CostOf) + strayUsdc'
    BY <1>5, <1>6, <2>1 DEF strayVars
  <2> QED
    BY <1>2, <1>6, <2>2 DEF EscrowsWeighed, strayVars
<1> QED
  BY <1>6, <1>7, <1>8, <1>9 DEF BookInv

(* cancel_order of an ask keeps the invariant. *)
LEMMA CancelAskInv ==
  ASSUME BookInv, NEW u \in Users, NEW seq, CancelAsk(u, seq)
  PROVE  BookInv'
<1>1. PICK i \in find_order_index(asks, seq) :
        LET refund == asks[i].size IN
        /\ CancelOpen
        /\ asks[i].owner = u
        /\ refund <= yesEscrow
        /\ yes' = [yes EXCEPT ![u] = @ + refund]
        /\ yesEscrow' = yesEscrow - refund
        /\ asks' = remove_order(asks, i)
        /\ UNCHANGED <<stage, bids, nextSeq, usdcEscrow, usdc, gateVars, strayVars>>
  BY DEF CancelAsk
<1>2. /\ BookTypes /\ EscrowsWeighed
      /\ Sorted(Falling, bids, nextSeq) /\ Sorted(Rising, asks, nextSeq)
      /\ Seqs(bids) \cap Seqs(asks) = {}
  BY DEF BookInv, SidesSorted
<1> DEFINE refund == asks[i].size
           new == remove_order(asks, i)
<1>3. i \in 1..Len(asks)
  BY DEF find_order_index
<1>4. nextSeq \in Nat
  BY <1>2 DEF BookTypes
<1>5. /\ Sorted(Rising, new, nextSeq) /\ Seqs(new) \subseteq Seqs(asks)
      /\ Weigh(asks, SizeOf) = refund + Weigh(new, SizeOf)
      /\ Weigh(new, SizeOf) \in Nat /\ refund \in Nat
  BY <1>2, <1>3, <1>4, TakenOutFacts
<1> HIDE DEF refund, new
<1>6. /\ stage = "wired" /\ refund <= yesEscrow
      /\ yes' = [yes EXCEPT ![u] = @ + refund]
      /\ yesEscrow' = yesEscrow - refund
      /\ asks' = new
      /\ UNCHANGED <<stage, bids, nextSeq, usdcEscrow, usdc, gateVars, strayVars>>
  BY <1>1 DEF refund, new, CancelOpen
<1>7. BookTypes'
  <2>1. yesEscrow \in Nat /\ yes \in [Users -> Nat]
    BY <1>2 DEF BookTypes
  <2>2. yesEscrow' \in Nat /\ yes[u] + refund \in Nat
    BY <1>5, <1>6, <2>1
  <2>3. yes' \in [Users -> Nat]
    BY <1>6, <2>1, <2>2
  <2> QED
    BY <1>2, <1>6, <2>2, <2>3 DEF BookTypes, gateVars, strayVars
<1>8. SidesSorted'
  <2>1. Seqs(bids) \cap Seqs(new) = {}
    BY <1>2, <1>5
  <2> QED
    BY <1>2, <1>5, <1>6, <2>1 DEF SidesSorted
<1>9. EscrowsWeighed'
  <2>1. yesEscrow = Weigh(asks, SizeOf) + strayYes /\ strayYes \in Nat
    BY <1>2 DEF EscrowsWeighed, BookTypes
  <2>2. yesEscrow' = Weigh(asks', SizeOf) + strayYes'
    BY <1>5, <1>6, <2>1 DEF strayVars
  <2> QED
    BY <1>2, <1>6, <2>2 DEF EscrowsWeighed, strayVars
<1> QED
  BY <1>6, <1>7, <1>8, <1>9 DEF BookInv

(* All that the proofs use of the plan of the crank. *)
LEMMA CrankFacts ==
  ASSUME BookInv
  PROVE  LET plan == CrankPlan IN
         /\ Sorted(Falling, plan.bids, nextSeq) /\ Sorted(Rising, plan.asks, nextSeq)
         /\ Seqs(plan.bids) \cap Seqs(plan.asks) = {}
         /\ plan.pairs \in Seq(CrossedPair)
         /\ Weigh(bids, CostOf) = Weigh(plan.bids, CostOf) + TotalUsdc(plan.pairs)
         /\ Weigh(asks, SizeOf) = Weigh(plan.asks, SizeOf) + TotalSize(plan.pairs)
         /\ Weigh(plan.bids, CostOf) \in Nat /\ Weigh(plan.asks, SizeOf) \in Nat
         /\ \/ ~BestsCross(plan.bids, plan.asks)
            \/ Len(plan.bids) + Len(plan.asks) <= Len(bids) + Len(asks) - MAX_PAIRS
<1> DEFINE plan == CrankPlan
<1>1. /\ nextSeq \in Nat /\ Seqs(bids) \cap Seqs(asks) = {}
      /\ Sorted(Falling, bids, nextSeq) /\ Sorted(Rising, asks, nextSeq)
  BY DEF BookInv, BookTypes, SidesSorted
<1>2. bids \in Side /\ asks \in Side /\ bids \in Seq(Order) /\ asks \in Seq(Order)
  BY <1>1, SideFacts DEF Sorted
<1>3. /\ SweepInv(bids, asks, plan)
      /\ \/ ~BestsCross(plan.bids, plan.asks)
         \/ Len(plan.bids) + Len(plan.asks) <= Len(bids) + Len(asks) - MAX_PAIRS
  BY <1>2, CrankKeeps
<1> HIDE DEF plan
<1>4. /\ plan.bids \in Side /\ plan.asks \in Side /\ plan.pairs \in Seq(CrossedPair)
      /\ LeftOf(plan.bids, bids) /\ LeftOf(plan.asks, asks)
      /\ Weigh(bids, CostOf) = Weigh(plan.bids, CostOf) + Weigh(plan.pairs, PairUsdc)
      /\ Weigh(asks, SizeOf) = Weigh(plan.asks, SizeOf) + Weigh(plan.pairs, PairSize)
  BY <1>3 DEF SweepInv
<1>5. Sorted(Falling, plan.bids, nextSeq) /\ Sorted(Rising, plan.asks, nextSeq)
  BY <1>1, <1>4, SortedLess
<1>6. /\ plan.bids \in Seq(Order) /\ plan.asks \in Seq(Order)
      /\ Weigh(plan.bids, CostOf) \in Nat /\ Weigh(plan.asks, SizeOf) \in Nat
  BY <1>4, SideFacts
<1>7. Seqs(plan.bids) \subseteq Seqs(bids) /\ Seqs(plan.asks) \subseteq Seqs(asks)
  BY <1>2, <1>4, <1>6, LeftOfSeqs
<1>8. Seqs(plan.bids) \cap Seqs(plan.asks) = {}
  BY <1>1, <1>7
<1>9. /\ TotalUsdc(plan.pairs) = Weigh(plan.pairs, PairUsdc)
      /\ TotalSize(plan.pairs) = Weigh(plan.pairs, PairSize)
  BY <1>4, PairTotals
<1> QED
  BY <1>3, <1>4, <1>5, <1>6, <1>8, <1>9 DEF plan

(* match_orders keeps the invariant. *)
LEMMA MatchOrdersInv ==
  ASSUME BookInv, MatchOrders
  PROVE  BookInv'
<1> DEFINE plan == CrankPlan
           paid == TotalUsdc(plan.pairs)
           delivered == TotalSize(plan.pairs)
           Got(v) == SumFunction([i \in DOMAIN plan.pairs |->
                       IF plan.pairs[i].seller = v THEN plan.pairs[i].usdc ELSE 0])
           Bought(v) == SumFunction([i \in DOMAIN plan.pairs |->
                          IF plan.pairs[i].buyer = v THEN plan.pairs[i].size ELSE 0])
<1>1. /\ stage = "wired" /\ paid <= usdcEscrow /\ delivered <= yesEscrow
      /\ usdc' = [v \in Users |-> usdc[v] + Got(v)]
      /\ yes' = [v \in Users |-> yes[v] + Bought(v)]
      /\ usdcEscrow' = usdcEscrow - paid
      /\ yesEscrow' = yesEscrow - delivered
      /\ bids' = plan.bids
      /\ asks' = plan.asks
      /\ UNCHANGED <<stage, nextSeq, gateVars, strayVars>>
  BY DEF MatchOrders, TradingOpen
<1>2. BookTypes /\ EscrowsWeighed
  BY DEF BookInv
<1>3. /\ Sorted(Falling, plan.bids, nextSeq) /\ Sorted(Rising, plan.asks, nextSeq)
      /\ Seqs(plan.bids) \cap Seqs(plan.asks) = {}
      /\ plan.pairs \in Seq(CrossedPair)
      /\ Weigh(bids, CostOf) = Weigh(plan.bids, CostOf) + paid
      /\ Weigh(asks, SizeOf) = Weigh(plan.asks, SizeOf) + delivered
      /\ Weigh(plan.bids, CostOf) \in Nat /\ Weigh(plan.asks, SizeOf) \in Nat
  BY CrankFacts
<1> HIDE DEF plan
<1>4. /\ paid \in Nat /\ delivered \in Nat
      /\ \A v \in Users : Got(v) \in Nat /\ Bought(v) \in Nat
  BY <1>3, PairTotals
<1> HIDE DEF paid, delivered, Got, Bought
<1>5. BookTypes'
  <2>1. /\ usdcEscrow \in Nat /\ yesEscrow \in Nat
        /\ \A v \in Users : usdc[v] \in Nat /\ yes[v] \in Nat
    BY <1>2 DEF BookTypes
  <2>2. \A v \in Users : usdc[v] + Got(v) \in Nat /\ yes[v] + Bought(v) \in Nat
    BY <1>4, <2>1
  <2>3. usdc' \in [Users -> Nat] /\ yes' \in [Users -> Nat]
    BY <1>1, <2>2
  <2>4. usdcEscrow' \in Nat /\ yesEscrow' \in Nat
    BY <1>1, <1>4, <2>1
  <2> QED
    BY <1>1, <1>2, <2>3, <2>4 DEF BookTypes, gateVars, strayVars
<1>6. SidesSorted'
  BY <1>1, <1>3 DEF SidesSorted
<1>7. EscrowsWeighed'
  <2>1. /\ usdcEscrow = Weigh(bids, CostOf) + strayUsdc /\ strayUsdc \in Nat
        /\ yesEscrow = Weigh(asks, SizeOf) + strayYes /\ strayYes \in Nat
    BY <1>2 DEF EscrowsWeighed, BookTypes
  <2>a. /\ usdcEscrow' = usdcEscrow - paid /\ bids' = plan.bids
        /\ yesEscrow' = yesEscrow - delivered /\ asks' = plan.asks
        /\ strayUsdc' = strayUsdc /\ strayYes' = strayYes
    BY <1>1 DEF strayVars
  <2>b. /\ Weigh(bids, CostOf) = Weigh(plan.bids, CostOf) + paid
        /\ Weigh(asks, SizeOf) = Weigh(plan.asks, SizeOf) + delivered
        /\ Weigh(plan.bids, CostOf) \in Nat /\ Weigh(plan.asks, SizeOf) \in Nat
        /\ paid \in Nat /\ delivered \in Nat
    BY <1>3, <1>4
  <2>2. usdcEscrow' = Weigh(bids', CostOf) + strayUsdc'
    BY <2>1, <2>a, <2>b
  <2>3. yesEscrow' = Weigh(asks', SizeOf) + strayYes'
    BY <2>1, <2>a, <2>b
  <2> QED
    BY <2>2, <2>3 DEF EscrowsWeighed
<1> QED
  BY <1>1, <1>5, <1>6, <1>7 DEF BookInv

(* Tokens sent straight to an escrow keep the invariant. *)
LEMMA SplStrayInv ==
  ASSUME BookInv, NEW u \in Users, NEW amount \in Nat, SplStray(u, amount)
  PROVE  BookInv'
<1>1. BookTypes /\ EscrowsWeighed /\ SidesSorted
  BY DEF BookInv
<1>2. /\ usdcEscrow \in Nat /\ yesEscrow \in Nat /\ strayUsdc \in Nat /\ strayYes \in Nat
      /\ usdc \in [Users -> Nat] /\ yes \in [Users -> Nat]
      /\ usdc[u] \in Nat /\ yes[u] \in Nat
  BY <1>1 DEF BookTypes
<1>3. /\ usdcEscrow = Weigh(bids, CostOf) + strayUsdc
      /\ yesEscrow = Weigh(asks, SizeOf) + strayYes
      /\ Weigh(bids, CostOf) \in Nat /\ Weigh(asks, SizeOf) \in Nat
  BY <1>1, SideFacts DEF EscrowsWeighed, SidesSorted, Sorted
<1>4. UNCHANGED <<stage, bids, asks, nextSeq, paused, mintCurrent, settled>>
  BY DEF SplStray, bookVars, gateVars
<1>5. SidesSorted'
  BY <1>1, <1>4 DEF SidesSorted
<1>6. CASE /\ amount <= usdc[u]
           /\ usdc' = [usdc EXCEPT ![u] = @ - amount]
           /\ usdcEscrow' = usdcEscrow + amount
           /\ strayUsdc' = strayUsdc + amount
           /\ UNCHANGED <<yes, yesEscrow, strayYes>>
  <2>1. usdc[u] - amount \in Nat
    BY <1>2, <1>6
  <2>2. usdc' \in [Users -> Nat]
    BY <1>2, <1>6, <2>1
  <2>3. BookTypes'
    BY <1>1, <1>2, <1>4, <1>6, <2>2 DEF BookTypes
  <2>4. usdcEscrow' = Weigh(bids', CostOf) + strayUsdc'
    BY <1>2, <1>3, <1>4, <1>6
  <2>5. EscrowsWeighed'
    BY <1>3, <1>4, <1>6, <2>4 DEF EscrowsWeighed
  <2> QED
    BY <1>4, <1>5, <2>3, <2>5 DEF BookInv
<1>7. CASE /\ amount <= yes[u]
           /\ yes' = [yes EXCEPT ![u] = @ - amount]
           /\ yesEscrow' = yesEscrow + amount
           /\ strayYes' = strayYes + amount
           /\ UNCHANGED <<usdc, usdcEscrow, strayUsdc>>
  <2>1. yes[u] - amount \in Nat
    BY <1>2, <1>7
  <2>2. yes' \in [Users -> Nat]
    BY <1>2, <1>7, <2>1
  <2>3. BookTypes'
    BY <1>1, <1>2, <1>4, <1>7, <2>2 DEF BookTypes
  <2>4. yesEscrow' = Weigh(asks', SizeOf) + strayYes'
    BY <1>2, <1>3, <1>4, <1>7
  <2>5. EscrowsWeighed'
    BY <1>3, <1>4, <1>7, <2>4 DEF EscrowsWeighed
  <2> QED
    BY <1>4, <1>5, <2>3, <2>5 DEF BookInv
<1> QED
  BY <1>6, <1>7 DEF SplStray

(* The market starts in the invariant. *)
LEMMA InitInv ==
  ASSUME Init
  PROVE  BookInv
<1>1. /\ stage = "absent" /\ bids = <<>> /\ asks = <<>> /\ nextSeq = 0
      /\ usdcEscrow = 0 /\ yesEscrow = 0 /\ strayUsdc = 0 /\ strayYes = 0
      /\ usdc = InitialUsdc /\ yes = InitialYes
      /\ paused = FALSE /\ mintCurrent = TRUE /\ settled = FALSE
  BY DEF Init
<1>2. BookTypes
  BY <1>1, ConstantFacts DEF BookTypes, Stages
<1>3. SidesSorted
  BY <1>1, NoOrders DEF SidesSorted
<1>4. EscrowsWeighed
  BY <1>1, WeighNone DEF EscrowsWeighed
<1> QED
  BY <1>1, <1>2, <1>3, <1>4 DEF BookInv

(* The steps that move no order and no token keep the invariant. *)
LEMMA GateStepInv ==
  ASSUME BookInv,
         \/ InitOrderBook \/ GrowOrderBook \/ Settle
         \/ \E b \in BOOLEAN : Pause(b) \/ UpdateUsdcMint(b)
         \/ UNCHANGED vars
  PROVE  BookInv'
<1>1. /\ BookTypes /\ EscrowsWeighed /\ SidesSorted
      /\ stage # "wired" => bids = <<>> /\ asks = <<>>
  BY DEF BookInv
<1>2. /\ UNCHANGED <<bids, asks>>
      /\ UNCHANGED <<nextSeq, usdcEscrow, yesEscrow, usdc, yes, strayUsdc, strayYes>>
  <2>1. CASE GrowOrderBook
    BY <1>1, <2>1 DEF GrowOrderBook, escrowVars, walletVars, strayVars
  <2>2. CASE InitOrderBook \/ Settle \/ UNCHANGED vars
    BY <2>2 DEF InitOrderBook, Settle, vars, bookVars, escrowVars, walletVars, strayVars
  <2>3. CASE \E b \in BOOLEAN : Pause(b) \/ UpdateUsdcMint(b)
    BY <2>3 DEF Pause, UpdateUsdcMint, bookVars, escrowVars, walletVars, strayVars
  <2> QED
    BY <2>1, <2>2, <2>3
<1>3. /\ stage' \in Stages /\ (stage' # "wired" => stage # "wired")
      /\ paused' \in BOOLEAN /\ mintCurrent' \in BOOLEAN /\ settled' \in BOOLEAN
  <2>1. /\ stage \in Stages /\ paused \in BOOLEAN
        /\ mintCurrent \in BOOLEAN /\ settled \in BOOLEAN
    BY <1>1 DEF BookTypes
  <2>2. CASE InitOrderBook \/ GrowOrderBook
    BY <2>1, <2>2 DEF InitOrderBook, GrowOrderBook, gateVars, Stages
  <2>3. CASE Settle \/ UNCHANGED vars
    BY <2>1, <2>3 DEF Settle, vars, bookVars, gateVars
  <2>4. CASE \E b \in BOOLEAN : Pause(b) \/ UpdateUsdcMint(b)
    BY <2>1, <2>4 DEF Pause, UpdateUsdcMint, bookVars
  <2> QED
    BY <2>2, <2>3, <2>4
<1>4. BookTypes'
  BY <1>1, <1>2, <1>3 DEF BookTypes
<1>5. SidesSorted' /\ EscrowsWeighed'
  BY <1>1, <1>2 DEF SidesSorted, EscrowsWeighed
<1> QED
  BY <1>1, <1>2, <1>3, <1>4, <1>5 DEF BookInv

(* Every step keeps the invariant. *)
LEMMA StepInv ==
  ASSUME BookInv, [Next]_vars
  PROVE  BookInv'
<1>1. CASE \E u \in Users : TraderStep(u)
  <2>1. PICK u \in Users : TraderStep(u)
    BY <1>1
  <2>2. CASE \E price \in Prices, size \in Sizes, isMarket \in BOOLEAN :
               PlaceBid(u, price, size, isMarket) \/ PlaceAsk(u, price, size, isMarket)
    BY <2>2, ConstantFacts, PlaceBidInv, PlaceAskInv
  <2>3. CASE \E seq \in 0..nextSeq : CancelBid(u, seq) \/ CancelAsk(u, seq)
    BY <2>3, CancelBidInv, CancelAskInv
  <2> QED
    BY <2>1, <2>2, <2>3 DEF TraderStep
<1>2. CASE MatchOrders
  BY <1>2, MatchOrdersInv
<1>3. CASE \E u \in Users, amount \in SplAmounts : SplStray(u, amount)
  BY <1>3, ConstantFacts, SplStrayInv
<1>4. CASE \E b \in MintFlips : UpdateUsdcMint(b)
  <2>1. MintFlips \subseteq BOOLEAN
    BY OrderBookAssumption DEF OrderBookAssumption
  <2> QED
    BY <1>4, <2>1, GateStepInv
<1>5. CASE \/ InitOrderBook \/ GrowOrderBook \/ Settle
           \/ \E b \in BOOLEAN : Pause(b)
           \/ UNCHANGED vars
  BY <1>5, GateStepInv
<1> QED
  BY <1>1, <1>2, <1>3, <1>4, <1>5 DEF Next

(* The book is typed and sorted and its escrows are exact, whatever the       *)
(* wallets, the prices, the sizes and the three limits.                       *)
THEOREM BookInvariant == Spec => []BookInv
<1>1. Init => BookInv
  BY InitInv
<1>2. BookInv /\ [Next]_vars => BookInv'
  BY StepInv
<1> QED
  BY <1>1, <1>2, PTL DEF Spec

(* Each escrow holds exactly what the resting orders could claim and what was *)
(* sent to it outside the program, for any number of orders and fills.        *)
THEOREM EscrowExactCorrect == Spec => []EscrowExact
<1>1. BookInv => EscrowExact
  <2> SUFFICES ASSUME BookInv PROVE EscrowExact
    OBVIOUS
  <2>1. /\ usdcEscrow = Weigh(bids, CostOf) + strayUsdc
        /\ yesEscrow = Weigh(asks, SizeOf) + strayYes
        /\ bids \in Seq(Order) /\ asks \in Seq(Order)
    BY SideFacts DEF BookInv, EscrowsWeighed, SidesSorted, Sorted
  <2>2. [i \in DOMAIN bids |-> BidCost(bids[i])] = [i \in DOMAIN bids |-> CostOf[bids[i]]]
    <3>1. \A i \in DOMAIN bids : bids[i] \in Order
      BY <2>1
    <3> QED
      BY <3>1 DEF CostOf
  <2>3. [i \in DOMAIN asks |-> asks[i].size] = [i \in DOMAIN asks |-> SizeOf[asks[i]]]
    <3>1. \A i \in DOMAIN asks : asks[i] \in Order
      BY <2>1
    <3> QED
      BY <3>1 DEF SizeOf
  <2>4. /\ SumFunction([i \in DOMAIN bids |-> BidCost(bids[i])]) = Weigh(bids, CostOf)
        /\ SumFunction([i \in DOMAIN asks |-> asks[i].size]) = Weigh(asks, SizeOf)
    BY <2>2, <2>3 DEF Weigh
  <2> QED
    BY <2>1, <2>4 DEF EscrowExact, SumOver
<1> QED
  BY <1>1, BookInvariant, PTL

(* Both sides stay in strict price-time order and no sequence number is given *)
(* twice.                                                                     *)
THEOREM PriceTimePriorityCorrect == Spec => []PriceTimePriority
<1>1. BookInv => PriceTimePriority
  <2> SUFFICES ASSUME BookInv PROVE PriceTimePriority
    OBVIOUS
  <2>1. /\ bids \in Seq(Order) /\ asks \in Seq(Order)
        /\ Len(bids) <= ORDERBOOK_N /\ Len(asks) <= ORDERBOOK_N
        /\ \A j \in 1..Len(bids) : bids[j].size > 0 /\ bids[j].seq \in Seqs(bids)
        /\ \A j \in 1..Len(asks) : asks[j].size > 0 /\ asks[j].seq \in Seqs(asks)
        /\ Seqs(bids) \subseteq 0..(nextSeq - 1) /\ Seqs(asks) \subseteq 0..(nextSeq - 1)
        /\ Seqs(bids) \cap Seqs(asks) = {}
        /\ Ranked(Falling, bids) /\ Ranked(Rising, asks)
        /\ nextSeq \in Nat
    BY DEF BookInv, BookTypes, SidesSorted, Sorted, Side, Seqs
  <2>2. ASSUME NEW i \in 1..Len(bids), NEW j \in 1..Len(bids), i < j
        PROVE  BeforeBid(bids[i], bids[j]) /\ bids[i].seq # bids[j].seq
    <3>1. bids[i] \in Order /\ bids[j] \in Order
      BY <2>1
    <3>2. Ahead(Falling, bids[i], bids[j]) /\ bids[i].seq # bids[j].seq
      BY <2>1, <2>2 DEF Ranked
    <3> QED
      BY <3>1, <3>2, RanksOfSides
  <2>3. ASSUME NEW i \in 1..Len(asks), NEW j \in 1..Len(asks), i < j
        PROVE  BeforeAsk(asks[i], asks[j]) /\ asks[i].seq # asks[j].seq
    <3>1. asks[i] \in Order /\ asks[j] \in Order
      BY <2>1
    <3>2. Ahead(Rising, asks[i], asks[j]) /\ asks[i].seq # asks[j].seq
      BY <2>1, <2>3 DEF Ranked
    <3> QED
      BY <3>1, <3>2, RanksOfSides
  <2>4. /\ \A o \in Range(bids) : o.size > 0 /\ o.seq \in Seqs(bids)
        /\ \A o \in Range(asks) : o.size > 0 /\ o.seq \in Seqs(asks)
    <3>1. DOMAIN bids = 1..Len(bids) /\ DOMAIN asks = 1..Len(asks)
      BY <2>1
    <3> QED
      BY <2>1, <3>1 DEF Range
  <2>5. \A n \in 0..(nextSeq - 1) : n < nextSeq
    BY <2>1
  <2> QED
    BY <2>1, <2>2, <2>3, <2>4, <2>5 DEF PriceTimePriority
<1> QED
  BY <1>1, BookInvariant, PTL

--------------------------------------------------------------------------------
(* What a step may leave crossed *)

(* Nothing on a ranked side ranks before its first order. *)
LEMMA BestFirst ==
  ASSUME NEW rank \in [Nat -> Int], NEW s \in Seq(Order), Ranked(rank, s),
         NEW j \in 1..Len(s)
  PROVE  rank[s[1].price] <= rank[s[j].price]
<1>1. 1 \in 1..Len(s)
  OBVIOUS
<1>2. s[1] \in Order /\ s[j] \in Order
  BY <1>1
<1>3. rank[s[1].price] \in Int /\ rank[s[j].price] \in Int
  BY <1>2 DEF Order
<1>4. CASE j = 1
  BY <1>3, <1>4
<1>5. CASE 1 < j
  <2>1. Ahead(rank, s[1], s[j])
    BY <1>1, <1>5 DEF Ranked
  <2> QED
    BY <1>3, <2>1 DEF Ahead
<1> QED
  BY <1>4, <1>5

(* Two best prices that were already in the book do not cross if the book did *)
(* not.                                                                       *)
LEMMA CrossedBefore ==
  ASSUME BookInv, NEW b \in Side, NEW a \in Side, BestsCross(b, a),
         \E i \in 1..Len(bids) : b[1].price = bids[i].price,
         \E j \in 1..Len(asks) : a[1].price = asks[j].price
  PROVE  BestsCross(bids, asks)
<1>1. /\ bids \in Side /\ asks \in Side /\ bids \in Seq(Order) /\ asks \in Seq(Order)
      /\ Ranked(Falling, bids) /\ Ranked(Rising, asks)
  BY SideFacts DEF BookInv, SidesSorted, Sorted
<1>2. PICK i \in 1..Len(bids) : b[1].price = bids[i].price
  OBVIOUS
<1>3. PICK j \in 1..Len(asks) : a[1].price = asks[j].price
  OBVIOUS
<1>4. bids # <<>> /\ asks # <<>>
  BY <1>1, <1>2, <1>3
<1>5. /\ Head(bids) = bids[1] /\ Head(asks) = asks[1]
      /\ bids[1].price \in Nat /\ asks[1].price \in Nat
  BY <1>1, <1>4, SideFacts
<1>6. /\ Head(b) = b[1] /\ Head(a) = a[1] /\ b[1].price \in Nat /\ a[1].price \in Nat
      /\ b[1].price >= a[1].price
  BY SideFacts DEF BestsCross
<1>7. Falling[bids[1].price] <= Falling[b[1].price]
  BY <1>1, <1>2, RanksOfSides, BestFirst
<1>8. Rising[asks[1].price] <= Rising[a[1].price]
  BY <1>1, <1>3, RanksOfSides, BestFirst
<1>9. b[1].price <= bids[1].price
  <2>1. \A x, y \in Nat : Falling[x] <= Falling[y] => y <= x
    BY DEF Falling
  <2> QED
    BY <1>5, <1>6, <1>7, <2>1
<1>10. asks[1].price <= a[1].price
  BY <1>5, <1>6, <1>8 DEF Rising
<1>11. bids[1].price >= asks[1].price
  <2> DEFINE w == bids[1].price
             x == b[1].price
             y == a[1].price
             z == asks[1].price
  <2>1. w \in Nat /\ x \in Nat /\ y \in Nat /\ z \in Nat /\ x <= w /\ x >= y /\ z <= y
    BY <1>5, <1>6, <1>9, <1>10
  <2>2. w >= z
    <3> HIDE DEF w, x, y, z
    <3> QED
      BY <2>1
  <2> QED
    BY <2>2
<1> QED
  BY <1>4, <1>5, <1>11 DEF BestsCross

(* The best price of what fills leave was in the book. *)
LEMMA LeftOfPrice ==
  ASSUME NEW s \in Seq(Order), NEW r \in Seq(Order), LeftOf(r, s), r # <<>>
  PROVE  \E j \in 1..Len(s) : r[1].price = s[j].price
<1>1. PICK d \in 0..Len(s) :
        /\ Len(r) = Len(s) - d
        /\ \A j \in 1..Len(r) : r[j].price = s[j + d].price
  BY DEF LeftOf
<1>2. 1 \in 1..Len(r) /\ 1 + d \in 1..Len(s)
  BY <1>1
<1> QED
  BY <1>1, <1>2

(* The best price of what a cancellation leaves was in the book. *)
LEMMA RemovedPrice ==
  ASSUME NEW s \in Seq(Order), NEW i \in 1..Len(s), remove_order(s, i) # <<>>
  PROVE  \E j \in 1..Len(s) : remove_order(s, i)[1].price = s[j].price
<1> DEFINE r == remove_order(s, i)
<1>1. r \in Seq(Order) /\ Inserted(s, r, s[i], i - 1)
  BY RemoveInserts
<1>2. \A j \in 1..Len(r) : r[j] = IF j < (i - 1) + 1 THEN s[j] ELSE s[j + 1]
  BY <1>1 DEF Inserted, TakenOut
<1>3. Len(s) = Len(r) + 1
  BY <1>1 DEF Inserted, TakenOut
<1>4. r # <<>>
  OBVIOUS
<1> HIDE DEF r
<1>5. 1 \in 1..Len(r) /\ 1 \in 1..Len(s) /\ 2 \in 1..Len(s)
  BY <1>1, <1>3, <1>4
<1>6. r[1] = s[1] \/ r[1] = s[2]
  <2>1. r[1] = IF 1 < (i - 1) + 1 THEN s[1] ELSE s[1 + 1]
    BY <1>2, <1>5
  <2> QED
    BY <2>1
<1>7. \E j \in 1..Len(s) : r[1].price = s[j].price
  BY <1>5, <1>6
<1> QED
  BY <1>7 DEF r

(* After an insertion the best order is the new one or the old best. *)
LEMMA InsertedBest ==
  ASSUME NEW s \in Seq(Order), NEW e, NEW k \in 0..Len(s), NEW new, Inserted(new, s, e, k)
  PROVE  new[1] = e \/ (1 \in 1..Len(s) /\ new[1] = s[1])
<1>1. /\ new \in Seq(Order) /\ Len(new) = Len(s) + 1 /\ new[k + 1] = e
      /\ \A j \in 1..Len(s) : s[j] = IF j < k + 1 THEN new[j] ELSE new[j + 1]
  BY DEF Inserted, TakenOut
<1>2. CASE k = 0
  BY <1>1, <1>2
<1>3. CASE k # 0
  <2>1. 1 \in 1..Len(s) /\ 1 < k + 1
    BY <1>3
  <2>2. s[1] = IF 1 < k + 1 THEN new[1] ELSE new[1 + 1]
    BY <1>1, <2>1
  <2> QED
    BY <2>1, <2>2
<1> QED
  BY <1>2, <1>3

(* A bid that leaves the book crossed used up its MAX_FILLS fills. *)
LEMMA PlaceBidCrosses ==
  ASSUME BookInv, BookInv', NEW u \in Users, NEW price \in Nat, NEW size \in Nat,
         NEW isMarket \in BOOLEAN, PlaceBid(u, price, size, isMarket),
         BestsCross(bids', asks'), ~BestsCross(bids, asks)
  PROVE  Len(asks') <= Len(asks) - MAX_FILLS
<1> DEFINE plan == plan_fills("bid", asks, price, size, isMarket)
           rests == plan.left > 0 /\ ~isMarket
<1>1. /\ asks' = plan.makers
      /\ bids' = IF rests THEN insert_sorted_bid(bids, Rested(u, price, plan.left))
                 ELSE bids
  BY DEF PlaceBid
<1>2. /\ bids \in Side /\ asks \in Side /\ bids' \in Side /\ asks' \in Side
      /\ nextSeq \in Nat /\ Sorted(Rising, asks, nextSeq)
  BY DEF BookInv, BookTypes, SidesSorted, Sorted
<1>3. /\ LeftOf(plan.makers, asks) /\ plan.left \in Nat
      /\ \/ ~Fillable("bid", plan, price, isMarket)
         \/ Len(plan.makers) <= Len(asks) - MAX_FILLS
  <2>1. Planned(Rising, asks, nextSeq, "bid", price, size, isMarket)
    BY <1>2, PlanFacts
  <2> QED
    BY <2>1 DEF Planned
<1> HIDE DEF plan
<1>4. bids' # <<>> /\ asks' # <<>> /\ Head(bids').price >= Head(asks').price
  BY DEF BestsCross
<1>5. /\ bids \in Seq(Order) /\ asks \in Seq(Order) /\ asks' \in Seq(Order)
      /\ Head(bids') = bids'[1] /\ Head(asks') = asks'[1]
      /\ bids'[1].price \in Nat /\ asks'[1].price \in Nat
  BY <1>2, <1>4, SideFacts
<1>6. \E j \in 1..Len(asks) : asks'[1].price = asks[j].price
  BY <1>1, <1>3, <1>4, <1>5, LeftOfPrice
<1>7. \A i \in 1..Len(bids) : bids'[1].price # bids[i].price
  BY <1>2, <1>6, CrossedBefore
<1>8. rests
  <2> SUFFICES ASSUME ~rests PROVE FALSE
    OBVIOUS
  <2>1. bids' = bids /\ 1 \in 1..Len(bids)
    BY <1>1, <1>4, <1>5
  <2> QED
    BY <1>7, <2>1
<1> DEFINE e == Rested(u, price, plan.left)
           new == insert_sorted_bid(bids, e)
<1>9. bids' = new /\ e \in Order /\ e.price = price
  BY <1>1, <1>2, <1>3, <1>8 DEF Rested, Order
<1> HIDE DEF e
<1>10. PICK k \in 0..Len(bids) : Inserted(new, bids, e, k)
  BY <1>5, <1>9, InsertBid
<1>11. new[1] = e
  <2>1. new[1] = e \/ (1 \in 1..Len(bids) /\ new[1] = bids[1])
    BY <1>5, <1>10, InsertedBest
  <2> QED
    BY <1>7, <1>9, <2>1
<1>12. price >= asks'[1].price
  BY <1>4, <1>5, <1>9, <1>11
<1>13. Fillable("bid", plan, price, isMarket)
  <2>1. plan.makers # <<>> /\ Head(plan.makers).price <= price
    BY <1>1, <1>4, <1>5, <1>12
  <2> QED
    BY <1>8, <2>1 DEF Fillable, Crosses
<1> QED
  BY <1>1, <1>3, <1>13

(* So did an ask. *)
LEMMA PlaceAskCrosses ==
  ASSUME BookInv, BookInv', NEW u \in Users, NEW price \in Nat, NEW size \in Nat,
         NEW isMarket \in BOOLEAN, PlaceAsk(u, price, size, isMarket),
         BestsCross(bids', asks'), ~BestsCross(bids, asks)
  PROVE  Len(bids') <= Len(bids) - MAX_FILLS
<1> DEFINE plan == plan_fills("ask", bids, price, size, isMarket)
           rests == plan.left > 0 /\ ~isMarket
<1>1. /\ bids' = plan.makers
      /\ asks' = IF rests THEN insert_sorted_ask(asks, Rested(u, price, plan.left))
                 ELSE asks
  BY DEF PlaceAsk
<1>2. /\ bids \in Side /\ asks \in Side /\ bids' \in Side /\ asks' \in Side
      /\ nextSeq \in Nat /\ Sorted(Falling, bids, nextSeq)
  BY DEF BookInv, BookTypes, SidesSorted, Sorted
<1>3. /\ LeftOf(plan.makers, bids) /\ plan.left \in Nat
      /\ \/ ~Fillable("ask", plan, price, isMarket)
         \/ Len(plan.makers) <= Len(bids) - MAX_FILLS
  <2>1. Planned(Falling, bids, nextSeq, "ask", price, size, isMarket)
    BY <1>2, PlanFacts
  <2> QED
    BY <2>1 DEF Planned
<1> HIDE DEF plan
<1>4. bids' # <<>> /\ asks' # <<>> /\ Head(bids').price >= Head(asks').price
  BY DEF BestsCross
<1>5. /\ bids \in Seq(Order) /\ asks \in Seq(Order) /\ bids' \in Seq(Order)
      /\ Head(bids') = bids'[1] /\ Head(asks') = asks'[1]
      /\ bids'[1].price \in Nat /\ asks'[1].price \in Nat
  BY <1>2, <1>4, SideFacts
<1>6. \E j \in 1..Len(bids) : bids'[1].price = bids[j].price
  BY <1>1, <1>3, <1>4, <1>5, LeftOfPrice
<1>7. \A i \in 1..Len(asks) : asks'[1].price # asks[i].price
  BY <1>2, <1>6, CrossedBefore
<1>8. rests
  <2> SUFFICES ASSUME ~rests PROVE FALSE
    OBVIOUS
  <2>1. asks' = asks /\ 1 \in 1..Len(asks)
    BY <1>1, <1>4, <1>5
  <2> QED
    BY <1>7, <2>1
<1> DEFINE e == Rested(u, price, plan.left)
           new == insert_sorted_ask(asks, e)
<1>9. asks' = new /\ e \in Order /\ e.price = price
  BY <1>1, <1>2, <1>3, <1>8 DEF Rested, Order
<1> HIDE DEF e
<1>10. PICK k \in 0..Len(asks) : Inserted(new, asks, e, k)
  BY <1>5, <1>9, InsertAsk
<1>11. new[1] = e
  <2>1. new[1] = e \/ (1 \in 1..Len(asks) /\ new[1] = asks[1])
    BY <1>5, <1>10, InsertedBest
  <2> QED
    BY <1>7, <1>9, <2>1
<1>12. bids'[1].price >= price
  BY <1>4, <1>5, <1>9, <1>11
<1>13. Fillable("ask", plan, price, isMarket)
  <2>1. plan.makers # <<>> /\ Head(plan.makers).price >= price
    BY <1>1, <1>4, <1>5, <1>12
  <2> QED
    BY <1>8, <2>1 DEF Fillable, Crosses
<1> QED
  BY <1>1, <1>3, <1>13

(* No other step leaves a book crossed. *)
LEMMA StepCrosses ==
  ASSUME BookInv, BookInv', [Next]_vars,
         BestsCross(bids', asks'), ~BestsCross(bids, asks)
  PROVE  \/ Len(asks') <= Len(asks) - MAX_FILLS
         \/ Len(bids') <= Len(bids) - MAX_FILLS
<1>1. /\ bids \in Side /\ asks \in Side /\ bids' \in Side /\ asks' \in Side
      /\ bids \in Seq(Order) /\ asks \in Seq(Order)
      /\ bids' \in Seq(Order) /\ asks' \in Seq(Order)
      /\ bids' # <<>> /\ asks' # <<>>
  BY SideFacts DEF BookInv, SidesSorted, Sorted, BestsCross
<1> DEFINE SameBids == \E i \in 1..Len(bids) : bids'[1].price = bids[i].price
           SameAsks == \E j \in 1..Len(asks) : asks'[1].price = asks[j].price
<1>2. ~(SameBids /\ SameAsks)
  BY <1>1, CrossedBefore
<1>3. bids' = bids => SameBids
  <2>1. 1 \in 1..Len(bids')
    BY <1>1
  <2> QED
    BY <2>1
<1>4. asks' = asks => SameAsks
  <2>1. 1 \in 1..Len(asks')
    BY <1>1
  <2> QED
    BY <2>1
<1> HIDE DEF SameBids, SameAsks
<1>5. CASE \E u \in Users : TraderStep(u)
  <2>1. PICK u \in Users : TraderStep(u)
    BY <1>5
  <2>2. CASE \E price \in Prices, size \in Sizes, isMarket \in BOOLEAN :
               PlaceBid(u, price, size, isMarket) \/ PlaceAsk(u, price, size, isMarket)
    BY <2>2, ConstantFacts, PlaceBidCrosses, PlaceAskCrosses
  <2>3. ASSUME NEW seq, CancelBid(u, seq) PROVE FALSE
    <3>1. PICK i \in 1..Len(bids) : bids' = remove_order(bids, i) /\ asks' = asks
      BY <2>3 DEF CancelBid, find_order_index
    <3>2. SameBids
      BY <1>1, <3>1, RemovedPrice DEF SameBids
    <3> QED
      BY <1>2, <1>4, <3>1, <3>2
  <2>4. ASSUME NEW seq, CancelAsk(u, seq) PROVE FALSE
    <3>1. PICK i \in 1..Len(asks) : asks' = remove_order(asks, i) /\ bids' = bids
      BY <2>4 DEF CancelAsk, find_order_index
    <3>2. SameAsks
      BY <1>1, <3>1, RemovedPrice DEF SameAsks
    <3> QED
      BY <1>2, <1>3, <3>1, <3>2
  <2> QED
    BY <2>1, <2>2, <2>3, <2>4 DEF TraderStep
<1>6. CASE MatchOrders
  <2> DEFINE plan == CrankPlan
  <2>1. bids' = plan.bids /\ asks' = plan.asks
    BY <1>6 DEF MatchOrders
  <2>2. LeftOf(plan.bids, bids) /\ LeftOf(plan.asks, asks)
    BY <1>1, CrankKeeps DEF SweepInv
  <2> HIDE DEF plan
  <2>3. SameBids /\ SameAsks
    BY <1>1, <2>1, <2>2, LeftOfPrice DEF SameBids, SameAsks
  <2> QED
    BY <1>2, <2>3
<1>7. CASE \/ InitOrderBook \/ GrowOrderBook \/ Settle
           \/ \E b \in BOOLEAN : Pause(b)
           \/ \E b \in MintFlips : UpdateUsdcMint(b)
           \/ \E u \in Users, amount \in SplAmounts : SplStray(u, amount)
           \/ UNCHANGED vars
  <2>1. UNCHANGED <<bids, asks>>
    <3>1. CASE GrowOrderBook
      BY <1>1, <3>1 DEF GrowOrderBook
    <3>2. CASE InitOrderBook \/ Settle \/ UNCHANGED vars
      BY <3>2 DEF InitOrderBook, Settle, vars, bookVars
    <3>3. CASE (\E b \in BOOLEAN : Pause(b)) \/ \E b \in MintFlips : UpdateUsdcMint(b)
      BY <3>3 DEF Pause, UpdateUsdcMint, bookVars
    <3>4. CASE \E u \in Users, amount \in SplAmounts : SplStray(u, amount)
      BY <3>4 DEF SplStray, bookVars
    <3> QED
      BY <1>7, <3>1, <3>2, <3>3, <3>4
  <2> QED
    BY <1>2, <1>3, <1>4, <2>1
<1> QED
  BY <1>5, <1>6, <1>7 DEF Next

(* A book is left crossed only by an order that used up its MAX_FILLS. *)
THEOREM CrossedOnlyByFillLimitCorrect == Spec => CrossedOnlyByFillLimit
<1>1. /\ BookInv /\ BookInv' /\ [Next]_vars
      => [BestsCross(bids', asks') /\ ~BestsCross(bids, asks) =>
            \/ Len(asks') <= Len(asks) - MAX_FILLS
            \/ Len(bids') <= Len(bids) - MAX_FILLS]_vars
  BY StepCrosses
<1> QED
  BY <1>1, BookInvariant, PTL DEF Spec, CrossedOnlyByFillLimit

--------------------------------------------------------------------------------
(* What stands open *)

(* The guards of match_orders and its progress. *)
CrankCovered ==
  TradingOpen =>
    /\ TotalUsdc(CrankPlan.pairs) <= usdcEscrow
    /\ TotalSize(CrankPlan.pairs) <= yesEscrow
    /\ \/ ~BestsCross(CrankPlan.bids, CrankPlan.asks)
       \/ Len(CrankPlan.bids) + Len(CrankPlan.asks) <= Len(bids) + Len(asks) - MAX_PAIRS

(* Whenever trading is open the crank has its guards met and makes progress:  *)
(* what CrankProgress asks, with ENABLED MatchOrders replaced by the guards   *)
(* it stands for (every other conjunct of the action assigns).                *)
THEOREM CrankCoveredCorrect == Spec => []CrankCovered
<1>1. BookInv => CrankCovered
  <2> SUFFICES ASSUME BookInv PROVE CrankCovered
    OBVIOUS
  <2> DEFINE plan == CrankPlan
             paid == TotalUsdc(plan.pairs)
             delivered == TotalSize(plan.pairs)
  <2>1. /\ Weigh(bids, CostOf) = Weigh(plan.bids, CostOf) + paid
        /\ Weigh(asks, SizeOf) = Weigh(plan.asks, SizeOf) + delivered
        /\ Weigh(plan.bids, CostOf) \in Nat /\ Weigh(plan.asks, SizeOf) \in Nat
        /\ plan.pairs \in Seq(CrossedPair)
        /\ \/ ~BestsCross(plan.bids, plan.asks)
           \/ Len(plan.bids) + Len(plan.asks) <= Len(bids) + Len(asks) - MAX_PAIRS
    BY CrankFacts
  <2>2. /\ usdcEscrow = Weigh(bids, CostOf) + strayUsdc /\ strayUsdc \in Nat
        /\ yesEscrow = Weigh(asks, SizeOf) + strayYes /\ strayYes \in Nat
    BY DEF BookInv, EscrowsWeighed, BookTypes
  <2> HIDE DEF plan
  <2>3. paid \in Nat /\ delivered \in Nat
    BY <2>1, PairTotals
  <2> HIDE DEF paid, delivered
  <2>4. paid <= usdcEscrow /\ delivered <= yesEscrow
    BY <2>1, <2>2, <2>3
  <2> QED
    BY <2>1, <2>4 DEF CrankCovered, plan, paid, delivered
<1> QED
  BY <1>1, BookInvariant, PTL

(* The guards of cancel_order, of every resting order. *)
OrdersCovered ==
  mintCurrent =>
    /\ \A o \in Range(bids) : \E i \in find_order_index(bids, o.seq) :
         CancelOpen /\ bids[i] = o /\ bid_cost_ceil(o.price, o.size) <= usdcEscrow
    /\ \A o \in Range(asks) : \E i \in find_order_index(asks, o.seq) :
         CancelOpen /\ asks[i] = o /\ o.size <= yesEscrow

(* A resting order is found by its own sequence number. *)
LEMMA OrderFound ==
  ASSUME NEW rank, NEW s, NEW n, Sorted(rank, s, n), NEW o \in Range(s)
  PROVE  \E i \in find_order_index(s, o.seq) : s[i] = o
<1>1. s \in Seq(Order) /\ Ranked(rank, s)
  BY SideFacts DEF Sorted
<1>2. PICK i \in 1..Len(s) : s[i] = o
  BY <1>1 DEF Range
<1>3. \A j \in 1..(i - 1) : j \in 1..Len(s) /\ j < i
  BY <1>1
<1>4. \A j \in 1..(i - 1) : s[j].seq # o.seq
  BY <1>2, <1>3, <1>1 DEF Ranked
<1> QED
  BY <1>2, <1>4 DEF find_order_index

(* An order claims no more than its side does. *)
LEMMA CoveredAlone ==
  ASSUME NEW s \in Side, NEW o \in Range(s)
  PROVE  /\ o.size <= Weigh(s, SizeOf) /\ o.size \in Nat
         /\ bid_cost_ceil(o.price, o.size) <= Weigh(s, CostOf)
         /\ bid_cost_ceil(o.price, o.size) \in Nat
<1>1. s \in Seq(Order)
  BY SideFacts
<1>2. PICK p \in 1..Len(s) : s[p] = o
  BY <1>1 DEF Range
<1>3. o \in Order
  BY <1>1, <1>2
<1>4. SizeOf \in [Order -> Nat] /\ CostOf \in [Order -> Nat]
  <2>1. SizeOf = [x \in Order |-> SizeOf[x]] /\ CostOf = [x \in Order |-> CostOf[x]]
    BY DEF SizeOf, CostOf
  <2> QED
    BY <2>1, WeightsOfOrders
<1>5. ASSUME NEW wt \in [Order -> Nat] PROVE wt[o] <= Weigh(s, wt)
  BY <1>1, <1>2, WeighBounds
<1> QED
  BY <1>3, <1>4, <1>5, WeightsOfOrders

(* While the mint of config is the escrow's, every resting order can be       *)
(* withdrawn in full: what OrdersReclaimable asks, with ENABLED replaced by   *)
(* the guards of the cancellation.                                            *)
THEOREM OrdersCoveredCorrect == Spec => []OrdersCovered
<1>1. BookInv => OrdersCovered
  <2> SUFFICES ASSUME BookInv, mintCurrent PROVE OrdersCovered
    BY DEF OrdersCovered
  <2>1. /\ Sorted(Falling, bids, nextSeq) /\ Sorted(Rising, asks, nextSeq)
        /\ bids \in Side /\ asks \in Side
        /\ usdcEscrow = Weigh(bids, CostOf) + strayUsdc /\ strayUsdc \in Nat
        /\ yesEscrow = Weigh(asks, SizeOf) + strayYes /\ strayYes \in Nat
        /\ stage # "wired" => bids = <<>> /\ asks = <<>>
    BY DEF BookInv, BookTypes, SidesSorted, EscrowsWeighed, Sorted
  <2>2. Weigh(bids, CostOf) \in Nat /\ Weigh(asks, SizeOf) \in Nat
    BY <2>1, SideFacts
  <2>3. ASSUME NEW o \in Range(bids)
        PROVE  \E i \in find_order_index(bids, o.seq) :
                 CancelOpen /\ bids[i] = o /\ bid_cost_ceil(o.price, o.size) <= usdcEscrow
    <3>1. /\ bid_cost_ceil(o.price, o.size) <= Weigh(bids, CostOf)
          /\ bid_cost_ceil(o.price, o.size) \in Nat
      BY <2>1, CoveredAlone
    <3>2. bid_cost_ceil(o.price, o.size) <= usdcEscrow
      BY <2>1, <2>2, <3>1
    <3>3. bids # <<>>
      BY DEF Range
    <3> QED
      BY <2>1, <3>2, <3>3, OrderFound DEF CancelOpen
  <2>4. ASSUME NEW o \in Range(asks)
        PROVE  \E i \in find_order_index(asks, o.seq) :
                 CancelOpen /\ asks[i] = o /\ o.size <= yesEscrow
    <3>1. o.size <= Weigh(asks, SizeOf) /\ o.size \in Nat
      BY <2>1, CoveredAlone
    <3>2. o.size <= yesEscrow
      BY <2>1, <2>2, <3>1
    <3>3. asks # <<>>
      BY DEF Range
    <3> QED
      BY <2>1, <3>2, <3>3, OrderFound DEF CancelOpen
  <2> QED
    BY <2>3, <2>4 DEF OrdersCovered
<1> QED
  BY <1>1, BookInvariant, PTL

--------------------------------------------------------------------------------
(* The plan of the page and the plan of the program *)

(* The size of the makers in front of the i-th one. *)
Before(makers, i) == SumFunction([j \in 1..(i - 1) |-> makers[j].size])

(* Sizes add up maker by maker. *)
LEMMA BeforeNext ==
  ASSUME NEW makers \in Side, NEW i \in 1..(Len(makers) + 1)
  PROVE  /\ Before(makers, i) \in Nat
         /\ Before(makers, 1) = 0
         /\ i \in 1..Len(makers) =>
              Before(makers, i + 1) = Before(makers, i) + makers[i].size
<1>1. makers \in Seq(Order) /\ Len(makers) \in Nat
  BY SideFacts
<1>2. \A j \in 1..Len(makers) : makers[j].size \in Nat
  <2>1. \A j \in 1..Len(makers) : makers[j] \in Order
    BY <1>1
  <2> QED
    BY <2>1 DEF Order
<1> DEFINE w == [j \in 1..(i - 1) |-> makers[j].size]
<1>3. w \in Seq(Nat) /\ w \in Seq(Int) /\ Len(w) = i - 1
  <2>1. i - 1 \in Nat /\ 1..(i - 1) \subseteq 1..Len(makers)
    BY <1>1
  <2>2. \A j \in 1..(i - 1) : w[j] \in Nat
    BY <1>2, <2>1
  <2>3. w \in [1..(i - 1) -> Nat]
    BY <2>2
  <2>4. w \in Seq(Nat) /\ Len(w) = i - 1
    BY <2>1, <2>3
  <2> QED
    BY <2>4
<1>4. Before(makers, i) \in Nat
  BY <1>3, SumSeqNat DEF Before
<1>5. Before(makers, 1) = 0
  <2>1. [j \in 1..(1 - 1) |-> makers[j].size] = <<>>
    OBVIOUS
  <2> QED
    BY <2>1, SumNone DEF Before
<1>6. ASSUME i \in 1..Len(makers)
      PROVE  Before(makers, i + 1) = Before(makers, i) + makers[i].size
  <2> DEFINE e == makers[i].size
             v == [j \in 1..((i + 1) - 1) |-> makers[j].size]
  <2>1. e \in Int
    BY <1>2, <1>6
  <2>2. Append(w, e) = v
    <3>1. i \in Nat /\ i > 0 /\ (i - 1) + 1 = i /\ (i + 1) - 1 = i
      BY <1>1
    <3>2. Len(Append(w, e)) = i /\ Append(w, e) \in Seq(Int) /\ DOMAIN Append(w, e) = 1..i
      BY <1>3, <2>1, <3>1
    <3>3. \A j \in 1..i : Append(w, e)[j] = v[j]
      <4> SUFFICES ASSUME NEW j \in 1..i PROVE Append(w, e)[j] = v[j]
        OBVIOUS
      <4>1. CASE j = i
        BY <1>3, <3>1, <4>1
      <4>2. CASE j # i
        BY <1>3, <3>1, <4>2
      <4> QED
        BY <4>1, <4>2
    <3>4. v = [j \in 1..i |-> v[j]]
      BY <3>1
    <3>5. Append(w, e) = [j \in 1..i |-> Append(w, e)[j]]
      BY <3>2
    <3> HIDE DEF w, v
    <3> QED
      BY <3>3, <3>4, <3>5
  <2>3. SumFunction(Append(w, e)) = SumFunction(w) + e
    BY <1>3, <2>1, SumAppend
  <2> QED
    BY <2>2, <2>3 DEF Before
<1> QED
  BY <1>4, <1>5, <1>6

(* A maker further back has at least as much in front of it. *)
LEMMA BeforeGrows ==
  ASSUME NEW makers \in Side, NEW k \in 1..Len(makers), NEW i \in 1..Len(makers), k <= i
  PROVE  Before(makers, k) <= Before(makers, i)
<1> DEFINE T == {d \in Nat : k + d \in 1..Len(makers) =>
                               Before(makers, k) <= Before(makers, k + d)}
<1>1. Len(makers) \in Nat /\ k \in Nat /\ k > 0
  BY SideFacts
<1>2. \A j \in 1..Len(makers) : /\ Before(makers, j) \in Nat /\ makers[j].size \in Nat
                                /\ Before(makers, j + 1) = Before(makers, j) + makers[j].size
  <2> SUFFICES ASSUME NEW j \in 1..Len(makers)
               PROVE  /\ Before(makers, j) \in Nat /\ makers[j].size \in Nat
                      /\ Before(makers, j + 1) = Before(makers, j) + makers[j].size
    OBVIOUS
  <2>1. j \in 1..(Len(makers) + 1)
    BY <1>1
  <2>2. makers[j] \in Order
    BY SideFacts
  <2> QED
    BY <2>1, <2>2, BeforeNext DEF Order
<1>3. 0 \in T
  <2>1. k + 0 = k /\ Before(makers, k) \in Nat
    BY <1>1, <1>2
  <2> QED
    BY <2>1
<1>4. ASSUME NEW d \in Nat, d \in T PROVE d + 1 \in T
  <2> SUFFICES ASSUME k + (d + 1) \in 1..Len(makers)
               PROVE  Before(makers, k) <= Before(makers, k + (d + 1))
    OBVIOUS
  <2>1. k + d \in 1..Len(makers) /\ k + (d + 1) = (k + d) + 1
    BY <1>1
  <2>2. Before(makers, k) <= Before(makers, k + d)
    BY <1>4, <2>1
  <2>3. /\ Before(makers, k + d) \in Nat /\ makers[k + d].size \in Nat
        /\ Before(makers, (k + d) + 1) = Before(makers, k + d) + makers[k + d].size
        /\ Before(makers, k) \in Nat
    BY <1>2, <2>1
  <2> QED
    BY <2>1, <2>2, <2>3
<1> HIDE DEF T
<1>5. i - k \in T /\ k + (i - k) = i
  <2>1. i - k \in Nat /\ k + (i - k) = i
    BY <1>1
  <2> QED
    BY <1>3, <1>4, <2>1, NatInductionSet
<1> QED
  BY <1>5 DEF T

(* The fills so far are those the page lists, and what the walk has left of   *)
(* the makers and of the size is what the page has yet to reach.              *)
Listed(side, makers, price, size, isMarket, fills) ==
  \A i \in 1..Len(fills) :
    /\ i \in 1..Len(makers)
    /\ Before(makers, i) < size
    /\ Crosses(side, makers[i], price, isMarket)
    /\ fills[i].maker = makers[i].owner
    /\ fills[i].size = Least(size - Before(makers, i), makers[i].size)

Unreached(makers, size, w, k) ==
  \/ /\ k <= Len(makers)
     /\ Len(w.makers) = Len(makers) - k
     /\ \A j \in 1..Len(w.makers) : w.makers[j] = makers[j + k]
     /\ w.left = size - Before(makers, k + 1)
  \/ /\ k <= Len(makers)
     /\ w.left = 0
     /\ Before(makers, k + 1) >= size

Mirror(side, makers, price, size, isMarket, w, n) ==
  /\ Listed(side, makers, price, size, isMarket, w.fills)
  /\ Len(w.fills) <= n
  /\ Fillable(side, w, price, isMarket) => Len(w.fills) = n
  /\ Unreached(makers, size, w, Len(w.fills))

(* One fill keeps the mirror. *)
LEMMA FillMirrors ==
  ASSUME NEW side, NEW makers \in Side, NEW price, NEW size \in Nat, NEW isMarket,
         NEW w, WalkInv(makers, size, w), NEW n \in Nat,
         Mirror(side, makers, price, size, isMarket, w, n),
         Fillable(side, w, price, isMarket)
  PROVE  Mirror(side, makers, price, size, isMarket, FillBest(w), n + 1)
<1> DEFINE k == Len(w.fills)
           m == makers[k + 1]
           taken == Least(w.left, m.size)
           fill == [maker |-> m.owner, size |-> taken,
                    usdc |-> fill_usdc(m.price, m.size, m.size - taken)]
           v == FillBest(w)
<1>1. /\ w.left > 0 /\ w.makers # <<>> /\ Crosses(side, Head(w.makers), price, isMarket)
      /\ Len(w.fills) = n
  BY DEF Fillable, Mirror
<1>2. /\ w.makers \in Side /\ w.left \in Nat /\ w.fills \in Seq(PlannedFill)
      /\ w.makers \in Seq(Order) /\ Len(w.makers) \in Nat /\ 1 \in 1..Len(w.makers)
      /\ Head(w.makers) = w.makers[1] /\ Len(makers) \in Nat
  BY <1>1, SideFacts DEF WalkInv
<1>3. /\ k = n /\ Len(w.makers) = Len(makers) - n
      /\ \A j \in 1..Len(w.makers) : w.makers[j] = makers[j + n]
      /\ w.left = size - Before(makers, n + 1)
  BY <1>1 DEF Mirror, Unreached
<1>4. n + 1 \in 1..Len(makers) /\ Head(w.makers) = m /\ m = makers[n + 1]
  <2>1. 1 + n = n + 1
    OBVIOUS
  <2> QED
    BY <1>2, <1>3, <2>1
<1>5. m \in Order /\ m.size \in Nat /\ m.size > 0
  <2>1. makers[n + 1] \in Order /\ makers[n + 1].size > 0
    BY <1>4 DEF Side
  <2> QED
    BY <1>4, <2>1 DEF Order
<1>6. /\ Before(makers, n + 1) \in Nat
      /\ Before(makers, n + 2) = Before(makers, n + 1) + m.size
  <2>1. n + 1 \in 1..(Len(makers) + 1) /\ (n + 1) + 1 = n + 2
    BY <1>2, <1>4
  <2> QED
    BY <1>4, <2>1, BeforeNext
<1>7. v = [makers |-> TakeBest(w.makers, taken), left |-> w.left - taken,
           fills |-> Append(w.fills, fill)]
  BY <1>4 DEF FillBest
<1> HIDE DEF m, v
<1>8. /\ taken \in Nat /\ taken <= w.left /\ taken <= m.size
      /\ taken = w.left \/ taken = m.size
  <2>1. taken \in 1..w.left /\ taken \in 1..m.size /\ (taken = w.left \/ taken = m.size)
    BY <1>1, <1>2, <1>5, LeastIs
  <2> QED
    BY <1>2, <1>5, <2>1
<1>9. taken = Least(size - Before(makers, n + 1), m.size)
  BY <1>3
<1> HIDE DEF taken
<1>10. fill.maker = m.owner /\ fill.size = taken
  OBVIOUS
<1> HIDE DEF fill
<1>11. /\ v.makers = TakeBest(w.makers, taken) /\ v.left = w.left - taken
       /\ v.fills = Append(w.fills, fill)
  BY <1>7
<1>12. /\ Len(v.fills) = n + 1 /\ v.fills[n + 1] = fill
       /\ \A i \in 1..n : v.fills[i] = w.fills[i]
  BY <1>2, <1>3, <1>11
<1>13. Listed(side, makers, price, size, isMarket, v.fills)
  <2> SUFFICES ASSUME NEW i \in 1..(n + 1)
               PROVE  /\ i \in 1..Len(makers)
                      /\ Before(makers, i) < size
                      /\ Crosses(side, makers[i], price, isMarket)
                      /\ v.fills[i].maker = makers[i].owner
                      /\ v.fills[i].size
                           = Least(size - Before(makers, i), makers[i].size)
    BY <1>12 DEF Listed
  <2>1. CASE i = n + 1
    <3>1. Before(makers, n + 1) < size
      BY <1>1, <1>2, <1>3, <1>6
    <3> QED
      BY <1>1, <1>4, <1>9, <1>10, <1>12, <2>1, <3>1 DEF m
  <2>2. CASE i # n + 1
    <3>1. i \in 1..n /\ i \in 1..Len(w.fills)
      BY <1>3, <2>2
    <3>2. Listed(side, makers, price, size, isMarket, w.fills)
      BY DEF Mirror
    <3> QED
      BY <1>12, <3>1, <3>2 DEF Listed
  <2> QED
    BY <2>1, <2>2
<1>14. Fillable(side, v, price, isMarket) => Len(v.fills) = n + 1
  BY <1>12
<1>15. Unreached(makers, size, v, n + 1)
  <2>1. n + 1 <= Len(makers) /\ (n + 1) + 1 = n + 2
    BY <1>2, <1>4
  <2>2. CASE taken = m.size
    <3>1. TakeBest(w.makers, taken) = Tail(w.makers)
      BY <1>4, <2>2 DEF TakeBest
    <3>2. Len(v.makers) = Len(makers) - (n + 1)
      BY <1>2, <1>3, <1>11, <3>1
    <3>3. \A j \in 1..Len(v.makers) : v.makers[j] = makers[j + (n + 1)]
      <4> SUFFICES ASSUME NEW j \in 1..Len(v.makers)
                   PROVE  v.makers[j] = makers[j + (n + 1)]
        OBVIOUS
      <4>1. j + 1 \in 1..Len(w.makers) /\ (j + 1) + n = j + (n + 1)
        BY <1>2, <1>3, <3>2
      <4>2. v.makers[j] = w.makers[j + 1]
        BY <1>2, <1>11, <3>1
      <4>3. w.makers[j + 1] = makers[(j + 1) + n]
        BY <1>3, <4>1
      <4> QED
        BY <4>1, <4>2, <4>3
    <3>4. v.left = size - Before(makers, n + 2)
      BY <1>3, <1>5, <1>6, <1>11, <2>2
    <3> QED
      BY <2>1, <3>2, <3>3, <3>4 DEF Unreached
  <2>3. CASE taken = w.left
    <3>1. v.left = 0
      BY <1>2, <1>11, <2>3
    <3>2. Before(makers, n + 2) >= size
      BY <1>2, <1>3, <1>5, <1>6, <1>8, <2>3
    <3> QED
      BY <2>1, <3>1, <3>2 DEF Unreached
  <2> QED
    BY <1>8, <2>2, <2>3
<1> QED
  BY <1>12, <1>13, <1>14, <1>15 DEF Mirror, v

(* A walk begins with nothing listed. *)
LEMMA StartMirrors ==
  ASSUME NEW side, NEW makers \in Side, NEW price, NEW size \in Nat, NEW isMarket
  PROVE  Mirror(side, makers, price, size, isMarket, Start(makers, size), 0)
<1>1. Len(makers) \in Nat /\ 1 \in 1..(Len(makers) + 1)
  BY SideFacts
<1>2. Before(makers, 1) = 0
  BY <1>1, BeforeNext
<1>3. /\ Start(makers, size).makers = makers /\ Start(makers, size).left = size
      /\ Start(makers, size).fills = <<>> /\ Len(<<>>) = 0
  BY DEF Start
<1>4. Unreached(makers, size, Start(makers, size), 0)
  <2>1. 0 + 1 = 1 /\ size = size - 0 /\ Len(makers) = Len(makers) - 0 /\ 0 <= Len(makers)
    BY <1>1
  <2>2. \A j \in 1..Len(makers) : j + 0 = j
    OBVIOUS
  <2> QED
    BY <1>2, <1>3, <2>1, <2>2 DEF Unreached
<1>5. Listed(side, makers, price, size, isMarket, <<>>)
  BY <1>3 DEF Listed
<1> QED
  BY <1>3, <1>4, <1>5 DEF Mirror

(* The plan ends as a mirror of the page's plan. *)
LEMMA PlanMirrors ==
  ASSUME NEW side, NEW makers \in Side, NEW price, NEW size \in Nat, NEW isMarket
  PROVE  LET plan == plan_fills(side, makers, price, size, isMarket) IN
         /\ WalkInv(makers, size, plan)
         /\ Mirror(side, makers, price, size, isMarket, plan, MAX_FILLS)
<1>0. MAX_FILLS \in Nat
  BY ConstantFacts
<1>1. PICK walk :
        /\ plan_fills(side, makers, price, size, isMarket) = walk[MAX_FILLS]
        /\ walk[0] = Start(makers, size)
        /\ \A n \in Nat : n + 1 <= MAX_FILLS =>
             walk[n + 1] = WalkStep(side, walk[n], price, isMarket)
  BY PlanIsWalk, SMTT(30)
<1> DEFINE T == {n \in Nat : n <= MAX_FILLS =>
                   /\ WalkInv(makers, size, walk[n])
                   /\ Mirror(side, makers, price, size, isMarket, walk[n], n)}
<1>2. 0 \in T
  BY <1>1, StartKeeps, StartMirrors
<1>3. ASSUME NEW n \in Nat, n \in T PROVE n + 1 \in T
  <2> SUFFICES ASSUME n + 1 <= MAX_FILLS
               PROVE  /\ WalkInv(makers, size, walk[n + 1])
                      /\ Mirror(side, makers, price, size, isMarket, walk[n + 1], n + 1)
    OBVIOUS
  <2> DEFINE w == walk[n]
  <2>1. /\ WalkInv(makers, size, w)
        /\ Mirror(side, makers, price, size, isMarket, w, n)
        /\ walk[n + 1] = WalkStep(side, w, price, isMarket)
    BY <1>0, <1>1, <1>3
  <2> HIDE DEF w
  <2>2. CASE Fillable(side, w, price, isMarket)
    <3>1. walk[n + 1] = FillBest(w)
      BY <2>1, <2>2 DEF WalkStep
    <3>2. w.left > 0 /\ w.makers # <<>>
      BY <2>2 DEF Fillable
    <3>3. WalkInv(makers, size, FillBest(w))
      BY <2>1, <3>2, FillKeeps
    <3>4. Mirror(side, makers, price, size, isMarket, FillBest(w), n + 1)
      BY <2>1, <2>2, FillMirrors
    <3> QED
      BY <3>1, <3>3, <3>4
  <2>3. CASE ~Fillable(side, w, price, isMarket)
    <3>1. walk[n + 1] = w
      BY <2>1, <2>3 DEF WalkStep
    <3>2. Len(w.fills) <= n + 1
      <4>1. Len(w.fills) \in Nat /\ Len(w.fills) <= n
        BY <2>1 DEF Mirror, WalkInv
      <4> QED
        BY <4>1
    <3>3. Mirror(side, makers, price, size, isMarket, w, n + 1)
      BY <2>1, <2>3, <3>2 DEF Mirror
    <3> QED
      BY <2>1, <3>1, <3>3
  <2> QED
    BY <2>2, <2>3
<1> HIDE DEF T
<1>4. MAX_FILLS \in T
  BY <1>0, <1>2, <1>3, NatInductionSet
<1> QED
  BY <1>0, <1>1, <1>4 DEF T

(* planFills of lib/solana/order-book.ts lists the fills plan_fills makes.    *)
SamePlan(side, makers, price, size, isMarket) ==
  LET fills == plan_fills(side, makers, price, size, isMarket).fills
      planned == planFills(side, makers, price, size, isMarket)
  IN /\ DOMAIN planned = DOMAIN fills
     /\ \A i \in DOMAIN fills : /\ i \in DOMAIN makers
                                /\ fills[i].maker = makers[i].owner
                                /\ planned[i].maker = fills[i].maker
                                /\ planned[i].size = fills[i].size

(* The page and the program plan the same fills on the same side.             *)
LEMMA PlansAgree ==
  ASSUME NEW side, NEW makers \in Side, NEW price, NEW size \in Nat, NEW isMarket
  PROVE  SamePlan(side, makers, price, size, isMarket)
<1> DEFINE plan == plan_fills(side, makers, price, size, isMarket)
           fills == plan.fills
           planned == planFills(side, makers, price, size, isMarket)
           reached == {i \in DOMAIN makers :
             /\ i <= MAX_FILLS /\ Before(makers, i) < size
             /\ \A j \in 1..i : Crosses(side, makers[j], price, isMarket)}
           k == Len(fills)
<1>1. planned = [i \in reached |->
        [maker |-> makers[i].owner,
         size |-> Least(size - Before(makers, i), makers[i].size)]]
  BY DEF planFills, Before, Crosses
<1> HIDE DEF planned
<1>2. /\ WalkInv(makers, size, plan)
      /\ Mirror(side, makers, price, size, isMarket, plan, MAX_FILLS)
  BY PlanMirrors
<1> HIDE DEF plan
<1>3. /\ makers \in Seq(Order) /\ DOMAIN makers = 1..Len(makers) /\ Len(makers) \in Nat
      /\ fills \in Seq(PlannedFill) /\ DOMAIN fills = 1..k /\ k \in Nat
      /\ plan.left \in Nat /\ plan.makers \in Side /\ plan.makers \in Seq(Order)
  BY <1>2, SideFacts DEF WalkInv
<1>4. /\ Listed(side, makers, price, size, isMarket, fills) /\ k <= MAX_FILLS
      /\ Fillable(side, plan, price, isMarket) => k = MAX_FILLS
      /\ Unreached(makers, size, plan, k)
  BY <1>2 DEF Mirror
<1>5. MAX_FILLS \in Nat
  BY ConstantFacts
<1>6. ASSUME NEW i \in 1..k PROVE i \in reached
  <2>1. \A j \in 1..i : j \in 1..k
    BY <1>3
  <2> QED
    BY <1>3, <1>4, <1>5, <2>1 DEF Listed
<1>7. ASSUME NEW i \in reached, i > k PROVE FALSE
  <2>1. i \in 1..Len(makers) /\ k + 1 \in 1..Len(makers) /\ k + 1 <= i /\ k + 1 \in 1..i
    BY <1>3, <1>7
  <2>2. k # MAX_FILLS
    BY <1>3, <1>5, <1>7
  <2>3. ~Fillable(side, plan, price, isMarket)
    BY <1>4, <2>2
  <2>4. Before(makers, k + 1) <= Before(makers, i)
    BY <2>1, BeforeGrows
  <2>5. Before(makers, k + 1) \in Nat /\ Before(makers, i) \in Nat
    <3>1. k + 1 \in 1..(Len(makers) + 1) /\ i \in 1..(Len(makers) + 1)
      BY <1>3, <2>1
    <3> QED
      BY <3>1, BeforeNext
  <2>6. Before(makers, k + 1) < size
    BY <1>7, <2>4, <2>5
  <2>7. /\ Len(plan.makers) = Len(makers) - k
        /\ \A j \in 1..Len(plan.makers) : plan.makers[j] = makers[j + k]
        /\ plan.left = size - Before(makers, k + 1)
    <3>1. ~(Before(makers, k + 1) >= size)
      BY <2>5, <2>6
    <3> QED
      BY <1>4, <3>1 DEF Unreached
  <2>8. plan.left > 0
    BY <2>5, <2>6, <2>7
  <2>9. 1 \in 1..Len(plan.makers) /\ plan.makers # <<>> /\ Head(plan.makers) = makers[k + 1]
    <3>1. Len(plan.makers) > 0 /\ 1 + k = k + 1 /\ Len(plan.makers) \in Nat
      BY <1>3, <2>1, <2>7
    <3>2. 1 \in 1..Len(plan.makers) /\ plan.makers # <<>> /\ Head(plan.makers) = plan.makers[1]
      BY <1>3, <3>1
    <3>3. plan.makers[1] = makers[1 + k]
      BY <2>7, <3>2
    <3> QED
      BY <3>1, <3>2, <3>3
  <2>10. Crosses(side, makers[k + 1], price, isMarket)
    BY <1>7, <2>1
  <2> QED
    BY <2>3, <2>8, <2>9, <2>10 DEF Fillable
<1>8. reached = 1..k
  BY <1>3, <1>6, <1>7
<1> HIDE DEF reached
<1>9. ASSUME NEW i \in 1..k
      PROVE  /\ i \in DOMAIN makers
             /\ fills[i].maker = makers[i].owner
             /\ planned[i].maker = fills[i].maker
             /\ planned[i].size = fills[i].size
  BY <1>1, <1>3, <1>4, <1>8 DEF Listed
<1> QED
  BY <1>1, <1>3, <1>8, <1>9 DEF SamePlan, planned, plan

--------------------------------------------------------------------------------
(* Whose orders rest, and who receives YES *)

(* The owners of the orders of a side. *)
Owners(s) == {s[j].owner : j \in 1..Len(s)}

(* Fills bring no owner in. *)
LEMMA LeftOfOwners ==
  ASSUME NEW s \in Side, NEW r \in Side, LeftOf(r, s)
  PROVE  Owners(r) \subseteq Owners(s)
<1>0. s \in Seq(Order) /\ r \in Seq(Order)
  BY SideFacts
<1>1. PICK d \in 0..Len(s) :
        /\ Len(r) = Len(s) - d
        /\ \A j \in 1..Len(r) : r[j].owner = s[j + d].owner
  BY DEF LeftOf
<1>2. \A j \in 1..Len(r) : j + d \in 1..Len(s) /\ r[j].owner = s[j + d].owner
  BY <1>0, <1>1
<1> QED
  BY <1>2 DEF Owners

(* An insertion brings in the owner of the order, whichever way it is read.   *)
LEMMA InsertedOwners ==
  ASSUME NEW new, NEW old \in Seq(Order), NEW e, NEW k \in 0..Len(old),
         Inserted(new, old, e, k)
  PROVE  Owners(new) \subseteq Owners(old) \cup {e.owner} /\ Owners(old) \subseteq Owners(new)
<1>1. /\ new \in Seq(Order) /\ Len(new) = Len(old) + 1 /\ new[k + 1] = e
      /\ \A j \in 1..Len(old) : old[j] = IF j < k + 1 THEN new[j] ELSE new[j + 1]
  BY DEF Inserted, TakenOut
<1>2. ASSUME NEW j \in 1..Len(old) PROVE \E i \in 1..Len(new) : old[j] = new[i]
  <2>1. j \in 1..Len(new) /\ j + 1 \in 1..Len(new)
    BY <1>1
  <2>2. old[j] = new[j] \/ old[j] = new[j + 1]
    BY <1>1
  <2> QED
    BY <2>1, <2>2
<1>3. ASSUME NEW i \in 1..Len(new), i # k + 1
      PROVE  \E j \in 1..Len(old) : new[i] = old[j]
  <2>1. CASE i < k + 1
    <3>1. i \in 1..Len(old)
      BY <1>1, <2>1
    <3> QED
      BY <1>1, <2>1, <3>1
  <2>2. CASE i > k + 1
    <3>1. i - 1 \in 1..Len(old) /\ ~(i - 1 < k + 1) /\ (i - 1) + 1 = i
      BY <1>1, <2>2
    <3>2. old[i - 1] = IF i - 1 < k + 1 THEN new[i - 1] ELSE new[(i - 1) + 1]
      BY <1>1, <3>1
    <3> QED
      BY <3>1, <3>2
  <2> QED
    BY <1>1, <1>3, <2>1, <2>2
<1>4. ASSUME NEW x \in Owners(new) PROVE x \in Owners(old) \cup {e.owner}
  <2>1. PICK i \in 1..Len(new) : x = new[i].owner
    BY DEF Owners
  <2>2. CASE i = k + 1
    BY <1>1, <2>1, <2>2
  <2>3. CASE i # k + 1
    <3>1. PICK j \in 1..Len(old) : new[i] = old[j]
      BY <1>3, <2>3
    <3> QED
      BY <2>1, <3>1 DEF Owners
  <2> QED
    BY <2>2, <2>3
<1>5. ASSUME NEW x \in Owners(old) PROVE x \in Owners(new)
  <2>1. PICK j \in 1..Len(old) : x = old[j].owner
    BY DEF Owners
  <2>2. PICK i \in 1..Len(new) : old[j] = new[i]
    BY <1>2
  <2> QED
    BY <2>1, <2>2 DEF Owners
<1> QED
  BY <1>4, <1>5

(* Nobody but the owners of the makers receives what a plan moves. *)
LEMMA NoneDelivered ==
  ASSUME NEW side, NEW makers \in Side, NEW price, NEW size \in Nat, NEW isMarket,
         NEW v, v \notin Owners(makers)
  PROVE  DeliveredTo(v, plan_fills(side, makers, price, size, isMarket).fills) = 0
<1> DEFINE fills == plan_fills(side, makers, price, size, isMarket).fills
<1>1. /\ DOMAIN fills = 1..Len(fills) /\ Len(fills) \in Nat
      /\ makers \in Seq(Order) /\ DOMAIN makers = 1..Len(makers)
  BY PlanMirrors, SideFacts DEF WalkInv
<1>2. \A i \in DOMAIN fills : i \in DOMAIN makers /\ fills[i].maker = makers[i].owner
  BY PlansAgree DEF SamePlan
<1> HIDE DEF fills
<1>3. \A i \in DOMAIN fills : fills[i].maker # v
  BY <1>1, <1>2 DEF Owners
<1>4. [i \in DOMAIN fills |-> IF fills[i].maker = v THEN fills[i].size ELSE 0]
        = [i \in DOMAIN fills |-> 0]
  BY <1>3
<1>5. IsFiniteSet(DOMAIN fills)
  BY <1>1, FS_Interval
<1>6. DeliveredTo(v, fills) = SumFunctionOnSet([i \in DOMAIN fills |-> 0], DOMAIN fills)
  BY <1>4 DEF DeliveredTo, SumFunction
<1> QED
  BY <1>5, <1>6, SumZero DEF fills

(* The buyers of the pairs own bids. *)
LEMMA CrankBuyers ==
  ASSUME bids \in Side, asks \in Side
  PROVE  \A i \in 1..Len(CrankPlan.pairs) : CrankPlan.pairs[i].buyer \in Owners(bids)
<1>0. MAX_PAIRS \in Nat
  BY ConstantFacts
<1>1. PICK sweep :
        /\ CrankPlan = sweep[MAX_PAIRS]
        /\ sweep[0] = SweepStart
        /\ \A n \in Nat : n + 1 <= MAX_PAIRS => sweep[n + 1] = SweepStep(sweep[n])
  BY CrankIsSweep
<1> DEFINE Buyers(s) == \A i \in 1..Len(s.pairs) : s.pairs[i].buyer \in Owners(bids)
           T == {n \in Nat : n <= MAX_PAIRS =>
                               SweepInv(bids, asks, sweep[n]) /\ Buyers(sweep[n])}
<1>2. 0 \in T
  <2>1. SweepInv(bids, asks, SweepStart)
    <3>1. LeftOf(bids, bids) /\ LeftOf(asks, asks)
      BY SideFacts, LeftOfSelf
    <3>2. Weigh(<<>>, PairSize) = 0 /\ Weigh(<<>>, PairUsdc) = 0
      BY WeighNone
    <3>3. Weigh(bids, CostOf) \in Nat /\ Weigh(asks, SizeOf) \in Nat
      BY SideFacts
    <3> QED
      BY <3>1, <3>2, <3>3 DEF SweepInv, SweepStart
  <2>2. SweepStart.pairs = <<>> /\ Len(<<>>) = 0
    BY DEF SweepStart
  <2>3. Buyers(SweepStart)
    BY <2>2
  <2> QED
    BY <1>1, <2>1, <2>3
<1>3. ASSUME NEW n \in Nat, n \in T PROVE n + 1 \in T
  <2> SUFFICES ASSUME n + 1 <= MAX_PAIRS
               PROVE  SweepInv(bids, asks, sweep[n + 1]) /\ Buyers(sweep[n + 1])
    OBVIOUS
  <2> DEFINE s == sweep[n]
  <2>1. SweepInv(bids, asks, s) /\ Buyers(s) /\ sweep[n + 1] = SweepStep(s)
    BY <1>0, <1>1, <1>3
  <2> HIDE DEF s
  <2>2. CASE PairTrades(s.bids, s.asks)
    <3>1. sweep[n + 1] = TradeBests(s)
      BY <2>1, <2>2 DEF SweepStep
    <3>2. s.bids # <<>> /\ s.asks # <<>>
      BY <2>2 DEF PairTrades, BestsCross
    <3>3. SweepInv(bids, asks, TradeBests(s))
      BY <2>1, <3>2, TradeKeeps
    <3>4. Head(s.bids).owner \in Owners(bids)
      <4>1. Owners(s.bids) \subseteq Owners(bids) /\ s.bids \in Side
        BY <2>1, LeftOfOwners DEF SweepInv
      <4>2. Head(s.bids) = s.bids[1] /\ 1 \in 1..Len(s.bids)
        BY <3>2, <4>1, SideFacts
      <4> QED
        BY <4>1, <4>2 DEF Owners
    <3>5. PICK p : TradeBests(s).pairs = Append(s.pairs, p) /\ p.buyer = Head(s.bids).owner
      BY DEF TradeBests
    <3>6. s.pairs \in Seq(CrossedPair) /\ Len(s.pairs) \in Nat
      BY <2>1 DEF SweepInv
    <3>7. Buyers(TradeBests(s))
      <4> SUFFICES ASSUME NEW i \in 1..Len(TradeBests(s).pairs)
                   PROVE  TradeBests(s).pairs[i].buyer \in Owners(bids)
        OBVIOUS
      <4>1. i = Len(s.pairs) + 1 \/ i \in 1..Len(s.pairs)
        BY <3>5, <3>6
      <4>2. CASE i = Len(s.pairs) + 1
        BY <3>4, <3>5, <3>6, <4>2
      <4>3. CASE i \in 1..Len(s.pairs)
        <5>1. TradeBests(s).pairs[i] = s.pairs[i]
          BY <3>5, <3>6, <4>3
        <5> QED
          BY <2>1, <4>3, <5>1
      <4> QED
        BY <4>1, <4>2, <4>3
    <3> HIDE DEF Buyers
    <3> QED
      BY <3>1, <3>3, <3>7
  <2>3. CASE ~PairTrades(s.bids, s.asks)
    <3>1. sweep[n + 1] = s
      BY <2>1, <2>3 DEF SweepStep
    <3> QED
      BY <2>1, <3>1
  <2> QED
    BY <2>2, <2>3
<1> HIDE DEF T
<1>4. MAX_PAIRS \in T
  BY <1>0, <1>2, <1>3, NatInductionSet
<1> QED
  BY <1>0, <1>1, <1>4 DEF T

(* An order of somebody else's leaves the trader's YES and brings no order of *)
(* the trader's, unless it meets one.                                         *)
Bystander(v) == v \in Users /\ v \notin Owners(bids) /\ v \notin Owners(asks)

Untouched(v) == yes'[v] = yes[v] /\ v \notin Owners(bids') /\ v \notin Owners(asks')

(* What the invariant of the book says of its sides and holdings.             *)
LEMMA SidesAre ==
  ASSUME BookInv
  PROVE  /\ bids \in Side /\ asks \in Side /\ nextSeq \in Nat
         /\ bids \in Seq(Order) /\ asks \in Seq(Order)
         /\ Sorted(Falling, bids, nextSeq) /\ Sorted(Rising, asks, nextSeq)
         /\ yes \in [Users -> Nat] /\ usdc \in [Users -> Nat]
         /\ usdcEscrow \in Nat /\ yesEscrow \in Nat
  BY SideFacts DEF BookInv, BookTypes, SidesSorted, Sorted

(* A bid of somebody else leaves a bystander as he is. *)
LEMMA PlaceBidBystander ==
  ASSUME BookInv, NEW u \in Users, NEW price \in Nat, NEW size \in Nat,
         NEW isMarket \in BOOLEAN, PlaceBid(u, price, size, isMarket),
         NEW v, Bystander(v), v # u
  PROVE  Untouched(v)
<1> DEFINE plan == plan_fills("bid", asks, price, size, isMarket)
           e == Rested(u, price, plan.left)
<1>1. /\ yes' = [yes EXCEPT ![u] = @ + TotalSize(plan.fills)]
      /\ asks' = plan.makers
      /\ bids' = insert_sorted_bid(bids, e) \/ bids' = bids
  BY DEF PlaceBid
<1>2. plan.makers \in Side /\ LeftOf(plan.makers, asks) /\ plan.left \in Nat
  BY SidesAre, PlanKeeps DEF WalkInv
<1> HIDE DEF plan
<1>3. v \notin Owners(asks')
  BY <1>1, <1>2, SidesAre, LeftOfOwners DEF Bystander
<1>4. v \notin Owners(insert_sorted_bid(bids, e))
  <2>1. e \in Order /\ e.owner = u
    BY <1>2, SidesAre DEF Rested, Order
  <2> HIDE DEF e
  <2>2. PICK k \in 0..Len(bids) : Inserted(insert_sorted_bid(bids, e), bids, e, k)
    BY <2>1, SidesAre, InsertBid
  <2>3. Owners(insert_sorted_bid(bids, e)) \subseteq Owners(bids) \cup {u}
    BY <2>1, <2>2, SidesAre, InsertedOwners
  <2> QED
    BY <2>3 DEF Bystander
<1>5. yes'[v] = yes[v]
  BY <1>1, SidesAre DEF Bystander
<1> QED
  BY <1>1, <1>3, <1>4, <1>5 DEF Untouched, Bystander

(* An ask of somebody else leaves a bystander as he is. *)
LEMMA PlaceAskBystander ==
  ASSUME BookInv, NEW u \in Users, NEW price \in Nat, NEW size \in Nat,
         NEW isMarket \in BOOLEAN, PlaceAsk(u, price, size, isMarket),
         NEW v, Bystander(v), v # u
  PROVE  Untouched(v)
<1> DEFINE plan == plan_fills("ask", bids, price, size, isMarket)
           e == Rested(u, price, plan.left)
<1>1. /\ yes' = [x \in Users |-> yes[x] + DeliveredTo(x, plan.fills)
                  - (IF x = u THEN TotalSize(plan.fills)
                                     + (IF isMarket THEN 0 ELSE plan.left) ELSE 0)]
      /\ bids' = plan.makers
      /\ asks' = insert_sorted_ask(asks, e) \/ asks' = asks
  BY DEF PlaceAsk
<1>2. plan.makers \in Side /\ LeftOf(plan.makers, bids) /\ plan.left \in Nat
  BY SidesAre, PlanKeeps DEF WalkInv
<1>3. DeliveredTo(v, plan.fills) = 0
  BY SidesAre, NoneDelivered DEF Bystander
<1> HIDE DEF plan
<1>4. v \notin Owners(bids')
  BY <1>1, <1>2, SidesAre, LeftOfOwners DEF Bystander
<1>5. v \notin Owners(insert_sorted_ask(asks, e))
  <2>1. e \in Order /\ e.owner = u
    BY <1>2, SidesAre DEF Rested, Order
  <2> HIDE DEF e
  <2>2. PICK k \in 0..Len(asks) : Inserted(insert_sorted_ask(asks, e), asks, e, k)
    BY <2>1, SidesAre, InsertAsk
  <2>3. Owners(insert_sorted_ask(asks, e)) \subseteq Owners(asks) \cup {u}
    BY <2>1, <2>2, SidesAre, InsertedOwners
  <2> QED
    BY <2>3 DEF Bystander
<1>6. yes'[v] = yes[v]
  <2>1. v \in Users /\ yes[v] \in Nat
    BY SidesAre DEF Bystander
  <2>2. yes'[v] = yes[v] + 0 - 0
    BY <1>1, <1>3, <2>1
  <2> QED
    BY <2>1, <2>2
<1> QED
  BY <1>1, <1>4, <1>5, <1>6 DEF Untouched, Bystander

(* So does a cancellation. *)
LEMMA CancelBystander ==
  ASSUME BookInv, NEW u \in Users, NEW seq, CancelBid(u, seq) \/ CancelAsk(u, seq),
         NEW v, Bystander(v), v # u
  PROVE  Untouched(v)
<1>1. ASSUME NEW s \in Seq(Order), NEW i \in 1..Len(s)
      PROVE  Owners(remove_order(s, i)) \subseteq Owners(s)
  <2> DEFINE r == remove_order(s, i)
  <2>1. Inserted(s, r, s[i], i - 1) /\ r \in Seq(Order)
    BY RemoveInserts
  <2>2. i - 1 \in 0..Len(r)
    BY <2>1 DEF Inserted, TakenOut
  <2> HIDE DEF r
  <2>3. Owners(r) \subseteq Owners(s)
    BY <2>1, <2>2, InsertedOwners
  <2> QED
    BY <2>3 DEF r
<1>2. CASE CancelBid(u, seq)
  <2>1. PICK i \in find_order_index(bids, seq) :
          bids' = remove_order(bids, i) /\ asks' = asks /\ yes' = yes
    BY <1>2 DEF CancelBid
  <2>2. i \in 1..Len(bids)
    BY DEF find_order_index
  <2> QED
    BY <1>1, <2>1, <2>2, SidesAre DEF Untouched, Bystander
<1>3. CASE CancelAsk(u, seq)
  <2>1. PICK i \in find_order_index(asks, seq) :
          /\ asks' = remove_order(asks, i) /\ bids' = bids
          /\ yes' = [yes EXCEPT ![u] = @ + asks[i].size]
    BY <1>3 DEF CancelAsk
  <2>2. i \in 1..Len(asks)
    BY DEF find_order_index
  <2>3. yes'[v] = yes[v]
    BY <2>1, SidesAre DEF Bystander
  <2> QED
    BY <1>1, <2>1, <2>2, <2>3, SidesAre DEF Untouched, Bystander
<1> QED
  BY <1>2, <1>3

(* The crank pairs only owners of resting orders. *)
LEMMA MatchBystander ==
  ASSUME BookInv, MatchOrders, NEW v, Bystander(v)
  PROVE  Untouched(v)
<1> DEFINE plan == CrankPlan
           got == [i \in DOMAIN plan.pairs |->
                     IF plan.pairs[i].buyer = v THEN plan.pairs[i].size ELSE 0]
<1>1. /\ bids' = plan.bids /\ asks' = plan.asks
      /\ yes' = [x \in Users |-> yes[x] + SumFunction([i \in DOMAIN plan.pairs |->
                     IF plan.pairs[i].buyer = x THEN plan.pairs[i].size ELSE 0])]
  BY DEF MatchOrders
<1>2. SweepInv(bids, asks, plan) /\ bids \in Side /\ asks \in Side
  BY SidesAre, CrankKeeps
<1>3. \A i \in 1..Len(plan.pairs) : plan.pairs[i].buyer \in Owners(bids)
  BY <1>2, CrankBuyers
<1> HIDE DEF plan
<1>4. DOMAIN plan.pairs = 1..Len(plan.pairs) /\ Len(plan.pairs) \in Nat
  BY <1>2 DEF SweepInv
<1>5. got = [i \in DOMAIN plan.pairs |-> 0]
  BY <1>3, <1>4 DEF Bystander
<1>6. SumFunction(got) = 0
  <2>1. IsFiniteSet(DOMAIN plan.pairs)
    BY <1>4, FS_Interval
  <2>2. SumFunction(got) = SumFunctionOnSet([i \in DOMAIN plan.pairs |-> 0], DOMAIN plan.pairs)
    BY <1>5 DEF SumFunction
  <2> QED
    BY <2>1, <2>2, SumZero
<1>7. yes'[v] = yes[v]
  <2>1. v \in Users /\ yes[v] \in Nat
    BY SidesAre DEF Bystander
  <2>2. yes'[v] = yes[v] + SumFunction(got)
    BY <1>1, <2>1
  <2> QED
    BY <1>6, <2>1, <2>2
<1>8. v \notin Owners(bids') /\ v \notin Owners(asks')
  <2>1. Owners(plan.bids) \subseteq Owners(bids) /\ Owners(plan.asks) \subseteq Owners(asks)
    BY <1>2, LeftOfOwners DEF SweepInv
  <2> QED
    BY <1>1, <2>1 DEF Bystander
<1> QED
  BY <1>7, <1>8 DEF Untouched

--------------------------------------------------------------------------------
(* The page and its transactions *)

(* What the page may hold: for each query nothing, or an answer. *)
PageTypes ==
  [market : {None} \cup [settled : BOOLEAN, bound : BOOLEAN],
   config : {None} \cup [paused : BOOLEAN],
   book   : {None} \cup [uninitialized : BOOLEAN, bids : Side, asks : Side],
   yes    : {None} \cup [amount : Nat],
   no     : {None} \cup [amount : Nat],
   cash   : {None} \cup [amount : Nat]]

(* A transaction: an order of some size, planned on the side it has seen.     *)
IsTx(tx) ==
  /\ tx.amount \in Nat /\ tx.price \in Nat /\ tx.isMarket \in BOOLEAN
  /\ tx.planned = planFills(tx.side, tx.seen, tx.price, tx.amount, tx.isMarket)

(* The invariant of the page and the chain together. *)
ClientInv ==
  /\ BookInv
  /\ no \in Nat
  /\ page \in PageTypes
  /\ \A tx \in signing \cup flying : IsTx(tx)

(* The constants of the page, as the proofs use them. *)
LEMMA ClientConstants ==
  /\ trader \in Users /\ Prices \subseteq Nat /\ Sizes \subseteq Nat
  /\ TOKEN_SCALE \in Nat \ {0} /\ Contracts \subseteq Nat
  BY TradeClientAssumption, ConstantFacts DEF TradeClientAssumption

(* The whole part of a division. *)
LEMMA FloorFacts ==
  ASSUME NEW x \in Nat, NEW s \in Nat \ {0}
  PROVE  x \div s \in Nat /\ s * (x \div s) <= x /\ x < s * (x \div s) + s
<1>1. x = s * (x \div s) + (x % s) /\ x % s \in 0..s - 1 /\ x \div s \in Int
  OBVIOUS
<1>2. x \div s >= 0
  OBVIOUS
<1> QED
  BY <1>1, <1>2

(* Who has no more whole contracts has less than one contract more. *)
LEMMA FloorLess ==
  ASSUME NEW x \in Nat, NEW y \in Nat, NEW s \in Nat \ {0}, x \div s <= y \div s
  PROVE  x < y + s
<1>1. PICK p \in Nat : p = x \div s
  BY FloorFacts
<1>2. PICK q \in Nat : q = y \div s
  BY FloorFacts
<1>3. x < s * p + s /\ s * q <= y
  BY <1>1, <1>2, FloorFacts
<1>4. p <= q
  BY <1>1, <1>2
<1>5. s * p <= s * q
  BY <1>4
<1>6. s * p \in Nat /\ s * q \in Nat
  OBVIOUS
<1> QED
  BY <1>3, <1>5, <1>6

(* Contracts are a number of base units. *)
LEMMA BaseUnitsAre ==
  ASSUME NEW contracts \in Nat
  PROVE  baseUnits(contracts) \in Nat
BY ClientConstants DEF baseUnits

(* Every builder makes a transaction. *)
LEMMA TxIs ==
  ASSUME NEW kind, NEW side, NEW size \in Nat, NEW price \in Nat, NEW isMarket \in BOOLEAN,
         NEW tx, tx = Tx(kind, side, size, price, isMarket)
  PROVE  IsTx(tx) /\ tx.kind = kind
  BY DEF Tx, IsTx

(* What the page makes of the position it has read. *)
LEMMA PositionIs ==
  ASSUME page \in PageTypes
  PROVE  /\ matchedPairs \in Nat /\ directionalYes \in Nat /\ directionalNo \in Nat
<1>1. usePosition.yes \in Nat /\ usePosition.no \in Nat
  <2>1. balance("yes") \in Nat /\ balance("no") \in Nat
    <3>1. /\ page.yes = None \/ page.yes \in [amount : Nat]
          /\ page.no = None \/ page.no \in [amount : Nat]
      BY DEF PageTypes
    <3> QED
      BY <3>1 DEF balance, IsRead
  <2>2. balance("yes") \div TOKEN_SCALE \in Nat /\ balance("no") \div TOKEN_SCALE \in Nat
    BY <2>1, ClientConstants, FloorFacts
  <2> QED
    BY <2>2 DEF usePosition
<1> QED
  BY <1>1 DEF matchedPairs, directionalYes, directionalNo, Excess, Least

(* What handleSubmit builds, by the side and the outcome. *)
LEMMA BuiltIs ==
  ASSUME page \in PageTypes, NEW f \in Forms, NEW contracts \in Nat, NEW price \in Nat,
         NEW qty \in Nat, NEW tx \in Built(f, contracts, price, qty)
  PROVE  /\ IsTx(tx)
         /\ tx.kind \in {"buyYes", "mintPair"} => f.side = "buy" /\ f.outcome = "yes"
         /\ tx.kind = "buyNo" => f.side = "buy" /\ f.outcome = "no"
<1>1. /\ f.side \in {"buy", "sell"} /\ f.outcome \in {"yes", "no"} /\ f.limit \in BOOLEAN
      /\ directionalYes \in Nat /\ directionalNo \in Nat
  BY PositionIs DEF Forms
<1>2. PICK sizeBase \in Nat, qtyBase \in Nat, soldYes \in Nat, soldNo \in Nat :
        /\ sizeBase = baseUnits(contracts) /\ qtyBase = baseUnits(qty)
        /\ soldYes = baseUnits(Least(contracts, directionalYes))
        /\ soldNo = baseUnits(Least(contracts, directionalNo))
  <2>1. Least(contracts, directionalYes) \in Nat /\ Least(contracts, directionalNo) \in Nat
    BY <1>1 DEF Least
  <2> QED
    BY <2>1, BaseUnitsAre
<1>3. CASE f.side = "buy" /\ f.outcome = "yes"
  <2>1. CASE tx = Tx("buyYes", "bid", qtyBase, price, FALSE)
    <3>1. IsTx(tx) /\ tx.kind = "buyYes"
      BY <2>1 DEF Tx, IsTx
    <3> QED
      BY <1>3, <3>1
  <2>2. CASE tx = Tx("buyYes", "bid", sizeBase, 0, TRUE)
    <3>1. IsTx(tx) /\ tx.kind = "buyYes"
      BY <2>2 DEF Tx, IsTx
    <3> QED
      BY <1>3, <3>1
  <2>3. CASE tx = Tx("mintPair", "bid", sizeBase, 0, TRUE)
    <3>1. IsTx(tx) /\ tx.kind = "mintPair"
      BY <2>3 DEF Tx, IsTx
    <3> QED
      BY <1>3, <3>1
  <2> QED
    BY <1>1, <1>2, <1>3, <2>1, <2>2, <2>3 DEF Built, buildBuyYesTx, buildMintPairTx
<1>4. CASE f.side = "sell" /\ f.outcome = "yes"
  <2>1. CASE tx = Tx("sellYes", "ask", qtyBase, price, FALSE)
    <3>1. IsTx(tx) /\ tx.kind = "sellYes"
      BY <2>1 DEF Tx, IsTx
    <3> QED
      BY <3>1
  <2>2. CASE tx = Tx("sellYes", "ask", soldYes, 0, TRUE)
    <3>1. IsTx(tx) /\ tx.kind = "sellYes"
      BY <2>2 DEF Tx, IsTx
    <3> QED
      BY <3>1
  <2> QED
    BY <1>1, <1>2, <1>4, <2>1, <2>2 DEF Built, buildSellYesTx
<1>5. CASE f.side = "buy" /\ f.outcome = "no"
  <2>1. tx = Tx("buyNo", "ask", sizeBase, 0, TRUE)
    BY <1>1, <1>2, <1>5 DEF Built, buildBuyNoTx
  <2>2. IsTx(tx) /\ tx.kind = "buyNo"
    BY <2>1 DEF Tx, IsTx
  <2> QED
    BY <1>5, <2>2
<1>6. CASE f.side = "sell" /\ f.outcome = "no"
  <2>1. tx = Tx("sellNo", "bid", soldNo, 0, TRUE)
    BY <1>1, <1>2, <1>6 DEF Built, buildSellNoTx
  <2>2. IsTx(tx) /\ tx.kind = "sellNo"
    BY <2>1 DEF Tx, IsTx
  <2> QED
    BY <2>2
<1> QED
  BY <1>1, <1>3, <1>4, <1>5, <1>6

(* What the queries answer is what the page may hold. *)
LEMMA ReadKeepsTypes ==
  ASSUME ClientInv, NEW query \in DOMAIN page, useAccountSubscription(query)
  PROVE  page' \in PageTypes
<1>1. page \in PageTypes /\ BookInv /\ no \in Nat
  BY DEF ClientInv
<1>2. /\ settled \in BOOLEAN /\ paused \in BOOLEAN
      /\ yes[trader] \in Nat /\ usdc[trader] \in Nat /\ bids \in Side /\ asks \in Side
  BY <1>1, SidesAre, ClientConstants DEF BookInv, BookTypes
<1>3. query \in {"market", "config", "book", "yes", "no", "cash"}
  BY <1>1 DEF PageTypes
<1>4. page' = [page EXCEPT ![query] = Answer(query)]
  BY DEF useAccountSubscription
<1>5. CASE query = "market"
  <2>1. Answer(query) \in [settled : BOOLEAN, bound : BOOLEAN]
    BY <1>2, <1>5 DEF Answer, useAllMarkets
  <2> HIDE DEF Answer
  <2> QED
    BY <1>1, <1>4, <1>5, <2>1 DEF PageTypes
<1>6. CASE query = "config"
  <2>1. Answer(query) \in [paused : BOOLEAN]
    BY <1>2, <1>6 DEF Answer, useMarketConfig
  <2> QED
    BY <1>1, <1>4, <1>6, <2>1 DEF PageTypes
<1>7. CASE query = "book"
  <2>1. Answer(query) \in [uninitialized : BOOLEAN, bids : Side, asks : Side]
    BY <1>2, <1>7 DEF Answer, useOrderBook
  <2> QED
    BY <1>1, <1>4, <1>7, <2>1 DEF PageTypes
<1>8. CASE query \in {"yes", "no", "cash"}
  <2>1. Answer(query) \in [amount : Nat]
    BY <1>1, <1>2, <1>8 DEF Answer, useTokenBalance
  <2> HIDE DEF Answer
  <2> QED
    BY <1>1, <1>4, <1>8, <2>1 DEF PageTypes
<1> QED
  BY <1>3, <1>5, <1>6, <1>7, <1>8

(* A pair minted or redeemed leaves the book alone. *)
LEMMA LandPairInv ==
  ASSUME BookInv, no \in Nat, NEW tx, IsTx(tx), LandPair(tx)
  PROVE  BookInv' /\ no' \in Nat
<1> DEFINE a == tx.amount
<1>1. /\ a \in Nat /\ trader \in Users
      /\ usdc \in [Users -> Nat] /\ yes \in [Users -> Nat]
  BY SidesAre, ClientConstants DEF IsTx
<1>2. UNCHANGED <<bookVars, escrowVars, gateVars, strayVars>>
  BY DEF LandPair
<1>3. /\ usdc' \in [Users -> Nat] /\ yes' \in [Users -> Nat] /\ no' \in Nat
  <2> HIDE DEF a
  <2>1. CASE /\ a <= usdc[trader]
             /\ usdc' = [usdc EXCEPT ![trader] = @ - a]
             /\ yes' = [yes EXCEPT ![trader] = @ + a]
             /\ no' = no + a
    <3>1. usdc[trader] - a \in Nat /\ yes[trader] + a \in Nat /\ no + a \in Nat
      BY <1>1, <2>1
    <3> QED
      BY <1>1, <2>1, <3>1
  <2>2. CASE /\ a <= yes[trader] /\ a <= no
             /\ usdc' = [usdc EXCEPT ![trader] = @ + a]
             /\ yes' = [yes EXCEPT ![trader] = @ - a]
             /\ no' = no - a
    <3>1. usdc[trader] + a \in Nat /\ yes[trader] - a \in Nat /\ no - a \in Nat
      BY <1>1, <2>2
    <3> QED
      BY <1>1, <2>2, <3>1
  <2> QED
    BY <2>1, <2>2 DEF LandPair, a
<1>4. BookTypes' /\ EscrowsWeighed' /\ SidesSorted'
  <2>1. BookTypes /\ EscrowsWeighed /\ SidesSorted
    BY DEF BookInv
  <2> QED
    BY <1>2, <1>3, <2>1
    DEF BookTypes, EscrowsWeighed, SidesSorted, bookVars, escrowVars, gateVars, strayVars
<1>5. (stage # "wired" => bids = <<>> /\ asks = <<>>)'
  BY <1>2 DEF BookInv, bookVars
<1> QED
  BY <1>3, <1>4, <1>5 DEF BookInv

(* A YES order that lands is an order of the trader's. *)
LEMMA LandYesInv ==
  ASSUME BookInv, no \in Nat, NEW tx, IsTx(tx), LandYes(tx)
  PROVE  BookInv' /\ no' \in Nat
<1>1. /\ tx.price \in Nat /\ tx.amount \in Nat /\ tx.isMarket \in BOOLEAN /\ trader \in Users
  BY ClientConstants DEF IsTx
<1>2. /\ no' = no
      /\ \/ PlaceBid(trader, tx.price, tx.amount, tx.isMarket)
         \/ PlaceAsk(trader, tx.price, tx.amount, tx.isMarket)
  BY DEF LandYes
<1> QED
  BY <1>1, <1>2, PlaceBidInv, PlaceAskInv

(* Buy NO: what the bids paid leaves the escrow with their fills. *)
LEMMA LandBuyNoInv ==
  ASSUME BookInv, no \in Nat, NEW tx, IsTx(tx), LandBuyNo(tx)
  PROVE  BookInv' /\ no' \in Nat
<1> DEFINE a == tx.amount
           plan == plan_fills("ask", bids, 0, a, TRUE)
           sold == TotalSize(plan.fills)
           earned == TotalUsdc(plan.fills)
<1>1. /\ stage = "wired" /\ a <= usdc[trader] /\ earned <= usdcEscrow
      /\ usdc' = [usdc EXCEPT ![trader] = @ - a + earned]
      /\ yes' = [v \in Users |-> yes[v] + DeliveredTo(v, plan.fills)
                                   + (IF v = trader THEN a - sold ELSE 0)]
      /\ usdcEscrow' = usdcEscrow - earned
      /\ bids' = plan.makers
      /\ no' = no + a
      /\ UNCHANGED <<stage, asks, nextSeq, yesEscrow, gateVars, strayVars>>
  BY DEF LandBuyNo, TradingOpen
<1>2. a \in Nat /\ trader \in Users
  BY ClientConstants DEF IsTx
<1>3. /\ BookTypes /\ EscrowsWeighed /\ SidesSorted
  BY DEF BookInv
<1>4. /\ Sorted(Falling, plan.makers, nextSeq) /\ Seqs(plan.makers) \subseteq Seqs(bids)
      /\ plan.left \in Nat /\ plan.fills \in Seq(PlannedFill)
      /\ Weigh(bids, CostOf) = Weigh(plan.makers, CostOf) + earned
      /\ plan.left + sold = a
  <2>1. Planned(Falling, bids, nextSeq, "ask", 0, a, TRUE)
    BY <1>2, SidesAre, PlanFacts
  <2> QED
    BY <2>1 DEF Planned
<1> HIDE DEF plan, a
<1>5. /\ sold \in Nat /\ earned \in Nat
      /\ \A v \in Users : DeliveredTo(v, plan.fills) \in Nat
  <2>1. plan.fills \in Seq(PlannedFill)
    BY <1>4
  <2> QED
    BY <2>1, FillTotals
<1>6. Weigh(plan.makers, CostOf) \in Nat
  BY <1>4, SideFacts DEF Sorted
<1> HIDE DEF sold, earned
<1>7. BookTypes'
  <2>0. /\ usdcEscrow \in Nat /\ yes \in [Users -> Nat] /\ usdc \in [Users -> Nat]
        /\ usdcEscrow' = usdcEscrow - earned /\ earned <= usdcEscrow /\ a <= usdc[trader]
    BY <1>1, SidesAre
  <2>1. usdcEscrow' \in Nat
    BY <1>5, <2>0
  <2>2. usdc' \in [Users -> Nat]
    <3>1. usdc[trader] - a + earned \in Nat
      BY <1>2, <1>5, <2>0
    <3>2. usdc' = [usdc EXCEPT ![trader] = @ - a + earned]
      BY <1>1
    <3> QED
      BY <2>0, <3>1, <3>2
  <2>3. yes' \in [Users -> Nat]
    <3>1. ASSUME NEW v \in Users
          PROVE  yes[v] + DeliveredTo(v, plan.fills) + (IF v = trader THEN a - sold ELSE 0)
                   \in Nat
      <4>1. yes[v] \in Nat /\ DeliveredTo(v, plan.fills) \in Nat /\ a - sold \in Nat
        BY <1>2, <1>4, <1>5, <2>0
      <4> QED
        BY <4>1
    <3> QED
      BY <1>1, <3>1
  <2> QED
    BY <1>1, <1>3, <2>1, <2>2, <2>3 DEF BookTypes, gateVars, strayVars
<1>8. SidesSorted'
  <2>1. Seqs(plan.makers) \cap Seqs(asks) = {}
    BY <1>3, <1>4 DEF SidesSorted
  <2> QED
    BY <1>1, <1>3, <1>4, <2>1 DEF SidesSorted
<1>9. EscrowsWeighed'
  <2>1. usdcEscrow' = Weigh(bids', CostOf) + strayUsdc'
    <3>1. usdcEscrow = Weigh(bids, CostOf) + strayUsdc /\ strayUsdc \in Nat
      BY <1>3 DEF EscrowsWeighed, BookTypes
    <3>2. usdcEscrow' = usdcEscrow - earned /\ bids' = plan.makers /\ strayUsdc' = strayUsdc
      BY <1>1 DEF strayVars
    <3>3. Weigh(bids, CostOf) = Weigh(plan.makers, CostOf) + earned
      BY <1>4
    <3> QED
      BY <1>5, <1>6, <3>1, <3>2, <3>3
  <2> QED
    BY <1>1, <1>3, <2>1 DEF EscrowsWeighed, strayVars
<1>10. no' \in Nat
  BY <1>1, <1>2
<1> QED
  BY <1>1, <1>7, <1>8, <1>9, <1>10 DEF BookInv

(* Sell NO: the YES bought leaves the escrow with the fills, and is burned.   *)
LEMMA LandSellNoInv ==
  ASSUME BookInv, no \in Nat, NEW tx, IsTx(tx), LandSellNo(tx)
  PROVE  BookInv' /\ no' \in Nat
<1> DEFINE a == tx.amount
           plan == plan_fills("bid", asks, 0, a, TRUE)
           bought == TotalSize(plan.fills)
           spent == TotalUsdc(plan.fills)
           deposit == escrow_in_usdc(0, a, TRUE)
<1>1. /\ stage = "wired" /\ deposit <= usdc[trader] /\ spent <= deposit
      /\ bought <= yesEscrow /\ a <= yes[trader] + bought /\ a <= no
      /\ usdc' = [v \in Users |-> usdc[v] + PaidTo(v, plan.fills)
                                    + (IF v = trader THEN a - spent ELSE 0)]
      /\ yes' = [yes EXCEPT ![trader] = @ + bought - a]
      /\ yesEscrow' = yesEscrow - bought
      /\ asks' = plan.makers
      /\ no' = no - a
      /\ UNCHANGED <<stage, bids, nextSeq, usdcEscrow, gateVars, strayVars>>
  BY DEF LandSellNo, TradingOpen
<1>2. a \in Nat /\ trader \in Users
  BY ClientConstants DEF IsTx
<1>3. BookTypes /\ EscrowsWeighed /\ SidesSorted
  BY DEF BookInv
<1>4. /\ Sorted(Rising, plan.makers, nextSeq) /\ Seqs(plan.makers) \subseteq Seqs(asks)
      /\ plan.left \in Nat /\ plan.fills \in Seq(PlannedFill)
      /\ Weigh(asks, SizeOf) = Weigh(plan.makers, SizeOf) + bought
  <2>1. Planned(Rising, asks, nextSeq, "bid", 0, a, TRUE)
    BY <1>2, SidesAre, PlanFacts
  <2> QED
    BY <2>1 DEF Planned
<1> HIDE DEF plan
<1>5. /\ bought \in Nat /\ spent \in Nat
      /\ \A v \in Users : PaidTo(v, plan.fills) \in Nat
  <2>1. plan.fills \in Seq(PlannedFill)
    BY <1>4
  <2> QED
    BY <2>1, FillTotals
<1>6. Weigh(plan.makers, SizeOf) \in Nat
  BY <1>4, SideFacts DEF Sorted
<1>7. deposit \in Nat
  BY <1>2, ConstantFacts DEF escrow_in_usdc
<1> HIDE DEF bought, spent, deposit, a
<1>8. BookTypes'
  <2>0. /\ yesEscrow \in Nat /\ yes \in [Users -> Nat] /\ usdc \in [Users -> Nat]
        /\ yesEscrow' = yesEscrow - bought /\ bought <= yesEscrow
        /\ a <= yes[trader] + bought
    BY <1>1, SidesAre
  <2>1. yesEscrow' \in Nat
    BY <1>5, <2>0
  <2>2. yes' \in [Users -> Nat]
    <3>1. yes[trader] + bought - a \in Nat
      BY <1>2, <1>5, <2>0
    <3>2. yes' = [yes EXCEPT ![trader] = @ + bought - a]
      BY <1>1
    <3> QED
      BY <2>0, <3>1, <3>2
  <2>3. usdc' \in [Users -> Nat]
    <3>1. ASSUME NEW v \in Users
          PROVE  usdc[v] + PaidTo(v, plan.fills) + (IF v = trader THEN a - spent ELSE 0)
                   \in Nat
      <4>1. usdc[v] \in Nat /\ PaidTo(v, plan.fills) \in Nat /\ usdc[trader] \in Nat
        BY <1>2, <1>5, <2>0
      <4>2. spent <= usdc[trader]
        BY <1>1, <1>5, <1>7, <4>1
      <4>3. CASE v = trader
        BY <1>2, <1>5, <4>1, <4>2, <4>3
      <4>4. CASE v # trader
        BY <4>1, <4>4
      <4> QED
        BY <4>3, <4>4
    <3> QED
      BY <1>1, <3>1
  <2> QED
    BY <1>1, <1>3, <2>1, <2>2, <2>3 DEF BookTypes, gateVars, strayVars
<1>9. SidesSorted'
  <2>1. Seqs(bids) \cap Seqs(plan.makers) = {}
    BY <1>3, <1>4 DEF SidesSorted
  <2> QED
    BY <1>1, <1>3, <1>4, <2>1 DEF SidesSorted
<1>10. EscrowsWeighed'
  <2>1. yesEscrow' = Weigh(asks', SizeOf) + strayYes'
    <3>1. yesEscrow = Weigh(asks, SizeOf) + strayYes /\ strayYes \in Nat
      BY <1>3 DEF EscrowsWeighed, BookTypes
    <3>2. yesEscrow' = yesEscrow - bought /\ asks' = plan.makers /\ strayYes' = strayYes
      BY <1>1 DEF strayVars
    <3>3. Weigh(asks, SizeOf) = Weigh(plan.makers, SizeOf) + bought
      BY <1>4
    <3> QED
      BY <1>5, <1>6, <3>1, <3>2, <3>3
  <2> QED
    BY <1>1, <1>3, <2>1 DEF EscrowsWeighed, strayVars
<1>11. no' \in Nat
  BY <1>1, <1>2
<1> QED
  BY <1>1, <1>8, <1>9, <1>10, <1>11 DEF BookInv

--------------------------------------------------------------------------------
(* The invariant of the page and the chain *)

(* What somebody else does on chain is a step of the book. *)
LEMMA OthersStep ==
  ASSUME Others
  PROVE  [Next]_vars /\ UNCHANGED <<no, clientVars, historyVars>>
<1>1. UNCHANGED <<no, clientVars, historyVars>>
  BY DEF Others
<1>2. CASE \E u \in Users \ {trader} :
             \/ \E price \in Prices, size \in Sizes :
                  PlaceBid(u, price, size, FALSE) \/ PlaceAsk(u, price, size, FALSE)
             \/ \E seq \in 0..nextSeq : CancelBid(u, seq) \/ CancelAsk(u, seq)
  <2>1. PICK u \in Users \ {trader} :
          \/ \E price \in Prices, size \in Sizes :
               PlaceBid(u, price, size, FALSE) \/ PlaceAsk(u, price, size, FALSE)
          \/ \E seq \in 0..nextSeq : CancelBid(u, seq) \/ CancelAsk(u, seq)
    BY <1>2
  <2>2. FALSE \in BOOLEAN
    OBVIOUS
  <2>3. TraderStep(u)
    BY <2>1, <2>2 DEF TraderStep
  <2> QED
    BY <1>1, <2>3 DEF Next
<1>3. CASE InitOrderBook \/ GrowOrderBook \/ MatchOrders \/ Settle
  BY <1>1, <1>3 DEF Next
<1>4. CASE Pause(TRUE)
  BY <1>1, <1>4 DEF Next
<1> QED
  BY <1>1, <1>2, <1>3, <1>4 DEF Others

(* The transactions in front of the wallet and in flight after a step of the  *)
(* page that brings none in.                                                  *)
LEMMA QuietPageStep ==
  ASSUME ClientInv, UNCHANGED <<vars, no>>, page' \in PageTypes,
         signing' \cup flying' \subseteq signing \cup flying
  PROVE  ClientInv'
<1>1. BookInv'
  BY GateStepInv DEF ClientInv
<1> QED
  BY <1>1 DEF ClientInv

(* Every step of the page and of the book keeps the invariant. *)
LEMMA ClientStep ==
  ASSUME ClientInv, [ClientNext]_tradeVars
  PROVE  ClientInv'
<1>0. BookInv /\ no \in Nat /\ page \in PageTypes /\ \A tx \in signing \cup flying : IsTx(tx)
  BY DEF ClientInv
<1>1. CASE \E query \in DOMAIN page : Read(query)
  <2>1. PICK query \in DOMAIN page :
          /\ useAccountSubscription(query)
          /\ UNCHANGED <<vars, no>> /\ signing' = signing /\ flying' = flying
    BY <1>1 DEF Read
  <2> QED
    BY <2>1, ReadKeepsTypes, QuietPageStep
<1>2. CASE Reload
  <2>1. /\ page' = Unread /\ signing' = {} /\ flying' = flying /\ UNCHANGED <<vars, no>>
    BY <1>2 DEF Reload
  <2>2. page' \in PageTypes
    BY <2>1 DEF Unread, PageTypes
  <2> QED
    BY <2>1, <2>2, QuietPageStep
<1>3. CASE \/ \E f \in Forms, contracts \in Contracts, price \in Prices, qty \in Contracts :
                handleSubmit(f, contracts, price, qty)
           \/ handleRedeemPair
  <2>1. PICK tx : IsTx(tx) /\ Submit(tx)
    <3>1. CASE \E f \in Forms, contracts \in Contracts, price \in Prices, qty \in Contracts :
                 handleSubmit(f, contracts, price, qty)
      <4>1. PICK f \in Forms, contracts \in Contracts, price \in Prices, qty \in Contracts :
                   handleSubmit(f, contracts, price, qty)
        BY <3>1
      <4>2. contracts \in Nat /\ price \in Nat /\ qty \in Nat
        BY ClientConstants
      <4>3. PICK tx \in Built(f, contracts, price, qty) : Submit(tx)
        BY <4>1 DEF handleSubmit
      <4> QED
        BY <1>0, <4>2, <4>3, BuiltIs
    <3>2. CASE handleRedeemPair
      <4>1. IsTx(buildRedeemPairTx(baseUnits(matchedPairs)))
        <5>1. PICK pairs \in Nat : pairs = baseUnits(matchedPairs)
          BY <1>0, PositionIs, BaseUnitsAre
        <5> QED
          BY <5>1 DEF buildRedeemPairTx, Tx, IsTx
      <4> QED
        BY <3>2, <4>1 DEF handleRedeemPair
    <3> QED
      BY <1>3, <3>1, <3>2
  <2>2. /\ signing' = signing \cup {tx} /\ flying' = flying /\ page' = page
        /\ UNCHANGED <<vars, no>>
    BY <2>1 DEF Submit
  <2>3. BookInv' /\ no' = no
    BY <1>0, <2>2, GateStepInv
  <2> QED
    BY <1>0, <2>1, <2>2, <2>3 DEF ClientInv
<1>4. CASE \E tx \in signing : broadcast(tx) \/ broadcastFails(tx)
  <2>1. /\ signing' \cup flying' \subseteq signing \cup flying
        /\ page' = page /\ UNCHANGED <<vars, no>>
    BY <1>4 DEF broadcast, broadcastFails
  <2> QED
    BY <1>0, <2>1, QuietPageStep
<1>5. CASE \E tx \in flying : Land(tx)
  <2>1. PICK tx \in flying : LandOnChain(tx) /\ flying' = flying \ {tx}
                            /\ UNCHANGED <<page, signing>>
    BY <1>5 DEF Land
  <2>2. IsTx(tx)
    BY <1>0
  <2>3. BookInv' /\ no' \in Nat
    BY <1>0, <2>1, <2>2, LandPairInv, LandYesInv, LandBuyNoInv, LandSellNoInv
    DEF LandOnChain
  <2> QED
    BY <1>0, <2>1, <2>3 DEF ClientInv
<1>6. CASE \E tx \in flying : Lost(tx)
  <2>1. /\ signing' \cup flying' \subseteq signing \cup flying
        /\ page' = page /\ UNCHANGED <<vars, no>>
    BY <1>6 DEF Lost
  <2> QED
    BY <1>0, <2>1, QuietPageStep
<1>7. CASE Others
  <2>1. [Next]_vars /\ no' = no /\ page' = page /\ signing' = signing /\ flying' = flying
    BY <1>7, OthersStep DEF clientVars
  <2>2. BookInv'
    BY <1>0, <2>1, StepInv
  <2> QED
    BY <1>0, <2>1, <2>2 DEF ClientInv
<1>8. CASE UNCHANGED tradeVars
  <2>1. /\ UNCHANGED <<vars, no>> /\ page' = page /\ signing' = signing /\ flying' = flying
    BY <1>8 DEF tradeVars, clientVars
  <2> QED
    BY <1>0, <2>1, QuietPageStep
<1>9. CASE Revisit
  <2>1. /\ signing' \cup flying' \subseteq signing \cup flying
        /\ page' = page /\ UNCHANGED <<vars, no>>
    BY <1>9 DEF Revisit
  <2> QED
    BY <1>0, <2>1, QuietPageStep
<1> QED
  BY <1>1, <1>2, <1>3, <1>4, <1>5, <1>6, <1>7, <1>8, <1>9 DEF ClientNext

(* A page that has read nothing, over an empty book. *)
LEMMA ClientInitInv ==
  ASSUME ClientInit
  PROVE  ClientInv
<1>1. Init /\ no = 0 /\ page = Unread /\ signing = {} /\ flying = {}
  BY DEF ClientInit
<1>2. page \in PageTypes
  BY <1>1 DEF Unread, PageTypes
<1> QED
  BY <1>1, <1>2, InitInv DEF ClientInv

(* The book under the transactions the page builds: the two atomic NO trades  *)
(* and the pairs included, the sides stay sorted and the escrows exact.       *)
THEOREM ClientInvariant == ClientSpec => []ClientInv
<1>1. ClientInit => ClientInv
  BY ClientInitInv
<1>2. ClientInv /\ [ClientNext]_tradeVars => ClientInv'
  BY ClientStep
<1> QED
  BY <1>1, <1>2, PTL DEF ClientSpec

(* As long as the side a transaction was planned on has not moved, the plan   *)
(* of lib/solana/order-book.ts is the one matching.rs will make, for any      *)
(* number of makers, prices, sizes and any MAX_FILLS.                         *)
THEOREM PlanIsTheMatchCorrect == ClientSpec => []PlanIsTheMatch
<1>1. ASSUME ClientInv PROVE PlanIsTheMatch
  <2> SUFFICES ASSUME NEW tx \in flying,
                      tx.seen = IF tx.side = "bid" THEN asks ELSE bids
               PROVE  LET fills == plan_fills(tx.side, tx.seen, tx.price, tx.amount,
                                              tx.isMarket).fills
                      IN /\ DOMAIN tx.planned = DOMAIN fills
                         /\ \A i \in DOMAIN fills :
                              /\ tx.planned[i].maker = fills[i].maker
                              /\ tx.planned[i].size = fills[i].size
    BY DEF PlanIsTheMatch
  <2>1. /\ tx.planned = planFills(tx.side, tx.seen, tx.price, tx.amount, tx.isMarket)
        /\ tx.amount \in Nat
    BY <1>1 DEF ClientInv, IsTx
  <2>2. tx.seen \in Side
    BY <1>1, SidesAre DEF ClientInv
  <2>3. SamePlan(tx.side, tx.seen, tx.price, tx.amount, tx.isMarket)
    BY <2>1, <2>2, PlansAgree
  <2> QED
    BY <2>1, <2>3 DEF SamePlan
<1>2. ClientInv => PlanIsTheMatch
  BY <1>1
<1> QED
  BY <1>2, ClientInvariant, PTL

--------------------------------------------------------------------------------
(* The careful trader *)

(* As long as every submission was made on the whole truth, at most one       *)
(* transaction is under way, and while it is none of the trader's orders      *)
(* rests and it does not oppose the position.                                 *)
Careful ==
  /\ ~opposed
  /\ signing = {} \/ flying = {}
  /\ \A s, t \in signing \cup flying : s = t
  /\ \A tx \in signing \cup flying : ~Opposes(tx) /\ Bystander(trader)

CarefulInv == ~hasty => Careful

(* A submission on the whole truth does not oppose the position.              *)
LEMMA TruthDoesNotOppose ==
  ASSUME ClientInv, WholeTruth, NEW f \in Forms, ~disableReason(f),
         NEW contracts \in Nat, NEW price \in Nat, NEW qty \in Nat,
         NEW tx \in Built(f, contracts, price, qty)
  PROVE  ~Opposes(tx)
<1>1. page \in PageTypes /\ no \in Nat /\ yes[trader] \in Nat
  BY SidesAre, ClientConstants DEF ClientInv
<1>2. /\ tx.kind \in {"buyYes", "mintPair"} => f.side = "buy" /\ f.outcome = "yes"
      /\ tx.kind = "buyNo" => f.side = "buy" /\ f.outcome = "no"
  BY <1>1, BuiltIs
<1>3. balance("yes") = yes[trader] /\ balance("no") = no
  <2>1. page.yes = [amount |-> yes[trader]] /\ page.no = [amount |-> no]
    BY DEF WholeTruth, Answer, useTokenBalance
  <2>2. \A n : [amount |-> n] # None
    <3>1. \A n : DOMAIN [amount |-> n] = {"amount"}
      OBVIOUS
    <3>2. DOMAIN None = {"unread"} /\ "unread" \notin {"amount"}
      BY DEF None
    <3> QED
      BY <3>1, <3>2
  <2> QED
    BY <2>1, <2>2 DEF balance, IsRead
<1>4. PICK y \in Nat, n \in Nat : y = yes[trader] \div TOKEN_SCALE /\ n = no \div TOKEN_SCALE
  BY <1>1, ClientConstants, FloorFacts
<1>9. directionalYes = Excess(y, n) /\ directionalNo = Excess(n, y)
  BY <1>3, <1>4 DEF directionalYes, directionalNo, usePosition
<1>5. f.side = "buy" /\ f.outcome = "yes" => ~(directionalNo > 0)
  BY DEF disableReason
<1>6. f.side = "buy" /\ f.outcome = "no" => ~(directionalYes > 0)
  BY DEF disableReason
<1>7. f.side = "buy" /\ f.outcome = "yes" => ~(no >= yes[trader] + TOKEN_SCALE)
  <2> SUFFICES ASSUME f.side = "buy", f.outcome = "yes" PROVE ~(no >= yes[trader] + TOKEN_SCALE)
    OBVIOUS
  <2>1. n <= y
    BY <1>5, <1>9 DEF Excess
  <2>2. no < yes[trader] + TOKEN_SCALE
    BY <1>1, <1>4, <2>1, ClientConstants, FloorLess
  <2> QED
    BY <1>1, <2>2, ClientConstants
<1>8. f.side = "buy" /\ f.outcome = "no" => ~(yes[trader] >= no + TOKEN_SCALE)
  <2> SUFFICES ASSUME f.side = "buy", f.outcome = "no" PROVE ~(yes[trader] >= no + TOKEN_SCALE)
    OBVIOUS
  <2>1. y <= n
    BY <1>6, <1>9 DEF Excess
  <2>2. yes[trader] < no + TOKEN_SCALE
    BY <1>1, <1>4, <2>1, ClientConstants, FloorLess
  <2> QED
    BY <1>1, <2>2, ClientConstants
<1> QED
  BY <1>2, <1>7, <1>8 DEF Opposes

(* After a submission on the whole truth it is the only one under way.        *)
LEMMA SubmitCareful ==
  ASSUME CarefulInv, NEW tx, WholeTruth => ~Opposes(tx), Submit(tx), BookInv
  PROVE  CarefulInv'
<1> SUFFICES ASSUME ~hasty' PROVE Careful'
  BY DEF CarefulInv
<1>1. ~hasty /\ WholeTruth
  BY DEF Submit
<1>2. /\ signing' = {tx} /\ flying' = {}
  BY <1>1 DEF Submit, WholeTruth
<1>3. ~opposed' /\ Opposes(tx)' = Opposes(tx)
  BY <1>1 DEF Submit, CarefulInv, Careful, Opposes, vars, walletVars
<1>4. Bystander(trader)'
  <2>1. trader \notin Owners(bids) /\ trader \notin Owners(asks)
    BY <1>1, SidesAre DEF WholeTruth, Owners
  <2>2. bids' = bids /\ asks' = asks
    BY DEF Submit, vars, bookVars
  <2> QED
    BY <2>1, <2>2, ClientConstants DEF Bystander, Owners
<1> QED
  BY <1>1, <1>2, <1>3, <1>4 DEF Careful

(* Somebody else's step leaves the trader's tokens alone while none of the    *)
(* trader's orders rests.                                                     *)
LEMMA OthersBystander ==
  ASSUME BookInv, Others, Bystander(trader)
  PROVE  Untouched(trader)
<1>1. ASSUME NEW u \in Users \ {trader},
             \/ \E price \in Prices, size \in Sizes :
                  PlaceBid(u, price, size, FALSE) \/ PlaceAsk(u, price, size, FALSE)
             \/ \E seq \in 0..nextSeq : CancelBid(u, seq) \/ CancelAsk(u, seq)
      PROVE  Untouched(trader)
  <2>1. CASE \E price \in Prices, size \in Sizes :
               PlaceBid(u, price, size, FALSE) \/ PlaceAsk(u, price, size, FALSE)
    <3>1. PICK price \in Nat, size \in Nat :
            PlaceBid(u, price, size, FALSE) \/ PlaceAsk(u, price, size, FALSE)
      BY <2>1, ClientConstants
    <3> QED
      BY <3>1, PlaceBidBystander, PlaceAskBystander
  <2>2. CASE \E seq \in 0..nextSeq : CancelBid(u, seq) \/ CancelAsk(u, seq)
    BY <2>2, CancelBystander
  <2> QED
    BY <1>1, <2>1, <2>2
<1>2. CASE MatchOrders
  BY <1>2, MatchBystander
<1>3. CASE InitOrderBook \/ GrowOrderBook \/ Pause(TRUE) \/ Settle
  <2>1. yes' = yes /\ bids' \in {bids, <<>>} /\ asks' \in {asks, <<>>}
    BY <1>3 DEF InitOrderBook, GrowOrderBook, Pause, Settle, walletVars, bookVars
  <2>2. Owners(<<>>) = {}
    BY DEF Owners
  <2> QED
    BY <2>1, <2>2 DEF Untouched, Bystander
<1> QED
  BY <1>1, <1>2, <1>3 DEF Others

(* Steps that bring no transaction in and leave the trader's tokens and       *)
(* orders alone.                                                              *)
LEMMA CarefulStays ==
  ASSUME CarefulInv, hasty' = hasty, opposed' = opposed, no' = no,
         signing' \cup flying' \subseteq signing \cup flying,
         signing' = {} \/ flying' = {} \/ (signing' = signing /\ flying' = flying),
         Bystander(trader) => Untouched(trader)
  PROVE  CarefulInv'
<1> SUFFICES ASSUME ~hasty PROVE Careful'
  BY DEF CarefulInv
<1>1. Careful
  BY DEF CarefulInv
<1>2. ASSUME NEW tx \in signing' \cup flying'
      PROVE  ~Opposes(tx)' /\ Bystander(trader)'
  <2>1. ~Opposes(tx) /\ Bystander(trader)
    BY <1>1, <1>2 DEF Careful
  <2> QED
    BY <2>1 DEF Untouched, Bystander, Opposes
<1> QED
  BY <1>1, <1>2 DEF Careful

(* Every step keeps what a careful trader relies on. *)
LEMMA CarefulStep ==
  ASSUME ClientInv, CarefulInv, [ClientNext]_tradeVars
  PROVE  CarefulInv'
<1>0. BookInv /\ page \in PageTypes
  BY DEF ClientInv
<1>a. ASSUME UNCHANGED vars, Bystander(trader) PROVE Untouched(trader)
  BY <1>a DEF vars, walletVars, bookVars, Untouched, Bystander
<1>1. CASE \E query \in DOMAIN page : Read(query)
  <2>1. /\ UNCHANGED vars /\ no' = no /\ signing' = signing /\ flying' = flying
        /\ hasty' = hasty /\ opposed' = opposed
    BY <1>1 DEF Read, historyVars
  <2> QED
    BY <1>a, <2>1, CarefulStays
<1>2. CASE Reload
  <2>1. /\ UNCHANGED vars /\ no' = no /\ signing' = {} /\ flying' = flying
        /\ hasty' = hasty /\ opposed' = opposed
    BY <1>2 DEF Reload, historyVars
  <2> QED
    BY <1>a, <2>1, CarefulStays
<1>3. CASE \E f \in Forms, contracts \in Contracts, price \in Prices, qty \in Contracts :
             handleSubmit(f, contracts, price, qty)
  <2>1. PICK f \in Forms, contracts \in Nat, price \in Nat, qty \in Nat :
          handleSubmit(f, contracts, price, qty)
    BY <1>3, ClientConstants
  <2>2. PICK tx \in Built(f, contracts, price, qty) : ~disableReason(f) /\ Submit(tx)
    BY <2>1 DEF handleSubmit
  <2>3. WholeTruth => ~Opposes(tx)
    BY <2>2, TruthDoesNotOppose
  <2> QED
    BY <1>0, <2>2, <2>3, SubmitCareful
<1>4. CASE handleRedeemPair
  <2> DEFINE tx == buildRedeemPairTx(baseUnits(matchedPairs))
  <2>1. Submit(tx)
    BY <1>4 DEF handleRedeemPair
  <2>2. ~Opposes(tx)
    BY DEF buildRedeemPairTx, Tx, Opposes
  <2> QED
    BY <1>0, <2>1, <2>2, SubmitCareful
<1>5. CASE \E tx \in signing : broadcast(tx) \/ broadcastFails(tx)
  <2>1. PICK tx \in signing : broadcast(tx) \/ broadcastFails(tx)
    BY <1>5
  <2>2. /\ UNCHANGED vars /\ no' = no /\ hasty' = hasty /\ opposed' = opposed
        /\ signing' = signing \ {tx}
        /\ signing' \cup flying' \subseteq signing \cup flying
    BY <2>1 DEF broadcast, broadcastFails, historyVars
  <2>3. CASE hasty
    BY <2>2, <2>3 DEF CarefulInv
  <2>4. CASE ~hasty
    <3>1. signing' = {}
      BY <2>1, <2>2, <2>4 DEF CarefulInv, Careful
    <3> QED
      BY <1>a, <2>2, <3>1, CarefulStays
  <2> QED
    BY <2>3, <2>4
<1>6. CASE \E tx \in flying : Land(tx)
  <2>1. PICK tx \in flying : /\ flying' = flying \ {tx}
                            /\ opposed' = (opposed \/ Opposes(tx))
                            /\ signing' = signing /\ hasty' = hasty
    BY <1>6 DEF Land
  <2> SUFFICES ASSUME ~hasty PROVE Careful'
    BY <2>1 DEF CarefulInv
  <2>2. Careful
    BY DEF CarefulInv
  <2>3. signing' = {} /\ flying' = {}
    BY <2>1, <2>2 DEF Careful
  <2>4. ~opposed'
    BY <2>1, <2>2 DEF Careful
  <2> QED
    BY <2>3, <2>4 DEF Careful
<1>7. CASE \E tx \in flying : Lost(tx)
  <2>1. PICK tx \in flying : Lost(tx)
    BY <1>7
  <2>2. /\ UNCHANGED vars /\ no' = no /\ hasty' = hasty /\ opposed' = opposed
        /\ signing' = signing /\ flying' = flying \ {tx}
    BY <2>1 DEF Lost, historyVars
  <2>3. CASE hasty
    BY <2>2, <2>3 DEF CarefulInv
  <2>4. CASE ~hasty
    <3>1. flying' = {}
      BY <2>1, <2>2, <2>4 DEF CarefulInv, Careful
    <3> QED
      BY <1>a, <2>2, <3>1, CarefulStays
  <2> QED
    BY <2>3, <2>4
<1>8. CASE Others
  <2>1. /\ no' = no /\ hasty' = hasty /\ opposed' = opposed
        /\ signing' = signing /\ flying' = flying
    BY <1>8 DEF Others, clientVars, historyVars
  <2>2. Bystander(trader) => Untouched(trader)
    BY <1>0, <1>8, OthersBystander
  <2> QED
    BY <2>1, <2>2, CarefulStays
<1>9. CASE UNCHANGED tradeVars
  <2>1. /\ UNCHANGED vars /\ no' = no /\ signing' = signing /\ flying' = flying
        /\ hasty' = hasty /\ opposed' = opposed
    BY <1>9 DEF tradeVars, clientVars, historyVars
  <2> QED
    BY <1>a, <2>1, CarefulStays
<1>10. CASE Revisit
  <2>1. /\ UNCHANGED vars /\ no' = no /\ signing' = {} /\ flying' = flying \cup signing
        /\ hasty' = hasty /\ opposed' = opposed
    BY <1>10 DEF Revisit, historyVars
  <2> QED
    BY <1>a, <2>1, CarefulStays
<1> QED
  BY <1>1, <1>2, <1>3, <1>4, <1>5, <1>6, <1>7, <1>8, <1>9, <1>10 DEF ClientNext

(* A trader who submits only on balances just read, with no transaction under *)
(* way and no order resting, never buys against a whole contract of the other *)
(* side, whatever the others do before the transaction lands; for any number  *)
(* of base units to the contract.                                             *)
THEOREM CarefulTraderOneSidedCorrect == ClientSpec => []CarefulTraderOneSided
<1>1. ClientInit => CarefulInv
  BY DEF ClientInit, CarefulInv, Careful
<1>2. ClientInv /\ CarefulInv /\ [ClientNext]_tradeVars => CarefulInv'
  BY CarefulStep
<1>3. CarefulInv => CarefulTraderOneSided
  BY DEF CarefulInv, Careful, CarefulTraderOneSided
<1> QED
  BY <1>1, <1>2, <1>3, ClientInvariant, PTL DEF ClientSpec
================================================================================
