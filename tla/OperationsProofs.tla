---------------------------- MODULE OperationsProofs ---------------------------
(******************************************************************************)
(* Theorems about Operations, for any mints, prices, hours, rungs and number  *)
(* of runs, in every interleaving of the scripts: a run that nothing moves    *)
(* beside is never refused while it creates a market and its book, whatever   *)
(* stopped runs left behind; and a run that reports no error leaves the       *)
(* ladder of orders, if nobody else traded on the market.                     *)
(******************************************************************************)
EXTENDS Operations, SumTheorems

(* What a field of an account holds; the fields no property is about may hold *)
(* anything.                                                                  *)
IsMarket(m) ==
  m \in [mint : {m.mint}, book : {m.book}, pairs : Int, usdcEscrow : Int, yesEscrow : Int,
         bids : [Prices -> Int], asks : [Prices -> Int]]

IsRun(r) ==
  r \in [script : {r.script}, mint : {r.mint}, expiry : Int, at : {r.at},
         todo : {r.todo}, seen : BOOLEAN, ladder : Nat, paired : BOOLEAN, clean : BOOLEAN]

TypeOK ==
  /\ now \in Nat
  /\ run \in Seq({run[i] : i \in DOMAIN run})
  /\ \A i \in DOMAIN run : IsRun(run[i])
  /\ markets \in [DOMAIN markets -> {markets[k] : k \in DOMAIN markets}]
  /\ \A k \in DOMAIN markets : IsMarket(markets[k])
  /\ seedings \in [DOMAIN markets -> Nat]
  /\ steady \subseteq DOMAIN run

Seeder(i) == run[i].script = "seed-demo-liquidity"

--------------------------------------------------------------------------------
(* Creating the market and its book *)

Created == {"lookBook", "init", "grow", "topUp", "mint", "bids", "asks", "report"}

(* What a run knows of the market at hand: an account it has seen or made is  *)
(* there for good, and one it did not see is missing while nothing moves.     *)
Finding(i) ==
  Seeder(i) =>
    /\ run[i].at \in Created => HasMarket(key(i))
    /\ run[i].at = "create" /\ run[i].seen => HasMarket(key(i))
    /\ run[i].at = "create" /\ ~run[i].seen /\ i \in steady => ~HasMarket(key(i))
    /\ run[i].at = "init" /\ run[i].seen => markets[key(i)].book # "none"
    /\ run[i].at = "init" /\ ~run[i].seen /\ i \in steady => markets[key(i)].book = "none"
    /\ run[i].at = "grow" => markets[key(i)].book # "none"

--------------------------------------------------------------------------------
(* The ladder *)

(* The first n rungs of a ladder, and what their bids cost. *)
Rungs(ladder, n) == {ladder[j] : j \in 1..n}

Cost(n) == SumFunction(SubSeq(ORDER_LADDER_BIDS, 1, n))

Orders(ladder, n) == [p \in Prices |-> IF p \in Rungs(ladder, n) THEN 1 ELSE 0]

(* The market holds b bids and a asks of the ladder and so many pairs. *)
Holds(m, b, a, pairs) ==
  /\ m.bids = Orders(ORDER_LADDER_BIDS, b)
  /\ m.asks = Orders(ORDER_LADDER_ASKS, a)
  /\ m.usdcEscrow = Cost(b)
  /\ m.yesEscrow = a
  /\ m.pairs = pairs

(* What a run without an error has placed when it gets to a step. *)
Laid(m, r) ==
  /\ r.at = "mint"   => Holds(m, 0, 0, 0)
  /\ r.at = "bids"   => Holds(m, r.ladder - 1, 0, MINT_PAIR_LOTS)
  /\ r.at = "asks"   => Holds(m, Len(ORDER_LADDER_BIDS), r.ladder - 1, MINT_PAIR_LOTS)
  /\ r.at = "report" => Holds(m, Len(ORDER_LADDER_BIDS), Len(ORDER_LADDER_ASKS), MINT_PAIR_LOTS)

Rung(r) ==
  /\ r.at \in {"begin", "look", "create", "lookBook", "init", "grow", "topUp", "mint"} =>
       r.ladder = 1 /\ r.clean
  /\ r.at = "bids" => r.ladder \in 1..Len(ORDER_LADDER_BIDS)
  /\ r.at = "asks" => r.ladder \in 1..Len(ORDER_LADDER_ASKS)

Placing(i) == Seeder(i) /\ run[i].at \in {"mint", "bids", "asks", "report"}

Laying(i) ==
  /\ Seeder(i) => Rung(run[i])
  /\ Placing(i) =>
       /\ seedings[key(i)] >= 1
       /\ run[i].clean /\ run[i].at # "mint" => run[i].paired
       /\ run[i].clean /\ seedings[key(i)] = 1 => Laid(markets[key(i)], run[i])

(* A market that nobody has begun to seed is empty, and two runs that place   *)
(* orders on one market are both counted.                                     *)
Untouched == \A k \in DOMAIN markets : seedings[k] = 0 => Holds(markets[k], 0, 0, 0)

Counted ==
  \A i, j \in DOMAIN run :
    i # j /\ Placing(i) /\ Placing(j) /\ key(i) = key(j) => seedings[key(i)] >= 2

OpsInv ==
  /\ TypeOK
  /\ \A i \in DOMAIN run : Finding(i) /\ Laying(i)
  /\ Untouched
  /\ Counted

--------------------------------------------------------------------------------
(* Steps of runs *)

(* Run i moves, and the others stay where they are. *)
Moves(i) ==
  /\ i \in DOMAIN run
  /\ DOMAIN run' = DOMAIN run
  /\ \A j \in DOMAIN run : j # i => run'[j] = run[j]
  /\ run' \in Seq({run'[j] : j \in DOMAIN run'})

(* Functions on 1..n are sequences, of any larger set too. *)
LEMMA MakesSeq ==
  ASSUME NEW n \in Nat, NEW T, NEW s \in [1..n -> T]
  PROVE  s \in Seq(T)
  BY SeqDef

LEMMA SeqOfMore ==
  ASSUME NEW S, NEW T, S \subseteq T, NEW s \in Seq(S)
  PROVE  s \in Seq(T)
  BY SeqMonotonic, Zenon

(* A sequence of runs, one replaced. *)
LEMMA RunReplaced ==
  ASSUME TypeOK, NEW i \in DOMAIN run, NEW r, run' = [run EXCEPT ![i] = r]
  PROVE  Moves(i) /\ run'[i] = r
<1> DEFINE S == {run[j] : j \in DOMAIN run}
           T == {run'[j] : j \in DOMAIN run'}
<1>1. run \in Seq(S)
  BY DEF TypeOK
<1>2. PICK n \in Nat : run \in [1..n -> S]
  BY <1>1
<1>3. run' \in [1..n -> T] /\ DOMAIN run' = DOMAIN run
  BY <1>2
<1> HIDE DEF T
<1>4. run' \in Seq(T)
  BY <1>3, MakesSeq
<1> HIDE DEF S
<1>5. run'[i] = r /\ \A j \in DOMAIN run : j # i => run'[j] = run[j]
  BY <1>2
<1> QED
  BY <1>3, <1>4, <1>5 DEF Moves, T

(* The record of a run still names the same market and mint. *)
Kept(q, r) ==
  /\ IsRun(q)
  /\ q.script = r.script /\ q.mint = r.mint /\ q.expiry = r.expiry /\ q.todo = r.todo

(* What the steps of a script do to its record. *)
LEMMA AtChanged ==
  ASSUME NEW r, IsRun(r), NEW step, NEW q, q = [r EXCEPT !.at = step]
  PROVE  /\ Kept(q, r) /\ q.at = step
         /\ q.seen = r.seen /\ q.ladder = r.ladder /\ q.paired = r.paired /\ q.clean = r.clean
  BY DEF IsRun, Kept

(* A run that goes to another rung. *)
LEMMA LadderChanged ==
  ASSUME NEW r, IsRun(r), NEW n \in Nat, NEW q, q = [r EXCEPT !.ladder = n]
  PROVE  /\ Kept(q, r) /\ q.ladder = n
         /\ q.at = r.at /\ q.seen = r.seen /\ q.paired = r.paired /\ q.clean = r.clean
  BY DEF IsRun, Kept

(* A run that learns whether it was answered. *)
LEMMA CleanChanged ==
  ASSUME NEW r, IsRun(r), NEW b \in BOOLEAN, NEW q, q = [r EXCEPT !.clean = @ /\ b]
  PROVE  /\ Kept(q, r) /\ q.clean = (r.clean /\ b)
         /\ q.at = r.at /\ q.seen = r.seen /\ q.paired = r.paired /\ q.ladder = r.ladder
<1>1. (r.clean /\ b) \in BOOLEAN
  OBVIOUS
<1> QED
  BY <1>1 DEF IsRun, Kept

(* A run that begins with its next strike. *)
LEMMA AllChanged ==
  ASSUME NEW r, IsRun(r), NEW todo, NEW step, NEW q,
         q = [r EXCEPT !.todo = todo, !.at = step, !.seen = FALSE, !.ladder = 1,
                       !.paired = FALSE, !.clean = TRUE]
  PROVE  IsRun(q) /\ q.script = r.script /\ q.at = step /\ q.ladder = 1 /\ q.clean = TRUE
  BY DEF IsRun

(* next, with its two choices named. *)
LEMMA NextIs ==
  ASSUME NEW i
  PROVE  \E todo, step :
           /\ run[i].script # "morning" => step \in {"done", "look"}
           /\ next(i) = [run[i] EXCEPT !.todo = todo, !.at = step, !.seen = FALSE, !.ladder = 1,
                                       !.paired = FALSE, !.clean = TRUE]
  BY DEF next

(* What a run is after next: at the first rung, with every reply so far.      *)
LEMMA NextChanged ==
  ASSUME NEW i, IsRun(run[i])
  PROVE  /\ IsRun(next(i))
         /\ next(i).script = run[i].script /\ next(i).ladder = 1 /\ next(i).clean = TRUE
         /\ run[i].script # "morning" => next(i).at \in {"done", "look"}
<1>1. PICK todo, step :
           /\ run[i].script # "morning" => step \in {"done", "look"}
           /\ next(i) = [run[i] EXCEPT !.todo = todo, !.at = step, !.seen = FALSE, !.ladder = 1,
                                       !.paired = FALSE, !.clean = TRUE]
  BY NextIs
<1>2. ASSUME NEW r, IsRun(r), NEW q,
             q = [r EXCEPT !.todo = todo, !.at = step, !.seen = FALSE, !.ladder = 1,
                           !.paired = FALSE, !.clean = TRUE]
      PROVE  IsRun(q) /\ q.script = r.script /\ q.at = step /\ q.ladder = 1 /\ q.clean = TRUE
  <2> QED
    BY <1>2 DEF IsRun
<1>3. IsRun(next(i)) /\ next(i).script = run[i].script /\ next(i).at = step
      /\ next(i).ladder = 1 /\ next(i).clean = TRUE
  BY <1>1, <1>2, Zenon
<1> QED
  BY <1>1, <1>3

--------------------------------------------------------------------------------
(* Steps of markets *)

MarketsOK ==
  /\ markets \in [DOMAIN markets -> {markets[k] : k \in DOMAIN markets}]
  /\ \A k \in DOMAIN markets : IsMarket(markets[k])
  /\ seedings \in [DOMAIN markets -> Nat]

SameHoldings(n, m) ==
  /\ n.bids = m.bids /\ n.asks = m.asks
  /\ n.usdcEscrow = m.usdcEscrow /\ n.yesEscrow = m.yesEscrow /\ n.pairs = m.pairs

(* A step of run i removes no market and no book; it changes what a market    *)
(* holds only if the run places orders there or has just been counted.        *)
Grown(i) ==
  /\ DOMAIN markets \subseteq DOMAIN markets'
  /\ \A k \in DOMAIN markets :
       /\ markets[k].book # "none" => markets'[k].book # "none"
       /\ seedings'[k] >= seedings[k]
       /\ \/ SameHoldings(markets'[k], markets[k])
          \/ Placing(i) /\ k = key(i)
          \/ seedings'[k] > seedings[k]
  /\ \A k \in DOMAIN markets' \ DOMAIN markets : seedings'[k] = 0 /\ Holds(markets'[k], 0, 0, 0)

(* A run begins to place orders when it is counted. *)
Entered(i) ==
  Placing(i)' => /\ key(i)' = key(i) /\ HasMarket(key(i))
                 /\ Placing(i) \/ seedings'[key(i)] > seedings[key(i)]

(* What a step of run i must show. *)
StepOf(i) ==
  /\ Moves(i) /\ IsRun(run'[i])
  /\ MarketsOK' /\ Grown(i)
  /\ steady' \subseteq {i}
  /\ Entered(i)
  /\ Finding(i)' /\ Laying(i)'

(* A run that does not move still knows what it knew. *)
LEMMA OthersFind ==
  ASSUME OpsInv, NEW i, StepOf(i), NEW j \in DOMAIN run, j # i
  PROVE  Finding(j)'
<1>1. run'[j] = run[j] /\ j \notin steady' /\ Finding(j)
  BY DEF StepOf, Moves, OpsInv
<1>2. Seeder(j)' = Seeder(j) /\ key(j)' = key(j)
  BY <1>1 DEF Seeder, key
<1>3. /\ HasMarket(key(j)) => HasMarket(key(j))'
      /\ HasMarket(key(j)) /\ markets[key(j)].book # "none" => markets'[key(j)].book # "none"
  BY <1>2 DEF StepOf, Grown, HasMarket
<1> QED
  BY <1>1, <1>2, <1>3 DEF Finding, Created

(* Its orders stay as they are, unless the market is counted twice. *)
LEMMA OthersLay ==
  ASSUME OpsInv, NEW i, StepOf(i), NEW j \in DOMAIN run, j # i
  PROVE  Laying(j)'
<1>1. run'[j] = run[j] /\ Finding(j) /\ Laying(j) /\ i \in DOMAIN run
  BY DEF StepOf, Moves, OpsInv
<1>2. Seeder(j)' = Seeder(j) /\ key(j)' = key(j) /\ Placing(j)' = Placing(j)
  BY <1>1 DEF Seeder, key, Placing
<1>3. Seeder(j) => Rung(run[j])
  BY <1>1 DEF Laying
<1> SUFFICES ASSUME Placing(j)
             PROVE  /\ seedings'[key(j)] >= 1
                    /\ run[j].clean /\ run[j].at # "mint" => run[j].paired
                    /\ run[j].clean /\ seedings'[key(j)] = 1 => Laid(markets'[key(j)], run[j])
  BY <1>1, <1>2, <1>3 DEF Laying
<1> DEFINE k == key(j)
<1>4. /\ seedings[k] >= 1
      /\ run[j].clean /\ run[j].at # "mint" => run[j].paired
      /\ run[j].clean /\ seedings[k] = 1 => Laid(markets[k], run[j])
  BY <1>1 DEF Laying
<1>5. k \in DOMAIN markets
  BY <1>1 DEF Finding, Placing, Created, HasMarket
<1>6. seedings[k] \in Nat /\ seedings'[k] \in Nat /\ seedings'[k] >= seedings[k]
  <2>1. k \in DOMAIN markets'
    BY <1>5 DEF StepOf, Grown
  <2> QED
    BY <1>5, <2>1 DEF StepOf, Grown, MarketsOK, OpsInv, TypeOK
<1>7. \/ SameHoldings(markets'[k], markets[k])
      \/ Placing(i) /\ k = key(i)
      \/ seedings'[k] > seedings[k]
  BY <1>5 DEF StepOf, Grown
<1>8. Placing(i) /\ k = key(i) => seedings[k] >= 2
  BY <1>1 DEF OpsInv, Counted
<1> HIDE DEF k
<1>9. seedings'[k] >= 1 /\ (seedings'[k] = 1 => seedings[k] = 1 /\ SameHoldings(markets'[k], markets[k]))
  BY <1>4, <1>6, <1>7, <1>8
<1>10. ASSUME SameHoldings(markets'[k], markets[k]), Laid(markets[k], run[j])
       PROVE  Laid(markets'[k], run[j])
  BY <1>10 DEF SameHoldings, Laid, Holds
<1> QED
  BY <1>4, <1>9, <1>10 DEF k

(* A market that nobody has begun to seed is still empty. *)
LEMMA UntouchedStays ==
  ASSUME OpsInv, NEW i, StepOf(i)
  PROVE  Untouched'
<1> SUFFICES ASSUME NEW k \in DOMAIN markets', seedings'[k] = 0
             PROVE  Holds(markets'[k], 0, 0, 0)
  BY DEF Untouched
<1>1. CASE k \notin DOMAIN markets
  BY <1>1 DEF StepOf, Grown
<1>2. CASE k \in DOMAIN markets
  <2>1. /\ seedings[k] \in Nat /\ seedings'[k] >= seedings[k]
        /\ \/ SameHoldings(markets'[k], markets[k])
           \/ Placing(i) /\ k = key(i)
           \/ seedings'[k] > seedings[k]
    BY <1>2 DEF StepOf, Grown, OpsInv, TypeOK
  <2>2. Placing(i) /\ k = key(i) => seedings[k] >= 1
    BY DEF StepOf, Moves, OpsInv, Laying
  <2>3. seedings[k] = 0 /\ SameHoldings(markets'[k], markets[k])
    BY <2>1, <2>2
  <2>4. Holds(markets[k], 0, 0, 0)
    BY <1>2, <2>3 DEF OpsInv, Untouched
  <2> QED
    BY <2>3, <2>4 DEF SameHoldings, Holds
<1> QED
  BY <1>1, <1>2

(* Two runs that place orders on one market are both counted. *)
LEMMA CountedStays ==
  ASSUME OpsInv, NEW i, StepOf(i)
  PROVE  Counted'
<1>1. ASSUME NEW j \in DOMAIN run, j # i, Placing(j)', Placing(i)', key(j)' = key(i)'
      PROVE  seedings'[key(i)'] >= 2
  <2>1. run'[j] = run[j] /\ i \in DOMAIN run
    BY <1>1 DEF StepOf, Moves
  <2>2. Placing(j) /\ key(j)' = key(j)
    BY <1>1, <2>1 DEF Placing, Seeder, key
  <2>3. /\ key(i)' = key(i) /\ HasMarket(key(i))
        /\ Placing(i) \/ seedings'[key(i)] > seedings[key(i)]
    BY <1>1 DEF StepOf, Entered
  <2> DEFINE k == key(i)
  <2>4. k = key(j) /\ seedings[k] >= 1
    BY <1>1, <2>1, <2>2, <2>3 DEF OpsInv, Laying
  <2>5. Placing(i) => seedings[k] >= 2
    BY <1>1, <2>1, <2>2, <2>4 DEF OpsInv, Counted
  <2>6. seedings[k] \in Nat /\ seedings'[k] \in Nat /\ seedings'[k] >= seedings[k]
    <3>1. k \in DOMAIN markets /\ k \in DOMAIN markets'
      BY <2>3 DEF StepOf, Grown, HasMarket
    <3> QED
      BY <3>1 DEF StepOf, Grown, MarketsOK, OpsInv, TypeOK
  <2> HIDE DEF k
  <2>7. Placing(i) \/ seedings'[k] > seedings[k]
    BY <2>3 DEF k
  <2>8. seedings'[k] >= 2
    BY <2>4, <2>5, <2>6, <2>7
  <2> QED
    BY <2>3, <2>8 DEF k
<1> SUFFICES ASSUME NEW j \in DOMAIN run, NEW l \in DOMAIN run, j # l,
                    Placing(j)', Placing(l)', key(j)' = key(l)'
             PROVE  seedings'[key(j)'] >= 2
  BY DEF Counted, StepOf, Moves
<1>2. CASE j = i \/ l = i
  BY <1>1, <1>2
<1>3. CASE j # i /\ l # i
  <2>1. run'[j] = run[j] /\ run'[l] = run[l]
    BY <1>3 DEF StepOf, Moves
  <2>2. Placing(j) /\ Placing(l) /\ key(j) = key(l) /\ key(j)' = key(j)
    BY <2>1 DEF Placing, Seeder, key
  <2> DEFINE k == key(j)
  <2>3. seedings[k] >= 2
    BY <2>2 DEF OpsInv, Counted
  <2>4. seedings[k] \in Nat /\ seedings'[k] \in Nat /\ seedings'[k] >= seedings[k]
    <3>1. k \in DOMAIN markets /\ k \in DOMAIN markets'
      BY <2>2 DEF StepOf, Grown, HasMarket, OpsInv, Finding, Placing, Created
    <3> QED
      BY <3>1 DEF StepOf, Grown, MarketsOK, OpsInv, TypeOK
  <2> HIDE DEF k
  <2>5. seedings'[k] >= 2
    BY <2>3, <2>4
  <2> QED
    BY <2>2, <2>5 DEF k
<1> QED
  BY <1>2, <1>3

(* What the step of one run must show is enough. *)
LEMMA StepKeeps ==
  ASSUME OpsInv, NEW i, StepOf(i), UNCHANGED now
  PROVE  OpsInv'
<1>1. TypeOK'
  <2>1. \A j \in DOMAIN run' : IsRun(run'[j])
    BY DEF StepOf, Moves, OpsInv, TypeOK
  <2>2. now' \in Nat
    BY DEF OpsInv, TypeOK
  <2>3. steady' \subseteq DOMAIN run'
    BY DEF StepOf, Moves
  <2> QED
    BY <2>1, <2>2, <2>3 DEF StepOf, Moves, MarketsOK, TypeOK
<1>2. \A j \in DOMAIN run' : Finding(j)' /\ Laying(j)'
  BY OthersFind, OthersLay DEF StepOf, Moves
<1> QED
  BY <1>1, <1>2, UntouchedStays, CountedStays DEF OpsInv

--------------------------------------------------------------------------------
(* What each step does to the markets *)

(* A step that changes no market. *)
LEMMA MarketsLeftAlone ==
  ASSUME TypeOK, NEW i, UNCHANGED <<markets, seedings>>
  PROVE  MarketsOK' /\ Grown(i)
<1>1. \A k \in DOMAIN markets : seedings[k] \in Nat
  BY DEF TypeOK
<1>2. \A k \in DOMAIN markets : seedings[k] >= seedings[k]
  BY <1>1
<1> QED
  BY <1>2 DEF TypeOK, MarketsOK, Grown, SameHoldings

(* An account that is created is empty, and no account was there. *)
LEMMA MarketCreated ==
  ASSUME TypeOK, NEW i, NEW landed \in BOOLEAN, createsMarket(i, landed),
         landed => ~HasMarket(key(i))
  PROVE  /\ MarketsOK' /\ Grown(i)
         /\ landed => key(i) \in DOMAIN markets'
<1>1. CASE ~landed
  BY <1>1, MarketsLeftAlone DEF createsMarket
<1>2. CASE landed
  <2> DEFINE k == key(i)
             m == newMarket(run[i].mint)
  <2>1. /\ k \notin DOMAIN markets
        /\ DOMAIN markets' = DOMAIN markets \cup {k}
        /\ markets' \in [DOMAIN markets' -> {markets'[j] : j \in DOMAIN markets'}]
        /\ markets'[k] = m /\ \A j \in DOMAIN markets : markets'[j] = markets[j]
    BY <1>2 DEF createsMarket, HasMarket
  <2>2. /\ DOMAIN seedings' = DOMAIN markets \cup {k}
        /\ seedings' \in [DOMAIN markets \cup {k} -> Nat]
        /\ seedings'[k] = 0 /\ \A j \in DOMAIN markets : seedings'[j] = seedings[j]
    BY <1>2, <2>1 DEF createsMarket, TypeOK
  <2>3. IsMarket(m) /\ Holds(m, 0, 0, 0)
    <3>1. /\ m.bids = [p \in Prices |-> 0] /\ m.asks = [p \in Prices |-> 0]
          /\ m.usdcEscrow = 0 /\ m.yesEscrow = 0 /\ m.pairs = 0
          /\ IsMarket(m)
      BY DEF newMarket, IsMarket
    <3>2. \A ladder : Rungs(ladder, 0) = {}
      BY DEF Rungs
    <3>3. Cost(0) = 0
      <4>1. SubSeq(ORDER_LADDER_BIDS, 1, 0) = <<>>
        BY OperationsAssumption DEF OperationsAssumption
      <4> QED
        BY <4>1, SumNone DEF Cost
    <3> QED
      BY <3>1, <3>2, <3>3 DEF Holds, Orders
  <2> HIDE DEF k, m
  <2>4. MarketsOK'
    BY <2>1, <2>2, <2>3 DEF MarketsOK, TypeOK
  <2>5. \A j \in DOMAIN markets : seedings[j] \in Nat /\ seedings'[j] >= seedings[j]
    BY <2>2 DEF TypeOK
  <2>6. Grown(i)
    BY <2>1, <2>2, <2>3, <2>5 DEF Grown, SameHoldings
  <2> QED
    BY <2>1, <2>4, <2>6 DEF k
<1> QED
  BY <1>1, <1>2

(* A step that changes one market. *)
LEMMA MarketChanged ==
  ASSUME TypeOK, NEW i, NEW k \in DOMAIN markets, NEW m, IsMarket(m),
         markets' = [markets EXCEPT ![k] = m],
         markets[k].book # "none" => m.book # "none",
         \/ UNCHANGED seedings /\ (SameHoldings(m, markets[k]) \/ (Placing(i) /\ k = key(i)))
         \/ seedings' = [seedings EXCEPT ![k] = @ + 1]
  PROVE  MarketsOK' /\ Grown(i) /\ markets'[k] = m
<1>1. /\ DOMAIN markets' = DOMAIN markets
      /\ markets' \in [DOMAIN markets' -> {markets'[j] : j \in DOMAIN markets'}]
      /\ markets'[k] = m /\ \A j \in DOMAIN markets : j # k => markets'[j] = markets[j]
  BY DEF TypeOK
<1>2. /\ seedings' \in [DOMAIN markets -> Nat]
      /\ \A j \in DOMAIN markets : seedings'[j] >= seedings[j]
      /\ \/ SameHoldings(m, markets[k]) \/ (Placing(i) /\ k = key(i))
         \/ seedings'[k] > seedings[k]
  <2>1. seedings \in [DOMAIN markets -> Nat]
    BY DEF TypeOK
  <2>2. CASE UNCHANGED seedings /\ (SameHoldings(m, markets[k]) \/ (Placing(i) /\ k = key(i)))
    BY <2>1, <2>2
  <2>3. CASE seedings' = [seedings EXCEPT ![k] = @ + 1]
    <3>1. seedings' \in [DOMAIN markets -> Nat] /\ seedings'[k] = seedings[k] + 1
          /\ \A j \in DOMAIN markets : j # k => seedings'[j] = seedings[j]
      BY <2>1, <2>3
    <3>2. \A j \in DOMAIN markets : seedings[j] \in Nat
      BY <2>1
    <3> QED
      BY <3>1, <3>2
  <2> QED
    BY <2>2, <2>3
<1>3. MarketsOK'
  BY <1>1, <1>2 DEF MarketsOK, TypeOK
<1>4. Grown(i)
  BY <1>1, <1>2 DEF Grown, SameHoldings
<1> QED
  BY <1>1, <1>3, <1>4

--------------------------------------------------------------------------------
(* The steps of one run *)

(* A script that does not seed. *)
LEMMA OtherScript ==
  ASSUME OpsInv, NEW i \in DOMAIN run, ~Seeder(i), NEW q, IsRun(q), q.script = run[i].script,
         run' = [run EXCEPT ![i] = q], MarketsOK', Grown(i), steady' \subseteq {i}
  PROVE  StepOf(i)
<1>1. Moves(i) /\ run'[i] = q
  BY RunReplaced DEF OpsInv
<1>2. ~Seeder(i)'
  BY <1>1 DEF Seeder
<1> QED
  BY <1>1, <1>2 DEF StepOf, Entered, Placing, Finding, Laying

(* A run that seeds goes on to its next strike, or ends.                      *)
LEMMA Resting ==
  ASSUME OpsInv, NEW i \in DOMAIN run, NEW q, IsRun(q),
         q.at \in {"look", "done", "failed"},
         q.at = "look" => q.ladder = 1 /\ q.clean,
         run' = [run EXCEPT ![i] = q], MarketsOK', Grown(i), steady' \subseteq {i}
  PROVE  StepOf(i)
<1>1. Moves(i) /\ run'[i] = q
  BY RunReplaced DEF OpsInv
<1>2. ~Placing(i)'
  BY <1>1 DEF Placing
<1>3. Finding(i)'
  BY <1>1 DEF Finding, Created
<1>4. Laying(i)'
  BY <1>1, <1>2 DEF Laying, Rung
<1> QED
  BY <1>1, <1>2, <1>3, <1>4 DEF StepOf, Entered

(* A run that seeds stays with the market at hand, before it is counted.      *)
LEMMA Preparing ==
  ASSUME OpsInv, NEW i \in DOMAIN run, Seeder(i), NEW q, Kept(q, run[i]),
         q.at \in {"create", "lookBook", "init", "grow", "topUp"},
         q.ladder = 1, q.clean,
         run' = [run EXCEPT ![i] = q], MarketsOK', Grown(i), steady' \subseteq {i},
         q.at # "create" => key(i) \in DOMAIN markets',
         q.at = "create" => (q.seen <=> key(i) \in DOMAIN markets'),
         q.at = "init" => (q.seen <=> markets'[key(i)].book # "none"),
         q.at = "grow" => markets'[key(i)].book # "none"
  PROVE  StepOf(i)
<1>1. Moves(i) /\ run'[i] = q /\ IsRun(q)
  BY RunReplaced DEF OpsInv, Kept
<1>2. Seeder(i)' /\ key(i)' = key(i) /\ ~Placing(i)'
  BY <1>1 DEF Seeder, key, Kept, Placing
<1>3. q.seen \in BOOLEAN
  BY <1>1 DEF IsRun
<1>4. Finding(i)'
  BY <1>1, <1>2, <1>3 DEF Finding, Created, HasMarket
<1>5. Laying(i)'
  BY <1>1, <1>2 DEF Laying, Rung
<1> QED
  BY <1>1, <1>2, <1>4, <1>5 DEF StepOf, Entered

(* A run that places orders. *)
LEMMA Laddering ==
  ASSUME OpsInv, NEW i \in DOMAIN run, Seeder(i), NEW q, Kept(q, run[i]),
         q.at \in {"mint", "bids", "asks", "report"}, Rung(q),
         run' = [run EXCEPT ![i] = q], MarketsOK', Grown(i), steady' \subseteq {i},
         HasMarket(key(i)),
         Placing(i) \/ seedings'[key(i)] > seedings[key(i)],
         q.clean /\ q.at # "mint" => q.paired,
         q.clean /\ seedings'[key(i)] = 1 => Laid(markets'[key(i)], q)
  PROVE  StepOf(i)
<1>1. Moves(i) /\ run'[i] = q /\ IsRun(q)
  BY RunReplaced DEF OpsInv, Kept
<1>2. Seeder(i)' /\ key(i)' = key(i) /\ Placing(i)'
  BY <1>1 DEF Seeder, key, Kept, Placing
<1>3. key(i) \in DOMAIN markets' /\ HasMarket(key(i))'
  BY <1>2 DEF HasMarket, Grown
<1>4. Finding(i)'
  BY <1>1, <1>2, <1>3 DEF Finding
<1>5. seedings'[key(i)] >= 1
  <2> DEFINE k == key(i)
  <2>1. seedings[k] \in Nat /\ seedings'[k] \in Nat /\ seedings'[k] >= seedings[k]
    BY <1>3 DEF HasMarket, Grown, MarketsOK, OpsInv, TypeOK
  <2>2. seedings[k] >= 1 \/ seedings'[k] > seedings[k]
    BY DEF OpsInv, Laying
  <2> HIDE DEF k
  <2>3. seedings'[k] >= 1
    BY <2>1, <2>2
  <2> QED
    BY <2>3 DEF k
<1>6. Laying(i)'
  BY <1>1, <1>2, <1>5 DEF Laying
<1> QED
  BY <1>1, <1>2, <1>4, <1>6 DEF StepOf, Entered

--------------------------------------------------------------------------------
(* The actions *)

(* A step that leaves the markets alone and only moves its run on. *)
LEMMA FailStep ==
  ASSUME OpsInv, NEW i \in DOMAIN run, Fail(i), steady' \subseteq {i}
  PROVE  StepOf(i)
<1>1. IsRun(run[i]) /\ TypeOK
  BY DEF OpsInv, TypeOK
<1>2. PICK q : q = [run[i] EXCEPT !.at = "failed"]
  OBVIOUS
<1>3. Kept(q, run[i]) /\ q.at = "failed"
  BY <1>1, <1>2, AtChanged
<1>4. run' = [run EXCEPT ![i] = q]
  BY <1>2 DEF Fail, To
<1>5. MarketsOK' /\ Grown(i)
  BY <1>1, MarketsLeftAlone DEF Fail, marketVars
<1> QED
  BY <1>3, <1>4, <1>5, Resting DEF Kept

(* The scripts of the mint and of the pools. *)
LEMMA MintSteps ==
  ASSUME OpsInv, NEW i \in DOMAIN run, MintStep(i), steady' \subseteq {i}
  PROVE  StepOf(i)
<1>1. IsRun(run[i]) /\ TypeOK
  BY DEF OpsInv, TypeOK
<1>2. UNCHANGED <<markets, seedings>> /\ ~Seeder(i)
  BY DEF MintStep, createBusdcMint, mintDemoUsdc, readConfig, updateUsdcMint, verifyMint,
         readPools, reinitRewardsPools, verifyPools, At, Seeder, marketVars
<1>3. MarketsOK' /\ Grown(i)
  BY <1>1, <1>2, MarketsLeftAlone
<1>4. \/ \E step : To(i, step)
      \/ \E step : run' = [run EXCEPT ![i].mint = usdcMint, ![i].at = step]
  BY DEF MintStep, createBusdcMint, mintDemoUsdc, readConfig, updateUsdcMint, verifyMint,
         readPools, reinitRewardsPools, verifyPools
<1>5. CASE \E step : To(i, step)
  <2>1. PICK step : To(i, step)
    BY <1>5
  <2>2. PICK q : q = [run[i] EXCEPT !.at = step]
    OBVIOUS
  <2>3. Kept(q, run[i])
    BY <1>1, <2>2, AtChanged
  <2>4. run' = [run EXCEPT ![i] = q]
    BY <2>1, <2>2 DEF To
  <2> QED
    BY <1>2, <1>3, <2>3, <2>4, OtherScript DEF Kept
<1>6. CASE \E step : run' = [run EXCEPT ![i].mint = usdcMint, ![i].at = step]
  <2>1. PICK step : run' = [run EXCEPT ![i].mint = usdcMint, ![i].at = step]
    BY <1>6
  <2>2. PICK q : q = [run[i] EXCEPT !.mint = usdcMint, !.at = step]
    OBVIOUS
  <2>3. IsRun(q) /\ q.script = run[i].script
    BY <1>1, <2>2 DEF IsRun
  <2>4. run' = [run EXCEPT ![i] = q]
    BY <1>1, <2>1, <2>2 DEF TypeOK
  <2> QED
    BY <1>2, <1>3, <2>3, <2>4, OtherScript
<1> QED
  BY <1>4, <1>5, <1>6

(* Both scripts take their strikes from a price. *)
LEMMA getPreviousCloseStep ==
  ASSUME OpsInv, NEW i \in DOMAIN run, getPreviousClose(i), steady' \subseteq {i}
  PROVE  StepOf(i)
<1>1. IsRun(run[i]) /\ TypeOK /\ Laying(i)
  BY DEF OpsInv, TypeOK
<1>2. MarketsOK' /\ Grown(i)
  BY <1>1, MarketsLeftAlone DEF getPreviousClose, marketVars
<1>3. PICK todo, step :
        /\ run' = [run EXCEPT ![i].todo = todo, ![i].at = step]
        /\ step = IF run[i].script = "morning" THEN "create" ELSE "look"
  BY DEF getPreviousClose
<1>4. PICK q : q = [run[i] EXCEPT !.todo = todo, !.at = step]
  OBVIOUS
<1>5. /\ IsRun(q) /\ q.script = run[i].script /\ q.at = step
      /\ q.ladder = run[i].ladder /\ q.clean = run[i].clean
  BY <1>1, <1>4 DEF IsRun
<1>6. run' = [run EXCEPT ![i] = q]
  BY <1>1, <1>3, <1>4 DEF TypeOK
<1>7. CASE ~Seeder(i)
  BY <1>2, <1>5, <1>6, <1>7, OtherScript
<1>8. CASE Seeder(i)
  <2>1. run[i].at = "begin" /\ q.at = "look"
    BY <1>3, <1>5, <1>8 DEF getPreviousClose, Seeder
  <2>2. q.ladder = 1 /\ q.clean
    BY <1>1, <1>5, <1>8, <2>1 DEF Laying, Rung
  <2> QED
    BY <1>2, <1>5, <1>6, <2>1, <2>2, Resting
<1> QED
  BY <1>7, <1>8

(* The morning job creates a market without looking. *)
LEMMA sendCreateStrikeMarketStep ==
  ASSUME OpsInv, NEW i \in DOMAIN run, sendCreateStrikeMarket(i), steady' \subseteq {i}
  PROVE  StepOf(i)
<1>1. IsRun(run[i]) /\ TypeOK
  BY DEF OpsInv, TypeOK
<1>2. PICK a \in Answers(canCreate(key(i), run[i].mint)) : createsMarket(i, a.landed)
  BY DEF sendCreateStrikeMarket
<1>3. a.landed \in BOOLEAN /\ (a.landed => ~HasMarket(key(i)))
  BY DEF Answers, canCreate
<1>4. MarketsOK' /\ Grown(i)
  BY <1>1, <1>2, <1>3, MarketCreated
<1>5. PICK q : q = next(i)
  OBVIOUS
<1>6. IsRun(q) /\ q.script = run[i].script
  BY <1>1, <1>5, NextChanged
<1>7. run' = [run EXCEPT ![i] = q] /\ ~Seeder(i)
  BY <1>5 DEF sendCreateStrikeMarket, Seeder, At
<1> QED
  BY <1>4, <1>6, <1>7, OtherScript

(* A run that goes on to its next strike. *)
LEMMA NextStep ==
  ASSUME OpsInv, NEW i \in DOMAIN run, Seeder(i), run' = [run EXCEPT ![i] = next(i)],
         MarketsOK', Grown(i), steady' \subseteq {i}
  PROVE  StepOf(i)
<1>1. IsRun(run[i])
  BY DEF OpsInv, TypeOK
<1>2. PICK q : q = next(i)
  OBVIOUS
<1>3. IsRun(q) /\ q.at \in {"look", "done"} /\ q.ladder = 1 /\ q.clean
  BY <1>1, <1>2, NextChanged DEF Seeder
<1> QED
  BY <1>2, <1>3, Resting

(* A transaction that is told has landed, and only an allowed one lands.      *)
LEMMA AnswerIs ==
  ASSUME NEW allowed, NEW a \in Answers(allowed)
  PROVE  /\ a.landed \in BOOLEAN /\ a.told \in BOOLEAN
         /\ a.landed => allowed
         /\ a.told => a.landed
  BY DEF Answers

(* The two reads of a run that seeds. *)
LEMMA LookSteps ==
  ASSUME OpsInv, NEW i \in DOMAIN run, lookForMarket(i) \/ lookForBook(i), steady' \subseteq {i}
  PROVE  StepOf(i)
<1>0. IsRun(run[i])
  BY DEF OpsInv, TypeOK
<1>1. IsRun(run[i]) /\ TypeOK /\ Laying(i) /\ Finding(i) /\ Seeder(i)
  BY DEF OpsInv, TypeOK, lookForMarket, lookForBook, Seeding, At, Seeder
<1>2. MarketsOK' /\ Grown(i) /\ UNCHANGED markets
  BY <1>1, MarketsLeftAlone DEF lookForMarket, lookForBook, marketVars
<1>3. CASE lookForMarket(i)
  <2>1. HasMarket(key(i)) \in BOOLEAN
    BY DEF HasMarket
  <2>2. PICK b \in BOOLEAN : b = HasMarket(key(i))
    BY <2>1, Zenon
  <2>3. PICK q : q = [run[i] EXCEPT !.at = "create", !.seen = b]
    OBVIOUS
  <2>4. Kept(q, run[i]) /\ q.at = "create" /\ q.seen = b
        /\ q.ladder = run[i].ladder /\ q.clean = run[i].clean
    BY <1>0, <2>3, <2>2 DEF IsRun, Kept
  <2>5. run' = [run EXCEPT ![i] = q]
    BY <1>1, <1>3, <2>3, <2>2 DEF lookForMarket, TypeOK
  <2>6. q.ladder = 1 /\ q.clean
    BY <1>1, <1>3, <2>4 DEF Laying, Rung, lookForMarket, Seeding, At
  <2> QED
    BY <1>1, <1>2, <2>2, <2>4, <2>5, <2>6, Preparing DEF HasMarket
<1>4. CASE lookForBook(i)
  <2>1. PICK b \in BOOLEAN : b = (markets[key(i)].book # "none")
    OBVIOUS
  <2>2. PICK q : q = [run[i] EXCEPT !.at = "init", !.seen = b]
    OBVIOUS
  <2>3. run' = [run EXCEPT ![i] = q]
    BY <1>1, <1>4, <2>2, <2>1 DEF lookForBook, TypeOK
  <2>4. Kept(q, run[i]) /\ q.at = "init" /\ q.seen = b
        /\ q.ladder = run[i].ladder /\ q.clean = run[i].clean
    BY <1>0, <2>2, <2>1 DEF IsRun, Kept
  <2>5. q.ladder = 1 /\ q.clean /\ HasMarket(key(i))
    BY <1>1, <1>4, <2>4 DEF Laying, Rung, lookForBook, Seeding, At, Finding, Created
  <2>6. key(i) \in DOMAIN markets' /\ (q.seen <=> markets'[key(i)].book # "none")
    BY <1>2, <2>1, <2>4, <2>5 DEF HasMarket
  <2> QED
    BY <1>1, <1>2, <2>3, <2>4, <2>5, <2>6, Preparing
<1> QED
  BY <1>3, <1>4

(* Creating the market. *)
LEMMA createStrikeMarketStep ==
  ASSUME OpsInv, NEW i \in DOMAIN run, createStrikeMarket(i), steady' \subseteq {i}
  PROVE  StepOf(i)
<1>1. IsRun(run[i]) /\ TypeOK /\ Laying(i) /\ Finding(i) /\ Seeder(i) /\ run[i].at = "create"
  BY DEF OpsInv, TypeOK, createStrikeMarket, Seeding, At, Seeder
<1>2. run[i].ladder = 1 /\ run[i].clean
  BY <1>1 DEF Laying, Rung
<1>3. PICK q : q = [run[i] EXCEPT !.at = "lookBook"]
  OBVIOUS
<1>4. Kept(q, run[i]) /\ q.at = "lookBook" /\ q.ladder = 1 /\ q.clean
  BY <1>1, <1>2, <1>3, AtChanged
<1>5. CASE run[i].seen
  <2>1. UNCHANGED <<markets, seedings>> /\ run' = [run EXCEPT ![i] = q]
    BY <1>3, <1>5 DEF createStrikeMarket, Seed, marketVars
  <2>2. MarketsOK' /\ Grown(i)
    BY <1>1, <2>1, MarketsLeftAlone
  <2>3. key(i) \in DOMAIN markets'
    BY <1>1, <1>5, <2>1 DEF Finding, HasMarket
  <2> QED
    BY <1>1, <1>4, <2>1, <2>2, <2>3, Preparing
<1>6. CASE ~run[i].seen
  <2>1. PICK a \in Answers(canCreate(key(i), run[i].mint)) :
          /\ createsMarket(i, a.landed)
          /\ run' = [run EXCEPT ![i] = IF a.told THEN [@ EXCEPT !.at = "lookBook"] ELSE next(i)]
    BY <1>6 DEF createStrikeMarket
  <2>2. /\ a.landed \in BOOLEAN /\ a.told \in BOOLEAN /\ (a.told => a.landed)
        /\ (a.landed => ~HasMarket(key(i)))
    BY AnswerIs DEF canCreate
  <2>3. MarketsOK' /\ Grown(i) /\ (a.landed => key(i) \in DOMAIN markets')
    BY <1>1, <2>1, <2>2, MarketCreated
  <2>4. CASE a.told
    <3>1. run' = [run EXCEPT ![i] = q] /\ key(i) \in DOMAIN markets'
      BY <1>3, <2>1, <2>2, <2>3, <2>4
    <3> QED
      BY <1>1, <1>4, <2>3, <3>1, Preparing
  <2>5. CASE ~a.told
    BY <1>1, <2>1, <2>3, <2>5, NextStep
  <2> QED
    BY <2>2, <2>4, <2>5
<1> QED
  BY <1>5, <1>6

(* A step that changes the account of the market and may be refused or lost.  *)
LEMMA onMarketStep ==
  ASSUME OpsInv, NEW i \in DOMAIN run, Seeder(i), HasMarket(key(i)),
         run[i].ladder = 1, run[i].clean,
         NEW allowed, NEW book, book # "none", NEW step \in {"grow", "topUp"},
         onMarket(i, allowed, [markets[key(i)] EXCEPT !.book = book], step),
         UNCHANGED seedings, steady' \subseteq {i}
  PROVE  StepOf(i)
<1>1. IsRun(run[i]) /\ TypeOK /\ key(i) \in DOMAIN markets /\ IsMarket(markets[key(i)])
  BY DEF OpsInv, TypeOK, HasMarket
<1>2. PICK m : m = [markets[key(i)] EXCEPT !.book = book]
  OBVIOUS
<1>3. IsMarket(m) /\ m.book = book /\ SameHoldings(m, markets[key(i)])
  BY <1>1, <1>2 DEF IsMarket, SameHoldings
<1>4. PICK a \in Answers(allowed) :
        /\ markets' = IF a.landed THEN [markets EXCEPT ![key(i)] = m] ELSE markets
        /\ run' = [run EXCEPT ![i] = IF a.told THEN [@ EXCEPT !.at = step] ELSE next(i)]
  BY <1>2 DEF onMarket
<1>5. a.landed \in BOOLEAN /\ a.told \in BOOLEAN /\ (a.told => a.landed)
  BY AnswerIs
<1>6. MarketsOK' /\ Grown(i) /\ (a.landed => markets'[key(i)] = m)
  <2>1. CASE a.landed
    BY <1>1, <1>3, <1>4, <2>1, MarketChanged
  <2>2. CASE ~a.landed
    BY <1>1, <1>4, <2>2, MarketsLeftAlone
  <2> QED
    BY <1>5, <2>1, <2>2
<1>7. CASE a.told
  <2>1. PICK q : q = [run[i] EXCEPT !.at = step]
    OBVIOUS
  <2>2. Kept(q, run[i]) /\ q.at = step /\ q.ladder = 1 /\ q.clean
    BY <1>1, <2>1, AtChanged
  <2>3. run' = [run EXCEPT ![i] = q]
    BY <1>4, <1>7, <2>1
  <2>4. key(i) \in DOMAIN markets' /\ markets'[key(i)].book # "none"
    BY <1>1, <1>3, <1>5, <1>6, <1>7 DEF Grown
  <2> QED
    BY <1>6, <2>2, <2>3, <2>4, Preparing
<1>8. CASE ~a.told
  BY <1>4, <1>6, <1>8, NextStep
<1> QED
  BY <1>5, <1>7, <1>8

(* Opening and growing its book. *)
LEMMA BookSteps ==
  ASSUME OpsInv, NEW i \in DOMAIN run, initOrderBook(i) \/ growOrderBook(i), steady' \subseteq {i}
  PROVE  StepOf(i)
<1>1. IsRun(run[i]) /\ TypeOK /\ Laying(i) /\ Finding(i) /\ Seeder(i)
      /\ run[i].at \in {"init", "grow"}
  BY DEF OpsInv, TypeOK, initOrderBook, growOrderBook, Seeding, At, Seeder
<1>2. run[i].ladder = 1 /\ run[i].clean /\ HasMarket(key(i)) /\ UNCHANGED seedings
  BY <1>1 DEF Laying, Rung, Finding, Created, initOrderBook, growOrderBook
<1>3. CASE initOrderBook(i) /\ run[i].seen
  <2>1. PICK q : q = [run[i] EXCEPT !.at = "grow"]
    OBVIOUS
  <2>2. Kept(q, run[i]) /\ q.at = "grow" /\ q.ladder = 1 /\ q.clean
    BY <1>1, <1>2, <2>1, AtChanged
  <2>3. run' = [run EXCEPT ![i] = q] /\ UNCHANGED <<markets, seedings>>
    BY <1>3, <2>1 DEF initOrderBook, Seed
  <2>4. MarketsOK' /\ Grown(i)
    BY <1>1, <2>3, MarketsLeftAlone
  <2>5. key(i) \in DOMAIN markets' /\ markets'[key(i)].book # "none"
    BY <1>1, <1>2, <1>3, <2>3 DEF HasMarket, Finding, initOrderBook, Seeding, At
  <2> QED
    BY <1>1, <2>2, <2>3, <2>4, <2>5, Preparing
<1>4. CASE initOrderBook(i) /\ ~run[i].seen
  <2>1. onMarket(i, canInit(key(i), run[i].mint), [markets[key(i)] EXCEPT !.book = "init"], "grow")
    BY <1>4 DEF initOrderBook
  <2> QED
    BY <1>1, <1>2, <2>1, onMarketStep
<1>5. CASE growOrderBook(i)
  <2>1. onMarket(i, canGrow(key(i)), [markets[key(i)] EXCEPT !.book = "open"], "topUp")
    BY <1>5 DEF growOrderBook
  <2> QED
    BY <1>1, <1>2, <2>1, onMarketStep
<1> QED
  BY <1>3, <1>4, <1>5

(* Giving up a strike, leaving its ladder out, and reporting it. *)
LEMMA skipPlaceOrdersStep ==
  ASSUME OpsInv, NEW i \in DOMAIN run, giveStrikeUp(i) \/ skipPlaceOrders(i) \/ reportStrike(i),
         steady' \subseteq {i}
  PROVE  StepOf(i)
<1>1. TypeOK /\ Seeder(i) /\ run' = [run EXCEPT ![i] = next(i)] /\ UNCHANGED <<markets, seedings>>
  BY DEF OpsInv, giveStrikeUp, skipPlaceOrders, reportStrike, Seeding, At, Seeder, marketVars
<1>2. MarketsOK' /\ Grown(i)
  BY <1>1, MarketsLeftAlone
<1> QED
  BY <1>1, <1>2, NextStep

(* The run is counted, before it mints pairs and places orders. *)
LEMMA topUpStep ==
  ASSUME OpsInv, NEW i \in DOMAIN run, topUp(i), steady' \subseteq {i}
  PROVE  StepOf(i)
<1>1. IsRun(run[i]) /\ TypeOK /\ Laying(i) /\ Finding(i) /\ Seeder(i) /\ run[i].at = "topUp"
  BY DEF OpsInv, TypeOK, topUp, Seeding, At, Seeder
<1>2. run[i].ladder = 1 /\ run[i].clean /\ key(i) \in DOMAIN markets
  BY <1>1 DEF Laying, Rung, Finding, Created, HasMarket
<1>3. UNCHANGED markets /\ seedings' = [seedings EXCEPT ![key(i)] = @ + 1]
  BY DEF topUp
<1>4. /\ seedings' \in [DOMAIN markets -> Nat]
      /\ seedings[key(i)] \in Nat /\ seedings'[key(i)] = seedings[key(i)] + 1
      /\ \A j \in DOMAIN markets : seedings[j] \in Nat /\ seedings'[j] >= seedings[j]
  <2>1. seedings \in [DOMAIN markets -> Nat] /\ \A j \in DOMAIN markets : seedings[j] \in Nat
    BY <1>1 DEF TypeOK
  <2>2. /\ seedings' \in [DOMAIN markets -> Nat] /\ seedings'[key(i)] = seedings[key(i)] + 1
        /\ \A j \in DOMAIN markets : j # key(i) => seedings'[j] = seedings[j]
    BY <1>2, <1>3, <2>1
  <2> QED
    BY <1>2, <2>1, <2>2
<1>5. MarketsOK' /\ Grown(i)
  BY <1>1, <1>3, <1>4 DEF MarketsOK, TypeOK, Grown, SameHoldings
<1>6. CASE run' = [run EXCEPT ![i] = next(i)]
  BY <1>1, <1>5, <1>6, NextStep
<1>7. CASE run' = [run EXCEPT ![i] = [@ EXCEPT !.at = "mint"]]
  <2>1. PICK q : q = [run[i] EXCEPT !.at = "mint"]
    OBVIOUS
  <2>2. Kept(q, run[i]) /\ q.at = "mint" /\ q.ladder = 1 /\ q.clean
    BY <1>1, <1>2, <2>1, AtChanged
  <2>3. run' = [run EXCEPT ![i] = q]
    BY <1>7, <2>1
  <2>4. seedings'[key(i)] > seedings[key(i)]
    BY <1>4
  <2>5. seedings'[key(i)] = 1 => Laid(markets'[key(i)], q)
    <3>1. seedings'[key(i)] = 1 => seedings[key(i)] = 0
      BY <1>4
    <3>2. seedings[key(i)] = 0 => Holds(markets[key(i)], 0, 0, 0)
      BY <1>2 DEF OpsInv, Untouched
    <3> QED
      BY <1>3, <2>2, <3>1, <3>2 DEF Laid
  <2>6. Rung(q)
    BY <2>2 DEF Rung
  <2> QED
    BY <1>1, <1>2, <1>5, <2>2, <2>3, <2>4, <2>5, <2>6, Laddering DEF HasMarket
<1>8. \/ run' = [run EXCEPT ![i] = next(i)]
      \/ run' = [run EXCEPT ![i] = [@ EXCEPT !.at = "mint"]]
  BY DEF topUp, Seed
<1> QED
  BY <1>6, <1>7, <1>8

(* A run that places orders changes the market at hand, or none.              *)
LEMMA OrderPlaced ==
  ASSUME OpsInv, NEW i \in DOMAIN run, Placing(i), NEW m, IsMarket(m), NEW landed \in BOOLEAN,
         m.book = markets[key(i)].book, UNCHANGED seedings,
         markets' = IF landed THEN [markets EXCEPT ![key(i)] = m] ELSE markets
  PROVE  /\ MarketsOK' /\ Grown(i)
         /\ landed => markets'[key(i)] = m
<1>1. TypeOK /\ key(i) \in DOMAIN markets
  BY DEF OpsInv, Finding, Placing, Created, HasMarket
<1>2. CASE landed
  BY <1>1, <1>2, MarketChanged
<1>3. CASE ~landed
  BY <1>1, <1>3, MarketsLeftAlone
<1> QED
  BY <1>2, <1>3

(* Minting the pairs that the asks sell. *)
LEMMA mintPairStep ==
  ASSUME OpsInv, NEW i \in DOMAIN run, mintPair(i), steady' \subseteq {i}
  PROVE  StepOf(i)
<1>1. /\ IsRun(run[i]) /\ Laying(i) /\ Finding(i) /\ Seeder(i) /\ Placing(i) /\ run[i].at = "mint"
      /\ HasMarket(key(i))
  BY DEF OpsInv, TypeOK, mintPair, Seeding, At, Seeder, Placing, Finding, Created
<1>2. run[i].ladder = 1 /\ run[i].clean /\ IsMarket(markets[key(i)])
  BY <1>1 DEF Laying, Rung, HasMarket, OpsInv, TypeOK
<1>3. PICK a \in Answers(canMint(key(i), run[i].mint)) :
        /\ markets' = IF a.landed THEN [markets EXCEPT ![key(i)].pairs = @ + MINT_PAIR_LOTS] ELSE markets
        /\ run' = [run EXCEPT ![i].at = "bids", ![i].paired = a.told, ![i].clean = a.told]
  BY DEF mintPair
<1>4. a.landed \in BOOLEAN /\ a.told \in BOOLEAN /\ (a.told => a.landed)
  BY AnswerIs
<1>5. PICK m : m = [markets[key(i)] EXCEPT !.pairs = @ + MINT_PAIR_LOTS]
  OBVIOUS
<1>6. /\ IsMarket(m) /\ m.book = markets[key(i)].book
      /\ Holds(markets[key(i)], 0, 0, 0) => Holds(m, 0, 0, MINT_PAIR_LOTS)
  BY <1>2, <1>5 DEF IsMarket, Holds, MINT_PAIR_LOTS
<1>7. markets' = IF a.landed THEN [markets EXCEPT ![key(i)] = m] ELSE markets
  BY <1>3, <1>5
<1>8. UNCHANGED seedings
  BY DEF mintPair
<1>9. MarketsOK' /\ Grown(i) /\ (a.landed => markets'[key(i)] = m)
  BY <1>1, <1>4, <1>6, <1>7, <1>8, OrderPlaced
<1>10. PICK b \in BOOLEAN : b = a.told
  BY <1>4
<1>11. PICK q : q = [run[i] EXCEPT !.at = "bids", !.paired = b, !.clean = b]
  OBVIOUS
<1>12. Kept(q, run[i]) /\ q.at = "bids" /\ q.paired = b /\ q.clean = b /\ q.ladder = 1
  BY <1>1, <1>2, <1>11 DEF IsRun, Kept
<1>13. run' = [run EXCEPT ![i] = q]
  BY <1>3, <1>10, <1>11 DEF OpsInv, TypeOK
<1>14. Rung(q)
  BY <1>12, OperationsAssumption DEF Rung, OperationsAssumption
<1>15. q.clean /\ seedings'[key(i)] = 1 => Laid(markets'[key(i)], q)
  <2>1. ASSUME q.clean, seedings'[key(i)] = 1 PROVE Holds(m, 0, 0, MINT_PAIR_LOTS)
    BY <1>1, <1>2, <1>6, <1>8, <2>1 DEF Laying, Laid
  <2>2. q.ladder - 1 = 0
    BY <1>12
  <2> QED
    BY <1>4, <1>9, <1>10, <1>12, <2>1, <2>2 DEF Laid
<1> QED
  BY <1>1, <1>9, <1>12, <1>13, <1>14, <1>15, Laddering

--------------------------------------------------------------------------------
(* One order *)

(* A function to integers, one value changed. *)
LEMMA Bumped ==
  ASSUME NEW S, NEW f \in [S -> Int], NEW x, NEW v, x \in S => v \in Int, NEW g,
         g = [f EXCEPT ![x] = v]
  PROVE  g \in [S -> Int]
  OBVIOUS

(* An order changes what a market holds, and not its book account. *)
LEMMA PlacedIsMarket ==
  ASSUME NEW k, IsMarket(markets[k]), NEW side, NEW p \in Int
  PROVE  IsMarket(placed(k, side, p)) /\ placed(k, side, p).book = markets[k].book
<1>1. PICK m : m = markets[k]
  OBVIOUS
<1>2. IsMarket(m)
  BY <1>1
<1>3. m.bids \in [Prices -> Int] /\ m.asks \in [Prices -> Int]
      /\ m.usdcEscrow \in Int /\ m.yesEscrow \in Int
  BY <1>2 DEF IsMarket
<1>4. \/ placed(k, side, p) = [m EXCEPT !.asks[bestAsk(k)] = @ - 1, !.yesEscrow = @ - 1]
      \/ placed(k, side, p) = [m EXCEPT !.bids[p] = @ + 1, !.usdcEscrow = @ + p]
      \/ placed(k, side, p) = [m EXCEPT !.asks[p] = @ + 1, !.yesEscrow = @ + 1]
  BY <1>1 DEF placed
<1>5. ASSUME NEW f \in [Prices -> Int], NEW e \in Int, NEW q,
             q = [m EXCEPT !.asks = f, !.yesEscrow = e]
      PROVE  IsMarket(q) /\ q.book = m.book
  BY <1>2, <1>5 DEF IsMarket
<1>6. ASSUME NEW f \in [Prices -> Int], NEW e \in Int, NEW q,
             q = [m EXCEPT !.bids = f, !.usdcEscrow = e]
      PROVE  IsMarket(q) /\ q.book = m.book
  BY <1>2, <1>6 DEF IsMarket
<1>7. CASE placed(k, side, p) = [m EXCEPT !.asks[bestAsk(k)] = @ - 1, !.yesEscrow = @ - 1]
  <2>1. PICK f : f = [m.asks EXCEPT ![bestAsk(k)] = @ - 1]
    OBVIOUS
  <2>2. f \in [Prices -> Int]
    <3>1. PICK v : v = m.asks[bestAsk(k)] - 1
      OBVIOUS
    <3>2. bestAsk(k) \in Prices => v \in Int
      BY <1>3, <3>1
    <3> QED
      BY <1>3, <2>1, <3>1, <3>2, Bumped
  <2>3. PICK e \in Int : e = m.yesEscrow - 1
    BY <1>3
  <2>4. placed(k, side, p) = [m EXCEPT !.asks = f, !.yesEscrow = e]
    BY <1>7, <2>1, <2>3
  <2>5. IsMarket(placed(k, side, p)) /\ placed(k, side, p).book = m.book
    BY <1>5, <2>2, <2>3, <2>4, Zenon
  <2> QED
    BY <1>1, <2>5
<1>8. CASE placed(k, side, p) = [m EXCEPT !.bids[p] = @ + 1, !.usdcEscrow = @ + p]
  <2>1. PICK f : f = [m.bids EXCEPT ![p] = @ + 1]
    OBVIOUS
  <2>2. f \in [Prices -> Int]
    <3>1. PICK v : v = m.bids[p] + 1
      OBVIOUS
    <3>2. p \in Prices => v \in Int
      BY <1>3, <3>1
    <3> QED
      BY <1>3, <2>1, <3>1, <3>2, Bumped
  <2>3. PICK e \in Int : e = m.usdcEscrow + p
    BY <1>3
  <2>4. placed(k, side, p) = [m EXCEPT !.bids = f, !.usdcEscrow = e]
    BY <1>8, <2>1, <2>3
  <2>5. IsMarket(placed(k, side, p)) /\ placed(k, side, p).book = m.book
    BY <1>6, <2>2, <2>3, <2>4, Zenon
  <2> QED
    BY <1>1, <2>5
<1>9. CASE placed(k, side, p) = [m EXCEPT !.asks[p] = @ + 1, !.yesEscrow = @ + 1]
  <2>1. PICK f : f = [m.asks EXCEPT ![p] = @ + 1]
    OBVIOUS
  <2>2. f \in [Prices -> Int]
    <3>1. PICK v : v = m.asks[p] + 1
      OBVIOUS
    <3>2. p \in Prices => v \in Int
      BY <1>3, <3>1
    <3> QED
      BY <1>3, <2>1, <3>1, <3>2, Bumped
  <2>3. PICK e \in Int : e = m.yesEscrow + 1
    BY <1>3
  <2>4. placed(k, side, p) = [m EXCEPT !.asks = f, !.yesEscrow = e]
    BY <1>9, <2>1, <2>3
  <2>5. IsMarket(placed(k, side, p)) /\ placed(k, side, p).book = m.book
    BY <1>5, <2>2, <2>3, <2>4, Zenon
  <2> QED
    BY <1>1, <2>5
<1> QED
  BY <1>4, <1>7, <1>8, <1>9

(* Nothing crosses a bid while no ask is on the book. *)
LEMMA NoAsk ==
  ASSUME NEW k, markets[k].asks = Orders(ORDER_LADDER_ASKS, 0)
  PROVE  bestAsk(k) = 100
<1>1. Rungs(ORDER_LADDER_ASKS, 0) = {}
  BY DEF Rungs
<1>2. \A p \in Prices : markets[k].asks[p] = 0
  BY <1>1 DEF Orders
<1>3. {p \in Prices : markets[k].asks[p] > 0} \union {100} = {100}
  BY <1>2
<1> QED
  BY <1>3 DEF bestAsk, Min

(* The rungs of a ladder are prices, each another one. *)
LEMMA LadderIs ==
  ASSUME NEW ladder \in {ORDER_LADDER_BIDS, ORDER_LADDER_ASKS}
  PROVE  /\ ladder \in Seq(Nat) /\ IsInjective(ladder) /\ Len(ladder) \in Nat
         /\ DOMAIN ladder = 1..Len(ladder)
<1>1. (ladder \in Seq(1..50) \/ ladder \in Seq(51..99)) /\ IsInjective(ladder)
  BY OperationsAssumption DEF OperationsAssumption
<1>2. 1..50 \subseteq Nat /\ 51..99 \subseteq Nat
  OBVIOUS
<1>3. ladder \in Seq(Nat)
  <2>1. CASE ladder \in Seq(1..50)
    BY <1>2, <2>1, SeqOfMore
  <2>2. CASE ladder \in Seq(51..99)
    BY <1>2, <2>2, SeqOfMore
  <2> QED
    BY <1>1, <2>1, <2>2, Zenon
<1> QED
  BY <1>1, <1>3

(* The next rung of a ladder is another price. *)
LEMMA NextRung ==
  ASSUME NEW ladder \in {ORDER_LADDER_BIDS, ORDER_LADDER_ASKS}, NEW n \in 1..Len(ladder)
  PROVE  /\ ladder[n] \in Prices /\ ladder[n] \in Nat
         /\ Orders(ladder, n) = [Orders(ladder, n - 1) EXCEPT ![ladder[n]] = @ + 1]
<1>1. /\ ladder \in Seq(Nat) /\ IsInjective(ladder) /\ Len(ladder) \in Nat
      /\ DOMAIN ladder = 1..Len(ladder)
  BY LadderIs
<1>2. ladder[n] \in Nat
  BY <1>1
<1>3. ladder[n] \in Prices
  BY <1>1 DEF Prices, Range
<1>4. Rungs(ladder, n) = Rungs(ladder, n - 1) \cup {ladder[n]}
  <2>1. 1..n = 1..(n - 1) \cup {n}
    BY <1>1
  <2> QED
    BY <2>1 DEF Rungs
<1>5. ladder[n] \notin Rungs(ladder, n - 1)
  <2>1. \A j \in 1..(n - 1) : j \in DOMAIN ladder /\ n \in DOMAIN ladder /\ j # n
    BY <1>1
  <2> QED
    BY <1>1, <2>1 DEF Rungs, IsInjective
<1>6. PICK p : p = ladder[n]
  OBVIOUS
<1>7. PICK A : A = Rungs(ladder, n - 1)
  OBVIOUS
<1>8. PICK f : f = Orders(ladder, n - 1)
  OBVIOUS
<1>9. f = [q \in Prices |-> IF q \in A THEN 1 ELSE 0]
  BY <1>7, <1>8 DEF Orders
<1>10. Orders(ladder, n) = [q \in Prices |-> IF q \in A \cup {p} THEN 1 ELSE 0]
  BY <1>4, <1>6, <1>7 DEF Orders
<1>11. p \in Prices /\ p \notin A
  BY <1>3, <1>5, <1>6, <1>7
<1>12. [f EXCEPT ![p] = @ + 1] = [q \in Prices |-> IF q \in A \cup {p} THEN 1 ELSE 0]
  BY <1>9, <1>11
<1> QED
  BY <1>2, <1>3, <1>6, <1>8, <1>10, <1>12

(* The bids of one rung more cost its price more. *)
LEMMA NextCost ==
  ASSUME NEW n \in 1..Len(ORDER_LADDER_BIDS)
  PROVE  Cost(n) = Cost(n - 1) + ORDER_LADDER_BIDS[n]
<1> DEFINE s == SubSeq(ORDER_LADDER_BIDS, 1, n - 1)
           t == SubSeq(ORDER_LADDER_BIDS, 1, n)
<1>1. ORDER_LADDER_BIDS \in Seq(Int) /\ Len(ORDER_LADDER_BIDS) \in Nat
  BY LadderIs, SeqMonotonic
<1>2. s \in Seq(Int) /\ ORDER_LADDER_BIDS[n] \in Int
  BY <1>1
<1>3. t = Append(s, ORDER_LADDER_BIDS[n])
  BY <1>1
<1> HIDE DEF s, t
<1>4. SumFunction(t) = SumFunction(s) + ORDER_LADDER_BIDS[n]
  BY <1>2, <1>3, SumAppend
<1> QED
  BY <1>4 DEF Cost, s, t

(* One bid of the ladder more. *)
LEMMA BidHolds ==
  ASSUME NEW k, IsMarket(markets[k]), NEW n \in 1..Len(ORDER_LADDER_BIDS), NEW pairs,
         Holds(markets[k], n - 1, 0, pairs)
  PROVE  Holds(placed(k, "bid", ORDER_LADDER_BIDS[n]), n, 0, pairs)
<1>1. PICK p : p = ORDER_LADDER_BIDS[n]
  OBVIOUS
<1>2. bestAsk(k) = 100
  BY NoAsk DEF Holds
<1>3. p \in Nat /\ p \in Prices
      /\ Orders(ORDER_LADDER_BIDS, n) = [Orders(ORDER_LADDER_BIDS, n - 1) EXCEPT ![p] = @ + 1]
  BY <1>1, NextRung
<1>4. p < 100
  <2>1. ORDER_LADDER_BIDS \in Seq(1..50)
    BY OperationsAssumption DEF OperationsAssumption
  <2>2. p \in 1..50
    BY <1>1, <2>1, ElementOfSeq, Zenon
  <2> QED
    BY <2>2
<1>5. Cost(n) = Cost(n - 1) + p
  BY <1>1, NextCost
<1>6. PICK m : m = markets[k]
  OBVIOUS
<1>7. IsMarket(m) /\ Holds(m, n - 1, 0, pairs)
  BY <1>6
<1>8. PICK q : q = [m EXCEPT !.bids[p] = @ + 1, !.usdcEscrow = @ + p]
  OBVIOUS
<1>9. /\ q.bids = [m.bids EXCEPT ![p] = @ + 1] /\ q.usdcEscrow = m.usdcEscrow + p
      /\ q.asks = m.asks /\ q.yesEscrow = m.yesEscrow /\ q.pairs = m.pairs
  BY <1>7, <1>8 DEF IsMarket
<1>10. Holds(q, n, 0, pairs)
  BY <1>3, <1>5, <1>7, <1>9 DEF Holds
<1>11. placed(k, "bid", p) = q
  BY <1>2, <1>3, <1>4, <1>6, <1>8 DEF placed
<1> QED
  BY <1>1, <1>10, <1>11

(* One ask of the ladder more. *)
LEMMA AskHolds ==
  ASSUME NEW k, IsMarket(markets[k]), NEW n \in 1..Len(ORDER_LADDER_ASKS), NEW b, NEW pairs,
         Holds(markets[k], b, n - 1, pairs)
  PROVE  Holds(placed(k, "ask", ORDER_LADDER_ASKS[n]), b, n, pairs)
<1>1. PICK p : p = ORDER_LADDER_ASKS[n]
  OBVIOUS
<1>2. Orders(ORDER_LADDER_ASKS, n) = [Orders(ORDER_LADDER_ASKS, n - 1) EXCEPT ![p] = @ + 1]
  BY <1>1, NextRung
<1>3. (n - 1) + 1 = n
  OBVIOUS
<1>4. PICK m : m = markets[k]
  OBVIOUS
<1>5. IsMarket(m) /\ Holds(m, b, n - 1, pairs)
  BY <1>4
<1>6. PICK q : q = [m EXCEPT !.asks[p] = @ + 1, !.yesEscrow = @ + 1]
  OBVIOUS
<1>7. /\ q.asks = [m.asks EXCEPT ![p] = @ + 1] /\ q.yesEscrow = m.yesEscrow + 1
      /\ q.bids = m.bids /\ q.usdcEscrow = m.usdcEscrow /\ q.pairs = m.pairs
  BY <1>5, <1>6 DEF IsMarket
<1>8. Holds(q, b, n, pairs)
  BY <1>2, <1>3, <1>5, <1>7 DEF Holds
<1>9. placed(k, "ask", p) = q
  BY <1>4, <1>6 DEF placed
<1> QED
  BY <1>1, <1>8, <1>9

(* A run that places its next order. *)
LEMMA placeOrderStep ==
  ASSUME OpsInv, NEW i \in DOMAIN run, Placing(i), NEW side, NEW p \in Nat, NEW makers, NEW after,
         Kept(after, run[i]), after.at \in {"bids", "asks", "report"}, Rung(after),
         placeOrder(i, side, p, makers, after), UNCHANGED seedings, steady' \subseteq {i},
         after.clean => run[i].clean /\ after.paired,
         run[i].clean /\ seedings[key(i)] = 1 => Laid(placed(key(i), side, p), after)
  PROVE  StepOf(i)
<1>1. IsMarket(markets[key(i)]) /\ HasMarket(key(i)) /\ Seeder(i)
  BY DEF OpsInv, TypeOK, Finding, Placing, Created, HasMarket
<1>2. PICK m : m = placed(key(i), side, p)
  OBVIOUS
<1>3. IsMarket(m) /\ m.book = markets[key(i)].book
  BY <1>1, <1>2, PlacedIsMarket
<1>4. PICK a \in Answers(canPlace(key(i), run[i].mint, side, p, makers)) :
        /\ markets' = IF a.landed THEN [markets EXCEPT ![key(i)] = m] ELSE markets
        /\ run' = [run EXCEPT ![i] = [after EXCEPT !.clean = @ /\ a.told]]
  BY <1>2 DEF placeOrder
<1>5. a.landed \in BOOLEAN /\ a.told \in BOOLEAN /\ (a.told => a.landed)
  BY AnswerIs
<1>6. MarketsOK' /\ Grown(i) /\ (a.landed => markets'[key(i)] = m)
  BY <1>3, <1>4, <1>5, OrderPlaced
<1>7. PICK b \in BOOLEAN : b = a.told
  BY <1>5
<1>8. PICK q : q = [after EXCEPT !.clean = @ /\ b]
  OBVIOUS
<1>9. /\ Kept(q, after) /\ q.clean = (after.clean /\ b)
      /\ q.at = after.at /\ q.paired = after.paired /\ q.ladder = after.ladder
  BY <1>8, CleanChanged DEF Kept
<1>10. Kept(q, run[i]) /\ q.at \in {"bids", "asks", "report"} /\ Rung(q)
  BY <1>9 DEF Kept, Rung
<1>11. run' = [run EXCEPT ![i] = q]
  BY <1>4, <1>7, <1>8
<1>12. ASSUME q.clean, seedings'[key(i)] = 1 PROVE Laid(markets'[key(i)], q)
  <2>1. a.told /\ after.clean
    BY <1>7, <1>9, <1>12
  <2>2. Laid(m, after) /\ markets'[key(i)] = m
    BY <1>2, <1>5, <1>6, <1>12, <2>1
  <2> QED
    BY <1>9, <2>2 DEF Laid
<1>13. q.clean /\ q.at # "mint" => q.paired
  BY <1>9
<1> QED
  BY <1>1, <1>6, <1>10, <1>11, <1>12, <1>13, Laddering

(* Placing one bid of the ladder. *)
LEMMA placeBidsStep ==
  ASSUME OpsInv, NEW i \in DOMAIN run, placeBids(i), steady' \subseteq {i}
  PROVE  StepOf(i)
<1>1. IsRun(run[i]) /\ Laying(i) /\ Seeder(i) /\ Placing(i) /\ run[i].at = "bids"
  BY DEF OpsInv, TypeOK, placeBids, Seeding, At, Seeder, Placing
<1>2. PICK n : n = run[i].ladder
  OBVIOUS
<1>3. n \in 1..Len(ORDER_LADDER_BIDS) /\ n \in Nat /\ n + 1 \in Nat
      /\ Len(ORDER_LADDER_BIDS) \in Nat
  <2>1. Len(ORDER_LADDER_BIDS) \in Nat
    BY LadderIs
  <2> QED
    BY <1>1, <1>2, <2>1 DEF Laying, Rung
<1>4. PICK p : p = ORDER_LADDER_BIDS[n]
  OBVIOUS
<1>5. p \in Nat /\ IsMarket(markets[key(i)])
  BY <1>1, <1>3, <1>4, NextRung DEF OpsInv, TypeOK, Finding, Placing, Created, HasMarket
<1>6. run[i].clean /\ seedings[key(i)] = 1 => Holds(placed(key(i), "bid", p), n, 0, MINT_PAIR_LOTS)
  BY <1>1, <1>2, <1>3, <1>4, <1>5, BidHolds DEF Laying, Laid
<1>7. UNCHANGED seedings
  BY DEF placeBids
<1>8. CASE n < Len(ORDER_LADDER_BIDS)
  <2>1. PICK after : after = [run[i] EXCEPT !.ladder = n + 1]
    OBVIOUS
  <2>2. Kept(after, run[i]) /\ after.ladder = n + 1 /\ after.at = "bids"
        /\ after.paired = run[i].paired /\ after.clean = run[i].clean
    BY <1>1, <1>3, <2>1, LadderChanged
  <2>3. placeOrder(i, "bid", p, 0, after)
    BY <1>2, <1>4, <1>8, <2>1 DEF placeBids
  <2>4. Rung(after)
    BY <1>3, <1>8, <2>2 DEF Rung
  <2>5. after.clean => run[i].clean /\ after.paired
    BY <1>1, <2>2 DEF Laying
  <2>6. run[i].clean /\ seedings[key(i)] = 1 => Laid(placed(key(i), "bid", p), after)
    <3>1. after.ladder - 1 = n
      BY <1>3, <2>2
    <3> QED
      BY <1>6, <2>2, <3>1 DEF Laid
  <2> QED
    BY <1>1, <1>5, <1>7, <2>2, <2>3, <2>4, <2>5, <2>6, placeOrderStep
<1>9. CASE ~(n < Len(ORDER_LADDER_BIDS))
  <2>1. PICK step : step = IF run[i].paired THEN "asks" ELSE "report"
    OBVIOUS
  <2>2. PICK after : after = [run[i] EXCEPT !.ladder = 1, !.at = step]
    OBVIOUS
  <2>3. Kept(after, run[i]) /\ after.ladder = 1 /\ after.at = step
        /\ after.paired = run[i].paired /\ after.clean = run[i].clean
    BY <1>1, <2>2 DEF IsRun, Kept
  <2>4. placeOrder(i, "bid", p, 0, after)
    BY <1>2, <1>4, <1>9, <2>1, <2>2 DEF placeBids
  <2>5. Rung(after)
    <3>1. 1 \in 1..Len(ORDER_LADDER_ASKS)
      BY OperationsAssumption DEF OperationsAssumption
    <3> QED
      BY <2>1, <2>3, <3>1 DEF Rung
  <2>6. after.clean => run[i].clean /\ after.paired
    BY <1>1, <2>3 DEF Laying
  <2>7. run[i].clean /\ seedings[key(i)] = 1 => Laid(placed(key(i), "bid", p), after)
    <3>1. n = Len(ORDER_LADDER_BIDS) /\ after.ladder - 1 = 0
      BY <1>3, <1>9, <2>3
    <3>2. run[i].clean => after.at = "asks"
      BY <2>1, <2>3, <2>6
    <3> QED
      BY <1>6, <3>1, <3>2 DEF Laid
  <2> QED
    BY <1>1, <1>5, <1>7, <2>1, <2>3, <2>4, <2>5, <2>6, <2>7, placeOrderStep
<1> QED
  BY <1>8, <1>9

(* Placing one ask of the ladder. *)
LEMMA placeAsksStep ==
  ASSUME OpsInv, NEW i \in DOMAIN run, placeAsks(i), steady' \subseteq {i}
  PROVE  StepOf(i)
<1>1. IsRun(run[i]) /\ Laying(i) /\ Seeder(i) /\ Placing(i) /\ run[i].at = "asks"
  BY DEF OpsInv, TypeOK, placeAsks, Seeding, At, Seeder, Placing
<1>2. PICK n : n = run[i].ladder
  OBVIOUS
<1>3. n \in 1..Len(ORDER_LADDER_ASKS) /\ n \in Nat /\ n + 1 \in Nat
      /\ Len(ORDER_LADDER_ASKS) \in Nat
  <2>1. Len(ORDER_LADDER_ASKS) \in Nat
    BY LadderIs
  <2> QED
    BY <1>1, <1>2, <2>1 DEF Laying, Rung
<1>4. PICK p : p = ORDER_LADDER_ASKS[n]
  OBVIOUS
<1>5. p \in Nat /\ IsMarket(markets[key(i)])
  BY <1>1, <1>3, <1>4, NextRung DEF OpsInv, TypeOK, Finding, Placing, Created, HasMarket
<1>6. run[i].clean /\ seedings[key(i)] = 1
        => Holds(placed(key(i), "ask", p), Len(ORDER_LADDER_BIDS), n, MINT_PAIR_LOTS)
  BY <1>1, <1>2, <1>3, <1>4, <1>5, AskHolds DEF Laying, Laid
<1>7. UNCHANGED seedings
  BY DEF placeAsks
<1>8. CASE n < Len(ORDER_LADDER_ASKS)
  <2>1. PICK after : after = [run[i] EXCEPT !.ladder = n + 1]
    OBVIOUS
  <2>2. Kept(after, run[i]) /\ after.ladder = n + 1 /\ after.at = "asks"
        /\ after.paired = run[i].paired /\ after.clean = run[i].clean
    BY <1>1, <1>3, <2>1, LadderChanged
  <2>3. placeOrder(i, "ask", p, 0, after)
    BY <1>2, <1>4, <1>8, <2>1 DEF placeAsks
  <2>4. Rung(after)
    BY <1>3, <1>8, <2>2 DEF Rung
  <2>5. after.clean => run[i].clean /\ after.paired
    BY <1>1, <2>2 DEF Laying
  <2>6. run[i].clean /\ seedings[key(i)] = 1 => Laid(placed(key(i), "ask", p), after)
    <3>1. after.ladder - 1 = n
      BY <1>3, <2>2
    <3> QED
      BY <1>6, <2>2, <3>1 DEF Laid
  <2> QED
    BY <1>1, <1>5, <1>7, <2>2, <2>3, <2>4, <2>5, <2>6, placeOrderStep
<1>9. CASE ~(n < Len(ORDER_LADDER_ASKS))
  <2>1. PICK after : after = [run[i] EXCEPT !.at = "report"]
    OBVIOUS
  <2>2. Kept(after, run[i]) /\ after.at = "report"
        /\ after.paired = run[i].paired /\ after.clean = run[i].clean
    BY <1>1, <2>1, AtChanged
  <2>3. placeOrder(i, "ask", p, 0, after)
    BY <1>2, <1>4, <1>9, <2>1 DEF placeAsks
  <2>4. Rung(after)
    BY <2>2 DEF Rung
  <2>5. after.clean => run[i].clean /\ after.paired
    BY <1>1, <2>2 DEF Laying
  <2>6. run[i].clean /\ seedings[key(i)] = 1 => Laid(placed(key(i), "ask", p), after)
    <3>1. n = Len(ORDER_LADDER_ASKS)
      BY <1>3, <1>9
    <3> QED
      BY <1>6, <2>2, <3>1 DEF Laid
  <2> QED
    BY <1>1, <1>5, <1>7, <2>2, <2>3, <2>4, <2>5, <2>6, placeOrderStep
<1> QED
  BY <1>8, <1>9

(* The test trade counts on the market it chose. *)
LEMMA testTradeStep ==
  ASSUME OpsInv, NEW i \in DOMAIN run, testTrade(i), steady' \subseteq {i}
  PROVE  StepOf(i)
<1>1. IsRun(run[i]) /\ TypeOK /\ ~Seeder(i)
  BY DEF OpsInv, TypeOK, testTrade, At, Seeder
<1>2. PICK k \in DOMAIN markets :
        \E a \in Answers(canPlace(k, run[i].mint, "bid", TRADE_PRICE, 1)) :
          /\ markets' = IF a.landed THEN [markets EXCEPT ![k] = placed(k, "bid", TRADE_PRICE)] ELSE markets
          /\ seedings' = [seedings EXCEPT ![k] = @ + 1]
  BY DEF testTrade
<1>4. IsMarket(markets[k])
  BY <1>1 DEF TypeOK
<1>5. TRADE_PRICE \in Int
  BY DEF TRADE_PRICE
<1>6. markets = [markets EXCEPT ![k] = markets[k]]
  BY <1>1 DEF TypeOK
<1>7. \E n \in {placed(k, "bid", TRADE_PRICE), markets[k]} : markets' = [markets EXCEPT ![k] = n]
  BY <1>2, <1>6
<1>8. PICK n \in {placed(k, "bid", TRADE_PRICE), markets[k]} : markets' = [markets EXCEPT ![k] = n]
  BY <1>7
<1>9. IsMarket(n) /\ n.book = markets[k].book
  BY <1>4, <1>5, PlacedIsMarket
<1>10. MarketsOK' /\ Grown(i)
  BY <1>1, <1>2, <1>8, <1>9, MarketChanged
<1>11. PICK q : q = [run[i] EXCEPT !.at = "done"]
  OBVIOUS
<1>12. Kept(q, run[i])
  BY <1>1, <1>11, AtChanged
<1>13. run' = [run EXCEPT ![i] = q]
  BY <1>11 DEF testTrade, To
<1> QED
  BY <1>1, <1>10, <1>12, <1>13, OtherScript DEF Kept

--------------------------------------------------------------------------------
(* The specification *)

(* A set of natural numbers that is not empty has a least one. *)
LEMMA LeastIn ==
  ASSUME NEW S \in SUBSET Nat, S # {}
  PROVE  Min(S) \in S
<1>1. PICK x \in S : \A y \in S : <<y, x>> \notin OpToRel(<, Nat)
  BY NatLessThanWellFounded, WFMin
<1>2. \A y \in S : ~(y < x)
  BY <1>1 DEF OpToRel
<1>3. \A y \in S : x <= y
  BY <1>2
<1> QED
  BY <1>3 DEF Min

(* Nothing has run yet, and nothing is on the program. *)
LEMMA OpsInit == Init => OpsInv
<1> SUFFICES ASSUME Init PROVE OpsInv
  OBVIOUS
<1>1. run = <<>> /\ markets = <<>> /\ seedings = <<>> /\ steady = {}
  BY DEF Init
<1>2. DOMAIN run = {} /\ DOMAIN markets = {}
  BY <1>1
<1>3. now \in Nat
  BY LeastIn, OperationsAssumption DEF Init, OperationsAssumption
<1>4. TypeOK
  BY <1>1, <1>2, <1>3 DEF TypeOK
<1> QED
  BY <1>2, <1>4 DEF OpsInv, Untouched, Counted

(* Another run begins. *)
LEMMA BeginStep ==
  ASSUME OpsInv, Begin, UNCHANGED steady
  PROVE  OpsInv'
<1>1. PICK script, mint : \E days \in Int : run' = Append(run, newRun(script, mint, days))
  BY OperationsAssumption DEF Begin, OperationsAssumption
<1> PICK days \in Int : run' = Append(run, newRun(script, mint, days))
  BY <1>1
<1>2. PICK r : r = newRun(script, mint, days)
  OBVIOUS
<1>4. UNCHANGED <<now, markets, seedings>> /\ TypeOK
  BY DEF Begin, marketVars, OpsInv
<1>3. IsRun(r) /\ r.at = "begin" /\ r.ladder = 1 /\ r.clean
  <2>1. (now \div 24 + days) * 24 + ET_4PM_UTC_HOUR_EDT \in Int
    BY <1>4 DEF TypeOK, ET_4PM_UTC_HOUR_EDT
  <2> QED
    BY <1>2, <2>1 DEF newRun, IsRun
<1> DEFINE S == {run[j] : j \in DOMAIN run} \cup {r}
<1> PICK n : n = Len(run) + 1
  OBVIOUS
<1>5. run \in Seq(S)
  BY <1>4, SeqMonotonic DEF TypeOK
<1>6. /\ run' \in Seq(S) /\ DOMAIN run = 1..Len(run) /\ Len(run) \in Nat
      /\ DOMAIN run' = 1..n /\ run'[n] = r /\ \A j \in 1..Len(run) : run'[j] = run[j]
  <2>1. run' = Append(run, r) /\ r \in S
    BY <1>2
  <2> HIDE DEF S
  <2>2. /\ run' \in Seq(S) /\ Len(run') = n /\ run'[n] = r
        /\ \A j \in 1..Len(run) : run'[j] = run[j]
    BY <1>5, <2>1, AppendProperties
  <2> QED
    BY <1>5, <2>2, LenProperties
<1>7. DOMAIN run' = DOMAIN run \cup {n} /\ n \notin DOMAIN run
  BY <1>6
<1>8. run' \in Seq({run'[j] : j \in DOMAIN run'})
  <2>1. S = {run'[j] : j \in DOMAIN run'}
    BY <1>6, <1>7
  <2> QED
    BY <1>6, <2>1
<1> HIDE DEF S
<1>9. \A j \in DOMAIN run : run'[j] = run[j]
  BY <1>6
<1>10. TypeOK'
  <2>1. \A j \in DOMAIN run' : IsRun(run'[j])
    BY <1>3, <1>4, <1>6, <1>7, <1>9 DEF TypeOK
  <2> QED
    BY <1>4, <1>7, <1>8, <2>1 DEF TypeOK
<1>11. ASSUME NEW j \in DOMAIN run PROVE Finding(j)' /\ Laying(j)' /\ (Placing(j)' <=> Placing(j))
  <2>1. Finding(j) /\ Laying(j)
    BY DEF OpsInv
  <2>2. Seeder(j)' = Seeder(j) /\ key(j)' = key(j) /\ run'[j] = run[j]
    BY <1>9 DEF Seeder, key
  <2> QED
    BY <1>4, <2>1, <2>2 DEF Finding, Laying, Placing, HasMarket
<1>12. Finding(n)' /\ Laying(n)' /\ ~Placing(n)'
  BY <1>3, <1>6 DEF Finding, Laying, Placing, Rung, Created
<1>13. Counted'
  <2> SUFFICES ASSUME NEW j \in DOMAIN run', NEW l \in DOMAIN run', j # l,
                      Placing(j)', Placing(l)', key(j)' = key(l)'
               PROVE  seedings'[key(j)'] >= 2
    BY DEF Counted
  <2>1. j \in DOMAIN run /\ l \in DOMAIN run
    BY <1>7, <1>12
  <2>2. Placing(j) /\ Placing(l) /\ key(j) = key(l) /\ key(j)' = key(j)
    BY <1>9, <1>11, <2>1 DEF key
  <2> QED
    BY <1>4, <2>1, <2>2 DEF OpsInv, Counted
<1>14. Untouched'
  BY <1>4 DEF OpsInv, Untouched
<1> QED
  BY <1>7, <1>10, <1>11, <1>12, <1>13, <1>14 DEF OpsInv

(* A step that no run takes, or none. *)
LEMMA NoRunMoves ==
  ASSUME OpsInv, now' \in Nat, UNCHANGED <<run, markets, seedings, steady>>
  PROVE  OpsInv'
<1>1. TypeOK'
  BY DEF OpsInv, TypeOK
<1>2. \A i \in DOMAIN run' : Finding(i)' /\ Laying(i)'
  BY DEF OpsInv, Finding, Laying, Placing, Seeder, key, HasMarket
<1>3. Untouched' /\ Counted'
  BY DEF OpsInv, Untouched, Counted, Placing, Seeder, key
<1> QED
  BY <1>1, <1>2, <1>3 DEF OpsInv

(* Every step of the scripts, of a crash and of others keeps the invariant.   *)
LEMMA OpsNext == OpsInv /\ [Next]_vars => OpsInv'
<1> SUFFICES ASSUME OpsInv, [Next]_vars PROVE OpsInv'
  OBVIOUS
<1>1. CASE Tick /\ UNCHANGED steady
  <2>1. now' \in Nat
    BY <1>1, OperationsAssumption DEF Tick, OperationsAssumption
  <2> QED
    BY <1>1, <2>1, NoRunMoves DEF Tick, marketVars
<1>2. CASE Begin /\ UNCHANGED steady
  BY <1>2, BeginStep
<1>3. CASE PoolChanges /\ UNCHANGED steady
  BY <1>3, NoRunMoves DEF PoolChanges, marketVars, OpsInv, TypeOK
<1>4. ASSUME NEW i \in DOMAIN run, Fail(i) \/ SeedStep(i) \/ MintStep(i),
             steady' = IF run[i].at \in {"look", "lookBook"} THEN {i} ELSE steady \intersect {i}
      PROVE  OpsInv'
  <2>1. steady' \subseteq {i}
    BY <1>4
  <2>0. UNCHANGED now
    BY <1>4 DEF Fail, SeedStep, MintStep, createBusdcMint, mintDemoUsdc, readConfig, updateUsdcMint,
         verifyMint, readPools, reinitRewardsPools, verifyPools, getPreviousClose,
         sendCreateStrikeMarket, lookForMarket, createStrikeMarket, lookForBook, initOrderBook,
         growOrderBook, giveStrikeUp, skipPlaceOrders, topUp, mintPair, placeBids, placeAsks, reportStrike,
         testTrade
  <2>2. CASE Fail(i)
    BY <2>0, <2>1, <2>2, FailStep, StepKeeps
  <2>3. CASE MintStep(i)
    BY <2>0, <2>1, <2>3, MintSteps, StepKeeps
  <2>4. CASE getPreviousClose(i)
    BY <2>0, <2>1, <2>4, getPreviousCloseStep, StepKeeps
  <2>5. CASE sendCreateStrikeMarket(i)
    BY <2>0, <2>1, <2>5, sendCreateStrikeMarketStep, StepKeeps
  <2>6. CASE lookForMarket(i) \/ lookForBook(i)
    BY <2>0, <2>1, <2>6, LookSteps, StepKeeps
  <2>7. CASE createStrikeMarket(i)
    BY <2>0, <2>1, <2>7, createStrikeMarketStep, StepKeeps
  <2>8. CASE initOrderBook(i) \/ growOrderBook(i)
    BY <2>0, <2>1, <2>8, BookSteps, StepKeeps
  <2>9. CASE giveStrikeUp(i) \/ skipPlaceOrders(i) \/ reportStrike(i)
    BY <2>0, <2>1, <2>9, skipPlaceOrdersStep, StepKeeps
  <2>10. CASE topUp(i)
    BY <2>0, <2>1, <2>10, topUpStep, StepKeeps
  <2>11. CASE mintPair(i)
    BY <2>0, <2>1, <2>11, mintPairStep, StepKeeps
  <2>12. CASE placeBids(i)
    BY <2>0, <2>1, <2>12, placeBidsStep, StepKeeps
  <2>13. CASE placeAsks(i)
    BY <2>0, <2>1, <2>13, placeAsksStep, StepKeeps
  <2>14. CASE testTrade(i)
    BY <2>0, <2>1, <2>14, testTradeStep, StepKeeps
  <2> QED
    BY <1>4, <2>2, <2>3, <2>4, <2>5, <2>6, <2>7, <2>8, <2>9, <2>10, <2>11, <2>12, <2>13, <2>14
       DEF SeedStep
<1>5. CASE UNCHANGED vars
  BY <1>5, NoRunMoves DEF vars, marketVars, OpsInv, TypeOK
<1> QED
  BY <1>1, <1>2, <1>3, <1>4, <1>5 DEF Next

(* What every reachable state of the scripts satisfies: what each run knows   *)
(* of the market at hand, and which orders it has left there.                 *)
THEOREM ScriptsInvariant == Spec => []OpsInv
<1> QED
  BY OpsInit, OpsNext, PTL DEF Spec

(* A run that nothing moves beside is not refused while it creates a market   *)
(* and its book, in whatever state the runs before it were stopped.           *)
THEOREM ResumesAfterStopCorrect == Spec => []ResumesAfterStop
<1>1. OpsInv => ResumesAfterStop
  <2> SUFFICES ASSUME OpsInv, NEW i \in DOMAIN run, Seeder(i), i \in steady, agree(i)
               PROVE  /\ Seeding(i, "create") /\ ~run[i].seen /\ run[i].expiry - now < 7 * 24
                           /\ now < run[i].expiry => canCreate(key(i), run[i].mint)
                      /\ Seeding(i, "init") /\ ~run[i].seen => canInit(key(i), run[i].mint)
                      /\ Seeding(i, "grow") => canGrow(key(i))
    BY DEF ResumesAfterStop, Seeder
  <2>1. Finding(i)
    BY DEF OpsInv
  <2>2. key(i)[2] = run[i].expiry
    BY DEF key
  <2>3. Seeding(i, "create") /\ ~run[i].seen => ~HasMarket(key(i))
    BY <2>1 DEF Finding, Seeding, At
  <2>4. run[i].mint = usdcMint
    BY DEF agree
  <2>5. Seeding(i, "init") /\ ~run[i].seen => canInit(key(i), run[i].mint)
    BY <2>1, <2>4 DEF Finding, Created, Seeding, At, canInit
  <2>6. Seeding(i, "grow") => canGrow(key(i))
    BY <2>1 DEF Finding, Created, Seeding, At, canGrow
  <2>7. run[i].expiry - now < 7 * 24 => run[i].expiry - now <= MAX_EXPIRY_HORIZON_HOURS
    <3>1. run[i].expiry \in Int /\ now \in Nat
      BY DEF OpsInv, TypeOK, IsRun
    <3> QED
      BY <3>1 DEF MAX_EXPIRY_HORIZON_HOURS
  <2> QED
    BY <2>2, <2>3, <2>4, <2>5, <2>6, <2>7 DEF canCreate
<1> QED
  BY <1>1, ScriptsInvariant, PTL

(* A run that reports no error leaves exactly the ladder, its escrows and its *)
(* pairs, when nobody else seeded or traded on the market.                    *)
THEOREM CleanSeedVerifiesCorrect == Spec => []CleanSeedVerifies
<1>1. OpsInv => CleanSeedVerifies
  <2> SUFFICES ASSUME OpsInv, NEW i \in DOMAIN run, Seeding(i, "report"), run[i].clean,
                      seedings[key(i)] = 1
               PROVE  verifySeededMarket(key(i))
    BY DEF CleanSeedVerifies
  <2>1. Placing(i) /\ Laying(i) /\ run[i].at = "report"
    BY DEF OpsInv, Placing, Seeding, At, Seeder
  <2>2. Holds(markets[key(i)], Len(ORDER_LADDER_BIDS), Len(ORDER_LADDER_ASKS), MINT_PAIR_LOTS)
    BY <2>1 DEF Laying, Laid
  <2>3. ASSUME NEW ladder \in {ORDER_LADDER_BIDS, ORDER_LADDER_ASKS}
        PROVE  \A p \in Range(ladder) : p \in Prices /\ Orders(ladder, Len(ladder))[p] = 1
    <3>1. Range(ladder) = Rungs(ladder, Len(ladder))
      BY LadderIs DEF Range, Rungs
    <3>2. Range(ladder) \subseteq Prices
      BY DEF Prices
    <3> QED
      BY <3>1, <3>2 DEF Orders
  <2>4. Cost(Len(ORDER_LADDER_BIDS)) = SumFunction(ORDER_LADDER_BIDS)
    <3>1. ORDER_LADDER_BIDS \in Seq(Nat) /\ Len(ORDER_LADDER_BIDS) \in Nat
      BY LadderIs
    <3>2. SubSeq(ORDER_LADDER_BIDS, 1, Len(ORDER_LADDER_BIDS)) = ORDER_LADDER_BIDS
      BY <3>1
    <3> QED
      BY <3>2 DEF Cost
  <2> QED
    BY <2>2, <2>3, <2>4 DEF Holds, verifySeededMarket
<1> QED
  BY <1>1, ScriptsInvariant, PTL
================================================================================
