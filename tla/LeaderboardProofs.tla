---------------------------- MODULE LeaderboardProofs ----------------------------
(******************************************************************************)
(* Theorems about Leaderboard, for every ring size, bitmap layout, set of     *)
(* trees and order of commits, payments, mint flips and re-creations.         *)
(******************************************************************************)
EXTENDS Leaderboard, SumTheorems

--------------------------------------------------------------------------------
(* The layout of the bitmap *)

(* Every payable (metric, rank) has a bit of its own: the segments of the     *)
(* metrics do not meet, whatever their number and width.                      *)
LEMMA SegmentOrder ==
  ASSUME NEW m \in Nat, NEW n \in Nat, m < n,
         NEW r \in 1..POSITIONS_PER_METRIC, NEW s \in 1..POSITIONS_PER_METRIC
  PROVE  metric_position_bit(m, r) < metric_position_bit(n, s)
<1>1. POSITIONS_PER_METRIC \in Nat
  BY LeaderboardAssumption DEF LeaderboardAssumption
<1>2. (m + 1) * POSITIONS_PER_METRIC <= n * POSITIONS_PER_METRIC
  <2>1. n - (m + 1) \in Nat
    OBVIOUS
  <2>2. (n - (m + 1)) * POSITIONS_PER_METRIC >= 0
    BY <1>1, <2>1
  <2> QED
    BY <1>1, <2>2
<1>3. (m + 1) * POSITIONS_PER_METRIC = m * POSITIONS_PER_METRIC + POSITIONS_PER_METRIC
  BY <1>1
<1> QED
  BY <1>1, <1>2, <1>3 DEF metric_position_bit

(* state.rs: disjoint segments, so no two payable ranks share a bit, and all  *)
(* of them fit into METRIC_COUNT * POSITIONS_PER_METRIC bits.                 *)
THEOREM BitsDisjoint ==
  ASSUME NEW m \in Nat, NEW n \in Nat, is_valid_metric_id(m), is_valid_metric_id(n),
         NEW r \in 1..POSITIONS_PER_METRIC, NEW s \in 1..POSITIONS_PER_METRIC
  PROVE  /\ metric_position_bit(m, r) = metric_position_bit(n, s) => m = n /\ r = s
         /\ metric_position_bit(m, r) < METRIC_COUNT * POSITIONS_PER_METRIC
<1>1. POSITIONS_PER_METRIC \in Nat /\ METRIC_COUNT \in Nat
  BY LeaderboardAssumption DEF LeaderboardAssumption
<1>2. metric_position_bit(m, r) \in Nat /\ metric_position_bit(n, s) \in Nat
  <2>1. m * POSITIONS_PER_METRIC \in Nat /\ n * POSITIONS_PER_METRIC \in Nat
    BY <1>1
  <2> QED
    BY <1>1, <2>1 DEF metric_position_bit
<1>3. metric_position_bit(m, r) = metric_position_bit(n, s) => m = n
  <2>1. CASE m < n
    BY <2>1, <1>2, SegmentOrder
  <2>2. CASE n < m
    BY <2>2, <1>2, SegmentOrder
  <2> QED
    BY <2>1, <2>2
<1>4. metric_position_bit(m, r) = metric_position_bit(m, s) => r = s
  <2>1. m * POSITIONS_PER_METRIC \in Nat
    BY <1>1
  <2> QED
    BY <1>1, <2>1 DEF metric_position_bit
<1>5. metric_position_bit(m, r) < METRIC_COUNT * POSITIONS_PER_METRIC
  <2>1. 1 \in 1..POSITIONS_PER_METRIC
    BY <1>1, LeaderboardAssumption DEF LeaderboardAssumption
  <2>2. metric_position_bit(m, r) < metric_position_bit(METRIC_COUNT, 1)
    BY <1>1, <2>1, SegmentOrder DEF is_valid_metric_id
  <2>3. metric_position_bit(METRIC_COUNT, 1) = METRIC_COUNT * POSITIONS_PER_METRIC
    <3>1. METRIC_COUNT * POSITIONS_PER_METRIC \in Nat
      BY <1>1
    <3> QED
      BY <3>1 DEF metric_position_bit
  <2> QED
    BY <2>2, <2>3
<1> QED
  BY <1>3, <1>4, <1>5

--------------------------------------------------------------------------------
(* Type correctness *)

LEMMA TypeInit == Init => TypeOK
<1> SUFFICES ASSUME Init PROVE TypeOK
  OBVIOUS
<1> USE LeaderboardAssumption DEF LeaderboardAssumption
<1>1. 0 \in Slots
  BY DEF Slots
<1>2. EmptyEntry \in Entry
  BY DEF EmptyEntry, Entry, PeriodTypes
<1> QED
  BY <1>1, <1>2 DEF Init, TypeOK

LEMMA CommitTypes ==
  ASSUME TypeOK, NEW period \in PeriodIds, NEW type \in PeriodTypes, NEW root \in Trees,
         CommitLeaderboardRoot(period, type, root)
  PROVE  TypeOK'
<1> USE LeaderboardAssumption DEF LeaderboardAssumption
<1> DEFINE slot == nextSlot % CAPACITY
<1>1. slot \in Slots
  BY DEF TypeOK, Slots
<1>2. write_entry_fields(entries[slot], period, type, root) \in Entry
  <2> HIDE DEF slot
  <2>1. entries[slot] \in Entry
    BY <1>1 DEF TypeOK
  <2>2. root \in SUBSET Leaf /\ period \in Nat
    OBVIOUS
  <2> HIDE LeaderboardAssumption
  <2> QED
    BY <2>1, <2>2 DEF write_entry_fields, Entry
<1>3. entries' \in [Slots -> Entry]
  BY <1>1, <1>2 DEF TypeOK, CommitLeaderboardRoot
<1>4. nextSlot' \in Slots
  BY DEF TypeOK, CommitLeaderboardRoot, next_ring_slot, Slots
<1>5. commits' \in Nat /\ nth' \in [Slots -> Nat]
  BY <1>1 DEF TypeOK, CommitLeaderboardRoot
<1> QED
  BY <1>3, <1>4, <1>5 DEF TypeOK, CommitLeaderboardRoot, configVars, moneyVars

LEMMA DistributeTypes ==
  ASSUME TypeOK, NEW type \in PeriodTypes, NEW user \in Users, NEW period \in PeriodIds,
         NEW metric \in Nat, NEW position \in Nat, NEW amount \in Amounts,
         DistributeRewards(type, user, period, metric, position, amount)
  PROVE  TypeOK'
<1> USE LeaderboardAssumption DEF LeaderboardAssumption
<1>1. PICK slot \in Slots :
        /\ is_valid_position(position)
        /\ amount <= pool[type].amount
        /\ MarkClaimed(slot, metric, position)
        /\ pool' = [pool EXCEPT ![type].amount = @ - amount]
        /\ received' = [received EXCEPT ![user][pool[type].mint] = @ + amount]
        /\ payments' = payments \cup
             {[commit |-> nth[slot], type |-> type, period |-> period,
               metric |-> metric, rank |-> position, user |-> user,
               amount |-> amount]}
        /\ UNCHANGED <<configVars, nextSlot, nth, commits, inflow>>
  BY DEF DistributeRewards
<1>2. metric_position_bit(metric, position) \in Nat
  <2>1. metric * POSITIONS_PER_METRIC \in Nat
    OBVIOUS
  <2> QED
    BY <1>1, <2>1 DEF metric_position_bit, is_valid_position
<1>3. entries' \in [Slots -> Entry]
  <2> HIDE LeaderboardAssumption
  <2>1. entries[slot] \in Entry
    BY DEF TypeOK
  <2>2. [entries[slot] EXCEPT !.claimed_bitmap =
           @ \cup {metric_position_bit(metric, position)}] \in Entry
    BY <2>1, <1>2 DEF Entry
  <2> QED
    BY <1>1, <2>2 DEF TypeOK, MarkClaimed
<1>4. pool' \in [PeriodTypes -> [mint : Mints, amount : Nat]]
  BY <1>1 DEF TypeOK
<1>5. received' \in [Users -> [Mints -> Nat]]
  BY <1>1 DEF TypeOK
<1>6. payments' \subseteq Payment
  BY <1>1 DEF TypeOK, Payment
<1> QED
  BY <1>1, <1>3, <1>4, <1>5, <1>6 DEF TypeOK, configVars

LEMMA PourTypes ==
  ASSUME TypeOK, NEW type \in PeriodTypes, NEW amount \in FeeShares, Pour(type, amount)
  PROVE  TypeOK'
<1> USE LeaderboardAssumption DEF LeaderboardAssumption
<1>1. pool' \in [PeriodTypes -> [mint : Mints, amount : Nat]]
  BY DEF TypeOK, Pour
<1>2. inflow' \in [Mints -> Nat]
  BY DEF TypeOK, Pour
<1> QED
  BY <1>1, <1>2 DEF TypeOK, Pour, configVars, ringVars

(* What a step may be: the cases every step lemma below splits into. *)
LEMMA StepCases ==
  ASSUME Next, NEW P,
         ASSUME NEW period \in PeriodIds, NEW type \in PeriodTypes, NEW root \in Trees,
                CommitLeaderboardRoot(period, type, root)
         PROVE  P,
         ASSUME NEW type \in PeriodTypes, NEW user \in Users, NEW period \in PeriodIds,
                NEW metric \in Nat, NEW position \in Nat, NEW amount \in Amounts,
                DistributeRewards(type, user, period, metric, position, amount)
         PROVE  P,
         ASSUME NEW type \in PeriodTypes, NEW amount \in FeeShares, Pour(type, amount)
         PROVE  P,
         ASSUME ReinitRewardsPools PROVE P,
         ASSUME NEW m \in Mints, UpdateUsdcMint(m) PROVE P,
         ASSUME NEW b \in BOOLEAN, Pause(b) PROVE P
  PROVE  P
<1>1. \A metric \in 0..METRIC_COUNT : metric \in Nat
  BY LeaderboardAssumption DEF LeaderboardAssumption
<1>2. \A position \in 0..(POSITIONS_PER_METRIC + 1) : position \in Nat
  BY LeaderboardAssumption DEF LeaderboardAssumption
<1>3. CASE AdminStep
  <2>1. "Weekly" \in PeriodTypes /\ "Monthly" \in PeriodTypes
    BY DEF PeriodTypes
  <2> QED
    BY <1>1, <1>2, <1>3, <2>1, Zenon
       DEF AdminStep, DistributeWeeklyRewards, DistributeMonthlyRewards
<1>4. CASE \E type \in PeriodTypes, amount \in FeeShares :
             CollectFee(type, amount) \/ SplDonate(type, amount)
  BY <1>4 DEF CollectFee, SplDonate
<1> QED
  BY <1>3, <1>4 DEF Next

LEMMA TypeNext == TypeOK /\ [Next]_vars => TypeOK'
<1> SUFFICES ASSUME TypeOK, [Next]_vars PROVE TypeOK'
  OBVIOUS
<1>1. CASE UNCHANGED vars
  BY <1>1 DEF TypeOK, vars, configVars, ringVars, moneyVars
<1>2. CASE Next
  <2>1. ASSUME ReinitRewardsPools PROVE TypeOK'
    BY <2>1 DEF TypeOK, ReinitRewardsPools, configVars, ringVars
  <2>2. ASSUME NEW m \in Mints, UpdateUsdcMint(m) PROVE TypeOK'
    BY <2>2 DEF TypeOK, UpdateUsdcMint, ringVars, moneyVars
  <2>3. ASSUME NEW b \in BOOLEAN, Pause(b) PROVE TypeOK'
    BY <2>3 DEF TypeOK, Pause, ringVars, moneyVars
  <2> QED
    BY <1>2, <2>1, <2>2, <2>3, CommitTypes, DistributeTypes, PourTypes, StepCases
<1> QED
  BY <1>1, <1>2

(* Every reachable state of the reward side is well typed: in particular a    *)
(* pool is never overdrawn and the write head stays inside the ring.          *)
THEOREM TypeCorrect == Spec => []TypeOK
<1> QED
  BY TypeInit, TypeNext, PTL DEF Spec

--------------------------------------------------------------------------------
(* The claim bitmaps *)

(* What the history variables say of the ring: each slot holds a commit of    *)
(* its own, payments name commits that took place, and a slot never written   *)
(* has the empty root.                                                        *)
HistoryOK ==
  /\ \A i \in Slots : nth[i] <= commits
  /\ \A i, j \in Slots : nth[i] > 0 /\ nth[i] = nth[j] => i = j
  /\ \A p \in payments : p.commit <= commits
  /\ \A i \in Slots : nth[i] = 0 => entries[i].merkle_root = {}

ClaimsOf(i) ==
  /\ entries[i].claimed_bitmap =
       {metric_position_bit(p.metric, p.rank) : p \in PaidUnder(i)}
  /\ \A p, q \in PaidUnder(i) : p.metric = q.metric /\ p.rank = q.rank => p = q

Bookkeeping == TypeOK /\ HistoryOK /\ BitmapMatchesPayments

LEMMA BookkeepingInit == Init => Bookkeeping
<1> SUFFICES ASSUME Init PROVE Bookkeeping
  OBVIOUS
<1>1. HistoryOK
  BY DEF Init, HistoryOK, EmptyEntry
<1>2. BitmapMatchesPayments
  <2>1. \A i \in Slots : PaidUnder(i) = {}
    BY DEF Init, PaidUnder
  <2> QED
    BY <2>1 DEF BitmapMatchesPayments, Init, EmptyEntry
<1> QED
  BY <1>1, <1>2, TypeInit DEF Bookkeeping

(* A commit starts its slot with no payments and leaves the others theirs. *)
LEMMA CommitBookkeeping ==
  ASSUME Bookkeeping, NEW period \in PeriodIds, NEW type \in PeriodTypes,
         NEW root \in Trees, CommitLeaderboardRoot(period, type, root)
  PROVE  HistoryOK' /\ BitmapMatchesPayments'
<1> DEFINE slot == nextSlot % CAPACITY
<1>1. slot \in Slots
  BY LeaderboardAssumption DEF LeaderboardAssumption, Bookkeeping, TypeOK, Slots
<1> HIDE DEF slot
<1>2. /\ entries' = [entries EXCEPT ![slot] = write_entry_fields(@, period, type, root)]
      /\ commits' = commits + 1
      /\ nth' = [nth EXCEPT ![slot] = commits + 1]
      /\ payments' = payments
  BY DEF CommitLeaderboardRoot, moneyVars, slot
<1>3. entries \in [Slots -> Entry] /\ nth \in [Slots -> Nat] /\ commits \in Nat
  BY DEF Bookkeeping, TypeOK
<1>4. \A p \in payments : p.commit \in Nat /\ p.commit <= commits
  BY DEF Bookkeeping, TypeOK, HistoryOK, Payment
<1>5. HistoryOK'
  BY <1>1, <1>2, <1>3, <1>4 DEF Bookkeeping, HistoryOK
<1>6. ASSUME NEW i \in Slots PROVE ClaimsOf(i)'
  <2>1. CASE i = slot
    <3>1. PaidUnder(i)' = {}
      BY <2>1, <1>1, <1>2, <1>3, <1>4 DEF PaidUnder
    <3>2. entries'[i].claimed_bitmap = {}
      BY <2>1, <1>1, <1>2, <1>3 DEF write_entry_fields, Entry
    <3> QED
      BY <3>1, <3>2 DEF ClaimsOf
  <2>2. CASE i # slot
    <3>1. entries'[i] = entries[i] /\ nth'[i] = nth[i]
      BY <2>2, <1>2, <1>3
    <3>2. PaidUnder(i)' = PaidUnder(i)
      BY <3>1, <1>2 DEF PaidUnder
    <3>3. ClaimsOf(i)
      BY DEF Bookkeeping, BitmapMatchesPayments, ClaimsOf
    <3> QED
      BY <3>1, <3>2, <3>3 DEF ClaimsOf
  <2> QED
    BY <2>1, <2>2
<1> QED
  BY <1>5, <1>6 DEF BitmapMatchesPayments, ClaimsOf

(* A payment adds itself to its slot, at a rank whose bit was clear, and to   *)
(* no other.                                                                  *)
LEMMA DistributeBookkeeping ==
  ASSUME Bookkeeping, NEW type \in PeriodTypes, NEW user \in Users,
         NEW period \in PeriodIds, NEW metric \in Nat, NEW position \in Nat,
         NEW amount \in Amounts,
         DistributeRewards(type, user, period, metric, position, amount)
  PROVE  HistoryOK' /\ BitmapMatchesPayments'
<1> DEFINE bit == metric_position_bit(metric, position)
           new(s) == [commit |-> nth[s], type |-> type, period |-> period,
                      metric |-> metric, rank |-> position, user |-> user,
                      amount |-> amount]
<1>1. PICK slot \in Slots :
        /\ compute_leaf(user, metric, position, amount, period, type)
             \in entries[slot].merkle_root
        /\ bit \notin entries[slot].claimed_bitmap
        /\ MarkClaimed(slot, metric, position)
        /\ payments' = payments \cup {new(slot)}
        /\ UNCHANGED <<nth, commits>>
  BY DEF DistributeRewards
<1>2. entries \in [Slots -> Entry] /\ nth \in [Slots -> Nat] /\ commits \in Nat
  BY DEF Bookkeeping, TypeOK
<1>3. nth[slot] > 0 /\ nth[slot] <= commits
  BY <1>1, <1>2 DEF Bookkeeping, HistoryOK
<1>4. entries' = [entries EXCEPT ![slot].claimed_bitmap = @ \cup {bit}]
  BY <1>1 DEF MarkClaimed
<1>5. \A i \in Slots : entries'[i].merkle_root = entries[i].merkle_root
  BY <1>2, <1>4 DEF Entry
<1>6. HistoryOK'
  BY <1>1, <1>2, <1>3, <1>5 DEF Bookkeeping, HistoryOK
<1>7. ASSUME NEW i \in Slots PROVE ClaimsOf(i)'
  <2>0. ClaimsOf(i)
    BY DEF Bookkeeping, BitmapMatchesPayments, ClaimsOf
  <2>1. CASE i = slot
    <3>1. PaidUnder(i)' = PaidUnder(i) \cup {new(slot)}
      BY <2>1, <1>1, <1>2, <1>3 DEF PaidUnder
    <3>2. entries'[i].claimed_bitmap = entries[i].claimed_bitmap \cup {bit}
      <4> HIDE DEF bit
      <4>1. entries[slot] \in Entry
        BY <1>2
      <4>2. entries'[slot] = [entries[slot] EXCEPT !.claimed_bitmap = @ \cup {bit}]
        BY <1>2, <1>4
      <4> QED
        BY <2>1, <4>1, <4>2 DEF Entry
    <3>3. \A p \in PaidUnder(i) : ~(p.metric = metric /\ p.rank = position)
      BY <2>0, <2>1, <1>1 DEF ClaimsOf
    <3>4. entries'[i].claimed_bitmap =
            {metric_position_bit(p.metric, p.rank) : p \in PaidUnder(i)'}
      <4> DEFINE bitOf(p) == metric_position_bit(p.metric, p.rank)
      <4>1. bitOf(new(slot)) = bit
        OBVIOUS
      <4>2. entries[i].claimed_bitmap = {bitOf(p) : p \in PaidUnder(i)}
        BY <2>0 DEF ClaimsOf
      <4> HIDE DEF bitOf, bit, new
      <4>3. entries'[i].claimed_bitmap = {bitOf(p) : p \in PaidUnder(i) \cup {new(slot)}}
        BY <3>2, <4>1, <4>2
      <4> QED
        BY <3>1, <4>3 DEF bitOf
    <3>5. \A p, q \in PaidUnder(i)' : p.metric = q.metric /\ p.rank = q.rank => p = q
      BY <3>1, <3>3, <2>0 DEF ClaimsOf
    <3> QED
      BY <3>4, <3>5 DEF ClaimsOf
  <2>2. CASE i # slot
    <3>1. entries'[i] = entries[i]
      BY <2>2, <1>2, <1>4
    <3>2. nth[i] > 0 => nth[i] # nth[slot]
      BY <2>2 DEF Bookkeeping, HistoryOK
    <3>3. PaidUnder(i)' = PaidUnder(i)
      BY <3>2, <1>1, <1>2 DEF PaidUnder
    <3> QED
      BY <3>1, <3>3, <2>0 DEF ClaimsOf
  <2> QED
    BY <2>1, <2>2
<1> QED
  BY <1>6, <1>7 DEF BitmapMatchesPayments, ClaimsOf

(* Everything else leaves the ring and the payments alone. *)
LEMMA RestBookkeeping ==
  ASSUME Bookkeeping, UNCHANGED <<ringVars, payments>>
  PROVE  HistoryOK' /\ BitmapMatchesPayments'
<1>1. UNCHANGED <<entries, nth, commits, payments>>
  BY DEF ringVars
<1>2. \A i \in Slots : PaidUnder(i)' = PaidUnder(i)
  BY <1>1 DEF PaidUnder
<1> QED
  BY <1>1, <1>2 DEF Bookkeeping, HistoryOK, BitmapMatchesPayments

LEMMA BookkeepingNext == Bookkeeping /\ [Next]_vars => Bookkeeping'
<1> SUFFICES ASSUME Bookkeeping, [Next]_vars PROVE HistoryOK' /\ BitmapMatchesPayments'
  BY TypeNext DEF Bookkeeping
<1>1. CASE UNCHANGED vars
  BY <1>1, RestBookkeeping DEF vars, moneyVars
<1>2. CASE Next
  <2>1. ASSUME ReinitRewardsPools PROVE UNCHANGED <<ringVars, payments>>
    BY <2>1 DEF ReinitRewardsPools
  <2>2. ASSUME NEW m \in Mints, UpdateUsdcMint(m) PROVE UNCHANGED <<ringVars, payments>>
    BY <2>2 DEF UpdateUsdcMint, moneyVars
  <2>3. ASSUME NEW b \in BOOLEAN, Pause(b) PROVE UNCHANGED <<ringVars, payments>>
    BY <2>3 DEF Pause, moneyVars
  <2>4. ASSUME NEW type \in PeriodTypes, NEW amount \in FeeShares, Pour(type, amount)
        PROVE  UNCHANGED <<ringVars, payments>>
    BY <2>4 DEF Pour
  <2> QED
    BY <1>2, <2>1, <2>2, <2>3, <2>4, CommitBookkeeping, DistributeBookkeeping,
       RestBookkeeping, StepCases
<1> QED
  BY <1>1, <1>2

(* However the ring rotates, the bitmap of every root in it marks exactly the *)
(* ranks paid under that root, and none of them was paid twice.               *)
THEOREM ClaimsAreExact == Spec => []BitmapMatchesPayments
<1>1. Bookkeeping => BitmapMatchesPayments
  BY DEF Bookkeeping
<1> QED
  BY <1>1, BookkeepingInit, BookkeepingNext, PTL DEF Spec

--------------------------------------------------------------------------------
(* What stays payable *)

(* The ring fills from its first slot on, and what is paid has a bit.         *)
RingFills ==
  /\ commits < CAPACITY => nextSlot = commits
  /\ \A i \in Slots : nth[i] > 0 <=> i < commits
  /\ \A p \in payments : p.metric < METRIC_COUNT /\ p.rank \in 1..POSITIONS_PER_METRIC

LEMMA RingFillsInit == Init => RingFills
<1> SUFFICES ASSUME Init PROVE RingFills
  OBVIOUS
<1> QED
  BY LeaderboardAssumption DEF LeaderboardAssumption, Init, RingFills, Slots

(* A number below n is its own remainder. *)
LEMMA OwnRemainder ==
  ASSUME NEW n \in Nat \ {0}, NEW k \in 0..n - 1
  PROVE  k % n = k
<1>1. k = n * (k \div n) + (k % n) /\ k % n \in 0..n - 1 /\ k \div n \in Int
  OBVIOUS
<1>2. PICK q \in Int, r \in 0..n - 1 : q = k \div n /\ r = k % n /\ k = n * q + r
  BY <1>1
<1>3. q >= 1 => n * q >= n
  OBVIOUS
<1>4. q <= -1 => n * q <= -n
  OBVIOUS
<1>5. n * 0 = 0
  OBVIOUS
<1>6. q = 0
  BY <1>2, <1>3, <1>4
<1> QED
  BY <1>2, <1>5, <1>6

LEMMA CommitFills ==
  ASSUME Bookkeeping, RingFills, NEW period, NEW type, NEW root,
         CommitLeaderboardRoot(period, type, root)
  PROVE  RingFills'
<1>1. /\ nextSlot \in Slots /\ commits \in Nat /\ nth \in [Slots -> Nat]
      /\ CAPACITY \in Nat \ {0} /\ nextSlot \in 0..CAPACITY - 1
  BY LeaderboardAssumption DEF LeaderboardAssumption, Bookkeeping, TypeOK, Slots
<1>2. nextSlot % CAPACITY = nextSlot
  BY <1>1, OwnRemainder
<1>3. /\ nextSlot' = (nextSlot + 1) % CAPACITY /\ commits' = commits + 1
      /\ nth' = [nth EXCEPT ![nextSlot] = commits + 1] /\ payments' = payments
  BY <1>2 DEF CommitLeaderboardRoot, next_ring_slot, moneyVars
<1>4. commits' < CAPACITY => nextSlot' = commits'
  <2> SUFFICES ASSUME commits + 1 < CAPACITY PROVE nextSlot' = commits + 1
    BY <1>3
  <2>1. nextSlot = commits /\ commits + 1 \in 0..CAPACITY - 1
    BY <1>1 DEF RingFills
  <2>2. (commits + 1) % CAPACITY = commits + 1
    BY <1>1, <2>1, OwnRemainder
  <2> QED
    BY <1>3, <2>1, <2>2
<1>5. ASSUME NEW i \in Slots PROVE nth'[i] > 0 <=> i < commits'
  <2>1. i \in 0..CAPACITY - 1 /\ (nth[i] > 0 <=> i < commits)
    BY DEF Slots, RingFills
  <2>2. CASE i = nextSlot
    <3>1. nth'[i] = commits + 1
      BY <1>1, <1>3, <2>2
    <3>2. i < commits + 1
      BY <1>1, <2>1, <2>2 DEF RingFills
    <3> QED
      BY <1>1, <1>3, <3>1, <3>2
  <2>3. CASE i # nextSlot
    <3>1. nth'[i] = nth[i]
      BY <1>1, <1>3, <2>3
    <3>2. i < commits + 1 => i < commits
      BY <1>1, <2>1, <2>3 DEF RingFills
    <3> QED
      BY <1>1, <1>3, <2>1, <3>1, <3>2
  <2> QED
    BY <2>2, <2>3
<1> QED
  BY <1>3, <1>4, <1>5 DEF RingFills

LEMMA PayFills ==
  ASSUME RingFills, NEW type, NEW user, NEW period, NEW metric, NEW position, NEW amount,
         DistributeRewards(type, user, period, metric, position, amount)
  PROVE  RingFills'
<1>1. PICK slot \in Slots :
        /\ metric < METRIC_COUNT /\ position \in 1..POSITIONS_PER_METRIC
        /\ payments' = payments \cup
             {[commit |-> nth[slot], type |-> type, period |-> period, metric |-> metric,
               rank |-> position, user |-> user, amount |-> amount]}
        /\ UNCHANGED <<nextSlot, nth, commits>>
  BY DEF DistributeRewards, is_valid_metric_id, is_valid_position
<1> QED
  BY <1>1 DEF RingFills

LEMMA RingFillsNext == Bookkeeping /\ RingFills /\ [Next]_vars => RingFills'
<1> SUFFICES ASSUME Bookkeeping, RingFills, [Next]_vars PROVE RingFills'
  OBVIOUS
<1>1. ASSUME UNCHANGED <<ringVars, payments>> PROVE RingFills'
  BY <1>1 DEF ringVars, RingFills
<1>2. CASE UNCHANGED vars
  BY <1>1, <1>2 DEF vars, moneyVars
<1>3. CASE Next
  <2>1. ASSUME ReinitRewardsPools PROVE RingFills'
    BY <1>1, <2>1 DEF ReinitRewardsPools
  <2>2. ASSUME NEW m \in Mints, UpdateUsdcMint(m) PROVE RingFills'
    BY <1>1, <2>2 DEF UpdateUsdcMint, moneyVars
  <2>3. ASSUME NEW b \in BOOLEAN, Pause(b) PROVE RingFills'
    BY <1>1, <2>3 DEF Pause, moneyVars
  <2>4. ASSUME NEW type \in PeriodTypes, NEW amount \in FeeShares, Pour(type, amount)
        PROVE  RingFills'
    BY <1>1, <2>4 DEF Pour
  <2> QED
    BY <1>3, <2>1, <2>2, <2>3, <2>4, CommitFills, PayFills, StepCases
<1> QED
  BY <1>2, <1>3

(* The leaves of a root committed once whose ranks were not paid under it and *)
(* that the pool has the funds for.                                           *)
Payable(i, leaf) ==
  LET e == entries[i] IN
  /\ nth[i] > 0 /\ OnlyCommit(i)
  /\ leaf \in e.merkle_root
  /\ leaf.period_id = e.period_id % PERIOD_WIDTH
  /\ leaf.period_type = e.period_type
  /\ is_valid_metric_id(leaf.metric) /\ is_valid_position(leaf.rank)
  /\ leaf.amount \in 1..pool[e.period_type].amount
  /\ \A p \in PaidUnder(i) : ~(p.metric = leaf.metric /\ p.rank = leaf.rank)
  /\ ~paused

(* The guards of the instruction that pays a leaf. *)
PayoutCovered(slot, type, period, leaf) ==
  /\ PayoutOpen
  /\ is_valid_metric_id(leaf.metric) /\ is_valid_position(leaf.rank) /\ leaf.amount > 0
  /\ IsFound(slot, period, type)
  /\ compute_leaf(leaf.user, leaf.metric, leaf.rank, leaf.amount, period, type)
       \in entries[slot].merkle_root
  /\ metric_position_bit(leaf.metric, leaf.rank) \notin entries[slot].claimed_bitmap
  /\ leaf.amount <= pool[type].amount

RootsCovered ==
  \A i \in Slots, leaf \in Leaf :
    Payable(i, leaf) =>
      PayoutCovered(i, entries[i].period_type, entries[i].period_id, leaf)

(* A root committed once stays payable while it is in the ring: the linear    *)
(* scan finds it, its unpaid ranks have a clear bit, and the guards of the    *)
(* payment are met: what RecentRootsPayable asks, with ENABLED replaced by    *)
(* the guards it stands for.                                                  *)
THEOREM RootsCoveredCorrect == Spec => []RootsCovered
<1>1. Bookkeeping /\ RingFills => RootsCovered
  <2> SUFFICES ASSUME Bookkeeping, RingFills, NEW i \in Slots, NEW leaf \in Leaf,
                      Payable(i, leaf)
               PROVE  PayoutCovered(i, entries[i].period_type, entries[i].period_id, leaf)
    BY DEF RootsCovered
  <2>1. /\ entries \in [Slots -> Entry] /\ entries[i] \in Entry /\ nth \in [Slots -> Nat]
        /\ commits \in Nat /\ pool[entries[i].period_type].amount \in Nat
    BY DEF Bookkeeping, TypeOK, Entry
  <2>2. IsFound(i, entries[i].period_id, entries[i].period_type)
    <3>1. ASSUME NEW j \in Matches(entries[i].period_id, entries[i].period_type) PROVE i <= j
      <4>1. j \in Slots /\ i \in Int /\ j \in Int
        BY DEF Matches, Slots
      <4>2. nth[j] > 0 => j = i
        BY <4>1 DEF Payable, OnlyCommit, Matches
      <4>3. nth[i] > 0 /\ (nth[i] > 0 <=> i < commits) /\ (nth[j] > 0 <=> j < commits)
        BY <4>1 DEF Payable, RingFills
      <4> QED
        BY <2>1, <4>1, <4>2, <4>3
    <3> QED
      BY <3>1 DEF IsFound, Matches
  <2>3. compute_leaf(leaf.user, leaf.metric, leaf.rank, leaf.amount, entries[i].period_id,
                     entries[i].period_type) = leaf
    <3>1. leaf.period_id = entries[i].period_id % PERIOD_WIDTH
          /\ leaf.period_type = entries[i].period_type
      BY DEF Payable
    <3> QED
      BY <3>1 DEF compute_leaf, Leaf
  <2>4. metric_position_bit(leaf.metric, leaf.rank) \notin entries[i].claimed_bitmap
    <3> SUFFICES ASSUME metric_position_bit(leaf.metric, leaf.rank) \in entries[i].claimed_bitmap
                 PROVE  FALSE
      OBVIOUS
    <3>1. PICK p \in PaidUnder(i) :
            metric_position_bit(leaf.metric, leaf.rank) = metric_position_bit(p.metric, p.rank)
      BY DEF Bookkeeping, BitmapMatchesPayments
    <3>2. /\ p.metric \in Nat /\ is_valid_metric_id(p.metric) /\ p.rank \in 1..POSITIONS_PER_METRIC
          /\ leaf.metric \in Nat /\ is_valid_metric_id(leaf.metric)
          /\ leaf.rank \in 1..POSITIONS_PER_METRIC
      BY DEF PaidUnder, Bookkeeping, TypeOK, Payment, RingFills, Leaf, Payable,
             is_valid_metric_id, is_valid_position
    <3>3. leaf.metric = p.metric /\ leaf.rank = p.rank
      BY <3>1, <3>2, BitsDisjoint
    <3> QED
      BY <3>3 DEF Payable
  <2>5. leaf.amount > 0 /\ leaf.amount <= pool[entries[i].period_type].amount
    BY <2>1 DEF Payable
  <2> QED
    BY <2>2, <2>3, <2>4, <2>5 DEF Payable, PayoutCovered, PayoutOpen
<1> QED
  BY <1>1, BookkeepingInit, BookkeepingNext, RingFillsInit, RingFillsNext, PTL DEF Spec

--------------------------------------------------------------------------------
(* Conservation *)

(* What the pools p hold of mint m, and what the wallets hold of it when they *)
(* have received r; what they hold in all; and what payments P add up to.     *)
PoolPart(p, m) == [t \in PeriodTypes |-> IF p[t].mint = m THEN p[t].amount ELSE 0]

WalletPart(r, m) == [u \in Users |-> r[u][m]]

PoolsHold(p, m) == SumFunctionOnSet(PoolPart(p, m), PeriodTypes)

WalletsHold(r, m) == SumFunctionOnSet(WalletPart(r, m), Users)

HeldByMint(r) == [m \in Mints |-> WalletsHold(r, m)]

HeldInAll(r) == SumFunctionOnSet(HeldByMint(r), Mints)

PaidOut(P) == SumFunctionOnSet([p \in P |-> p.amount], P)

Pools == [PeriodTypes -> [mint : Mints, amount : Nat]]

Wallets == [Users -> [Mints -> Nat]]

(* The pools q and wallets q after d was added to a pool or paid to a wallet. *)
PoolMoved(q, p, type, d) == q = [p EXCEPT ![type].amount = @ + d]

WalletPaid(q, r, user, mint, d) == q = [r EXCEPT ![user][mint] = @ + d]

(* The amount, at the mint it is in. *)
At(mint, m, amount) == IF m = mint THEN amount ELSE 0

(* The sets summed over are finite. *)
LEMMA FiniteSums ==
  IsFiniteSet(PeriodTypes) /\ IsFiniteSet(Users) /\ IsFiniteSet(Mints)
<1>1. IsFiniteSet({"Weekly"} \cup {"Monthly"})
  BY FS_Singleton, FS_Union
<1>2. PeriodTypes = {"Weekly"} \cup {"Monthly"}
  BY DEF PeriodTypes
<1> QED
  BY <1>1, <1>2, LeaderboardAssumption DEF LeaderboardAssumption

(* Pools hold natural amounts. *)
LEMMA PoolsNat ==
  ASSUME NEW p \in Pools, NEW m
  PROVE  PoolsHold(p, m) \in Nat /\ \A t \in PeriodTypes : PoolPart(p, m)[t] \in Nat
<1>1. \A t \in PeriodTypes : PoolPart(p, m)[t] \in Nat
  BY DEF Pools, PoolPart
<1> QED
  BY <1>1, FiniteSums, SumNat DEF PoolsHold

(* Wallets hold natural amounts. *)
LEMMA WalletsNat ==
  ASSUME NEW r \in Wallets, NEW m \in Mints
  PROVE  WalletsHold(r, m) \in Nat /\ \A u \in Users : WalletPart(r, m)[u] \in Nat
<1>1. \A u \in Users : WalletPart(r, m)[u] \in Nat
  BY DEF Wallets, WalletPart
<1> QED
  BY <1>1, FiniteSums, SumNat DEF WalletsHold

(* A pool whose amount changes changes what the pools hold of its mint. *)
LEMMA PoolsChange ==
  ASSUME NEW p \in Pools, NEW q \in Pools, NEW type \in PeriodTypes, NEW d \in Int,
         PoolMoved(q, p, type, d), NEW m
  PROVE  PoolsHold(q, m) = PoolsHold(p, m) + At(p[type].mint, m, d)
<1> DEFINE f == PoolPart(p, m)
           g == PoolPart(q, m)
<1>1. \A t \in PeriodTypes : f[t] \in Int /\ g[t] \in Int
  <2>1. \A t \in PeriodTypes : f[t] \in Nat
    BY PoolsNat
  <2>2. \A t \in PeriodTypes : g[t] \in Nat
    BY PoolsNat
  <2> HIDE DEF f, g
  <2> QED
    BY <2>1, <2>2
<1>2. \A t \in PeriodTypes : t # type => f[t] = g[t]
  <2>1. \A t \in PeriodTypes : t # type => p[t] = q[t]
    BY DEF Pools, PoolMoved
  <2> QED
    BY <2>1 DEF PoolPart
<1>3. g[type] = f[type] + At(p[type].mint, m, d)
  <2>1. q[type].mint = p[type].mint /\ q[type].amount = p[type].amount + d
    BY DEF Pools, PoolMoved
  <2>2. p[type].amount \in Nat
    BY DEF Pools
  <2> QED
    BY <2>1, <2>2 DEF PoolPart, At
<1>4. PoolsHold(p, m) = SumFunctionOnSet(f, PeriodTypes)
  BY DEF PoolsHold
<1>5. PoolsHold(q, m) = SumFunctionOnSet(g, PeriodTypes)
  BY DEF PoolsHold
<1>6. At(p[type].mint, m, d) \in Int
  BY DEF At
<1> HIDE DEF f, g
<1>7. SumFunctionOnSet(g, PeriodTypes)
        = SumFunctionOnSet(f, PeriodTypes) - f[type] + g[type]
  <2>1. IsFiniteSet(PeriodTypes) /\ type \in PeriodTypes
    BY FiniteSums
  <2> QED
    BY <1>1, <1>2, <2>1, SumChange
<1>8. SumFunctionOnSet(f, PeriodTypes) \in Int
  BY <1>1, FiniteSums, SumInt
<1> QED
  BY <1>1, <1>3, <1>4, <1>5, <1>6, <1>7, <1>8

(* Pools with nothing inside hold nothing. *)
LEMMA PoolsEmpty ==
  ASSUME NEW p \in Pools, \A t \in PeriodTypes : p[t].amount = 0, NEW m
  PROVE  PoolsHold(p, m) = 0
<1>1. PoolPart(p, m) = [t \in PeriodTypes |-> 0]
  BY DEF PoolPart
<1> QED
  BY <1>1, FiniteSums, SumZero DEF PoolsHold

(* A wallet that receives adds to what the wallets hold of that mint, and in  *)
(* all.                                                                       *)
LEMMA WalletsChange ==
  ASSUME NEW r \in Wallets, NEW q \in Wallets, NEW user \in Users, NEW mint \in Mints,
         NEW d \in Nat, WalletPaid(q, r, user, mint, d)
  PROVE  /\ \A m \in Mints : WalletsHold(q, m) = WalletsHold(r, m) + At(mint, m, d)
         /\ HeldInAll(q) = HeldInAll(r) + d
<1>1. ASSUME NEW m \in Mints
      PROVE  WalletsHold(q, m) = WalletsHold(r, m) + At(mint, m, d)
  <2> DEFINE f == WalletPart(r, m)
             g == WalletPart(q, m)
  <2>1. \A u \in Users : f[u] \in Int /\ g[u] \in Int
    <3>1. \A u \in Users : f[u] \in Nat
      BY WalletsNat
    <3>2. \A u \in Users : g[u] \in Nat
      BY WalletsNat
    <3> HIDE DEF f, g
    <3> QED
      BY <3>1, <3>2
  <2>2. \A u \in Users : u # user => f[u] = g[u]
    <3>1. \A u \in Users : u # user => r[u] = q[u]
      BY DEF Wallets, WalletPaid
    <3> QED
      BY <3>1 DEF WalletPart
  <2>3. g[user] = f[user] + At(mint, m, d)
    <3>1. r[user] \in [Mints -> Nat] /\ q[user] = [r[user] EXCEPT ![mint] = @ + d]
      BY DEF Wallets, WalletPaid
    <3>2. q[user][m] = r[user][m] + At(mint, m, d)
      BY <3>1 DEF At
    <3> QED
      BY <3>2 DEF WalletPart
  <2>4. WalletsHold(r, m) = SumFunctionOnSet(f, Users)
    BY DEF WalletsHold
  <2>5. WalletsHold(q, m) = SumFunctionOnSet(g, Users)
    BY DEF WalletsHold
  <2>6. At(mint, m, d) \in Int
    BY DEF At
  <2> HIDE DEF f, g
  <2>7. SumFunctionOnSet(g, Users) = SumFunctionOnSet(f, Users) - f[user] + g[user]
    BY <2>1, <2>2, FiniteSums, SumChange
  <2>8. SumFunctionOnSet(f, Users) \in Int
    BY <2>1, FiniteSums, SumInt
  <2> QED
    BY <2>1, <2>3, <2>4, <2>5, <2>6, <2>7, <2>8
<1> DEFINE W == HeldByMint(r)
           V == HeldByMint(q)
<1>2. \A m \in Mints : W[m] \in Int /\ V[m] \in Int
  <2>1. \A m \in Mints : W[m] \in Nat /\ V[m] \in Nat
    BY WalletsNat DEF HeldByMint
  <2> HIDE DEF W, V
  <2> QED
    BY <2>1
<1>3. \A m \in Mints : V[m] = W[m] + At(mint, m, d)
  BY <1>1 DEF HeldByMint
<1> HIDE DEF W, V
<1>4. \A m \in Mints : m # mint => W[m] = V[m]
  BY <1>2, <1>3 DEF At
<1>5. V[mint] = W[mint] + d
  BY <1>3 DEF At
<1>6. SumFunctionOnSet(V, Mints) = SumFunctionOnSet(W, Mints) - W[mint] + V[mint]
  BY <1>2, <1>4, FiniteSums, SumChange
<1>7. SumFunctionOnSet(W, Mints) \in Int
  BY <1>2, FiniteSums, SumInt
<1>8. SumFunctionOnSet(V, Mints) = SumFunctionOnSet(W, Mints) + d
  BY <1>2, <1>5, <1>6, <1>7
<1> QED
  BY <1>1, <1>8 DEF HeldInAll, V, W

(* One payment more adds its amount. *)
LEMMA PaidMore ==
  ASSUME NEW P \in SUBSET Payment, IsFiniteSet(P), NEW e \in Payment, e \notin P
  PROVE  /\ IsFiniteSet(P \cup {e})
         /\ PaidOut(P \cup {e}) = PaidOut(P) + e.amount
<1> DEFINE Q == P \cup {e}
           f == [p \in P |-> p.amount]
           g == [p \in Q |-> p.amount]
<1>1. \A p \in Payment : p.amount \in Nat
  BY DEF Payment
<1>2. IsFiniteSet(Q)
  BY FS_AddElement
<1>3. /\ Q \ {e} = P /\ e \in Q /\ g[e] = e.amount
      /\ \A p \in Q : g[p] \in Int
      /\ \A p \in P : f[p] = g[p] /\ f[p] \in Int
  BY <1>1
<1>4. PaidOut(P) = SumFunctionOnSet(f, P)
  BY DEF PaidOut
<1>5. PaidOut(Q) = SumFunctionOnSet(g, Q)
  BY DEF PaidOut
<1> HIDE DEF f, g, Q
<1>6. SumFunctionOnSet(g, Q) = g[e] + SumFunctionOnSet(g, Q \ {e})
  BY <1>2, <1>3, SumRemove
<1>7. SumFunctionOnSet(f, P) = SumFunctionOnSet(g, P)
  BY <1>3, SumEqual
<1>8. SumFunctionOnSet(f, P) \in Int /\ e.amount \in Int
  BY <1>1, <1>3, SumInt
<1>9. SumFunctionOnSet(g, Q) = e.amount + SumFunctionOnSet(f, P)
  BY <1>3, <1>6, <1>7
<1>10. PaidOut(Q) = PaidOut(P) + e.amount
  BY <1>4, <1>5, <1>8, <1>9
<1> QED
  BY <1>2, <1>10 DEF Q

(* Every unit that came in is in a pool or in a wallet, and every unit in a   *)
(* wallet was paid.                                                           *)
Conserved ==
  /\ \A m \in Mints : PoolsHold(pool, m) + WalletsHold(received, m) = inflow[m]
  /\ HeldInAll(received) = PaidOut(payments)

(* A sum of payments needs finitely many of them; that no payment is made     *)
(* twice, so that each adds its amount, is what the bitmaps ensure.           *)
Ledger == Bookkeeping /\ IsFiniteSet(payments) /\ Conserved

(* The types, under the names the lemmas above use. *)
LEMMA LedgerTypes ==
  ASSUME TypeOK
  PROVE  /\ pool \in Pools /\ received \in Wallets /\ inflow \in [Mints -> Nat]
         /\ payments \in SUBSET Payment
  BY DEF TypeOK, Pools, Wallets

(* Nothing has come in and nothing was paid. *)
LEMMA LedgerInit == Init => Ledger
<1> SUFFICES ASSUME Init PROVE Ledger
  OBVIOUS
<1>0. TypeOK
  BY TypeInit
<1>1. \A m \in Mints : PoolsHold(pool, m) = 0
  <2>1. \A t \in PeriodTypes : pool[t].amount = 0
    BY DEF Init
  <2> QED
    BY <1>0, <2>1, LedgerTypes, PoolsEmpty
<1>2. ASSUME NEW m \in Mints PROVE WalletsHold(received, m) = 0
  <2>1. WalletPart(received, m) = [u \in Users |-> 0]
    BY DEF Init, WalletPart
  <2> QED
    BY <2>1, FiniteSums, SumZero DEF WalletsHold
<1>3. HeldInAll(received) = 0
  <2>1. HeldByMint(received) = [m \in Mints |-> 0]
    BY <1>2 DEF HeldByMint
  <2> QED
    BY <2>1, FiniteSums, SumZero DEF HeldInAll
<1>4. payments = {} /\ PaidOut({}) = 0 /\ IsFiniteSet({})
  BY SumEmpty, FS_EmptySet DEF Init, PaidOut
<1>5. \A m \in Mints : inflow[m] = 0
  BY DEF Init
<1> QED
  BY <1>1, <1>2, <1>3, <1>4, <1>5, BookkeepingInit DEF Ledger, Conserved

(* A payment moves its amount from a pool to a wallet, and is a new one. *)
LEMMA DistributeConserves ==
  ASSUME Ledger, TypeOK', NEW type \in PeriodTypes, NEW user \in Users,
         NEW period \in PeriodIds, NEW metric \in Nat, NEW position \in Nat,
         NEW amount \in Amounts,
         DistributeRewards(type, user, period, metric, position, amount)
  PROVE  IsFiniteSet(payments') /\ Conserved'
<1> DEFINE mint == pool[type].mint
           new(s) == [commit |-> nth[s], type |-> type, period |-> period,
                      metric |-> metric, rank |-> position, user |-> user,
                      amount |-> amount]
<1>1. PICK slot \in Slots :
        /\ compute_leaf(user, metric, position, amount, period, type)
             \in entries[slot].merkle_root
        /\ metric_position_bit(metric, position) \notin entries[slot].claimed_bitmap
        /\ pool' = [pool EXCEPT ![type].amount = @ - amount]
        /\ received' = [received EXCEPT ![user][mint] = @ + amount]
        /\ payments' = payments \cup {new(slot)}
        /\ UNCHANGED inflow
  BY DEF DistributeRewards
<1>2. TypeOK /\ HistoryOK /\ BitmapMatchesPayments /\ Conserved /\ IsFiniteSet(payments)
  BY DEF Ledger, Bookkeeping
<1>3. amount \in Nat /\ -amount \in Int
  BY LeaderboardAssumption DEF LeaderboardAssumption
<1>4. mint \in Mints
  BY <1>2 DEF TypeOK
<1>5. /\ pool \in Pools /\ received \in Wallets /\ payments \in SUBSET Payment
      /\ pool' \in Pools /\ received' \in Wallets /\ payments' \in SUBSET Payment
  BY <1>2 DEF TypeOK, Pools, Wallets
<1>6. PoolMoved(pool', pool, type, -amount)
  <2>1. pool[type].amount \in Nat
    BY <1>2 DEF TypeOK
  <2>2. pool[type].amount - amount = pool[type].amount + (-amount)
    BY <1>3, <2>1
  <2> QED
    BY <1>1, <2>2 DEF PoolMoved
<1>p. WalletPaid(received', received, user, mint, amount)
  BY <1>1 DEF WalletPaid
<1>7. new(slot) \notin payments
  <2> SUFFICES ASSUME new(slot) \in payments PROVE FALSE
    OBVIOUS
  <2>1. nth[slot] \in Nat /\ nth[slot] # 0
    BY <1>1, <1>2 DEF HistoryOK, TypeOK
  <2>2. new(slot) \in PaidUnder(slot)
    BY <2>1 DEF PaidUnder
  <2>3. metric_position_bit(new(slot).metric, new(slot).rank)
          \in {metric_position_bit(p.metric, p.rank) : p \in PaidUnder(slot)}
    BY <2>2
  <2>4. metric_position_bit(metric, position) \in entries[slot].claimed_bitmap
    BY <1>2, <2>3 DEF BitmapMatchesPayments
  <2> QED
    BY <1>1, <2>4
<1>8. new(slot) \in Payment /\ new(slot).amount = amount
  BY <1>1, <1>5
<1> HIDE DEF mint, new
<1>9. /\ IsFiniteSet(payments')
      /\ PaidOut(payments') = PaidOut(payments) + amount
  BY <1>1, <1>2, <1>5, <1>7, <1>8, PaidMore
<1>10. /\ \A m \in Mints : WalletsHold(received', m)
                             = WalletsHold(received, m) + At(mint, m, amount)
       /\ HeldInAll(received') = HeldInAll(received) + amount
  BY <1>3, <1>4, <1>5, <1>p, WalletsChange
<1>11. ASSUME NEW m \in Mints
       PROVE  PoolsHold(pool', m) + WalletsHold(received', m) = inflow'[m]
  <2>1. PoolsHold(pool', m) = PoolsHold(pool, m) + At(pool[type].mint, m, -amount)
    BY <1>3, <1>5, <1>6, PoolsChange
  <2>2. At(pool[type].mint, m, -amount) = -At(mint, m, amount)
    BY <1>3 DEF At, mint
  <2>3. At(mint, m, amount) \in Nat
    BY <1>3 DEF At
  <2>4. PoolsHold(pool, m) \in Nat /\ WalletsHold(received, m) \in Nat
    BY <1>5, PoolsNat, WalletsNat
  <2>5. PoolsHold(pool, m) + WalletsHold(received, m) = inflow[m]
    BY <1>2 DEF Conserved
  <2>6. WalletsHold(received', m) = WalletsHold(received, m) + At(mint, m, amount)
    BY <1>10
  <2>7. PoolsHold(pool', m) + WalletsHold(received', m)
          = PoolsHold(pool, m) + WalletsHold(received, m)
    BY <2>1, <2>2, <2>3, <2>4, <2>6
  <2> QED
    BY <1>1, <2>5, <2>7
<1>12. HeldInAll(received') = PaidOut(payments')
  BY <1>2, <1>9, <1>10 DEF Conserved
<1> QED
  BY <1>9, <1>11, <1>12 DEF Conserved

(* What flows in is in the pool it flowed to. *)
LEMMA PourConserves ==
  ASSUME Ledger, TypeOK', NEW type \in PeriodTypes, NEW amount \in FeeShares,
         Pour(type, amount)
  PROVE  IsFiniteSet(payments') /\ Conserved'
<1> DEFINE mint == pool[type].mint
<1>1. /\ pool' = [pool EXCEPT ![type].amount = @ + amount]
      /\ inflow' = [inflow EXCEPT ![mint] = @ + amount]
      /\ received' = received
      /\ payments' = payments
  BY DEF Pour
<1>2. TypeOK /\ Conserved /\ IsFiniteSet(payments)
  BY DEF Ledger, Bookkeeping
<1>3. amount \in Nat /\ amount \in Int
  BY LeaderboardAssumption DEF LeaderboardAssumption
<1>4. /\ pool \in Pools /\ pool' \in Pools /\ received \in Wallets
      /\ inflow \in [Mints -> Nat] /\ mint \in Mints
  BY <1>2 DEF TypeOK, Pools, Wallets
<1>5. ASSUME NEW m \in Mints
      PROVE  PoolsHold(pool', m) + WalletsHold(received', m) = inflow'[m]
  <2>1. PoolsHold(pool', m) = PoolsHold(pool, m) + At(mint, m, amount)
    <3>1. PoolMoved(pool', pool, type, amount)
      BY <1>1 DEF PoolMoved
    <3> QED
      BY <1>3, <1>4, <3>1, PoolsChange
  <2>2. inflow'[m] = inflow[m] + At(mint, m, amount)
    BY <1>1, <1>3, <1>4 DEF At
  <2>3. PoolsHold(pool, m) + WalletsHold(received, m) = inflow[m]
    BY <1>2 DEF Conserved
  <2>4. PoolsHold(pool, m) \in Nat /\ WalletsHold(received, m) \in Nat
    BY <1>4, PoolsNat, WalletsNat
  <2>5. At(mint, m, amount) \in Nat
    BY <1>3 DEF At
  <2> QED
    BY <1>1, <2>1, <2>2, <2>3, <2>4, <2>5
<1> QED
  BY <1>1, <1>2, <1>5 DEF Conserved

(* Pools are re-created only when there is nothing inside. *)
LEMMA ReinitConserves ==
  ASSUME Ledger, TypeOK', ReinitRewardsPools
  PROVE  IsFiniteSet(payments') /\ Conserved'
<1>1. /\ \A t \in PeriodTypes : pool[t].amount = 0 /\ pool'[t].amount = 0
      /\ UNCHANGED <<received, inflow, payments>>
  BY DEF ReinitRewardsPools, Emptied
<1>2. TypeOK /\ Conserved /\ IsFiniteSet(payments)
  BY DEF Ledger, Bookkeeping
<1>3. pool \in Pools /\ pool' \in Pools
  BY <1>2 DEF TypeOK, Pools
<1>4. \A m \in Mints : PoolsHold(pool, m) = 0
  BY <1>1, <1>3, PoolsEmpty
<1>5. \A m \in Mints : PoolsHold(pool', m) = 0
  BY <1>1, <1>3, PoolsEmpty
<1> QED
  BY <1>1, <1>2, <1>4, <1>5 DEF Conserved

LEMMA LedgerNext == Ledger /\ [Next]_vars => Ledger'
<1> SUFFICES ASSUME Ledger, [Next]_vars PROVE Ledger'
  OBVIOUS
<1>1. Bookkeeping' /\ TypeOK'
  BY BookkeepingNext DEF Ledger, Bookkeeping
<1>2. ASSUME UNCHANGED moneyVars PROVE Ledger'
  BY <1>1, <1>2 DEF Ledger, Conserved, moneyVars
<1>3. CASE UNCHANGED vars
  BY <1>2, <1>3 DEF vars
<1>4. CASE Next
  <2>1. ASSUME NEW period \in PeriodIds, NEW type \in PeriodTypes, NEW root \in Trees,
               CommitLeaderboardRoot(period, type, root)
        PROVE  Ledger'
    BY <1>2, <2>1 DEF CommitLeaderboardRoot
  <2>2. ASSUME NEW type \in PeriodTypes, NEW user \in Users, NEW period \in PeriodIds,
               NEW metric \in Nat, NEW position \in Nat, NEW amount \in Amounts,
               DistributeRewards(type, user, period, metric, position, amount)
        PROVE  Ledger'
    BY <1>1, <2>2, DistributeConserves DEF Ledger
  <2>3. ASSUME NEW type \in PeriodTypes, NEW amount \in FeeShares, Pour(type, amount)
        PROVE  Ledger'
    BY <1>1, <2>3, PourConserves DEF Ledger
  <2>4. ASSUME ReinitRewardsPools PROVE Ledger'
    BY <1>1, <2>4, ReinitConserves DEF Ledger
  <2>5. ASSUME NEW m \in Mints, UpdateUsdcMint(m) PROVE Ledger'
    BY <1>2, <2>5 DEF UpdateUsdcMint
  <2>6. ASSUME NEW b \in BOOLEAN, Pause(b) PROVE Ledger'
    BY <1>2, <2>6 DEF Pause
  <2> QED
    BY <1>4, <2>1, <2>2, <2>3, <2>4, <2>5, <2>6, StepCases
<1> QED
  BY <1>3, <1>4

(* No unit of a reward is lost or made: across commits, payments, flips of    *)
(* the mint and re-creations, all that entered the pools is in a pool of its  *)
(* mint or in a wallet, and the wallets hold what the payments add up to.     *)
THEOREM RewardsConservedCorrect == Spec => []RewardsConserved
<1>1. ASSUME Ledger PROVE RewardsConserved
  <2>1. \A m \in Mints : PoolsHold(pool, m) + WalletsHold(received, m) = inflow[m]
    BY <1>1 DEF Ledger, Conserved
  <2>2. HeldInAll(received) = PaidOut(payments)
    BY <1>1 DEF Ledger, Conserved
  <2> QED
    BY <2>1, <2>2
       DEF RewardsConserved, SumFunction, PoolsHold, PoolPart, WalletsHold, WalletPart,
           HeldInAll, HeldByMint, PaidOut
<1> QED
  BY <1>1, LedgerInit, LedgerNext, PTL DEF Spec

--------------------------------------------------------------------------------
(* What a step may do *)

PoolStepBacked ==
  \A t \in PeriodTypes :
    pool'[t].amount < pool[t].amount =>
      \E i \in Slots, u \in Users, metric \in 0..(METRIC_COUNT - 1),
         rank \in 1..POSITIONS_PER_METRIC :
        LET paid == pool[t].amount - pool'[t].amount
            bit == metric_position_bit(metric, rank)
        IN
        /\ entries[i].period_type = t
        /\ compute_leaf(u, metric, rank, paid, entries[i].period_id, t)
             \in entries[i].merkle_root
        /\ bit \notin entries[i].claimed_bitmap
        /\ bit \in entries'[i].claimed_bitmap
        /\ received' = [received EXCEPT ![u][pool[t].mint] = @ + paid]

LEMMA DistributeBacked ==
  ASSUME TypeOK, NEW type \in PeriodTypes, NEW user \in Users, NEW period \in PeriodIds,
         NEW metric \in Nat, NEW position \in Nat, NEW amount \in Amounts,
         DistributeRewards(type, user, period, metric, position, amount)
  PROVE  PoolStepBacked
<1> DEFINE bit == metric_position_bit(metric, position)
<1>1. PICK slot \in Slots :
        /\ is_valid_metric_id(metric)
        /\ is_valid_position(position)
        /\ IsFound(slot, period, type)
        /\ compute_leaf(user, metric, position, amount, period, type)
             \in entries[slot].merkle_root
        /\ bit \notin entries[slot].claimed_bitmap
        /\ amount <= pool[type].amount
        /\ MarkClaimed(slot, metric, position)
        /\ pool' = [pool EXCEPT ![type].amount = @ - amount]
        /\ received' = [received EXCEPT ![user][pool[type].mint] = @ + amount]
  BY DEF DistributeRewards
<1>2. metric \in 0..(METRIC_COUNT - 1) /\ position \in 1..POSITIONS_PER_METRIC
  BY <1>1, LeaderboardAssumption
     DEF LeaderboardAssumption, is_valid_metric_id, is_valid_position
<1>3. pool[type].amount - pool'[type].amount = amount
  BY <1>1, LeaderboardAssumption DEF LeaderboardAssumption, TypeOK
<1>4. entries[slot].period_type = type /\ entries[slot].period_id = period
  BY <1>1 DEF IsFound, Matches
<1>5. bit \in entries'[slot].claimed_bitmap
  BY <1>1 DEF MarkClaimed, TypeOK, Entry
<1>6. \A t \in PeriodTypes : t # type => pool'[t] = pool[t]
  BY <1>1 DEF TypeOK
<1>7. \A t \in PeriodTypes : pool[t].amount \in Nat
  BY DEF TypeOK
<1> SUFFICES ASSUME NEW t \in PeriodTypes, pool'[t].amount < pool[t].amount
             PROVE  t = type
  BY <1>1, <1>2, <1>3, <1>4, <1>5 DEF PoolStepBacked
<1> QED
  BY <1>6, <1>7

(* USDC leaves a pool only against an unclaimed leaf of a root in the ring,   *)
(* of the pool's own period type, and to the wallet the leaf names.           *)
THEOREM EveryPayoutBacked == Spec => PayoutsBacked
<1>1. TypeOK /\ [Next]_vars => [PoolStepBacked]_vars
  <2> SUFFICES ASSUME TypeOK, Next PROVE PoolStepBacked
    OBVIOUS
  <2>1. \A t \in PeriodTypes : pool[t].amount \in Nat
    BY DEF TypeOK
  <2>2. ASSUME \A t \in PeriodTypes : pool'[t].amount >= pool[t].amount
        PROVE  PoolStepBacked
    <3> SUFFICES ASSUME NEW t \in PeriodTypes, pool'[t].amount < pool[t].amount
                 PROVE  FALSE
      BY DEF PoolStepBacked
    <3>1. pool'[t].amount \in Nat
      BY TypeNext DEF TypeOK
    <3> QED
      BY <2>1, <2>2, <3>1
  <2>3. ASSUME NEW type \in PeriodTypes, NEW amount \in FeeShares, Pour(type, amount)
        PROVE  PoolStepBacked
    BY <2>1, <2>2, <2>3, LeaderboardAssumption DEF LeaderboardAssumption, Pour, TypeOK
  <2>4. ASSUME ReinitRewardsPools PROVE PoolStepBacked
    BY <2>1, <2>2, <2>4 DEF ReinitRewardsPools, Emptied
  <2>5. ASSUME UNCHANGED pool PROVE PoolStepBacked
    BY <2>1, <2>2, <2>5
  <2>6. ASSUME NEW m \in Mints, UpdateUsdcMint(m) PROVE PoolStepBacked
    BY <2>5, <2>6 DEF UpdateUsdcMint, moneyVars
  <2>7. ASSUME NEW b \in BOOLEAN, Pause(b) PROVE PoolStepBacked
    BY <2>5, <2>7 DEF Pause, moneyVars
  <2>8. ASSUME NEW period \in PeriodIds, NEW type \in PeriodTypes, NEW root \in Trees,
               CommitLeaderboardRoot(period, type, root)
        PROVE  PoolStepBacked
    BY <2>5, <2>8 DEF CommitLeaderboardRoot, moneyVars
  <2> QED
    BY <2>3, <2>4, <2>6, <2>7, <2>8, DistributeBacked, StepCases
<1> QED
  BY <1>1, TypeCorrect, PTL DEF Spec, PayoutsBacked, PoolStepBacked

(* The kill switch stops commits, payouts and re-creation of the pools.       *)
THEOREM PauseFreezesRewards == Spec => PausedFreezes
<1> DEFINE Frozen ==
      paused /\ paused' =>
        /\ UNCHANGED <<ringVars, received, payments>>
        /\ \A t \in PeriodTypes : /\ pool'[t].mint = pool[t].mint
                                  /\ pool'[t].amount >= pool[t].amount
<1>1. TypeOK /\ [Next]_vars => [Frozen]_vars
  <2> SUFFICES ASSUME TypeOK, Next, paused PROVE Frozen
    BY DEF Frozen
  <2>1. \A t \in PeriodTypes : pool[t].amount \in Nat
    BY DEF TypeOK
  <2>2. ASSUME NEW type \in PeriodTypes, NEW amount \in FeeShares, Pour(type, amount)
        PROVE  Frozen
    <3>1. UNCHANGED <<ringVars, received, payments>>
      BY <2>2 DEF Pour
    <3>2. \A t \in PeriodTypes : /\ pool'[t].mint = pool[t].mint
                                /\ pool'[t].amount >= pool[t].amount
      BY <2>1, <2>2, LeaderboardAssumption DEF LeaderboardAssumption, Pour, TypeOK
    <3> QED
      BY <3>1, <3>2
  <2>3. ASSUME ReinitRewardsPools PROVE Frozen
    BY <2>3 DEF ReinitRewardsPools
  <2>4. ASSUME NEW m \in Mints, UpdateUsdcMint(m) PROVE Frozen
    BY <2>1, <2>4 DEF UpdateUsdcMint, moneyVars, ringVars
  <2>5. ASSUME NEW b \in BOOLEAN, Pause(b) PROVE Frozen
    BY <2>1, <2>5 DEF Pause, moneyVars, ringVars
  <2>6. ASSUME NEW period \in PeriodIds, NEW type \in PeriodTypes, NEW root \in Trees,
               CommitLeaderboardRoot(period, type, root)
        PROVE  Frozen
    BY <2>6 DEF CommitLeaderboardRoot
  <2>7. ASSUME NEW type \in PeriodTypes, NEW user \in Users, NEW period \in PeriodIds,
               NEW metric \in Nat, NEW position \in Nat, NEW amount \in Amounts,
               DistributeRewards(type, user, period, metric, position, amount)
        PROVE  Frozen
    BY <2>7 DEF DistributeRewards, PayoutOpen
  <2> HIDE DEF Frozen
  <2> QED
    BY <2>2, <2>3, <2>4, <2>5, <2>6, <2>7, StepCases
<1> QED
  BY <1>1, TypeCorrect, PTL DEF Spec, PausedFreezes

================================================================================
