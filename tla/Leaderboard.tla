------------------------------- MODULE Leaderboard ------------------------------
(******************************************************************************)
(* The reward side of the on-chain program: the ring of committed leaderboard *)
(* roots with their claim bitmaps, and the weekly and monthly pools rewards   *)
(* are paid from (commit_leaderboard_root, distribute_weekly_rewards,         *)
(* distribute_monthly_rewards, initialize_rewards_pools,                      *)
(* reinit_rewards_pools).                                                     *)
(*                                                                            *)
(* A Merkle root stands for the set of leaves it commits, and a valid proof   *)
(* for membership. The root of a slot never written is the empty set: no leaf *)
(* hashes to zero. A bitmap is the set of its one bits. The weekly and        *)
(* monthly payouts differ in the pool and the period type only, so they share *)
(* one definition.                                                            *)
(******************************************************************************)
EXTENDS Integers, FiniteSets, Functions

CONSTANTS
  Users,                \* wallets
  Mints,                \* mints config.usdc_mint may name
  FirstMint,            \* the one it names when the pools are created
  PeriodIds,            \* period ids an admin may commit
  Trees,                \* sets of leaves an admin may commit
  Amounts,              \* amounts an admin may ask to pay
  FeeShares,            \* shares of a mint fee a pool may receive
  CAPACITY,             \* LEADERBOARD_COMMITMENT_CAPACITY
  METRIC_COUNT,         \* metrics that are paid
  POSITIONS_PER_METRIC, \* ranks that are paid; also BITS_PER_METRIC
  PERIOD_WIDTH,         \* 2^32: a leaf holds the period id modulo this
  MaxCommits,           \* bound on the number of commits
  MaxInflow             \* bound on what the pools receive, per mint

PeriodTypes == {"Weekly", "Monthly"}

Slots == 0..(CAPACITY - 1)

Leaf == [user : Users, metric : Nat, rank : Nat, amount : Nat, period_id : Nat,
         period_type : PeriodTypes]

ASSUME LeaderboardAssumption ==
  /\ IsFiniteSet(Users)
  /\ IsFiniteSet(Mints)
  /\ FirstMint \in Mints
  /\ PeriodIds \subseteq Nat
  /\ Trees \subseteq SUBSET Leaf
  /\ Amounts \subseteq Nat
  /\ FeeShares \subseteq Nat
  /\ CAPACITY \in Nat \ {0}
  /\ METRIC_COUNT \in Nat \ {0}
  /\ POSITIONS_PER_METRIC \in Nat \ {0}
  /\ PERIOD_WIDTH \in Nat \ {0}
  /\ MaxCommits \in Nat
  /\ MaxInflow \in Nat

VARIABLES
  paused,     \* config.paused
  usdcMint,   \* config.usdc_mint
  entries,    \* leaderboard_commits.entries
  nextSlot,   \* leaderboard_commits.next_slot
  pool,       \* weekly_pool and monthly_pool: their mint and amount
  received,   \* tokens of each mint paid to each wallet
  inflow,     \* history: tokens of each mint that entered the pools
  nth,        \* history: which commit wrote each slot, 0 for none
  commits,    \* history: number of commits so far
  payments    \* history: what has been paid, and under which commit

configVars  == <<paused, usdcMint>>
ringVars    == <<entries, nextSlot, nth, commits>>
moneyVars   == <<pool, received, inflow, payments>>
vars == <<configVars, ringVars, moneyVars>>

Entry == [period_id : Nat, period_type : PeriodTypes, merkle_root : SUBSET Leaf,
          claimed_bitmap : SUBSET Nat]

EmptyEntry == [period_id |-> 0, period_type |-> "Weekly", merkle_root |-> {},
               claimed_bitmap |-> {}]

(* initialize_rewards_pools: fresh pools of the current mint, a zeroed ring. *)
Init ==
  /\ paused = FALSE
  /\ usdcMint = FirstMint
  /\ entries = [i \in Slots |-> EmptyEntry]
  /\ nextSlot = 0
  /\ pool = [t \in PeriodTypes |-> [mint |-> FirstMint, amount |-> 0]]
  /\ received = [u \in Users |-> [m \in Mints |-> 0]]
  /\ inflow = [m \in Mints |-> 0]
  /\ nth = [i \in Slots |-> 0]
  /\ commits = 0
  /\ payments = {}

--------------------------------------------------------------------------------
(* Committing a root *)

next_ring_slot(current) == (current + 1) % CAPACITY

(* Mutant: the bitmap of the slot's previous period survives. *)
write_entry_fields_KeepsBitmap(entry, period, type, root) ==
  [period_id |-> period, period_type |-> type, merkle_root |-> root,
   claimed_bitmap |-> entry.claimed_bitmap]

write_entry_fields(entry, period, type, root) ==
  [entry EXCEPT !.period_id = period, !.period_type = type, !.merkle_root = root,
                !.claimed_bitmap = {}]

(* Neither the period nor the root is compared with what the ring holds. *)
CommitLeaderboardRoot(period, type, root) ==
  LET slot == nextSlot % CAPACITY IN
  /\ ~paused
  /\ commits < MaxCommits
  /\ entries' = [entries EXCEPT ![slot] = write_entry_fields(@, period, type, root)]
  /\ nextSlot' = next_ring_slot(nextSlot)
  /\ commits' = commits + 1
  /\ nth' = [nth EXCEPT ![slot] = commits + 1]
  /\ UNCHANGED <<configVars, moneyVars>>

--------------------------------------------------------------------------------
(* Paying a reward *)

is_valid_metric_id(metric) == metric < METRIC_COUNT

is_valid_position(position) == position \in 1..POSITIONS_PER_METRIC

(* Mutant: segments of the bitmap that overlap by one bit. *)
metric_position_bit_Overlap(metric, position) ==
  metric * (POSITIONS_PER_METRIC - 1) + (position - 1)

(* The bit of a rank: each metric owns a segment of the bitmap. *)
metric_position_bit(metric, position) ==
  metric * POSITIONS_PER_METRIC + (position - 1)

compute_leaf(user, metric, rank, amount, period, type) ==
  [user |-> user, metric |-> metric, rank |-> rank, amount |-> amount,
   period_id |-> period % PERIOD_WIDTH, period_type |-> type]

Matches(period, type) ==
  {i \in Slots : entries[i].period_id = period /\ entries[i].period_type = type}

(* The linear scan stops at the lowest matching index, whatever was committed *)
(* last.                                                                      *)
IsFound(slot, period, type) ==
  slot \in Matches(period, type) /\ \A j \in Matches(period, type) : slot <= j

PayoutOpen == ~paused

(* Mutant: the position is paid and not marked. *)
MarkClaimed_Forgets(slot, metric, position) == UNCHANGED entries

MarkClaimed(slot, metric, position) ==
  entries' = [entries EXCEPT ![slot].claimed_bitmap =
                               @ \cup {metric_position_bit(metric, position)}]

(* A failed transfer, for instance from a pool that is short, undoes the bit. *)
DistributeRewards(type, user, period, metric, position, amount) ==
  \E slot \in Slots :
    LET mint == pool[type].mint IN
    /\ PayoutOpen
    /\ is_valid_metric_id(metric)
    /\ is_valid_position(position)
    /\ amount > 0
    /\ IsFound(slot, period, type)
    /\ compute_leaf(user, metric, position, amount, period, type)
         \in entries[slot].merkle_root
    /\ metric_position_bit(metric, position) \notin entries[slot].claimed_bitmap
    /\ amount <= pool[type].amount
    /\ MarkClaimed(slot, metric, position)
    /\ pool' = [pool EXCEPT ![type].amount = @ - amount]
    /\ received' = [received EXCEPT ![user][mint] = @ + amount]
    /\ payments' = payments \cup
         {[commit |-> nth[slot], type |-> type, period |-> period, metric |-> metric,
           rank |-> position, user |-> user, amount |-> amount]}
    /\ UNCHANGED <<configVars, nextSlot, nth, commits, inflow>>

DistributeWeeklyRewards(user, period, metric, position, amount) ==
  DistributeRewards("Weekly", user, period, metric, position, amount)

DistributeMonthlyRewards(user, period, metric, position, amount) ==
  DistributeRewards("Monthly", user, period, metric, position, amount)

--------------------------------------------------------------------------------
(* The pools and the mint of config *)

Pour(type, amount) ==
  /\ inflow[pool[type].mint] + amount <= MaxInflow
  /\ pool' = [pool EXCEPT ![type].amount = @ + amount]
  /\ inflow' = [inflow EXCEPT ![pool[type].mint] = @ + amount]
  /\ UNCHANGED <<configVars, ringVars, received, payments>>

(* mint_pair sends a pool its share of a fee; it needs both pools bound to    *)
(* the mint of config.                                                        *)
CollectFee(type, amount) ==
  /\ ~paused
  /\ \A t \in PeriodTypes : pool[t].mint = usdcMint
  /\ Pour(type, amount)

(* Mutant: a pool is closed with rewards still inside. *)
Emptied_Unchecked(type) == TRUE

(* PoolNotEmpty guards the closing of either pool. *)
Emptied(type) == pool[type].amount = 0

(* Both pools are closed and re-created, bound to the mint of config. *)
ReinitRewardsPools ==
  /\ ~paused
  /\ \A t \in PeriodTypes : Emptied(t)
  /\ pool' = [t \in PeriodTypes |-> [mint |-> usdcMint, amount |-> 0]]
  /\ UNCHANGED <<configVars, ringVars, received, inflow, payments>>

UpdateUsdcMint(m) ==
  /\ usdcMint' = m
  /\ UNCHANGED <<paused, ringVars, moneyVars>>

Pause(b) ==
  /\ paused' = b
  /\ UNCHANGED <<usdcMint, ringVars, moneyVars>>

(* The SPL Token program, external: tokens of its mint sent to a pool. *)
SplDonate(type, amount) == amount > 0 /\ Pour(type, amount)

--------------------------------------------------------------------------------

AdminStep ==
  \/ \E period \in PeriodIds, type \in PeriodTypes, root \in Trees :
       CommitLeaderboardRoot(period, type, root)
  \/ \E user \in Users, period \in PeriodIds, metric \in 0..METRIC_COUNT,
        position \in 0..(POSITIONS_PER_METRIC + 1), amount \in Amounts :
       \/ DistributeWeeklyRewards(user, period, metric, position, amount)
       \/ DistributeMonthlyRewards(user, period, metric, position, amount)
  \/ ReinitRewardsPools
  \/ \E m \in Mints : UpdateUsdcMint(m)
  \/ \E b \in BOOLEAN : Pause(b)

Next ==
  \/ AdminStep
  \/ \E type \in PeriodTypes, amount \in FeeShares :
       CollectFee(type, amount) \/ SplDonate(type, amount)

Spec == Init /\ [][Next]_vars

--------------------------------------------------------------------------------
(* Properties *)

Payment == [commit : Nat, type : PeriodTypes, period : Nat, metric : Nat, rank : Nat,
            user : Users, amount : Nat]

TypeOK ==
  /\ paused \in BOOLEAN
  /\ usdcMint \in Mints
  /\ entries \in [Slots -> Entry]
  /\ nextSlot \in Slots
  /\ pool \in [PeriodTypes -> [mint : Mints, amount : Nat]]
  /\ received \in [Users -> [Mints -> Nat]]
  /\ inflow \in [Mints -> Nat]
  /\ nth \in [Slots -> Nat]
  /\ commits \in Nat
  /\ payments \subseteq Payment

PaidUnder(slot) == {p \in payments : p.commit = nth[slot] /\ nth[slot] > 0}

(* The bitmap of every root still in the ring marks exactly the ranks paid    *)
(* under that root, and no rank of it was paid twice, whoever and whatever    *)
(* its leaves name, through every rotation of the ring.                       *)
BitmapMatchesPayments ==
  \A i \in Slots :
    /\ entries[i].claimed_bitmap =
         {metric_position_bit(p.metric, p.rank) : p \in PaidUnder(i)}
    /\ \A p, q \in PaidUnder(i) : p.metric = q.metric /\ p.rank = q.rank => p = q

(* Every unit that entered a pool is in a pool of its mint or in a wallet,    *)
(* across mint flips and pool re-creation, and every unit in a wallet is      *)
(* accounted for by a payment.                                                *)
RewardsConserved ==
  LET InPools(m) == SumFunction([t \in PeriodTypes |->
                      IF pool[t].mint = m THEN pool[t].amount ELSE 0])
      InWallets(m) == SumFunction([u \in Users |-> received[u][m]])
  IN /\ \A m \in Mints : InPools(m) + InWallets(m) = inflow[m]
     /\ SumFunction([m \in Mints |-> InWallets(m)])
          = SumFunction([p \in payments |-> p.amount])

OnlyCommit(i) ==
  \A j \in Slots : /\ nth[j] > 0
                   /\ entries[j].period_id = entries[i].period_id
                   /\ entries[j].period_type = entries[i].period_type
                   => j = i

(* A root committed once stays payable until CAPACITY more roots were         *)
(* committed: every leaf of it with a payable rank that was not paid under    *)
(* it can be paid, funds permitting, whatever happened to its slot before.    *)
RecentRootsPayable ==
  \A i \in Slots, leaf \in UNION {e.merkle_root : e \in Range(entries)} :
    LET e == entries[i] IN
    ( /\ nth[i] > 0 /\ OnlyCommit(i)
      /\ leaf \in e.merkle_root
      /\ leaf.period_id = e.period_id % PERIOD_WIDTH
      /\ leaf.period_type = e.period_type
      /\ is_valid_metric_id(leaf.metric) /\ is_valid_position(leaf.rank)
      /\ leaf.amount \in 1..pool[e.period_type].amount
      /\ \A p \in PaidUnder(i) : ~(p.metric = leaf.metric /\ p.rank = leaf.rank)
      /\ ~paused )
    => ENABLED DistributeRewards(e.period_type, leaf.user, e.period_id, leaf.metric,
                                 leaf.rank, leaf.amount)

(* A pool shrinks only by one payment: to the wallet, in the amount and for   *)
(* the period and type that a leaf of a root in the ring names, at a rank     *)
(* whose bit the step turns on.                                               *)
PayoutsBacked ==
  [][\A t \in PeriodTypes :
       pool'[t].amount < pool[t].amount =>
         \E i \in Slots, u \in Users, metric \in 0..(METRIC_COUNT - 1),
            rank \in 1..POSITIONS_PER_METRIC :
           LET paid == pool[t].amount - pool'[t].amount
               bit == metric_position_bit(metric, rank)
           IN
           /\ entries[i].period_type = t
           /\ compute_leaf(u, metric, rank, paid, entries[i].period_id, t)
                \in entries[i].merkle_root
           /\ bit \notin entries[i].claimed_bitmap
           /\ bit \in entries'[i].claimed_bitmap
           /\ received' = [received EXCEPT ![u][pool[t].mint] = @ + paid]]_vars

(* The kill switch: while paused no root is committed, no reward leaves a     *)
(* pool and no pool is re-created; a pool can only receive.                   *)
PausedFreezes ==
  [][paused /\ paused' =>
       /\ UNCHANGED <<ringVars, received, payments>>
       /\ \A t \in PeriodTypes : /\ pool'[t].mint = pool[t].mint
                                 /\ pool'[t].amount >= pool[t].amount]_vars
================================================================================
