------------------------------ MODULE IndexerProofs ----------------------------
(******************************************************************************)
(* Theorems about Indexer: type correctness, coherence of the streaks, and    *)
(* that success is answered only when every holder has been counted; and      *)
(* about Distribution: Merkle trees, the calendar, and that the chain pays    *)
(* the claimed leaves of the oldest root and stays within the pool.           *)
(******************************************************************************)
EXTENDS Indexer, Distribution, SumTheorems

(* A result is one of the four the table allows.                              *)
LEMMA ResultType ==
  ASSUME NEW e \in Events, NEW u \in Users
  PROVE  ResultOf(e, u) \in Results
BY DEF ResultOf, determineResult, Results

(* Whoever held something is counted, and as a winner on the side that pays.  *)
LEMMA StakeCounts ==
  ASSUME NEW e \in Events, NEW u \in Users, Stake(e, u)
  PROVE  /\ ResultOf(e, u) # "abstained"
         /\ Winner(e, u) => ResultOf(e, u) = "won"
<1>1. /\ YesHeld[e][u] \in Nat
      /\ NoHeld[e][u] \in Nat
      /\ OutcomeOf[e] \in {"yes", "no", "invalid"}
  BY IndexerAssumption DEF IndexerAssumption, Outcomes
<1>2. parseHeliusSettleWebhook(e) = OutcomeOf[e]
  BY DEF Stake, parseHeliusSettleWebhook
<1> QED
  BY <1>1, <1>2 DEF Stake, Winner, ResultOf, determineResult

Coherent(s) == s.current <= s.longest /\ s.longest <= s.won /\ s.won <= s.traded

(* The upsert keeps the four numbers natural and in order.                    *)
LEMMA WonKeepsOrder ==
  ASSUME NEW s \in Streak
  PROVE  Won(s) \in Streak /\ (Coherent(s) => Coherent(Won(s)))
<1>1. /\ s.current \in Nat /\ s.longest \in Nat /\ s.won \in Nat /\ s.traded \in Nat
      /\ s = [current |-> s.current, longest |-> s.longest, won |-> s.won,
              traded |-> s.traded]
  BY DEF Streak
<1> DEFINE longest == Larger(s.longest, s.current + 1)
<1>2. longest \in Nat /\ longest >= s.current + 1
      /\ (longest = s.longest \/ longest = s.current + 1)
  BY <1>1 DEF Larger
<1>3. Won(s) = [s EXCEPT !.current = s.current + 1, !.longest = longest,
                          !.won = s.won + 1, !.traded = s.traded + 1]
  BY Zenon DEF Won, longest
<1> HIDE DEF longest
<1>4. Won(s) = [current |-> s.current + 1, longest |-> longest, won |-> s.won + 1,
                traded |-> s.traded + 1]
  BY <1>1, <1>3
<1>5. Won(s) \in Streak
  BY <1>1, <1>2, <1>4 DEF Streak
<1>6. /\ Won(s).current = s.current + 1 /\ Won(s).longest = longest
      /\ Won(s).won = s.won + 1 /\ Won(s).traded = s.traded + 1
  BY <1>4
<1> QED BY <1>1, <1>2, <1>5, <1>6 DEF Coherent

LEMMA ApplyKeepsOrder ==
  ASSUME NEW s \in Streak, NEW result \in Results
  PROVE  LET t == applyResultToUserStreak(s, result) IN
         t \in Streak /\ (Coherent(s) => Coherent(t))
<1>1. CASE result = "won"
  <2>1. applyResultToUserStreak(s, result) = Won(s)
    BY <1>1 DEF applyResultToUserStreak
  <2> QED BY <2>1, WonKeepsOrder
<1>2. CASE result = "lost"
  <2>1. applyResultToUserStreak(s, result) = Lost(s)
    BY <1>2 DEF applyResultToUserStreak
  <2>2. Lost(s) \in Streak /\ (Coherent(s) => Coherent(Lost(s)))
    <3>1. Lost(s) = [current |-> 0, longest |-> s.longest, won |-> s.won,
                     traded |-> s.traded + 1]
      <4>1. /\ s = [current |-> s.current, longest |-> s.longest, won |-> s.won,
                    traded |-> s.traded]
            /\ s.traded \in Nat
        BY DEF Streak
      <4>2. Lost(s) = [s EXCEPT !.current = 0, !.traded = s.traded + 1]
        BY Zenon DEF Lost
      <4> QED BY <4>1, <4>2
    <3>2. s.longest \in Nat /\ s.won \in Nat /\ s.traded \in Nat
      BY DEF Streak
    <3> QED BY <3>1, <3>2 DEF Streak, Coherent
  <2> QED BY <2>1, <2>2
<1>3. CASE result = "invalid"
  <2>1. applyResultToUserStreak(s, result) = Refunded(s)
    BY <1>3 DEF applyResultToUserStreak
  <2>2. Refunded(s) \in Streak /\ (Coherent(s) => Coherent(Refunded(s)))
    BY DEF Refunded, Streak, Coherent
  <2> QED BY <2>1, <2>2
<1>4. CASE result = "abstained"
  <2>1. applyResultToUserStreak(s, result) = s
    BY <1>4 DEF applyResultToUserStreak
  <2> QED BY <2>1
<1> QED BY <1>1, <1>2, <1>3, <1>4 DEF Results

--------------------------------------------------------------------------------
(* Type correctness *)

LEMMA InitType == ASSUME Init PROVE TypeOK
BY IndexerAssumption DEF IndexerAssumption, Init, TypeOK, NoStreak, Streak, Results

LEMMA HandleType ==
  ASSUME TypeOK, NEW r \in Requests, Handle(r)
  PROVE  TypeOK'
<1> USE DEF TypeOK
<1>1. CASE InsertSettleEvent(r)
  BY <1>1, IndexerAssumption
     DEF IndexerAssumption, InsertSettleEvent, AfterInsert, chainVars
<1>2. CASE FetchTokenHolders(r)
  BY <1>2, IndexerAssumption
     DEF IndexerAssumption, FetchTokenHolders, chainVars, tableVars
<1>3. CASE InsertUserMarketHold(r)
  <2>1. PICK u \in Users :
          /\ TakeHolder(r, u)
          /\ holds' = [holds EXCEPT ![handling[r]][u] = ResultOf(handling[r], u)]
          /\ IF ResultOf(handling[r], u) = "abstained"
             THEN UNCHANGED <<step, holder>>
             ELSE /\ holder' = [holder EXCEPT ![r] = u]
                  /\ step' = [step EXCEPT ![r] = "streak"]
    BY <1>3 DEF InsertUserMarketHold
  <2>2. handling[r] \in Events
    BY <1>3 DEF InsertUserMarketHold
  <2>3. ResultOf(handling[r], u) \in Results
    BY <2>2, ResultType
  <2>4. holds' \in [Events -> [Users -> Results \cup {"none"}]]
    BY <2>1, <2>2, <2>3
  <2>5. todo' \in [Requests -> SUBSET Users]
    BY <2>1 DEF TakeHolder
  <2>6. step[r] = "loop" /\ UNCHANGED <<chainVars, handling, settleEvents, streaks, applied>>
    BY <1>3 DEF InsertUserMarketHold
  <2>7. \/ UNCHANGED <<step, holder>>
        \/ holder' = [holder EXCEPT ![r] = u] /\ step' = [step EXCEPT ![r] = "streak"]
    BY <2>1
  <2>a. /\ holder \in [Requests -> Users \cup {NoUser}]
        /\ step \in [Requests -> {"idle", "event", "holders", "loop", "streak", "ack"}]
        /\ \A q \in Requests : step[q] = "streak" => holder[q] \in Users
    OBVIOUS
  <2>8. /\ holder' \in [Requests -> Users \cup {NoUser}]
        /\ step' \in [Requests -> {"idle", "event", "holders", "loop", "streak", "ack"}]
        /\ \A q \in Requests : /\ step'[q] # "idle" => step[q] # "idle"
                               /\ step'[q] = "streak" => holder'[q] \in Users
    <3> HIDE DEF TypeOK
    <3> QED
      BY <2>6, <2>7, <2>a
  <2> QED
    BY <2>4, <2>5, <2>6, <2>8 DEF chainVars
<1>4. CASE ApplyResult(r)
  <2>1. /\ handling[r] \in Events
        /\ holder[r] \in Users
    BY <1>4 DEF ApplyResult
  <2>2. applyResultToUserStreak(streaks[holder[r]], ResultOf(handling[r], holder[r]))
          \in Streak
    BY <2>1, ResultType, ApplyKeepsOrder
  <2>3. streaks' \in [Users -> Streak]
    BY <1>4, <2>1, <2>2 DEF ApplyResult
  <2>4. applied' \in [Events -> [Users -> Nat]]
    BY <1>4, <2>1 DEF ApplyResult
  <2> QED
    BY <1>4, <2>1, <2>3, <2>4 DEF ApplyResult, chainVars
<1>5. CASE EndLoop(r)
  BY <1>5 DEF EndLoop, chainVars, tableVars
<1>6. CASE Acknowledge(r)
  <2>1. handling[r] \in settled
    BY <1>6, IndexerAssumption DEF IndexerAssumption, Acknowledge
  <2> QED
    BY <1>6, <2>1 DEF Acknowledge, tableVars
<1> QED BY <1>1, <1>2, <1>3, <1>4, <1>5, <1>6 DEF Handle

LEMMA StepType == ASSUME TypeOK, [Next]_vars PROVE TypeOK'
<1> USE DEF TypeOK
<1>1. CASE \E e \in Events : SettleOnChain(e)
  BY <1>1 DEF SettleOnChain, requestVars, tableVars
<1>2. ASSUME NEW r \in Requests, Handle(r) PROVE TypeOK'
  BY <1>2, HandleType
<1>3. ASSUME NEW r \in Requests, Fail(r) PROVE TypeOK'
  BY <1>3, IndexerAssumption DEF IndexerAssumption, Fail, tableVars
<1>4. ASSUME NEW r \in Requests, NEW e \in Events, Deliver(r, e) PROVE TypeOK'
  BY <1>4, IndexerAssumption DEF IndexerAssumption, Deliver, tableVars
<1>5. CASE UNCHANGED vars
  BY <1>5 DEF vars, chainVars, requestVars, tableVars
<1> QED BY <1>1, <1>2, <1>3, <1>4, <1>5 DEF Next

(* Every reachable state of the indexer is well typed: requests handle events *)
(* that happened, and no number of a streak goes below zero.                  *)
THEOREM TypeCorrect == Spec => []TypeOK
BY InitType, StepType, PTL DEF Spec

--------------------------------------------------------------------------------
(* Coherent streaks *)

LEMMA StreakStep ==
  ASSUME TypeOK, StreakCoherent, [Next]_vars
  PROVE  StreakCoherent'
<1>1. ASSUME NEW r \in Requests, ApplyResult(r) PROVE StreakCoherent'
  <2>1. /\ handling[r] \in Events
        /\ holder[r] \in Users
        /\ streaks \in [Users -> Streak]
    BY <1>1 DEF ApplyResult, TypeOK
  <2> DEFINE t == applyResultToUserStreak(streaks[holder[r]],
                                          ResultOf(handling[r], holder[r]))
  <2>2. Coherent(t)
    BY <2>1, ResultType, ApplyKeepsOrder DEF StreakCoherent, Coherent
  <2>3. \A u \in Users : streaks'[u] = IF u = holder[r] THEN t ELSE streaks[u]
    BY <1>1, <2>1 DEF ApplyResult
  <2> QED BY <2>2, <2>3 DEF StreakCoherent, Coherent
<1>2. CASE UNCHANGED streaks
  BY <1>2 DEF StreakCoherent
<1> QED
  BY <1>1, <1>2 DEF Next, Handle, SettleOnChain, InsertSettleEvent, FetchTokenHolders,
     InsertUserMarketHold, EndLoop, Acknowledge, Fail, Deliver, vars, tableVars

(* However posts are repeated, interleaved and cut short, the numbers of a    *)
(* streak stay consistent: current <= longest <= won <= traded.               *)
THEOREM StreaksStayCoherent == Spec => []StreakCoherent
<1>1. Init => StreakCoherent
  BY DEF Init, StreakCoherent, NoStreak
<1> QED BY <1>1, StreakStep, TypeCorrect, PTL DEF Spec

--------------------------------------------------------------------------------
(* An acknowledged event is counted *)

(* What one request has behind it: every holder it no longer has to begin     *)
(* with, and is not at, has been counted.                                     *)
Behind(r) ==
  /\ step[r] \in {"loop", "streak", "ack"} =>
       \A u \in Users : Stake(handling[r], u) =>
         \/ u \in todo[r]
         \/ step[r] = "streak" /\ u = holder[r]
         \/ applied[handling[r]][u] > 0
  /\ step[r] = "ack" => todo[r] = {}
  /\ step[r] = "streak" => holds[handling[r]][holder[r]] = ResultOf(handling[r], holder[r])

(* A row holds the result of its event, and is there before the streak moves. *)
RowsRight ==
  \A e \in Events, u \in Users :
    /\ holds[e][u] \in {"none", ResultOf(e, u)}
    /\ applied[e][u] > 0 => holds[e][u] = ResultOf(e, u)

CountedOnAck ==
  \A e \in acked, u \in Users : Stake(e, u) => applied[e][u] > 0

CountInv == (\A r \in Requests : Behind(r)) /\ RowsRight /\ CountedOnAck

LEMMA InitCount == ASSUME Init PROVE CountInv
BY DEF Init, CountInv, Behind, RowsRight, CountedOnAck

(* What others write only helps a request that does not move: no row is lost  *)
(* and no count is taken back.                                                *)
LEMMA OthersKeepBehind ==
  ASSUME NEW q \in Requests, TypeOK, Behind(q),
         handling'[q] = handling[q], step'[q] = step[q], todo'[q] = todo[q],
         holder'[q] = holder[q],
         \A e \in Events, u \in Users : applied[e][u] > 0 => applied'[e][u] > 0,
         \A e \in Events, u \in Users :
           holds[e][u] = ResultOf(e, u) => holds'[e][u] = ResultOf(e, u)
  PROVE  Behind(q)'
<1>1. step[q] # "idle" => handling[q] \in Events
  BY DEF TypeOK
<1>2. step[q] = "streak" => holder[q] \in Users
  BY DEF TypeOK
<1> QED BY <1>1, <1>2 DEF Behind

(* Steps that write neither rows nor counts: enough to look at the request    *)
(* that moved.                                                                *)
LEMMA QuietStep ==
  ASSUME NEW r \in Requests, TypeOK, CountInv, UNCHANGED <<holds, applied>>, Behind(r)',
         \A q \in Requests \ {r} : /\ handling'[q] = handling[q] /\ step'[q] = step[q]
                                  /\ todo'[q] = todo[q] /\ holder'[q] = holder[q],
         CountedOnAck'
  PROVE  CountInv'
<1>1. ASSUME NEW q \in Requests \ {r} PROVE Behind(q)'
  BY <1>1, OthersKeepBehind DEF CountInv
<1>2. RowsRight'
  BY DEF CountInv, RowsRight
<1> QED BY <1>1, <1>2 DEF CountInv

LEMMA HoldCount ==
  ASSUME NEW r \in Requests, TypeOK, CountInv, InsertUserMarketHold(r)
  PROVE  CountInv'
<1> DEFINE e == handling[r]
<1>1. PICK u \in Users :
        /\ TakeHolder(r, u)
        /\ holds' = [holds EXCEPT ![e][u] = ResultOf(e, u)]
        /\ IF ResultOf(e, u) = "abstained"
           THEN UNCHANGED <<step, holder>>
           ELSE /\ holder' = [holder EXCEPT ![r] = u]
                /\ step' = [step EXCEPT ![r] = "streak"]
  BY DEF InsertUserMarketHold
<1>2. /\ step[r] = "loop" /\ e \in Events
      /\ UNCHANGED <<handling, applied, acked>>
      /\ todo' = [todo EXCEPT ![r] = @ \ {u}]
  BY <1>1 DEF InsertUserMarketHold, TypeOK, chainVars, TakeHolder
<1>3. \A d \in Events, v \in Users :
        holds'[d][v] = IF d = e /\ v = u THEN ResultOf(d, v) ELSE holds[d][v]
  BY <1>1, <1>2 DEF TypeOK
<1>4. RowsRight'
  BY <1>2, <1>3 DEF CountInv, RowsRight
<1>5. CountedOnAck'
  BY <1>2 DEF CountInv, CountedOnAck
<1>6. ASSUME NEW q \in Requests \ {r} PROVE Behind(q)'
  <2>1. /\ handling'[q] = handling[q] /\ step'[q] = step[q]
        /\ todo'[q] = todo[q] /\ holder'[q] = holder[q]
    BY <1>1, <1>2 DEF TypeOK
  <2> QED BY <2>1, <1>2, <1>3, OthersKeepBehind DEF CountInv
<1>7. Behind(r)'
  <2>1. todo'[r] = todo[r] \ {u} /\ handling'[r] = e
    BY <1>2 DEF TypeOK
  <2>2. \A v \in Users : Stake(e, v) => v \in todo[r] \/ applied[e][v] > 0
    BY <1>2 DEF CountInv, Behind
  <2>3. CASE ResultOf(e, u) = "abstained"
    <3>1. step'[r] = "loop" /\ ~Stake(e, u)
      BY <1>1, <1>2, <2>3, StakeCounts
    <3> QED BY <1>2, <2>1, <2>2, <3>1 DEF Behind
  <2>4. CASE ResultOf(e, u) # "abstained"
    <3>1. step'[r] = "streak" /\ holder'[r] = u
      BY <1>1, <2>4 DEF TypeOK
    <3>2. holds'[e][u] = ResultOf(e, u)
      BY <1>2, <1>3
    <3> QED BY <1>2, <2>1, <2>2, <3>1, <3>2 DEF Behind
  <2> QED BY <2>3, <2>4
<1> QED BY <1>4, <1>5, <1>6, <1>7 DEF CountInv

LEMMA ApplyCount ==
  ASSUME NEW r \in Requests, TypeOK, CountInv, ApplyResult(r)
  PROVE  CountInv'
<1> DEFINE e == handling[r]
           u == holder[r]
<1>1. /\ step[r] = "streak" /\ e \in Events /\ u \in Users
      /\ UNCHANGED <<handling, todo, holds, acked>>
      /\ step' = [step EXCEPT ![r] = "loop"]
      /\ holder' = [holder EXCEPT ![r] = NoUser]
      /\ applied' = [applied EXCEPT ![e][u] = @ + 1]
  BY DEF ApplyResult, TypeOK, chainVars
<1>2. \A d \in Events, v \in Users :
        applied'[d][v] = IF d = e /\ v = u THEN applied[d][v] + 1 ELSE applied[d][v]
  BY <1>1 DEF TypeOK
<1>3. \A d \in Events, v \in Users : applied[d][v] \in Nat
  BY DEF TypeOK
<1>4. \A d \in Events, v \in Users :
        /\ applied[d][v] > 0 => applied'[d][v] > 0
        /\ applied'[d][v] > 0 => applied[d][v] > 0 \/ (d = e /\ v = u)
  BY <1>2, <1>3
<1>5. applied'[e][u] > 0
  BY <1>1, <1>2, <1>3
<1>6. RowsRight'
  <2>1. holds[e][u] = ResultOf(e, u)
    BY <1>1 DEF CountInv, Behind
  <2> QED BY <1>1, <1>4, <2>1 DEF CountInv, RowsRight
<1>7. CountedOnAck'
  BY <1>1, <1>4 DEF CountInv, CountedOnAck, TypeOK
<1>8. ASSUME NEW q \in Requests \ {r} PROVE Behind(q)'
  <2>1. /\ handling'[q] = handling[q] /\ step'[q] = step[q]
        /\ todo'[q] = todo[q] /\ holder'[q] = holder[q]
    BY <1>1 DEF TypeOK
  <2> QED BY <2>1, <1>1, <1>4, OthersKeepBehind DEF CountInv
<1>9. Behind(r)'
  <2>1. step'[r] = "loop" /\ handling'[r] = e /\ todo'[r] = todo[r]
    BY <1>1 DEF TypeOK
  <2>2. \A v \in Users : Stake(e, v) => v \in todo[r] \/ v = u \/ applied[e][v] > 0
    BY <1>1 DEF CountInv, Behind
  <2> QED BY <1>1, <1>4, <1>5, <2>1, <2>2 DEF Behind
<1> QED BY <1>6, <1>7, <1>8, <1>9 DEF CountInv

LEMMA StepCount == ASSUME TypeOK, CountInv, [Next]_vars PROVE CountInv'
<1>1. CASE \E e \in Events : SettleOnChain(e)
  <2>1. UNCHANGED <<handling, step, todo, holder, holds, applied, acked>>
    BY <1>1 DEF SettleOnChain, requestVars, tableVars
  <2> QED BY <2>1 DEF CountInv, Behind, RowsRight, CountedOnAck
<1>2. ASSUME NEW r \in Requests, Handle(r) PROVE CountInv'
  <2>1. CASE InsertSettleEvent(r)
    <3>1. /\ UNCHANGED <<handling, todo, holder, holds, applied, acked>>
          /\ step' = [step EXCEPT ![r] = "holders"]
      BY <2>1 DEF InsertSettleEvent, AfterInsert, chainVars
    <3>2. Behind(r)'
      BY <3>1 DEF TypeOK, Behind
    <3> QED BY <3>1, <3>2, QuietStep DEF TypeOK, CountInv, CountedOnAck
  <2>2. CASE FetchTokenHolders(r)
    <3> DEFINE e == handling[r]
    <3>1. PICK holders \in SUBSET Users :
            /\ \A u \in Users \ holders : YesHeld[e][u] = 0 /\ NoHeld[e][u] = 0
            /\ todo' = [todo EXCEPT ![r] = holders]
      BY <2>2 DEF FetchTokenHolders
    <3>2. /\ UNCHANGED <<handling, holder, holds, applied, acked>>
          /\ step' = [step EXCEPT ![r] = "loop"]
          /\ e \in Events
      BY <2>2 DEF FetchTokenHolders, chainVars, tableVars, TypeOK
    <3>3. \A u \in Users : Stake(e, u) => u \in holders
      BY <3>1, <3>2, IndexerAssumption DEF IndexerAssumption, Stake
    <3>4. Behind(r)'
      BY <3>1, <3>2, <3>3 DEF TypeOK, Behind
    <3> QED BY <3>1, <3>2, <3>4, QuietStep DEF TypeOK, CountInv, CountedOnAck
  <2>3. CASE InsertUserMarketHold(r)
    BY <2>3, HoldCount
  <2>4. CASE ApplyResult(r)
    BY <2>4, ApplyCount
  <2>5. CASE EndLoop(r)
    <3>1. /\ step[r] = "loop" /\ todo[r] = {}
          /\ UNCHANGED <<handling, todo, holder, holds, applied, acked>>
          /\ step' = [step EXCEPT ![r] = "ack"]
      BY <2>5 DEF EndLoop, chainVars, tableVars
    <3>2. Behind(r)'
      BY <3>1 DEF TypeOK, Behind, CountInv
    <3> QED BY <3>1, <3>2, QuietStep DEF TypeOK, CountInv, CountedOnAck
  <2>6. CASE Acknowledge(r)
    <3>1. /\ step[r] = "ack" /\ todo[r] = {} /\ handling[r] \in Events
          /\ acked' = acked \cup {handling[r]}
          /\ handling' = [handling EXCEPT ![r] = NoEvent]
          /\ step' = [step EXCEPT ![r] = "idle"]
          /\ UNCHANGED <<todo, holder, holds, applied>>
      BY <2>6 DEF Acknowledge, tableVars, CountInv, Behind, TypeOK
    <3>2. Behind(r)'
      BY <3>1 DEF TypeOK, Behind
    <3>3. \A u \in Users : Stake(handling[r], u) => applied[handling[r]][u] > 0
      BY <3>1 DEF CountInv, Behind
    <3>4. CountedOnAck'
      BY <3>1, <3>3 DEF CountInv, CountedOnAck
    <3> QED BY <3>1, <3>2, <3>4, QuietStep DEF TypeOK
  <2> QED BY <1>2, <2>1, <2>2, <2>3, <2>4, <2>5, <2>6 DEF Handle
<1>3. ASSUME NEW r \in Requests, Fail(r) PROVE CountInv'
  <2>1. /\ handling' = [handling EXCEPT ![r] = NoEvent]
        /\ step' = [step EXCEPT ![r] = "idle"]
        /\ todo' = [todo EXCEPT ![r] = {}]
        /\ holder' = [holder EXCEPT ![r] = NoUser]
        /\ UNCHANGED <<holds, applied, acked>>
    BY <1>3 DEF Fail, tableVars
  <2>2. Behind(r)'
    BY <2>1 DEF TypeOK, Behind
  <2> QED BY <2>1, <2>2, QuietStep DEF TypeOK, CountInv, CountedOnAck
<1>4. ASSUME NEW r \in Requests, NEW e \in Events, Deliver(r, e) PROVE CountInv'
  <2>1. /\ handling' = [handling EXCEPT ![r] = e]
        /\ step' = [step EXCEPT ![r] = "event"]
        /\ UNCHANGED <<todo, holder, holds, applied, acked>>
    BY <1>4 DEF Deliver, tableVars
  <2>2. Behind(r)'
    BY <2>1 DEF TypeOK, Behind
  <2> QED BY <2>1, <2>2, QuietStep DEF TypeOK, CountInv, CountedOnAck
<1>5. CASE UNCHANGED vars
  BY <1>5 DEF vars, chainVars, requestVars, tableVars, CountInv, Behind, RowsRight,
     CountedOnAck
<1> QED BY <1>1, <1>2, <1>3, <1>4, <1>5 DEF Next

LEMMA CountInvImpliesCounted == ASSUME TypeOK, CountInv PROVE AckedMeansCounted
<1> SUFFICES ASSUME NEW e \in acked, NEW u \in Users
             PROVE  /\ Stake(e, u) => applied[e][u] > 0
                    /\ Winner(e, u) => holds[e][u] = "won"
  BY DEF AckedMeansCounted
<1>1. e \in Events
  BY DEF TypeOK
<1>2. Stake(e, u) => applied[e][u] > 0
  BY DEF CountInv, CountedOnAck
<1>3. Winner(e, u) => Stake(e, u) /\ ResultOf(e, u) = "won"
  BY <1>1, StakeCounts DEF Winner
<1> QED BY <1>1, <1>2, <1>3 DEF CountInv, RowsRight

(* Success is answered only when every holder of the event has been counted,  *)
(* the winning side as won, however requests interleaved, repeated and failed.*)
THEOREM AcknowledgedIsCounted == Spec => []AckedMeansCounted
<1>1. Init => CountInv
  BY InitCount
<1>2. TypeOK /\ CountInv /\ [Next]_vars => CountInv'
  BY StepCount
<1>3. TypeOK /\ CountInv => AckedMeansCounted
  BY CountInvImpliesCounted
<1> QED BY <1>1, <1>2, <1>3, TypeCorrect, PTL DEF Spec

--------------------------------------------------------------------------------
(* The totals and the rows *)

(* How often the results R were applied to u when a says how often each event *)
(* was; PartOf is the share of one event.                                     *)
PartOf(a, u, R) == [e \in Events |-> IF ResultOf(e, u) \in R THEN a[e][u] ELSE 0]

Tally(a, u, R) == SumFunctionOnSet(PartOf(a, u, R), Events)

Tallies == [Events -> [Users -> Nat]]

Counting == {"won", "lost", "invalid"}

(* a after event e was applied to u once more, which counts in R or not.      *)
AppliedAgain(b, a, e, u) == b = [a EXCEPT ![e][u] = @ + 1]

OneIn(result, R) == IF result \in R THEN 1 ELSE 0

OneFor(u, v, result, R) == IF v = u THEN OneIn(result, R) ELSE 0

Tallied ==
  \A u \in Users : /\ streaks[u].traded = Tally(applied, u, Counting)
                   /\ streaks[u].won = Tally(applied, u, {"won"})

(* One more application counts once, for the holder it was applied to.        *)
LEMMA TallyChange ==
  ASSUME NEW a \in Tallies, NEW b \in Tallies, NEW e \in Events, NEW u \in Users,
         AppliedAgain(b, a, e, u), NEW v \in Users, NEW R
  PROVE  Tally(b, v, R) = Tally(a, v, R) + OneFor(u, v, ResultOf(e, v), R)
<1> DEFINE f == PartOf(a, v, R)
           g == PartOf(b, v, R)
           one == OneFor(u, v, ResultOf(e, v), R)
<1>1. \A d \in Events : f[d] \in Int /\ g[d] \in Int
  BY DEF PartOf, Tallies
<1>2. ASSUME NEW d \in Events
      PROVE  b[d][v] = IF d = e /\ v = u THEN a[d][v] + 1 ELSE a[d][v]
  BY DEF AppliedAgain, Tallies
<1>3. \A d \in Events : d # e => f[d] = g[d]
  BY <1>2 DEF PartOf
<1>4. g[e] = f[e] + one
  <2>1. a[e][v] \in Nat
    BY DEF Tallies
  <2>2. b[e][v] = IF v = u THEN a[e][v] + 1 ELSE a[e][v]
    BY <1>2
  <2> QED
    BY <2>1, <2>2 DEF PartOf, OneFor, OneIn
<1>5. one \in Int
  BY DEF OneFor, OneIn
<1>6. Tally(a, v, R) = SumFunctionOnSet(f, Events)
  BY DEF Tally
<1>7. Tally(b, v, R) = SumFunctionOnSet(g, Events)
  BY DEF Tally
<1>8. IsFiniteSet(Events)
  BY IndexerAssumption DEF IndexerAssumption
<1> HIDE DEF f, g, one
<1>9. SumFunctionOnSet(g, Events) = SumFunctionOnSet(f, Events) - f[e] + g[e]
  BY <1>1, <1>3, <1>8, SumChange
<1>10. SumFunctionOnSet(f, Events) \in Int
  BY <1>1, <1>8, SumInt
<1>11. Tally(b, v, R) = Tally(a, v, R) + one
  BY <1>1, <1>4, <1>5, <1>6, <1>7, <1>9, <1>10
<1> QED
  BY <1>11 DEF one

(* What applying a result adds to the totals of a streak.                     *)
LEMMA ApplyAdds ==
  ASSUME NEW s \in Streak, NEW result \in Results
  PROVE  LET t == applyResultToUserStreak(s, result) IN
         /\ t.traded = s.traded + OneIn(result, Counting)
         /\ t.won = s.won + OneIn(result, {"won"})
<1> DEFINE t == applyResultToUserStreak(s, result)
<1>1. s.traded \in Nat /\ s.won \in Nat
  BY DEF Streak
<1>2. CASE result = "won"
  <2>1. t = Won(s)
    BY <1>2 DEF applyResultToUserStreak
  <2>2. Won(s).traded = s.traded + 1 /\ Won(s).won = s.won + 1
    BY DEF Won, Streak
  <2> QED
    BY <1>2, <2>1, <2>2 DEF OneIn, Counting
<1>3. CASE result = "lost"
  <2>1. t = Lost(s)
    BY <1>3 DEF applyResultToUserStreak
  <2>2. Lost(s).traded = s.traded + 1 /\ Lost(s).won = s.won
    BY DEF Lost, Streak
  <2> QED
    BY <1>1, <1>3, <2>1, <2>2 DEF OneIn, Counting
<1>4. CASE result = "invalid"
  <2>1. t = Refunded(s)
    BY <1>4 DEF applyResultToUserStreak
  <2>2. Refunded(s).traded = s.traded + 1 /\ Refunded(s).won = s.won
    BY DEF Refunded, Streak
  <2> QED
    BY <1>1, <1>4, <2>1, <2>2 DEF OneIn, Counting
<1>5. CASE result = "abstained"
  <2>1. t = s
    BY <1>5 DEF applyResultToUserStreak
  <2> QED
    BY <1>1, <1>5, <2>1 DEF OneIn, Counting
<1> QED
  BY <1>2, <1>3, <1>4, <1>5 DEF Results

(* Nothing was applied and nothing is counted.                                *)
LEMMA TalliedInit == Init => Tallied
<1> SUFFICES ASSUME Init, NEW u \in Users
             PROVE  /\ streaks[u].traded = Tally(applied, u, Counting)
                    /\ streaks[u].won = Tally(applied, u, {"won"})
  BY DEF Tallied
<1>1. ASSUME NEW R PROVE Tally(applied, u, R) = 0
  <2>1. PartOf(applied, u, R) = [e \in Events |-> 0]
    BY DEF Init, PartOf
  <2> QED
    BY <2>1, SumZero, IndexerAssumption DEF IndexerAssumption, Tally
<1>2. streaks[u].traded = 0 /\ streaks[u].won = 0
  BY DEF Init, NoStreak
<1> QED
  BY <1>1, <1>2

(* Streak and history move together, in one statement.                        *)
LEMMA TalliedStep ==
  ASSUME TypeOK, TypeOK', Tallied, [Next]_vars
  PROVE  Tallied'
<1>1. ASSUME NEW r \in Requests, ApplyResult(r) PROVE Tallied'
  <2> DEFINE e == handling[r]
             u == holder[r]
             t == applyResultToUserStreak(streaks[u], ResultOf(e, u))
  <2>1. /\ e \in Events /\ u \in Users
        /\ streaks \in [Users -> Streak]
        /\ streaks' = [streaks EXCEPT ![u] = t]
        /\ AppliedAgain(applied', applied, e, u)
    BY <1>1 DEF ApplyResult, TypeOK, AppliedAgain
  <2>2. ResultOf(e, u) \in Results
    BY <2>1, ResultType
  <2>3. applied \in Tallies /\ applied' \in Tallies
    BY DEF TypeOK, Tallies
  <2> HIDE DEF e, u
  <2>4. /\ t.traded = streaks[u].traded + OneIn(ResultOf(e, u), Counting)
        /\ t.won = streaks[u].won + OneIn(ResultOf(e, u), {"won"})
    BY <2>1, <2>2, ApplyAdds
  <2> HIDE DEF t
  <2>5. ASSUME NEW v \in Users
        PROVE  /\ streaks'[v].traded = Tally(applied', v, Counting)
               /\ streaks'[v].won = Tally(applied', v, {"won"})
    <3>1. Tally(applied', v, Counting)
            = Tally(applied, v, Counting) + OneFor(u, v, ResultOf(e, v), Counting)
      BY <2>1, <2>3, TallyChange
    <3>2. Tally(applied', v, {"won"})
            = Tally(applied, v, {"won"}) + OneFor(u, v, ResultOf(e, v), {"won"})
      BY <2>1, <2>3, TallyChange
    <3>3. /\ streaks[v].traded = Tally(applied, v, Counting)
          /\ streaks[v].won = Tally(applied, v, {"won"})
      BY DEF Tallied
    <3>4. streaks[v].traded \in Nat /\ streaks[v].won \in Nat
      BY <2>1 DEF Streak
    <3>5. CASE v = u
      <4>1. streaks'[v] = t
        BY <2>1, <3>5
      <4> QED
        BY <2>4, <3>1, <3>2, <3>3, <3>5, <4>1 DEF OneFor
    <3>6. CASE v # u
      <4>1. streaks'[v] = streaks[v]
        BY <2>1, <3>6
      <4>2. /\ OneFor(u, v, ResultOf(e, v), Counting) = 0
            /\ OneFor(u, v, ResultOf(e, v), {"won"}) = 0
        BY <3>6 DEF OneFor
      <4> QED
        BY <3>1, <3>2, <3>3, <3>4, <4>1, <4>2
    <3> QED
      BY <3>5, <3>6
  <2> QED
    BY <2>5 DEF Tallied
<1>2. CASE UNCHANGED <<streaks, applied>>
  BY <1>2 DEF Tallied
<1> QED
  BY <1>1, <1>2 DEF Next, Handle, SettleOnChain, InsertSettleEvent, FetchTokenHolders,
     InsertUserMarketHold, EndLoop, Acknowledge, Fail, Deliver, vars, tableVars

(* The rows tell what was counted: an event that was applied has its row, and *)
(* the row says what the event meant.                                         *)
LEMMA RowsTellTotals ==
  ASSUME TypeOK, RowsRight, Tallied
  PROVE  TotalsAudited
<1> DEFINE byRow(u, R) == [e \in Events |-> IF holds[e][u] \in R THEN applied[e][u] ELSE 0]
<1>1. ASSUME NEW u \in Users, NEW R PROVE byRow(u, R) = PartOf(applied, u, R)
  <2>1. ASSUME NEW e \in Events
        PROVE  (IF holds[e][u] \in R THEN applied[e][u] ELSE 0)
                 = (IF ResultOf(e, u) \in R THEN applied[e][u] ELSE 0)
    <3>1. applied[e][u] \in Nat
      BY DEF TypeOK
    <3>2. applied[e][u] > 0 => holds[e][u] = ResultOf(e, u)
      BY DEF RowsRight
    <3> QED
      BY <3>1, <3>2
  <2> QED
    BY <2>1 DEF PartOf
<1>2. ASSUME NEW u \in Users, NEW R PROVE SumFunction(byRow(u, R)) = Tally(applied, u, R)
  <2>1. DOMAIN PartOf(applied, u, R) = Events
    BY DEF PartOf
  <2> QED
    BY <1>1, <2>1 DEF SumFunction, Tally
<1>3. \A u \in Users :
        /\ streaks[u].traded = SumFunction(byRow(u, {"won", "lost", "invalid"}))
        /\ streaks[u].won = SumFunction(byRow(u, {"won"}))
  BY <1>2 DEF Tallied, Counting
<1>4. \A u \in Users, e \in Events : applied[e][u] > 0 => holds[e][u] = ResultOf(e, u)
  BY DEF RowsRight
<1> QED
  BY <1>3, <1>4 DEF TotalsAudited

(* The totals of every streak can be read off the rows of user_market_holds,  *)
(* in any interleaving of requests, repeated posts and failures.              *)
THEOREM TotalsAuditedCorrect == Spec => []TotalsAudited
<1>1. Init => CountInv
  BY InitCount
<1>2. TypeOK /\ CountInv /\ [Next]_vars => CountInv'
  BY StepCount
<1>3. TypeOK /\ TypeOK' /\ Tallied /\ [Next]_vars => Tallied'
  BY TalliedStep
<1>4. TypeOK /\ CountInv /\ Tallied => TotalsAudited
  BY RowsTellTotals DEF CountInv
<1> QED
  BY <1>1, <1>2, <1>3, <1>4, TalliedInit, TypeCorrect, PTL DEF Spec

--------------------------------------------------------------------------------
(* Merkle trees: every leaf has a proof, and nothing else has one. *)

(* A function on the first numbers is a sequence. *)
LEMMA ListOf ==
  ASSUME NEW n \in Nat, NEW T, NEW s \in [1..n -> T]
  PROVE  s \in Seq(T) /\ Len(s) = n /\ DOMAIN s = 1..n
<1>1. s \in Seq(T)
  BY SeqDef
<1>2. DOMAIN s = 1..n /\ DOMAIN s = 1..Len(s) /\ Len(s) \in Nat
  BY <1>1, LenProperties
<1> QED
  BY <1>1, <1>2

(* A layer is half as long as the one below, and its nodes are pairs of that  *)
(* one's.                                                                     *)
LEMMA LayerAbove ==
  ASSUME NEW x, Len(x) \in Nat \ {0}
  PROVE  /\ Len(nextLayer(x)) = (Len(x) + 1) \div 2
         /\ \A i \in 1..Len(nextLayer(x)) :
              /\ 2 * i - 1 \in 1..Len(x)
              /\ 2 * i <= Len(x) => 2 * i \in 1..Len(x)
              /\ nextLayer(x)[i] =
                   hashSortedPair(x[2 * i - 1], x[IF 2 * i <= Len(x) THEN 2 * i ELSE 2 * i - 1])
<1> DEFINE n == (Len(x) + 1) \div 2
           T == {nextLayer(x)[i] : i \in 1..n}
<1>1. n \in Nat /\ 2 * n <= Len(x) + 1
  OBVIOUS
<1>2. nextLayer(x) \in [1..n -> T]
  BY DEF nextLayer
<1> HIDE DEF T
<1>3. Len(nextLayer(x)) = n
  <2> HIDE DEF n
  <2> QED
    BY <1>1, <1>2, ListOf
<1>4. ASSUME NEW i \in 1..n
      PROVE  /\ 2 * i - 1 \in 1..Len(x)
             /\ 2 * i <= Len(x) => 2 * i \in 1..Len(x)
             /\ nextLayer(x)[i] =
                  hashSortedPair(x[2 * i - 1], x[IF 2 * i <= Len(x) THEN 2 * i ELSE 2 * i - 1])
  <2>1. 2 * i - 1 \in 1..Len(x) /\ (2 * i <= Len(x) => 2 * i \in 1..Len(x))
    BY <1>1
  <2> QED
    BY <2>1 DEF nextLayer
<1> QED
  BY <1>3, <1>4

(* The recursion of the layers has a solution. *)
LEMMA LayersExist ==
  ASSUME NEW leaves
  PROVE  \A N \in Nat : \E f :
           f = [k \in 0..N |-> IF k = 0 THEN leaves ELSE nextLayer(f[k - 1])]
<1> DEFINE Next1(f, k) == IF k = 0 THEN leaves ELSE nextLayer(f[k - 1])
           T == {N \in Nat : \E f : f = [k \in 0..N |-> Next1(f, k)]}
<1>1. 0 \in T
  <2> DEFINE f == [k \in 0..0 |-> leaves]
  <2>1. f = [k \in 0..0 |-> Next1(f, k)]
    <3>1. \A k \in 0..0 : k = 0
      OBVIOUS
    <3> QED
      BY <3>1
  <2> HIDE DEF f
  <2> QED
    BY <2>1
<1>2. ASSUME NEW N \in Nat, N \in T PROVE N + 1 \in T
  <2>1. PICK f : f = [k \in 0..N |-> Next1(f, k)]
    BY <1>2
  <2> DEFINE g == [k \in 0..(N + 1) |-> Next1(f, k)]
  <2>2. ASSUME NEW k \in 0..(N + 1) PROVE Next1(f, k) = Next1(g, k)
    <3>1. CASE k = 0
      BY <3>1
    <3>2. CASE k # 0
      <4>1. k - 1 \in 0..N /\ k - 1 \in 0..(N + 1)
        BY <3>2
      <4> HIDE DEF Next1
      <4>2. f[k - 1] = g[k - 1]
        BY <2>1, <4>1
      <4> HIDE DEF g
      <4> QED
        BY <3>2, <4>2 DEF Next1
    <3> QED
      BY <3>1, <3>2
  <2> HIDE DEF Next1
  <2>3. g = [k \in 0..(N + 1) |-> Next1(g, k)]
    BY <2>2
  <2> HIDE DEF g
  <2> QED
    BY <2>3
<1> HIDE DEF T
<1>3. Nat \subseteq T
  BY <1>1, <1>2, NatInductionSet
<1> QED
  BY <1>3 DEF T

(* What buildSortedPairTreeLayers returns: the leaves, each next layer made   *)
(* of the last, up to the first that has one node.                            *)
Tower(L, leaves, h) ==
  /\ L \in Seq({L[k] : k \in 1..h + 1}) /\ Len(L) = h + 1
  /\ L[1] = leaves
  /\ \A k \in 1..h : L[k + 1] = nextLayer(L[k])
  /\ \A k \in 1..h : Len(L[k]) \in Nat /\ Len(L[k]) > 1
  /\ Len(L[h + 1]) = 1

(* Forty leaves, ten ranks of four metrics, are under a root after six steps. *)
LEMMA TreeShape ==
  ASSUME NEW leaves, Len(leaves) \in 1..40
  PROVE  \E h \in 0..6 : Tower(buildSortedPairTreeLayers(leaves), leaves, h)
<1> DEFINE layer == CHOOSE f : f = [k \in 0 .. MERKLE_PROOF_MAX_DEPTH |->
                                      IF k = 0 THEN leaves ELSE nextLayer(f[k - 1])]
           Fits(k) == Len(layer[k]) = 1 /\ \A j \in 0 .. k - 1 : Len(layer[j]) > 1
           height == CHOOSE k \in 0 .. MERKLE_PROOF_MAX_DEPTH : Fits(k)
           L == [k \in 1 .. height + 1 |-> layer[k - 1]]
<1>1. buildSortedPairTreeLayers(leaves) = L
  BY DEF buildSortedPairTreeLayers
<1>2. layer = [k \in 0 .. 16 |-> IF k = 0 THEN leaves ELSE nextLayer(layer[k - 1])]
  <2>1. MERKLE_PROOF_MAX_DEPTH \in Nat
    BY DEF MERKLE_PROOF_MAX_DEPTH
  <2>2. layer = [k \in 0 .. MERKLE_PROOF_MAX_DEPTH |->
                   IF k = 0 THEN leaves ELSE nextLayer(layer[k - 1])]
    BY <2>1, LayersExist
  <2> HIDE DEF layer
  <2> QED
    BY <2>2 DEF MERKLE_PROOF_MAX_DEPTH
<1> HIDE DEF layer
<1>3. layer[0] = leaves /\ \A k \in 1..16 : layer[k] = nextLayer(layer[k - 1])
  <2>1. 0 \in 0..16 /\ \A k \in 1..16 : k \in 0..16 /\ k # 0
    OBVIOUS
  <2> QED
    BY <1>2, <2>1
<1>4. \A k \in 1..16 : Len(layer[k - 1]) \in Nat \ {0} => Len(layer[k]) = (Len(layer[k - 1]) + 1) \div 2
  BY <1>3, LayerAbove
<1>5. /\ Len(layer[0]) \in 1..40
      /\ Len(layer[1]) \in 1..20
      /\ Len(layer[2]) \in 1..10
      /\ Len(layer[3]) \in 1..5
      /\ Len(layer[4]) \in 1..3
      /\ Len(layer[5]) \in 1..2
      /\ Len(layer[6]) \in 1..1
  <2> DEFINE n(k) == Len(layer[k])
  <2>0. n(0) \in 1..40
    BY <1>3
  <2>1. \A k \in 0..5 : n(k) \in Nat \ {0} => n(k + 1) = (n(k) + 1) \div 2
    <3>1. \A k \in 0..5 : k + 1 \in 1..16 /\ (k + 1) - 1 = k
      OBVIOUS
    <3> QED
      BY <1>4, <3>1
  <2> HIDE DEF n
  <2>2. n(1) \in 1..20
    BY <2>0, <2>1
  <2>3. n(2) \in 1..10
    BY <2>2, <2>1
  <2>4. n(3) \in 1..5
    BY <2>3, <2>1
  <2>5. n(4) \in 1..3
    BY <2>4, <2>1
  <2>6. n(5) \in 1..2
    BY <2>5, <2>1
  <2>7. n(6) \in 1..1
    BY <2>6, <2>1
  <2> QED
    BY <2>0, <2>2, <2>3, <2>4, <2>5, <2>6, <2>7 DEF n
<1>6. \E k \in 0..6 : Fits(k)
  <2> DEFINE n(k) == Len(layer[k])
  <2>1. \A k \in 0..6 : n(k) \in Nat \ {0}
    <3>1. /\ n(0) \in 1..40 /\ n(1) \in 1..20 /\ n(2) \in 1..10 /\ n(3) \in 1..5
          /\ n(4) \in 1..3 /\ n(5) \in 1..2 /\ n(6) \in 1..1
      BY <1>5, Zenon
    <3>2. \A k \in 0..6 : k \in {0, 1, 2, 3, 4, 5, 6}
      OBVIOUS
    <3> HIDE DEF n
    <3> QED
      BY <3>1, <3>2
  <2>2. n(6) = 1
    BY <1>5
  <2>3. \E k \in 0..6 : n(k) = 1 /\ \A j \in 0..6 : j < k => n(j) # 1
    <3> HIDE DEF n
    <3> QED
      BY <2>2
  <2>4. PICK k \in 0..6 : n(k) = 1 /\ \A j \in 0..6 : j < k => n(j) # 1
    BY <2>3
  <2>5. \A j \in 0..k - 1 : n(j) > 1
    <3> HIDE DEF n
    <3> QED
      BY <2>1, <2>4
  <2> QED
    BY <2>4, <2>5
<1>7. \A k \in 0..16 : Fits(k) => k \in 0..6
  <2>1. Len(layer[6]) = 1
    BY <1>5
  <2>2. \A k \in 0..16 : k > 6 => 6 \in 0..k - 1
    OBVIOUS
  <2>3. ASSUME NEW k \in 0..16, Fits(k) PROVE k \in 0..6
    <3>1. CASE k > 6
      <4>1. 6 \in 0..k - 1
        BY <2>2, <3>1
      <4>2. \A j \in 0..k - 1 : Len(layer[j]) > 1
        BY <2>3
      <4>3. Len(layer[6]) > 1
        BY <4>1, <4>2
      <4> QED
        BY <2>1, <4>3
    <3> QED
      BY <3>1
  <2> QED
    BY <2>3
<1>8. height \in 0..6 /\ Fits(height)
  <2>1. \E k \in 0..MERKLE_PROOF_MAX_DEPTH : Fits(k)
    <3>1. \A k \in 0..6 : k \in 0..16
      OBVIOUS
    <3> QED
      BY <1>6, <3>1 DEF MERKLE_PROOF_MAX_DEPTH
  <2> HIDE DEF Fits
  <2>2. height \in 0..16 /\ Fits(height)
    BY <2>1 DEF MERKLE_PROOF_MAX_DEPTH
  <2> QED
    BY <1>7, <2>2
<1>9. PICK h \in 0..6 : h = height
  BY <1>8
<1> HIDE DEF height
<1>10. L \in Seq({L[k] : k \in 1..h + 1}) /\ Len(L) = h + 1
  <2> DEFINE T == {L[k] : k \in 1..h + 1}
  <2>1. L \in [1..h + 1 -> T] /\ h + 1 \in Nat
    BY <1>9
  <2> HIDE DEF L, T
  <2>2. L \in Seq(T) /\ Len(L) = h + 1
    BY <2>1, ListOf
  <2> QED
    BY <2>2 DEF T
<1>11. \A k \in 1..h + 1 : L[k] = layer[k - 1]
  BY <1>9
<1> HIDE DEF L
<1>12. L[1] = leaves
  <2>1. 1 \in 1..h + 1 /\ 1 - 1 = 0
    OBVIOUS
  <2> QED
    BY <1>3, <1>11, <2>1
<1>13. \A k \in 1..h : L[k + 1] = nextLayer(L[k])
  <2>1. \A k \in 1..h : k \in 1..h + 1 /\ k + 1 \in 1..h + 1 /\ (k + 1) - 1 = k /\ k \in 1..16
    OBVIOUS
  <2> QED
    BY <1>3, <1>11, <2>1
<1>14. \A k \in 1..h : Len(L[k]) \in Nat /\ Len(L[k]) > 1
  <2>1. ASSUME NEW k \in 1..h PROVE Len(L[k]) \in Nat /\ Len(L[k]) > 1
    <3>1. k \in 1..h + 1 /\ k - 1 \in 0..h - 1 /\ k - 1 \in {0, 1, 2, 3, 4, 5}
      OBVIOUS
    <3>2. Len(layer[k - 1]) \in Nat
      BY <1>5, <3>1
    <3> QED
      BY <1>8, <1>9, <1>11, <3>1, <3>2
  <2> QED
    BY <2>1
<1>15. Len(L[h + 1]) = 1
  <2>1. h + 1 \in 1..h + 1 /\ (h + 1) - 1 = h
    OBVIOUS
  <2> QED
    BY <1>8, <1>9, <1>11, <2>1
<1>16. Tower(L, leaves, h)
  BY <1>10, <1>12, <1>13, <1>14, <1>15 DEF Tower
<1> QED
  BY <1>1, <1>16

(* The recursion of verifyLeafProof has a solution. *)
LEMMA FoldExists ==
  ASSUME NEW leaf, NEW proof
  PROVE  \A N \in Nat : \E f :
           f = [k \in 0..N |-> IF k = 0 THEN leaf ELSE hashSortedPair(f[k - 1], proof[k])]
<1> DEFINE Next1(f, k) == IF k = 0 THEN leaf ELSE hashSortedPair(f[k - 1], proof[k])
           T == {N \in Nat : \E f : f = [k \in 0..N |-> Next1(f, k)]}
<1>1. 0 \in T
  <2> DEFINE f == [k \in 0..0 |-> leaf]
  <2>1. f = [k \in 0..0 |-> Next1(f, k)]
    <3>1. \A k \in 0..0 : k = 0
      OBVIOUS
    <3> QED
      BY <3>1
  <2> HIDE DEF f
  <2> QED
    BY <2>1
<1>2. ASSUME NEW N \in Nat, N \in T PROVE N + 1 \in T
  <2>1. PICK f : f = [k \in 0..N |-> Next1(f, k)]
    BY <1>2
  <2> DEFINE g == [k \in 0..(N + 1) |-> Next1(f, k)]
  <2>2. ASSUME NEW k \in 0..(N + 1) PROVE Next1(f, k) = Next1(g, k)
    <3>1. CASE k = 0
      BY <3>1
    <3>2. CASE k # 0
      <4>1. k - 1 \in 0..N /\ k - 1 \in 0..(N + 1)
        BY <3>2
      <4> HIDE DEF Next1
      <4>2. f[k - 1] = g[k - 1]
        BY <2>1, <4>1
      <4> HIDE DEF g
      <4> QED
        BY <3>2, <4>2 DEF Next1
    <3> QED
      BY <3>1, <3>2
  <2> HIDE DEF Next1
  <2>3. g = [k \in 0..(N + 1) |-> Next1(g, k)]
    BY <2>2
  <2> HIDE DEF g
  <2> QED
    BY <2>3
<1> HIDE DEF T
<1>3. Nat \subseteq T
  BY <1>1, <1>2, NatInductionSet
<1> QED
  BY <1>3 DEF T

(* What verifyLeafProof computes: the leaf, then a pair for each sibling. *)
Climb(c, leaf, proof) ==
  /\ c[0] = leaf
  /\ \A k \in 1..Len(proof) : c[k] = hashSortedPair(c[k - 1], proof[k])

LEMMA VerifyClimbs ==
  ASSUME NEW leaf, NEW proof, Len(proof) \in Nat, NEW root
  PROVE  \E c : /\ Climb(c, leaf, proof)
                /\ verifyLeafProof(leaf, proof, root) <=>
                     Len(proof) <= MERKLE_PROOF_MAX_DEPTH /\ c[Len(proof)] = root
<1> DEFINE c == CHOOSE f : f = [k \in 0 .. Len(proof) |->
                                  IF k = 0 THEN leaf ELSE hashSortedPair(f[k - 1], proof[k])]
<1>1. verifyLeafProof(leaf, proof, root) <=>
        Len(proof) <= MERKLE_PROOF_MAX_DEPTH /\ c[Len(proof)] = root
  BY DEF verifyLeafProof
<1>2. c = [k \in 0 .. Len(proof) |->
             IF k = 0 THEN leaf ELSE hashSortedPair(c[k - 1], proof[k])]
  BY FoldExists
<1> HIDE DEF c
<1>3. c[0] = leaf
  <2>1. 0 \in 0..Len(proof)
    OBVIOUS
  <2> QED
    BY <1>2, <2>1
<1>4. \A k \in 1..Len(proof) : c[k] = hashSortedPair(c[k - 1], proof[k])
  <2>1. \A k \in 1..Len(proof) : k \in 0..Len(proof) /\ k # 0
    OBVIOUS
  <2> QED
    BY <1>2, <2>1
<1> QED
  BY <1>1, <1>3, <1>4 DEF Climb

(* The recursion of generateSortedPairProof has a solution. *)
LEMMA IndexExists ==
  ASSUME NEW leafIndex
  PROVE  \A N \in Nat : \E f :
           f = [k \in 1..N |-> IF k = 1 THEN leafIndex ELSE f[k - 1] \div 2]
<1> DEFINE Next1(f, k) == IF k = 1 THEN leafIndex ELSE f[k - 1] \div 2
           T == {N \in Nat : \E f : f = [k \in 1..N |-> Next1(f, k)]}
<1>1. 0 \in T
  <2> DEFINE f == [k \in 1..0 |-> leafIndex]
  <2>1. f = [k \in 1..0 |-> Next1(f, k)]
    <3>1. \A k \in 1..0 : FALSE
      OBVIOUS
    <3> QED
      BY <3>1
  <2> HIDE DEF f
  <2> QED
    BY <2>1
<1>2. ASSUME NEW N \in Nat, N \in T PROVE N + 1 \in T
  <2>1. PICK f : f = [k \in 1..N |-> Next1(f, k)]
    BY <1>2
  <2> DEFINE g == [k \in 1..(N + 1) |-> Next1(f, k)]
  <2>2. ASSUME NEW k \in 1..(N + 1) PROVE Next1(f, k) = Next1(g, k)
    <3>1. CASE k = 1
      BY <3>1
    <3>2. CASE k # 1
      <4>1. k - 1 \in 1..N /\ k - 1 \in 1..(N + 1)
        BY <3>2
      <4> HIDE DEF Next1
      <4>2. f[k - 1] = g[k - 1]
        BY <2>1, <4>1
      <4> HIDE DEF g
      <4> QED
        BY <3>2, <4>2 DEF Next1
    <3> QED
      BY <3>1, <3>2
  <2> HIDE DEF Next1
  <2>3. g = [k \in 1..(N + 1) |-> Next1(g, k)]
    BY <2>2
  <2> HIDE DEF g
  <2> QED
    BY <2>3
<1> HIDE DEF T
<1>3. Nat \subseteq T
  BY <1>1, <1>2, NatInductionSet
<1> QED
  BY <1>3 DEF T

(* The sibling a proof holds at a level, of the node with this index there.   *)
Sibling(x, e) ==
  LET s == IF e % 2 = 1 THEN e - 1 ELSE e + 1
  IN x[(IF s < Len(x) THEN s ELSE e) + 1]

(* A proof has the sibling of each ancestor below the root, whose indices e   *)
(* halve.                                                                     *)
Siblings(e, L, leafIndex, P) ==
  /\ Len(P) = Len(L) - 1
  /\ e[1] = leafIndex
  /\ \A k \in 1..Len(L) - 1 : e[k + 1] = e[k] \div 2 /\ P[k] = Sibling(L[k], e[k])

LEMMA ProofShape ==
  ASSUME NEW L, Len(L) \in Nat \ {0}, NEW leafIndex
  PROVE  \E e : Siblings(e, L, leafIndex, generateSortedPairProof(L, leafIndex))
<1> DEFINE e == CHOOSE f : f = [k \in 1 .. Len(L) |->
                                  IF k = 1 THEN leafIndex ELSE f[k - 1] \div 2]
           P == [k \in 1 .. Len(L) - 1 |-> Sibling(L[k], e[k])]
           T == {P[k] : k \in 1..Len(L) - 1}
<1>1. generateSortedPairProof(L, leafIndex) = P
  BY DEF generateSortedPairProof, Sibling
<1>2. e = [k \in 1 .. Len(L) |-> IF k = 1 THEN leafIndex ELSE e[k - 1] \div 2]
  BY IndexExists
<1> HIDE DEF e
<1>3. e[1] = leafIndex
  <2>1. 1 \in 1..Len(L)
    OBVIOUS
  <2> QED
    BY <1>2, <2>1
<1>4. \A k \in 1..Len(L) - 1 : e[k + 1] = e[k] \div 2
  <2>1. \A k \in 1..Len(L) - 1 : k + 1 \in 1..Len(L) /\ k + 1 # 1 /\ (k + 1) - 1 = k
    OBVIOUS
  <2> QED
    BY <1>2, <2>1
<1>5. \A k \in 1..Len(L) - 1 : P[k] = Sibling(L[k], e[k])
  OBVIOUS
<1>6. Len(P) = Len(L) - 1
  <2>1. P \in [1..Len(L) - 1 -> T] /\ Len(L) - 1 \in Nat
    OBVIOUS
  <2> HIDE DEF P, T
  <2> QED
    BY <2>1, ListOf
<1> HIDE DEF P
<1> QED
  BY <1>1, <1>3, <1>4, <1>5, <1>6 DEF Siblings

(* A node and its sibling are the pair their parent is the hash of. *)
LEMMA ParentOfPair ==
  ASSUME NEW x, Len(x) \in Nat, NEW e \in Nat, e < Len(x)
  PROVE  /\ e \div 2 \in Nat /\ e \div 2 < Len(nextLayer(x))
         /\ hashSortedPair(x[e + 1], Sibling(x, e)) = nextLayer(x)[e \div 2 + 1]
<1> DEFINE j == e \div 2 + 1
<1>1. j \in 1..Len(nextLayer(x)) /\ e \div 2 \in Nat
  BY LayerAbove
<1>2. nextLayer(x)[j] = hashSortedPair(x[2 * j - 1], x[IF 2 * j <= Len(x) THEN 2 * j ELSE 2 * j - 1])
  <2> HIDE DEF j
  <2> QED
    BY <1>1, LayerAbove
<1>3. e \div 2 < Len(nextLayer(x))
  BY <1>1, LayerAbove
<1>4. CASE e % 2 = 1
  <2>1. e = 2 * j - 1 /\ 2 * j <= Len(x) /\ e - 1 < Len(x)
    BY <1>4
  <2> HIDE DEF j
  <2>2. Sibling(x, e) = x[2 * j - 1]
    <3>1. (e - 1) + 1 = 2 * j - 1
      BY <1>1, <2>1
    <3> QED
      BY <1>4, <2>1, <3>1 DEF Sibling
  <2>3. x[e + 1] = x[2 * j]
    <3>1. e + 1 = 2 * j
      BY <1>1, <2>1
    <3> QED
      BY <3>1
  <2> QED
    BY <1>1, <1>2, <1>3, <2>1, <2>2, <2>3 DEF hashSortedPair, j
<1>5. CASE e % 2 # 1
  <2>1. e = 2 * j - 2
    BY <1>5
  <2> HIDE DEF j
  <2>2. x[e + 1] = x[2 * j - 1]
    <3>1. e + 1 = 2 * j - 1
      BY <1>1, <2>1
    <3> QED
      BY <3>1
  <2>3. Sibling(x, e) = x[IF 2 * j <= Len(x) THEN 2 * j ELSE 2 * j - 1]
    <3>1. CASE e + 1 < Len(x)
      <4>1. 2 * j <= Len(x) /\ (e + 1) + 1 = 2 * j
        BY <1>1, <2>1, <3>1
      <4> QED
        BY <1>5, <3>1, <4>1 DEF Sibling
    <3>2. CASE ~(e + 1 < Len(x))
      <4>1. ~(2 * j <= Len(x)) /\ e + 1 = 2 * j - 1
        BY <1>1, <2>1, <3>2
      <4> QED
        BY <1>5, <3>2, <4>1 DEF Sibling
    <3> QED
      BY <3>1, <3>2
  <2> QED
    BY <1>1, <1>2, <1>3, <2>2, <2>3 DEF hashSortedPair, j
<1> QED
  BY <1>4, <1>5

(* merkle.ts: the proof of a leaf leads to the root. *)
THEOREM OwnProofsPass ==
  ASSUME NEW leaves, NEW h \in 0..6, NEW L, Tower(L, leaves, h), NEW i \in 1..Len(leaves)
  PROVE  verifyLeafProof(leaves[i], generateSortedPairProof(L, i - 1), rootOf(L))
<1> DEFINE P == generateSortedPairProof(L, i - 1)
<1>0. Len(L) = h + 1 /\ L[1] = leaves /\ Len(leaves) \in Nat
  <2>1. Len(L) = h + 1 /\ L[1] = leaves
    BY DEF Tower
  <2>2. CASE h = 0
    BY <2>1, <2>2 DEF Tower
  <2>3. CASE h # 0
    <3>1. 1 \in 1..h
      BY <2>3
    <3> QED
      BY <2>1, <3>1 DEF Tower
  <2> QED
    BY <2>1, <2>2, <2>3
<1>1. PICK e : /\ Len(P) = Len(L) - 1
               /\ e[1] = i - 1
               /\ \A k \in 1..Len(L) - 1 :
                    e[k + 1] = e[k] \div 2 /\ P[k] = Sibling(L[k], e[k])
  <2>1. Len(L) \in Nat \ {0}
    BY <1>0
  <2> HIDE DEF P
  <2>2. PICK e : Siblings(e, L, i - 1, P)
    BY <2>1, ProofShape DEF P
  <2> QED
    BY <2>2 DEF Siblings
<1>2. Len(P) = h /\ h \in Nat
  BY <1>0, <1>1
<1> HIDE DEF P
<1>3. PICK c : /\ Climb(c, leaves[i], P)
               /\ verifyLeafProof(leaves[i], P, rootOf(L)) <=>
                    Len(P) <= MERKLE_PROOF_MAX_DEPTH /\ c[Len(P)] = rootOf(L)
  BY <1>2, VerifyClimbs
<1> DEFINE On(k) == /\ e[k + 1] \in Nat /\ e[k + 1] < Len(L[k + 1])
                    /\ c[k] = L[k + 1][e[k + 1] + 1]
           T == {k \in Nat : k <= h => On(k)}
<1>4. 0 \in T
  <2>1. 0 + 1 = 1 /\ (i - 1) + 1 = i /\ i - 1 \in Nat /\ i - 1 < Len(leaves)
    BY <1>0
  <2> QED
    BY <1>0, <1>1, <1>3, <2>1 DEF Climb
<1>5. ASSUME NEW k \in Nat, k \in T PROVE k + 1 \in T
  <2>1. SUFFICES ASSUME k + 1 <= h PROVE On(k + 1)
    OBVIOUS
  <2>2. On(k) /\ k + 1 \in 1..h /\ (k + 1) - 1 = k
    BY <1>5, <2>1
  <2>3. L[(k + 1) + 1] = nextLayer(L[k + 1]) /\ Len(L[k + 1]) \in Nat
    BY <2>2 DEF Tower
  <2>4. e[(k + 1) + 1] = e[k + 1] \div 2 /\ P[k + 1] = Sibling(L[k + 1], e[k + 1])
    BY <1>0, <1>1, <1>2, <2>2
  <2>5. c[k + 1] = hashSortedPair(c[k], P[k + 1])
    BY <1>2, <1>3, <2>2 DEF Climb
  <2>10. PICK x : x = L[k + 1]
    OBVIOUS
  <2>6. PICK d \in Nat : x = L[k + 1] /\ d = e[k + 1]
    BY <2>2, <2>10
  <2>7. /\ d \div 2 \in Nat /\ d \div 2 < Len(nextLayer(x))
        /\ hashSortedPair(x[d + 1], Sibling(x, d)) = nextLayer(x)[d \div 2 + 1]
    <3>1. Len(x) \in Nat /\ d < Len(x)
      BY <2>2, <2>3, <2>6
    <3> QED
      BY <3>1, ParentOfPair
  <2>8. c[k] = x[d + 1]
    BY <2>2, <2>6
  <2>9. /\ L[(k + 1) + 1] = nextLayer(x) /\ e[(k + 1) + 1] = d \div 2
        /\ c[k + 1] = hashSortedPair(x[d + 1], Sibling(x, d))
    BY <2>3, <2>4, <2>5, <2>6, <2>8
  <2> QED
    BY <2>7, <2>9
<1> HIDE DEF T
<1>6. Nat \subseteq T
  BY <1>4, <1>5, NatInductionSet
<1>7. On(h)
  BY <1>2, <1>6 DEF T
<1>8. c[h] = rootOf(L)
  <2>1. Len(L[h + 1]) = 1
    BY DEF Tower
  <2>2. e[h + 1] = 0
    BY <1>7, <2>1
  <2> QED
    BY <1>0, <1>7, <2>2 DEF rootOf
<1>9. Len(P) <= MERKLE_PROOF_MAX_DEPTH
  BY <1>2 DEF MERKLE_PROOF_MAX_DEPTH
<1> QED
  BY <1>2, <1>3, <1>8, <1>9 DEF P

(* Nodes of the layers above the leaves have kids. *)
LEMMA InnerNodes ==
  ASSUME NEW x, Len(x) \in Nat \ {0}, NEW i \in 1..Len(nextLayer(x))
  PROVE  \E a, b \in 1..Len(x) : nextLayer(x)[i].kids = {x[a], x[b]}
<1>1. /\ 2 * i - 1 \in 1..Len(x)
      /\ 2 * i <= Len(x) => 2 * i \in 1..Len(x)
      /\ nextLayer(x)[i] =
           hashSortedPair(x[2 * i - 1], x[IF 2 * i <= Len(x) THEN 2 * i ELSE 2 * i - 1])
  BY LayerAbove
<1>2. PICK a \in 1..Len(x), b \in 1..Len(x) : nextLayer(x)[i] = hashSortedPair(x[a], x[b])
  <2>1. CASE 2 * i <= Len(x)
    BY <1>1, <2>1
  <2>2. CASE ~(2 * i <= Len(x))
    BY <1>1, <2>2
  <2> QED
    BY <2>1, <2>2
<1>3. nextLayer(x)[i].kids = {x[a], x[b]}
  BY <1>2 DEF hashSortedPair
<1> QED
  BY <1>3

NoKids(node) == node.kids = {}

(* merkle.rs: whatever proof comes with it, a leaf is accepted only if it is  *)
(* one of those the root was built of.                                        *)
THEOREM OnlyLeavesPass ==
  ASSUME NEW leaves, NEW h \in 0..6, NEW L, Tower(L, leaves, h),
         \A i \in 1..Len(leaves) : NoKids(leaves[i]),
         NEW leaf, NoKids(leaf), NEW proof, Len(proof) \in Nat,
         verifyLeafProof(leaf, proof, rootOf(L))
  PROVE  \E i \in 1..Len(leaves) : leaf = leaves[i]
<1> USE DEF NoKids
<1>0. /\ Len(L) = h + 1 /\ L[1] = leaves /\ h \in Nat
      /\ \A k \in 1..h + 1 : Len(L[k]) \in Nat \ {0}
  <2>1. \A k \in 1..h + 1 : k \in 1..h \/ k = h + 1
    OBVIOUS
  <2>2. \A k \in 1..h : Len(L[k]) \in Nat \ {0}
    BY DEF Tower
  <2>3. Len(L[h + 1]) = 1 /\ Len(L) = h + 1 /\ L[1] = leaves
    BY DEF Tower
  <2>4. ASSUME NEW k \in 1..h + 1 PROVE Len(L[k]) \in Nat \ {0}
    <3>1. CASE k \in 1..h
      BY <2>2, <3>1
    <3>2. CASE k = h + 1
      BY <2>3, <3>2
    <3> QED
      BY <2>1, <3>1, <3>2
  <2> QED
    BY <2>3, <2>4
<1>5. PICK p \in Nat : p = Len(proof)
  OBVIOUS
<1>1. PICK c : Climb(c, leaf, proof) /\ c[p] = rootOf(L)
  <2>1. PICK c : Climb(c, leaf, proof) /\ c[Len(proof)] = rootOf(L)
    BY VerifyClimbs
  <2> QED
    BY <1>5, <2>1
<1>9. c[0] = leaf /\ \A q \in 1..p : c[q].kids = {c[q - 1], proof[q]}
  <2>1. c[0] = leaf /\ \A q \in 1..p : c[q] = hashSortedPair(c[q - 1], proof[q])
    BY <1>1, <1>5 DEF Climb
  <2>2. ASSUME NEW q \in 1..p PROVE c[q].kids = {c[q - 1], proof[q]}
    <3>1. c[q] = hashSortedPair(c[q - 1], proof[q])
      BY <2>1
    <3> QED
      BY <3>1 DEF hashSortedPair
  <2> QED
    BY <2>1, <2>2
<1> DEFINE In(d) == \E j \in 1..Len(L[h + 1 - d]) : c[p - d] = L[h + 1 - d][j]
           T == {d \in Nat : d <= p /\ d <= h => In(d)}
<1>2. 0 \in T
  <2>1. h + 1 - 0 = h + 1 /\ p - 0 = p
    BY <1>0
  <2>2. Len(L[h + 1]) = 1 /\ 1 \in 1..1
    BY DEF Tower
  <2>3. c[p] = L[h + 1][1]
    BY <1>0, <1>1 DEF rootOf
  <2> QED
    BY <2>1, <2>2, <2>3
<1>3. ASSUME NEW d \in Nat, d \in T PROVE d + 1 \in T
  <2>1. SUFFICES ASSUME d + 1 <= p, d + 1 <= h PROVE In(d + 1)
    OBVIOUS
  <2>2. PICK k \in 1..h : k = h - d
    <3>1. h - d \in 1..h
      BY <1>0, <2>1
    <3> QED
      BY <3>1
  <2>3. PICK q \in 1..p : q = p - d
    <3>1. p - d \in 1..p
      BY <2>1
    <3> QED
      BY <3>1
  <2>4. h + 1 - d = k + 1 /\ h + 1 - (d + 1) = k /\ p - d = q /\ p - (d + 1) = q - 1
    BY <1>0, <2>2, <2>3
  <2>5. PICK j \in 1..Len(L[k + 1]) : c[q] = L[k + 1][j]
    BY <1>3, <2>1, <2>4
  <2>6. L[k + 1] = nextLayer(L[k]) /\ Len(L[k]) \in Nat \ {0}
    BY <1>0, SMTT(30) DEF Tower
  <2>7. PICK x : x = L[k]
    OBVIOUS
  <2>8. \E a, b \in 1..Len(x) : nextLayer(x)[j].kids = {x[a], x[b]}
    <3>1. Len(x) \in Nat \ {0} /\ j \in 1..Len(nextLayer(x))
      BY <2>6, <2>7
    <3> QED
      BY <3>1, InnerNodes
  <2>9. PICK a \in 1..Len(x), b \in 1..Len(x) : c[q].kids = {x[a], x[b]}
    BY <2>5, <2>6, <2>7, <2>8
  <2>10. c[q].kids = {c[q - 1], proof[q]}
    BY <1>9
  <2>11. c[q - 1] = x[a] \/ c[q - 1] = x[b]
    BY <2>9, <2>10
  <2> QED
    BY <2>4, <2>7, <2>11
<1> HIDE DEF T
<1>4. Nat \subseteq T
  BY <1>2, <1>3, NatInductionSet
<1>6. CASE p < h
  <2>1. In(p)
    <3>1. p \in T /\ p <= p /\ p <= h
      BY <1>0, <1>4, <1>6
    <3> QED
      BY <3>1 DEF T
  <2>2. PICK k \in 1..h : k = h - p
    <3>1. h - p \in 1..h
      BY <1>0, <1>6
    <3> QED
      BY <3>1
  <2>3. h + 1 - p = k + 1 /\ p - p = 0
    BY <1>0, <2>2
  <2>4. PICK j \in 1..Len(L[k + 1]) : leaf = L[k + 1][j]
    BY <1>9, <2>1, <2>3
  <2>5. L[k + 1] = nextLayer(L[k]) /\ Len(L[k]) \in Nat \ {0}
    BY <1>0, SMTT(30) DEF Tower
  <2>6. PICK x : x = L[k]
    OBVIOUS
  <2>7. \E a, b \in 1..Len(x) : nextLayer(x)[j].kids = {x[a], x[b]}
    <3>1. Len(x) \in Nat \ {0} /\ j \in 1..Len(nextLayer(x))
      BY <2>4, <2>5, <2>6
    <3> QED
      BY <3>1, InnerNodes
  <2> QED
    BY <2>4, <2>5, <2>6, <2>7
<1>7. CASE p > h
  <2>1. In(h)
    BY <1>0, <1>4, <1>7 DEF T
  <2>2. PICK q \in 1..p : q = p - h
    <3>1. p - h \in 1..p
      BY <1>0, <1>7
    <3> QED
      BY <3>1
  <2>3. h + 1 - h = 1
    BY <1>0
  <2>4. PICK j \in 1..Len(leaves) : c[q] = leaves[j]
    BY <1>0, <2>1, <2>2, <2>3
  <2>5. c[q].kids = {c[q - 1], proof[q]}
    BY <1>9
  <2> QED
    BY <2>4, <2>5
<1>8. CASE p = h
  <2>1. In(h)
    <3>1. h \in T /\ h <= p /\ h <= h
      BY <1>0, <1>4, <1>8
    <3> QED
      BY <3>1 DEF T
  <2>2. h + 1 - h = 1 /\ p - h = 0
    BY <1>0, <1>8
  <2> QED
    BY <1>0, <1>9, <2>1, <2>2
<1> QED
  BY <1>0, <1>6, <1>7, <1>8

--------------------------------------------------------------------------------
(* The places that are paid, and those with a leaf *)

LEMMA MetricsAre == Metrics = {0, 1, 2, 3}
  BY DEF Metrics, METRIC_ABSOLUTE_PROFIT, METRIC_ROI

(* The place of a position in the order of the metrics and of their ranks.    *)
Nth(p0, p1, p2, a) ==
  IF a <= p0 THEN <<0, a>>
  ELSE IF a <= p0 + p1 THEN <<1, a - p0>>
  ELSE IF a <= p0 + p1 + p2 THEN <<2, a - (p0 + p1)>>
  ELSE <<3, a - (p0 + p1 + p2)>>

Laid(S, p0, p1, p2, p3) ==
  /\ S \in Seq(Metrics \X (1..10))
  /\ Len(S) = p0 + p1 + p2 + p3
  /\ DOMAIN S = 1..Len(S)
  /\ \A a \in 1..Len(S) : S[a] = Nth(p0, p1, p2, a)

LEMMA ListsInOrder ==
  ASSUME NEW p0 \in 0..10, NEW p1 \in 0..10, NEW p2 \in 0..10, NEW p3 \in 0..10, NEW lists,
         lists[0] = [k \in 1..p0 |-> <<0, k>>], lists[1] = [k \in 1..p1 |-> <<1, k>>],
         lists[2] = [k \in 1..p2 |-> <<2, k>>], lists[3] = [k \in 1..p3 |-> <<3, k>>]
  PROVE  Laid(inMetricOrder(lists), p0, p1, p2, p3)
<1> DEFINE P == Metrics \X (1..10)
           S == inMetricOrder(lists)
<1>1. ASSUME NEW m \in 0..3, NEW p \in 0..10, lists[m] = [k \in 1..p |-> <<m, k>>]
      PROVE  lists[m] \in Seq(P) /\ Len(lists[m]) = p
  <2>1. \A k \in 1..p : <<m, k>> \in P
    <3>1. m \in Metrics /\ \A k \in 1..p : k \in 1..10
      BY MetricsAre
    <3> QED
      BY <3>1
  <2>2. lists[m] \in [1..p -> P] /\ p \in Nat
    BY <1>1, <2>1
  <2> HIDE DEF P
  <2> QED
    BY <2>2, ListOf
<1> HIDE DEF P
<1>3. /\ lists[0] \in Seq(P) /\ Len(lists[0]) = p0
      /\ lists[1] \in Seq(P) /\ Len(lists[1]) = p1
      /\ lists[2] \in Seq(P) /\ Len(lists[2]) = p2
      /\ lists[3] \in Seq(P) /\ Len(lists[3]) = p3
  <2>1. 0 \in 0..3 /\ 1 \in 0..3 /\ 2 \in 0..3 /\ 3 \in 0..3
    OBVIOUS
  <2> HIDE DEF S
  <2>2. lists[0] \in Seq(P) /\ Len(lists[0]) = p0
    BY <1>1, <2>1
  <2>3. lists[1] \in Seq(P) /\ Len(lists[1]) = p1
    BY <1>1, <2>1
  <2>4. lists[2] \in Seq(P) /\ Len(lists[2]) = p2
    BY <1>1, <2>1
  <2>5. lists[3] \in Seq(P) /\ Len(lists[3]) = p3
    BY <1>1, <2>1
  <2> QED
    BY <2>2, <2>3, <2>4, <2>5
<1>4. PICK A : A = lists[0] \o lists[1]
  OBVIOUS
<1>5. /\ A \in Seq(P) /\ Len(A) = p0 + p1
      /\ \A a \in 1..p0 + p1 : A[a] = IF a <= p0 THEN lists[0][a] ELSE lists[1][a - p0]
  <2>1. PICK s \in Seq(P), t \in Seq(P) : s = lists[0] /\ t = lists[1]
    BY <1>3
  <2>2. A = s \o t /\ Len(s) = p0 /\ Len(t) = p1
    BY <1>3, <1>4, <2>1
  <2>3. /\ s \o t \in Seq(P) /\ Len(s \o t) = Len(s) + Len(t)
        /\ \A a \in 1..Len(s) + Len(t) : (s \o t)[a] = IF a <= Len(s) THEN s[a] ELSE t[a - Len(s)]
    BY ConcatProperties
  <2> QED
    BY <2>1, <2>2, <2>3
<1>6. PICK B : B = A \o lists[2]
  OBVIOUS
<1>7. /\ B \in Seq(P) /\ Len(B) = p0 + p1 + p2
      /\ \A a \in 1..p0 + p1 + p2 :
           B[a] = IF a <= p0 + p1 THEN A[a] ELSE lists[2][a - (p0 + p1)]
  <2>1. PICK s \in Seq(P), t \in Seq(P) : s = A /\ t = lists[2]
    BY <1>3, <1>5
  <2>2. B = s \o t /\ Len(s) = p0 + p1 /\ Len(t) = p2
    BY <1>3, <1>5, <1>6, <2>1
  <2>3. /\ s \o t \in Seq(P) /\ Len(s \o t) = Len(s) + Len(t)
        /\ \A a \in 1..Len(s) + Len(t) : (s \o t)[a] = IF a <= Len(s) THEN s[a] ELSE t[a - Len(s)]
    BY ConcatProperties
  <2> QED
    BY <2>1, <2>2, <2>3, ZenonT(40)
<1>8. S = B \o lists[3]
  BY <1>4, <1>6 DEF inMetricOrder, METRIC_ABSOLUTE_PROFIT, METRIC_WIN_STREAK, METRIC_WIN_RATE, METRIC_ROI
<1> HIDE DEF S
<1>9. /\ S \in Seq(P) /\ Len(S) = p0 + p1 + p2 + p3
      /\ \A a \in 1..p0 + p1 + p2 + p3 :
           S[a] = IF a <= p0 + p1 + p2 THEN B[a] ELSE lists[3][a - (p0 + p1 + p2)]
  <2>1. PICK s \in Seq(P), t \in Seq(P) : s = B /\ t = lists[3]
    BY <1>3, <1>7
  <2>2. S = s \o t /\ Len(s) = p0 + p1 + p2 /\ Len(t) = p3
    BY <1>3, <1>7, <1>8, <2>1
  <2>3. /\ s \o t \in Seq(P) /\ Len(s \o t) = Len(s) + Len(t)
        /\ \A a \in 1..Len(s) + Len(t) : (s \o t)[a] = IF a <= Len(s) THEN s[a] ELSE t[a - Len(s)]
    BY ConcatProperties
  <2> QED
    BY <2>1, <2>2, <2>3, ZenonT(40)
<1>10. /\ \A k \in 1..p0 : lists[0][k] = <<0, k>>
       /\ \A k \in 1..p1 : lists[1][k] = <<1, k>>
       /\ \A k \in 1..p2 : lists[2][k] = <<2, k>>
       /\ \A k \in 1..p3 : lists[3][k] = <<3, k>>
  OBVIOUS
<1>11. ASSUME NEW a \in 1..p0 + p1 + p2 + p3 PROVE S[a] = Nth(p0, p1, p2, a)
  <2>1. CASE a <= p0
    <3>1. a \in 1..p0 /\ a <= p0 + p1 /\ a <= p0 + p1 + p2
      BY <2>1
    <3>2. S[a] = B[a]
      BY <1>9, <3>1
    <3>3. B[a] = A[a]
      <4>1. a \in 1..p0 + p1 + p2
        BY <3>1
      <4> QED
        BY <1>7, <3>1, <4>1
    <3>4. A[a] = lists[0][a]
      <4>1. a \in 1..p0 + p1
        BY <3>1
      <4> QED
        BY <1>5, <2>1, <4>1
    <3> QED
      BY <1>10, <2>1, <3>1, <3>2, <3>3, <3>4 DEF Nth
  <2>2. CASE ~(a <= p0) /\ a <= p0 + p1
    <3>1. a - p0 \in 1..p1 /\ a <= p0 + p1 + p2 /\ a \in 1..p0 + p1
      BY <2>2
    <3>2. S[a] = B[a]
      BY <1>9, <3>1
    <3>3. B[a] = A[a]
      <4>1. a \in 1..p0 + p1 + p2
        BY <3>1
      <4> QED
        BY <1>7, <2>2, <4>1
    <3>4. A[a] = lists[1][a - p0]
      BY <1>5, <2>2, <3>1
    <3> QED
      BY <1>10, <2>2, <3>1, <3>2, <3>3, <3>4 DEF Nth
  <2>3. CASE ~(a <= p0 + p1) /\ a <= p0 + p1 + p2
    <3>1. a - (p0 + p1) \in 1..p2 /\ a \in 1..p0 + p1 + p2 /\ ~(a <= p0)
      BY <2>3
    <3>2. S[a] = B[a] /\ B[a] = lists[2][a - (p0 + p1)]
      BY <1>7, <1>9, <2>3, <3>1
    <3> QED
      BY <1>10, <2>3, <3>1, <3>2 DEF Nth
  <2>4. CASE ~(a <= p0 + p1 + p2)
    <3>1. a - (p0 + p1 + p2) \in 1..p3 /\ ~(a <= p0) /\ ~(a <= p0 + p1)
      BY <2>4
    <3>2. S[a] = lists[3][a - (p0 + p1 + p2)]
      BY <1>9, <2>4, <3>1
    <3> QED
      BY <1>10, <2>4, <3>1, <3>2 DEF Nth
  <2> QED
    BY <2>1, <2>2, <2>3, <2>4
<1>12. DOMAIN S = 1..Len(S)
  BY <1>9, LenProperties
<1> QED
  BY <1>9, <1>11, <1>12 DEF S, P, Laid

(* Nth is one to one onto the ranks of each metric. *)
NthFits(p0, p1, p2, p3, n) ==
  LET len == p0 + p1 + p2 + p3 IN
  /\ \A a \in 1..len : \E m \in Metrics : \E k \in 1..n[m] : Nth(p0, p1, p2, a) = <<m, k>>
  /\ \A m \in Metrics : \A k \in 1..n[m] : \E a \in 1..len : Nth(p0, p1, p2, a) = <<m, k>>
  /\ \A a, b \in 1..len : Nth(p0, p1, p2, a) = Nth(p0, p1, p2, b) => a = b

LEMMA NthPlaces ==
  ASSUME NEW p0 \in 0..10, NEW p1 \in 0..10, NEW p2 \in 0..10, NEW p3 \in 0..10,
         NEW n, n[0] = p0, n[1] = p1, n[2] = p2, n[3] = p3
  PROVE  NthFits(p0, p1, p2, p3, n)
<1> DEFINE len == p0 + p1 + p2 + p3
<1>4. \A a : Nth(p0, p1, p2, a) = IF a <= p0 THEN <<0, a>>
                                  ELSE IF a <= p0 + p1 THEN <<1, a - p0>>
                                  ELSE IF a <= p0 + p1 + p2 THEN <<2, a - (p0 + p1)>>
                                  ELSE <<3, a - (p0 + p1 + p2)>>
  BY DEF Nth
<1>5. ASSUME NEW a \in 1..len PROVE \E m \in Metrics : \E k \in 1..n[m] : Nth(p0, p1, p2, a) = <<m, k>>
  <2>0. a \in 1..p0 + p1 + p2 + p3
    OBVIOUS
  <2>1. CASE a <= p0
    <3>1. 0 \in Metrics /\ a \in 1..p0 /\ Nth(p0, p1, p2, a) = <<0, a>>
      BY <1>4, <2>0, <2>1, MetricsAre
    <3> QED
      BY <3>1
  <2>2. CASE ~(a <= p0) /\ a <= p0 + p1
    <3>1. 1 \in Metrics /\ a - p0 \in 1..p1 /\ Nth(p0, p1, p2, a) = <<1, a - p0>>
      BY <1>4, <2>0, <2>2, MetricsAre
    <3> QED
      BY <3>1
  <2>3. CASE ~(a <= p0 + p1) /\ a <= p0 + p1 + p2
    <3>1. 2 \in Metrics /\ a - (p0 + p1) \in 1..p2 /\ Nth(p0, p1, p2, a) = <<2, a - (p0 + p1)>>
      BY <1>4, <2>0, <2>3, MetricsAre
    <3> QED
      BY <3>1
  <2>4. CASE ~(a <= p0 + p1 + p2)
    <3>1. 3 \in Metrics /\ a - (p0 + p1 + p2) \in 1..p3 /\ Nth(p0, p1, p2, a) = <<3, a - (p0 + p1 + p2)>>
      BY <1>4, <2>0, <2>4, MetricsAre
    <3> QED
      BY <3>1
  <2> QED
    BY <2>0, <2>1, <2>2, <2>3, <2>4
<1>6. ASSUME NEW m \in Metrics, NEW k \in 1..n[m] PROVE \E a \in 1..len : Nth(p0, p1, p2, a) = <<m, k>>
  <2>0. len = p0 + p1 + p2 + p3 /\ m \in {0, 1, 2, 3}
    BY MetricsAre
  <2> HIDE DEF len
  <2>1. CASE m = 0
    <3>1. k \in 1..len /\ Nth(p0, p1, p2, k) = <<m, k>>
      BY <1>4, <2>0, <2>1
    <3> QED
      BY <3>1
  <2>2. CASE m = 1
    <3>0. k \in 1..p1
      BY <1>6, <2>2
    <3>1. k + p0 \in 1..len /\ ~(k + p0 <= p0) /\ k + p0 <= p0 + p1 /\ (k + p0) - p0 = k
      BY <2>0, <3>0
    <3>2. Nth(p0, p1, p2, k + p0) = <<m, k>>
      BY <1>4, <2>2, <3>1
    <3> QED
      BY <3>1, <3>2
  <2>3. CASE m = 2
    <3>0. k \in 1..p2
      BY <1>6, <2>3
    <3> DEFINE a == k + (p0 + p1)
    <3>1. a \in 1..len /\ ~(a <= p0) /\ ~(a <= p0 + p1) /\ a <= p0 + p1 + p2 /\ a - (p0 + p1) = k
      BY <2>0, <3>0
    <3> HIDE DEF a
    <3>2. Nth(p0, p1, p2, a) = <<m, k>>
      BY <1>4, <2>3, <3>1
    <3> QED
      BY <3>1, <3>2
  <2>4. CASE m = 3
    <3>0. k \in 1..p3
      BY <1>6, <2>4
    <3> DEFINE a == k + (p0 + p1 + p2)
    <3>1. a \in 1..len /\ ~(a <= p0) /\ ~(a <= p0 + p1) /\ ~(a <= p0 + p1 + p2) /\ a - (p0 + p1 + p2) = k
      BY <2>0, <3>0
    <3> HIDE DEF a
    <3>2. Nth(p0, p1, p2, a) = <<m, k>>
      BY <1>4, <2>4, <3>1
    <3> QED
      BY <3>1, <3>2
  <2> QED
    BY <2>0, <2>1, <2>2, <2>3, <2>4
<1>7. ASSUME NEW a \in 1..len, NEW b \in 1..len, Nth(p0, p1, p2, a) = Nth(p0, p1, p2, b) PROVE a = b
  <2>0. a \in Nat /\ b \in Nat
    OBVIOUS
  <2>1. \A x, y, u, v : <<x, y>> = <<u, v>> => x = u /\ y = v
    OBVIOUS
  <2> HIDE DEF len
  <2> QED
    BY <1>4, <1>7, <2>0, <2>1
<1> QED
  BY <1>5, <1>6, <1>7 DEF NthFits

(* S lists the places, each of them once. *)
Enumerates(S, places) ==
  /\ S \in Seq(Metrics \X (1..10))
  /\ Len(S) \in 0..40 /\ DOMAIN S = 1..Len(S)
  /\ \A a \in 1..Len(S) : S[a] \in places
  /\ \A p \in places : \E a \in 1..Len(S) : S[a] = p
  /\ \A a, b \in 1..Len(S) : S[a] = S[b] => a = b

PlacesIn(ranks) == {p \in Metrics \X (1..10) : p[2] \in ranks[p[1]]}

(* Lists in metric order have forty entries at most, one for every rank of a  *)
(* metric.                                                                    *)
LEMMA InOrder ==
  ASSUME NEW ranks, \A m \in Metrics : \E p \in 0..10 : ranks[m] = 1..p,
         NEW lists, \A m \in Metrics : lists[m] = [k \in ranks[m] |-> <<m, k>>]
  PROVE  Enumerates(inMetricOrder(lists), PlacesIn(ranks))
<1> DEFINE S == inMetricOrder(lists)
<1>1. PICK p0 \in 0..10 : ranks[0] = 1..p0
  BY MetricsAre
<1>2. PICK p1 \in 0..10 : ranks[1] = 1..p1
  BY MetricsAre
<1>3. PICK p2 \in 0..10 : ranks[2] = 1..p2
  BY MetricsAre
<1>4. PICK p3 \in 0..10 : ranks[3] = 1..p3
  BY MetricsAre
<1>5. /\ lists[0] = [k \in 1..p0 |-> <<0, k>>] /\ lists[1] = [k \in 1..p1 |-> <<1, k>>]
      /\ lists[2] = [k \in 1..p2 |-> <<2, k>>] /\ lists[3] = [k \in 1..p3 |-> <<3, k>>]
  <2>1. \A m \in {0, 1, 2, 3} : lists[m] = [k \in ranks[m] |-> <<m, k>>]
    BY MetricsAre
  <2>2. /\ lists[0] = [k \in ranks[0] |-> <<0, k>>] /\ lists[1] = [k \in ranks[1] |-> <<1, k>>]
        /\ lists[2] = [k \in ranks[2] |-> <<2, k>>] /\ lists[3] = [k \in ranks[3] |-> <<3, k>>]
    BY <2>1
  <2> QED
    BY <1>1, <1>2, <1>3, <1>4, <2>2
<1>6. Laid(S, p0, p1, p2, p3)
  BY <1>5, ListsInOrder
<1> HIDE DEF S
<1>7. PICK n : n[0] = p0 /\ n[1] = p1 /\ n[2] = p2 /\ n[3] = p3
  <2> DEFINE f == [m \in 0..3 |-> IF m = 0 THEN p0 ELSE IF m = 1 THEN p1
                                  ELSE IF m = 2 THEN p2 ELSE p3]
  <2>1. f[0] = p0 /\ f[1] = p1 /\ f[2] = p2 /\ f[3] = p3
    OBVIOUS
  <2> HIDE DEF f
  <2> QED
    BY <2>1
<1>8. \A m \in Metrics : ranks[m] = 1..n[m] /\ n[m] \in 0..10
  BY <1>1, <1>2, <1>3, <1>4, <1>7, MetricsAre
<1>9. NthFits(p0, p1, p2, p3, n)
  BY <1>7, NthPlaces
<1>10. /\ S \in Seq(Metrics \X (1..10))
       /\ Len(S) = p0 + p1 + p2 + p3 /\ Len(S) \in 0..40 /\ DOMAIN S = 1..Len(S)
  BY <1>6 DEF Laid
<1>11. ASSUME NEW a \in 1..Len(S) PROVE S[a] \in PlacesIn(ranks)
  <2>1. S[a] = Nth(p0, p1, p2, a) /\ a \in 1..p0 + p1 + p2 + p3
    BY <1>6, <1>10, <1>11 DEF Laid
  <2>2. PICK m \in Metrics : \E k \in 1..n[m] : Nth(p0, p1, p2, a) = <<m, k>>
    BY <1>9, <2>1 DEF NthFits
  <2>3. PICK k \in 1..n[m] : S[a] = <<m, k>>
    BY <2>1, <2>2
  <2>4. k \in ranks[m] /\ k \in 1..10
    BY <1>8, <2>3
  <2> QED
    BY <2>3, <2>4 DEF PlacesIn
<1>12. ASSUME NEW p \in PlacesIn(ranks) PROVE \E a \in 1..Len(S) : S[a] = p
  <2>1. PICK m \in Metrics, k \in 1..10 : p = <<m, k>> /\ k \in ranks[m]
    BY <1>12 DEF PlacesIn
  <2>2. k \in 1..n[m]
    BY <1>8, <2>1
  <2>3. PICK a \in 1..p0 + p1 + p2 + p3 : Nth(p0, p1, p2, a) = <<m, k>>
    BY <1>9, <2>2 DEF NthFits
  <2>4. a \in 1..Len(S)
    BY <1>10
  <2>5. S[a] = p
    BY <1>6, <2>1, <2>3, <2>4 DEF Laid
  <2> QED
    BY <2>4, <2>5
<1>13. ASSUME NEW a \in 1..Len(S), NEW b \in 1..Len(S), S[a] = S[b] PROVE a = b
  <2>1. a \in 1..p0 + p1 + p2 + p3 /\ b \in 1..p0 + p1 + p2 + p3
    BY <1>10
  <2>2. Nth(p0, p1, p2, a) = Nth(p0, p1, p2, b)
    BY <1>6, <1>13 DEF Laid
  <2> QED
    BY <1>9, <2>1, <2>2 DEF NthFits
<1> QED
  BY <1>10, <1>11, <1>12, <1>13 DEF S, Enumerates

--------------------------------------------------------------------------------
(* Rankings and the places they fill *)

(* The rankings a run may have read: lists of winners for some metrics.       *)
Lists == UNION {[1..n -> Wallets] : n \in 0..TOP_N}

Tops == UNION {[ms -> Lists] : ms \in (SUBSET Metrics) \ {{}}}

(* The places of a ranking that have a winner. *)
WonPlaces(top) ==
  {p \in Metrics \X (1..10) : p[1] \in DOMAIN top /\ p[2] \in DOMAIN top[p[1]]}

LEMMA TopRanks ==
  ASSUME NEW top \in Tops
  PROVE  /\ DOMAIN top \subseteq Metrics /\ DOMAIN top # {}
         /\ \A m \in DOMAIN top : \E p \in 0..10 : p <= TOP_N /\ DOMAIN top[m] = 1..p
<1>1. PICK ms \in (SUBSET Metrics) \ {{}} : top \in [ms -> Lists]
  BY DEF Tops
<1>2. TOP_N \in 1..10
  BY DistributionAssumption DEF DistributionAssumption
<1>3. ASSUME NEW m \in DOMAIN top PROVE \E p \in 0..10 : p <= TOP_N /\ DOMAIN top[m] = 1..p
  <2>1. top[m] \in Lists
    BY <1>1, <1>3
  <2>2. PICK p \in 0..TOP_N : top[m] \in [1..p -> Wallets]
    BY <2>1 DEF Lists
  <2>3. p \in 0..10 /\ p <= TOP_N
    BY <1>2
  <2>4. DOMAIN top[m] = 1..p
    BY <2>2
  <2> QED
    BY <2>3, <2>4
<1> QED
  BY <1>1, <1>3

LEMMA NoEntries ==
  ASSUME NEW m
  PROVE  <<>> = [k \in {} |-> <<m, k>>]
  OBVIOUS

(* The places of the leaves are those that have a winner.                     *)
LEMMA LeafPlaces ==
  ASSUME NEW r, r.top \in Tops
  PROVE  Enumerates(leafPlaces(r), WonPlaces(r.top))
<1> DEFINE lists == [m \in Metrics |->
             IF m \in DOMAIN r.top THEN [k \in DOMAIN r.top[m] |-> <<m, k>>] ELSE <<>>]
           ranks == [m \in Metrics |-> IF m \in DOMAIN r.top THEN DOMAIN r.top[m] ELSE {}]
<1>1. ASSUME NEW m \in Metrics PROVE \E p \in 0..10 : ranks[m] = 1..p
  <2>1. CASE m \in DOMAIN r.top
    <3>1. PICK p \in 0..10 : DOMAIN r.top[m] = 1..p
      BY <2>1, TopRanks
    <3> QED
      BY <2>1, <3>1
  <2>2. CASE m \notin DOMAIN r.top
    <3>1. ranks[m] = 1..0
      BY <2>2
    <3> QED
      BY <3>1
  <2> QED
    BY <2>1, <2>2
<1>2. ASSUME NEW m \in Metrics PROVE lists[m] = [k \in ranks[m] |-> <<m, k>>]
  <2>1. CASE m \in DOMAIN r.top
    BY <2>1
  <2>2. CASE m \notin DOMAIN r.top
    BY <2>2, NoEntries
  <2> QED
    BY <2>1, <2>2
<1>3. leafPlaces(r) = inMetricOrder(lists)
  BY DEF leafPlaces
<1>4. PlacesIn(ranks) = WonPlaces(r.top)
  <2>1. \A p \in Metrics \X (1..10) : p[1] \in Metrics
    OBVIOUS
  <2> QED
    BY <2>1 DEF PlacesIn, WonPlaces
<1> HIDE DEF lists, ranks
<1>5. Enumerates(inMetricOrder(lists), PlacesIn(ranks))
  BY <1>1, <1>2, InOrder
<1> QED
  BY <1>3, <1>4, <1>5

(* The positions paid one by one: every rank up to TOP_N of the metrics that  *)
(* were ranked, none of them twice.                                           *)
LEMMA PaidPlaces ==
  ASSUME NEW r, r.top \in Tops
  PROVE  /\ Enumerates(placesOf(r), (DOMAIN r.top) \X (1..TOP_N))
         /\ Len(placesOf(r)) \in 1..40
<1> DEFINE lists == [m \in Metrics |->
             IF m \in DOMAIN r.top THEN [k \in 1..TOP_N |-> <<m, k>>] ELSE <<>>]
           ranks == [m \in Metrics |-> IF m \in DOMAIN r.top THEN 1..TOP_N ELSE {}]
<1>0. TOP_N \in 1..10
  BY DistributionAssumption DEF DistributionAssumption
<1>1. ASSUME NEW m \in Metrics PROVE \E p \in 0..10 : ranks[m] = 1..p
  <2>1. CASE m \in DOMAIN r.top
    BY <1>0, <2>1
  <2>2. CASE m \notin DOMAIN r.top
    <3>1. ranks[m] = 1..0
      BY <2>2
    <3> QED
      BY <3>1
  <2> QED
    BY <2>1, <2>2
<1>2. ASSUME NEW m \in Metrics PROVE lists[m] = [k \in ranks[m] |-> <<m, k>>]
  <2>1. CASE m \in DOMAIN r.top
    BY <2>1
  <2>2. CASE m \notin DOMAIN r.top
    BY <2>2, NoEntries
  <2> QED
    BY <2>1, <2>2
<1>3. placesOf(r) = inMetricOrder(lists)
  BY DEF placesOf
<1>4. PlacesIn(ranks) = (DOMAIN r.top) \X (1..TOP_N)
  <2>1. DOMAIN r.top \subseteq Metrics
    BY TopRanks
  <2>2. \A m, k : <<m, k>> \in PlacesIn(ranks) <=> m \in DOMAIN r.top /\ k \in 1..TOP_N
    BY <1>0, <2>1 DEF PlacesIn
  <2>3. \A p \in PlacesIn(ranks) : \E m, k : p = <<m, k>>
    BY DEF PlacesIn
  <2> HIDE DEF ranks
  <2> QED
    BY <2>2, <2>3
<1> HIDE DEF lists, ranks
<1>5. Enumerates(inMetricOrder(lists), PlacesIn(ranks))
  BY <1>1, <1>2, InOrder
<1>6. Len(placesOf(r)) \in 1..40
  <2>1. PICK m \in DOMAIN r.top : TRUE
    BY TopRanks
  <2>2. <<m, 1>> \in PlacesIn(ranks)
    BY <1>0, <1>4, <2>1
  <2>3. \E a \in 1..Len(placesOf(r)) : placesOf(r)[a] = <<m, 1>>
    BY <1>3, <1>5, <2>2 DEF Enumerates
  <2>4. Len(placesOf(r)) \in 0..40
    BY <1>3, <1>5 DEF Enumerates
  <2> QED
    BY <2>3, <2>4
<1> QED
  BY <1>3, <1>4, <1>5, <1>6

--------------------------------------------------------------------------------
(* Amounts: what the leaves of version 2 promise is within the pool *)

RanksOf(m) == {m} \X (1..10)

(* f is what a balance gives to each rank. *)
SplitOf(f, m, b) == \A k \in 1..10 : f[<<m, k>>] = b * DEFAULT_DISTRIBUTION_BPS[k]

(* The ranks of a metric share its balance. *)
LEMMA RanksShare ==
  ASSUME NEW f, NEW m, NEW b \in Nat, SplitOf(f, m, b)
  PROVE  AtMost(f, RanksOf(m), b * 10000)
<1> DEFINE D(k) == {m} \X (1..k)
<1>1. \A k \in 1..10 : k \in Nat
  OBVIOUS
<1>2. /\ DEFAULT_DISTRIBUTION_BPS[1] = 2500
      /\ DEFAULT_DISTRIBUTION_BPS[2] = 1800
      /\ DEFAULT_DISTRIBUTION_BPS[3] = 1200
      /\ DEFAULT_DISTRIBUTION_BPS[4] = 1000
      /\ DEFAULT_DISTRIBUTION_BPS[5] = 800
      /\ DEFAULT_DISTRIBUTION_BPS[6] = 700
      /\ DEFAULT_DISTRIBUTION_BPS[7] = 600
      /\ DEFAULT_DISTRIBUTION_BPS[8] = 500
      /\ DEFAULT_DISTRIBUTION_BPS[9] = 500
      /\ DEFAULT_DISTRIBUTION_BPS[10] = 400
  BY DEF DEFAULT_DISTRIBUTION_BPS
<1>3. ASSUME NEW k \in 1..10, NEW c \in Nat, DEFAULT_DISTRIBUTION_BPS[k] = c
      PROVE  AtMost(f, {<<m, k>>}, b * c)
  <2>1. f[<<m, k>>] = b * c /\ b * c \in Nat
    BY <1>3 DEF SplitOf
  <2>2. PICK p : p = <<m, k>>
    OBVIOUS
  <2>3. f[p] \in Nat /\ f[p] = b * c
    BY <2>1, <2>2
  <2>4. AtMost(f, {p}, f[p])
    BY <2>3, AtMostOne
  <2> QED
    BY <2>2, <2>3, <2>4
<1>4. ASSUME NEW k \in 1..9, NEW c \in Nat, NEW d \in Nat, NEW e \in Nat, e = c + d,
             AtMost(f, D(k), b * c), DEFAULT_DISTRIBUTION_BPS[k + 1] = d
      PROVE  AtMost(f, D(k + 1), b * e)
  <2>1. k + 1 \in 1..10 /\ 1..(k + 1) = 1..k \cup {k + 1}
    OBVIOUS
  <2>2. D(k + 1) = D(k) \cup {<<m, k + 1>>}
    BY <2>1
  <2>3. AtMost(f, {<<m, k + 1>>}, b * d)
    BY <1>3, <1>4, <2>1
  <2>4. AtMost(f, D(k) \cup {<<m, k + 1>>}, b * c + b * d)
    <3> HIDE DEF D
    <3> QED
      BY <1>4, <2>3, AtMostBoth
  <2>5. b * c + b * d = b * e
    BY <1>4
  <2> HIDE DEF D
  <2> QED
    BY <2>2, <2>4, <2>5
<1>5. AtMost(f, D(1), b * 2500)
  <2>0. DEFAULT_DISTRIBUTION_BPS[1] = 2500 /\ 1 \in 1..10 /\ 2500 \in Nat
    BY <1>2
  <2>1. AtMost(f, {<<m, 1>>}, b * 2500)
    <3>1. PICK k \in 1..10, c \in Nat : k = 1 /\ c = 2500
      BY <2>0
    <3>2. DEFAULT_DISTRIBUTION_BPS[k] = c
      BY <2>0, <3>1
    <3>3. AtMost(f, {<<m, k>>}, b * c)
      BY <1>3, <3>2
    <3> QED
      BY <3>1, <3>3
  <2>2. D(1) = {<<m, 1>>}
    <3>1. 1..1 = {1}
      OBVIOUS
    <3> QED
      BY <3>1
  <2> HIDE DEF D
  <2> QED
    BY <2>1, <2>2
<1> HIDE DEF D
<1>6. AtMost(f, D(2), b * 4300)
  BY <1>2, <1>4, <1>5, 1 \in 1..9, 1 + 1 = 2, 2500 + 1800 = 4300
<1>7. AtMost(f, D(3), b * 5500)
  BY <1>2, <1>4, <1>6, 2 \in 1..9, 2 + 1 = 3, 4300 + 1200 = 5500
<1>8. AtMost(f, D(4), b * 6500)
  BY <1>2, <1>4, <1>7, 3 \in 1..9, 3 + 1 = 4, 5500 + 1000 = 6500
<1>9. AtMost(f, D(5), b * 7300)
  BY <1>2, <1>4, <1>8, 4 \in 1..9, 4 + 1 = 5, 6500 + 800 = 7300
<1>10. AtMost(f, D(6), b * 8000)
  BY <1>2, <1>4, <1>9, 5 \in 1..9, 5 + 1 = 6, 7300 + 700 = 8000
<1>11. AtMost(f, D(7), b * 8600)
  BY <1>2, <1>4, <1>10, 6 \in 1..9, 6 + 1 = 7, 8000 + 600 = 8600
<1>12. AtMost(f, D(8), b * 9100)
  BY <1>2, <1>4, <1>11, 7 \in 1..9, 7 + 1 = 8, 8600 + 500 = 9100
<1>13. AtMost(f, D(9), b * 9600)
  BY <1>2, <1>4, <1>12, 8 \in 1..9, 8 + 1 = 9, 9100 + 500 = 9600
<1>14. AtMost(f, D(10), b * 10000)
  BY <1>2, <1>4, <1>13, 9 \in 1..9, 9 + 1 = 10, 9600 + 400 = 10000
<1> QED
  BY <1>14 DEF D, RanksOf

(* Over all the metrics and ranks no more is promised than the pool.          *)
Shares(pool) == [p \in Metrics \X (1..10) |-> assignAmount(pool, p[1], p[2])]

LEMMA SharesWithinPool ==
  ASSUME NEW pool \in Nat
  PROVE  AtMost(Shares(pool), Metrics \X (1..10), pool * 10000)
<1> DEFINE b(m) == metricBalanceCents(pool, m)
           f == Shares(pool)
<1>1. /\ b(0) = (pool * 6000) \div 10000 /\ b(1) = (pool * 2000) \div 10000
      /\ b(2) = (pool * 1500) \div 10000 /\ b(3) = (pool * 500) \div 10000
  BY MetricsAre DEF metricBalanceCents, DEFAULT_METRIC_POOL_SPLIT_BPS, METRIC_ABSOLUTE_PROFIT,
     METRIC_WIN_STREAK, METRIC_WIN_RATE, METRIC_ROI
<1>2. b(0) \in Nat /\ b(1) \in Nat /\ b(2) \in Nat /\ b(3) \in Nat
  BY <1>1
<1>3. b(0) + b(1) + b(2) + b(3) <= pool
  BY <1>1
<1>4. ASSUME NEW m \in 0..3, b(m) \in Nat PROVE AtMost(f, RanksOf(m), b(m) * 10000)
  <2>1. m \in Metrics
    BY MetricsAre
  <2>2. \A k \in 1..10 : f[<<m, k>>] = b(m) * DEFAULT_DISTRIBUTION_BPS[k]
    BY <2>1 DEF Shares, assignAmount
  <2> HIDE DEF f
  <2>3. PICK c \in Nat : c = b(m)
    BY <1>4
  <2>4. SplitOf(f, m, c)
    BY <2>2, <2>3 DEF SplitOf
  <2> HIDE DEF b
  <2>5. AtMost(f, RanksOf(m), c * 10000)
    BY <2>4, RanksShare
  <2> QED
    BY <2>3, <2>5
<1> HIDE DEF b, f
<1>5. /\ AtMost(f, RanksOf(0), b(0) * 10000) /\ AtMost(f, RanksOf(1), b(1) * 10000)
      /\ AtMost(f, RanksOf(2), b(2) * 10000) /\ AtMost(f, RanksOf(3), b(3) * 10000)
  BY <1>2, <1>4, 0 \in 0..3, 1 \in 0..3, 2 \in 0..3, 3 \in 0..3
<1> DEFINE A == RanksOf(0) \cup RanksOf(1)
           B == RanksOf(2) \cup RanksOf(3)
           x == b(0) * 10000 + b(1) * 10000
           y == b(2) * 10000 + b(3) * 10000
<1>6. AtMost(f, A, x) /\ AtMost(f, B, y)
  BY <1>5, AtMostBoth
<1>7. A \cup B = Metrics \X (1..10)
  BY MetricsAre DEF RanksOf
<1>8. x + y \in Nat /\ x + y <= pool * 10000 /\ pool * 10000 \in Nat
  BY <1>2, <1>3
<1> HIDE DEF A, B, x, y
<1>9. AtMost(f, Metrics \X (1..10), x + y)
  BY <1>6, <1>7, AtMostBoth
<1>10. ASSUME NEW C \in SUBSET (Metrics \X (1..10)) PROVE SumFunctionOnSet(f, C) <= pool * 10000
  <2>1. SumFunctionOnSet(f, C) <= x + y /\ IsFiniteSet(C) /\ \A p \in C : f[p] \in Nat
    BY <1>9, FS_Subset DEF AtMost
  <2>2. SumFunctionOnSet(f, C) \in Nat
    BY <2>1, SumNat
  <2> QED
    BY <1>8, <2>1, <2>2
<1>11. AtMost(f, Metrics \X (1..10), pool * 10000)
  BY <1>8, <1>9, <1>10 DEF AtMost
<1> QED
  BY <1>11 DEF f

(* What a run that has read its rankings holds. *)
Board(r) == r.top \in Tops /\ r.version \in {1, 2} /\ r.pool \in Nat

Amounts(r) == [p \in WonPlaces(r.top) |-> amountAt(r, p)]

LeavesOf(r) ==
  [n \in DOMAIN leafPlaces(r) |->
     hashLeafOf(r, leafPlaces(r)[n][1], leafPlaces(r)[n][2],
                r.top[leafPlaces(r)[n][1]][leafPlaces(r)[n][2]])]

LEMMA WonAre ==
  ASSUME NEW r, Board(r)
  PROVE  /\ WonPlaces(r.top) \in SUBSET (Metrics \X (1..10)) /\ IsFiniteSet(WonPlaces(r.top))
         /\ Range(leafPlaces(r)) = WonPlaces(r.top)
         /\ leafPlaces(r) # <<>> => Len(leafPlaces(r)) \in 1..40
<1>1. IsFiniteSet(Metrics \X (1..10))
  <2>1. IsFiniteSet(0..3) /\ IsFiniteSet(1..10)
    BY FS_Interval, 0 \in Int, 3 \in Int, 1 \in Int, 10 \in Int
  <2>2. IsFiniteSet(Metrics)
    BY <2>1 DEF Metrics, METRIC_ABSOLUTE_PROFIT, METRIC_ROI
  <2> QED
    BY <2>1, <2>2, FS_Product
<1>2. WonPlaces(r.top) \in SUBSET (Metrics \X (1..10))
  BY DEF WonPlaces
<1>3. Enumerates(leafPlaces(r), WonPlaces(r.top))
  BY LeafPlaces DEF Board
<1>4. Range(leafPlaces(r)) = WonPlaces(r.top)
  <2> DEFINE S == leafPlaces(r)
             W == WonPlaces(r.top)
  <2>1. /\ DOMAIN S = 1..Len(S)
        /\ \A a \in 1..Len(S) : S[a] \in W
        /\ \A p \in W : \E a \in 1..Len(S) : S[a] = p
    BY <1>3 DEF Enumerates
  <2> HIDE DEF S, W
  <2>2. Range(S) = W
    BY <2>1 DEF Range
  <2> QED
    BY <2>2 DEF S, W
<1>5. leafPlaces(r) # <<>> => Len(leafPlaces(r)) # 0
  <2>1. leafPlaces(r) \in Seq(Metrics \X (1..10))
    BY <1>3 DEF Enumerates
  <2> QED
    BY <2>1, EmptySeq
<1>6. leafPlaces(r) # <<>> => Len(leafPlaces(r)) \in 1..40
  <2>1. Len(leafPlaces(r)) \in 0..40
    BY <1>3 DEF Enumerates
  <2> QED
    BY <1>5, <2>1
<1>7. IsFiniteSet(WonPlaces(r.top))
  BY <1>1, <1>2, FS_Subset
<1> QED
  BY <1>2, <1>4, <1>6, <1>7

LEMMA AmountsAre ==
  ASSUME NEW r, Board(r), NEW p \in Metrics \X (1..10)
  PROVE  /\ amountAt(r, p) \in Nat
         /\ r.version = 2 => amountAt(r, p) = Shares(r.pool)[p]
<1>1. PICK m \in Metrics, k \in 1..10 : p = <<m, k>> /\ p[1] = m /\ p[2] = k
  OBVIOUS
<1>2. DEFAULT_DISTRIBUTION_BPS[k] \in Nat
  <2>1. k \in {1, 2, 3, 4, 5, 6, 7, 8, 9, 10}
    OBVIOUS
  <2> QED
    BY <2>1 DEF DEFAULT_DISTRIBUTION_BPS
<1>3. DEFAULT_METRIC_POOL_SPLIT_BPS[m] \in Nat
  BY DEF DEFAULT_METRIC_POOL_SPLIT_BPS, METRIC_ABSOLUTE_PROFIT,
     METRIC_WIN_STREAK, METRIC_WIN_RATE, METRIC_ROI, Metrics
<1>4. r.pool \in Nat /\ r.version \in {1, 2}
  BY DEF Board
<1>5. amountAt(r, p) = IF r.version = 1 THEN positionAmountBase(r.pool, k)
                       ELSE assignAmount(r.pool, m, k)
  BY <1>1 DEF amountAt, leafOf
<1>6. positionAmountBase(r.pool, k) \in Nat
  <2>1. PICK x \in Nat : x = DEFAULT_DISTRIBUTION_BPS[k]
    BY <1>2
  <2>2. PICK y \in Nat : y = r.pool
    BY <1>4
  <2>3. PICK z \in Nat : z = y * x
    OBVIOUS
  <2>4. ((z \div 100 + 50) \div 100) * 10000 \in Nat
    OBVIOUS
  <2> QED
    BY <2>1, <2>2, <2>3, <2>4 DEF positionAmountBase
<1>7. assignAmount(r.pool, m, k) \in Nat
  <2>1. PICK x \in Nat : x = DEFAULT_METRIC_POOL_SPLIT_BPS[m]
    BY <1>3
  <2>2. PICK y \in Nat : y = r.pool
    BY <1>4
  <2>3. PICK z \in Nat : z = y * x
    OBVIOUS
  <2>4. z \div 10000 \in Nat
    OBVIOUS
  <2>5. metricBalanceCents(r.pool, m) \in Nat
    BY <2>1, <2>2, <2>3, <2>4 DEF metricBalanceCents
  <2> QED
    BY <1>2, <2>5 DEF assignAmount
<1>8. Shares(r.pool)[p] = assignAmount(r.pool, m, k)
  BY <1>1 DEF Shares
<1> QED
  BY <1>4, <1>5, <1>6, <1>7, <1>8

LEMMA TotalIs ==
  ASSUME NEW r, Board(r)
  PROVE  totalOf(r) = SumFunctionOnSet(Amounts(r), WonPlaces(r.top)) /\ totalOf(r) \in Nat
<1>1. totalOf(r) = SumFunctionOnSet(Amounts(r), WonPlaces(r.top))
  BY WonAre DEF totalOf, Amounts
<1>2. \A p \in WonPlaces(r.top) : Amounts(r)[p] \in Nat
  BY WonAre, AmountsAre DEF Amounts
<1>3. SumFunctionOnSet(Amounts(r), WonPlaces(r.top)) \in Nat
  BY <1>2, WonAre, SumNat
<1> QED
  BY <1>1, <1>3

(* Version 2 promises no more than the pool. *)
LEMMA PromisesWithinPool ==
  ASSUME NEW r, Board(r), r.version = 2, NEW C \in SUBSET WonPlaces(r.top)
  PROVE  SumFunctionOnSet(Amounts(r), C) <= r.pool * 10000
<1>1. IsFiniteSet(C) /\ C \in SUBSET (Metrics \X (1..10))
  BY WonAre, FS_Subset
<1>2. \A p \in C : Amounts(r)[p] = Shares(r.pool)[p]
  BY <1>1, AmountsAre DEF Amounts
<1>3. SumFunctionOnSet(Amounts(r), C) = SumFunctionOnSet(Shares(r.pool), C)
  BY <1>1, <1>2, SumEqual
<1>4. AtMost(Shares(r.pool), Metrics \X (1..10), r.pool * 10000)
  <2>1. PICK pool \in Nat : pool = r.pool
    BY DEF Board
  <2>2. AtMost(Shares(pool), Metrics \X (1..10), pool * 10000)
    BY SharesWithinPool, SMTT(30)
  <2> QED
    BY <2>1, <2>2
<1> QED
  BY <1>1, <1>3, <1>4 DEF AtMost

(* The tree of a board with a winner. *)
LEMMA TreeOf ==
  ASSUME NEW r, Board(r), leafPlaces(r) # <<>>
  PROVE  /\ merkleRoot(r) = rootOf(treeLayers(r))
         /\ Len(LeavesOf(r)) = Len(leafPlaces(r)) /\ Len(leafPlaces(r)) \in 1..40
         /\ \E h \in 0..6 : Tower(treeLayers(r), LeavesOf(r), h)
<1>1. /\ Enumerates(leafPlaces(r), WonPlaces(r.top))
      /\ Len(leafPlaces(r)) \in 1..40
  BY LeafPlaces, WonAre DEF Board
<1>2. DOMAIN leafPlaces(r) = 1..Len(leafPlaces(r)) /\ Len(leafPlaces(r)) \in Nat
  BY <1>1 DEF Enumerates
<1>3. Len(LeavesOf(r)) = Len(leafPlaces(r))
  <2> DEFINE n == Len(leafPlaces(r))
             T == {LeavesOf(r)[a] : a \in 1..n}
  <2>1. LeavesOf(r) \in [1..n -> T] /\ n \in Nat
    BY <1>2 DEF LeavesOf
  <2> HIDE DEF n, T
  <2>2. Len(LeavesOf(r)) = n
    BY <2>1, ListOf
  <2> QED
    BY <2>2 DEF n
<1>4. treeLayers(r) = buildSortedPairTreeLayers(LeavesOf(r))
  BY DEF treeLayers, LeavesOf
<1>5. \E h \in 0..6 : Tower(buildSortedPairTreeLayers(LeavesOf(r)), LeavesOf(r), h)
  BY <1>1, <1>3, TreeShape
<1>6. merkleRoot(r) = rootOf(treeLayers(r))
  BY DEF merkleRoot
<1> QED
  BY <1>1, <1>3, <1>4, <1>5, <1>6

--------------------------------------------------------------------------------
(* The proofs a run sends along *)

leafAt(r, p) == hashLeafOf(r, p[1], p[2], r.top[p[1]][p[2]])

LEMMA LeafAt ==
  ASSUME NEW r, Board(r), NEW n \in 1..Len(leafPlaces(r))
  PROVE  /\ LeavesOf(r)[n] = leafAt(r, leafPlaces(r)[n]) /\ NoKids(LeavesOf(r)[n])
         /\ leafPlaces(r)[n] \in WonPlaces(r.top)
<1>1. Enumerates(leafPlaces(r), WonPlaces(r.top))
  BY LeafPlaces DEF Board
<1>2. n \in DOMAIN leafPlaces(r) /\ leafPlaces(r)[n] \in WonPlaces(r.top)
  BY <1>1 DEF Enumerates
<1>3. LeavesOf(r)[n] = leafAt(r, leafPlaces(r)[n])
  BY <1>2 DEF LeavesOf, leafAt
<1>4. NoKids(leafAt(r, leafPlaces(r)[n]))
  BY DEF leafAt, hashLeafOf, leafNode, NoKids
<1> QED
  BY <1>2, <1>3, <1>4

(* The proof a run sends along leads to its own root. *)
LEMMA OwnProof ==
  ASSUME NEW r, Board(r), leafPlaces(r) # <<>>, NEW m, NEW k, <<m, k>> \in WonPlaces(r.top)
  PROVE  verifyLeafProof(hashLeafOf(r, m, k, r.top[m][k]), proofFor(r, m, k), merkleRoot(r))
<1> DEFINE n == CHOOSE a \in DOMAIN leafPlaces(r) : leafPlaces(r)[a] = <<m, k>>
<1>1. Enumerates(leafPlaces(r), WonPlaces(r.top))
  BY LeafPlaces DEF Board
<1>2. n \in DOMAIN leafPlaces(r) /\ leafPlaces(r)[n] = <<m, k>>
  <2>1. \E a \in 1..Len(leafPlaces(r)) : leafPlaces(r)[a] = <<m, k>>
    BY <1>1 DEF Enumerates
  <2>2. DOMAIN leafPlaces(r) = 1..Len(leafPlaces(r))
    BY <1>1 DEF Enumerates
  <2> QED
    BY <2>1, <2>2
<1>3. proofFor(r, m, k) = generateSortedPairProof(treeLayers(r), n - 1)
  BY DEF proofFor
<1> HIDE DEF n
<1>4. PICK a \in 1..Len(leafPlaces(r)) : a = n
  BY <1>1, <1>2 DEF Enumerates
<1>5. LeavesOf(r)[a] = hashLeafOf(r, m, k, r.top[m][k])
  <2>1. LeavesOf(r)[a] = leafAt(r, <<m, k>>)
    BY <1>2, <1>4, LeafAt
  <2> QED
    BY <2>1 DEF leafAt
<1>6. /\ merkleRoot(r) = rootOf(treeLayers(r)) /\ a \in 1..Len(LeavesOf(r))
      /\ \E h \in 0..6 : Tower(treeLayers(r), LeavesOf(r), h)
  BY TreeOf
<1>7. PICK L, S : L = treeLayers(r) /\ S = LeavesOf(r)
  OBVIOUS
<1>8. PICK h \in 0..6 : Tower(L, S, h)
  BY <1>6, <1>7
<1>9. a \in 1..Len(S)
  BY <1>6, <1>7
<1>10. verifyLeafProof(S[a], generateSortedPairProof(L, a - 1), rootOf(L))
  BY <1>8, <1>9, OwnProofsPass
<1>11. S[a] = hashLeafOf(r, m, k, r.top[m][k]) /\ rootOf(L) = merkleRoot(r)
  BY <1>5, <1>6, <1>7
<1>12. generateSortedPairProof(L, a - 1) = proofFor(r, m, k)
  BY <1>3, <1>4, <1>7
<1> QED
  BY <1>10, <1>11, <1>12

(* A root answers for its own leaves only. *)
LEMMA OnlyOwn ==
  ASSUME NEW r, Board(r), leafPlaces(r) # <<>>, NEW leaf, NoKids(leaf),
         NEW proof, Len(proof) \in Nat, verifyLeafProof(leaf, proof, merkleRoot(r))
  PROVE  \E p \in WonPlaces(r.top) : leaf = leafAt(r, p)
<1>6. /\ merkleRoot(r) = rootOf(treeLayers(r)) /\ Len(LeavesOf(r)) = Len(leafPlaces(r))
      /\ \E h \in 0..6 : Tower(treeLayers(r), LeavesOf(r), h)
  BY TreeOf
<1>7. PICK L, S : L = treeLayers(r) /\ S = LeavesOf(r)
  OBVIOUS
<1>8. PICK h \in 0..6 : Tower(L, S, h)
  BY <1>6, <1>7
<1>9. \A i \in 1..Len(S) : NoKids(S[i])
  BY <1>6, <1>7, LeafAt
<1>10. verifyLeafProof(leaf, proof, rootOf(L))
  BY <1>6, <1>7
<1>11. PICK i \in 1..Len(S) : leaf = S[i]
  BY <1>8, <1>9, <1>10, OnlyLeavesPass
<1>12. i \in 1..Len(leafPlaces(r))
  BY <1>6, <1>7
<1>13. leaf = leafAt(r, leafPlaces(r)[i]) /\ leafPlaces(r)[i] \in WonPlaces(r.top)
  BY <1>7, <1>11, <1>12, LeafAt
<1> QED
  BY <1>13

(* A proof is a list, whatever it was generated for. *)
LEMMA ProofLength ==
  ASSUME NEW r, Board(r), leafPlaces(r) # <<>>, NEW m, NEW k
  PROVE  Len(proofFor(r, m, k)) \in Nat
<1> DEFINE n == (CHOOSE a \in DOMAIN leafPlaces(r) : leafPlaces(r)[a] = <<m, k>>) - 1
<1>1. proofFor(r, m, k) = generateSortedPairProof(treeLayers(r), n)
  BY DEF proofFor
<1> HIDE DEF n
<1>2. PICK L, S : L = treeLayers(r) /\ S = LeavesOf(r)
  OBVIOUS
<1>3. PICK h \in 0..6 : Tower(L, S, h)
  BY <1>2, TreeOf
<1>4. Len(L) \in Nat \ {0}
  BY <1>3 DEF Tower
<1>5. PICK e : Siblings(e, L, n, generateSortedPairProof(L, n))
  BY <1>4, ProofShape
<1>6. Len(generateSortedPairProof(L, n)) = Len(L) - 1
  BY <1>5 DEF Siblings
<1> QED
  BY <1>1, <1>2, <1>4, <1>6

(* Version 2: a payment the root accepts is of one of its places, and of the  *)
(* amount this place was given.                                               *)
LEMMA PaysItsPlace ==
  ASSUME NEW r, Board(r), leafPlaces(r) # <<>>,
         NEW q, Board(q), leafPlaces(q) # <<>>, q.version = 2,
         NEW m, NEW k, NEW user, NEW leaf, leaf = hashLeafOf(q, m, k, user),
         verifyLeafProof(leaf, proofFor(q, m, k), merkleRoot(r))
  PROVE  /\ r.version = 2 /\ <<m, k>> \in WonPlaces(r.top)
         /\ leaf.leaf.amount = amountAt(r, <<m, k>>)
<1>1. NoKids(leaf) /\ leaf.leaf = leafOf(q, m, k, user)
  BY DEF hashLeafOf, leafNode, NoKids
<1>2. Len(proofFor(q, m, k)) \in Nat
  BY ProofLength
<1>3. PICK p \in WonPlaces(r.top) : leaf = leafAt(r, p)
  BY <1>1, <1>2, OnlyOwn
<1>4. leaf.leaf = leafOf(r, p[1], p[2], r.top[p[1]][p[2]])
  BY <1>3 DEF leafAt, hashLeafOf, leafNode
<1>5. leafOf(q, m, k, user).format = 2 /\ leafOf(q, m, k, user).metric = m /\ leafOf(q, m, k, user).rank = k
  BY DEF leafOf
<1>6. /\ leafOf(r, p[1], p[2], r.top[p[1]][p[2]]).format = r.version
      /\ leafOf(r, p[1], p[2], r.top[p[1]][p[2]]).rank = p[2]
      /\ leafOf(r, p[1], p[2], r.top[p[1]][p[2]]).metric = IF r.version = 1 THEN 0 ELSE p[1]
  BY DEF leafOf
<1>7. r.version = 2 /\ p[1] = m /\ p[2] = k
  BY <1>1, <1>4, <1>5, <1>6
<1>8. p = <<m, k>>
  BY <1>3, <1>7, WonAre
<1> QED
  BY <1>3, <1>4, <1>7, <1>8 DEF amountAt

--------------------------------------------------------------------------------
(* The calendar *)

LEMMA SundaysAre == FirstSunday(3) = 59 /\ FirstSunday(11) = 304
<1>1. Ymd(3, 1) = 59 /\ Ymd(3, 7) = 65 /\ Ymd(11, 1) = 304 /\ Ymd(11, 7) = 310
  BY DEF Ymd, MonthStart
<1>2. \A d \in 59..65 : (d + 4) % 7 = 0 <=> d = 59
  OBVIOUS
<1>3. \A d \in 304..310 : (d + 4) % 7 = 0 <=> d = 304
  OBVIOUS
<1>4. FirstSunday(3) = CHOOSE d \in 59..65 : (d + 4) % 7 = 0
  BY <1>1 DEF FirstSunday, Weekday
<1>5. FirstSunday(11) = CHOOSE d \in 304..310 : (d + 4) % 7 = 0
  BY <1>1 DEF FirstSunday, Weekday
<1>6. 59 \in 59..65 /\ 304 \in 304..310
  OBVIOUS
<1>7. FirstSunday(3) = 59
  BY <1>2, <1>4, <1>6
<1>8. FirstSunday(11) = 304
  BY <1>3, <1>5, <1>6
<1> QED
  BY <1>7, <1>8

LEMMA Offsets ==
  ASSUME NEW d \in Int
  PROVE  /\ utcOffset(d) = (IF 66 <= d /\ d < 304 THEN 240 ELSE 300)
         /\ EtOffsetAt(d) = (IF 66 * 1440 + 420 <= d /\ d < 304 * 1440 + 360 THEN 240 ELSE 300)
  BY SundaysAre DEF utcOffset, isEtDst, EtOffsetAt, MINUTES_PER_DAY

(* Noon, five in the afternoon, and midnight are in the day they are of. *)
LEMMA InstantsOfDay ==
  ASSUME NEW d \in Int
  PROVE  /\ toEtDateString(noonUtc(d)) = d
         /\ toEtDateString(fivePmEt(d)) = d
         /\ d # 66 => toEtDateString(midnightEt(d)) = d
<1>1. /\ utcOffset(d) = (IF 66 <= d /\ d < 304 THEN 240 ELSE 300)
      /\ noonUtc(d) \in Int /\ fivePmEt(d) \in Int /\ midnightEt(d) \in Int
      /\ noonUtc(d) = d * 1440 + 720 /\ fivePmEt(d) = d * 1440 + 1020 + utcOffset(d)
      /\ midnightEt(d) = d * 1440 + utcOffset(d)
  BY Offsets DEF noonUtc, fivePmEt, midnightEt, MINUTES_PER_DAY
<1>2. \A x \in Int : toEtDateString(x) =
        (x - (IF 66 * 1440 + 420 <= x /\ x < 304 * 1440 + 360 THEN 240 ELSE 300)) \div 1440
  BY Offsets DEF toEtDateString, MINUTES_PER_DAY
<1>3. toEtDateString(noonUtc(d)) = d
  BY <1>1, <1>2
<1>4. toEtDateString(fivePmEt(d)) = d
  BY <1>1, <1>2
<1>5. d # 66 => toEtDateString(midnightEt(d)) = d
  BY <1>1, <1>2
<1> QED
  BY <1>3, <1>4, <1>5

(* An hour and a minute before midnight is the day before. *)
LEMMA LastHour ==
  ASSUME NEW d \in Int, d # 66
  PROVE  toEtDateString(midnightEt(d) - 61) = d - 1
<1>1. /\ utcOffset(d) = (IF 66 <= d /\ d < 304 THEN 240 ELSE 300)
      /\ midnightEt(d) \in Int
      /\ midnightEt(d) = d * 1440 + utcOffset(d)
  BY Offsets DEF midnightEt, MINUTES_PER_DAY
<1>2. \A x \in Int : toEtDateString(x) =
        (x - (IF 66 * 1440 + 420 <= x /\ x < 304 * 1440 + 360 THEN 240 ELSE 300)) \div 1440
  BY Offsets DEF toEtDateString, MINUTES_PER_DAY
<1> QED
  BY <1>1, <1>2

LEMMA Midnights ==
  ASSUME NEW d \in Int, NEW e \in Int
  PROVE  /\ d <= e => midnightEt(d) <= fivePmEt(e)
         /\ d < e => fivePmEt(d) < midnightEt(e)
  BY Offsets DEF midnightEt, fivePmEt, MINUTES_PER_DAY

(* A week has the Monday of each of its days. *)
LEMMA Mondays ==
  ASSUME NEW d \in Int
  PROVE  \E m \in Int : /\ mondayOf(d) = m /\ m <= d /\ d < m + 7 /\ m # 66 /\ m + 7 # 66
                        /\ mondayOf(m) = m /\ mondayOf(m + 6) = m /\ mondayOf(m + 7) = m + 7
<1> DEFINE m == d - ((((d + 4) % 7) + 6) % 7)
<1>1. mondayOf(d) = m
  BY DEF mondayOf, Weekday
<1>2. m \in Int /\ m <= d /\ d < m + 7 /\ (m + 4) % 7 = 1
  OBVIOUS
<1> HIDE DEF m
<1>3. m # 66 /\ m + 7 # 66
  BY <1>2
<1>4. mondayOf(m) = m /\ mondayOf(m + 6) = m /\ mondayOf(m + 7) = m + 7
  <2>1. ((m + 6) + 4) % 7 = 0 /\ ((m + 7) + 4) % 7 = 1
    BY <1>2
  <2> QED
    BY <1>2, <2>1 DEF mondayOf, Weekday
<1> QED
  BY <1>1, <1>2, <1>3, <1>4

(* The period of the week that begins on a Monday. *)
WeekFrom(m) ==
  [kind |-> "weekly", id |-> isoWeekId(isoWeekInfo(m)),
   start |-> midnightEt(m), end |-> midnightEt(m + 7)]

LEMMA WeekOf ==
  ASSUME NEW x, NEW d \in Int, toEtDateString(x) = d,
         NEW m \in Int, mondayOf(d) = m, mondayOf(m) = m, m # 66
  PROVE  periodForDate(x, "weekly") = WeekFrom(m)
<1>1. weeklyPeriodStartUtc(x) = midnightEt(m)
  BY InstantsOfDay DEF weeklyPeriodStartUtc
<1>2. weeklyPeriodEndUtc(x) = midnightEt(m + 7)
  <2>1. toEtDateString(weeklyPeriodStartUtc(x)) + 7 = m + 7 /\ m + 7 \in Int
    BY <1>1, InstantsOfDay
  <2>2. toEtDateString(noonUtc(m + 7)) = m + 7
    BY <2>1, InstantsOfDay
  <2> QED
    BY <2>1, <2>2 DEF weeklyPeriodEndUtc
<1>3. isoWeekInfo(d) = isoWeekInfo(m)
  BY DEF isoWeekInfo
<1> QED
  BY <1>1, <1>2, <1>3 DEF periodForDate, WeekFrom

(* periods.ts: the weekly periods tile the calendar. *)
LEMMA WeeksTile ==
  ASSUME NEW d \in Int
  PROVE  LET p == periodForDate(fivePmEt(d), "weekly")
         IN /\ p.start <= fivePmEt(d) /\ fivePmEt(d) < p.end
            /\ periodForDate(p.end, "weekly").start = p.end
            /\ periodForDate(p.end - 61, "weekly") = p
<1>1. PICK m \in Int : /\ mondayOf(d) = m /\ m <= d /\ d < m + 7 /\ m # 66 /\ m + 7 # 66
                       /\ mondayOf(m) = m /\ mondayOf(m + 6) = m /\ mondayOf(m + 7) = m + 7
  BY Mondays
<1>2. PICK n \in Int, e \in Int : n = m + 7 /\ e = m + 6
  OBVIOUS
<1>3. periodForDate(fivePmEt(d), "weekly") = WeekFrom(m)
  BY <1>1, InstantsOfDay, WeekOf
<1>4. midnightEt(m) <= fivePmEt(d) /\ fivePmEt(d) < midnightEt(n)
  BY <1>1, <1>2, Midnights
<1>5. periodForDate(midnightEt(n), "weekly") = WeekFrom(n)
  <2>1. toEtDateString(midnightEt(n)) = n /\ mondayOf(n) = n /\ n # 66
    BY <1>1, <1>2, InstantsOfDay
  <2> QED
    BY <2>1, WeekOf
<1>6. periodForDate(midnightEt(n) - 61, "weekly") = WeekFrom(m)
  <2>1. toEtDateString(midnightEt(n) - 61) = e /\ mondayOf(e) = m
    BY <1>1, <1>2, LastHour
  <2> QED
    BY <1>1, <2>1, WeekOf
<1>7. WeekFrom(m).start = midnightEt(m) /\ WeekFrom(m).end = midnightEt(n) /\ WeekFrom(n).start = midnightEt(n)
  BY <1>2 DEF WeekFrom
<1> QED
  BY <1>3, <1>4, <1>5, <1>6, <1>7

--------------------------------------------------------------------------------

LEMMA MonthStarts ==
  /\ MonthStart[1] = 0 /\ MonthStart[2] = 31 /\ MonthStart[3] = 59 /\ MonthStart[4] = 90
  /\ MonthStart[5] = 120 /\ MonthStart[6] = 151 /\ MonthStart[7] = 181 /\ MonthStart[8] = 212
  /\ MonthStart[9] = 243 /\ MonthStart[10] = 273 /\ MonthStart[11] = 304 /\ MonthStart[12] = 334
  /\ MonthStart[13] = 365 /\ MonthStart[14] = 396
  BY DEF MonthStart

LEMMA MonthsGrow ==
  /\ \A m \in 1..14 : MonthStart[m] \in Int /\ MonthStart[m] # 66
  /\ \A m, n \in 1..14 : m < n => MonthStart[m] < MonthStart[n]
<1>1. \A m \in 1..14 : m \in {1, 2, 3, 4, 5, 6, 7, 8, 9, 10, 11, 12, 13, 14}
  OBVIOUS
<1> QED
  BY <1>1, MonthStarts

LEMMA MonthIs ==
  ASSUME NEW d \in Int, NEW m \in 1..13, MonthStart[m] <= d, d < MonthStart[m + 1]
  PROVE  MonthOf(d) = m
<1>1. ASSUME NEW n \in 1..13, MonthStart[n] <= d, d < MonthStart[n + 1] PROVE n = m
  <2>1. CASE n < m
    <3>1. n + 1 \in 1..14 /\ (n + 1 < m \/ n + 1 = m) /\ m \in 1..14
      BY <2>1
    <3>2. MonthStart[n + 1] <= MonthStart[m] /\ MonthStart[n + 1] \in Int /\ MonthStart[m] \in Int
      BY <3>1, MonthsGrow
    <3> QED
      BY <1>1, <3>2
  <2>2. CASE m < n
    <3>1. m + 1 \in 1..14 /\ (m + 1 < n \/ m + 1 = n) /\ n \in 1..14
      BY <2>2
    <3>2. MonthStart[m + 1] <= MonthStart[n] /\ MonthStart[m + 1] \in Int /\ MonthStart[n] \in Int
      BY <3>1, MonthsGrow
    <3> QED
      BY <1>1, <3>2
  <2> QED
    BY <2>1, <2>2
<1> QED
  BY <1>1 DEF MonthOf

LEMMA MonthExists ==
  ASSUME NEW d \in 0..364
  PROVE  \E m \in 1..12 : MonthStart[m] <= d /\ d < MonthStart[m + 1]
<1>1. \/ (0 <= d /\ d < 31) \/ (31 <= d /\ d < 59)
      \/ (59 <= d /\ d < 90) \/ (90 <= d /\ d < 120)
      \/ (120 <= d /\ d < 151) \/ (151 <= d /\ d < 181)
      \/ (181 <= d /\ d < 212) \/ (212 <= d /\ d < 243)
      \/ (243 <= d /\ d < 273) \/ (273 <= d /\ d < 304)
      \/ (304 <= d /\ d < 334) \/ (334 <= d /\ d < 365)
  OBVIOUS
<1>2. /\ 1 + 1 = 2 /\ 2 + 1 = 3 /\ 3 + 1 = 4 /\ 4 + 1 = 5 /\ 5 + 1 = 6 /\ 6 + 1 = 7 /\ 7 + 1 = 8
      /\ 8 + 1 = 9 /\ 9 + 1 = 10 /\ 10 + 1 = 11 /\ 11 + 1 = 12 /\ 12 + 1 = 13
      /\ 1..12 = {1, 2, 3, 4, 5, 6, 7, 8, 9, 10, 11, 12}
  OBVIOUS
<1> QED
  BY <1>1, <1>2, MonthStarts

MonthFrom(m) ==
  [kind |-> "monthly", id |-> monthlyPeriodId(m),
   start |-> midnightEt(MonthStart[m]), end |-> midnightEt(MonthStart[m + 1])]

LEMMA MonthPeriod ==
  ASSUME NEW x, NEW d \in Int, toEtDateString(x) = d,
         NEW m \in 1..13, MonthStart[m] <= d, d < MonthStart[m + 1]
  PROVE  periodForDate(x, "monthly") = MonthFrom(m)
<1>1. MonthOf(toEtDateString(x)) = m
  BY MonthIs
<1>2. "monthly" # "weekly"
  OBVIOUS
<1> QED
  BY <1>1, <1>2 DEF periodForDate, MonthFrom, monthlyPeriodStartUtc, monthlyPeriodEndUtc

(* periods.ts: the months of the year tile it. *)
LEMMA MonthsTile ==
  ASSUME NEW d \in 0..364
  PROVE  LET p == periodForDate(fivePmEt(d), "monthly")
         IN /\ p.start <= fivePmEt(d) /\ fivePmEt(d) < p.end
            /\ periodForDate(p.end, "monthly").start = p.end
            /\ periodForDate(p.end - 61, "monthly") = p
<1>1. PICK m \in 1..12 : MonthStart[m] <= d /\ d < MonthStart[m + 1]
  BY MonthExists
<1>2. /\ m \in 1..13 /\ m \in 1..14 /\ m + 1 \in 1..13 /\ m + 1 \in 1..14 /\ (m + 1) + 1 \in 1..14
      /\ m < m + 1 /\ m + 1 < (m + 1) + 1
  OBVIOUS
<1>3. PICK s \in Int, n \in Int, l \in Int :
        /\ s = MonthStart[m] /\ n = MonthStart[m + 1] /\ l = n - 1
        /\ n # 66 /\ s < n /\ n < MonthStart[(m + 1) + 1] /\ MonthStart[(m + 1) + 1] \in Int
  BY <1>2, MonthsGrow
<1>4. d \in Int /\ s <= d /\ d < n
  BY <1>1, <1>3
<1>5. periodForDate(fivePmEt(d), "monthly") = MonthFrom(m)
  BY <1>1, <1>2, <1>4, InstantsOfDay, MonthPeriod
<1>6. midnightEt(s) <= fivePmEt(d) /\ fivePmEt(d) < midnightEt(n)
  BY <1>4, Midnights
<1>7. periodForDate(midnightEt(n), "monthly") = MonthFrom(m + 1)
  <2>1. toEtDateString(midnightEt(n)) = n
    BY <1>3, InstantsOfDay
  <2>2. PICK k \in 1..13 : k = m + 1
    BY <1>2
  <2>3. MonthStart[k] <= n /\ n < MonthStart[k + 1]
    BY <1>3, <2>2
  <2>4. periodForDate(midnightEt(n), "monthly") = MonthFrom(k)
    BY <2>1, <2>3, MonthPeriod
  <2> QED
    BY <2>2, <2>4
<1>8. periodForDate(midnightEt(n) - 61, "monthly") = MonthFrom(m)
  <2>1. toEtDateString(midnightEt(n) - 61) = l
    BY <1>3, LastHour
  <2>2. MonthStart[m] <= l /\ l < MonthStart[m + 1]
    BY <1>3
  <2> QED
    BY <1>2, <2>1, <2>2, MonthPeriod
<1>9. /\ MonthFrom(m).start = midnightEt(s) /\ MonthFrom(m).end = midnightEt(n)
      /\ MonthFrom(m + 1).start = midnightEt(n)
  BY <1>3 DEF MonthFrom
<1> QED
  BY <1>5, <1>6, <1>7, <1>8, <1>9

--------------------------------------------------------------------------------
(* The inductive invariant *)

Stages == {"none", "top", "pool", "upload", "snapshot", "commit", "resnapshot", "pay", "record",
           "done", "failed"}

Period == periodForDate(fivePmEt(day), kind)

Runs(P) ==
  [stage : Stages, caller : {None, "cron", "script", "library"}, version : 0..2, period : {None, P},
   top : Tops \union {None}, pool : Nat, sig : Attempts \union {None}, at : Nat \ {0}]

Roots(P) == {merkleRoot(r) : r \in Runs(P)}

RingEntries(P) ==
  [root : Roots(P), claimed : SUBSET (Metrics \X (1..10)), by : Attempts, pool : Nat, total : Nat]

DistributeTypes ==
  /\ kind \in Kinds /\ day \in Days
  /\ attempts \in 0..MaxAttempts
  /\ run \in [Attempts -> Runs(Period)]
  /\ ring \in Seq(RingEntries(Period)) /\ paid \in Nat

(* What an attempt has read and how far it is. *)
Healthy(r) ==
  /\ r.stage \notin Ended => r.version \in {1, 2}
  /\ r.stage \notin Ended \union {"top"} => Board(r)
  /\ r.stage \in {"pay", "record"} => r.at <= Len(placesOf(r))
  /\ r.stage \notin {"pay", "record"} => r.at = 1
  /\ r.stage = "commit" => leafPlaces(r) # <<>>

(* The attempt whose root is the oldest keeps, as long as it lasts, the board *)
(* the root was built from.                                                   *)
Owns(r, i, entries) ==
  entries # <<>> /\ entries[1].by = i /\ r.stage \notin Ended =>
    /\ r.stage \in {"resnapshot", "pay", "record"}
    /\ leafPlaces(r) # <<>> /\ entries[1].root = merkleRoot(r)

AttemptsBegun ==
  /\ \A i \in Attempts : run[i].stage # "none" => i <= attempts
  /\ ring # <<>> => ring[1].by <= attempts

RunsSound == \A i \in Attempts : Healthy(run[i]) /\ Owns(run[i], i, ring)

(* The chain has paid the claimed places of the oldest root what the run that *)
(* built the root gave them.                                                  *)
Accounts(entry, sum, r) ==
  /\ Board(r) /\ leafPlaces(r) # <<>>
  /\ entry.root = merkleRoot(r) /\ entry.total = totalOf(r) /\ entry.pool = r.pool * 10000
  /\ entry.claimed \subseteq WonPlaces(r.top)
  /\ entry.claimed # {} => r.version = 2
  /\ sum = SumFunctionOnSet(Amounts(r), entry.claimed)

PaidClaims ==
  /\ ring = <<>> => paid = 0
  /\ ring # <<>> => \E r : Accounts(ring[1], paid, r)

DistributeInv == DistributeTypes /\ AttemptsBegun /\ RunsSound /\ PaidClaims

LEMMA SameBoard ==
  ASSUME NEW r, NEW q, q.top = r.top, q.version = r.version, q.pool = r.pool, q.period = r.period
  PROVE  /\ Board(r) => Board(q)
         /\ leafPlaces(q) = leafPlaces(r) /\ placesOf(q) = placesOf(r)
         /\ merkleRoot(q) = merkleRoot(r)
<1>1. leafPlaces(q) = leafPlaces(r)
  BY DEF leafPlaces
<1>2. placesOf(q) = placesOf(r)
  BY DEF placesOf
<1>3. \A m, k, u : hashLeafOf(q, m, k, u) = hashLeafOf(r, m, k, u)
  BY DEF hashLeafOf, leafOf
<1>4. treeLayers(q) = treeLayers(r)
  BY <1>1, <1>3 DEF treeLayers
<1>5. merkleRoot(q) = merkleRoot(r)
  BY <1>1, <1>4 DEF merkleRoot
<1> QED
  BY <1>1, <1>2, <1>5 DEF Board

(* A run of which no root is the oldest owes nothing. *)
LEMMA NothingOwned ==
  ASSUME NEW r, NEW i, NEW entries, entries = <<>> \/ entries[1].by # i \/ r.stage \in Ended
  PROVE  Owns(r, i, entries)
  BY DEF Owns

(* A run that may stand at i, whoever built the roots. *)
Standing(r, P) == r \in Runs(P) /\ Healthy(r)

LEMMA AttemptOver ==
  ASSUME NEW stage \in Ended, NEW caller \in {None, "cron", "script", "library"},
         NEW P, NEW period \in {None, P}
  PROVE  /\ Standing(attempt(stage, caller, 0, period), P)
         /\ attempt(stage, caller, 0, period).stage = stage
<1> DEFINE r == attempt(stage, caller, 0, period)
<1>1. stage \in Stages
  BY DEF Stages, Ended
<1>2. /\ r \in Runs(P) /\ r.stage = stage /\ r.at = 1
  BY <1>1 DEF attempt, Runs
<1>3. Healthy(r)
  BY <1>2 DEF Healthy, Ended
<1> QED
  BY <1>2, <1>3 DEF Standing

LEMMA AttemptStarts ==
  ASSUME NEW caller \in {"cron", "script", "library"}, NEW version \in {1, 2},
         NEW P, NEW period \in {None, P}
  PROVE  /\ Standing(attempt("top", caller, version, period), P)
         /\ attempt("top", caller, version, period).stage = "top"
         /\ attempt("top", caller, version, period).caller = caller
<1> DEFINE r == attempt("top", caller, version, period)
<1>2. /\ r \in Runs(P) /\ r.stage = "top" /\ r.at = 1 /\ r.caller = caller /\ r.version = version
  BY DEF attempt, Runs, Stages
<1>3. Healthy(r)
  BY <1>2 DEF Healthy, Ended
<1> QED
  BY <1>2, <1>3 DEF Standing

LEMMA UnstartedRun ==
  ASSUME NEW P
  PROVE  /\ unstarted \in Runs(P) /\ Healthy(unstarted) /\ unstarted.stage = "none"
         /\ finished \in Runs(P) /\ Healthy(finished) /\ finished.stage = "done"
<1>1. "none" \in Ended /\ "done" \in Ended
  BY DEF Ended
<1>2. Standing(unstarted, P) /\ unstarted.stage = "none"
  BY <1>1, AttemptOver DEF unstarted
<1>3. Standing(finished, P) /\ finished.stage = "done"
  BY <1>1, AttemptOver DEF finished
<1> QED
  BY <1>2, <1>3 DEF Standing

(* A set of days has a first one. *)
LEMMA LeastDay ==
  ASSUME NEW S, S \subseteq Nat, S # {}
  PROVE  \E d \in S : \A e \in S : d <= e
<1>1. PICK x \in S : \A y \in S : ~ (<<y, x>> \in OpToRel(<, Nat))
  BY NatLessThanWellFounded, WFMin
<1>2. \A y \in S : y \in Nat /\ x \in Nat /\ ~(y < x)
  BY <1>1 DEF OpToRel
<1> QED
  BY <1>2

LEMMA InitSound == DistributeInit => DistributeInv
<1> SUFFICES ASSUME DistributeInit PROVE DistributeInv
  OBVIOUS
<1>1. run = noRuns /\ ring = <<>> /\ paid = 0 /\ attempts = 0
  BY DEF DistributeInit
<1>2. \A i \in Attempts : run[i] = unstarted
  BY <1>1 DEF noRuns
<1>3. day \in Days
  <2>1. \E d \in Days : \A e \in Days : d <= e
    <3>1. Days \subseteq Nat /\ Days # {}
      BY DistributionAssumption DEF DistributionAssumption
    <3> QED
      BY <3>1, LeastDay
  <2> QED
    BY <2>1 DEF DistributeInit, Min
<1>4. DistributeTypes
  <2>1. run \in [Attempts -> Runs(Period)]
    BY <1>1, UnstartedRun DEF noRuns
  <2>2. ring \in Seq(RingEntries(Period)) /\ paid \in Nat /\ attempts \in 0..MaxAttempts /\ kind \in Kinds
    BY <1>1, EmptySeq, DistributionAssumption DEF DistributeInit, DistributionAssumption
  <2> QED
    BY <1>3, <2>1, <2>2 DEF DistributeTypes
<1>5. AttemptsBegun
  BY <1>1, <1>2, UnstartedRun DEF AttemptsBegun
<1>7. RunsSound
  BY <1>1, <1>2, UnstartedRun, NothingOwned DEF RunsSound
<1>8. PaidClaims
  BY <1>1 DEF PaidClaims
<1> QED
  BY <1>4, <1>5, <1>7, <1>8 DEF DistributeInv

--------------------------------------------------------------------------------
(* The steps of a run *)

(* One attempt moves, and with it perhaps the ring. *)
LEMMA RunMoves ==
  ASSUME DistributeInv, NEW i \in Attempts, i <= attempts, NEW q \in Runs(Period), Healthy(q),
         run' = [run EXCEPT ![i] = q],
         kind' = kind, day' = day, attempts' = attempts,
         ring' \in Seq(RingEntries(Period)), paid' \in Nat,
         ring' # <<>> => ring'[1].by <= attempts,
         Owns(q, i, ring'), \A j \in Attempts : j # i => Owns(run[j], j, ring'),
         PaidClaims'
  PROVE  DistributeInv'
<1>1. DistributeTypes /\ AttemptsBegun /\ RunsSound
  BY DEF DistributeInv
<1>2. /\ run \in [Attempts -> Runs(Period)]
      /\ run'[i] = q /\ \A j \in Attempts : j # i => run'[j] = run[j]
  BY <1>1 DEF DistributeTypes
<1>3. Period' = Period
  BY DEF Period
<1>4. DistributeTypes'
  <2>1. run' \in [Attempts -> Runs(Period)]
    BY <1>2
  <2>2. run' \in [Attempts -> Runs(Period')] /\ ring' \in Seq(RingEntries(Period'))
    BY <1>3, <2>1
  <2> QED
    BY <1>1, <2>2 DEF DistributeTypes
<1>5. AttemptsBegun'
  BY <1>1, <1>2 DEF AttemptsBegun
<1>6. RunsSound'
  BY <1>1, <1>2 DEF RunsSound
<1> QED
  BY <1>4, <1>5, <1>6 DEF DistributeInv

LEMMA RunMovesAlone ==
  ASSUME DistributeInv, NEW i \in Attempts, run[i].stage # "none", NEW q \in Runs(Period), Healthy(q),
         run' = [run EXCEPT ![i] = q],
         kind' = kind, day' = day, attempts' = attempts, ring' = ring, paid' = paid,
         Owns(q, i, ring)
  PROVE  DistributeInv'
<1>1. DistributeTypes /\ AttemptsBegun /\ RunsSound /\ PaidClaims
  BY DEF DistributeInv
<1>2. i <= attempts /\ (ring # <<>> => ring[1].by <= attempts)
  BY <1>1 DEF AttemptsBegun
<1>3. ring' \in Seq(RingEntries(Period)) /\ paid' \in Nat
  BY <1>1 DEF DistributeTypes
<1>4. PaidClaims'
  BY <1>1 DEF PaidClaims
<1>5. \A j \in Attempts : j # i => Owns(run[j], j, ring)
  BY <1>1 DEF RunsSound
<1>6. Owns(q, i, ring') /\ (\A j \in Attempts : j # i => Owns(run[j], j, ring'))
      /\ (ring' # <<>> => ring'[1].by <= attempts)
  BY <1>2, <1>5
<1> QED
  BY <1>2, <1>3, <1>4, <1>6, RunMoves

LEMMA RunFacts ==
  ASSUME DistributeInv, NEW i \in Attempts
  PROVE  /\ run[i] \in Runs(Period) /\ Healthy(run[i]) /\ Owns(run[i], i, ring)
         /\ run[i].at \in Nat \ {0} /\ run[i].pool \in Nat
         /\ run[i].stage # "none" => i <= attempts
         /\ attempts \in 0..MaxAttempts
         /\ ring \in Seq(RingEntries(Period)) /\ paid \in Nat
  BY DEF DistributeInv, DistributeTypes, RunsSound, AttemptsBegun, Runs

LEMMA StopSound ==
  ASSUME DistributeInv, NEW i \in Attempts, Stop(i)
  PROVE  DistributeInv'
<1>1. run[i].stage # "none" /\ run' = [run EXCEPT ![i] = finished]
  BY DEF Stop, Ended
<1>2. finished \in Runs(Period) /\ Healthy(finished) /\ finished.stage \in Ended
  BY UnstartedRun DEF Ended
<1>3. Owns(finished, i, ring)
  BY <1>2, NothingOwned
<1>4. kind' = kind /\ day' = day /\ attempts' = attempts /\ ring' = ring /\ paid' = paid
  BY DEF Stop, payoutVars
<1> QED
  BY <1>1, <1>2, <1>3, <1>4, RunMovesAlone

LEMMA ThrowSound ==
  ASSUME DistributeInv, NEW i \in Attempts, Throw(i)
  PROVE  DistributeInv'
<1> DEFINE failed == attempt("failed", "cron", 0, run[i].period)
           q == IF run[i].caller # "cron" THEN finished ELSE failed
<1>1. run[i].stage # "none" /\ run' = [run EXCEPT ![i] = q]
  BY DEF Throw
<1>2. run[i].period \in {None, Period}
  BY RunFacts DEF Runs
<1>3. failed \in Runs(Period) /\ Healthy(failed) /\ failed.stage \in Ended
  <2>1. "failed" \in Ended
    BY DEF Ended
  <2>2. Standing(failed, Period) /\ failed.stage = "failed"
    BY <1>2, <2>1, AttemptOver
  <2> QED
    BY <2>1, <2>2 DEF Standing
<1>4. q \in Runs(Period) /\ Healthy(q) /\ q.stage \in Ended
  <2>1. finished \in Runs(Period) /\ Healthy(finished) /\ finished.stage \in Ended
    BY UnstartedRun DEF Ended
  <2> HIDE DEF failed
  <2> QED
    BY <1>3, <2>1
<1>5. Owns(q, i, ring)
  <2> HIDE DEF q
  <2> QED
    BY <1>4, NothingOwned
<1>6. kind' = kind /\ day' = day /\ attempts' = attempts /\ ring' = ring /\ paid' = paid
  BY DEF Throw, payoutVars
<1> HIDE DEF q
<1> QED
  BY <1>1, <1>4, <1>5, <1>6, RunMovesAlone

(* What a query of the tables may answer fits a board. *)
LEMMA RankingsAreLists ==
  ASSUME NEW m, NEW t
  PROVE  rankings(m, t) \subseteq Lists
<1> DEFINE entered == {u \in Wallets : qualifies(m, t[u])}
           n == Min({TOP_N, Cardinality(entered)})
<1>1. n \in 0..TOP_N
  <2>1. IsFiniteSet(entered)
    BY FS_Subset, DistributionAssumption DEF DistributionAssumption
  <2>2. PICK c \in Nat : c = Cardinality(entered)
    BY <2>1, FS_CardinalityType
  <2>3. TOP_N \in 1..10
    BY DistributionAssumption DEF DistributionAssumption
  <2>4. \E d \in {TOP_N, c} : \A e \in {TOP_N, c} : d <= e
    BY <2>2, <2>3
  <2>5. Min({TOP_N, c}) \in {TOP_N, c} /\ Min({TOP_N, c}) <= TOP_N
    BY <2>4 DEF Min
  <2> HIDE DEF entered
  <2> QED
    BY <2>2, <2>3, <2>5
<1>2. rankings(m, t) \subseteq [1..n -> entered]
  BY DEF rankings
<1>3. [1..n -> entered] \subseteq [1..n -> Wallets]
  OBVIOUS
<1> HIDE DEF n, entered
<1> QED
  BY <1>1, <1>2, <1>3 DEF Lists

LEMMA ReadTopSound ==
  ASSUME DistributeInv, NEW i \in Attempts, ReadTop(i)
  PROVE  DistributeInv'
<1>1. run[i].stage = "top"
  BY DEF ReadTop, At
<1> DEFINE asked == metricsOf(run[i].version)
           lists == UNION {answers(run[i].version, m) : m \in asked}
<1>2. PICK top \in [asked -> lists] :
        run' = [run EXCEPT ![i] = [@ EXCEPT !.stage = "pool", !.top = top]]
  BY DEF ReadTop
<1>3. run[i] \in Runs(Period) /\ Healthy(run[i]) /\ Owns(run[i], i, ring)
  BY RunFacts
<1>4. run[i].version \in {1, 2} /\ run[i].at = 1 /\ run[i].pool \in Nat
  BY <1>1, <1>3 DEF Healthy, Ended, Runs
<1>5. top \in Tops
  <2>1. lists \subseteq Lists
    BY RankingsAreLists DEF answers
  <2>2. metricsOf(run[i].version) \in (SUBSET Metrics) \ {{}}
    <3>1. Ranked \subseteq Metrics /\ Ranked # {}
      BY DistributionAssumption DEF DistributionAssumption, Metrics, METRIC_ABSOLUTE_PROFIT, METRIC_ROI
    <3>2. {METRIC_ABSOLUTE_PROFIT} \subseteq Metrics
      BY MetricsAre DEF METRIC_ABSOLUTE_PROFIT
    <3> QED
      BY <3>1, <3>2 DEF metricsOf
  <2> HIDE DEF lists
  <2>3. top \in [metricsOf(run[i].version) -> Lists]
    BY <1>2, <2>1
  <2> QED
    BY <2>2, <2>3 DEF Tops
<1> HIDE DEF lists, asked
<1> DEFINE q == [run[i] EXCEPT !.stage = "pool", !.top = top]
<1>6. run' = [run EXCEPT ![i] = q]
  BY <1>2
<1>7. /\ q \in Runs(Period) /\ q.stage = "pool" /\ q.top = top /\ q.at = 1
      /\ q.caller = run[i].caller /\ q.version = run[i].version /\ q.pool = run[i].pool
  BY <1>3, <1>4, <1>5 DEF Runs, Stages
<1> HIDE DEF q
<1>8. Healthy(q)
  BY <1>4, <1>5, <1>7 DEF Healthy, Board
<1>9. Owns(q, i, ring)
  <2>1. ring = <<>> \/ ring[1].by # i
    BY <1>1, <1>3 DEF Owns, Ended
  <2> QED
    BY <2>1, NothingOwned
<1>10. kind' = kind /\ day' = day /\ attempts' = attempts /\ ring' = ring /\ paid' = paid
  BY DEF ReadTop, payoutVars
<1>11. run[i].stage # "none" /\ run[i].stage \notin Ended
  BY <1>1 DEF Ended
<1> QED
  BY <1>6, <1>7, <1>8, <1>9, <1>10, <1>11, RunMovesAlone

LEMMA ReadPoolSound ==
  ASSUME DistributeInv, NEW i \in Attempts, ReadPool(i)
  PROVE  DistributeInv'
<1>1. run[i].stage = "pool"
  BY DEF ReadPool, At
<1>2. PICK p \in Nat : run' = [run EXCEPT ![i] = [@ EXCEPT !.stage = "upload", !.pool = p]]
  BY DistributionAssumption DEF ReadPool, DistributionAssumption
<1>3. run[i] \in Runs(Period) /\ Healthy(run[i]) /\ Owns(run[i], i, ring)
  BY RunFacts
<1>4. Board(run[i]) /\ run[i].at = 1
  BY <1>1, <1>3 DEF Healthy, Ended
<1> DEFINE q == [run[i] EXCEPT !.stage = "upload", !.pool = p]
<1>6. run' = [run EXCEPT ![i] = q]
  BY <1>2
<1>7. /\ q \in Runs(Period) /\ q.stage = "upload" /\ q.top = run[i].top /\ q.at = 1
      /\ q.caller = run[i].caller /\ q.version = run[i].version /\ q.pool = p
  BY <1>3, <1>4 DEF Runs, Stages
<1> HIDE DEF q
<1>8. Healthy(q)
  BY <1>4, <1>7 DEF Healthy, Board
<1>9. Owns(q, i, ring)
  <2>1. ring = <<>> \/ ring[1].by # i
    BY <1>1, <1>3 DEF Owns, Ended
  <2> QED
    BY <2>1, NothingOwned
<1>10. kind' = kind /\ day' = day /\ attempts' = attempts /\ ring' = ring /\ paid' = paid
  BY DEF ReadPool, payoutVars
<1>11. run[i].stage # "none" /\ run[i].stage \notin Ended
  BY <1>1 DEF Ended
<1> QED
  BY <1>6, <1>7, <1>8, <1>9, <1>10, <1>11, RunMovesAlone

(* Changing the stage changes neither the board nor what is derived from it.  *)
Moved(q, r, P) ==
  /\ q \in Runs(P) /\ q.caller = r.caller /\ q.version = r.version /\ q.top = r.top
  /\ Board(r) => Board(q)
  /\ leafPlaces(q) = leafPlaces(r) /\ placesOf(q) = placesOf(r)
  /\ merkleRoot(q) = merkleRoot(r)

LEMMA StageMoves ==
  ASSUME NEW P, NEW r \in Runs(P), NEW stage \in Stages
  PROVE  /\ Moved([r EXCEPT !.stage = stage], r, P)
         /\ [r EXCEPT !.stage = stage].stage = stage
         /\ [r EXCEPT !.stage = stage].at = r.at
<1> DEFINE q == [r EXCEPT !.stage = stage]
<1>1. /\ q \in Runs(P) /\ q.stage = stage /\ q.at = r.at /\ q.caller = r.caller /\ q.top = r.top
      /\ q.version = r.version /\ q.pool = r.pool /\ q.period = r.period
  BY DEF Runs
<1> HIDE DEF q
<1>2. Moved(q, r, P)
  BY <1>1, SameBoard DEF Moved
<1> QED
  BY <1>1, <1>2 DEF q

MovedTo(q, r, stage, P) == Moved(q, r, P) /\ q.stage = stage /\ q.at = r.at

LEMMA AnswerMoves ==
  ASSUME NEW P, NEW r \in Runs(P), NEW stage \in Stages, NEW sig \in Attempts \union {None}
  PROVE  MovedTo([r EXCEPT !.stage = stage, !.sig = sig], r, stage, P)
<1> DEFINE q == [r EXCEPT !.stage = stage, !.sig = sig]
<1>1. /\ q \in Runs(P) /\ q.stage = stage /\ q.at = r.at /\ q.caller = r.caller /\ q.top = r.top
      /\ q.version = r.version /\ q.pool = r.pool /\ q.period = r.period
  BY DEF Runs
<1> HIDE DEF q
<1>2. Moved(q, r, P)
  BY <1>1, SameBoard DEF Moved
<1> QED
  BY <1>1, <1>2 DEF q, MovedTo

LEMMA PositionMoves ==
  ASSUME NEW P, NEW r \in Runs(P)
  PROVE  /\ Moved([r EXCEPT !.stage = "pay", !.at = @ + 1, !.sig = None], r, P)
         /\ [r EXCEPT !.stage = "pay", !.at = @ + 1, !.sig = None].stage = "pay"
         /\ [r EXCEPT !.stage = "pay", !.at = @ + 1, !.sig = None].at = r.at + 1
<1> DEFINE q == [r EXCEPT !.stage = "pay", !.at = @ + 1, !.sig = None]
<1>1. q.stage = "pay" /\ q.at = r.at + 1
  BY DEF Runs
<1>2. /\ q.caller = r.caller /\ q.top = r.top
      /\ q.version = r.version /\ q.pool = r.pool /\ q.period = r.period
  BY DEF Runs
<1>3. r.at + 1 \in Nat \ {0} /\ "pay" \in Stages
  BY DEF Runs, Stages
<1>4. q \in Runs(P)
  BY <1>3 DEF Runs
<1> HIDE DEF q
<1>5. Moved(q, r, P)
  BY <1>2, <1>4, SameBoard DEF Moved
<1> QED
  BY <1>1, <1>5 DEF q

LEMMA UploadSound ==
  ASSUME DistributeInv, NEW i \in Attempts, uploadLeaderboardToArweave(i)
  PROVE  DistributeInv'
<1> DEFINE q == [run[i] EXCEPT !.stage = "snapshot"]
<1>1. run[i].stage = "upload" /\ run' = [run EXCEPT ![i] = q]
  BY DEF uploadLeaderboardToArweave, At, Goto
<1>2. run[i] \in Runs(Period) /\ Healthy(run[i]) /\ Owns(run[i], i, ring)
  BY RunFacts
<1>3. Board(run[i]) /\ run[i].at = 1
  BY <1>1, <1>2 DEF Healthy, Ended
<1>4. Moved(q, run[i], Period) /\ q.stage = "snapshot" /\ q.at = run[i].at
  BY <1>2, StageMoves, "snapshot" \in Stages, ZenonT(40) DEF Stages
<1> HIDE DEF q
<1>6. q \in Runs(Period) /\ q.stage = "snapshot" /\ q.at = 1 /\ q.caller = run[i].caller /\ Board(q)
      /\ q.version = run[i].version
  BY <1>3, <1>4 DEF Moved
<1>8. Healthy(q)
  BY <1>6 DEF Healthy, Board
<1>9. Owns(q, i, ring)
  <2>1. ring = <<>> \/ ring[1].by # i
    BY <1>1, <1>2 DEF Owns, Ended
  <2> QED
    BY <2>1, NothingOwned
<1>10. kind' = kind /\ day' = day /\ attempts' = attempts /\ ring' = ring /\ paid' = paid
  BY DEF uploadLeaderboardToArweave, payoutVars
<1>11. run[i].stage # "none" /\ run[i].stage \notin Ended
  BY <1>1 DEF Ended
<1> QED
  BY <1>1, <1>6, <1>8, <1>9, <1>10, <1>11, RunMovesAlone

LEMMA InsertSnapshotSound ==
  ASSUME DistributeInv, NEW i \in Attempts, insertSnapshot(i)
  PROVE  DistributeInv'
<1> DEFINE r == run[i]
           stage == IF r.stage = "resnapshot" \/ merkleRoot(r) = None THEN "pay" ELSE "commit"
           q == [r EXCEPT !.stage = stage]
<1>1. r.stage \in {"snapshot", "resnapshot"} /\ run' = [run EXCEPT ![i] = q]
  BY DEF insertSnapshot, At, Goto
<1>2. r \in Runs(Period) /\ Healthy(r) /\ Owns(r, i, ring)
  BY RunFacts
<1>3. Board(r) /\ r.at = 1
  BY <1>1, <1>2 DEF Healthy, Ended
<1>5. stage \in Stages /\ stage \in {"pay", "commit"}
  BY DEF Stages
<1>6. /\ stage = "commit" => leafPlaces(r) # <<>>
      /\ stage = "commit" => r.stage = "snapshot"
  BY <1>1 DEF merkleRoot
<1> HIDE DEF stage, r
<1>4. Moved(q, r, Period) /\ q.stage = stage /\ q.at = r.at
  BY <1>2, <1>5, StageMoves
<1> HIDE DEF q
<1>7. /\ q \in Runs(Period) /\ q.stage = stage /\ q.at = 1 /\ q.caller = r.caller /\ Board(q)
      /\ q.version = r.version /\ placesOf(q) = placesOf(r) /\ leafPlaces(q) = leafPlaces(r)
      /\ merkleRoot(q) = merkleRoot(r)
  BY <1>3, <1>4 DEF Moved
<1>8. Len(placesOf(q)) \in 1..40
  BY <1>7, PaidPlaces DEF Board
<1>9. Healthy(q)
  <2>0. q.version \in {1, 2}
    BY <1>7 DEF Board
  <2>1. q.at <= Len(placesOf(q))
    <3>1. q.at = 1
      BY <1>7
    <3>2. PICK n \in 1..40 : n = Len(placesOf(q))
      BY <1>8
    <3> QED
      BY <3>1, <3>2
  <2>2. q.stage \in {"pay", "commit"} /\ (q.stage = "commit" => leafPlaces(q) # <<>>)
    BY <1>5, <1>6, <1>7
  <2> QED
    BY <1>7, <2>0, <2>1, <2>2 DEF Healthy
<1>10. Owns(q, i, ring)
  <2>1. CASE r.stage = "snapshot"
    <3>1. ring = <<>> \/ ring[1].by # i
      BY <1>2, <2>1 DEF Owns, Ended
    <3> QED
      BY <3>1, NothingOwned
  <2>2. CASE r.stage = "resnapshot"
    <3>1. q.stage = "pay"
      BY <1>5, <1>6, <1>7, <2>2
    <3> QED
      BY <1>2, <1>7, <2>2, <3>1 DEF Owns, Ended
  <2> QED
    BY <1>1, <2>1, <2>2
<1>11. kind' = kind /\ day' = day /\ attempts' = attempts /\ ring' = ring /\ paid' = paid
  BY DEF insertSnapshot, payoutVars
<1>12. run[i].stage # "none" /\ run[i].stage \notin Ended /\ q.caller = run[i].caller
  BY <1>1, <1>7 DEF r, Ended
<1>13. run' = [run EXCEPT ![i] = q]
  BY <1>1
<1> QED
  BY <1>7, <1>9, <1>10, <1>11, <1>12, <1>13, RunMovesAlone

(* The next position, or the end. *)
LEMMA NextPosition ==
  ASSUME DistributeInv, NEW i \in Attempts, run[i].stage \in {"pay", "record"}
  PROVE  /\ nextPosition(i) \in Runs(Period) /\ Healthy(nextPosition(i))
         /\ nextPosition(i).stage \notin Ended =>
              /\ nextPosition(i).stage = "pay"
              /\ leafPlaces(nextPosition(i)) = leafPlaces(run[i])
              /\ merkleRoot(nextPosition(i)) = merkleRoot(run[i])
<1> DEFINE r == run[i]
           q == [r EXCEPT !.stage = "pay", !.at = @ + 1, !.sig = None]
<1>1. r \in Runs(Period) /\ Healthy(r)
  BY RunFacts
<1>2. Board(r) /\ r.at \in Nat \ {0} /\ r.at <= Len(placesOf(r)) /\ Len(placesOf(r)) \in 1..40
  <2>1. Board(r) /\ r.at <= Len(placesOf(r))
    BY <1>1 DEF Healthy, Ended
  <2>2. r.at \in Nat \ {0}
    BY <1>1 DEF Runs
  <2> QED
    BY <2>1, <2>2, PaidPlaces DEF Board
<1>3. CASE r.at = positions(i)
  <2>1. nextPosition(i) = finished
    BY <1>3 DEF nextPosition
  <2>2. finished \in Runs(Period) /\ Healthy(finished) /\ finished.stage \in Ended
    BY UnstartedRun DEF Ended
  <2> QED
    BY <2>1, <2>2
<1>4. CASE r.at # positions(i)
  <2>1. nextPosition(i) = q
    BY <1>4 DEF nextPosition
  <2>3. r.at + 1 \in Nat \ {0} /\ r.at + 1 <= Len(placesOf(r))
    BY <1>2, <1>4 DEF positions
  <2>4. Moved(q, r, Period) /\ q.stage = "pay" /\ q.at = r.at + 1
    BY <1>1, PositionMoves
  <2> HIDE DEF q
  <2>5. /\ q \in Runs(Period) /\ q.caller = r.caller /\ Board(q)
        /\ q.version = r.version /\ placesOf(q) = placesOf(r) /\ leafPlaces(q) = leafPlaces(r)
        /\ merkleRoot(q) = merkleRoot(r)
    BY <1>2, <2>4 DEF Moved
  <2>6. Healthy(q)
    BY <2>3, <2>4, <2>5 DEF Healthy, Board
  <2> QED
    BY <2>1, <2>4, <2>5, <2>6
<1> QED
  BY <1>3, <1>4

LEMMA SkipSound ==
  ASSUME DistributeInv, NEW i \in Attempts, run[i].stage \in {"pay", "record"},
         run' = [run EXCEPT ![i] = nextPosition(i)],
         kind' = kind, day' = day, attempts' = attempts, ring' = ring, paid' = paid
  PROVE  DistributeInv'
<1> DEFINE q == nextPosition(i)
<1>1. Owns(run[i], i, ring)
  BY RunFacts
<1>2. q \in Runs(Period) /\ Healthy(q)
  BY NextPosition
<1>3. q.stage \notin Ended =>
        /\ q.stage = "pay" /\ leafPlaces(q) = leafPlaces(run[i])
        /\ merkleRoot(q) = merkleRoot(run[i])
  BY NextPosition
<1>4. run[i].stage \notin Ended /\ run[i].stage # "none"
  BY DEF Ended
<1> HIDE DEF q
<1>5. Owns(q, i, ring)
  BY <1>1, <1>3, <1>4 DEF Owns
<1>6. run' = [run EXCEPT ![i] = q]
  BY DEF q
<1> QED
  BY <1>2, <1>3, <1>4, <1>5, <1>6, RunMovesAlone

LEMMA RecordSound ==
  ASSUME DistributeInv, NEW i \in Attempts, insertDistribution(i) \/ lostRow(i)
  PROVE  DistributeInv'
<1>1. run[i].stage \in {"pay", "record"}
  BY DEF insertDistribution, lostRow, At
<1>2. /\ run' = [run EXCEPT ![i] = nextPosition(i)]
      /\ kind' = kind /\ day' = day /\ attempts' = attempts /\ ring' = ring /\ paid' = paid
  BY DEF insertDistribution, lostRow, payoutVars
<1> QED
  BY <1>1, <1>2, SkipSound

(* Only the oldest root matters to a run. *)
LEMMA OwnsOldest ==
  ASSUME NEW r, NEW i, NEW entries, NEW longer, entries # <<>>, longer # <<>>, longer[1] = entries[1],
         Owns(r, i, entries)
  PROVE  Owns(r, i, longer)
  BY DEF Owns

LEMMA AppendRing ==
  ASSUME NEW T, NEW s \in Seq(T), NEW e \in T
  PROVE  /\ Append(s, e) \in Seq(T) /\ Append(s, e) # <<>>
         /\ s = <<>> => Append(s, e)[1] = e
         /\ s # <<>> => Append(s, e)[1] = s[1]
<1>1. Append(s, e) \in Seq(T) /\ Len(Append(s, e)) = Len(s) + 1 /\ Len(s) \in Nat
  BY AppendProperties, LenProperties
<1>2. \A k \in 1..Len(s) + 1 : Append(s, e)[k] = IF k <= Len(s) THEN s[k] ELSE e
  BY AppendProperties
<1>3. Append(s, e) # <<>>
  BY <1>1, EmptySeq
<1>4. s = <<>> => Append(s, e)[1] = e
  BY <1>1, <1>2, EmptySeq
<1>5. s # <<>> => Append(s, e)[1] = s[1]
  <2>1. s # <<>> => Len(s) # 0
    BY EmptySeq
  <2> QED
    BY <1>1, <1>2, <2>1
<1> QED
  BY <1>1, <1>3, <1>4, <1>5

LEMMA CommitSound ==
  ASSUME DistributeInv, NEW i \in Attempts, commitLeaderboardRoot(i)
  PROVE  DistributeInv'
<1> DEFINE r == run[i]
<1>1. r.stage = "commit"
  BY DEF commitLeaderboardRoot, At
<1>2. PICK landed \in BOOLEAN, answered \in BOOLEAN :
        /\ landed => live(i)
        /\ answered => landed
        /\ ring' = IF landed THEN landCommit(i) ELSE ring
        /\ run' = [run EXCEPT ![i] = [@ EXCEPT !.stage = IF answered THEN "resnapshot" ELSE "pay",
                                             !.sig = IF answered THEN i ELSE None]]
  BY DEF commitLeaderboardRoot
<1>3. /\ r \in Runs(Period) /\ Healthy(r) /\ Owns(r, i, ring) /\ i <= attempts
      /\ ring \in Seq(RingEntries(Period)) /\ paid \in Nat
  BY <1>1, RunFacts
<1>4. Board(r) /\ r.at = 1 /\ leafPlaces(r) # <<>>
  BY <1>1, <1>3 DEF Healthy, Ended
<1>5. kind' = kind /\ day' = day /\ attempts' = attempts /\ paid' = paid
  BY DEF commitLeaderboardRoot
<1> DEFINE stage == IF answered THEN "resnapshot" ELSE "pay"
           sig == IF answered THEN i ELSE None
           q == [r EXCEPT !.stage = stage, !.sig = sig]
<1>6. stage \in Stages /\ stage \in {"resnapshot", "pay"} /\ sig \in Attempts \union {None}
  BY DEF Stages
<1>7. run' = [run EXCEPT ![i] = q]
  BY <1>2
<1> HIDE DEF stage, sig
<1>8. Moved(q, r, Period) /\ q.stage = stage /\ q.at = r.at
  <2>1. r \in Runs(Period) /\ stage \in Stages /\ sig \in Attempts \union {None}
    BY <1>3, <1>6
  <2> HIDE DEF r
  <2>2. MovedTo(q, r, stage, Period)
    BY <2>1, AnswerMoves
  <2> QED
    BY <2>2 DEF MovedTo
<1> HIDE DEF q
<1>9. /\ q \in Runs(Period) /\ q.caller = r.caller /\ Board(q)
      /\ q.version = r.version /\ placesOf(q) = placesOf(r) /\ leafPlaces(q) = leafPlaces(r)
      /\ merkleRoot(q) = merkleRoot(r)
  BY <1>4, <1>8 DEF Moved
<1>10. Healthy(q)
  <2>1. q.version \in {1, 2} /\ q.stage \in {"resnapshot", "pay"} /\ q.at = 1
    BY <1>4, <1>6, <1>8, <1>9 DEF Board
  <2>2. PICK n \in 1..40 : n = Len(placesOf(q))
    BY <1>9, PaidPlaces DEF Board
  <2>3. q.at <= Len(placesOf(q))
    BY <2>1, <2>2
  <2> QED
    BY <1>9, <2>1, <2>3 DEF Healthy
<1>11. ring = <<>> \/ ring[1].by # i
  BY <1>1, <1>3 DEF Owns, Ended
<1>12. r.stage # "none" /\ r.stage \notin Ended
  BY <1>1 DEF Ended
<1>13. CASE ~landed
  <2>1. ring' = ring
    BY <1>2, <1>13
  <2>2. Owns(q, i, ring)
    BY <1>11, NothingOwned
  <2> QED
    BY <1>5, <1>7, <1>9, <1>10, <1>12, <2>1, <2>2, RunMovesAlone
<1>14. CASE landed
  <2> DEFINE e == [root |-> merkleRoot(r), claimed |-> {}, by |-> i, pool |-> r.pool * 10000,
                   total |-> totalOf(r)]
  <2>1. ring' = Append(ring, e)
    BY <1>2, <1>14 DEF landCommit
  <2>2. e \in RingEntries(Period)
    <3>1. merkleRoot(r) \in Roots(Period)
      BY <1>3 DEF Roots
    <3>2. r.pool * 10000 \in Nat
      BY <1>4 DEF Board
    <3>3. totalOf(r) \in Nat
      BY <1>4, TotalIs
    <3> QED
      BY <3>1, <3>2, <3>3 DEF RingEntries
  <2>3. /\ e.root = merkleRoot(r) /\ e.claimed = {} /\ e.by = i /\ e.pool = r.pool * 10000
        /\ e.total = totalOf(r)
    OBVIOUS
  <2> HIDE DEF e
  <2>4. /\ ring' \in Seq(RingEntries(Period)) /\ ring' # <<>>
        /\ ring = <<>> => ring'[1] = e
        /\ ring # <<>> => ring'[1] = ring[1]
    BY <1>3, <2>1, <2>2, AppendRing
  <2>5. AttemptsBegun /\ RunsSound /\ PaidClaims
    BY DEF DistributeInv
  <2>6. ring' # <<>> => ring'[1].by <= attempts
    BY <1>3, <2>3, <2>4, <2>5 DEF AttemptsBegun
  <2>7. Owns(q, i, ring')
    <3>1. CASE ring = <<>>
      BY <1>4, <1>6, <1>8, <1>9, <2>1, <2>3, <2>4, <3>1 DEF Owns
    <3>2. CASE ring # <<>>
      BY <1>11, <2>4, <3>2, NothingOwned
    <3> QED
      BY <3>1, <3>2
  <2>8. ASSUME NEW j \in Attempts, j # i PROVE Owns(run[j], j, ring')
    <3>1. CASE ring = <<>>
      BY <2>3, <2>4, <2>8, <3>1, NothingOwned
    <3>2. CASE ring # <<>>
      BY <2>4, <2>5, <3>2, OwnsOldest DEF RunsSound
    <3> QED
      BY <3>1, <3>2
  <2>9. PaidClaims'
    <3>1. CASE ring = <<>>
      <4>1. paid = 0
        BY <2>5, <3>1 DEF PaidClaims
      <4>2. SumFunctionOnSet(Amounts(r), {}) = 0
        BY SumEmpty
      <4>3. Accounts(e, 0, r)
        BY <1>4, <2>3, <4>2 DEF Accounts
      <4>4. \E b : Accounts(ring'[1], paid', b)
        BY <1>5, <2>4, <3>1, <4>1, <4>3
      <4> QED
        BY <2>4, <4>4 DEF PaidClaims
    <3>2. CASE ring # <<>>
      <4>1. \E b : Accounts(ring'[1], paid', b)
        BY <1>5, <2>4, <2>5, <3>2 DEF PaidClaims
      <4> QED
        BY <2>4, <4>1 DEF PaidClaims
    <3> QED
      BY <3>1, <3>2
  <2>10. paid' \in Nat
    BY <1>3, <1>5
  <2> QED
    BY <1>3, <1>5, <1>7, <1>9, <1>10, <2>4, <2>6, <2>7, <2>8, <2>9, <2>10, RunMoves
<1> QED
  BY <1>13, <1>14

--------------------------------------------------------------------------------

(* One more place of the oldest root is paid. *)
LEMMA OneMorePaid ==
  ASSUME NEW P, NEW e \in RingEntries(P), NEW sum, NEW b, Accounts(e, sum, b), b.version = 2,
         NEW p \in WonPlaces(b.top), p \notin e.claimed
  PROVE  Accounts([e EXCEPT !.claimed = @ \union {p}], sum + amountAt(b, p), b)
<1> DEFINE f == [e EXCEPT !.claimed = @ \union {p}]
           C == e.claimed
<1>1. /\ f.root = e.root /\ f.total = e.total /\ f.pool = e.pool /\ f.claimed = C \union {p}
  BY DEF RingEntries
<1>2. /\ Board(b) /\ leafPlaces(b) # <<>> /\ C \subseteq WonPlaces(b.top)
      /\ e.root = merkleRoot(b) /\ e.total = totalOf(b) /\ e.pool = b.pool * 10000
      /\ sum = SumFunctionOnSet(Amounts(b), C)
  BY DEF Accounts
<1> HIDE DEF C
<1>3. /\ C \union {p} \subseteq WonPlaces(b.top) /\ IsFiniteSet(C \union {p}) /\ (C \union {p}) \ {p} = C
  BY <1>2, WonAre, FS_Subset DEF C
<1>4. \A x \in WonPlaces(b.top) : Amounts(b)[x] = amountAt(b, x) /\ Amounts(b)[x] \in Int
  BY <1>2, WonAre, AmountsAre DEF Amounts
<1>5. SumFunctionOnSet(Amounts(b), C \union {p}) = Amounts(b)[p] + SumFunctionOnSet(Amounts(b), (C \union {p}) \ {p})
  BY <1>3, <1>4, SumRemove
<1>6. SumFunctionOnSet(Amounts(b), C) \in Int /\ amountAt(b, p) \in Int /\ Amounts(b)[p] = amountAt(b, p)
  <2>1. IsFiniteSet(C) /\ \A x \in C : Amounts(b)[x] \in Int
    BY <1>2, <1>4, WonAre, FS_Subset
  <2>2. SumFunctionOnSet(Amounts(b), C) \in Int
    BY <2>1, SumInt
  <2> QED
    BY <1>4, <2>2
<1>7. sum + amountAt(b, p) = SumFunctionOnSet(Amounts(b), C \union {p})
  <2>1. PICK x \in Int, y \in Int : x = SumFunctionOnSet(Amounts(b), C) /\ y = amountAt(b, p)
    BY <1>6
  <2>2. SumFunctionOnSet(Amounts(b), C \union {p}) = y + x
    BY <1>3, <1>5, <1>6, <2>1
  <2> QED
    BY <1>2, <2>1, <2>2
<1> HIDE DEF f
<1>8. Accounts(f, sum + amountAt(b, p), b)
  BY <1>1, <1>2, <1>3, <1>7 DEF Accounts
<1> QED
  BY <1>8 DEF f

(* The place a run is at. *)
LEMMA PlaceAt ==
  ASSUME DistributeInv, NEW i \in Attempts, run[i].stage = "pay"
  PROVE  /\ Board(run[i]) /\ run[i].at \in Nat \ {0} /\ run[i].at <= Len(placesOf(run[i]))
         /\ Enumerates(placesOf(run[i]), (DOMAIN run[i].top) \X (1..TOP_N))
         /\ placesOf(run[i])[run[i].at] = <<metricAt(i), rankAt(i)>>
         /\ metricAt(i) \in DOMAIN run[i].top /\ <<metricAt(i), rankAt(i)>> \in Metrics \X (1..10)
         /\ hasWinner(i) => /\ <<metricAt(i), rankAt(i)>> \in WonPlaces(run[i].top)
                            /\ leafPlaces(run[i]) # <<>>
<1> DEFINE r == run[i]
           p == placesOf(r)[r.at]
<1>1. r \in Runs(Period) /\ Healthy(r) /\ r.at \in Nat \ {0}
  BY RunFacts
<1>2. Board(r) /\ r.at <= Len(placesOf(r))
  BY <1>1 DEF Healthy, Ended
<1>3. Enumerates(placesOf(r), (DOMAIN r.top) \X (1..TOP_N)) /\ Len(placesOf(r)) \in 1..40
  BY <1>2, PaidPlaces DEF Board
<1>4. p \in (DOMAIN r.top) \X (1..TOP_N)
  <2>1. r.at \in 1..Len(placesOf(r))
    BY <1>1, <1>2, <1>3
  <2> QED
    BY <1>3, <2>1 DEF Enumerates
<1>5. p = <<metricAt(i), rankAt(i)>> /\ metricAt(i) \in DOMAIN r.top /\ rankAt(i) \in 1..TOP_N
  BY <1>4 DEF metricAt, rankAt
<1>6. <<metricAt(i), rankAt(i)>> \in Metrics \X (1..10)
  <2>1. DOMAIN r.top \subseteq Metrics /\ TOP_N \in 1..10
    BY <1>2, TopRanks, DistributionAssumption DEF Board, DistributionAssumption
  <2> QED
    BY <1>5, <2>1
<1>7. ASSUME hasWinner(i)
      PROVE  <<metricAt(i), rankAt(i)>> \in WonPlaces(r.top) /\ leafPlaces(r) # <<>>
  <2>1. rankAt(i) \in DOMAIN r.top[metricAt(i)]
    BY <1>7 DEF hasWinner
  <2>2. <<metricAt(i), rankAt(i)>> \in WonPlaces(r.top)
    BY <1>5, <1>6, <2>1 DEF WonPlaces
  <2>3. Len(leafPlaces(r)) \in 0..40 /\ \E a \in 1..Len(leafPlaces(r)) : TRUE
    BY <1>2, <2>2, LeafPlaces DEF Board, Enumerates
  <2>4. leafPlaces(r) # <<>>
    BY <2>3, EmptySeq
  <2> QED
    BY <2>2, <2>4
<1> QED
  BY <1>1, <1>2, <1>3, <1>5, <1>6, <1>7

--------------------------------------------------------------------------------
(* The steps of the schedule *)

LEMMA PaySound ==
  ASSUME DistributeInv, NEW i \in Attempts, distributeRewards(i)
  PROVE  DistributeInv'
<1> DEFINE r == run[i]
           p == <<metricAt(i), rankAt(i)>>
           leaf == hashLeafOf(run[i], metricAt(i), rankAt(i), winner(i))
<1>1. r.stage = "pay" /\ hasWinner(i)
  BY DEF distributeRewards, At
<1>2. PICK landed \in BOOLEAN, answered \in BOOLEAN :
        /\ landed => live(i) /\ accepts(i)
        /\ ring' = IF landed
                   THEN [ring EXCEPT ![foundEntry(ring)].claimed = @ \union {<<metricAt(i), rankAt(i)>>}]
                   ELSE ring
        /\ paid' = IF landed THEN paid + leaf.leaf.amount ELSE paid
        /\ run' = [run EXCEPT ![i] =
                     IF ~answered /\ run[i].version = 2 THEN nextPosition(i)
                     ELSE [@ EXCEPT !.stage = "record", !.sig = IF answered THEN i ELSE None]]
  BY DEF distributeRewards
<1>3. /\ r \in Runs(Period) /\ Healthy(r) /\ Owns(r, i, ring) /\ i <= attempts
      /\ ring \in Seq(RingEntries(Period)) /\ paid \in Nat
  BY <1>1, RunFacts
<1>4. /\ Board(r) /\ r.at \in Nat \ {0} /\ r.at <= Len(placesOf(r))
      /\ Enumerates(placesOf(r), (DOMAIN r.top) \X (1..TOP_N))
      /\ placesOf(r)[r.at] = p /\ p \in Metrics \X (1..10)
      /\ p \in WonPlaces(r.top) /\ leafPlaces(r) # <<>>
  BY <1>1, PlaceAt
<1>5. kind' = kind /\ day' = day /\ attempts' = attempts
  BY DEF distributeRewards
<1> DEFINE sig == IF answered THEN i ELSE None
           record == [r EXCEPT !.stage = "record", !.sig = sig]
           q == IF ~answered /\ r.version = 2 THEN nextPosition(i) ELSE record
<1>6. run' = [run EXCEPT ![i] = q]
  BY <1>2
<1>7. /\ record \in Runs(Period) /\ record.stage = "record" /\ record.caller = r.caller
      /\ leafPlaces(record) = leafPlaces(r) /\ merkleRoot(record) = merkleRoot(r)
      /\ Healthy(record)
  <2>1. "record" \in Stages /\ sig \in Attempts \union {None} /\ r \in Runs(Period)
    BY <1>3 DEF Stages
  <2> HIDE DEF sig, r
  <2>2. MovedTo(record, r, "record", Period)
    BY <2>1, AnswerMoves
  <2> HIDE DEF record
  <2>3. /\ record \in Runs(Period) /\ record.stage = "record" /\ record.caller = r.caller
        /\ leafPlaces(record) = leafPlaces(r) /\ merkleRoot(record) = merkleRoot(r)
        /\ placesOf(record) = placesOf(r) /\ record.at = r.at /\ Board(record)
    BY <1>4, <2>2 DEF MovedTo, Moved
  <2>4. Healthy(record)
    BY <1>4, <2>3 DEF Healthy, Board
  <2> QED
    BY <2>3, <2>4
<1>8. /\ q \in Runs(Period) /\ Healthy(q)
      /\ q.stage \notin Ended =>
           /\ q.stage \in {"pay", "record"} /\ leafPlaces(q) = leafPlaces(r)
           /\ merkleRoot(q) = merkleRoot(r)
  <2>1. CASE q = nextPosition(i)
    BY <1>1, <2>1, NextPosition
  <2>2. CASE q = record
    <3> HIDE DEF q, record
    <3> QED
      BY <1>7, <2>2
  <2> QED
    BY <2>1, <2>2
<1> HIDE DEF q, record, sig
<1>9. r.stage # "none" /\ r.stage \notin Ended
  BY <1>1 DEF Ended
<1>10. CASE ~landed
  <2>1. ring' = ring /\ paid' = paid
    BY <1>2, <1>10
  <2>2. Owns(q, i, ring)
    BY <1>3, <1>8, <1>9 DEF Owns
  <2> QED
    BY <1>5, <1>6, <1>8, <1>9, <2>1, <2>2, RunMovesAlone
<1>11. CASE landed
  <2> DEFINE e == ring[1]
             f == [e EXCEPT !.claimed = @ \union {p}]
  <2>1. r.caller = "library" /\ accepts(i)
    BY <1>2, <1>11 DEF live
  <2>2. /\ ring # <<>> /\ r.version = 2 /\ p \notin e.claimed
        /\ verifyLeafProof(leaf, proofFor(r, metricAt(i), rankAt(i)), e.root)
    <3>1. leaf.leaf.format = r.version
      BY DEF hashLeafOf, leafNode, leafOf
    <3> QED
      BY <2>1, <3>1 DEF accepts, foundEntry
  <2>3. Len(ring) \in Nat \ {0} /\ e \in RingEntries(Period)
    <3>1. Len(ring) \in Nat /\ Len(ring) # 0
      BY <1>3, <2>2, EmptySeq, LenProperties
    <3> QED
      BY <1>3, <3>1, ElementOfSeq
  <2>4. ring' = [ring EXCEPT ![1] = f]
    BY <1>2, <1>11 DEF foundEntry
  <2>5. f \in RingEntries(Period) /\ f.claimed = e.claimed \union {p} /\ f.by = e.by /\ f.root = e.root
    BY <1>4, <2>3 DEF RingEntries
  <2> HIDE DEF f
  <2>6. ring' \in Seq(RingEntries(Period)) /\ ring'[1] = f /\ ring' # <<>>
    <3>1. ring' \in Seq(RingEntries(Period)) /\ Len(ring') = Len(ring) /\ ring'[1] = f
      BY <1>3, <2>3, <2>4, <2>5, ExceptSeq
    <3> QED
      BY <2>3, <3>1, EmptySeq
  <2>7. AttemptsBegun /\ RunsSound /\ PaidClaims
    BY DEF DistributeInv
  <2>8. ring' # <<>> => ring'[1].by <= attempts
    BY <2>2, <2>5, <2>6, <2>7 DEF AttemptsBegun
  <2>9. Owns(q, i, ring')
    <3>1. CASE e.by # i \/ q.stage \in Ended
      BY <2>5, <2>6, <3>1, NothingOwned
    <3>2. CASE e.by = i /\ q.stage \notin Ended
      <4>1. leafPlaces(r) # <<>> /\ e.root = merkleRoot(r)
        BY <1>3, <1>9, <2>2, <3>2 DEF Owns
      <4> QED
        BY <1>8, <2>5, <2>6, <3>2, <4>1 DEF Owns
    <3> QED
      BY <3>1, <3>2
  <2>10. ASSUME NEW j \in Attempts, j # i PROVE Owns(run[j], j, ring')
    <3>1. CASE run[j].stage \in Ended \/ e.by # j
      BY <2>5, <2>6, <3>1, NothingOwned
    <3>2. CASE run[j].stage \notin Ended /\ e.by = j
      BY <2>2, <2>5, <2>6, <2>7, <3>2 DEF RunsSound, Owns
    <3> QED
      BY <3>1, <3>2
  <2>11. PICK b : Accounts(e, paid, b)
    BY <2>2, <2>7 DEF PaidClaims
  <2>12. b.version = 2 /\ p \in WonPlaces(b.top) /\ leaf.leaf.amount = amountAt(b, p)
    <3>1. Board(b) /\ leafPlaces(b) # <<>> /\ e.root = merkleRoot(b)
      BY <2>11 DEF Accounts
    <3>2. verifyLeafProof(leaf, proofFor(r, metricAt(i), rankAt(i)), merkleRoot(b))
      BY <2>2, <3>1
    <3> QED
      BY <1>4, <2>2, <3>1, <3>2, PaysItsPlace
  <2>13. Accounts(f, paid + amountAt(b, p), b)
    BY <2>2, <2>3, <2>11, <2>12, OneMorePaid DEF f
  <2>14. paid' = paid + amountAt(b, p)
    BY <1>2, <1>11, <2>12
  <2>15. PaidClaims'
    BY <2>6, <2>13, <2>14 DEF PaidClaims
  <2>16. paid' \in Nat
    <3>1. amountAt(b, p) \in Nat
      BY <1>4, <2>11, AmountsAre DEF Accounts
    <3> QED
      BY <1>3, <2>14, <3>1
  <2> QED
    BY <1>3, <1>5, <1>6, <1>8, <2>6, <2>8, <2>9, <2>10, <2>15, <2>16, RunMoves
<1> QED
  BY <1>10, <1>11

(* A new attempt; a failed one may make way for it. *)
LEMMA Begins ==
  ASSUME DistributeInv, NEW q, Standing(q, Period), q.stage = "top",
         NEW n, n = attempts + 1, attempts < MaxAttempts, attempts' = n,
         run' \in [Attempts -> Runs(Period)], run'[n] = q,
         \A j \in Attempts : j # n => run'[j] = run[j] \/ (run'[j] = finished /\ j <= attempts),
         kind' = kind, day' = day, ring' = ring, paid' = paid
  PROVE  DistributeInv'
<1>2. DistributeTypes /\ AttemptsBegun /\ RunsSound /\ PaidClaims
  BY DEF DistributeInv
<1>3. n \in Attempts /\ attempts \in Nat /\ n \in 0..MaxAttempts
  BY <1>2, DistributionAssumption DEF DistributeTypes, Attempts, DistributionAssumption
<1>5. finished.stage = "done" /\ "done" \in Ended /\ Healthy(finished)
  BY UnstartedRun DEF Ended
<1>6. Period' = Period
  BY DEF Period
<1>7. DistributeTypes'
  <2>1. run' \in [Attempts -> Runs(Period')] /\ ring' \in Seq(RingEntries(Period')) /\ attempts' \in 0..MaxAttempts
    BY <1>2, <1>3, <1>6 DEF DistributeTypes
  <2> QED
    BY <1>2, <2>1 DEF DistributeTypes
<1>8. AttemptsBegun'
  <2>1. \A j \in Attempts : run'[j].stage # "none" => j <= n
    <3>1. \A j \in Attempts : j # n => j <= n \/ run'[j].stage = "none"
      BY <1>2, <1>3, <1>5 DEF AttemptsBegun, Attempts
    <3> QED
      BY <1>3, <3>1
  <2>2. ring' # <<>> => ring'[1].by <= n
    <3>1. ASSUME ring # <<>> PROVE ring[1].by <= n
      <4>1. ring[1].by <= attempts /\ ring[1].by \in Attempts
        <5>1. Len(ring) \in Nat /\ Len(ring) # 0
          BY <1>2, <3>1, EmptySeq, LenProperties DEF DistributeTypes
        <5>2. ring[1] \in RingEntries(Period)
          BY <1>2, <5>1, ElementOfSeq DEF DistributeTypes
        <5> QED
          BY <1>2, <3>1, <5>2 DEF AttemptsBegun, RingEntries
      <4> QED
        BY <1>3, <4>1 DEF Attempts
    <3> QED
      BY <3>1
  <2> QED
    BY <2>1, <2>2 DEF AttemptsBegun
<1>9. RunsSound'
  <2>1. ring = <<>> \/ ring[1].by # n
    BY <1>2, <1>3 DEF AttemptsBegun
  <2>2. Healthy(q) /\ Owns(q, n, ring)
    BY <2>1, NothingOwned DEF Standing
  <2>3. \A j \in Attempts : Owns(finished, j, ring)
    BY <1>5, NothingOwned
  <2>4. ASSUME NEW j \in Attempts, j # n PROVE Healthy(run'[j]) /\ Owns(run'[j], j, ring)
    BY <1>2, <1>5, <2>3, <2>4 DEF RunsSound
  <2> QED
    BY <1>3, <2>2, <2>4 DEF RunsSound
<1>10. PaidClaims'
  BY <1>2 DEF PaidClaims
<1> QED
  BY <1>7, <1>8, <1>9, <1>10 DEF DistributeInv

LEMMA StartSound ==
  ASSUME DistributeInv, NEW caller \in {"cron", "script", "library"}, NEW version \in {1, 2},
         Start(caller, version)
  PROVE  DistributeInv'
<1>1. PICK n, q : n = attempts + 1 /\ q = attempt("top", caller, version, Period)
  OBVIOUS
<1>2. Standing(q, Period) /\ q.stage = "top"
  <2>1. Period \in {None, Period}
    OBVIOUS
  <2> QED
    BY <1>1, <2>1, AttemptStarts
<1>3. /\ attempts < MaxAttempts /\ attempts' = n
      /\ run' = [run EXCEPT ![n] = q] /\ kind' = kind /\ day' = day /\ ring' = ring /\ paid' = paid
  BY <1>1 DEF Start, payoutVars, Period
<1>4. run \in [Attempts -> Runs(Period)] /\ n \in Attempts
  BY <1>1, <1>3, DistributionAssumption
  DEF DistributeInv, DistributeTypes, Attempts, DistributionAssumption
<1>5. /\ run' \in [Attempts -> Runs(Period)] /\ run'[n] = q
      /\ \A j \in Attempts : j # n => run'[j] = run[j]
  BY <1>2, <1>3, <1>4 DEF Standing
<1> QED
  BY <1>1, <1>2, <1>3, <1>5, Begins

LEMMA RetrySound ==
  ASSUME DistributeInv, NEW i \in Attempts, RetryTask(i)
  PROVE  DistributeInv'
<1>1. PICK n, q : n = attempts + 1 /\ q = attempt("top", "cron", 1, run[i].period)
  OBVIOUS
<1>2. Standing(q, Period) /\ q.stage = "top"
  <2>1. run[i].period \in {None, Period}
    BY RunFacts DEF Runs
  <2> QED
    BY <1>1, <2>1, AttemptStarts
<1>3. /\ attempts < MaxAttempts /\ attempts' = n
      /\ run' = [run EXCEPT ![i] = finished, ![n] = q]
      /\ kind' = kind /\ day' = day /\ ring' = ring /\ paid' = paid
  BY <1>1 DEF RetryTask, payoutVars
<1>4. run \in [Attempts -> Runs(Period)] /\ n \in Attempts
  BY <1>1, <1>3, DistributionAssumption
  DEF DistributeInv, DistributeTypes, Attempts, DistributionAssumption
<1>5. i <= attempts /\ finished \in Runs(Period)
  BY RunFacts, UnstartedRun DEF RetryTask
<1>6. /\ run' \in [Attempts -> Runs(Period)] /\ run'[n] = q
      /\ \A j \in Attempts : j # n => run'[j] = run[j] \/ (run'[j] = finished /\ j <= attempts)
  BY <1>2, <1>3, <1>4, <1>5 DEF Standing
<1> QED
  BY <1>1, <1>2, <1>3, <1>6, Begins

LEMMA TickSound ==
  ASSUME DistributeInv, Tick
  PROVE  DistributeInv'
<1>1. DistributeTypes /\ AttemptsBegun /\ RunsSound /\ PaidClaims
  BY DEF DistributeInv
<1>2. day' \in Days /\ kind' \in Kinds
  <2>1. Days \subseteq 7..350 /\ Days # {}
    BY DistributionAssumption DEF DistributionAssumption
  <2>2. Max(Days) \in Days
    <3>1. \E d \in Days : \A e \in Days : d >= e
      <4> DEFINE gaps == {350 - d : d \in Days}
      <4>0. \A d \in Days : 350 - d \in Nat
        BY <2>1
      <4>1. gaps \subseteq Nat /\ gaps # {}
        BY <2>1, <4>0, ZenonT(40)
      <4>2. PICK g \in gaps : \A h \in gaps : g <= h
        <5> HIDE DEF gaps
        <5> QED
          BY <4>1, LeastDay
      <4>3. PICK d \in Days : g = 350 - d
        OBVIOUS
      <4>4. \A e \in Days : 350 - d <= 350 - e
        BY <4>2, <4>3
      <4>5. \A e \in Days : e \in Int
        BY <2>1
      <4> HIDE DEF gaps
      <4>6. \A e \in Days : d >= e
        BY <4>4, <4>5
      <4> QED
        BY <4>6
    <3> QED
      BY <3>1 DEF Max
  <2> DEFINE later == {d \in Days : d > day}
  <2>3. later \subseteq Nat /\ later # {}
    <3>1. day < Max(Days)
      BY DEF Tick
    <3>2. Max(Days) \in later
      BY <2>2, <3>1
    <3>3. \A d \in Days : d \in Nat
      BY <2>1
    <3> QED
      BY <3>2, <3>3
  <2>4. day' = Min(later)
    BY DEF Tick
  <2> HIDE DEF later
  <2>5. \E d \in later : \A e \in later : d <= e
    BY <2>3, LeastDay
  <2>6. day' \in later
    BY <2>4, <2>5 DEF Min
  <2> QED
    BY <1>1, <2>6 DEF later, Tick, DistributeTypes
<1>3. kind' = kind
  BY DEF Tick
<1>4. CASE Period' = Period
  <2>1. /\ attempts' = attempts /\ run' = run /\ ring' = ring /\ paid' = paid
    BY <1>3, <1>4 DEF Tick, Period, payoutVars
  <2>2. DistributeTypes'
    BY <1>1, <1>2, <1>4, <2>1 DEF DistributeTypes
  <2>3. AttemptsBegun' /\ RunsSound' /\ PaidClaims'
    BY <1>1, <2>1 DEF AttemptsBegun, RunsSound, PaidClaims
  <2> QED
    BY <2>2, <2>3 DEF DistributeInv
<1>5. CASE Period' # Period
  <2>1. attempts' = 0 /\ run' = noRuns /\ ring' = <<>> /\ paid' = 0
    BY <1>3, <1>5 DEF Tick, Period
  <2>2. \A i \in Attempts : run'[i] = unstarted
    BY <2>1 DEF noRuns
  <2>3. run' \in [Attempts -> Runs(Period')]
    BY <2>1, UnstartedRun DEF noRuns
  <2>4. ring' \in Seq(RingEntries(Period')) /\ paid' \in Nat /\ attempts' \in 0..MaxAttempts
    BY <2>1, EmptySeq, DistributionAssumption DEF DistributionAssumption
  <2>5. DistributeTypes'
    BY <1>2, <2>3, <2>4 DEF DistributeTypes
  <2>6. AttemptsBegun'
    BY <2>1, <2>2, UnstartedRun DEF AttemptsBegun
  <2>7. RunsSound'
    BY <2>1, <2>2, UnstartedRun, NothingOwned DEF RunsSound
  <2>8. PaidClaims'
    BY <2>1 DEF PaidClaims
  <2> QED
    BY <2>5, <2>6, <2>7, <2>8 DEF DistributeInv
<1> QED
  BY <1>4, <1>5

LEMMA QuietSound ==
  ASSUME DistributeInv, UNCHANGED <<kind, day, attempts, run, ring, paid>>
  PROVE  DistributeInv'
<1>1. DistributeTypes /\ AttemptsBegun /\ RunsSound /\ PaidClaims
  BY DEF DistributeInv
<1>2. Period' = Period
  BY DEF Period
<1>3. DistributeTypes'
  BY <1>1, <1>2 DEF DistributeTypes
<1>4. AttemptsBegun' /\ RunsSound' /\ PaidClaims'
  BY <1>1 DEF AttemptsBegun, RunsSound, PaidClaims
<1> QED
  BY <1>3, <1>4 DEF DistributeInv

LEMMA StepSound == DistributeInv /\ [DistributeNext]_distributeVars => DistributeInv'
<1> SUFFICES ASSUME DistributeInv, [DistributeNext]_distributeVars PROVE DistributeInv'
  OBVIOUS
<1>1. CASE Tick
  BY <1>1, TickSound
<1>2. CASE Fire \/ runDistributeOnce \/ CallLibrary
  <2>1. PICK caller \in {"cron", "script", "library"}, version \in {1, 2} : Start(caller, version)
    BY <1>2 DEF Fire, runDistributeOnce, CallLibrary
  <2> QED
    BY <2>1, StartSound
<1>3. CASE Miss
  BY <1>3, QuietSound DEF Miss, payoutVars
<1>4. ASSUME NEW i \in Attempts, RetryTask(i) \/ Throw(i) \/ Stop(i) \/ RunStep(i)
      PROVE  DistributeInv'
  <2>1. CASE RetryTask(i)
    BY <2>1, RetrySound
  <2>2. CASE Throw(i)
    BY <2>2, ThrowSound
  <2>3. CASE Stop(i)
    BY <2>3, StopSound
  <2>4. CASE ReadTop(i)
    BY <2>4, ReadTopSound
  <2>5. CASE ReadPool(i)
    BY <2>5, ReadPoolSound
  <2>6. CASE uploadLeaderboardToArweave(i)
    BY <2>6, UploadSound
  <2>7. CASE insertSnapshot(i)
    BY <2>7, InsertSnapshotSound
  <2>8. CASE commitLeaderboardRoot(i)
    BY <2>8, CommitSound
  <2>9. CASE distributeRewards(i)
    BY <2>9, PaySound
  <2>10. CASE insertDistribution(i) \/ lostRow(i)
    BY <2>10, RecordSound
  <2> QED
    BY <1>4, <2>1, <2>2, <2>3, <2>4, <2>5, <2>6, <2>7, <2>8, <2>9, <2>10 DEF RunStep
<1>5. CASE UNCHANGED distributeVars
  BY <1>5, QuietSound DEF distributeVars, payoutVars
<1> QED
  BY <1>1, <1>2, <1>3, <1>4, <1>5 DEF DistributeNext

(* However the attempts at a period interleave, fail and are retried, each is *)
(* as far as its stage says, the oldest root is that of a board, and what was *)
(* paid is what the claimed places of that board were given.                  *)
THEOREM DistributeInvariant == DistributeSpec => []DistributeInv
  BY InitSound, StepSound, PTL DEF DistributeSpec

(* periods.ts: a run closes the period its day lies in, and the periods of a  *)
(* kind tile the calendar, on every day of the year.                          *)
THEOREM PeriodsTileCorrect == DistributeSpec => []PeriodsTile
<1>1. DistributeInv => PeriodsTile
  <2> SUFFICES ASSUME DistributeInv, NEW i \in Attempts, run[i].period # None
               PROVE  LET p == run[i].period
                      IN /\ p.start <= fivePmEt(day) /\ fivePmEt(day) < p.end
                         /\ periodForDate(p.end, kind).start = p.end
                         /\ periodForDate(p.end - 61, kind) = p
    BY DEF PeriodsTile
  <2>1. run[i].period = periodForDate(fivePmEt(day), kind)
    BY RunFacts DEF Runs, Period
  <2>2. day \in Days /\ kind \in {"weekly", "monthly"}
    BY DEF DistributeInv, DistributeTypes, Kinds
  <2>3. day \in Int /\ day \in 0..364
    BY <2>2, DistributionAssumption DEF DistributionAssumption
  <2>4. PICK d \in Int : d = day /\ d \in 0..364
    BY <2>3
  <2>5. CASE kind = "weekly"
    BY <2>1, <2>4, <2>5, WeeksTile
  <2>6. CASE kind = "monthly"
    BY <2>1, <2>4, <2>6, MonthsTile
  <2> QED
    BY <2>2, <2>5, <2>6
<1> QED
  BY <1>1, DistributeInvariant, PTL

(* merkle-v2.ts against verify_merkle_proof: whatever the tables held and     *)
(* whatever else was attempted, the proofs of the attempt with the oldest     *)
(* root are accepted for each of its winners with a bit and an amount who has *)
(* not been paid.                                                             *)
THEOREM OwnRootPaysCorrect == DistributeSpec => []OwnRootPays
<1>1. DistributeInv => OwnRootPays
  <2> SUFFICES ASSUME DistributeInv, NEW i \in Attempts,
                      At(i, "pay"), hasWinner(i), run[i].version = 2,
                      rankAt(i) <= BITS_PER_METRIC,
                      assignAmount(run[i].pool, metricAt(i), rankAt(i)) > 0,
                      ring # <<>>, ring[1].by = i,
                      <<metricAt(i), rankAt(i)>> \notin ring[1].claimed
               PROVE  accepts(i)
    BY DEF OwnRootPays
  <2> DEFINE r == run[i]
             m == metricAt(i)
             k == rankAt(i)
             leaf == hashLeafOf(r, m, k, winner(i))
  <2>1. r.stage = "pay" /\ r.stage \notin Ended
    BY DEF At, Ended
  <2>2. /\ Board(r) /\ r.at \in Nat \ {0} /\ r.at <= Len(placesOf(r))
        /\ Enumerates(placesOf(r), (DOMAIN r.top) \X (1..TOP_N))
        /\ placesOf(r)[r.at] = <<m, k>> /\ <<m, k>> \in WonPlaces(r.top)
    BY <2>1, PlaceAt
  <2>3. leafPlaces(r) # <<>> /\ ring[1].root = merkleRoot(r)
    BY <2>1, RunFacts DEF Owns
  <2>4. leaf.leaf.amount = assignAmount(r.pool, m, k) /\ leaf.leaf.format = 2
    BY DEF hashLeafOf, leafNode, leafOf
  <2>5. verifyLeafProof(leaf, proofFor(r, m, k), ring[1].root)
    BY <2>2, <2>3, OwnProof DEF winner
  <2> QED
    BY <2>4, <2>5 DEF accepts, foundEntry
<1> QED
  BY <1>1, DistributeInvariant, PTL

(* distribute-v2.ts with distribute_weekly_rewards.rs: the chain pays no leaf *)
(* of the oldest root twice and nothing else, so that what it pays is within  *)
(* the total of the leaves and the pool that was read for them.               *)
THEOREM PaidWithinPoolCorrect == DistributeSpec => []PaidWithinPool
<1>1. DistributeInv => PaidWithinPool
  <2> SUFFICES ASSUME DistributeInv, ring # <<>>
               PROVE  paid <= ring[1].total /\ paid <= ring[1].pool
    BY DEF PaidWithinPool, DistributeInv, PaidClaims
  <2>1. PICK r : Accounts(ring[1], paid, r)
    BY DEF DistributeInv, PaidClaims
  <2>2. PICK e : e = ring[1]
    OBVIOUS
  <2>3. /\ Board(r) /\ e.total = totalOf(r) /\ e.pool = r.pool * 10000
        /\ e.claimed \in SUBSET WonPlaces(r.top) /\ (e.claimed # {} => r.version = 2)
        /\ paid = SumFunctionOnSet(Amounts(r), e.claimed)
    BY <2>1, <2>2 DEF Accounts
  <2>4. paid <= totalOf(r)
    <3>1. \A p \in WonPlaces(r.top) : Amounts(r)[p] \in Nat
      BY <2>3, WonAre, AmountsAre DEF Amounts
    <3>2. SumFunctionOnSet(Amounts(r), e.claimed) <= SumFunctionOnSet(Amounts(r), WonPlaces(r.top))
      BY <2>3, <3>1, WonAre, SumSubset
    <3> QED
      BY <2>3, <3>2, TotalIs
  <2>5. paid <= r.pool * 10000
    <3>1. CASE e.claimed = {}
      <4>1. paid = 0 /\ r.pool \in Nat
        BY <2>3, <3>1, SumEmpty DEF Board
      <4> QED
        BY <4>1
    <3>2. CASE e.claimed # {}
      BY <2>3, <3>2, PromisesWithinPool
    <3> QED
      BY <3>1, <3>2
  <2> QED
    BY <2>2, <2>3, <2>4, <2>5
<1> QED
  BY <1>1, DistributeInvariant, PTL
================================================================================
