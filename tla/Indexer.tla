-------------------------------- MODULE Indexer --------------------------------
(******************************************************************************)
(* The win-streak indexer: Helius posts each settle_market transaction to a   *)
(* webhook, and the handler writes the settle event, one row per holder and   *)
(* the running streak of every holder, each write an await of its own         *)
(* (indexer/settle-event-handler.ts, indexer/helius-webhook.ts,               *)
(* db/queries.ts).                                                            *)
(*                                                                            *)
(* Requests run concurrently, any of them may fail at any await, and Helius   *)
(* posts again what was not acknowledged; it may also post twice what was.    *)
(* A market is settled by one transaction, so an event stands for its tx_sig  *)
(* and its market.                                                            *)
(******************************************************************************)
EXTENDS Integers, FiniteSets, Functions

CONSTANTS
  Events,         \* settle transactions
  Users,          \* wallets that may hold tokens of a market
  Requests,       \* webhook requests that may run at one time
  NoEvent,        \* what an idle request handles
  NoUser,         \* the holder of a request that is at none
  OutcomeOf,      \* outcome of each event on chain
  YesHeld,        \* YES and NO each wallet held when the event happened; both
  NoHeld,         \*   zero for a token account that is empty
  AnchorEvents,   \* events whose payload carries a decoded MarketSettled
  MaxDeliveries,  \* bound: how often one event is posted
  MaxFailures     \* bound: how many requests fail

Outcomes == {"yes", "no", "invalid", "unsettled"}
Results  == {"won", "lost", "invalid", "abstained"}

ASSUME IndexerAssumption ==
  /\ IsFiniteSet(Events)
  /\ NoEvent \notin Events
  /\ NoUser \notin Users
  /\ OutcomeOf \in [Events -> Outcomes \ {"unsettled"}]
  /\ YesHeld \in [Events -> [Users -> Nat]]
  /\ NoHeld \in [Events -> [Users -> Nat]]
  /\ AnchorEvents \subseteq Events
  /\ MaxDeliveries \in Nat
  /\ MaxFailures \in Nat

VARIABLES
  settled,      \* events that happened on chain
  deliveries,   \* how often Helius posted each event
  acked,        \* events some request of which was answered with success
  failures,     \* how many requests failed
  handling,     \* the event each request is about, NoEvent for an idle one
  step,         \* the write each request makes next
  todo,         \* holders each request has still to begin with
  holder,       \* the holder each request is at, NoUser between two
  settleEvents, \* rows of settle_events, by tx_sig
  holds,        \* rows of user_market_holds: the result, "none" for no row
  streaks,      \* rows of user_streaks
  applied       \* history: how often each event was applied to each streak

chainVars   == <<settled, deliveries, acked, failures>>
requestVars == <<handling, step, todo, holder>>
tableVars   == <<settleEvents, holds, streaks>>
vars == <<chainVars, requestVars, tableVars, applied>>

NoStreak == [current |-> 0, longest |-> 0, won |-> 0, traded |-> 0]

Init ==
  /\ settled = {}
  /\ deliveries = [e \in Events |-> 0]
  /\ acked = {}
  /\ failures = 0
  /\ handling = [r \in Requests |-> NoEvent]
  /\ step = [r \in Requests |-> "idle"]
  /\ todo = [r \in Requests |-> {}]
  /\ holder = [r \in Requests |-> NoUser]
  /\ settleEvents = {}
  /\ holds = [e \in Events |-> [u \in Users |-> "none"]]
  /\ streaks = [u \in Users |-> NoStreak]
  /\ applied = [e \in Events |-> [u \in Users |-> 0]]

--------------------------------------------------------------------------------
(* What one event means for one holder *)

(* A payload without a decoded event is recognised by its instruction, which  *)
(* does not say how the market was settled.                                   *)
parseHeliusSettleWebhook(e) ==
  IF e \in AnchorEvents THEN OutcomeOf[e] ELSE "unsettled"

(* Mutant: a wallet that also holds the losing side is counted as a loser. *)
determineResult_PairLoses(outcome, yes, no) ==
  IF yes = 0 /\ no = 0 THEN "abstained"
  ELSE CASE outcome = "invalid" -> "invalid"
         [] outcome = "yes" -> IF yes > 0 /\ no = 0 THEN "won" ELSE "lost"
         [] outcome = "no"  -> IF no > 0 /\ yes = 0 THEN "won" ELSE "lost"
         [] OTHER -> "abstained"

determineResult(outcome, yes, no) ==
  IF yes = 0 /\ no = 0 THEN "abstained"
  ELSE CASE outcome = "invalid" -> "invalid"
         [] outcome = "yes" -> IF yes > 0 THEN "won" ELSE "lost"
         [] outcome = "no"  -> IF no > 0 THEN "won" ELSE "lost"
         [] OTHER -> "abstained"

ResultOf(e, u) ==
  determineResult(parseHeliusSettleWebhook(e), YesHeld[e][u], NoHeld[e][u])

Larger(a, b) == IF a >= b THEN a ELSE b

(* Mutant: longest is compared with the streak before the win. *)
Won_StaleLongest(s) ==
  [s EXCEPT !.current = @ + 1, !.longest = Larger(@, s.current), !.won = @ + 1,
            !.traded = @ + 1]

Won(s) ==
  [s EXCEPT !.current = @ + 1, !.longest = Larger(@, s.current + 1), !.won = @ + 1,
            !.traded = @ + 1]

Lost(s) == [s EXCEPT !.current = 0, !.traded = @ + 1]

(* Mutant: a refunded market is not counted as traded. *)
Refunded_Ignored(s) == s

Refunded(s) == [s EXCEPT !.traded = @ + 1]

(* One atomic INSERT ... ON CONFLICT DO UPDATE; a new row has the values the  *)
(* update gives to NoStreak.                                                  *)
applyResultToUserStreak(s, result) ==
  CASE result = "won" -> Won(s)
    [] result = "lost" -> Lost(s)
    [] result = "invalid" -> Refunded(s)
    [] OTHER -> s

--------------------------------------------------------------------------------
(* The chain and Helius, external *)

SettleOnChain(e) ==
  /\ e \notin settled
  /\ settled' = settled \cup {e}
  /\ UNCHANGED <<deliveries, acked, failures, requestVars, tableVars, applied>>

(* A post, a retry, or a duplicate of one that was answered. *)
Deliver(r, e) ==
  /\ e \in settled
  /\ step[r] = "idle"
  /\ deliveries[e] < MaxDeliveries
  /\ deliveries' = [deliveries EXCEPT ![e] = @ + 1]
  /\ handling' = [handling EXCEPT ![r] = e]
  /\ step' = [step EXCEPT ![r] = "event"]
  /\ UNCHANGED <<settled, acked, failures, todo, holder, tableVars, applied>>

(* The process dies, or the database or the RPC node throws: the handler      *)
(* catches nothing, and the post is not acknowledged.                         *)
Fail(r) ==
  /\ step[r] # "idle"
  /\ failures < MaxFailures
  /\ failures' = failures + 1
  /\ handling' = [handling EXCEPT ![r] = NoEvent]
  /\ step' = [step EXCEPT ![r] = "idle"]
  /\ todo' = [todo EXCEPT ![r] = {}]
  /\ holder' = [holder EXCEPT ![r] = NoUser]
  /\ UNCHANGED <<settled, deliveries, acked, tableVars, applied>>

--------------------------------------------------------------------------------
(* handleSettleEvent *)

(* Mutant: an event that is already in the table is taken for done. *)
AfterInsert_SkipsKnown(r) == IF handling[r] \in settleEvents THEN "ack" ELSE "holders"

(* The insert returns the row of the first post on a conflict, and the        *)
(* handler goes on in either case.                                            *)
AfterInsert(r) == "holders"

InsertSettleEvent(r) ==
  /\ step[r] = "event"
  /\ settleEvents' = settleEvents \cup {handling[r]}
  /\ step' = [step EXCEPT ![r] = AfterInsert(r)]
  /\ UNCHANGED <<chainVars, handling, todo, holder, holds, streaks, applied>>

(* External: the owners of token accounts of the market at the settle slot,   *)
(* in any order.                                                              *)
FetchTokenHolders(r) ==
  /\ step[r] = "holders"
  /\ \E holders \in SUBSET Users :
       /\ \A u \in Users \ holders :
            YesHeld[handling[r]][u] = 0 /\ NoHeld[handling[r]][u] = 0
       /\ todo' = [todo EXCEPT ![r] = holders]
  /\ step' = [step EXCEPT ![r] = "loop"]
  /\ UNCHANGED <<chainVars, handling, holder, tableVars, applied>>

(* The loop visits each owner of the fetched list once. *)
TakeHolder(r, u) ==
  /\ u \in todo[r]
  /\ todo' = [todo EXCEPT ![r] = @ \ {u}]

InsertUserMarketHold(r) ==
  /\ step[r] = "loop"
  /\ \E u \in Users :
       /\ TakeHolder(r, u)
       /\ holds' = [holds EXCEPT ![handling[r]][u] = ResultOf(handling[r], u)]
       /\ IF ResultOf(handling[r], u) = "abstained"
          THEN UNCHANGED <<step, holder>>
          ELSE /\ holder' = [holder EXCEPT ![r] = u]
               /\ step' = [step EXCEPT ![r] = "streak"]
  /\ UNCHANGED <<chainVars, handling, settleEvents, streaks, applied>>

ApplyResult(r) ==
  LET e == handling[r]
      u == holder[r]
  IN
  /\ step[r] = "streak"
  /\ streaks' = [streaks EXCEPT ![u] = applyResultToUserStreak(@, ResultOf(e, u))]
  /\ applied' = [applied EXCEPT ![e][u] = @ + 1]
  /\ holder' = [holder EXCEPT ![r] = NoUser]
  /\ step' = [step EXCEPT ![r] = "loop"]
  /\ UNCHANGED <<chainVars, handling, todo, settleEvents, holds>>

EndLoop(r) ==
  /\ step[r] = "loop" /\ todo[r] = {}
  /\ step' = [step EXCEPT ![r] = "ack"]
  /\ UNCHANGED <<chainVars, handling, todo, holder, tableVars, applied>>

(* The handler returns and the endpoint answers with success. *)
Acknowledge(r) ==
  /\ step[r] = "ack"
  /\ acked' = acked \cup {handling[r]}
  /\ handling' = [handling EXCEPT ![r] = NoEvent]
  /\ step' = [step EXCEPT ![r] = "idle"]
  /\ UNCHANGED <<settled, deliveries, failures, todo, holder, tableVars, applied>>

Handle(r) ==
  \/ InsertSettleEvent(r)
  \/ FetchTokenHolders(r)
  \/ InsertUserMarketHold(r)
  \/ ApplyResult(r)
  \/ EndLoop(r)
  \/ Acknowledge(r)

Next ==
  \/ \E e \in Events : SettleOnChain(e)
  \/ \E r \in Requests :
       \/ Handle(r)
       \/ Fail(r)
       \/ \E e \in Events : Deliver(r, e)

(* Helius posts an event again while nobody acknowledged it; a request that   *)
(* started runs on unless it fails.                                           *)
Retry(e) == e \notin acked /\ \E r \in Requests : Deliver(r, e)

Fairness ==
  /\ \A r \in Requests : WF_vars(Handle(r))
  /\ \A e \in Events : WF_vars(Retry(e))

Spec == Init /\ [][Next]_vars /\ Fairness

--------------------------------------------------------------------------------
(* Properties *)

Streak == [current : Nat, longest : Nat, won : Nat, traded : Nat]

TypeOK ==
  /\ settled \subseteq Events
  /\ deliveries \in [Events -> 0..MaxDeliveries]
  /\ acked \subseteq settled
  /\ failures \in 0..MaxFailures
  /\ handling \in [Requests -> settled \cup {NoEvent}]
  /\ step \in [Requests -> {"idle", "event", "holders", "loop", "streak", "ack"}]
  /\ \A r \in Requests : step[r] # "idle" => handling[r] \in Events
  /\ todo \in [Requests -> SUBSET Users]
  /\ holder \in [Requests -> Users \cup {NoUser}]
  /\ \A r \in Requests : step[r] = "streak" => holder[r] \in Users
  /\ settleEvents \subseteq settled
  /\ holds \in [Events -> [Users -> Results \cup {"none"}]]
  /\ streaks \in [Users -> Streak]
  /\ applied \in [Events -> [Users -> Nat]]

(* However posts are repeated, interleaved and cut short, the four numbers of *)
(* a streak stay consistent with each other.                                  *)
StreakCoherent ==
  \A u \in Users :
    LET s == streaks[u] IN
    s.current <= s.longest /\ s.longest <= s.won /\ s.won <= s.traded

(* The totals of a streak can be read off the rows of user_market_holds: the  *)
(* row is there, with the result that was counted, before the streak moves.   *)
TotalsAudited ==
  \A u \in Users :
    LET Applied(results) ==
          SumFunction([e \in Events |->
                         IF holds[e][u] \in results THEN applied[e][u] ELSE 0])
    IN /\ streaks[u].traded = Applied({"won", "lost", "invalid"})
       /\ streaks[u].won = Applied({"won"})
       /\ \A e \in Events : applied[e][u] > 0 => holds[e][u] = ResultOf(e, u)

Stake(e, u) == e \in AnchorEvents /\ (YesHeld[e][u] > 0 \/ NoHeld[e][u] > 0)

Winner(e, u) ==
  /\ Stake(e, u)
  /\ \/ OutcomeOf[e] = "yes" /\ YesHeld[e][u] > 0
     \/ OutcomeOf[e] = "no" /\ NoHeld[e][u] > 0

(* Success is answered only when every holder of the event has been counted,  *)
(* and as a winner whoever holds the side that pays, whichever requests did   *)
(* it and wherever earlier ones broke off.                                    *)
AckedMeansCounted ==
  \A e \in acked, u \in Users :
    /\ Stake(e, u) => applied[e][u] > 0
    /\ Winner(e, u) => holds[e][u] = "won"

(* While posts are repeated until acknowledged, every holder of a settled     *)
(* market is counted in the end.                                              *)
EventuallyCounted ==
  \A e \in Events, u \in Users :
    (e \in settled /\ Stake(e, u)) ~> applied[e][u] > 0

(* settle-event-handler.test.ts: re-running for the same tx_sig does not      *)
(* multi-count.  The rows are keyed, the streak is not.                       *)
RerunCountsOnce ==
  \A e \in Events, u \in Users : applied[e][u] <= 1
================================================================================
