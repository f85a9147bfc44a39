---------------------------- MODULE SettlementNudger ---------------------------
(******************************************************************************)
(* The scheduled job that settles expired markets: it lists them once, then   *)
(* nudges one after the other, each until it settles, meets an error that no  *)
(* retry helps, or uses up its retry window; then it anchors the next day's   *)
(* grid (jobs/settlement.ts, lib/retry.ts, jobs/grid-evolution.ts phases 1    *)
(* and 1b).  The scheduler stops a run after MAX_DURATION, wherever it is.    *)
(*                                                                            *)
(* Time is counted from the start of the run and from the start of the market *)
(* at hand, in the unit the retry interval is given in; attempts and sleeps   *)
(* may each take a unit longer than they should.                              *)
(******************************************************************************)
EXTENDS Integers, FiniteSets

CONSTANTS
  Markets,      \* strike markets
  Sick,         \* markets whose price feed may misbehave
  INTERVAL,     \* SETTLE_RETRY_INTERVAL_MS
  DEADLINE,     \* SETTLE_RETRY_DEADLINE_MS
  MAX_DURATION, \* maxDuration of the task
  MAX_ATTEMPTS  \* retries.default.maxAttempts

ASSUME NudgerAssumption ==
  /\ Sick \subseteq Markets
  /\ INTERVAL \in Nat \ {0}
  /\ DEADLINE \in Nat \ {0}
  /\ MAX_DURATION \in Nat
  /\ MAX_ATTEMPTS \in Nat \ {0}

VARIABLES
  expired,      \* markets whose expiry has passed
  settled,      \* markets with an outcome
  feed,         \* what settle_market would say of each feed
  phase,        \* what the run does next, "off" between runs
  expiredAtRun, \* markets expired at runAt, the time the run was scheduled for
  listed,       \* the markets found open
  open,         \* those the loop has still to begin with
  current,      \* the market at hand, as a set of at most one
  tried,        \* time since retryUntilDeadline started for it
  spent,        \* time since the run started
  runs,         \* attempts of the scheduler at this run
  status        \* the status reported for each market in this run

chainVars == <<expired, settled, feed>>
listVars  == <<expiredAtRun, listed, runs>>
loopVars  == <<open, current, tried, spent, status>>
nudgerVars == <<chainVars, phase, listVars, loopVars>>

Feeds == {"ok", "wide", "refused"}

NudgerInit ==
  /\ expired = {}
  /\ settled = {}
  /\ feed = [m \in Markets |-> "ok"]
  /\ phase = "off"
  /\ expiredAtRun = {} /\ listed = {} /\ runs = 0  /\ open = {} /\ current = {}
  /\ tried = 0 /\ spent = 0
  /\ status = [m \in Markets |-> "none"]

--------------------------------------------------------------------------------
(* The chain, external *)

Expire(m) ==
  /\ m \notin expired
  /\ expired' = expired \cup {m}
  /\ UNCHANGED <<settled, feed, phase, listVars, loopVars>>

(* PythConfidenceTooWide and PythStale are "wide"; PythNotTrading, a paused   *)
(* program and a wrong account are "refused".                                 *)
FeedTurns(m, f) ==
  /\ m \in Sick
  /\ feed' = [feed EXCEPT ![m] = f]
  /\ UNCHANGED <<expired, settled, phase, listVars, loopVars>>

(* Settlement is permissionless, and the admin may settle after a delay; a    *)
(* transaction of the job whose reply was lost may also land late.            *)
OthersSettle(m) ==
  /\ m \in expired \ settled
  /\ settled' = settled \cup {m}
  /\ UNCHANGED <<expired, feed, phase, listVars, loopVars>>

settle_market(m) ==
  IF m \in settled THEN "AlreadySettled"
  ELSE IF feed[m] = "ok" THEN "ok" ELSE feed[m]

--------------------------------------------------------------------------------
(* The run *)

(* Mutant: only markets that expired since the last run are looked at. *)
Due_NewOnly == expired \ expiredAtRun

Due == expired

Fire ==
  /\ phase = "off"
  /\ phase' = "listing"
  /\ expiredAtRun' = Due
  /\ spent' = 0
  /\ runs' = 1
  /\ UNCHANGED <<chainVars, listed, open, current, tried, status>>

(* One scan of all accounts; the list is not read again. *)
ListOpenMarkets ==
  /\ phase = "listing"
  /\ listed' = expiredAtRun \ settled
  /\ open' = expiredAtRun \ settled
  /\ status' = [m \in Markets |-> "none"]
  /\ phase' = "next"
  /\ UNCHANGED <<chainVars, expiredAtRun, runs, current, tried, spent>>

(* The client, the scan or runAnchorPhase throws: the scheduler runs the job  *)
(* again for the same runAt, or has no attempts left.                         *)
Throw ==
  /\ phase \in {"listing", "anchor"}
  /\ phase' = IF runs < MAX_ATTEMPTS THEN "listing" ELSE "off"
  /\ runs' = runs + 1
  /\ UNCHANGED <<chainVars, expiredAtRun, listed, loopVars>>

(* The accounts come in no particular order. *)
NextMarket(m) ==
  /\ phase = "next"
  /\ m \in open
  /\ open' = open \ {m}
  /\ current' = {m}
  /\ tried' = 0
  /\ phase' = "attempt"
  /\ UNCHANGED <<chainVars, listVars, spent, status>>

defaultShouldRetry(reply) == reply \in {"wide", "timeout"}

(* Mutant: a transaction that was sent but not confirmed counts as settled. *)
Reported_UnconfirmedSettles(reply) ==
  IF reply \in {"ok", "unconfirmed"} THEN "settled" ELSE "non-retriable-error"

Reported(reply) == IF reply = "ok" THEN "settled" ELSE "non-retriable-error"

(* Mutant: an error that no retry helps ends the loop. *)
AfterMarket_ErrorEndsLoop(report) ==
  IF report = "non-retriable-error" THEN "anchor" ELSE "next"

AfterMarket(report) == "next"

Report(m, report) ==
  /\ status' = [status EXCEPT ![m] = report]
  /\ current' = {}
  /\ phase' = AfterMarket(report)

(* Mutant: only a sleep that is over can use up the window. *)
WindowUsed_AfterSleep(now) == now >= DEADLINE

(* It is used up when the next sleep would end past the deadline. *)
WindowUsed(now) == now + INTERVAL >= DEADLINE

(* The reply may be lost whether or not the transaction landed, with an error *)
(* that the job retries or with one it does not.                              *)
Attempt(m) ==
  /\ phase = "attempt"
  /\ m \in current
  /\ tried < DEADLINE /\ spent < MAX_DURATION
  /\ \E took \in 0..1, landed \in BOOLEAN :
     \E reply \in {"timeout", "unconfirmed"}
                    \cup (IF landed THEN {settle_market(m)} ELSE {}) :
       /\ tried' = tried + took
       /\ spent' = spent + took
       /\ settled' = IF landed /\ settle_market(m) = "ok" THEN settled \cup {m} ELSE settled
       /\ IF ~defaultShouldRetry(reply) THEN Report(m, Reported(reply))
          ELSE IF WindowUsed(tried') THEN Report(m, "exhausted")
          ELSE phase' = "sleep" /\ UNCHANGED <<status, current>>
  /\ UNCHANGED <<expired, feed, listVars, open>>

Sleep ==
  /\ phase = "sleep"
  /\ spent < MAX_DURATION
  /\ \E late \in 0..1 :
       /\ tried' = tried + INTERVAL + late
       /\ spent' = spent + INTERVAL + late
  /\ phase' = "attempt"
  /\ UNCHANGED <<chainVars, listVars, open, current, status>>

(* The sleep ended late: the while loop is left. *)
GiveUp(m) ==
  /\ phase = "attempt"
  /\ m \in current
  /\ tried >= DEADLINE /\ spent < MAX_DURATION
  /\ Report(m, "exhausted")
  /\ UNCHANGED <<chainVars, listVars, open, tried, spent>>

EndLoop ==
  /\ phase = "next" /\ open = {}
  /\ phase' = "anchor"
  /\ UNCHANGED <<chainVars, listVars, loopVars>>

(* runAnchorPhase *)
Anchor ==
  /\ phase = "anchor"
  /\ phase' = "off"
  /\ UNCHANGED <<chainVars, listVars, loopVars>>

(* The scheduler stops the run, and what it held in memory is gone. *)
StopRun ==
  /\ phase # "off"
  /\ spent >= MAX_DURATION
  /\ phase' = "off"
  /\ open' = {} /\ current' = {}
  /\ UNCHANGED <<chainVars, listVars, tried, spent, status>>

Run ==
  \/ ListOpenMarkets
  \/ Throw
  \/ \E m \in Markets : NextMarket(m) \/ Attempt(m) \/ GiveUp(m)
  \/ Sleep
  \/ EndLoop
  \/ Anchor
  \/ StopRun

NudgerNext ==
  \/ \E m \in Markets :
       \/ Expire(m)
       \/ OthersSettle(m)
       \/ \E f \in Feeds : FeedTurns(m, f)
  \/ Fire
  \/ Run

(* The step that settles m: its transaction lands on a healthy feed. *)
Settles(m) == Attempt(m) /\ m \notin settled /\ m \in settled'

(* The job fires every trading day and takes its steps; the scan does not     *)
(* throw for ever, nor are the transactions for a healthy feed all lost.      *)
Fairness ==
  /\ WF_nudgerVars(Fire) /\ WF_nudgerVars(Run)
  /\ SF_nudgerVars(ListOpenMarkets)
  /\ \A m \in Markets : SF_nudgerVars(Settles(m))

NudgerSpec == NudgerInit /\ [][NudgerNext]_nudgerVars /\ Fairness

--------------------------------------------------------------------------------
(* Properties *)

SettledReportTrue == \A m \in Markets : status[m] = "settled" => m \in settled

AllReported == phase = "anchor" => \A m \in listed : status[m] # "none"

(* The summary is true and whole: what it says is settled has an outcome on   *)
(* chain, although replies are lost and others settle the same markets; and   *)
(* when the loop is over every market that was listed has its row, whatever   *)
(* errors the ones before it ended with (runSettlementNudger).                *)
SummaryHolds == SettledReportTrue /\ AllReported

(* The retry window of a market is not passed while sleeping: a late sleep    *)
(* or a slow last attempt ends at its deadline (lib/retry.ts:49-51).          *)
WindowKept == tried <= DEADLINE

(* If the windows of the sick feeds together fit into MAX_DURATION, a market  *)
(* whose feed is healthy is settled however the runs are stopped, retried and *)
(* ordered: a market that one run misses is found by a later one.             *)
HealthySettled == \A m \in Markets \ Sick : m \in expired ~> m \in settled
================================================================================
