------------------------------- MODULE Briefings -------------------------------
(******************************************************************************)
(* News classification, Bell Pro briefings and PNL digests                    *)
(* (services/automation/src/ai, its two scripts) and the route that serves a  *)
(* briefing (apps/web).  The classifier and the scripts may run at once, with *)
(* or without the key of the model, and stop at any await.  What the model    *)
(* writes is an answer that parses, one that does not, or an error; costs,    *)
(* hashes and audit rows are left out.  Time is in minutes of the calendar.   *)
(******************************************************************************)
EXTENDS Calendar, FiniteSets

CONSTANTS
  Articles, Passes,      \* news, and passes of the classifier
  Generators,            \* runs of gen-briefings, for one ticker
  Instants,              \* successive times at which something may happen
  EarningsDays,          \* of that ticker
  Positions,             \* a wallet's settled positions
  Days,                  \* lengths of the periods digested
  Nobody

ASSUME BriefingsAssumption ==
  /\ Instants \in Seq(Nat) /\ Len(Instants) > 0
  /\ \A i, j \in 1..Len(Instants) : i <= j => Instants[i] <= Instants[j]
  /\ Days \subseteq 1..30

VARIABLES
  clock,      \* index into Instants
  articles,   \* news_articles
  classified, \* news_classifications: pairs of an article and a model
  pass,       \* the passes of the classifier
  answered,   \* history: articles the model has classified
  briefings,  \* the rows of one ticker, in the order of generated_at
  generator,  \* runs of gen-briefings
  cdn,        \* the response held for /api/briefings, or Nobody
  served,     \* the response given last, or Nobody
  holds,      \* user_market_holds joined with settle_events: id to observed_at, or 0
  digest      \* the latest row of pnl_digests, or Nobody

newsVars == <<articles, classified, pass, answered>>
briefVars == <<briefings, generator, cdn, served>>
digestVars == <<holds, digest>>
aiVars == <<clock, newsVars, briefVars, digestVars>>

minute == Instants[clock]

DEFAULT_CLASSIFIER_MODEL == "haiku"

NewsInit ==
  /\ articles = {} /\ classified = {}
  /\ pass = [p \in Passes |-> [todo |-> {}, live |-> FALSE]]
  /\ answered = {}

BriefInit ==
  /\ briefings = <<>> /\ generator = [g \in Generators |-> [at |-> "idle"]]
  /\ cdn = Nobody /\ served = Nobody

DigestInit == holds = [h \in Positions |-> 0] /\ digest = Nobody

AiInit == clock = 1 /\ NewsInit /\ BriefInit /\ DigestInit

AiTick ==
  /\ clock < Len(Instants) /\ clock' = clock + 1
  /\ UNCHANGED <<newsVars, briefVars, digestVars>>

--------------------------------------------------------------------------------
(* News. *)

(* An article that comes again takes the new headline and body; it is not     *)
(* classified again.                                                          *)
insertNewsArticle(a) ==
  /\ articles' = articles \union {a}
  /\ UNCHANGED <<clock, classified, pass, answered, briefVars, digestVars>>

listUnclassifiedArticles(model) ==
  {a \in articles : <<a, model>> \notin classified}

insertNewsClassification(a, model) == classified' = classified \union {<<a, model>>}

(* The articles are read once; the key is that of the process. *)
classifyPendingArticles(p) ==
  /\ pass[p].todo = {}
  /\ \E live \in BOOLEAN :
       pass' = [pass EXCEPT ![p] =
         [live |-> live, todo |-> listUnclassifiedArticles(DEFAULT_CLASSIFIER_MODEL)]]
  /\ UNCHANGED <<clock, articles, classified, answered, briefVars, digestVars>>

(* Mutant: the synthetic row is filed under the model asked for. *)
rowModel_Requested(live) == DEFAULT_CLASSIFIER_MODEL

rowModel(live) == IF live THEN DEFAULT_CLASSIFIER_MODEL ELSE "stub"

(* Without the key a synthetic row is written; an answer that does not parse, *)
(* an error of the model or of the database writes none.                      *)
classifyArticle(p, a) ==
  /\ LET live == pass[p].live
     IN \/ /\ insertNewsClassification(a, rowModel(live))
           /\ answered' = IF live THEN answered \union {a} ELSE answered
        \/ UNCHANGED <<classified, answered>>
  /\ pass' = [pass EXCEPT ![p].todo = @ \ {a}]
  /\ UNCHANGED <<clock, articles, briefVars, digestVars>>

passStops(p) ==
  /\ pass[p].todo # {} /\ pass' = [pass EXCEPT ![p].todo = {}]
  /\ UNCHANGED <<clock, articles, classified, answered, briefVars, digestVars>>

--------------------------------------------------------------------------------
(* Briefings. *)

wallMinute(t) == (t - EtOffsetAt(t)) % MINUTES_PER_DAY

classifyMarketSession(t) ==
  LET d == toEtDateString(t)
      m == wallMinute(t)
  IN CASE Weekday(d) \in {0, 6}                    -> "closed-weekend"
       [] ~isTradingDay(d)                         -> "closed-holiday"
       [] m < 240 \/ m >= 1200                     -> "closed-overnight"
       [] 240 <= m /\ m < 570                      -> "pre-market"
       [] 570 <= m /\ m < closeHourEt(d) * 60      -> "regular"
       [] OTHER                                    -> "after-hours"

isSessionClosed(session) == session \in {"closed-weekend", "closed-holiday", "closed-overnight"}

(* The UTC date is compared with the exchange's: 0 when there is no such date. *)
pickEarningsDates(t) ==
  LET today == t \div MINUTES_PER_DAY
      past == {d \in EarningsDays : d <= today}
      next == EarningsDays \ past
  IN [most |-> IF past = {} THEN 0 ELSE CHOOSE d \in past : \A e \in past : e <= d,
      next |-> IF next = {} THEN 0 ELSE CHOOSE d \in next : \A e \in next : d <= e]

(* Mutant: the session that follows is named on every day. *)
nextSessionEtDate_Always(t) == nextTradingDay(toEtDateString(t))

nextSessionEtDate(t) ==
  IF isSessionClosed(classifyMarketSession(t)) THEN nextTradingDay(toEtDateString(t)) ELSE 0

buildBellProBriefingPrompt(t) ==
  [asOf |-> t, session |-> classifyMarketSession(t), opens |-> nextSessionEtDate(t),
   earnings |-> pickEarningsDates(t)]

(* asOf is the time the script began; the price is read, or the ticker fails. *)
generateForTicker(g) ==
  /\ generator[g].at = "idle"
  /\ generator' = [generator EXCEPT ![g] = [at |-> "model", prompt |-> buildBellProBriefingPrompt(minute)]]
  /\ UNCHANGED <<clock, newsVars, briefings, cdn, served, digestVars>>

(* generated_at is the time of the row, not that of the prompt. *)
insertBriefing(g) ==
  /\ generator[g].at = "model"
  /\ \E model \in {"sonnet", "stub"} :
       briefings' = Append(briefings, [prompt |-> generator[g].prompt, model |-> model, since |-> minute])
  /\ generator' = [generator EXCEPT ![g] = [at |-> "done"]]
  /\ UNCHANGED <<clock, newsVars, cdn, served, digestVars>>

generatorFails(g) ==
  /\ generator[g].at = "model"
  /\ generator' = [generator EXCEPT ![g] = [at |-> "done"]]
  /\ UNCHANGED <<clock, newsVars, briefings, cdn, served, digestVars>>

(* Mutant: ORDER BY generated_at, ascending. *)
getLatestBriefing_First == IF briefings = <<>> THEN Nobody ELSE 1

(* The number of the row, or Nobody. *)
getLatestBriefing == IF briefings = <<>> THEN Nobody ELSE Len(briefings)

sMaxAge == 1
staleWhileRevalidate == 5

held(window) == cdn # Nobody /\ minute - cdn.fetched <= window

(* Only an answer of 200 carries Cache-Control: an unknown ticker, no row and *)
(* an unavailable store are answered 400, 404 and 503 and are not held.       *)
fetchRoute(answer) ==
  LET row == getLatestBriefing
  IN IF row = Nobody THEN cdn' = cdn /\ served' = Nobody
     ELSE /\ cdn' = [row |-> row, fetched |-> minute]
          /\ served' = [row |-> IF answer = Nobody THEN row ELSE answer, at |-> minute]

GET ==
  /\ \/ held(sMaxAge) /\ served' = [row |-> cdn.row, at |-> minute] /\ UNCHANGED cdn
     \/ ~held(sMaxAge) /\ held(sMaxAge + staleWhileRevalidate) /\ fetchRoute(cdn.row)
     \/ ~held(sMaxAge + staleWhileRevalidate) /\ fetchRoute(Nobody)
  /\ UNCHANGED <<clock, newsVars, briefings, generator, digestVars>>

(* The store is unavailable: what is held is served while it may be. *)
GETFails ==
  /\ ~held(sMaxAge)
  /\ served' = IF held(sMaxAge + staleWhileRevalidate) THEN [row |-> cdn.row, at |-> minute] ELSE Nobody
  /\ UNCHANGED <<clock, newsVars, briefings, generator, cdn, digestVars>>

--------------------------------------------------------------------------------
(* PNL digests of one wallet. *)

(* The indexer's rows: observed_at is that of the settle event, which comes   *)
(* before the rows of its holders.                                            *)
PositionIndexed(h) ==
  /\ holds[h] = 0
  /\ \E i \in 1..clock : holds' = [holds EXCEPT ![h] = Instants[i]]
  /\ UNCHANGED <<clock, newsVars, briefVars, digest>>

listUserPositionsInPeriod(start, end) == {h \in Positions : start <= holds[h] /\ holds[h] < end}

(* Counts and sums are over these rows, by result; with none nothing is       *)
(* written, nor is it when the model fails.                                   *)
genPnlDigest ==
  \E days \in Days :
    LET rows == listUserPositionsInPeriod(minute - days * MINUTES_PER_DAY, minute)
    IN /\ rows # {}
       /\ digest' = [rows |-> rows, end |-> minute, days |-> days]
       /\ UNCHANGED <<clock, newsVars, briefVars, holds>>

AiNext ==
  \/ AiTick
  \/ \E a \in Articles : insertNewsArticle(a)
  \/ \E p \in Passes : classifyPendingArticles(p) \/ passStops(p) \/ \E a \in pass[p].todo : classifyArticle(p, a)
  \/ \E g \in Generators : generateForTicker(g) \/ insertBriefing(g) \/ generatorFails(g)
  \/ GET \/ GETFails
  \/ \E h \in Positions : PositionIndexed(h)
  \/ genPnlDigest

--------------------------------------------------------------------------------
(* Properties. *)

(* Passes without the key never take an article away from those with it: an   *)
(* article the model has not classified is listed for it, whatever passes     *)
(* ran, overlapped or stopped (classifyArticle, listUnclassifiedArticles).    *)
StubLeavesWork ==
  articles \ answered \subseteq listUnclassifiedArticles(DEFAULT_CLASSIFIER_MODEL)

(* What the route answers was the latest briefing at some time in the last    *)
(* six minutes, the minute and the five of its Cache-Control, whatever runs   *)
(* of the script wrote meanwhile (getLatestBriefing, GET).                    *)
ServedWhileLatest ==
  served # Nobody /\ served.row < Len(briefings) =>
    served.at <= briefings[served.row + 1].since + sMaxAge + staleWhileRevalidate
================================================================================
