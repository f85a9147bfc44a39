----------------------------- MODULE Notifications -----------------------------
(******************************************************************************)
(* Web push, Discord messages and notification preferences                    *)
(* (services/automation/src/auth/{web-push,discord-bot,db}.ts and             *)
(* apps/web/src/hooks/use-notification-prefs.ts).  The three share no state;  *)
(* each awaited query, send or answer is a step.  Contents, keys and hashes   *)
(* of messages are left out.                                                  *)
(******************************************************************************)
EXTENDS Naturals, FiniteSets

CONSTANTS
  Users, Endpoints,   \* accounts, and the browsers they subscribe
  Batches,            \* sends begun by jobs
  Callers,            \* jobs that send a Discord message
  Channels,           \* toggles of the preferences
  DefaultOn,          \* the toggles that are on in the page's defaults
  Edits,              \* mutations begun in the settings page
  NoPrefs

ASSUME NotificationsAssumption ==
  /\ NoPrefs \notin [Channels -> BOOLEAN]
  /\ DefaultOn \subseteq Channels
  /\ IsFiniteSet(Users) /\ IsFiniteSet(Endpoints)

VARIABLES
  subs,       \* push_subscriptions: <<user, endpoint>> to status, or "none"
  gone,       \* endpoints the push service no longer knows
  batch,      \* sendPushToUser and broadcastPush in progress
  client, loginPromise,   \* the Discord bot
  logins,     \* logins at the gateway in progress
  caller,     \* sendDiscordDM of each job
  prefs,      \* notification_prefs of one user: a row or none
  shown,      \* the cached preferences of the page
  fetching,   \* the query in progress: what it has read, and whether it met no mutation
  edit,       \* the mutations of the page
  doubt       \* history: what is shown may not be what is stored

pushVars == <<subs, gone, batch>>
discordVars == <<client, loginPromise, logins, caller>>
prefsVars == <<prefs, shown, fetching, edit, doubt>>
notVars == <<pushVars, discordVars, prefsVars>>

unsent == [at |-> "idle", todo |-> {}, expired |-> {}, dropped |-> {}]

(* The columns of a new row, and what the page takes for a user without one:  *)
(* transactional e-mail is off in the one and on in the other.                *)
Off == [c \in Channels |-> FALSE]
DEFAULT_NOTIFICATION_PREFS == [c \in Channels |-> c \in DefaultOn]

NoQuery == [answer |-> NoPrefs, quiet |-> FALSE]

PushInit ==
  /\ subs = [s \in Users \X Endpoints |-> "none"] /\ gone = {}
  /\ batch = [b \in Batches |-> unsent]

DiscordInit ==
  /\ client = "none" /\ loginPromise = "none" /\ logins = 0
  /\ caller = [c \in Callers |-> "idle"]

PrefsInit ==
  /\ prefs = NoPrefs /\ shown = NoPrefs /\ fetching = NoQuery
  /\ edit = [e \in Edits |-> [at |-> "idle"]] /\ doubt = FALSE

NotInit == PushInit /\ DiscordInit /\ PrefsInit

--------------------------------------------------------------------------------
(* Web push. *)

(* A subscription, or one revoked or expired before, is active again; what a  *)
(* batch has dropped of it no longer holds.                                   *)
subscribeToPushFromBrowser(u, e) ==
  /\ subs' = [subs EXCEPT ![<<u, e>>] = "active"]
  /\ batch' = [b \in Batches |-> [batch[b] EXCEPT !.dropped = @ \ {e}]]
  /\ UNCHANGED <<gone, discordVars, prefsVars>>

(* Mutant: only the row of one user is marked. *)
markPushSubscriptionStatus_One(e, status) ==
  LET u == CHOOSE x \in Users : subs[<<x, e>>] = "active" \/ \A y \in Users : subs[<<y, e>>] # "active"
  IN subs' = [subs EXCEPT ![<<u, e>>] = IF @ = "none" THEN @ ELSE status]

(* Every row of the endpoint, whoever subscribed it. *)
markPushSubscriptionStatus(e, status) ==
  subs' = [s \in Users \X Endpoints |-> IF s[2] = e /\ subs[s] # "none" THEN status ELSE subs[s]]

unsubscribeFromPush(e) ==
  /\ \E u \in Users : subs[<<u, e>>] = "active"
  /\ markPushSubscriptionStatus(e, "revoked")
  /\ UNCHANGED <<gone, batch, discordVars, prefsVars>>

EndpointGoes(e) ==
  /\ e \notin gone /\ gone' = gone \union {e}
  /\ UNCHANGED <<subs, batch, discordVars, prefsVars>>

listActivePushSubscriptions(users) ==
  {s \in users \X Endpoints : subs[s] = "active"}

(* To one user, or to everybody. *)
sendPush(b, users) ==
  /\ batch[b].at = "idle"
  /\ LET list == listActivePushSubscriptions(users)
     IN batch' = [batch EXCEPT ![b] = [unsent EXCEPT !.at = IF list = {} THEN "done" ELSE "send",
                                                     !.todo = list]]
  /\ UNCHANGED <<subs, gone, discordVars, prefsVars>>

(* 404 and 410 tell an endpoint is gone; any other failure is only logged.    *)
(* Nothing is known of a send whose log row cannot be written: the batch ends *)
(* there, and marks nothing.                                                  *)
trySend(b) ==
  /\ batch[b].at = "send"
  /\ \E s \in batch[b].todo :
       LET rest == batch[b].todo \ {s}
       IN batch' = [batch EXCEPT ![b].todo = rest,
                                 ![b].at = IF rest = {} THEN "mark" ELSE "send",
                                 ![b].expired = IF s[2] \in gone THEN @ \union {s[2]} ELSE @]
  /\ UNCHANGED <<subs, gone, discordVars, prefsVars>>

BatchFails(b) ==
  /\ batch[b].at \in {"send", "mark"}
  /\ batch' = [batch EXCEPT ![b].at = "failed"]
  /\ UNCHANGED <<subs, gone, discordVars, prefsVars>>

markExpired(b) ==
  /\ batch[b].at = "mark"
  /\ IF batch[b].expired = {} THEN batch' = [batch EXCEPT ![b].at = "done"] /\ UNCHANGED subs
     ELSE \E e \in batch[b].expired :
            /\ markPushSubscriptionStatus(e, "expired")
            /\ batch' = [batch EXCEPT ![b].expired = @ \ {e}, ![b].dropped = @ \union {e}]
  /\ UNCHANGED <<gone, discordVars, prefsVars>>

PushNext ==
  \/ \E u \in Users, e \in Endpoints : subscribeToPushFromBrowser(u, e)
  \/ \E e \in Endpoints : unsubscribeFromPush(e) \/ EndpointGoes(e)
  \/ \E b \in Batches :
       \/ \E users \in {Users} \union {{u} : u \in Users} : sendPush(b, users)
       \/ trySend(b) \/ markExpired(b) \/ BatchFails(b)

--------------------------------------------------------------------------------
(* Discord. *)

(* Mutant: the login in progress is not shared. *)
ensureDiscordBotReady_Again(c) ==
  /\ caller[c] = "idle"
  /\ IF client = "ready"
     THEN caller' = [caller EXCEPT ![c] = "send"] /\ UNCHANGED <<loginPromise, logins>>
     ELSE /\ caller' = [caller EXCEPT ![c] = "await"]
          /\ loginPromise' = "pending" /\ logins' = logins + 1
  /\ UNCHANGED <<client, pushVars, prefsVars>>

(* A client that is ready is used, a login in progress or done is shared, and *)
(* otherwise the bot logs in.  (Without a token nothing is sent at all.)      *)
ensureDiscordBotReady(c) ==
  /\ caller[c] = "idle"
  /\ IF client = "ready"
     THEN caller' = [caller EXCEPT ![c] = "send"] /\ UNCHANGED <<loginPromise, logins>>
     ELSE /\ caller' = [caller EXCEPT ![c] = "await"]
          /\ IF loginPromise # "none" THEN UNCHANGED <<loginPromise, logins>>
             ELSE loginPromise' = "pending" /\ logins' = logins + 1
  /\ UNCHANGED <<client, pushVars, prefsVars>>

LoginSucceeds ==
  /\ logins > 0 /\ logins' = logins - 1
  /\ client' = "ready" /\ loginPromise' = "resolved"
  /\ UNCHANGED <<caller, pushVars, prefsVars>>

(* Whoever awaits the login gives its message up; the one that logged in      *)
(* forgets the promise before any other goes on.                              *)
LoginFails ==
  /\ logins > 0 /\ logins' = logins - 1
  /\ loginPromise' = "none"
  /\ caller' = [c \in Callers |-> IF caller[c] = "await" THEN "idle" ELSE caller[c]]
  /\ UNCHANGED <<client, pushVars, prefsVars>>

BotDisconnects ==
  /\ client = "ready" /\ client' = "unready"
  /\ UNCHANGED <<loginPromise, logins, caller, pushVars, prefsVars>>

awaitLogin(c) ==
  /\ caller[c] = "await" /\ loginPromise = "resolved"
  /\ caller' = [caller EXCEPT ![c] = "send"]
  /\ UNCHANGED <<client, loginPromise, logins, pushVars, prefsVars>>

(* Sent or not, the attempt is logged, and the job may send again. *)
sendDiscordDM(c) ==
  /\ caller[c] = "send" /\ caller' = [caller EXCEPT ![c] = "idle"]
  /\ UNCHANGED <<client, loginPromise, logins, pushVars, prefsVars>>

DiscordNext ==
  \/ \E c \in Callers : ensureDiscordBotReady(c) \/ awaitLogin(c) \/ sendDiscordDM(c)
  \/ LoginSucceeds \/ LoginFails \/ BotDisconnects

--------------------------------------------------------------------------------
(* Preferences. *)

mergePrefs(current, patch) == [c \in Channels |-> IF c \in DOMAIN patch THEN patch[c] ELSE current[c]]

inFlight == {e \in Edits : edit[e].at # "idle"}

(* What the query makes of the row: without one the page's defaults. *)
queryFn == IF prefs = NoPrefs THEN DEFAULT_NOTIFICATION_PREFS ELSE prefs

fetchPrefs ==
  /\ fetching = NoQuery
  /\ fetching' = [answer |-> queryFn, quiet |-> inFlight = {}]
  /\ UNCHANGED <<prefs, shown, edit, doubt, pushVars, discordVars>>

(* The answer comes, or an error that leaves what is shown. *)
fetchedPrefs ==
  /\ fetching # NoQuery /\ fetching' = NoQuery
  /\ \/ shown' = fetching.answer /\ doubt' = ~fetching.quiet
     \/ UNCHANGED <<shown, doubt>>
  /\ UNCHANGED <<prefs, edit, pushVars, discordVars>>

(* What is shown with the patch, at once, and what was shown before. *)
Optimistic(e, patch) ==
  LET prev == shown
  IN /\ shown' = mergePrefs(IF prev = NoPrefs THEN DEFAULT_NOTIFICATION_PREFS ELSE prev, patch)
     /\ edit' = [edit EXCEPT ![e] = [at |-> "put", patch |-> patch, prev |-> prev,
                                     made |-> FALSE, adrift |-> FALSE]]

(* Mutant: the query in progress is not cancelled. *)
onMutate_KeepQuery(e, patch) == Optimistic(e, patch) /\ fetching' = fetching

(* The query in progress is cancelled. *)
onMutate(e, patch) == Optimistic(e, patch) /\ fetching' = NoQuery

updatePrefs(e) ==
  /\ edit[e].at = "idle"
  /\ \E c \in Channels, v \in BOOLEAN : onMutate(e, [x \in {c} |-> v])
  /\ doubt' = (doubt \/ inFlight # {})
  /\ UNCHANGED <<prefs, pushVars, discordVars>>

(* The PUT: the row is made if there is none, then patched. *)
getOrCreateNotificationPrefs(e) ==
  /\ edit[e].at = "put"
  /\ prefs' = IF prefs = NoPrefs THEN Off ELSE prefs
  /\ edit' = [edit EXCEPT ![e] = [@ EXCEPT !.at = "patch", !.made = (prefs = NoPrefs)]]
  /\ UNCHANGED <<shown, fetching, doubt, pushVars, discordVars>>

settles(e) == edit' = [edit EXCEPT ![e] = [at |-> "idle"]]

patchNotificationPrefs(e) ==
  /\ edit[e].at = "patch"
  /\ prefs' = mergePrefs(prefs, edit[e].patch)
  /\ IF edit[e].adrift THEN settles(e)
     ELSE edit' = [edit EXCEPT ![e] = [at |-> "done", prev |-> edit[e].prev, data |-> prefs']]
  /\ UNCHANGED <<shown, fetching, doubt, pushVars, discordVars>>

onSuccess(e) ==
  /\ edit[e].at = "done"
  /\ shown' = edit[e].data
  /\ settles(e)
  /\ UNCHANGED <<prefs, fetching, doubt, pushVars, discordVars>>

(* What was shown before is shown again, but a toggle made before the first   *)
(* answer stays: there is nothing to go back to.                              *)
rollback(e) == shown' = IF edit[e].prev # NoPrefs THEN edit[e].prev ELSE shown

(* The update is refused, or it is done and the answer lost. *)
onError(e) ==
  /\ edit[e].at \in {"put", "patch", "done"}
  /\ edit[e].at # "done" => ~edit[e].adrift
  /\ rollback(e) /\ settles(e)
  /\ doubt' = (doubt \/ edit[e].at = "done" \/ edit[e].made \/ edit[e].prev = NoPrefs)
  /\ UNCHANGED <<prefs, fetching, pushVars, discordVars>>

(* The connection is lost, and the server may go on with the update. *)
connectionLost(e) ==
  /\ edit[e].at \in {"put", "patch"} /\ ~edit[e].adrift
  /\ rollback(e)
  /\ edit' = [edit EXCEPT ![e] = [@ EXCEPT !.adrift = TRUE, !.prev = NoPrefs]]
  /\ doubt' = TRUE
  /\ UNCHANGED <<prefs, fetching, pushVars, discordVars>>

(* Or it never gets to it, or fails. *)
serverEnds(e) ==
  /\ edit[e].at \in {"put", "patch"} /\ edit[e].adrift /\ settles(e)
  /\ UNCHANGED <<prefs, shown, fetching, doubt, pushVars, discordVars>>

PrefsNext ==
  \/ fetchPrefs \/ fetchedPrefs
  \/ \E e \in Edits : \/ updatePrefs(e) \/ getOrCreateNotificationPrefs(e)
                      \/ patchNotificationPrefs(e) \/ onSuccess(e) \/ onError(e)
                      \/ connectionLost(e) \/ serverEnds(e)

NotNext == PushNext \/ DiscordNext \/ PrefsNext

--------------------------------------------------------------------------------
(* Properties. *)

(* When a batch has marked an endpoint the push service reported gone, no row *)
(* of it is active, of any user of that browser, until it is subscribed       *)
(* again; so it is not sent to by later batches (sendPushToSubscriptions,     *)
(* markPushSubscriptionStatus).                                               *)
GoneIsDropped ==
  \A b \in Batches : \A e \in batch[b].dropped, u \in Users : subs[<<u, e>>] # "active"

(* However many jobs send at once, and whatever logins fail or connections    *)
(* drop, the bot is never logging in twice at a time (ensureDiscordBotReady). *)
OneLogin == logins <= 1

(* Once every mutation has settled the page shows what a query would answer.  *)
(* In doubt it may show something else: after two mutations overlapped, a     *)
(* refetch met one, an answer was lost, an update failed halfway, or a toggle *)
(* made before the first answer was refused (it stays: the hook has nothing   *)
(* to roll back to).  A query that no mutation meets ends the doubt, whatever *)
(* went before it (useNotificationPrefs).                                     *)
PrefsShownTrue ==
  ~doubt /\ inFlight = {} /\ shown # NoPrefs => shown = queryFn
================================================================================
