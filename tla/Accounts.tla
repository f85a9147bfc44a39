-------------------------------- MODULE Accounts -------------------------------
(******************************************************************************)
(* User rows and linked OAuth accounts (services/automation/src/auth), the    *)
(* first-connect route and the hooks that use them (apps/web): a wallet that  *)
(* connects gets a row with a generated handle, and a signature left in two   *)
(* cookies lets the sign-in callback link an OAuth identity to that row.      *)
(*                                                                            *)
(* One browser with several tabs, and its requests on the server: every       *)
(* awaited query is a step.  A user is named by its wallet, of which there is *)
(* one row; times, avatars and tokens are left out.                           *)
(******************************************************************************)
EXTENDS Naturals, FiniteSets

CONSTANTS
  Tabs, Wallets,
  Signers,       \* wallets whose adapter can sign a message
  Identities,    \* accounts at the OAuth providers
  ProviderOf, DisplayOf, EmailOf,   \* the profile each provider returns
  Generated,     \* handles of the generator
  Chosen,        \* handles users choose
  None

Providers == {"discord", "google", "twitter"}

ASSUME AccountsAssumption ==
  /\ Signers \subseteq Wallets
  /\ ProviderOf \in [Identities -> Providers]
  /\ Generated \intersect Chosen = {}
  /\ None \notin Wallets \union Identities \union Generated \union Chosen

VARIABLES
  users,     \* users: wallet to its row, or None
  oauth,     \* oauth_accounts: identity to the wallet of its user, or None
  notNull,   \* users.handle is NOT NULL: migration 0006 is applied
  cookie,    \* signedData and publicKey of the browser
  session,   \* the JWT of the browser; None also when it names no wallet
  wallet,    \* the wallet connected in each tab
  hook,      \* useEnsureUser of each tab
  posts,     \* POST /api/users/upsert in progress
  flow,      \* the sign-in of each tab
  signed     \* history: wallets that signed for a provider

dbVars == <<users, oauth, notNull>>
browserVars == <<cookie, session, wallet, hook>>
accVars == <<dbVars, browserVars, posts, flow, signed>>

virtualEmail == "virtual"

handles == {users[w].handle : w \in {v \in Wallets : users[v] # None}} \ {None}

(* Both sides of the application test the pattern of the generator. *)
isRandomUsername(h) == h \in Generated

unseen == [seen |-> {}, user |-> None]

idle == [at |-> "idle"]

AccInit ==
  /\ users = [w \in Wallets |-> None] /\ oauth = [i \in Identities |-> None] /\ notNull = FALSE
  /\ cookie = None /\ session = None
  /\ wallet = [t \in Tabs |-> None] /\ hook = [t \in Tabs |-> unseen]
  /\ posts = {} /\ flow = [t \in Tabs |-> idle]
  /\ signed = {}

--------------------------------------------------------------------------------
(* The users table. *)

coalesce(a, b) == IF a # None THEN a ELSE b

(* The row after INSERT ... ON CONFLICT (wallet_pubkey). *)
upsertUserByWallet(w, email, handle) ==
  IF users[w] = None THEN [email |-> email, handle |-> handle]
  ELSE [users[w] EXCEPT !.email = coalesce(users[w].email, email)]

(* UNIQUE (handle). *)
insertable(w, handle) == users[w] # None \/ handle \notin handles

updateUserHandle(w, h) == users' = [users EXCEPT ![w].handle = h]

(* /settings: a handle of the user's own that nobody has. *)
ChooseHandle(w) ==
  /\ users[w] # None
  /\ \E h \in Chosen \ handles : updateUserHandle(w, h)
  /\ UNCHANGED <<oauth, notNull, browserVars, posts, flow, signed>>

unlinkOAuthAccount(w, provider) ==
  /\ \E i \in Identities : oauth[i] = w /\ ProviderOf[i] = provider
  /\ oauth' = [i \in Identities |->
                 IF oauth[i] = w /\ ProviderOf[i] = provider THEN None ELSE oauth[i]]
  /\ UNCHANGED <<users, notNull, browserVars, posts, flow, signed>>

(* Migration 0006: rows without a handle are given one of the generator's,    *)
(* derived from the wallet; it fails when two would have the same.            *)
requireHandles ==
  /\ ~notNull /\ notNull' = TRUE
  /\ \E given \in [{w \in Wallets : users[w] # None /\ users[w].handle = None} -> Generated \ handles] :
       /\ \A v, w \in DOMAIN given : given[v] = given[w] => v = w
       /\ users' = [w \in Wallets |->
                      IF w \in DOMAIN given THEN [users[w] EXCEPT !.handle = given[w]] ELSE users[w]]
  /\ UNCHANGED <<oauth, browserVars, posts, flow, signed>>

--------------------------------------------------------------------------------
(* First connect: useEnsureUser and POST /api/users/upsert. *)

loaded(t) == flow[t].at \in {"idle", "sign"}

aborted(t) == {IF p.tab = t THEN [p EXCEPT !.live = FALSE] ELSE p : p \in posts}

(* The effect of the hook when the wallet of the tab changes: the request in  *)
(* progress is aborted, and a wallet not yet seen is posted.                  *)
connect(t, w) ==
  /\ loaded(t) /\ wallet[t] # w
  /\ wallet' = [wallet EXCEPT ![t] = w]
  /\ IF w \in hook[t].seen THEN posts' = aborted(t) /\ UNCHANGED hook
     ELSE /\ hook' = [hook EXCEPT ![t].seen = @ \union {w}]
          /\ posts' = aborted(t) \union {[tab |-> t, wallet |-> w, at |-> "look", live |-> TRUE]}
  /\ UNCHANGED <<dbVars, cookie, session, flow, signed>>

disconnect(t) ==
  /\ loaded(t) /\ wallet[t] # None
  /\ wallet' = [wallet EXCEPT ![t] = None]
  /\ hook' = [hook EXCEPT ![t].user = None]
  /\ posts' = aborted(t)
  /\ UNCHANGED <<dbVars, cookie, session, flow, signed>>

becomes(p, step) == posts' = (posts \ {p}) \union {[p EXCEPT !.at = step]}

getUserByWalletPubkey(p) ==
  /\ p.at = "look"
  /\ becomes(p, IF users[p.wallet] # None THEN "answer" ELSE "insert")
  /\ UNCHANGED <<dbVars, browserVars, flow, signed>>

(* A handle somebody has is answered with 409. *)
insertUser(p) ==
  /\ p.at = "insert"
  /\ \E h \in Generated :
       IF insertable(p.wallet, h)
       THEN /\ users' = [users EXCEPT ![p.wallet] = upsertUserByWallet(p.wallet, virtualEmail, h)]
            /\ becomes(p, "answer")
       ELSE UNCHANGED users /\ posts' = posts \ {p}
  /\ UNCHANGED <<oauth, notNull, browserVars, flow, signed>>

(* Mutant: the request is not aborted when the wallet changes. *)
setUser_Late(p) ==
  /\ p.at = "answer"
  /\ posts' = posts \ {p}
  /\ hook' = [hook EXCEPT ![p.tab].user = p.wallet]
  /\ UNCHANGED <<dbVars, cookie, session, wallet, flow, signed>>

setUser(p) ==
  /\ p.at = "answer"
  /\ posts' = posts \ {p}
  /\ hook' = IF p.live THEN [hook EXCEPT ![p.tab].user = p.wallet] ELSE hook
  /\ UNCHANGED <<dbVars, cookie, session, wallet, flow, signed>>

(* The database or the network fails. *)
postFails(p) ==
  /\ posts' = posts \ {p}
  /\ UNCHANGED <<dbVars, browserVars, flow, signed>>

--------------------------------------------------------------------------------
(* useLinkSignIn: a signature, two cookies, and the redirect. *)

GoTo(t, step) == flow' = [flow EXCEPT ![t] = step]

(* The page is left: what the hook held is gone with it. *)
leave(t) == hook' = [hook EXCEPT ![t] = unseen] /\ posts' = aborted(t)

(* Without a wallet that signs, the redirect follows at once. *)
startLink(t, provider) ==
  /\ flow[t].at = "idle"
  /\ IF wallet[t] \in Signers
     THEN GoTo(t, [at |-> "sign", provider |-> provider, wallet |-> wallet[t]]) /\ UNCHANGED <<hook, posts>>
     ELSE GoTo(t, [at |-> "redirect", provider |-> provider]) /\ leave(t)
  /\ UNCHANGED <<dbVars, cookie, session, wallet, signed>>

signMessage(t) ==
  /\ flow[t].at = "sign"
  /\ cookie' = [wallet |-> flow[t].wallet, provider |-> flow[t].provider]
  /\ signed' = signed \union {<<flow[t].wallet, flow[t].provider>>}
  /\ GoTo(t, [at |-> "redirect", provider |-> flow[t].provider])
  /\ leave(t)
  /\ UNCHANGED <<dbVars, session, wallet>>

refuseToSign(t) ==
  /\ flow[t].at = "sign"
  /\ GoTo(t, idle)
  /\ UNCHANGED <<dbVars, browserVars, posts, signed>>

(* Max-Age of five minutes. *)
CookiesExpire ==
  /\ cookie # None /\ cookie' = None
  /\ UNCHANGED <<dbVars, session, wallet, hook, posts, flow, signed>>

--------------------------------------------------------------------------------
(* The signIn callback. *)

(* Mutant: the message signed does not name the provider. *)
verifyWalletSignature_AnyProvider(provider) == IF cookie = None THEN None ELSE cookie.wallet

(* The wallet that signed for this provider, or None. *)
verifyWalletSignature(provider) ==
  IF cookie = None \/ cookie.provider # provider THEN None ELSE cookie.wallet

(* The tab comes back, signed in or not, and connects its wallet again. *)
return(t) ==
  /\ GoTo(t, idle)
  /\ wallet' = [wallet EXCEPT ![t] = None]

(* handleSignIn up to its first query. *)
signIn(t, i) ==
  /\ flow[t].at = "redirect" /\ flow[t].provider = ProviderOf[i]
  /\ LET w == verifyWalletSignature(ProviderOf[i])
     IN IF w = None THEN return(t)
        ELSE GoTo(t, [at |-> "upsert", identity |-> i, wallet |-> w]) /\ UNCHANGED wallet
  /\ UNCHANGED <<dbVars, cookie, session, hook, posts, signed>>

(* The callback apps/web is deployed with: a bad signature refuses, none is   *)
(* let through, and nothing is written.                                       *)
signInUnlinked(t, i) ==
  /\ flow[t].at = "redirect" /\ flow[t].provider = ProviderOf[i]
  /\ session' = IF cookie # None /\ verifyWalletSignature(ProviderOf[i]) = None THEN session
                ELSE None
  /\ return(t)
  /\ UNCHANGED <<dbVars, cookie, hook, posts, signed>>

(* The user gives up at the provider, or a query of the callback fails. *)
signInFails(t) ==
  /\ flow[t].at \in {"redirect", "upsert", "link", "refused"}
  /\ return(t)
  /\ UNCHANGED <<dbVars, cookie, session, hook, posts, signed>>

(* A row without a handle is proposed, which the database checks against NOT  *)
(* NULL before it looks for a row of the wallet.                              *)
upsertUserRefused(t) ==
  /\ flow[t].at = "upsert" /\ notNull
  /\ GoTo(t, [flow[t] EXCEPT !.at = "refused"])
  /\ UNCHANGED <<dbVars, browserVars, posts, signed>>

upsertUser(t) ==
  /\ flow[t].at = "upsert" /\ ~notNull
  /\ LET f == flow[t]
         row == upsertUserByWallet(f.wallet, EmailOf[f.identity], None)
     IN /\ users' = [users EXCEPT ![f.wallet] = row]
        /\ GoTo(t, [at |-> "link", identity |-> f.identity, wallet |-> f.wallet, handle |-> row.handle])
  /\ UNCHANGED <<oauth, notNull, browserVars, posts, signed>>

(* An identity linked before moves to the wallet that signed last. *)
linkOAuthAccount(t) ==
  /\ flow[t].at = "link"
  /\ oauth' = [oauth EXCEPT ![flow[t].identity] = flow[t].wallet]
  /\ GoTo(t, [flow[t] EXCEPT !.at = "rename"])
  /\ UNCHANGED <<users, notNull, browserVars, posts, signed>>

(* Mutant: any handle is replaced. *)
renames_Any(f) == f.handle # None

(* Only the handle read by the upsert is looked at. *)
renames(f) == f.handle # None /\ isRandomUsername(f.handle)

(* The handle is overwritten with the name the provider shows; when somebody  *)
(* has that name the sign-in succeeds all the same.                           *)
overrideHandle(t) ==
  /\ flow[t].at = "rename"
  /\ LET f == flow[t]
         name == DisplayOf[f.identity]
     IN /\ IF renames(f) /\ name # None /\ name \notin handles \ {users[f.wallet].handle}
           THEN updateUserHandle(f.wallet, name)
           ELSE UNCHANGED users
        /\ session' = [identity |-> f.identity, wallet |-> f.wallet]
  /\ return(t)
  /\ UNCHANGED <<oauth, notNull, cookie, hook, posts, signed>>

SignOut ==
  /\ session # None /\ session' = None
  /\ UNCHANGED <<dbVars, cookie, wallet, hook, posts, flow, signed>>

AccNext ==
  \/ \E w \in Wallets : ChooseHandle(w)
  \/ \E w \in Wallets, provider \in Providers : unlinkOAuthAccount(w, provider)
  \/ \E t \in Tabs, w \in Wallets : connect(t, w)
  \/ \E t \in Tabs : disconnect(t)
  \/ \E p \in posts : getUserByWalletPubkey(p) \/ insertUser(p) \/ setUser(p) \/ postFails(p)
  \/ \E t \in Tabs, i \in Identities : startLink(t, ProviderOf[i]) \/ signIn(t, i) \/ signInUnlinked(t, i)
  \/ \E t \in Tabs : signMessage(t) \/ refuseToSign(t) \/ signInFails(t)
                     \/ upsertUser(t) \/ upsertUserRefused(t) \/ linkOAuthAccount(t) \/ overrideHandle(t)
  \/ CookiesExpire \/ SignOut \/ requireHandles

--------------------------------------------------------------------------------
(* Properties. *)

(* An OAuth identity is linked to a wallet, and a session speaks for one, only *)
(* if that wallet signed a message for the provider of the identity, whatever *)
(* tabs, cookies and callbacks cross (verifyWalletSignature, handleSignIn).   *)
LinkedBySigner ==
  /\ \A i \in Identities : oauth[i] # None => <<oauth[i], ProviderOf[i]>> \in signed
  /\ session # None => <<session.wallet, ProviderOf[session.identity]>> \in signed

(* A handle its user chose is overwritten, other than by the user, only by a  *)
(* sign-in that had read the row before the handle was chosen; reconnecting,  *)
(* first connects of other tabs and later sign-ins keep it (handleSignIn,     *)
(* POST /api/users/upsert).                                                   *)
ChosenHandleKept ==
  [][\A w \in Wallets :
       users[w] # None /\ users'[w] # users[w] =>
         \/ users[w].handle \notin Chosen \/ users'[w].handle \in {users[w].handle} \union Chosen
         \/ \E t \in Tabs : flow[t].at = "rename" /\ flow[t].wallet = w /\ flow[t].handle # users[w].handle
    ]_accVars

(* The answer to a first connect is shown by a tab only while the wallet it   *)
(* was asked for is connected there; an answer that comes after the wallet    *)
(* changed is dropped (useEnsureUser).                                        *)
OwnAnswerShown ==
  [][\A t \in Tabs : hook'[t].user \in {hook[t].user, None, wallet[t]}]_accVars
================================================================================
