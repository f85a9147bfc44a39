----------------------------- MODULE ServicesProofs ----------------------------
(******************************************************************************)
(* Theorems about Services: the accounts, notifications, subscriptions and    *)
(* briefings side by side, in every interleaving of their steps, for any      *)
(* number of tabs, wallets, jobs, batches, edits and articles.                *)
(******************************************************************************)
EXTENDS Services, TLAPS

(* A step of the services is a step, or none, of each part. *)
LEMMA Parts ==
  [Next]_vars => /\ [AccNext]_accVars /\ [NotNext]_notVars
                 /\ [BillNext]_billVars /\ [AiNext]_aiVars
  BY Zenon DEF Next, vars, AccStep, NotStep, BillStep, AiStep

--------------------------------------------------------------------------------
(* Accounts and sign-in *)

(* What the columns and records of a sign-in may hold. *)
Handle == Generated \cup Chosen \cup {None} \cup {DisplayOf[i] : i \in Identities}

Row == [email : {None, virtualEmail} \cup {EmailOf[i] : i \in Identities}, handle : Handle]

Hook == [seen : SUBSET Wallets, user : Wallets \cup {None}]

Post == [tab : Tabs, wallet : Wallets, at : {"look", "insert", "answer"}, live : BOOLEAN]

Idle == [at : {"idle"}]
Signing == [at : {"sign"}, provider : Providers, wallet : Wallets]
Away == [at : {"redirect"}, provider : Providers]
Upserting == [at : {"upsert", "refused"}, identity : Identities, wallet : Wallets]
Linking == [at : {"link", "rename"}, identity : Identities, wallet : Wallets, handle : Handle]

AccTypeOK ==
  /\ users \in [Wallets -> Row \cup {None}]
  /\ oauth \in [Identities -> Wallets \cup {None}]
  /\ notNull \in BOOLEAN
  /\ cookie \in [wallet : Wallets, provider : Providers] \cup {None}
  /\ wallet \in [Tabs -> Wallets \cup {None}]
  /\ hook \in [Tabs -> Hook]
  /\ posts \subseteq Post
  /\ flow \in [Tabs -> Idle \cup Signing \cup Away \cup Upserting \cup Linking]

(* The wallet a callback goes on with signed for the provider that called.    *)
Backed(f) == <<f.wallet, ProviderOf[f.identity]>> \in signed

AccSigned ==
  /\ LinkedBySigner
  /\ cookie # None => <<cookie.wallet, cookie.provider>> \in signed
  /\ \A t \in Tabs : flow[t] \in Upserting \cup Linking => Backed(flow[t])

(* A request that may still answer was made for the wallet of its tab, and    *)
(* the tab is on the page.                                                    *)
LiveIsOwn ==
  \A p \in posts : p.live => loaded(p.tab) /\ wallet[p.tab] = p.wallet

(* A sign-in that has upserted the row of its wallet finds it there.          *)
LinkedRow ==
  \A t \in Tabs : flow[t] \in Linking => users[flow[t].wallet] \in Row

AccInv == AccTypeOK /\ AccSigned /\ LiveIsOwn /\ LinkedRow

(* No step removes a row. *)
RowsKept == \A w \in Wallets : users[w] \in Row => users'[w] \in Row

(* Nothing is signed, linked or asked for at first. *)
LEMMA AccInitInv == AccInit => AccInv
<1> SUFFICES ASSUME AccInit PROVE AccInv
  OBVIOUS
<1>1. AccTypeOK
  BY DEF AccInit, AccTypeOK, Hook, unseen, idle, Idle
<1>2. AccSigned
  BY DEF AccInit, AccSigned, LinkedBySigner, idle, Upserting, Linking
<1>3. LiveIsOwn
  BY DEF AccInit, LiveIsOwn
<1>4. LinkedRow
  BY DEF AccInit, LinkedRow, idle, Linking
<1> QED
  BY <1>1, <1>2, <1>3, <1>4 DEF AccInv

(* The state of a sign-in is told by its step. *)
LEMMA FlowKinds ==
  ASSUME AccTypeOK, NEW t \in Tabs
  PROVE  /\ flow[t].at = "sign" => flow[t] \in Signing
         /\ flow[t].at = "redirect" => flow[t] \in Away
         /\ flow[t].at \in {"upsert", "refused"} => flow[t] \in Upserting
         /\ flow[t].at \in {"link", "rename"} => flow[t] \in Linking
  BY DEF AccTypeOK, Idle, Signing, Away, Upserting, Linking

(* The upsert fills in what a row lacks and leaves its handle. *)
LEMMA UpsertRow ==
  ASSUME AccTypeOK, NEW w \in Wallets, NEW handle \in Handle,
         NEW email \in {None, virtualEmail} \cup {EmailOf[i] : i \in Identities}
  PROVE  /\ upsertUserByWallet(w, email, handle) \in Row
         /\ users[w] # None =>
              upsertUserByWallet(w, email, handle).handle = users[w].handle
<1>1. CASE users[w] = None
  BY <1>1 DEF upsertUserByWallet, Row
<1>2. CASE users[w] # None
  <2>1. users[w] \in Row
    BY <1>2 DEF AccTypeOK
  <2>2. coalesce(users[w].email, email)
          \in {None, virtualEmail} \cup {EmailOf[i] : i \in Identities}
    BY <2>1 DEF coalesce, Row
  <2>3. upsertUserByWallet(w, email, handle)
          = [users[w] EXCEPT !.email = coalesce(users[w].email, email)]
    BY <1>2 DEF upsertUserByWallet
  <2> HIDE DEF Handle
  <2> QED
    BY <2>1, <2>2, <2>3 DEF Row
<1> QED
  BY <1>1, <1>2

(* What is aborted stays what it was, and is no longer live. *)
LEMMA AbortedPosts ==
  ASSUME AccTypeOK, NEW t \in Tabs
  PROVE  /\ aborted(t) \subseteq Post
         /\ \A p \in aborted(t) : p.live => p \in posts /\ p.tab # t
<1> SUFFICES ASSUME NEW p \in posts
             PROVE  LET q == IF p.tab = t THEN [p EXCEPT !.live = FALSE] ELSE p IN
                    q \in Post /\ (q.live => q \in posts /\ q.tab # t)
  BY DEF aborted
<1>1. p \in Post
  BY DEF AccTypeOK
<1> QED
  BY <1>1 DEF Post

(* The tables change, and nothing of the browser or of a sign-in. *)
LEMMA TablesStep ==
  ASSUME AccInv, AccNext, UNCHANGED <<browserVars, posts, flow, signed>>,
         users' \in [Wallets -> Row \cup {None}], RowsKept, notNull' \in BOOLEAN,
         \A i \in Identities : oauth'[i] \in {oauth[i], None},
         oauth' \in [Identities -> Wallets \cup {None}]
  PROVE  AccInv'
<1>1. AccTypeOK'
  BY DEF AccInv, AccTypeOK, browserVars
<1>2. AccSigned'
  BY DEF AccInv, AccSigned, LinkedBySigner, Backed, browserVars
<1>3. LiveIsOwn'
  BY DEF AccInv, LiveIsOwn, loaded, browserVars
<1>4. LinkedRow'
  BY DEF AccInv, AccTypeOK, LinkedRow, RowsKept, Linking
<1> QED
  BY <1>1, <1>2, <1>3, <1>4 DEF AccInv

(* Settings, unlinking and the migration. *)
LEMMA TableSteps ==
  ASSUME AccInv
  PROVE  /\ \A w \in Wallets : ChooseHandle(w) => AccInv'
         /\ \A w \in Wallets, provider \in Providers :
              unlinkOAuthAccount(w, provider) => AccInv'
         /\ requireHandles => AccInv'
<1>0. AccTypeOK
  BY DEF AccInv
<1>1. ASSUME NEW w \in Wallets, ChooseHandle(w) PROVE AccInv'
  <2>1. PICK h \in Chosen : updateUserHandle(w, h)
    BY <1>1 DEF ChooseHandle
  <2>2. users[w] \in Row /\ h \in Handle
    BY <1>0, <1>1 DEF ChooseHandle, AccTypeOK, Handle
  <2>3. [users[w] EXCEPT !.handle = h] \in Row
    <3> HIDE DEF Handle
    <3> QED
      BY <2>2 DEF Row
  <2>4. users' \in [Wallets -> Row \cup {None}]
    BY <1>0, <2>1, <2>3 DEF updateUserHandle, AccTypeOK
  <2>5. RowsKept
    BY <1>0, <2>1, <2>3 DEF updateUserHandle, AccTypeOK, RowsKept
  <2> QED
    BY <1>0, <1>1, <2>4, <2>5, TablesStep DEF ChooseHandle, AccTypeOK, AccNext
<1>2. ASSUME NEW w \in Wallets, NEW provider \in Providers, unlinkOAuthAccount(w, provider)
      PROVE  AccInv'
  <2>1. /\ \A i \in Identities : oauth'[i] \in {oauth[i], None}
        /\ oauth' \in [Identities -> Wallets \cup {None}]
        /\ UNCHANGED <<users, notNull, browserVars, posts, flow, signed>>
    BY <1>0, <1>2 DEF unlinkOAuthAccount, AccTypeOK
  <2> QED
    BY <1>0, <1>2, <2>1, TablesStep DEF AccTypeOK, AccNext, RowsKept
<1>3. ASSUME requireHandles PROVE AccInv'
  <2>1. PICK given \in [{w \in Wallets : users[w] # None /\ users[w].handle = None}
                          -> Generated \ handles] :
          users' = [w \in Wallets |-> IF w \in DOMAIN given
                                      THEN [users[w] EXCEPT !.handle = given[w]]
                                      ELSE users[w]]
    BY <1>3 DEF requireHandles
  <2>2. ASSUME NEW w \in Wallets
        PROVE  users'[w] \in Row \cup {None} /\ (users[w] \in Row => users'[w] \in Row)
    <3>1. CASE w \in DOMAIN given
      <4>1. users[w] \in Row /\ given[w] \in Handle
        BY <1>0, <3>1 DEF AccTypeOK, Handle
      <4>2. users'[w] = [users[w] EXCEPT !.handle = given[w]]
        BY <2>1, <3>1
      <4> HIDE DEF Handle
      <4> QED
        BY <4>1, <4>2 DEF Row
    <3>2. CASE w \notin DOMAIN given
      BY <1>0, <2>1, <3>2 DEF AccTypeOK
    <3> QED
      BY <3>1, <3>2
  <2>3. users' \in [Wallets -> Row \cup {None}] /\ RowsKept
    BY <2>1, <2>2 DEF RowsKept
  <2> QED
    BY <1>0, <1>3, <2>3, TablesStep DEF requireHandles, AccTypeOK, AccNext
<1> QED
  BY <1>1, <1>2, <1>3

(* A wallet connects or leaves: what was asked for another is aborted.        *)
LEMMA ConnectSteps ==
  ASSUME AccInv, NEW t \in Tabs
  PROVE  /\ \A w \in Wallets : connect(t, w) => AccInv'
         /\ disconnect(t) => AccInv'
<1>0. AccTypeOK /\ AccSigned /\ LiveIsOwn /\ LinkedRow
  BY DEF AccInv
<1>1. aborted(t) \subseteq Post /\ \A p \in aborted(t) : p.live => p \in posts /\ p.tab # t
  BY <1>0, AbortedPosts
<1>2. ASSUME NEW w \in Wallets, connect(t, w) PROVE AccInv'
  <2>1. UNCHANGED <<users, oauth, notNull, cookie, session, flow, signed>> /\ loaded(t)
    BY <1>2 DEF connect, dbVars
  <2>2. wallet' = [wallet EXCEPT ![t] = w]
    BY <1>2 DEF connect
  <2> DEFINE new == [tab |-> t, wallet |-> w, at |-> "look", live |-> TRUE]
  <2>3. posts' \subseteq aborted(t) \cup {new}
    BY <1>2 DEF connect
  <2>4. new \in Post
    BY DEF Post
  <2>5. hook' \in [Tabs -> Hook]
    BY <1>0, <1>2 DEF connect, AccTypeOK, Hook
  <2>6. AccTypeOK'
    <3> HIDE DEF new
    <3> QED
      BY <1>0, <1>1, <2>1, <2>2, <2>3, <2>4, <2>5 DEF AccTypeOK
  <2>7. AccSigned'
    BY <1>0, <2>1 DEF AccSigned, LinkedBySigner, Backed
  <2>8. LiveIsOwn'
    <3> SUFFICES ASSUME NEW p \in posts', p.live
                 PROVE  loaded(p.tab)' /\ wallet'[p.tab] = p.wallet
      BY DEF LiveIsOwn
    <3>1. CASE p = new
      BY <1>0, <2>1, <2>2, <3>1 DEF AccTypeOK, loaded
    <3>2. CASE p \in posts /\ p.tab # t
      BY <1>0, <2>1, <2>2, <3>2 DEF AccTypeOK, LiveIsOwn, loaded, Post
    <3> QED
      BY <1>1, <2>3, <3>1, <3>2
  <2>9. LinkedRow'
    BY <1>0, <2>1 DEF LinkedRow
  <2> QED
    BY <2>6, <2>7, <2>8, <2>9 DEF AccInv
<1>3. ASSUME disconnect(t) PROVE AccInv'
  <2>1. UNCHANGED <<users, oauth, notNull, cookie, session, flow, signed>>
    BY <1>3 DEF disconnect, dbVars
  <2>2. wallet' = [wallet EXCEPT ![t] = None] /\ posts' = aborted(t)
    BY <1>3 DEF disconnect
  <2>3. hook' \in [Tabs -> Hook]
    BY <1>0, <1>3 DEF disconnect, AccTypeOK, Hook
  <2>4. AccTypeOK'
    BY <1>0, <1>1, <2>1, <2>2, <2>3 DEF AccTypeOK
  <2>5. AccSigned'
    BY <1>0, <2>1 DEF AccSigned, LinkedBySigner, Backed
  <2>6. LiveIsOwn'
    BY <1>0, <1>1, <2>1, <2>2 DEF AccTypeOK, LiveIsOwn, loaded, Post
  <2>7. LinkedRow'
    BY <1>0, <2>1 DEF LinkedRow
  <2> QED
    BY <2>4, <2>5, <2>6, <2>7 DEF AccInv
<1> QED
  BY <1>2, <1>3

(* The steps of a first connect on the server, and its answer. *)
LEMMA PostSteps ==
  ASSUME AccInv, NEW p \in posts,
         getUserByWalletPubkey(p) \/ insertUser(p) \/ setUser(p) \/ postFails(p)
  PROVE  AccInv'
<1>0. AccTypeOK /\ AccSigned /\ LiveIsOwn /\ LinkedRow
  BY DEF AccInv
<1>1. p \in Post
  BY <1>0 DEF AccTypeOK
<1>2. UNCHANGED <<oauth, notNull, cookie, session, wallet, flow, signed>>
  BY DEF getUserByWalletPubkey, insertUser, setUser, postFails, dbVars, browserVars
<1>3. hook' \in [Tabs -> Hook]
  BY <1>0, <1>1 DEF getUserByWalletPubkey, insertUser, setUser, postFails, browserVars,
     AccTypeOK, Hook, Post
<1>4. /\ posts' \subseteq Post
      /\ \A q \in posts' : q.live =>
           \E r \in posts : r.live /\ r.tab = q.tab /\ r.wallet = q.wallet
  <2>1. ASSUME NEW step \in {"look", "insert", "answer"}
        PROVE  /\ [p EXCEPT !.at = step] \in Post
               /\ [p EXCEPT !.at = step].live = p.live
               /\ [p EXCEPT !.at = step].tab = p.tab
               /\ [p EXCEPT !.at = step].wallet = p.wallet
    BY <1>1 DEF Post
  <2>2. posts' \subseteq posts \/ \E step \in {"look", "insert", "answer"} : becomes(p, step)
    BY DEF getUserByWalletPubkey, insertUser, setUser, postFails
  <2>3. CASE posts' \subseteq posts
    BY <1>0, <2>3 DEF AccTypeOK
  <2>4. ASSUME NEW step \in {"look", "insert", "answer"}, becomes(p, step)
        PROVE  <1>4!:
    <3> DEFINE q == [p EXCEPT !.at = step]
    <3>1. q \in Post /\ q.live = p.live /\ q.tab = p.tab /\ q.wallet = p.wallet
      BY <2>1
    <3>2. posts' = (posts \ {p}) \cup {q}
      BY <2>4 DEF becomes
    <3> HIDE DEF q
    <3> QED
      BY <1>0, <3>1, <3>2 DEF AccTypeOK
  <2> QED
    BY <2>2, <2>3, <2>4
<1>5. users' \in [Wallets -> Row \cup {None}] /\ RowsKept
  <2>1. CASE users' = users
    BY <1>0, <2>1 DEF AccTypeOK, RowsKept
  <2>2. ASSUME NEW h \in Generated,
               users' = [users EXCEPT ![p.wallet] = upsertUserByWallet(p.wallet, virtualEmail, h)]
        PROVE  <1>5!:
    <3>1. p.wallet \in Wallets /\ h \in Handle
      BY <1>1 DEF Post, Handle
    <3>2. upsertUserByWallet(p.wallet, virtualEmail, h) \in Row
      BY <1>0, <3>1, UpsertRow
    <3> QED
      BY <1>0, <2>2, <3>1, <3>2 DEF AccTypeOK, RowsKept
  <2> QED
    BY <2>1, <2>2 DEF getUserByWalletPubkey, insertUser, setUser, postFails, dbVars
<1>6. AccTypeOK'
  BY <1>0, <1>2, <1>3, <1>4, <1>5 DEF AccTypeOK
<1>7. AccSigned'
  BY <1>0, <1>2 DEF AccSigned, LinkedBySigner, Backed
<1>8. LiveIsOwn'
  BY <1>0, <1>2, <1>4 DEF LiveIsOwn, loaded
<1>9. LinkedRow'
  BY <1>0, <1>2, <1>5 DEF LinkedRow, RowsKept, AccTypeOK, Linking
<1> QED
  BY <1>6, <1>7, <1>8, <1>9 DEF AccInv

(* A sign-in goes on: only its tab changes, and with the wallet's backing.    *)
LEMMA FlowGoes ==
  ASSUME AccTypeOK, AccSigned, NEW t \in Tabs,
         NEW step \in Idle \cup Signing \cup Away \cup Upserting \cup Linking,
         GoTo(t, step), step \in Upserting \cup Linking => Backed(step),
         signed \subseteq signed'
  PROVE  /\ flow' \in [Tabs -> Idle \cup Signing \cup Away \cup Upserting \cup Linking]
         /\ \A u \in Tabs : flow'[u] \in Upserting \cup Linking => Backed(flow[u])'
<1> DEFINE Flow == Idle \cup Signing \cup Away \cup Upserting \cup Linking
           Carried == Upserting \cup Linking
<1>1. flow \in [Tabs -> Flow] /\ flow' = [flow EXCEPT ![t] = step]
  BY DEF AccTypeOK, GoTo
<1>2. \A u \in Tabs : flow[u] \in Carried => Backed(flow[u])
  BY DEF AccSigned
<1>3. step \in Carried => Backed(step)
  OBVIOUS
<1>4. step \in Flow
  OBVIOUS
<1> HIDE DEF Flow, Carried
<1>5. flow' \in [Tabs -> Flow]
  BY <1>1, <1>4
<1>6. ASSUME NEW u \in Tabs, flow'[u] \in Carried PROVE Backed(flow[u])'
  BY <1>1, <1>2, <1>3, <1>6 DEF Backed
<1> QED
  BY <1>5, <1>6 DEF Flow, Carried

(* A step of the sign-in callback, where the tab is away from the page.       *)
LEMMA CallbackLive ==
  ASSUME AccTypeOK, LiveIsOwn, NEW t \in Tabs, NEW step, GoTo(t, step),
         flow[t].at \notin {"idle", "sign"}, UNCHANGED posts,
         wallet' = wallet \/ wallet' = [wallet EXCEPT ![t] = None]
  PROVE  LiveIsOwn' /\ wallet' \in [Tabs -> Wallets \cup {None}]
<1>1. ASSUME NEW p \in posts, p.live PROVE p.tab \in Tabs /\ p.tab # t
  BY <1>1 DEF AccTypeOK, LiveIsOwn, loaded, Post
<1>2. LiveIsOwn'
  BY <1>1 DEF AccTypeOK, LiveIsOwn, loaded, GoTo
<1> QED
  BY <1>2 DEF AccTypeOK

(* The tab leaves the page or stays on it. *)
LEMMA LinkSteps ==
  ASSUME AccInv, NEW t \in Tabs
  PROVE  /\ \A provider \in Providers : startLink(t, provider) => AccInv'
         /\ signMessage(t) => AccInv'
         /\ refuseToSign(t) => AccInv'
<1>0. AccTypeOK /\ AccSigned /\ LiveIsOwn /\ LinkedRow
  BY DEF AccInv
<1>1. aborted(t) \subseteq Post /\ \A p \in aborted(t) : p.live => p \in posts /\ p.tab # t
  BY <1>0, AbortedPosts
<1> DEFINE Step == Idle \cup Signing \cup Away
<1>2. ASSUME NEW step \in Step, GoTo(t, step), UNCHANGED <<users, oauth, notNull, session, wallet>>,
             leave(t) \/ (UNCHANGED <<hook, posts>> /\ step.at \in {"idle", "sign"}
                            /\ flow[t].at \in {"idle", "sign"}),
             signed \subseteq signed',
             cookie' \in [wallet : Wallets, provider : Providers] \cup {None},
             cookie' # None => <<cookie'.wallet, cookie'.provider>> \in signed'
      PROVE  AccInv'
  <2>1. step \notin Upserting \cup Linking
    BY DEF Idle, Signing, Away, Upserting, Linking
  <2>2. /\ flow' \in [Tabs -> Idle \cup Signing \cup Away \cup Upserting \cup Linking]
        /\ \A u \in Tabs : flow'[u] \in Upserting \cup Linking => Backed(flow[u])'
    BY <1>0, <1>2, <2>1, FlowGoes
  <2>3. hook' \in [Tabs -> Hook] /\ posts' \subseteq Post
    BY <1>0, <1>1, <1>2 DEF AccTypeOK, leave, unseen, Hook
  <2>4. AccTypeOK'
    BY <1>0, <1>2, <2>2, <2>3 DEF AccTypeOK
  <2>5. AccSigned'
    BY <1>0, <1>2, <2>2 DEF AccSigned, LinkedBySigner
  <2>6. flow' = [flow EXCEPT ![t] = step] /\ wallet' = wallet
    BY <1>2 DEF GoTo
  <2>7. LiveIsOwn'
    <3>1. CASE leave(t)
      BY <1>0, <1>1, <2>6, <3>1 DEF leave, LiveIsOwn, loaded, AccTypeOK, Post
    <3>2. CASE UNCHANGED posts /\ step.at \in {"idle", "sign"}
      BY <1>0, <2>6, <3>2 DEF LiveIsOwn, loaded, AccTypeOK, Post
    <3> QED
      BY <1>2, <3>1, <3>2
  <2>8. LinkedRow'
    BY <1>0, <1>2, <2>1, <2>6 DEF LinkedRow, AccTypeOK
  <2> QED
    BY <2>4, <2>5, <2>7, <2>8 DEF AccInv
<1>3. idle \in Step /\ idle.at = "idle"
  BY DEF Idle, idle
<1>4. cookie # None => <<cookie.wallet, cookie.provider>> \in signed
  BY <1>0 DEF AccSigned
<1>5. cookie \in [wallet : Wallets, provider : Providers] \cup {None}
  BY <1>0 DEF AccTypeOK
<1>6. ASSUME NEW provider \in Providers, startLink(t, provider) PROVE AccInv'
  <2>1. UNCHANGED <<users, oauth, notNull, cookie, session, wallet, signed>> /\ flow[t].at = "idle"
    BY <1>6 DEF startLink, dbVars
  <2>2. CASE wallet[t] \in Signers
    <3> DEFINE step == [at |-> "sign", provider |-> provider, wallet |-> wallet[t]]
    <3>1. GoTo(t, step) /\ UNCHANGED <<hook, posts>>
      BY <1>6, <2>2 DEF startLink
    <3>2. step \in Step /\ step.at = "sign"
      BY <2>2, AccountsAssumption DEF Signing
    <3> HIDE DEF step, Step
    <3> QED
      BY <1>2, <1>4, <1>5, <2>1, <3>1, <3>2
  <2>3. CASE wallet[t] \notin Signers
    <3> DEFINE step == [at |-> "redirect", provider |-> provider]
    <3>1. GoTo(t, step) /\ leave(t)
      BY <1>6, <2>3 DEF startLink
    <3>2. step \in Step
      BY DEF Away
    <3> HIDE DEF step, Step
    <3> QED
      BY <1>2, <1>4, <1>5, <2>1, <3>1, <3>2
  <2> QED
    BY <2>2, <2>3
<1>7. ASSUME signMessage(t) PROVE AccInv'
  <2>1. flow[t] \in Signing
    BY <1>0, <1>7, FlowKinds DEF signMessage
  <2> DEFINE step == [at |-> "redirect", provider |-> flow[t].provider]
  <2>2. GoTo(t, step) /\ leave(t) /\ UNCHANGED <<users, oauth, notNull, session, wallet>>
    BY <1>7 DEF signMessage, dbVars
  <2>3. step \in Step
    BY <2>1 DEF Signing, Away
  <2>4. /\ cookie' = [wallet |-> flow[t].wallet, provider |-> flow[t].provider]
        /\ signed' = signed \cup {<<flow[t].wallet, flow[t].provider>>}
    BY <1>7 DEF signMessage
  <2>5. /\ cookie' \in [wallet : Wallets, provider : Providers] \cup {None}
        /\ <<cookie'.wallet, cookie'.provider>> \in signed'
    BY <2>1, <2>4 DEF Signing
  <2>6. signed \subseteq signed'
    BY <2>4
  <2> HIDE DEF step, Step
  <2> QED
    BY <1>2, <2>2, <2>3, <2>5, <2>6
<1>8. ASSUME refuseToSign(t) PROVE AccInv'
  <2>1. /\ flow[t].at = "sign" /\ GoTo(t, idle)
        /\ UNCHANGED <<users, oauth, notNull, cookie, session, wallet, hook, posts, signed>>
    BY <1>8 DEF refuseToSign, dbVars, browserVars
  <2> QED
    BY <1>2, <1>3, <1>4, <1>5, <2>1
<1> QED
  BY <1>6, <1>7, <1>8

(* The callback up to the upsert, a sign-in that fails, and the other         *)
(* deployment of the callback.                                                *)
LEMMA CallbackSteps ==
  ASSUME AccInv, NEW t \in Tabs
  PROVE  /\ \A i \in Identities : signIn(t, i) => AccInv'
         /\ \A i \in Identities : signInUnlinked(t, i) => AccInv'
         /\ signInFails(t) => AccInv'
         /\ upsertUserRefused(t) => AccInv'
<1>0. AccTypeOK /\ AccSigned /\ LiveIsOwn /\ LinkedRow
  BY DEF AccInv
<1>1. ASSUME NEW step \in Idle \cup Upserting, GoTo(t, step),
             step \in Upserting => Backed(step),
             UNCHANGED <<users, oauth, notNull, cookie, hook, posts, signed>>,
             flow[t].at \notin {"idle", "sign"},
             session' \in {session, None},
             wallet' = wallet \/ wallet' = [wallet EXCEPT ![t] = None]
      PROVE  AccInv'
  <2>1. step \notin Linking
    BY DEF Idle, Upserting, Linking
  <2>2. /\ flow' \in [Tabs -> Idle \cup Signing \cup Away \cup Upserting \cup Linking]
        /\ \A u \in Tabs : flow'[u] \in Upserting \cup Linking => Backed(flow[u])'
    BY <1>0, <1>1, <2>1, FlowGoes
  <2>3. LiveIsOwn' /\ wallet' \in [Tabs -> Wallets \cup {None}]
    BY <1>0, <1>1, CallbackLive
  <2>4. AccTypeOK'
    BY <1>0, <1>1, <2>2, <2>3 DEF AccTypeOK
  <2>5. AccSigned'
    BY <1>0, <1>1, <2>2 DEF AccSigned, LinkedBySigner
  <2>6. LinkedRow'
    BY <1>0, <1>1, <2>1 DEF LinkedRow, AccTypeOK, GoTo
  <2> QED
    BY <2>3, <2>4, <2>5, <2>6 DEF AccInv
<1>2. idle \in Idle \cup Upserting /\ idle \notin Upserting
  BY DEF idle, Idle, Upserting
<1>3. ASSUME NEW i \in Identities, signIn(t, i) PROVE AccInv'
  <2>1. /\ UNCHANGED <<users, oauth, notNull, cookie, session, hook, posts, signed>>
        /\ flow[t].at \notin {"idle", "sign"}
    BY <1>3 DEF signIn, dbVars
  <2> DEFINE w == verifyWalletSignature(ProviderOf[i])
             step == [at |-> "upsert", identity |-> i, wallet |-> w]
  <2>2. CASE w = None
    <3>1. GoTo(t, idle) /\ wallet' = [wallet EXCEPT ![t] = None]
      BY <1>3, <2>2 DEF signIn, return
    <3> HIDE DEF w, step
    <3> QED
      BY <1>1, <1>2, <2>1, <3>1
  <2>3. CASE w # None
    <3>1. GoTo(t, step) /\ wallet' = wallet
      BY <1>3, <2>3 DEF signIn
    <3>2. cookie # None /\ cookie.provider = ProviderOf[i] /\ w = cookie.wallet
      BY <2>3 DEF verifyWalletSignature
    <3>3. w \in Wallets /\ <<w, ProviderOf[i]>> \in signed
      BY <1>0, <3>2 DEF AccTypeOK, AccSigned
    <3> HIDE DEF w
    <3>4. step \in Upserting /\ Backed(step)
      BY <3>3 DEF Upserting, Backed
    <3> HIDE DEF step
    <3> QED
      BY <1>1, <2>1, <3>1, <3>4
  <2> QED
    BY <2>2, <2>3
<1>4. ASSUME NEW i \in Identities, signInUnlinked(t, i) PROVE AccInv'
  <2>1. /\ UNCHANGED <<users, oauth, notNull, cookie, hook, posts, signed>>
        /\ flow[t].at \notin {"idle", "sign"}
        /\ GoTo(t, idle) /\ wallet' = [wallet EXCEPT ![t] = None]
        /\ session' \in {session, None}
    BY <1>4 DEF signInUnlinked, dbVars, return
  <2> QED
    BY <1>1, <1>2, <2>1
<1>5. ASSUME signInFails(t) PROVE AccInv'
  <2>1. /\ UNCHANGED <<users, oauth, notNull, cookie, session, hook, posts, signed>>
        /\ flow[t].at \notin {"idle", "sign"}
        /\ GoTo(t, idle) /\ wallet' = [wallet EXCEPT ![t] = None]
    BY <1>5 DEF signInFails, dbVars, return
  <2> QED
    BY <1>1, <1>2, <2>1
<1>6. ASSUME upsertUserRefused(t) PROVE AccInv'
  <2>1. /\ UNCHANGED <<users, oauth, notNull, cookie, session, wallet, hook, posts, signed>>
        /\ flow[t].at = "upsert"
    BY <1>6 DEF upsertUserRefused, dbVars, browserVars
  <2>2. flow[t] \in Upserting
    BY <1>0, <2>1, FlowKinds
  <2> DEFINE step == [flow[t] EXCEPT !.at = "refused"]
  <2>3. GoTo(t, step)
    BY <1>6 DEF upsertUserRefused
  <2>4. Backed(flow[t])
    BY <1>0, <2>2 DEF AccSigned
  <2>5. step \in Upserting /\ Backed(step)
    BY <2>2, <2>4 DEF Upserting, Backed
  <2> HIDE DEF step
  <2> QED
    BY <1>1, <2>1, <2>3, <2>5
<1> QED
  BY <1>3, <1>4, <1>5, <1>6

(* The callback from the upsert to the session. *)
LEMMA LinkingSteps ==
  ASSUME AccInv, NEW t \in Tabs
  PROVE  /\ upsertUser(t) => AccInv'
         /\ linkOAuthAccount(t) => AccInv'
         /\ overrideHandle(t) => AccInv'
<1>0. AccTypeOK /\ AccSigned /\ LiveIsOwn /\ LinkedRow
  BY DEF AccInv
<1>1. ASSUME NEW step \in Idle \cup Linking, GoTo(t, step),
             step \in Linking => Backed(step) /\ users'[step.wallet] \in Row,
             UNCHANGED <<notNull, cookie, hook, posts, signed>>,
             flow[t].at \notin {"idle", "sign"},
             users' \in [Wallets -> Row \cup {None}], RowsKept,
             oauth' \in [Identities -> Wallets \cup {None}], LinkedBySigner',
             wallet' = wallet \/ wallet' = [wallet EXCEPT ![t] = None]
      PROVE  AccInv'
  <2>1. step \notin Upserting
    BY DEF Idle, Upserting, Linking
  <2>2. /\ flow' \in [Tabs -> Idle \cup Signing \cup Away \cup Upserting \cup Linking]
        /\ \A u \in Tabs : flow'[u] \in Upserting \cup Linking => Backed(flow[u])'
    BY <1>0, <1>1, <2>1, FlowGoes
  <2>3. LiveIsOwn' /\ wallet' \in [Tabs -> Wallets \cup {None}]
    BY <1>0, <1>1, CallbackLive
  <2>4. AccTypeOK'
    BY <1>0, <1>1, <2>2, <2>3 DEF AccTypeOK
  <2>5. AccSigned'
    BY <1>0, <1>1, <2>2 DEF AccSigned
  <2>6. ASSUME NEW u \in Tabs, flow'[u] \in Linking PROVE users'[flow'[u].wallet] \in Row
    <3>1. CASE u = t
      BY <1>0, <1>1, <2>6, <3>1 DEF AccTypeOK, GoTo
    <3>2. CASE u # t
      <4>1. flow'[u] = flow[u]
        BY <1>0, <1>1, <3>2 DEF AccTypeOK, GoTo
      <4>2. flow[u].wallet \in Wallets /\ users[flow[u].wallet] \in Row
        <5>1. flow[u] \in Linking
          BY <2>6, <4>1
        <5>2. flow[u].wallet \in Wallets
          BY <5>1 DEF Linking
        <5> QED
          BY <1>0, <5>1, <5>2 DEF LinkedRow
      <4> QED
        BY <1>1, <4>1, <4>2 DEF RowsKept
    <3> QED
      BY <3>1, <3>2
  <2>7. LinkedRow'
    BY <2>6 DEF LinkedRow
  <2> QED
    BY <2>3, <2>4, <2>5, <2>7 DEF AccInv
<1>2. idle \in Idle \cup Linking /\ idle \notin Linking
  BY DEF idle, Idle, Linking
<1>3. ASSUME upsertUser(t) PROVE AccInv'
  <2> DEFINE f == flow[t]
             row == upsertUserByWallet(f.wallet, EmailOf[f.identity], None)
             step == [at |-> "link", identity |-> f.identity, wallet |-> f.wallet,
                      handle |-> row.handle]
  <2>1. f \in Upserting
    BY <1>0, <1>3, FlowKinds DEF upsertUser
  <2>2. f.wallet \in Wallets /\ f.identity \in Identities /\ None \in Handle
    BY <2>1 DEF Upserting, Handle
  <2>3. row \in Row
    BY <1>0, <2>2, UpsertRow
  <2>4. GoTo(t, step) /\ users' = [users EXCEPT ![f.wallet] = row]
    BY <1>3 DEF upsertUser
  <2>5. /\ UNCHANGED <<oauth, notNull, cookie, session, wallet, hook, posts, signed>>
        /\ flow[t].at \notin {"idle", "sign"}
    BY <1>3 DEF upsertUser, browserVars
  <2>6. Backed(f)
    BY <1>0, <2>1 DEF AccSigned
  <2>7. step \in Linking /\ Backed(step) /\ step.wallet = f.wallet
    <3> HIDE DEF row, Handle, f
    <3>1. row.handle \in Handle
      BY <2>3 DEF Row
    <3> QED
      BY <2>2, <2>6, <3>1 DEF Linking, Backed
  <2> HIDE DEF row, step, f
  <2>8. users' \in [Wallets -> Row \cup {None}] /\ users'[f.wallet] = row /\ RowsKept
    BY <1>0, <2>2, <2>3, <2>4 DEF AccTypeOK, RowsKept
  <2>9. LinkedBySigner' /\ oauth' \in [Identities -> Wallets \cup {None}]
    BY <1>0, <2>5 DEF AccSigned, LinkedBySigner, AccTypeOK
  <2> QED
    BY <1>1, <2>3, <2>4, <2>5, <2>7, <2>8, <2>9
<1>4. ASSUME linkOAuthAccount(t) PROVE AccInv'
  <2> DEFINE f == flow[t]
             step == [f EXCEPT !.at = "rename"]
  <2>1. f \in Linking /\ Backed(f) /\ users[f.wallet] \in Row
    <3>1. f \in Linking
      BY <1>0, <1>4, FlowKinds DEF linkOAuthAccount
    <3> QED
      BY <1>0, <3>1 DEF AccSigned, LinkedRow
  <2>2. f.wallet \in Wallets /\ f.identity \in Identities
    BY <2>1 DEF Linking
  <2>3. GoTo(t, step) /\ oauth' = [oauth EXCEPT ![f.identity] = f.wallet]
    BY <1>4 DEF linkOAuthAccount
  <2>4. /\ UNCHANGED <<users, notNull, cookie, session, wallet, hook, posts, signed>>
        /\ flow[t].at \notin {"idle", "sign"}
    BY <1>4 DEF linkOAuthAccount, browserVars
  <2>5. step \in Linking /\ Backed(step) /\ step.wallet = f.wallet
    <3> HIDE DEF f, Handle
    <3> QED
      BY <2>1 DEF Linking, Backed
  <2> HIDE DEF step, f
  <2>6. users' \in [Wallets -> Row \cup {None}] /\ RowsKept
    BY <1>0, <2>4 DEF AccTypeOK, RowsKept
  <2>7. oauth' \in [Identities -> Wallets \cup {None}]
    BY <1>0, <2>2, <2>3 DEF AccTypeOK
  <2>8. LinkedBySigner'
    BY <1>0, <2>1, <2>2, <2>3, <2>4 DEF AccSigned, LinkedBySigner, Backed, AccTypeOK
  <2> QED
    BY <1>1, <2>1, <2>3, <2>4, <2>5, <2>6, <2>7, <2>8
<1>5. ASSUME overrideHandle(t) PROVE AccInv'
  <2> DEFINE f == flow[t]
             name == DisplayOf[f.identity]
  <2>1. f \in Linking /\ Backed(f) /\ users[f.wallet] \in Row
    <3>1. f \in Linking
      BY <1>0, <1>5, FlowKinds DEF overrideHandle
    <3> QED
      BY <1>0, <3>1 DEF AccSigned, LinkedRow
  <2>2. f.wallet \in Wallets /\ f.identity \in Identities
    BY <2>1 DEF Linking
  <2>3. /\ UNCHANGED <<oauth, notNull, cookie, hook, posts, signed>>
        /\ flow[t].at \notin {"idle", "sign"}
        /\ GoTo(t, idle) /\ wallet' = [wallet EXCEPT ![t] = None]
        /\ session' = [identity |-> f.identity, wallet |-> f.wallet]
    BY <1>5 DEF overrideHandle, return
  <2>4. name \in Handle
    BY <2>2 DEF Handle
  <2>5. users' = users \/ users' = [users EXCEPT ![f.wallet].handle = name]
    BY <1>5 DEF overrideHandle, updateUserHandle
  <2> HIDE DEF f, name
  <2>6. [users[f.wallet] EXCEPT !.handle = name] \in Row
    <3> HIDE DEF Handle
    <3> QED
      BY <2>1, <2>4 DEF Row
  <2>7. users' \in [Wallets -> Row \cup {None}] /\ RowsKept
    BY <1>0, <2>2, <2>5, <2>6 DEF AccTypeOK, RowsKept
  <2>8. LinkedBySigner'
    BY <1>0, <2>1, <2>2, <2>3 DEF AccSigned, LinkedBySigner, Backed
  <2>9. oauth' \in [Identities -> Wallets \cup {None}]
    BY <1>0, <2>3 DEF AccTypeOK
  <2> QED
    BY <1>1, <1>2, <2>3, <2>7, <2>8, <2>9
<1> QED
  BY <1>3, <1>4, <1>5

(* The cookies expire, and the user signs out. *)
LEMMA ForgetSteps ==
  ASSUME AccInv, CookiesExpire \/ SignOut
  PROVE  AccInv'
<1>0. AccTypeOK /\ AccSigned /\ LiveIsOwn /\ LinkedRow
  BY DEF AccInv
<1>1. /\ UNCHANGED <<users, oauth, notNull, wallet, hook, posts, flow, signed>>
      /\ cookie' \in {cookie, None} /\ session' \in {session, None}
  BY DEF CookiesExpire, SignOut, dbVars
<1>2. AccTypeOK'
  BY <1>0, <1>1 DEF AccTypeOK
<1>3. AccSigned'
  BY <1>0, <1>1 DEF AccSigned, LinkedBySigner, Backed
<1>4. LiveIsOwn' /\ LinkedRow'
  BY <1>0, <1>1 DEF LiveIsOwn, LinkedRow, loaded
<1> QED
  BY <1>2, <1>3, <1>4 DEF AccInv

(* Every step of the accounts keeps the invariant. *)
LEMMA AccNextInv ==
  ASSUME AccInv, [AccNext]_accVars
  PROVE  AccInv'
<1>1. CASE UNCHANGED accVars
  BY <1>1 DEF AccInv, AccTypeOK, AccSigned, LinkedBySigner, Backed, LiveIsOwn, loaded,
     LinkedRow, accVars, dbVars, browserVars
<1>2. CASE AccNext
  <2>1. \A i \in Identities : ProviderOf[i] \in Providers
    BY AccountsAssumption
  <2>2. CASE \E w \in Wallets : ChooseHandle(w)
    BY <2>2, TableSteps
  <2>3. CASE \E w \in Wallets, provider \in Providers : unlinkOAuthAccount(w, provider)
    BY <2>3, TableSteps
  <2>4. CASE \E t \in Tabs, w \in Wallets : connect(t, w)
    BY <2>4, ConnectSteps
  <2>5. CASE \E t \in Tabs : disconnect(t)
    BY <2>5, ConnectSteps
  <2>6. CASE \E p \in posts : getUserByWalletPubkey(p) \/ insertUser(p) \/ setUser(p) \/ postFails(p)
    BY <2>6, PostSteps
  <2>7. CASE \E t \in Tabs, i \in Identities :
               startLink(t, ProviderOf[i]) \/ signIn(t, i) \/ signInUnlinked(t, i)
    BY <2>1, <2>7, LinkSteps, CallbackSteps
  <2>8. CASE \E t \in Tabs : signMessage(t) \/ refuseToSign(t) \/ signInFails(t)
                              \/ upsertUser(t) \/ upsertUserRefused(t)
                              \/ linkOAuthAccount(t) \/ overrideHandle(t)
    BY <2>8, LinkSteps, CallbackSteps, LinkingSteps
  <2>9. CASE CookiesExpire \/ SignOut \/ requireHandles
    BY <2>9, ForgetSteps, TableSteps
  <2> QED
    BY <1>2, <2>2, <2>3, <2>4, <2>5, <2>6, <2>7, <2>8, <2>9 DEF AccNext
<1> QED
  BY <1>1, <1>2

LEMMA AccountsInvariant == Spec => []AccInv
<1>1. Init => AccInv
  BY AccInitInv DEF Init
<1>2. AccInv /\ [Next]_vars => AccInv'
  BY Parts, AccNextInv
<1> QED
  BY <1>1, <1>2, PTL DEF Spec

(* An identity is linked to a wallet, and a session speaks for one, only if   *)
(* that wallet signed for the provider of the identity, with any number of    *)
(* tabs, wallets and identities (LinkedBySigner; verifyWalletSignature,       *)
(* handleSignIn).                                                             *)
THEOREM LinkedBySignerCorrect == Spec => []LinkedBySigner
<1>1. AccInv => LinkedBySigner
  BY DEF AccInv, AccSigned
<1> QED
  BY <1>1, AccountsInvariant, PTL

(* What a tab may newly show is the wallet connected there.                   *)
LEMMA AnswerStep ==
  ASSUME AccInv, [AccNext]_accVars
  PROVE  \A t \in Tabs : hook'[t].user \in {hook[t].user, None, wallet[t]}
<1>0. AccTypeOK /\ LiveIsOwn
  BY DEF AccInv
<1>1. CASE UNCHANGED hook
  BY <1>1
<1>2. ASSUME NEW t \in Tabs, NEW w \in Wallets, connect(t, w)
      PROVE  \A u \in Tabs : hook'[u].user \in {hook[u].user, None, wallet[u]}
  BY <1>0, <1>2 DEF connect, AccTypeOK, Hook
<1>3. ASSUME NEW t \in Tabs, disconnect(t)
      PROVE  \A u \in Tabs : hook'[u].user \in {hook[u].user, None, wallet[u]}
  BY <1>0, <1>3 DEF disconnect, AccTypeOK, Hook
<1>4. ASSUME NEW t \in Tabs, leave(t)
      PROVE  \A u \in Tabs : hook'[u].user \in {hook[u].user, None, wallet[u]}
  BY <1>0, <1>4 DEF leave, unseen, AccTypeOK, Hook
<1>5. ASSUME NEW p \in posts, setUser(p)
      PROVE  \A u \in Tabs : hook'[u].user \in {hook[u].user, None, wallet[u]}
  <2>1. p \in Post
    BY <1>0 DEF AccTypeOK
  <2>2. CASE p.live
    <3>1. wallet[p.tab] = p.wallet
      BY <1>0, <2>2 DEF LiveIsOwn
    <3>2. hook' = [hook EXCEPT ![p.tab].user = p.wallet]
      BY <1>5, <2>2 DEF setUser
    <3> QED
      BY <1>0, <2>1, <3>1, <3>2 DEF AccTypeOK, Hook, Post
  <2>3. CASE ~p.live
    BY <1>5, <2>3 DEF setUser
  <2> QED
    BY <2>2, <2>3
<1>6. CASE AccNext
  <2>1. CASE \E w \in Wallets : ChooseHandle(w)
    BY <1>1, <2>1 DEF ChooseHandle, browserVars
  <2>2. CASE \E w \in Wallets, provider \in Providers : unlinkOAuthAccount(w, provider)
    BY <1>1, <2>2 DEF unlinkOAuthAccount, browserVars
  <2>3. CASE \E p \in posts : getUserByWalletPubkey(p) \/ insertUser(p) \/ postFails(p)
    BY <1>1, <2>3 DEF getUserByWalletPubkey, insertUser, postFails, browserVars
  <2>4. CASE \E t \in Tabs, i \in Identities :
               startLink(t, ProviderOf[i]) \/ signIn(t, i) \/ signInUnlinked(t, i)
    BY <1>1, <1>4, <2>4 DEF startLink, signIn, signInUnlinked
  <2>5. CASE \E t \in Tabs : signMessage(t) \/ refuseToSign(t) \/ signInFails(t)
                              \/ upsertUser(t) \/ upsertUserRefused(t)
                              \/ linkOAuthAccount(t) \/ overrideHandle(t)
    BY <1>1, <1>4, <2>5 DEF signMessage, refuseToSign, signInFails, upsertUser,
       upsertUserRefused, linkOAuthAccount, overrideHandle, browserVars
  <2>6. CASE CookiesExpire \/ SignOut \/ requireHandles
    BY <1>1, <2>6 DEF CookiesExpire, SignOut, requireHandles, browserVars
  <2> QED
    BY <1>2, <1>3, <1>5, <1>6, <2>1, <2>2, <2>3, <2>4, <2>5, <2>6 DEF AccNext
<1> QED
  BY <1>1, <1>6 DEF accVars, browserVars

(* The answer to a first connect is shown only while the wallet it was asked  *)
(* for is connected in its tab (OwnAnswerShown; useEnsureUser).               *)
THEOREM OwnAnswerShownCorrect == Spec => OwnAnswerShown
<1>1. AccInv /\ [Next]_vars =>
        [\A t \in Tabs : hook'[t].user \in {hook[t].user, None, wallet[t]}]_accVars
  BY Parts, AnswerStep
<1> QED
  BY <1>1, AccountsInvariant, PTL DEF Spec, OwnAnswerShown

(* What may happen to the handle of a row. *)
HandleMoves(w) ==
  \/ users[w].handle \notin Chosen \/ users'[w].handle \in {users[w].handle} \cup Chosen
  \/ \E t \in Tabs : flow[t].at = "rename" /\ flow[t].wallet = w /\ flow[t].handle # users[w].handle

(* An upsert keeps the handle of the row it finds. *)
LEMMA UpsertKeepsHandle ==
  ASSUME AccTypeOK, NEW v \in Wallets, NEW handle \in Handle,
         NEW email \in {None, virtualEmail} \cup {EmailOf[i] : i \in Identities},
         users' = [users EXCEPT ![v] = upsertUserByWallet(v, email, handle)],
         NEW w \in Wallets, users[w] # None, users'[w] # users[w]
  PROVE  HandleMoves(w)
<1>1. w = v
  BY DEF AccTypeOK
<1>2. users'[w] = upsertUserByWallet(v, email, handle)
  BY <1>1 DEF AccTypeOK
<1> QED
  BY <1>1, <1>2, UpsertRow DEF HandleMoves

(* A chosen handle is not one of the generator's, so that only a handle read  *)
(* before it was chosen is renamed.                                           *)
LEMMA HandleStep ==
  ASSUME AccInv, [AccNext]_accVars, NEW w \in Wallets, users[w] # None, users'[w] # users[w]
  PROVE  HandleMoves(w)
<1>0. AccTypeOK /\ LinkedRow /\ users[w] \in Row
  BY DEF AccInv, AccTypeOK
<1>1. ASSUME NEW v \in Wallets, ChooseHandle(v) PROVE HandleMoves(w)
  <2>1. PICK h \in Chosen : users' = [users EXCEPT ![v].handle = h]
    BY <1>1 DEF ChooseHandle, updateUserHandle
  <2>2. w = v /\ users'[w].handle = h
    BY <1>0, <2>1 DEF AccTypeOK, Row
  <2> QED
    BY <2>2 DEF HandleMoves
<1>2. ASSUME NEW p \in posts, insertUser(p) PROVE HandleMoves(w)
  <2>1. PICK h \in Generated :
          users' = [users EXCEPT ![p.wallet] = upsertUserByWallet(p.wallet, virtualEmail, h)]
    BY <1>2 DEF insertUser
  <2>2. p.wallet \in Wallets /\ h \in Handle
    BY <1>0 DEF AccTypeOK, Post, Handle
  <2> QED
    BY <1>0, <2>1, <2>2, UpsertKeepsHandle
<1>3. ASSUME NEW t \in Tabs, upsertUser(t) PROVE HandleMoves(w)
  <2> DEFINE f == flow[t]
  <2>1. f \in Upserting
    BY <1>0, <1>3, FlowKinds DEF upsertUser
  <2>2. f.wallet \in Wallets /\ f.identity \in Identities /\ None \in Handle
    BY <2>1 DEF Upserting, Handle
  <2>3. users' = [users EXCEPT ![f.wallet] =
                    upsertUserByWallet(f.wallet, EmailOf[f.identity], None)]
    BY <1>3 DEF upsertUser
  <2> HIDE DEF f
  <2> QED
    BY <1>0, <2>2, <2>3, UpsertKeepsHandle
<1>4. ASSUME NEW t \in Tabs, overrideHandle(t) PROVE HandleMoves(w)
  <2> DEFINE f == flow[t]
  <2>1. f \in Linking
    BY <1>0, <1>4, FlowKinds DEF overrideHandle
  <2>2. f.at = "rename" /\ renames(f)
        /\ users' = [users EXCEPT ![f.wallet].handle = DisplayOf[f.identity]]
    BY <1>4 DEF overrideHandle, updateUserHandle
  <2>3. f.wallet = w
    BY <1>0, <2>2 DEF AccTypeOK
  <2>4. f.handle \in Generated
    BY <2>2 DEF renames, isRandomUsername
  <2> QED
    BY <2>2, <2>3, <2>4, AccountsAssumption DEF HandleMoves
<1>5. ASSUME requireHandles PROVE HandleMoves(w)
  <2>1. PICK given \in [{u \in Wallets : users[u] # None /\ users[u].handle = None}
                          -> Generated \ handles] :
          users' = [u \in Wallets |-> IF u \in DOMAIN given
                                      THEN [users[u] EXCEPT !.handle = given[u]]
                                      ELSE users[u]]
    BY <1>5 DEF requireHandles
  <2>2. users[w].handle = None
    BY <2>1
  <2> QED
    BY <2>2, AccountsAssumption DEF HandleMoves
<1>6. AccNext
  BY DEF accVars, dbVars
<1>7. ~UNCHANGED users
  OBVIOUS
<1>8. CASE \E p \in posts : getUserByWalletPubkey(p) \/ insertUser(p) \/ setUser(p) \/ postFails(p)
  BY <1>2, <1>7, <1>8 DEF getUserByWalletPubkey, setUser, postFails, dbVars
<1>9. CASE \E t \in Tabs : signMessage(t) \/ refuseToSign(t) \/ signInFails(t)
                            \/ upsertUser(t) \/ upsertUserRefused(t)
                            \/ linkOAuthAccount(t) \/ overrideHandle(t)
  BY <1>3, <1>4, <1>7, <1>9 DEF signMessage, refuseToSign, signInFails, upsertUserRefused,
     linkOAuthAccount, dbVars
<1>10. CASE \/ \E v \in Wallets, provider \in Providers : unlinkOAuthAccount(v, provider)
            \/ \E t \in Tabs, v \in Wallets : connect(t, v)
            \/ \E t \in Tabs : disconnect(t)
            \/ \E t \in Tabs, i \in Identities :
                 startLink(t, ProviderOf[i]) \/ signIn(t, i) \/ signInUnlinked(t, i)
            \/ CookiesExpire \/ SignOut
  BY <1>7, <1>10 DEF unlinkOAuthAccount, connect, disconnect, startLink, signIn,
     signInUnlinked, CookiesExpire, SignOut, dbVars
<1> QED
  BY <1>1, <1>5, <1>6, <1>8, <1>9, <1>10 DEF AccNext

(* A handle its user chose is overwritten, other than by the user, only by a  *)
(* sign-in that had read the row before the choice (ChosenHandleKept;         *)
(* handleSignIn, POST /api/users/upsert).                                     *)
THEOREM ChosenHandleKeptCorrect == Spec => ChosenHandleKept
<1>1. AccInv /\ [Next]_vars =>
        [\A w \in Wallets :
           users[w] # None /\ users'[w] # users[w] =>
             \/ users[w].handle \notin Chosen \/ users'[w].handle \in {users[w].handle} \union Chosen
             \/ \E t \in Tabs : flow[t].at = "rename" /\ flow[t].wallet = w
                                /\ flow[t].handle # users[w].handle]_accVars
  BY Parts, HandleStep DEF HandleMoves
<1> QED
  BY <1>1, AccountsInvariant, PTL DEF Spec, ChosenHandleKept

--------------------------------------------------------------------------------
(* Notifications *)

Status == {"none", "active", "revoked", "expired"}

Batch == [at : {"idle", "send", "mark", "done", "failed"},
          todo : SUBSET (Users \X Endpoints),
          expired : SUBSET Endpoints, dropped : SUBSET Endpoints]

PushInv ==
  /\ subs \in [Users \X Endpoints -> Status]
  /\ batch \in [Batches -> Batch]
  /\ GoneIsDropped

(* Successive updates of one batch are one.                                   *)
LEMMA UpdateTwice ==
  ASSUME NEW f \in [Batches -> Batch], NEW b \in Batches, NEW v, NEW w
  PROVE  /\ [f EXCEPT ![b] = v][b] = v
         /\ [[f EXCEPT ![b] = v] EXCEPT ![b] = w] = [f EXCEPT ![b] = w]
<1> HIDE DEF Batch
<1> QED
  OBVIOUS

(* Marking an endpoint leaves no active row of it, and makes none active.     *)
LEMMA MarkedRows ==
  ASSUME subs \in [Users \X Endpoints -> Status], NEW e \in Endpoints,
         NEW status \in {"revoked", "expired"}, markPushSubscriptionStatus(e, status)
  PROVE  /\ subs' \in [Users \X Endpoints -> Status]
         /\ \A u \in Users : subs'[<<u, e>>] # "active"
         /\ \A s \in Users \X Endpoints : subs'[s] = "active" => subs[s] = "active"
<1> DEFINE Rows == Users \X Endpoints
<1>1. subs' = [s \in Rows |-> IF s[2] = e /\ subs[s] # "none" THEN status ELSE subs[s]]
  BY DEF markPushSubscriptionStatus
<1>2. \A s \in Rows : subs'[s] = IF s[2] = e /\ subs[s] # "none" THEN status ELSE subs[s]
  BY <1>1
<1>3. subs' \in [Rows -> Status]
  <2>1. \A s \in Rows : subs[s] \in Status /\ status \in Status
    BY DEF Status
  <2> HIDE DEF Rows, Status
  <2> QED
    BY <1>1, <2>1
<1>4. \A u \in Users : <<u, e>> \in Rows /\ <<u, e>>[2] = e
  OBVIOUS
<1>5. status # "active"
  OBVIOUS
<1> HIDE DEF Rows
<1>6. \A u \in Users : subs'[<<u, e>>] # "active"
  BY <1>2, <1>4, <1>5
<1>7. \A s \in Rows : subs'[s] = "active" => subs[s] = "active"
  BY <1>2, <1>5
<1> QED
  BY <1>3, <1>6, <1>7 DEF Rows

(* Only a new subscription makes a row active, and it clears the endpoint     *)
(* from what batches have dropped.                                            *)
LEMMA PushStep ==
  ASSUME PushInv, [NotNext]_notVars
  PROVE  PushInv'
<1>0. subs \in [Users \X Endpoints -> Status] /\ batch \in [Batches -> Batch]
  BY DEF PushInv
<1> DEFINE Dropped(b) == batch[b].dropped
<1>1. CASE UNCHANGED <<subs, batch>>
  BY <1>1 DEF PushInv, GoneIsDropped
<1>2. ASSUME NEW u \in Users, NEW e \in Endpoints, subscribeToPushFromBrowser(u, e)
      PROVE  PushInv'
  <2>1. subs' = [subs EXCEPT ![<<u, e>>] = "active"]
    BY <1>2 DEF subscribeToPushFromBrowser
  <2>2. batch' = [b \in Batches |-> [batch[b] EXCEPT !.dropped = @ \ {e}]]
    BY <1>2 DEF subscribeToPushFromBrowser
  <2>3. subs' \in [Users \X Endpoints -> Status]
    BY <1>0, <2>1 DEF Status
  <2>4. ASSUME NEW b \in Batches
        PROVE  batch'[b] \in Batch /\ batch'[b].dropped = batch[b].dropped \ {e}
    BY <1>0, <2>2 DEF Batch
  <2>5. batch' \in [Batches -> Batch]
    BY <2>2, <2>4
  <2>6. ASSUME NEW b \in Batches, NEW x \in batch'[b].dropped, NEW v \in Users
        PROVE  subs'[<<v, x>>] # "active"
    <3>1. x # e /\ x \in batch[b].dropped
      BY <2>4
    <3>2. x \in Endpoints
      BY <1>0, <3>1 DEF Batch
    <3>3. subs[<<v, x>>] # "active"
      BY <3>1 DEF PushInv, GoneIsDropped
    <3>4. <<v, x>> \in Users \X Endpoints /\ <<v, x>> # <<u, e>>
      BY <3>1, <3>2
    <3> QED
      BY <1>0, <2>1, <3>3, <3>4
  <2> QED
    BY <2>3, <2>5, <2>6 DEF PushInv, GoneIsDropped
<1>3. ASSUME NEW e \in Endpoints, unsubscribeFromPush(e)
      PROVE  PushInv'
  <2>1. /\ subs' \in [Users \X Endpoints -> Status]
        /\ \A s \in Users \X Endpoints : subs'[s] = "active" => subs[s] = "active"
    BY <1>0, <1>3, MarkedRows DEF unsubscribeFromPush
  <2>2. batch' = batch
    BY <1>3 DEF unsubscribeFromPush
  <2>3. \A b \in Batches : batch[b].dropped \subseteq Endpoints
    BY <1>0 DEF Batch
  <2> QED
    BY <1>0, <2>1, <2>2, <2>3 DEF PushInv, GoneIsDropped
<1>4. ASSUME NEW b \in Batches, UNCHANGED subs,
             NEW x \in Batch, batch' = [batch EXCEPT ![b] = x], x.dropped \subseteq batch[b].dropped
      PROVE  PushInv'
  BY <1>0, <1>4 DEF PushInv, GoneIsDropped
<1>5. ASSUME NEW b \in Batches, NEW users_ \in SUBSET Users, sendPush(b, users_)
      PROVE  PushInv'
  <2> DEFINE list == listActivePushSubscriptions(users_)
             x == [unsent EXCEPT !.at = IF list = {} THEN "done" ELSE "send", !.todo = list]
  <2>1. list \in SUBSET (Users \X Endpoints)
    BY DEF listActivePushSubscriptions
  <2>2. x \in Batch /\ x.dropped = {}
    <3> HIDE DEF list
    <3> QED
      BY <2>1 DEF Batch, unsent
  <2>3. batch' = [batch EXCEPT ![b] = x] /\ UNCHANGED subs
    BY <1>5 DEF sendPush
  <2> HIDE DEF x
  <2> QED
    BY <1>4, <2>2, <2>3
<1>6. ASSUME NEW b \in Batches, trySend(b)
      PROVE  PushInv'
  <2>1. PICK s \in batch[b].todo :
          batch' = [batch EXCEPT ![b].todo = batch[b].todo \ {s},
                                 ![b].at = IF batch[b].todo \ {s} = {} THEN "mark" ELSE "send",
                                 ![b].expired = IF s[2] \in gone THEN @ \cup {s[2]} ELSE @]
    BY <1>6 DEF trySend
  <2> DEFINE at == IF batch[b].todo \ {s} = {} THEN "mark" ELSE "send"
             expired == IF s[2] \in gone THEN batch[b].expired \cup {s[2]} ELSE batch[b].expired
             x == [[[batch[b] EXCEPT !.todo = batch[b].todo \ {s}] EXCEPT !.at = at]
                     EXCEPT !.expired = expired]
  <2>2. batch[b] \in Batch
    BY <1>0
  <2>3. s[2] \in Endpoints
    BY <2>2 DEF Batch
  <2>4. x \in Batch /\ x.dropped = batch[b].dropped
    <3>1. /\ batch[b].todo \ {s} \in SUBSET (Users \X Endpoints)
          /\ at \in {"send", "mark"} /\ expired \in SUBSET Endpoints
      BY <2>2, <2>3 DEF Batch
    <3> HIDE DEF at, expired
    <3> QED
      BY <2>2, <3>1 DEF Batch
  <2>5. batch' = [batch EXCEPT ![b] = x]
    <3> DEFINE v == [batch[b] EXCEPT !.todo = batch[b].todo \ {s}]
               f == [batch EXCEPT ![b] = v]
               w == [f[b] EXCEPT !.at = at]
               g == [f EXCEPT ![b] = w]
    <3>1. batch' = [g EXCEPT ![b] = [g[b] EXCEPT !.expired = expired]]
      BY <2>1
    <3>2. f[b] = v
      BY <1>0, UpdateTwice
    <3>3. w = [v EXCEPT !.at = at]
      BY <3>2
    <3>4. [w EXCEPT !.expired = expired] = x
      BY <3>3
    <3> HIDE DEF v, w, x
    <3>5. g = [batch EXCEPT ![b] = w] /\ g[b] = w
      BY <1>0, UpdateTwice
    <3> HIDE DEF f, g, expired, at
    <3> QED
      BY <1>0, <3>1, <3>4, <3>5, UpdateTwice
  <2>6. UNCHANGED subs
    BY <1>6 DEF trySend
  <2> HIDE DEF x
  <2> QED
    BY <1>4, <2>4, <2>5, <2>6
<1>7. ASSUME NEW b \in Batches, BatchFails(b)
      PROVE  PushInv'
  <2> DEFINE x == [batch[b] EXCEPT !.at = "failed"]
  <2>1. x \in Batch /\ x.dropped = batch[b].dropped
    BY <1>0 DEF Batch
  <2>2. batch' = [batch EXCEPT ![b] = x] /\ UNCHANGED subs
    BY <1>7 DEF BatchFails
  <2> HIDE DEF x
  <2> QED
    BY <1>4, <2>1, <2>2
<1>8. ASSUME NEW b \in Batches, markExpired(b)
      PROVE  PushInv'
  <2>1. CASE batch[b].expired = {}
    <3> DEFINE x == [batch[b] EXCEPT !.at = "done"]
    <3>1. x \in Batch /\ x.dropped = batch[b].dropped
      BY <1>0 DEF Batch
    <3>2. batch' = [batch EXCEPT ![b] = x] /\ UNCHANGED subs
      BY <1>8, <2>1 DEF markExpired
    <3> HIDE DEF x
    <3> QED
      BY <1>4, <3>1, <3>2
  <2>2. CASE batch[b].expired # {}
    <3>1. PICK e \in batch[b].expired :
            /\ markPushSubscriptionStatus(e, "expired")
            /\ batch' = [batch EXCEPT ![b].expired = @ \ {e}, ![b].dropped = @ \cup {e}]
      BY <1>8, <2>2 DEF markExpired
    <3>2. batch[b] \in Batch /\ e \in Endpoints
      BY <1>0, <3>1 DEF Batch
    <3>3. /\ subs' \in [Users \X Endpoints -> Status]
          /\ \A u \in Users : subs'[<<u, e>>] # "active"
          /\ \A s \in Users \X Endpoints : subs'[s] = "active" => subs[s] = "active"
      BY <1>0, <3>1, <3>2, MarkedRows
    <3> DEFINE x == [[batch[b] EXCEPT !.expired = batch[b].expired \ {e}]
                       EXCEPT !.dropped = batch[b].dropped \cup {e}]
    <3>4. x \in Batch /\ x.dropped = batch[b].dropped \cup {e}
      BY <3>2 DEF Batch
    <3>5. batch' = [batch EXCEPT ![b] = x]
      <4> DEFINE v == [batch[b] EXCEPT !.expired = batch[b].expired \ {e}]
                 f == [batch EXCEPT ![b] = v]
      <4>1. batch' = [f EXCEPT ![b] = [f[b] EXCEPT !.dropped = batch[b].dropped \cup {e}]]
        BY <3>1
      <4>2. f[b] = v
        BY <1>0, UpdateTwice
      <4>3. batch' = [f EXCEPT ![b] = x]
        BY <4>1, <4>2
      <4> HIDE DEF v, x
      <4> QED
        BY <1>0, <4>3, UpdateTwice
    <3> HIDE DEF x
    <3>6. batch' \in [Batches -> Batch]
      BY <1>0, <3>4, <3>5
    <3>7. ASSUME NEW c \in Batches, NEW y \in batch'[c].dropped, NEW u \in Users
          PROVE  subs'[<<u, y>>] # "active"
      <4>1. y = e \/ y \in batch[c].dropped
        BY <1>0, <3>4, <3>5, <3>7
      <4>2. CASE y = e
        BY <3>3, <4>2
      <4>3. CASE y \in batch[c].dropped
        <5>1. y \in Endpoints /\ subs[<<u, y>>] # "active"
          BY <1>0, <4>3 DEF PushInv, GoneIsDropped, Batch
        <5> QED
          BY <3>3, <5>1
      <4> QED
        BY <4>1, <4>2, <4>3
    <3> QED
      BY <3>3, <3>6, <3>7 DEF PushInv, GoneIsDropped
  <2> QED
    BY <2>1, <2>2
<1>9. CASE PushNext
  <2>1. CASE \E u \in Users, e \in Endpoints : subscribeToPushFromBrowser(u, e)
    BY <1>2, <2>1
  <2>2. CASE \E e \in Endpoints : unsubscribeFromPush(e) \/ EndpointGoes(e)
    BY <1>1, <1>3, <2>2 DEF EndpointGoes
  <2>3. CASE \E b \in Batches : \E users_ \in {Users} \union {{u} : u \in Users} : sendPush(b, users_)
    BY <1>5, <2>3
  <2>4. CASE \E b \in Batches : trySend(b) \/ markExpired(b) \/ BatchFails(b)
    BY <1>6, <1>7, <1>8, <2>4
  <2> QED
    BY <1>9, <2>1, <2>2, <2>3, <2>4 DEF PushNext
<1>10. CASE DiscordNext
  BY <1>1, <1>10 DEF DiscordNext, ensureDiscordBotReady, awaitLogin, sendDiscordDM,
     LoginSucceeds, LoginFails, BotDisconnects, pushVars
<1>11. CASE PrefsNext
  BY <1>1, <1>11 DEF PrefsNext, fetchPrefs, fetchedPrefs, updatePrefs,
     getOrCreateNotificationPrefs, patchNotificationPrefs, onSuccess, onError, connectionLost,
     serverEnds, pushVars
<1> QED
  BY <1>1, <1>9, <1>10, <1>11 DEF NotNext, notVars, pushVars

(* A batch that has marked a gone endpoint leaves no active row of it, with   *)
(* any number of batches and users (GoneIsDropped; sendPushToSubscriptions,   *)
(* markPushSubscriptionStatus).                                               *)
THEOREM GoneIsDroppedCorrect == Spec => []GoneIsDropped
<1>1. Init => PushInv
  BY DEF Init, NotInit, PushInit, PushInv, GoneIsDropped, unsent, Status, Batch
<1>2. PushInv /\ [Next]_vars => PushInv'
  BY Parts, PushStep
<1>3. PushInv => GoneIsDropped
  BY DEF PushInv
<1> QED
  BY <1>1, <1>2, <1>3, PTL DEF Spec

(* A login in progress is the one whose promise is shared.                    *)
LoginInv == logins = 0 \/ (logins = 1 /\ loginPromise = "pending")

(* The bot is never logging in twice at a time, with any number of jobs       *)
(* (OneLogin; ensureDiscordBotReady).                                         *)
THEOREM OneLoginCorrect == Spec => []OneLogin
<1>1. Init => LoginInv
  BY DEF Init, NotInit, DiscordInit, LoginInv
<1>2. LoginInv /\ [NotNext]_notVars => LoginInv'
  <2> SUFFICES ASSUME LoginInv, [NotNext]_notVars PROVE LoginInv'
    OBVIOUS
  <2>1. CASE UNCHANGED <<logins, loginPromise>>
    BY <2>1 DEF LoginInv
  <2>2. CASE PushNext
    BY <2>1, <2>2 DEF PushNext, subscribeToPushFromBrowser, unsubscribeFromPush, EndpointGoes,
       sendPush, trySend, markExpired, BatchFails, discordVars
  <2>3. CASE PrefsNext
    BY <2>1, <2>3 DEF PrefsNext, fetchPrefs, fetchedPrefs, updatePrefs,
       getOrCreateNotificationPrefs, patchNotificationPrefs, onSuccess, onError, connectionLost,
       serverEnds, discordVars
  <2>4. CASE DiscordNext
    BY <2>4 DEF DiscordNext, ensureDiscordBotReady, awaitLogin, sendDiscordDM,
       LoginSucceeds, LoginFails, BotDisconnects, LoginInv
  <2> QED
    BY <2>1, <2>2, <2>3, <2>4 DEF NotNext, notVars, discordVars
<1>3. LoginInv => OneLogin
  BY DEF LoginInv, OneLogin
<1> QED
  BY <1>1, <1>2, <1>3, Parts, PTL DEF Spec

(* What the variables of the preferences may hold. *)
PrefsRow == [Channels -> BOOLEAN]

Shown == PrefsRow \cup {NoPrefs}

Patch == UNION {[{c} -> BOOLEAN] : c \in Channels}

Update == [at : {"put", "patch"}, patch : Patch, prev : Shown, made : BOOLEAN, adrift : BOOLEAN]

Done == [at : {"done"}, prev : Shown, data : PrefsRow]

PrefsTypes ==
  /\ prefs \in Shown /\ shown \in Shown
  /\ fetching \in [answer : Shown, quiet : BOOLEAN]
  /\ edit \in [Edits -> [at : {"idle"}] \cup Update \cup Done]
  /\ doubt \in BOOLEAN
  /\ \A e \in Edits : edit[e].at = "patch" => prefs # NoPrefs

(* What is shown or restored is what a query would answer, or nothing.        *)
Answered(p) == p \in {NoPrefs, queryFn}

(* Beyond doubt, what an edit restores or brings back is what is stored, but  *)
(* an edit that made the row restores what the page took for its absence.     *)
SureEdit(e) ==
  /\ edit[e].at \in {"put", "patch"} => ~edit[e].adrift
  /\ edit[e].at = "put" => Answered(edit[e].prev)
  /\ edit[e].at = "patch" => edit[e].made \/ Answered(edit[e].prev)
  /\ edit[e].at = "done" => edit[e].data = queryFn

(* A query that met no mutation holds what is stored, none being in flight;   *)
(* and beyond doubt at most one mutation is in flight, a sure one, and with   *)
(* none the page shows what is stored, or nothing.                            *)
PrefsSure ==
  /\ fetching.quiet => inFlight = {} /\ fetching.answer = queryFn
  /\ ~doubt => /\ \A d, e \in inFlight : d = e
               /\ \A e \in Edits : SureEdit(e)
               /\ inFlight = {} => Answered(shown)

PrefsInv == PrefsTypes /\ PrefsSure

(* The page's defaults, a new row and a patched one are rows.                 *)
LEMMA RowsAre ==
  /\ DEFAULT_NOTIFICATION_PREFS \in PrefsRow /\ Off \in PrefsRow /\ NoPrefs \notin PrefsRow
  /\ prefs \in Shown => queryFn \in PrefsRow
  /\ \A row \in PrefsRow, patch \in Patch : mergePrefs(row, patch) \in PrefsRow
<1>1. DEFAULT_NOTIFICATION_PREFS \in PrefsRow /\ Off \in PrefsRow /\ NoPrefs \notin PrefsRow
  BY NotificationsAssumption DEF DEFAULT_NOTIFICATION_PREFS, Off, PrefsRow
<1>2. ASSUME NEW row \in PrefsRow, NEW patch \in Patch PROVE mergePrefs(row, patch) \in PrefsRow
  <2>1. PICK x \in Channels : patch \in [{x} -> BOOLEAN]
    BY DEF Patch
  <2>2. ASSUME NEW c \in Channels PROVE (IF c \in DOMAIN patch THEN patch[c] ELSE row[c]) \in BOOLEAN
    <3>1. CASE c \in DOMAIN patch
      <4>1. c \in {x}
        BY <2>1, <3>1
      <4>2. patch[c] \in BOOLEAN
        BY <2>1, <4>1
      <4> QED
        BY <3>1, <4>2
    <3>2. CASE c \notin DOMAIN patch
      <4>1. row[c] \in BOOLEAN
        BY DEF PrefsRow
      <4> QED
        BY <3>2, <4>1
    <3> QED
      BY <3>1, <3>2
  <2> QED
    BY <2>2 DEF mergePrefs, PrefsRow
<1> QED
  BY <1>1, <1>2 DEF queryFn, Shown

(* With one edit moving on and the queries at rest, what has to be shown of   *)
(* a step is what becomes of that edit.                                       *)
LEMMA OneEditMoves ==
  ASSUME PrefsInv, PrefsTypes', NEW e \in Edits,
         \A d \in Edits \ {e} : edit'[d] = edit[d],
         fetching'.quiet => fetching' = fetching /\ UNCHANGED <<prefs, edit>>,
         ~doubt' => /\ ~doubt /\ inFlight \subseteq {e} /\ SureEdit(e)'
                    /\ edit'[e].at = "idle" => Answered(shown)'
  PROVE  PrefsInv'
<1>1. fetching'.quiet => inFlight' = {} /\ fetching'.answer = queryFn'
  BY DEF PrefsInv, PrefsSure, inFlight, queryFn
<1>2. ASSUME ~doubt'
      PROVE  /\ \A c, d \in inFlight' : c = d
             /\ \A d \in Edits : SureEdit(d)'
             /\ inFlight' = {} => Answered(shown)'
  <2>1. \A d \in Edits \ {e} : edit'[d].at = "idle"
    BY <1>2 DEF inFlight
  <2>2. \A d \in Edits \ {e} : SureEdit(d)'
    BY <2>1 DEF SureEdit
  <2>3. inFlight' \subseteq {e} /\ (inFlight' = {} => edit'[e].at = "idle")
    BY <2>1 DEF inFlight
  <2> QED
    BY <1>2, <2>2, <2>3
<1> QED
  BY <1>1, <1>2 DEF PrefsInv, PrefsSure

(* A mutation begins, and whatever query was in progress is cancelled.        *)
LEMMA UpdateKeepsPrefs ==
  ASSUME PrefsInv, NEW e \in Edits, updatePrefs(e)
  PROVE  PrefsInv'
<1>0. PrefsTypes
  BY DEF PrefsInv
<1>1. PICK c \in Channels, v \in BOOLEAN : onMutate(e, [x \in {c} |-> v])
  BY DEF updatePrefs
<1>2. PICK patch \in Patch : onMutate(e, patch)
  <2>1. [x \in {c} |-> v] \in [{c} -> BOOLEAN]
    OBVIOUS
  <2>2. [x \in {c} |-> v] \in Patch
    BY <2>1 DEF Patch
  <2> QED
    BY <1>1, <2>2
<1> DEFINE r == [at |-> "put", patch |-> patch, prev |-> shown, made |-> FALSE, adrift |-> FALSE]
           base == IF shown = NoPrefs THEN DEFAULT_NOTIFICATION_PREFS ELSE shown
<1>3. /\ edit' = [edit EXCEPT ![e] = r] /\ fetching' = NoQuery /\ prefs' = prefs
      /\ shown' = mergePrefs(base, patch)
      /\ doubt' = (doubt \/ inFlight # {}) /\ edit[e].at = "idle"
  BY <1>2 DEF updatePrefs, onMutate, Optimistic
<1>4. shown' \in Shown
  <2>1. base \in PrefsRow
    BY <1>0, RowsAre DEF PrefsTypes, Shown
  <2> QED
    BY <1>3, <2>1, RowsAre DEF Shown
<1>5. r \in Update /\ r.at = "put" /\ r.prev = shown /\ r.adrift = FALSE
  BY <1>0 DEF Update, PrefsTypes
<1> HIDE DEF r
<1>6. edit'[e] = r /\ \A d \in Edits \ {e} : edit'[d] = edit[d]
  BY <1>0, <1>3 DEF PrefsTypes
<1>7. PrefsTypes'
  BY <1>0, <1>3, <1>4, <1>5, <1>6 DEF PrefsTypes, NoQuery, Shown
<1>8. ~doubt' => ~doubt /\ inFlight \subseteq {e} /\ SureEdit(e)' /\ edit'[e].at # "idle"
  <2> SUFFICES ASSUME ~doubt, inFlight = {} PROVE SureEdit(e)'
    BY <1>3, <1>5, <1>6
  <2>1. Answered(shown) /\ queryFn' = queryFn
    BY <1>3 DEF PrefsInv, PrefsSure, queryFn
  <2> QED
    BY <1>5, <1>6, <2>1 DEF SureEdit, Answered
<1> QED
  BY <1>3, <1>6, <1>7, <1>8, OneEditMoves DEF NoQuery

(* An edit in flight that is beyond doubt is alone, and no quiet query is.    *)
LEMMA InFlightAlone ==
  ASSUME PrefsInv, NEW e \in Edits, edit[e].at # "idle"
  PROVE  ~fetching.quiet /\ (~doubt => inFlight \subseteq {e} /\ SureEdit(e))
  BY DEF PrefsInv, PrefsSure, inFlight

(* What is known of an edit by where it is. *)
LEMMA EditIs ==
  ASSUME PrefsTypes, NEW e \in Edits
  PROVE  /\ edit[e].at \in {"put", "patch"} => edit[e] \in Update
         /\ edit[e].at = "done" => edit[e] \in Done
  BY DEF PrefsTypes, Update, Done

(* The first statement of an update: the row is there from then on.           *)
LEMMA CreateKeepsPrefs ==
  ASSUME PrefsInv, NEW e \in Edits, getOrCreateNotificationPrefs(e)
  PROVE  PrefsInv'
<1>0. PrefsTypes
  BY DEF PrefsInv
<1> DEFINE r == [edit[e] EXCEPT !.at = "patch", !.made = (prefs = NoPrefs)]
<1>1. /\ edit[e].at = "put" /\ prefs' = IF prefs = NoPrefs THEN Off ELSE prefs
      /\ edit' = [edit EXCEPT ![e] = r] /\ UNCHANGED <<shown, fetching, doubt>>
  BY DEF getOrCreateNotificationPrefs
<1>2. edit[e] \in Update
  BY <1>0, <1>1, EditIs
<1>3. /\ r \in Update /\ r.at = "patch" /\ r.prev = edit[e].prev
      /\ r.adrift = edit[e].adrift /\ r.made = (prefs = NoPrefs)
  BY <1>2 DEF Update
<1> HIDE DEF r
<1>4. edit'[e] = r /\ \A d \in Edits \ {e} : edit'[d] = edit[d]
  BY <1>0, <1>1 DEF PrefsTypes
<1>5. PrefsTypes'
  <2>1. prefs' \in PrefsRow /\ prefs' # NoPrefs
    BY <1>0, <1>1, RowsAre DEF PrefsTypes, Shown
  <2> QED
    BY <1>0, <1>1, <1>3, <1>4, <2>1 DEF PrefsTypes, Shown
<1>6. ASSUME ~doubt PROVE inFlight \subseteq {e} /\ SureEdit(e)'
  <2>1. inFlight \subseteq {e} /\ SureEdit(e)
    BY <1>1, <1>6, InFlightAlone
  <2>2. prefs # NoPrefs => queryFn' = queryFn
    BY <1>1 DEF queryFn
  <2> QED
    BY <1>1, <1>3, <1>4, <2>1, <2>2 DEF SureEdit, Answered
<1>7. ~fetching'.quiet
  BY <1>1, InFlightAlone
<1> QED
  BY <1>1, <1>3, <1>4, <1>5, <1>6, <1>7, OneEditMoves

(* The second: what the update brings back is the row.                        *)
LEMMA PatchKeepsPrefs ==
  ASSUME PrefsInv, NEW e \in Edits, patchNotificationPrefs(e)
  PROVE  PrefsInv'
<1>0. PrefsTypes
  BY DEF PrefsInv
<1> DEFINE r == IF edit[e].adrift THEN [at |-> "idle"]
                ELSE [at |-> "done", prev |-> edit[e].prev, data |-> prefs']
<1>1. /\ edit[e].at = "patch" /\ prefs' = mergePrefs(prefs, edit[e].patch)
      /\ edit' = [edit EXCEPT ![e] = r] /\ UNCHANGED <<shown, fetching, doubt>>
  BY DEF patchNotificationPrefs, settles
<1>2. edit[e] \in Update /\ prefs \in PrefsRow
  BY <1>0, <1>1, EditIs DEF PrefsTypes, Shown
<1>3. prefs' \in PrefsRow /\ queryFn' = prefs'
  <2>1. edit[e].patch \in Patch
    BY <1>2 DEF Update
  <2>2. prefs' \in PrefsRow /\ prefs' # NoPrefs
    BY <1>1, <1>2, <2>1, RowsAre
  <2> QED
    BY <2>2 DEF queryFn
<1>4. /\ r \in [at : {"idle"}] \cup Done /\ r.at # "patch"
      /\ ~edit[e].adrift => r.at = "done" /\ r.data = prefs'
  BY <1>2, <1>3 DEF Update, Done
<1> HIDE DEF r
<1>5. edit'[e] = r /\ \A d \in Edits \ {e} : edit'[d] = edit[d]
  BY <1>0, <1>1 DEF PrefsTypes
<1>6. PrefsTypes'
  BY <1>0, <1>1, <1>3, <1>4, <1>5, RowsAre DEF PrefsTypes, Shown
<1>7. ASSUME ~doubt PROVE inFlight \subseteq {e} /\ SureEdit(e)' /\ edit'[e].at # "idle"
  <2>1. inFlight \subseteq {e} /\ ~edit[e].adrift
    BY <1>1, <1>7, InFlightAlone DEF SureEdit
  <2> QED
    BY <1>3, <1>4, <1>5, <2>1 DEF SureEdit
<1>8. ~fetching'.quiet
  BY <1>1, InFlightAlone
<1> QED
  BY <1>1, <1>5, <1>6, <1>7, <1>8, OneEditMoves

(* An edit settles: with its row shown, with what was shown before, or        *)
(* unheard of; or its connection is lost.                                     *)
LEMMA SettleKeepsPrefs ==
  ASSUME PrefsInv, NEW e \in Edits,
         onSuccess(e) \/ onError(e) \/ connectionLost(e) \/ serverEnds(e)
  PROVE  PrefsInv'
<1>0. PrefsTypes
  BY DEF PrefsInv
<1> DEFINE lost == [edit[e] EXCEPT !.adrift = TRUE, !.prev = NoPrefs]
<1>1. /\ edit[e].at \in {"put", "patch", "done"} /\ UNCHANGED <<prefs, fetching>>
      /\ doubt' \in BOOLEAN /\ shown' \in {shown, edit[e].prev, edit[e].data}
  <2>1. CASE onSuccess(e)
    BY <1>0, <2>1 DEF onSuccess, PrefsTypes
  <2>2. CASE onError(e)
    BY <1>0, <2>2 DEF onError, rollback, PrefsTypes
  <2>3. CASE connectionLost(e)
    BY <1>0, <2>3 DEF connectionLost, rollback, PrefsTypes
  <2>4. CASE serverEnds(e)
    BY <1>0, <2>4 DEF serverEnds, PrefsTypes
  <2> QED
    BY <2>1, <2>2, <2>3, <2>4
<1>2. shown' \in Shown
  <2>1. CASE onSuccess(e)
    <3>1. edit[e] \in Done /\ shown' = edit[e].data
      BY <1>0, <2>1, EditIs DEF onSuccess
    <3> QED
      BY <3>1 DEF Done, Shown
  <2>2. CASE onError(e) \/ connectionLost(e)
    <3>1. shown' = edit[e].prev \/ shown' = shown
      BY <2>2 DEF onError, connectionLost, rollback
    <3>2. edit[e].prev \in Shown
      BY <1>0, <1>1, EditIs DEF Update, Done
    <3> QED
      BY <1>0, <3>1, <3>2 DEF PrefsTypes
  <2>3. CASE serverEnds(e)
    BY <1>0, <2>3 DEF serverEnds, PrefsTypes
  <2> QED
    BY <2>1, <2>2, <2>3
<1>3. /\ edit'[e] = [at |-> "idle"] \/ (edit'[e] \in Update /\ edit'[e].at = edit[e].at /\ doubt')
      /\ \A d \in Edits \ {e} : edit'[d] = edit[d]
      /\ edit' \in [Edits -> [at : {"idle"}] \cup Update \cup Done]
  <2>1. CASE settles(e)
    BY <1>0, <2>1 DEF settles, PrefsTypes
  <2>2. CASE connectionLost(e)
    <3>1. edit[e] \in Update /\ edit' = [edit EXCEPT ![e] = lost] /\ doubt'
      BY <1>0, <2>2, EditIs DEF connectionLost
    <3>2. lost \in Update /\ lost.at = edit[e].at
      BY <3>1 DEF Update, Shown
    <3> HIDE DEF lost
    <3> QED
      BY <1>0, <3>1, <3>2 DEF PrefsTypes
  <2> QED
    BY <2>1, <2>2 DEF onSuccess, onError, serverEnds
<1>4. PrefsTypes'
  BY <1>0, <1>1, <1>2, <1>3 DEF PrefsTypes
<1>5. ~fetching'.quiet
  BY <1>1, InFlightAlone
<1>6. ASSUME ~doubt' PROVE ~doubt /\ edit'[e].at = "idle" /\ Answered(shown)'
  <2>1. ~doubt /\ edit'[e].at = "idle" /\ queryFn' = queryFn
    <3>1. ~doubt
      BY <1>0, <1>6 DEF onSuccess, onError, connectionLost, serverEnds, PrefsTypes
    <3> QED
      BY <1>1, <1>3, <1>6, <3>1 DEF queryFn
  <2>2. SureEdit(e)
    BY <1>1, <2>1, InFlightAlone
  <2>3. CASE onSuccess(e)
    BY <2>1, <2>2, <2>3 DEF onSuccess, SureEdit, Answered
  <2>4. CASE onError(e)
    <3>1. /\ edit[e].at # "done" /\ ~edit[e].made /\ edit[e].prev # NoPrefs
          /\ edit[e].at \in {"put", "patch"} /\ shown' = edit[e].prev
      BY <1>6, <2>4 DEF onError, rollback
    <3> QED
      BY <2>1, <2>2, <3>1 DEF SureEdit, Answered
  <2>5. CASE connectionLost(e)
    BY <1>6, <2>5 DEF connectionLost
  <2>6. CASE serverEnds(e)
    BY <2>2, <2>6 DEF serverEnds, SureEdit
  <2> QED
    BY <2>1, <2>3, <2>4, <2>5, <2>6
<1>7. edit'[e].at = "idle" => SureEdit(e)'
  BY DEF SureEdit
<1>8. ~doubt' => inFlight \subseteq {e}
  BY <1>1, <1>6, InFlightAlone
<1> QED
  BY <1>3, <1>4, <1>5, <1>6, <1>7, <1>8, OneEditMoves

(* A query reads, and its answer is shown. *)
LEMMA QueryKeepsPrefs ==
  ASSUME PrefsInv, fetchPrefs \/ fetchedPrefs
  PROVE  PrefsInv'
<1>0. PrefsTypes
  BY DEF PrefsInv
<1>1. /\ UNCHANGED <<prefs, edit>> /\ queryFn' = queryFn /\ inFlight' = inFlight
      /\ \A e \in Edits : SureEdit(e) => SureEdit(e)'
  <2>1. UNCHANGED <<prefs, edit>>
    BY DEF fetchPrefs, fetchedPrefs
  <2> QED
    BY <2>1 DEF queryFn, inFlight, SureEdit, Answered
<1>2. CASE fetchPrefs
  <2>1. /\ fetching' = [answer |-> queryFn, quiet |-> inFlight = {}]
        /\ shown' = shown /\ doubt' = doubt
    BY <1>2 DEF fetchPrefs
  <2>2. fetching' \in [answer : Shown, quiet : BOOLEAN]
    BY <1>0, <2>1, RowsAre DEF PrefsTypes, Shown
  <2>3. PrefsTypes'
    BY <1>0, <1>1, <2>1, <2>2 DEF PrefsTypes
  <2>4. fetching'.quiet => inFlight = {} /\ fetching'.answer = queryFn
    BY <2>1
  <2> QED
    BY <1>1, <2>1, <2>3, <2>4 DEF PrefsInv, PrefsSure, Answered
<1>3. CASE fetchedPrefs
  <2>1. /\ fetching' = NoQuery
        /\ \/ shown' = fetching.answer /\ doubt' = ~fetching.quiet
           \/ shown' = shown /\ doubt' = doubt
    BY <1>3 DEF fetchedPrefs
  <2>2. PrefsTypes'
    <3>1. shown' \in Shown /\ doubt' \in BOOLEAN
      BY <1>0, <2>1 DEF PrefsTypes
    <3> QED
      BY <1>0, <1>1, <2>1, <3>1 DEF PrefsTypes, NoQuery, Shown
  <2>3. CASE shown' = fetching.answer /\ doubt' = ~fetching.quiet
    <3>1. ~doubt' => inFlight = {} /\ shown' = queryFn
      BY <2>3 DEF PrefsInv, PrefsSure
    <3>2. inFlight = {} => \A e \in Edits : SureEdit(e)
      BY DEF inFlight, SureEdit
    <3> QED
      BY <1>1, <2>1, <2>2, <3>1, <3>2 DEF PrefsInv, PrefsSure, NoQuery, Answered
  <2>4. CASE shown' = shown /\ doubt' = doubt
    BY <1>1, <2>1, <2>2, <2>4 DEF PrefsInv, PrefsSure, NoQuery, Answered
  <2> QED
    BY <2>1, <2>3, <2>4
<1> QED
  BY <1>2, <1>3

(* Once every mutation has settled the page shows what a query would answer,  *)
(* unless in doubt, and a query that no mutation meets ends every doubt; with *)
(* any number of edits and channels (PrefsShownTrue; useNotificationPrefs).   *)
THEOREM PrefsShownTrueCorrect == Spec => []PrefsShownTrue
<1>1. Init => PrefsInv
  <2> SUFFICES ASSUME Init PROVE PrefsInv
    OBVIOUS
  <2>1. /\ prefs = NoPrefs /\ shown = NoPrefs /\ fetching = [answer |-> NoPrefs, quiet |-> FALSE]
        /\ edit = [e \in Edits |-> [at |-> "idle"]] /\ doubt = FALSE
    BY DEF Init, NotInit, PrefsInit, NoQuery
  <2>2. /\ \A e \in Edits : edit[e].at = "idle"
        /\ edit \in [Edits -> [at : {"idle"}]]
    BY <2>1
  <2>3. edit \in [Edits -> [at : {"idle"}] \cup Update \cup Done]
    BY <2>2
  <2>4. fetching \in [answer : Shown, quiet : BOOLEAN]
    BY <2>1 DEF Shown
  <2>5. PrefsTypes
    BY <2>1, <2>2, <2>3, <2>4 DEF PrefsTypes, Shown
  <2>6. /\ fetching.quiet = FALSE
        /\ inFlight = {}
        /\ \A e \in Edits : SureEdit(e)
    BY <2>1, <2>2 DEF SureEdit, inFlight
  <2> QED
    BY <2>1, <2>5, <2>6 DEF PrefsInv, PrefsSure, Answered
<1>2. PrefsInv /\ [NotNext]_notVars => PrefsInv'
  <2> SUFFICES ASSUME PrefsInv, [NotNext]_notVars PROVE PrefsInv'
    OBVIOUS
  <2>1. CASE UNCHANGED prefsVars
    BY <2>1 DEF PrefsInv, PrefsTypes, PrefsSure, SureEdit, Answered, queryFn, inFlight, prefsVars
  <2>2. CASE PushNext
    BY <2>1, <2>2 DEF PushNext, subscribeToPushFromBrowser, unsubscribeFromPush, EndpointGoes,
       sendPush, trySend, markExpired, BatchFails
  <2>3. CASE DiscordNext
    BY <2>1, <2>3 DEF DiscordNext, ensureDiscordBotReady, awaitLogin, sendDiscordDM,
       LoginSucceeds, LoginFails, BotDisconnects
  <2>4. CASE PrefsNext
    BY <2>4, QueryKeepsPrefs, UpdateKeepsPrefs, CreateKeepsPrefs, PatchKeepsPrefs,
       SettleKeepsPrefs DEF PrefsNext
  <2> QED
    BY <2>1, <2>2, <2>3, <2>4 DEF NotNext, notVars
<1>3. PrefsInv => PrefsShownTrue
  BY DEF PrefsInv, PrefsSure, PrefsShownTrue, Answered
<1> QED
  BY <1>1, <1>2, <1>3, Parts, PTL DEF Spec

--------------------------------------------------------------------------------
(* Billing *)

Event == [type : {"subscription.purchased", "subscription.renewed", "subscription.cancelled"},
          wallet : Subscribers, expires : Nat]

Sub == [status : {"none", "active", "cancelled"}, expires : Nat]

(* An active row is what a purchase of its wallet says, however it came.      *)
Bought(w, sub) ==
  sub.status = "active" =>
    \E e \in events : e.wallet = w /\ e.type # "subscription.cancelled" /\ e.expires = sub.expires

BillInv ==
  /\ now \in Nat /\ events \subseteq Event
  /\ store \in [Subscribers -> Sub] /\ cached \in [Subscribers -> Sub \cup {NoSub}]
  /\ \A w \in Subscribers : Bought(w, store[w]) /\ (cached[w] # NoSub => Bought(w, cached[w]))

LEMMA BillStepInv ==
  ASSUME BillInv, [BillNext]_billVars
  PROVE  BillInv'
<1>1. CASE UNCHANGED billVars
  BY <1>1 DEF BillInv, Bought, billVars
<1>2. ASSUME NEW e \in Event, events' = events \cup {e}, UNCHANGED <<now, store, cached>>
      PROVE  BillInv'
  BY <1>2 DEF BillInv, Bought
<1>3. ASSUME NEW w \in Subscribers, Purchase(w)
      PROVE  BillInv'
  <2>1. PICK type \in {"subscription.purchased", "subscription.renewed"} :
          events' = events \cup {[type |-> type, wallet |-> w, expires |-> now + 1]}
    BY <1>3 DEF Purchase
  <2>2. [type |-> type, wallet |-> w, expires |-> now + 1] \in Event
    BY DEF BillInv, Event
  <2> QED
    BY <1>2, <1>3, <2>1, <2>2 DEF Purchase
<1>4. ASSUME NEW w \in Subscribers, Cancel(w)
      PROVE  BillInv'
  BY <1>2, <1>4 DEF Cancel, Event
<1>5. ASSUME NEW w \in Subscribers, refetch(w)
      PROVE  BillInv'
  <2>1. /\ cached' = [cached EXCEPT ![w] = store[w]]
        /\ UNCHANGED <<now, events, store>>
    BY <1>5 DEF refetch, getSubscription
  <2> QED
    BY <2>1 DEF BillInv, Bought
<1>6. ASSUME NEW e \in events, POST(e)
      PROVE  BillInv'
  <2> DEFINE status == IF e.type = "subscription.cancelled" THEN "cancelled" ELSE "active"
             sub == [status |-> status, expires |-> e.expires]
  <2>1. store' = [store EXCEPT ![e.wallet] = sub] /\ UNCHANGED <<now, events, cached>>
    BY <1>6 DEF POST, upsertSubscription
  <2>2. e \in Event
    BY DEF BillInv
  <2>3. sub \in Sub /\ e.wallet \in Subscribers
    BY <2>2 DEF Sub, Event
  <2>4. Bought(e.wallet, sub)
    BY DEF Bought
  <2> HIDE DEF sub
  <2>5. store' \in [Subscribers -> Sub] /\ \A w \in Subscribers : Bought(w, store'[w])
    BY <2>1, <2>3, <2>4 DEF BillInv
  <2> QED
    BY <2>1, <2>5 DEF BillInv, Bought
<1>7. CASE Restart
  BY <1>7 DEF Restart, none, BillInv, Bought, Sub
<1>8. CASE BillTick
  BY <1>8 DEF BillTick, BillInv, Bought
<1> QED
  BY <1>1, <1>3, <1>4, <1>5, <1>6, <1>7, <1>8 DEF BillNext

(* The paid features are unlocked only inside a period the wallet paid for,   *)
(* whatever was delivered late, again or in another order, for any number of  *)
(* wallets and periods (ProOnlyWhilePaid; isBellProActive).                   *)
THEOREM ProOnlyWhilePaidCorrect == Spec => []ProOnlyWhilePaid
<1>1. Init => BillInv
  BY DEF Init, BillInit, BillInv, Bought, none, Sub
<1>2. BillInv /\ [Next]_vars => BillInv'
  BY Parts, BillStepInv
<1>3. BillInv => ProOnlyWhilePaid
  BY DEF BillInv, Bought, ProOnlyWhilePaid, isBellProActive
<1> QED
  BY <1>1, <1>2, <1>3, PTL DEF Spec

--------------------------------------------------------------------------------
(* News and briefings *)

(* The model's name is on no article it has not classified.                   *)
NewsInv ==
  /\ pass \in [Passes -> [todo : SUBSET Articles, live : BOOLEAN]]
  /\ articles \subseteq Articles
  /\ \A a \in Articles : <<a, DEFAULT_CLASSIFIER_MODEL>> \in classified => a \in answered

LEMMA NewsStep ==
  ASSUME NewsInv, [AiNext]_aiVars
  PROVE  NewsInv'
<1> DEFINE Pass == [todo : SUBSET Articles, live : BOOLEAN]
<1>0. pass \in [Passes -> Pass] /\ articles \subseteq Articles
  BY DEF NewsInv
<1>1. CASE UNCHANGED newsVars
  BY <1>1 DEF NewsInv, newsVars
<1>2. ASSUME NEW a \in Articles, insertNewsArticle(a)
      PROVE  NewsInv'
  BY <1>2 DEF insertNewsArticle, NewsInv
<1>3. ASSUME NEW p \in Passes, classifyPendingArticles(p)
      PROVE  NewsInv'
  <2>1. PICK live \in BOOLEAN :
          pass' = [pass EXCEPT ![p] =
                     [live |-> live, todo |-> listUnclassifiedArticles(DEFAULT_CLASSIFIER_MODEL)]]
    BY <1>3 DEF classifyPendingArticles
  <2> DEFINE x == [live |-> live, todo |-> listUnclassifiedArticles(DEFAULT_CLASSIFIER_MODEL)]
  <2>2. x \in Pass
    <3>1. listUnclassifiedArticles(DEFAULT_CLASSIFIER_MODEL) \subseteq Articles
      BY <1>0 DEF listUnclassifiedArticles
    <3> QED
      BY <3>1
  <2> HIDE DEF x, Pass
  <2>3. pass' \in [Passes -> Pass]
    BY <1>0, <2>1, <2>2 DEF x
  <2> QED
    BY <1>3, <2>3 DEF classifyPendingArticles, NewsInv, Pass
<1>4. ASSUME NEW p \in Passes, passStops(p)
      PROVE  NewsInv'
  <2>1. pass' \in [Passes -> Pass]
    BY <1>0, <1>4 DEF passStops
  <2> QED
    BY <1>4, <2>1 DEF passStops, NewsInv
<1>5. ASSUME NEW p \in Passes, NEW a \in pass[p].todo, classifyArticle(p, a)
      PROVE  NewsInv'
  <2> DEFINE live == pass[p].live
  <2>1. pass' = [pass EXCEPT ![p].todo = pass[p].todo \ {a}] /\ UNCHANGED articles
    BY <1>5 DEF classifyArticle
  <2>2. pass' \in [Passes -> Pass]
    BY <1>0, <2>1
  <2>3. a \in Articles /\ live \in BOOLEAN
    BY <1>0
  <2>4. \A x \in Articles :
          <<x, DEFAULT_CLASSIFIER_MODEL>> \in classified' => x \in answered'
    <3>1. CASE UNCHANGED <<classified, answered>>
      BY <3>1 DEF NewsInv
    <3>2. CASE /\ classified' = classified \cup {<<a, rowModel(live)>>}
               /\ answered' = IF live THEN answered \cup {a} ELSE answered
      <4>1. CASE live
        BY <3>2, <4>1 DEF NewsInv
      <4>2. CASE ~live
        <5>1. rowModel(live) # DEFAULT_CLASSIFIER_MODEL
          BY <4>2 DEF rowModel, DEFAULT_CLASSIFIER_MODEL
        <5> QED
          BY <3>2, <4>2, <5>1 DEF NewsInv
      <4> QED
        BY <4>1, <4>2
    <3> QED
      BY <1>5, <3>1, <3>2 DEF classifyArticle, insertNewsClassification
  <2> QED
    BY <1>0, <2>1, <2>2, <2>4 DEF NewsInv
<1>6. CASE \/ AiTick
           \/ \E g \in Generators : generateForTicker(g) \/ insertBriefing(g) \/ generatorFails(g)
           \/ GET \/ GETFails
           \/ \E h \in Positions : PositionIndexed(h)
           \/ genPnlDigest
  BY <1>1, <1>6 DEF AiTick, generateForTicker, insertBriefing, generatorFails, GET, GETFails,
     PositionIndexed, genPnlDigest
<1> QED
  BY <1>1, <1>2, <1>3, <1>4, <1>5, <1>6 DEF AiNext, aiVars

(* An article the model has not classified is listed for a pass with the key, *)
(* whatever passes ran, overlapped or stopped, for any articles and passes    *)
(* (StubLeavesWork; classifyArticle, listUnclassifiedArticles).               *)
THEOREM StubLeavesWorkCorrect == Spec => []StubLeavesWork
<1>1. Init => NewsInv
  BY DEF Init, AiInit, NewsInit, NewsInv
<1>2. NewsInv /\ [Next]_vars => NewsInv'
  BY Parts, NewsStep
<1>3. NewsInv => StubLeavesWork
  BY DEF NewsInv, StubLeavesWork, listUnclassifiedArticles
<1> QED
  BY <1>1, <1>2, <1>3, PTL DEF Spec

(* A row of briefings, with what the prompt of its run may have been.         *)
Prompts == {buildBellProBriefingPrompt(Instants[i]) : i \in 1..Len(Instants)}

Briefing == [prompt : Prompts, model : {"sonnet", "stub"}, since : Nat]

(* What was read at time t was the latest row then: the next, if any, came    *)
(* no earlier, and t is past.                                                 *)
LatestAt(row, t) ==
  /\ t \in Nat /\ t <= minute
  /\ row \in 1..Len(briefings)
  /\ row < Len(briefings) => t <= briefings[row + 1].since

BriefInv ==
  /\ clock \in 1..Len(Instants)
  /\ briefings \in Seq(Briefing)
  /\ generator \in [Generators -> [at : {"idle", "done"}] \cup [at : {"model"}, prompt : Prompts]]
  /\ cdn # Nobody => LatestAt(cdn.row, cdn.fetched)
  /\ served # Nobody =>
       \E t \in Nat : LatestAt(served.row, t) /\ served.at \in Nat /\ served.at <= t + 6

(* LatestAt of the next state, for what is held or answered in it.            *)
LatestNext(row, t) ==
  /\ t \in Nat /\ t <= minute'
  /\ row \in 1..Len(briefings')
  /\ row < Len(briefings') => t <= briefings'[row + 1].since

(* Minutes pass: what was the latest row stays so, and rows are only added.   *)
LEMMA LatestKept ==
  ASSUME NEW row, NEW t, BriefInv, LatestAt(row, t), minute' \in Nat, minute <= minute', minute \in Nat,
         \/ briefings' = briefings
         \/ \E b \in Briefing : b.since = minute /\ briefings' = Append(briefings, b)
  PROVE  LatestNext(row, t)
<1>0. briefings \in Seq(Briefing) /\ t \in Nat /\ t <= minute /\ row \in 1..Len(briefings)
      /\ (row < Len(briefings) => t <= briefings[row + 1].since)
  BY DEF BriefInv, LatestAt
<1>1. t <= minute'
  BY <1>0
<1>2. CASE briefings' = briefings
  BY <1>0, <1>1, <1>2 DEF LatestNext
<1>3. ASSUME NEW b \in Briefing, b.since = minute, briefings' = Append(briefings, b)
      PROVE  LatestNext(row, t)
  <2> HIDE DEF Briefing, minute
  <2>1. /\ Len(briefings') = Len(briefings) + 1
        /\ \A i \in 1..Len(briefings) : briefings'[i] = briefings[i]
        /\ briefings'[Len(briefings) + 1] = b
    BY <1>0, <1>3
  <2>2. Len(briefings) \in Nat
    BY <1>0
  <2>3. row \in 1..Len(briefings')
    BY <1>0, <2>1, <2>2
  <2>4. ASSUME row < Len(briefings') PROVE t <= briefings'[row + 1].since
    <3>1. CASE row < Len(briefings)
      <4>1. row + 1 \in 1..Len(briefings)
        BY <1>0, <2>2, <3>1
      <4> QED
        BY <1>0, <2>1, <3>1, <4>1
    <3>2. CASE row = Len(briefings)
      BY <1>0, <1>3, <2>1, <3>2
    <3> QED
      BY <1>0, <2>2, <3>1, <3>2
  <2> QED
    BY <1>0, <1>1, <2>3, <2>4 DEF LatestNext
<1> QED
  BY <1>2, <1>3

(* What the route answers was the latest row when it was fetched, at most six *)
(* minutes ago.                                                               *)
LEMMA BriefStep ==
  ASSUME BriefInv, [AiNext]_aiVars
  PROVE  BriefInv'
<1> DEFINE Generating == [at : {"idle", "done"}] \cup [at : {"model"}, prompt : Prompts]
           Answer == served # Nobody =>
             \E t \in Nat : LatestAt(served.row, t) /\ served.at \in Nat /\ served.at <= t + 6
           Held == cdn # Nobody => LatestAt(cdn.row, cdn.fetched)
<1>0. /\ clock \in 1..Len(Instants) /\ briefings \in Seq(Briefing)
      /\ generator \in [Generators -> Generating] /\ Held /\ Answer
  BY DEF BriefInv
<1>a. /\ Instants \in Seq(Nat)
      /\ \A i, j \in 1..Len(Instants) : i <= j => Instants[i] <= Instants[j]
  BY BriefingsAssumption
<1>b. minute \in Nat
  BY <1>0, <1>a DEF minute
<1> DEFINE NextAnswer == served' # Nobody =>
             \E t \in Nat : LatestNext(served'.row, t) /\ served'.at \in Nat /\ served'.at <= t + 6
           NextHeld == cdn' # Nobody => LatestNext(cdn'.row, cdn'.fetched)
<1>1. ASSUME clock' \in 1..Len(Instants), briefings' \in Seq(Briefing),
             generator' \in [Generators -> Generating], NextHeld, NextAnswer
      PROVE  BriefInv'
  BY <1>1 DEF BriefInv, LatestAt, LatestNext
<1>2. ASSUME minute' \in Nat, minute <= minute',
             \/ briefings' = briefings
             \/ \E b \in Briefing : b.since = minute /\ briefings' = Append(briefings, b),
             UNCHANGED <<cdn, served>>
      PROVE  NextHeld /\ NextAnswer
  <2>1. ASSUME NEW row, NEW t, LatestAt(row, t) PROVE LatestNext(row, t)
    BY <1>2, <1>b, <2>1, LatestKept
  <2> QED
    BY <1>0, <1>2, <2>1
<1>3. CASE UNCHANGED <<clock, briefings, generator, cdn, served>>
  <2>1. minute' = minute
    BY <1>3 DEF minute
  <2>2. NextHeld /\ NextAnswer
    BY <1>2, <1>3, <1>b, <2>1
  <2> HIDE DEF NextHeld, NextAnswer, Generating
  <2> QED
    BY <1>0, <1>1, <1>3, <2>2
<1>4. CASE AiTick
  <2>1. /\ clock' = clock + 1 /\ clock' \in 1..Len(Instants)
        /\ UNCHANGED <<briefings, generator, cdn, served>>
    BY <1>0, <1>4 DEF AiTick, briefVars
  <2>2. minute' \in Nat /\ minute <= minute'
    <3>1. clock \in 1..Len(Instants) /\ clock <= clock'
      BY <1>0, <2>1
    <3>2. Instants[clock] <= Instants[clock'] /\ Instants[clock'] \in Nat
      BY <1>a, <2>1, <3>1
    <3> QED
      BY <3>2 DEF minute
  <2>3. NextHeld /\ NextAnswer
    BY <1>2, <2>1, <2>2
  <2> HIDE DEF NextHeld, NextAnswer, Generating
  <2> QED
    BY <1>0, <1>1, <2>1, <2>3
<1>5. ASSUME NEW g \in Generators, generateForTicker(g) \/ insertBriefing(g) \/ generatorFails(g)
      PROVE  BriefInv'
  <2>1. UNCHANGED <<clock, cdn, served>> /\ minute' = minute
    BY <1>5 DEF generateForTicker, insertBriefing, generatorFails, minute
  <2>2. generator' \in [Generators -> Generating]
    <3>1. CASE generateForTicker(g)
      <4> DEFINE x == [at |-> "model", prompt |-> buildBellProBriefingPrompt(minute)]
      <4>1. generator' = [generator EXCEPT ![g] = x]
        BY <3>1 DEF generateForTicker
      <4>2. buildBellProBriefingPrompt(minute) \in Prompts
        BY <1>0 DEF Prompts, minute
      <4>3. x \in Generating
        BY <4>2
      <4> HIDE DEF x, Generating
      <4> QED
        BY <1>0, <4>1, <4>3
    <3>2. CASE insertBriefing(g) \/ generatorFails(g)
      BY <1>0, <3>2 DEF insertBriefing, generatorFails
    <3> QED
      BY <1>5, <3>1, <3>2
  <2>3. \/ briefings' = briefings
        \/ \E b \in Briefing : b.since = minute /\ briefings' = Append(briefings, b)
    <3>1. CASE insertBriefing(g)
      <4>1. PICK model \in {"sonnet", "stub"} :
              briefings' = Append(briefings, [prompt |-> generator[g].prompt, model |-> model,
                                              since |-> minute])
        BY <3>1 DEF insertBriefing
      <4>2. generator[g].prompt \in Prompts
        BY <1>0, <3>1 DEF insertBriefing
      <4> DEFINE b == [prompt |-> generator[g].prompt, model |-> model, since |-> minute]
      <4>3. b \in Briefing /\ b.since = minute
        <5> HIDE DEF Prompts, minute
        <5> QED
          BY <1>b, <4>2 DEF Briefing
      <4> HIDE DEF b
      <4> QED
        BY <4>1, <4>3 DEF b
    <3>2. CASE generateForTicker(g) \/ generatorFails(g)
      BY <3>2 DEF generateForTicker, generatorFails
    <3> QED
      BY <1>5, <3>1, <3>2
  <2>4. briefings' \in Seq(Briefing)
    <3> HIDE DEF Briefing
    <3> QED
      BY <1>0, <2>3
  <2>5. NextHeld /\ NextAnswer
    BY <1>2, <1>b, <2>1, <2>3
  <2> HIDE DEF NextHeld, NextAnswer, Generating
  <2> QED
    BY <1>0, <1>1, <2>1, <2>2, <2>4, <2>5
<1>6. CASE GET \/ GETFails
  <2>1. UNCHANGED <<clock, briefings, generator>> /\ minute' = minute
    BY <1>6 DEF GET, GETFails, minute
  <2>2. ASSUME NEW row, NEW t, LatestAt(row, t) PROVE LatestNext(row, t)
    BY <2>1, <2>2 DEF LatestAt, LatestNext
  <2>3. ASSUME cdn # Nobody, NEW window \in {1, 6}, held(window)
        PROVE  LatestNext(cdn.row, cdn.fetched) /\ cdn.fetched \in Nat /\ minute <= cdn.fetched + 6
    <3>1. LatestAt(cdn.row, cdn.fetched)
      BY <1>0, <2>3
    <3>2. cdn.fetched \in Nat
      BY <3>1 DEF LatestAt
    <3>3. minute - cdn.fetched <= window
      BY <2>3 DEF held
    <3> DEFINE f == cdn.fetched
    <3> HIDE DEF f, minute
    <3>4. minute <= f + 6
      BY <1>b, <3>2, <3>3 DEF f
    <3> QED
      BY <2>2, <3>1, <3>2, <3>4 DEF f
  <2>4. ASSUME NEW answer, fetchRoute(answer),
               answer # Nobody => cdn # Nobody /\ answer = cdn.row /\ held(6)
        PROVE  NextHeld /\ NextAnswer
    <3> DEFINE row == getLatestBriefing
    <3>1. CASE row = Nobody
      <4>1. cdn' = cdn /\ served' = Nobody
        BY <2>4, <3>1 DEF fetchRoute
      <4> QED
        BY <1>0, <2>2, <4>1
    <3>2. CASE row # Nobody
      <4>1. /\ cdn' = [row |-> row, fetched |-> minute]
            /\ served' = [row |-> IF answer = Nobody THEN row ELSE answer, at |-> minute]
        BY <2>4, <3>2 DEF fetchRoute
      <4>2. LatestAt(row, minute)
        <5>1. row = Len(briefings) /\ briefings # << >>
          BY <3>2 DEF getLatestBriefing
        <5> HIDE DEF minute, Briefing, row
        <5>2. Len(briefings) \in Nat /\ Len(briefings) # 0
          BY <1>0, <5>1
        <5>3. row \in 1..Len(briefings) /\ ~(row < Len(briefings))
          BY <5>1, <5>2
        <5> QED
          BY <1>b, <5>3 DEF LatestAt
      <4>3. LatestNext(row, minute)
        BY <2>2, <4>2
      <4>4. NextHeld
        BY <4>1, <4>3
      <4>5. CASE answer = Nobody
        <5>1. served'.row = row /\ served'.at = minute /\ minute <= minute + 6
          BY <1>b, <4>1, <4>5
        <5>2. NextAnswer
          BY <1>b, <4>3, <5>1
        <5> QED
          BY <4>4, <5>2
      <4>6. CASE answer # Nobody
        <5>1. served'.row = cdn.row /\ served'.at = minute
          BY <2>4, <4>1, <4>6
        <5>2. LatestNext(cdn.row, cdn.fetched) /\ cdn.fetched \in Nat /\ minute <= cdn.fetched + 6
          BY <2>3, <2>4, <4>6
        <5>3. NextAnswer
          BY <1>b, <5>1, <5>2
        <5> QED
          BY <4>4, <5>3
      <4> QED
        BY <4>5, <4>6
    <3> QED
      BY <3>1, <3>2
  <2>5. ASSUME NEW window \in {1, 6}, held(window),
               served' = [row |-> cdn.row, at |-> minute], UNCHANGED cdn
        PROVE  NextHeld /\ NextAnswer
    <3>1. cdn # Nobody
      BY <2>5 DEF held
    <3>2. LatestNext(cdn.row, cdn.fetched) /\ cdn.fetched \in Nat /\ minute <= cdn.fetched + 6
      BY <2>3, <2>5, <3>1
    <3>3. served'.row = cdn.row /\ served'.at = minute
      BY <2>5
    <3> QED
      BY <1>b, <2>5, <3>2, <3>3
  <2>6. NextHeld /\ NextAnswer
    <3>1. sMaxAge = 1 /\ sMaxAge + staleWhileRevalidate = 6
      BY DEF sMaxAge, staleWhileRevalidate
    <3>2. CASE held(sMaxAge) /\ served' = [row |-> cdn.row, at |-> minute] /\ UNCHANGED cdn
      BY <2>5, <3>1, <3>2
    <3>3. CASE held(6) /\ fetchRoute(cdn.row)
      BY <2>4, <3>3 DEF held
    <3>4. CASE fetchRoute(Nobody)
      BY <2>4, <3>4
    <3>5. CASE GETFails
      <4>1. CASE held(6)
        <5>1. served' = [row |-> cdn.row, at |-> minute] /\ UNCHANGED cdn
          BY <3>1, <3>5, <4>1 DEF GETFails
        <5> QED
          BY <2>5, <4>1, <5>1
      <4>2. CASE ~held(6)
        <5>1. served' = Nobody /\ UNCHANGED cdn
          BY <3>1, <3>5, <4>2 DEF GETFails
        <5> QED
          BY <1>0, <2>2, <5>1
      <4> QED
        BY <4>1, <4>2
    <3> QED
      BY <1>6, <3>1, <3>2, <3>3, <3>4, <3>5 DEF GET
  <2> HIDE DEF NextHeld, NextAnswer, Generating
  <2> QED
    BY <1>0, <1>1, <2>1, <2>6
<1>7. CASE \/ \E a \in Articles : insertNewsArticle(a)
           \/ \E p \in Passes : classifyPendingArticles(p) \/ passStops(p)
                                \/ \E a \in pass[p].todo : classifyArticle(p, a)
           \/ \E h \in Positions : PositionIndexed(h)
           \/ genPnlDigest
  BY <1>3, <1>7 DEF insertNewsArticle, classifyPendingArticles, passStops, classifyArticle,
     PositionIndexed, genPnlDigest, briefVars
<1> QED
  BY <1>3, <1>4, <1>5, <1>6, <1>7 DEF AiNext, aiVars, briefVars

(* What the route answers was the latest briefing at some time in the last    *)
(* six minutes, whatever runs of the script wrote meanwhile, for any instants *)
(* and number of runs (ServedWhileLatest; getLatestBriefing, GET).            *)
THEOREM ServedWhileLatestCorrect == Spec => []ServedWhileLatest
<1>1. Init => BriefInv
  <2> SUFFICES ASSUME Init PROVE BriefInv
    OBVIOUS
  <2>1. clock = 1 /\ briefings = << >> /\ cdn = Nobody /\ served = Nobody
        /\ generator = [g \in Generators |-> [at |-> "idle"]]
    BY DEF Init, AiInit, BriefInit
  <2>2. clock \in 1..Len(Instants)
    BY <2>1, BriefingsAssumption
  <2>3. generator \in [Generators -> [at : {"idle", "done"}] \cup [at : {"model"}, prompt : Prompts]]
    BY <2>1
  <2>4. briefings \in Seq(Briefing)
    <3> HIDE DEF Briefing
    <3> QED
      BY <2>1
  <2> QED
    BY <2>1, <2>2, <2>3, <2>4 DEF BriefInv
<1>2. BriefInv /\ [Next]_vars => BriefInv'
  BY Parts, BriefStep
<1>3. BriefInv => ServedWhileLatest
  <2> SUFFICES ASSUME BriefInv, served # Nobody, served.row < Len(briefings)
               PROVE  served.at <= briefings[served.row + 1].since + sMaxAge + staleWhileRevalidate
    BY DEF ServedWhileLatest
  <2>1. PICK t \in Nat : LatestAt(served.row, t) /\ served.at \in Nat /\ served.at <= t + 6
    BY DEF BriefInv
  <2> DEFINE r == served.row + 1
             since == briefings[r].since
  <2>2. t <= since /\ r \in 1..Len(briefings)
    BY <2>1 DEF LatestAt
  <2>3. since \in Nat
    <3>1. briefings[r] \in Briefing
      BY <2>2 DEF BriefInv
    <3> QED
      BY <3>1 DEF Briefing
  <2> HIDE DEF since
  <2>4. served.at <= since + 1 + 5
    BY <2>1, <2>2, <2>3
  <2> QED
    BY <2>4 DEF since, r, sMaxAge, staleWhileRevalidate
<1> QED
  BY <1>1, <1>2, <1>3, PTL DEF Spec
================================================================================
