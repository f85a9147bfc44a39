-------------------------------- MODULE Billing --------------------------------
(******************************************************************************)
(* Bell Pro subscriptions (apps/web): Helio's webhook writes one row per      *)
(* wallet into the memory of the server, and the page of a wallet polls that  *)
(* row.  Helio delivers an event late, twice or out of order; a delivery that *)
(* is refused (no configuration, no valid signature, malformed) or that no    *)
(* handler knows changes nothing and may come again.  Time is in billing      *)
(* periods.                                                                   *)
(******************************************************************************)
EXTENDS Naturals

CONSTANTS Subscribers, Periods, NoSub

VARIABLES
  now,
  events,   \* what Helio has sent: events are never withdrawn
  store,    \* the Map of lib/billing/store.ts
  cached    \* the query of useBellProSubscription, by wallet

billVars == <<now, events, store, cached>>

none == [status |-> "none", expires |-> 0]

BillInit ==
  /\ now = 0 /\ events = {}
  /\ store = [w \in Subscribers |-> none]
  /\ cached = [w \in Subscribers |-> NoSub]

(* A payment covers the period that follows it. *)
Purchase(w) ==
  /\ \E type \in {"subscription.purchased", "subscription.renewed"} :
       events' = events \union {[type |-> type, wallet |-> w, expires |-> now + 1]}
  /\ UNCHANGED <<now, store, cached>>

Cancel(w) ==
  /\ events' = events \union {[type |-> "subscription.cancelled", wallet |-> w, expires |-> 0]}
  /\ UNCHANGED <<now, store, cached>>

(* Blindly overwritten by the event delivered last. *)
upsertSubscription(w, status, expires) ==
  store' = [store EXCEPT ![w] = [status |-> status, expires |-> expires]]

POST(e) ==
  /\ upsertSubscription(e.wallet, IF e.type = "subscription.cancelled" THEN "cancelled" ELSE "active", e.expires)
  /\ UNCHANGED <<now, events, cached>>

(* Another server process, or the same one after a restart, knows nobody. *)
Restart ==
  /\ store' = [w \in Subscribers |-> none]
  /\ UNCHANGED <<now, events, cached>>

getSubscription(w) == store[w]

(* A poll that fails leaves what the last one brought. *)
refetch(w) ==
  /\ cached' = [cached EXCEPT ![w] = getSubscription(w)]
  /\ UNCHANGED <<now, events, store>>

BillTick ==
  /\ now < Periods /\ now' = now + 1
  /\ UNCHANGED <<events, store, cached>>

BillNext ==
  \/ \E w \in Subscribers : Purchase(w) \/ Cancel(w) \/ refetch(w)
  \/ \E e \in events : POST(e)
  \/ Restart \/ BillTick

(* Mutant: the status is believed without its date. *)
isBellProActive_NoExpiry(sub) == sub # NoSub /\ sub.status = "active"

isBellProActive(sub) == sub # NoSub /\ sub.status = "active" /\ sub.expires > now

(* A page unlocks the paid features only inside a period its wallet paid for, *)
(* whatever was delivered late, again or in another order, and however old    *)
(* the row it polled last is (isBellProActive, upsertSubscription).           *)
ProOnlyWhilePaid ==
  \A w \in Subscribers : isBellProActive(cached[w]) =>
    \E e \in events : e.wallet = w /\ e.type # "subscription.cancelled" /\ e.expires > now
================================================================================
