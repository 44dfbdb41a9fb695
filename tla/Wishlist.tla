------------------------------ MODULE Wishlist ------------------------------
(***************************************************************************)
(* The wish list as the browser store (store/wishlist.ts) and              *)
(* /api/wishlist hold it.  The store shows a change at once, sends the     *)
(* request, and takes the change back when the request fails; while one    *)
(* for the product is pending another click is refused.  The store is      *)
(* filled by two components: WishlistInitializer, with the list it fetches *)
(* when the session has loaded and again whenever the session's object     *)
(* changes before a list has arrived, or the button of a product page,     *)
(* with the product the server rendered as wished for.  Every list that    *)
(* was asked for fills the store when it arrives.                          *)
(***************************************************************************)
EXTENDS Naturals

CONSTANTS
  Wishable,     \* products
  Fetches,      \* calls for the list that may be under way at once
  MaxLosses     \* bound: calls that fail or whose answer is lost

VARIABLES
  saved,        \* the products with a Wishlist row of the member
  shown,        \* the store's ids
  pending,      \* the store's pending
  initialized,  \* the store's flag
  session,      \* useSession: "loading" or "in"
  fetched,      \* by fetch: "none", "sent", "answered"
  list,         \* by fetch: what it was answered
  wish,         \* by product: the request, "add" or "remove", and its progress
  losses,
  doubtful,     \* history: products the store was given no true answer about
  changed       \* history, by fetch: products clicked since its list was read

wishVars == <<saved, shown, pending, initialized, session, fetched, list, wish,
              losses, doubtful, changed>>

NoWish == [do |-> "none", step |-> "none"]

WishTypeOK ==
  /\ {saved, shown, pending, doubtful} \subseteq SUBSET Wishable
  /\ {list, changed} \subseteq [Fetches -> SUBSET Wishable]
  /\ initialized \in BOOLEAN
  /\ session \in {"loading", "in"}
  /\ fetched \in [Fetches -> {"none", "sent", "answered"}]
  /\ \A p \in Wishable :
       wish[p] = NoWish \/ wish[p] \in [do : {"add", "remove"}, step : {"sent", "ok", "failed"}]

WishInit ==
  /\ saved \in SUBSET Wishable
  /\ shown = {} /\ pending = {}
  /\ list = [f \in Fetches |-> {}] /\ changed = list
  /\ initialized = FALSE
  /\ session = "loading"
  /\ fetched = [f \in Fetches |-> "none"]
  /\ wish = [p \in Wishable |-> NoWish]
  /\ losses = 0
  /\ doubtful = Wishable

-----------------------------------------------------------------------------
(* Filling the store.                                                      *)
ButtonMounts(p) ==
  /\ ~initialized
  /\ p \in saved
  /\ shown' = {p}
  /\ initialized' = TRUE
  /\ UNCHANGED <<saved, pending, session, fetched, list, wish, losses, doubtful, changed>>

(* The initializer's effect, for each object the session becomes: it       *)
(* fetches unless the store is filled by now.                              *)
SessionChanges(f) ==
  /\ fetched[f] = "none"
  /\ session' = "in"
  /\ fetched' = IF initialized THEN fetched ELSE [fetched EXCEPT ![f] = "sent"]
  /\ UNCHANGED <<saved, shown, pending, initialized, list, wish, losses, doubtful, changed>>

ListRead(f) ==
  /\ fetched[f] = "sent"
  /\ fetched' = [fetched EXCEPT ![f] = "answered"]
  /\ list' = [list EXCEPT ![f] = saved]
  /\ changed' = [changed EXCEPT ![f] = pending]
  /\ UNCHANGED <<saved, shown, pending, initialized, session, wish, losses, doubtful>>

ListArrives(f) ==
  /\ fetched[f] = "answered"
  /\ fetched' = [fetched EXCEPT ![f] = "none"]
  /\ shown' = list[f]
  /\ initialized' = TRUE
  /\ doubtful' = changed[f]
  /\ list' = [list EXCEPT ![f] = {}]
  /\ changed' = [changed EXCEPT ![f] = {}]
  /\ UNCHANGED <<saved, pending, session, wish, losses>>

(* A failed fetch fills the store with nothing.                            *)
ListFails(f) ==
  /\ fetched[f] = "sent"
  /\ losses < MaxLosses
  /\ losses' = losses + 1
  /\ fetched' = [fetched EXCEPT ![f] = "none"]
  /\ shown' = {}
  /\ initialized' = TRUE
  /\ doubtful' = Wishable
  /\ UNCHANGED <<saved, pending, session, list, wish, changed>>

-----------------------------------------------------------------------------
(* A click on the heart.                                                   *)
Free(p) == p \notin pending

Toggle(p) ==
  /\ Free(p)
  /\ wish' = [wish EXCEPT ![p] =
       [do |-> IF p \in shown THEN "remove" ELSE "add", step |-> "sent"]]
  /\ shown' = IF p \in shown THEN shown \ {p} ELSE shown \cup {p}
  /\ pending' = pending \cup {p}
  /\ changed' = [f \in Fetches |-> IF fetched[f] = "answered" THEN changed[f] \cup {p}
                                   ELSE changed[f]]
  /\ UNCHANGED <<saved, initialized, session, fetched, list, losses, doubtful>>

Saves(p) == saved' = IF wish[p].do = "add" THEN saved \cup {p} ELSE saved \ {p}

(* The route: an upsert or a deleteMany; either may be repeated.           *)
Served(p) ==
  /\ wish[p].step = "sent"
  /\ Saves(p)
  /\ wish' = [wish EXCEPT ![p].step = "ok"]
  /\ UNCHANGED <<shown, pending, initialized, session, fetched, list, losses, doubtful, changed>>

NotServed(p) ==
  /\ wish[p].step = "sent"
  /\ losses < MaxLosses
  /\ losses' = losses + 1
  /\ wish' = [wish EXCEPT ![p].step = "failed"]
  /\ UNCHANGED <<saved, shown, pending, initialized, session, fetched, list, doubtful, changed>>

AnswerLost(p) ==
  /\ wish[p].step = "sent"
  /\ losses < MaxLosses
  /\ losses' = losses + 1
  /\ Saves(p)
  /\ wish' = [wish EXCEPT ![p].step = "failed"]
  /\ doubtful' = doubtful \cup {p}
  /\ UNCHANGED <<shown, pending, initialized, session, fetched, list, changed>>

Settles_KeepsShown(p) ==
  /\ wish[p].step \in {"ok", "failed"}
  /\ pending' = pending \ {p}
  /\ wish' = [wish EXCEPT ![p] = NoWish]
  /\ UNCHANGED <<saved, shown, initialized, session, fetched, list, losses, doubtful, changed>>

Settles(p) ==
  /\ wish[p].step \in {"ok", "failed"}
  /\ shown' = CASE wish[p].step = "ok"  -> shown
                [] wish[p] = [do |-> "add", step |-> "failed"] -> shown \ {p}
                [] wish[p] = [do |-> "remove", step |-> "failed"] -> shown \cup {p}
  /\ pending' = pending \ {p}
  /\ wish' = [wish EXCEPT ![p] = NoWish]
  /\ UNCHANGED <<saved, initialized, session, fetched, list, losses, doubtful, changed>>

WishNext ==
  \/ \E f \in Fetches :
       SessionChanges(f) \/ ListRead(f) \/ ListArrives(f) \/ ListFails(f)
  \/ \E p \in Wishable :
       \/ ButtonMounts(p)
       \/ Toggle(p)
       \/ Served(p) \/ NotServed(p) \/ AnswerLost(p)
       \/ Settles(p)

WishSpec == WishInit /\ [][WishNext]_wishVars

-----------------------------------------------------------------------------
(* Once a list has arrived, and unless an answer was lost or the last list *)
(* was read before a click it overtook, a heart at rest shows whether the  *)
(* row exists, however clicks, failures and rollbacks interleave.          *)
HeartTellsTheTruth ==
  \A p \in Wishable \ (pending \cup doubtful) : p \in shown <=> p \in saved
=============================================================================
