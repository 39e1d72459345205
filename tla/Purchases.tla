------------------------------- MODULE Purchases -------------------------------
(***************************************************************************)
(* Purchases of credits and premium.  Rovas: purchaseTokenHandler.ts makes *)
(* a token, Rovas reports on it to purchaseValidateHandler.ts, by events   *)
(* or by the legacy body.  Polar: polarCheckoutHandler.ts names the account *)
(* in the order, and polarWebhookHandler.ts provisions a paid order.  Both *)
(* senders repeat a report until they see it answered.                     *)
(***************************************************************************)
EXTENDS Wallets, Sequences

CONSTANTS
  Tokens,     \* Rovas checkouts
  Orders,     \* Polar orders
  Handlers,   \* Polar webhook requests in flight at once
  Amount,     \* credits of a pack
  Reordering  \* whether Rovas may repeat an earlier report after a later one

ASSUME PurchasesAssumption ==
  /\ Amount \in Nat /\ Reordering \in BOOLEAN
  /\ None \notin Orders
  /\ IsFiniteSet(Tokens) /\ IsFiniteSet(Orders) /\ Tokens \cap Orders = {}

VARIABLES
  purchaseToken,  \* the table the legacy body is looked up in
  purchaseIntent, \* the table the events are looked up in
  story,    \* what Rovas reports of a token, in order
  reported, \* how many of its reports Rovas has seen answered
  order,    \* a Polar order: the account it names, and whether it is paid
  recorded, \* rows of purchase with a polarOrderId, by order
  handler,  \* Polar webhook requests
  answered, \* orders whose webhook was answered 204 (history)
  grants,   \* how often a payment was granted (history)
  bought    \* the account the credits of a payment went to (history)

purchaseVars == <<purchaseToken, purchaseIntent, story, reported,
                  order, recorded, handler, answered, grants, bought>>

Payments == Tokens \cup Orders
Statuses == {"created", "awaiting_payment", "confirmed", "rejected"}

TokenRow   == [user: Users, item: Item]
IntentRow  == [user: Users, item: Item, status: Statuses]
OrderRow   == [user: Users, item: Item, paid: BOOLEAN]
HandlerRow == [order: Orders, user: Users]

ASSUME PurchaseRowsAssumption ==
  None \notin TokenRow /\ None \notin IntentRow /\ None \notin OrderRow /\ None \notin HandlerRow

Stories == {<<"payment-completed">>,
            <<"order-placed", "delayed-confirmed">>,
            <<"order-placed", "delayed-rejected">>,
            <<"legacy">>,
            <<"legacy", "payment-completed">>}

Events == {"order-placed", "payment-completed", "delayed-confirmed",
           "delayed-rejected", "legacy"}

InitPurchases ==
  /\ purchaseToken = [t \in Tokens |-> None]
  /\ purchaseIntent = [t \in Tokens |-> None]
  /\ story = [t \in Tokens |-> <<>>]
  /\ reported = [t \in Tokens |-> 0]
  /\ order = [o \in Orders |-> None]
  /\ recorded = [o \in Orders |-> None]
  /\ handler = [h \in Handlers |-> None]
  /\ answered = {}
  /\ grants = [p \in Payments |-> 0]
  /\ bought = [p \in Payments |-> None]

Grant(p, u, item) ==
  /\ wallet' = Granted(wallet, u, item, Amount)
  /\ grants' = [grants EXCEPT ![p] = @ + 1]
  /\ bought' = IF item = "credits" THEN [bought EXCEPT ![p] = u] ELSE bought

-------------------------------------------------------------------------------
(* Rovas *)

Checkout(t) ==
  /\ story[t] = <<>>
  /\ \E u \in Users, item \in Item, s \in Stories :
       /\ HasAccount(u)
       /\ purchaseToken' = [purchaseToken EXCEPT ![t] = [user |-> u, item |-> item]]
       /\ purchaseIntent' = [purchaseIntent EXCEPT ![t] =
                               [user |-> u, item |-> item, status |-> "created"]]
       /\ story' = [story EXCEPT ![t] = s]
  /\ UNCHANGED <<reported, order, recorded, handler, answered, grants, bought, walletVars>>

SetStatus(t, status) ==
  purchaseIntent' = [purchaseIntent EXCEPT ![t].status = status]

OrderPlaced(t) ==
  /\ SetStatus(t, "awaiting_payment")
  /\ UNCHANGED <<purchaseToken, grants, bought, wallet>>

DelayedRejected(t) ==
  /\ SetStatus(t, "rejected")
  /\ UNCHANGED <<purchaseToken, grants, bought, wallet>>

\* (mutation) only a repeated delayed-confirmed is told
AlreadyConfirmedLate(t) == purchaseIntent[t].status = "rejected"

AlreadyConfirmed(t) == purchaseIntent[t].status = "confirmed"

\* payment-completed and delayed-confirmed: "grant access (idempotently)".
Confirm(t) ==
  IF AlreadyConfirmed(t)
    THEN UNCHANGED <<purchaseIntent, purchaseToken, grants, bought, wallet>>
    ELSE /\ Grant(t, purchaseIntent[t].user, purchaseIntent[t].item)
         /\ SetStatus(t, "confirmed")
         /\ purchaseToken' = [purchaseToken EXCEPT ![t] = None]

Legacy(t) ==
  /\ Grant(t, purchaseToken[t].user, purchaseToken[t].item)
  /\ purchaseToken' = [purchaseToken EXCEPT ![t] = None]
  /\ IF purchaseIntent[t] = None THEN UNCHANGED purchaseIntent
                                 ELSE SetStatus(t, "confirmed")

\* The next report, or one Rovas repeats not having seen its answer.
Due(t) == IF Reordering THEN {n \in 1..Len(story[t]) : n <= reported[t] + 1}
          ELSE {reported[t] + 1} \cap 1..Len(story[t])

\* A row that is missing or expired answers 403.
Report(t) ==
  /\ \E n \in Due(t), seen \in BOOLEAN :
       /\ LET event == story[t][n]
          IN \/ /\ event = "legacy" /\ purchaseToken[t] # None /\ Legacy(t)
             \/ /\ event # "legacy" /\ purchaseIntent[t] # None
                /\ \/ event = "order-placed" /\ OrderPlaced(t)
                   \/ event = "delayed-rejected" /\ DelayedRejected(t)
                   \/ event \in {"payment-completed", "delayed-confirmed"} /\ Confirm(t)
       /\ reported' = IF seen /\ n = reported[t] + 1
                        THEN [reported EXCEPT ![t] = n] ELSE reported
  /\ UNCHANGED <<story, order, recorded, handler, answered, userAlias>>

\* Past expireAt the rows are not found, and cleanup() deletes them.
Expire(t) ==
  /\ purchaseToken[t] # None \/ purchaseIntent[t] # None
  /\ purchaseToken' = [purchaseToken EXCEPT ![t] = None]
  /\ purchaseIntent' = [purchaseIntent EXCEPT ![t] = None]
  /\ UNCHANGED <<story, reported, order, recorded, handler, answered, grants, bought, walletVars>>

-------------------------------------------------------------------------------
(* Polar *)

PlaceOrder(o) ==
  /\ order[o] = None
  /\ \E u \in Users, item \in Item :
       /\ HasAccount(u)
       /\ order' = [order EXCEPT ![o] = [user |-> u, item |-> item, paid |-> FALSE]]
  /\ UNCHANGED <<purchaseToken, purchaseIntent, story, reported, recorded,
                 handler, answered, grants, bought, walletVars>>

PayOrder(o) ==
  /\ order[o] # None /\ ~order[o].paid
  /\ order' = [order EXCEPT ![o].paid = TRUE]
  /\ UNCHANGED <<purchaseToken, purchaseIntent, story, reported, recorded,
                 handler, answered, grants, bought, walletVars>>

\* resolveUserId: the account named, else the one that has the customer, which
\* Polar knows by the account that checked out.
Resolved(o) ==
  IF HasAccount(order[o].user) THEN {order[o].user}
  ELSE {u \in Users : HasAccount(u) /\ wallet[u].customer = order[o].user}

\* order.paid arrives, again and again until Polar sees it answered.
OrderPaid(h, o) ==
  /\ handler[h] = None
  /\ order[o] # None /\ order[o].paid
  /\ \/ \E u \in Resolved(o) :
          /\ handler' = [handler EXCEPT ![h] = [order |-> o, user |-> u]]
          /\ UNCHANGED answered
     \/ /\ Resolved(o) = {}
        /\ answered' = answered \cup {o}
        /\ UNCHANGED handler
  /\ UNCHANGED <<purchaseToken, purchaseIntent, story, reported, order, recorded,
                 grants, bought, walletVars>>

\* affectedRows = 1: neither the order is recorded nor, IGNORE making a warning
\* of it, the foreign key refused.
Inserted(o, u) == recorded[o] = None /\ HasAccount(u)

\* The transaction that records the order and grants it.
RecordOrder(h) ==
  /\ handler[h] # None
  /\ LET o == handler[h].order
         u == handler[h].user
     IN /\ IF Inserted(o, u)
             THEN recorded' = [recorded EXCEPT ![o] = u] /\ Grant(o, u, order[o].item)
             ELSE UNCHANGED <<recorded, grants, bought, wallet>>
        /\ answered' = answered \cup {o}
  /\ handler' = [handler EXCEPT ![h] = None]
  /\ UNCHANGED <<purchaseToken, purchaseIntent, story, reported, order, userAlias>>

-------------------------------------------------------------------------------
(* What the rest of the program does to the tables *)

\* The rows of a merged account go to the other, those of a deleted one cascade
\* (`to` being None).
Repointed(row, from, to) ==
  IF row = None THEN None
  ELSE IF row.user # from THEN row
  ELSE IF to = None THEN None ELSE [row EXCEPT !.user = to]

RepointPurchases(from, to) ==
  /\ purchaseToken' = [t \in Tokens |-> Repointed(purchaseToken[t], from, to)]
  /\ purchaseIntent' = [t \in Tokens |-> Repointed(purchaseIntent[t], from, to)]
  /\ recorded' = [o \in Orders |-> IF recorded[o] = from THEN to ELSE recorded[o]]
  /\ UNCHANGED <<story, reported, order, handler, answered, grants, bought>>

\* A restart drops the requests in flight; Polar repeats them.
DropHandlers ==
  /\ handler' = [h \in Handlers |-> None]
  /\ UNCHANGED <<purchaseToken, purchaseIntent, story, reported, order, recorded,
                 answered, grants, bought>>
===============================================================================
