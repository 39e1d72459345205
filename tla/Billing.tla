-------------------------------- MODULE Billing --------------------------------
(***************************************************************************)
(* Purchases and paid downloads together over the accounts they credit and *)
(* charge, while those are merged into one another and deleted.            *)
(***************************************************************************)
EXTENDS Purchases, MapDownloads

CONSTANTS
  InitialCredits, \* of a new account
  Customers,      \* accounts whose Polar customer ID is stored
  Subscribers,    \* those of them with a live subscription
  MergesDuring    \* what a merge of its account may overtake: "download", "order"

ASSUME BillingAssumption ==
  /\ InitialCredits \in Nat
  /\ Subscribers \subseteq Customers /\ Customers \subseteq Users
  /\ MergesDuring \subseteq {"download", "order"}

vars == <<walletVars, purchaseVars, downloadVars>>

\* Only subscription events store a customer ID.
Init ==
  /\ wallet = [u \in Users |->
       [credits |-> InitialCredits, premium |-> IF u \in Subscribers THEN 1 ELSE 0,
        customer |-> IF u \in Customers THEN u ELSE None,
        subscribed |-> u \in Subscribers]]
  /\ userAlias = [u \in Users |-> None]
  /\ InitPurchases
  /\ InitDownloads

\* An order whose provisioning is still to come names the account.
OrderOpen(u) == \E o \in Orders \ answered : order[o] # None /\ order[o].user = u

Overtakes(u) ==
  (IF \E j \in Jobs : Working(j) /\ buyer[j] = u THEN {"download"} ELSE {})
  \cup (IF OrderOpen(u) THEN {"order"} ELSE {})

Merge(target, source) ==
  /\ Overtakes(source) \subseteq MergesDuring
  /\ MergeWallets(target, source)
  /\ RepointPurchases(source, target)
  /\ RepointNotes(source, target)

DeleteAccount(u) ==
  /\ DeleteWallet(u)
  /\ RepointPurchases(u, None)
  /\ RepointNotes(u, None)

Restart ==
  /\ \E h \in Handlers : handler[h] # None
  /\ DropHandlers
  /\ job' = [j \in Jobs |-> IF Working(j) THEN "dead" ELSE job[j]]
  /\ UNCHANGED <<buyer, refund, blockedCredit, paid, walletVars>>

PurchaseStep ==
  /\ \/ \E t \in Tokens : Checkout(t) \/ Report(t) \/ Expire(t)
     \/ \E o \in Orders : PlaceOrder(o) \/ PayOrder(o)
     \/ \E h \in Handlers : RecordOrder(h) \/ \E o \in Orders : OrderPaid(h, o)
  /\ UNCHANGED downloadVars

JobStep(j) ==
  /\ \/ FinishDownload(j) \/ FailDownload(j) \/ MailFailure(j) \/ JobDies(j) \/ Settle(j)
  /\ UNCHANGED purchaseVars

StartStep(j)  == StartDownload(j) /\ UNCHANGED purchaseVars
DayStep(j)    == DayPasses(j) /\ UNCHANGED purchaseVars
CleanUpStep   == CleanUpNotes /\ UNCHANGED purchaseVars

Next ==
  \/ PurchaseStep
  \/ \E j \in Jobs : StartStep(j) \/ JobStep(j) \/ DayStep(j)
  \/ CleanUpStep
  \/ \E target, source \in Users : Merge(target, source)
  \/ \E u \in Users : DeleteAccount(u)
  \/ Restart

\* A job ends in the end, a day passes, and cleanup() runs every hour.
Fairness ==
  /\ \A j \in Jobs : WF_vars(JobStep(j)) /\ WF_vars(DayStep(j))
  /\ WF_vars(CleanUpStep)

Spec == Init /\ [][Next]_vars /\ Fairness

-------------------------------------------------------------------------------
(* What billing promises *)

\* Every variable stays within its type.
TypeOK ==
  /\ wallet \in [Users -> Wallet \cup {None}]
  /\ userAlias \in [Users -> Users \cup {None}]
  /\ purchaseToken \in [Tokens -> TokenRow \cup {None}]
  /\ purchaseIntent \in [Tokens -> IntentRow \cup {None}]
  /\ story \in [Tokens -> Stories \cup {<<>>}]
  /\ reported \in [Tokens -> Nat]
  /\ order \in [Orders -> OrderRow \cup {None}]
  /\ recorded \in [Orders -> Users \cup {None}]
  /\ handler \in [Handlers -> HandlerRow \cup {None}]
  /\ answered \subseteq Orders
  /\ grants \in [Payments -> Nat]
  /\ bought \in [Payments -> Users \cup {None}]
  /\ job \in [Jobs -> JobStates]
  /\ buyer \in [Jobs -> Users \cup {None}]
  /\ refund \in [Jobs -> BOOLEAN]
  /\ blockedCredit \in [Jobs -> NoteRow \cup {None}]
  /\ paid \subseteq Jobs

\* "grant access (idempotently)" (purchaseValidateHandler.ts:176), "a redelivered
\* webhook inserts nothing and grants nothing" (polarWebhookHandler.ts:262): a
\* payment is granted at most once, whatever is repeated, by whichever of the
\* callbacks, and however webhooks for one order overlap.
GrantedOnce == \A p \in Payments : grants[p] <= 1

\* "That last step matters after an account merge ... without it renewals for the
\* surviving user would silently provision nothing" (polarWebhookHandler.ts:114):
\* a paid order that was answered is provisioned, whatever became of the account
\* it names, unless that is deleted.
AnsweredIsGranted ==
  \A o \in answered : grants[o] >= 1 \/ Deleted(order[o].user)

\* So a payment that was reported is granted once, no less and no more.
GrantedExactlyOnce == GrantedOnce /\ AnsweredIsGranted

\* The account itself and those merged into it, the payments whose credits they
\* got, and the maps they were charged for and have not got back.
Absorbed(u) == {x \in Users : x = u \/ userAlias[x] = u}
PacksOf(u)  == {p \in Payments : bought[p] \in Absorbed(u)}
MapsOf(u)   == {j \in Jobs : /\ buyer[j] \in Absorbed(u)
                             /\ j \in paid \/ blockedCredit[j] # None}

\* "your credits have been refunded" (downloadMapHandler.ts): no account's credits
\* are made or lost.  Charges, refunds by the job or by cleanup(), purchases and
\* merges in any order leave each account with what it began with, all that the
\* accounts merged into it brought, and what was bought, once, less the maps.
CreditsBalance ==
  \A u \in Users : HasAccount(u) =>
    wallet[u].credits = InitialCredits * Cardinality(Absorbed(u))
                        + Amount * Cardinality(PacksOf(u)) - Price * Cardinality(MapsOf(u))

\* A note does not stay: the job drops it, or cleanup() gives the credits back.
NotesAreSettled ==
  \A j \in Jobs : blockedCredit[j] # None ~> blockedCredit[j] = None
===============================================================================
