----------------------------- MODULE BillingProofs -----------------------------
(***************************************************************************)
(* Theorems about Billing, for any accounts, checkouts, orders, webhook    *)
(* requests and downloads: payments are granted once, and credits balance. *)
(***************************************************************************)
EXTENDS Billing, TilePackage, FiniteSetTheorems, TLAPS

-------------------------------------------------------------------------------
(* The invariant *)

\* Where the rows of an account are now: with it, with the one it was merged into,
\* or gone.
Home(x) == IF HasAccount(x) THEN x ELSE userAlias[x]

AliasesLead ==
  \A x \in Users : userAlias[x] # None => ~HasAccount(x) /\ HasAccount(userAlias[x])

\* The foreign keys.
RowsAreOwned ==
  /\ \A t \in Tokens : /\ purchaseToken[t] # None => HasAccount(purchaseToken[t].user)
                       /\ purchaseIntent[t] # None => HasAccount(purchaseIntent[t].user)
  /\ \A o \in Orders : recorded[o] # None => HasAccount(recorded[o])
  /\ \A j \in Jobs : blockedCredit[j] # None => HasAccount(blockedCredit[j].user)

\* A Polar customer is kept by the account its own is now.
CustomersAtHome ==
  \A a, c \in Users : HasAccount(a) /\ wallet[a].customer = c => Home(c) = a

\* A granted order is recorded with the account the named one is now, or that
\* one is gone and no request can find another.
OrdersGrantOnce ==
  \A o \in Orders :
    /\ order[o] = None => grants[o] = 0 /\ recorded[o] = None /\ o \notin answered
    /\ grants[o] <= 1
    /\ recorded[o] # None => grants[o] = 1 /\ recorded[o] = Home(order[o].user)
    /\ grants[o] = 1 /\ recorded[o] = None => Home(order[o].user) = None

HandlersFit ==
  \A h \in Handlers : handler[h] # None =>
    /\ order[handler[h].order] # None
    /\ HasAccount(handler[h].user) => Home(order[handler[h].order].user) = handler[h].user

BuyersKnown == \A j \in Jobs : job[j] # "idle" => buyer[j] # None

BillingInv ==
  /\ TypeOK /\ AliasesLead /\ RowsAreOwned /\ CustomersAtHome
  /\ OrdersGrantOnce /\ HandlersFit /\ BuyersKnown

\* A granted token has no row left that a report still to come would grant again.
TokensGrantOnce ==
  \A t \in Tokens :
    /\ grants[t] <= 1
    /\ story[t] = <<>> => grants[t] = 0
    /\ grants[t] = 1 =>
         /\ purchaseToken[t] = None
         /\ purchaseIntent[t] # None => purchaseIntent[t].status = "confirmed"
         /\ \A n \in 1..Len(story[t]) :
              n > reported[t] => story[t][n] \notin {"order-placed", "delayed-rejected"}

\* An order still to be provisioned names an account that is there or deleted.
OpenOrdersStay ==
  \A o \in Orders \ answered : order[o] # None =>
    /\ userAlias[order[o].user] = None
    /\ \A h \in Handlers : handler[h] # None /\ handler[h].order = o
                             => handler[h].user = order[o].user

\* The note of a job is with its buyer's account; as long as the job works, the
\* note is there and new, and its buyer not merged away.
NotesFit ==
  \A j \in Jobs :
    /\ job[j] \in {"idle", "done"} => blockedCredit[j] = None
    /\ job[j] = "idle" => buyer[j] = None
    /\ j \in paid => job[j] = "done"
    /\ blockedCredit[j] # None => blockedCredit[j].user = Home(buyer[j])
    /\ Working(j) => /\ userAlias[buyer[j]] = None
                     /\ HasAccount(buyer[j]) => blockedCredit[j] # None
                     /\ blockedCredit[j] # None => ~blockedCredit[j].old

BoughtIsGranted == \A p \in Payments : bought[p] # None => grants[p] = 1

-------------------------------------------------------------------------------
(* Wallets *)

\* What a grant, a charge and a refund leave of the wallets: only credits and
\* premium change.
WalletsKept ==
  /\ wallet' \in [Users -> Wallet \cup {None}]
  /\ userAlias' = userAlias
  /\ \A x \in Users : /\ HasAccount(x)' <=> HasAccount(x)
                      /\ HasAccount(x) => wallet'[x].customer = wallet[x].customer

LEMMA CreditedKeeps ==
  ASSUME NEW w \in [Users -> Wallet \cup {None}], NEW u \in Users, NEW amount \in Int
  PROVE  /\ Credited(w, u, amount) \in [Users -> Wallet \cup {None}]
         /\ \A x \in Users \ {u} : Credited(w, u, amount)[x] = w[x]
         /\ w[u] = None => Credited(w, u, amount)[u] = None
         /\ w[u] # None => /\ Credited(w, u, amount)[u] # None
                           /\ Credited(w, u, amount)[u].credits = w[u].credits + amount
                           /\ Credited(w, u, amount)[u].customer = w[u].customer
<1>1. CASE w[u] = None
  BY <1>1 DEF Credited
<1>2. CASE w[u] # None
  <2>1. w[u] \in Wallet
    BY <1>2
  <2> DEFINE v == [w[u] EXCEPT !.credits = @ + amount]
  <2>2. v \in Wallet /\ v.credits = w[u].credits + amount /\ v.customer = w[u].customer
    BY <2>1 DEF Wallet
  <2>3. Credited(w, u, amount) = [w EXCEPT ![u] = v]
    BY <1>2 DEF Credited
  <2>4. v # None
    BY <2>2, WalletAssumption
  <2> HIDE DEF v
  <2> QED BY <1>2, <2>2, <2>3, <2>4
<1> QED BY <1>1, <1>2

LEMMA GrantedKeeps ==
  ASSUME NEW w \in [Users -> Wallet \cup {None}], NEW u \in Users, NEW item \in Item
  PROVE  /\ Granted(w, u, item, Amount) \in [Users -> Wallet \cup {None}]
         /\ \A x \in Users : Granted(w, u, item, Amount)[x] = None <=> w[x] = None
         /\ \A x \in Users : w[x] # None =>
              /\ Granted(w, u, item, Amount)[x].customer = w[x].customer
              /\ Granted(w, u, item, Amount)[x].credits =
                   IF x = u /\ item = "credits" THEN w[x].credits + Amount ELSE w[x].credits
<1>1. CASE item = "credits"
  BY <1>1, CreditedKeeps, PurchasesAssumption DEF Granted
<1>2. CASE item # "credits" /\ w[u] = None
  BY <1>2 DEF Granted
<1>3. CASE item # "credits" /\ w[u] # None
  <2>1. w[u] \in Wallet
    BY <1>3
  <2> DEFINE v == [w[u] EXCEPT !.premium = @ + 1]
  <2>2. v \in Wallet /\ v.credits = w[u].credits /\ v.customer = w[u].customer
    BY <2>1 DEF Wallet
  <2>3. Granted(w, u, item, Amount) = [w EXCEPT ![u] = v]
    BY <1>3 DEF Granted
  <2>4. v # None
    BY <2>2, WalletAssumption
  <2> HIDE DEF v
  <2> QED BY <1>3, <2>2, <2>3, <2>4
<1> QED BY <1>1, <1>2, <1>3

LEMMA MergedIsWallet ==
  ASSUME NEW a \in Wallet, NEW b \in Wallet
  PROVE  /\ MergedWallet(a, b) \in Wallet
         /\ MergedWallet(a, b).credits = a.credits + b.credits
         /\ MergedWallet(a, b).customer \in {a.customer, b.customer}
BY DEF MergedWallet, Wallet, Later

LEMMA MergeMoves ==
  ASSUME TypeOK, AliasesLead, NEW target \in Users, NEW source \in Users,
         MergeWallets(target, source)
  PROVE  /\ HasAccount(target) /\ HasAccount(source) /\ target # source
         /\ wallet' \in [Users -> Wallet \cup {None}]
         /\ userAlias' \in [Users -> Users \cup {None}]
         /\ \A x \in Users \ {target, source} : wallet'[x] = wallet[x]
         /\ wallet'[target] = MergedWallet(wallet[target], wallet[source])
         /\ \A x \in Users : HasAccount(x)' <=> HasAccount(x) /\ x # source
         /\ \A x \in Users : userAlias'[x] = IF x = source \/ userAlias[x] = source
                                               THEN target ELSE userAlias[x]
         /\ \A x \in Users : Home(x)' = IF Home(x) = source THEN target ELSE Home(x)
         /\ AliasesLead'
<1> USE UsersAssumption
<1>1. /\ wallet[target] \in Wallet /\ wallet[source] \in Wallet
      /\ target # source /\ HasAccount(target) /\ HasAccount(source)
  BY DEF MergeWallets, HasAccount, TypeOK
<1> DEFINE m == MergedWallet(wallet[target], wallet[source])
<1>2. m \in Wallet /\ m # None
  BY <1>1, MergedIsWallet, WalletAssumption
<1>3. wallet' = [wallet EXCEPT ![target] = m, ![source] = None]
  BY DEF MergeWallets
<1> HIDE DEF m
<1>4. /\ wallet' \in [Users -> Wallet \cup {None}]
      /\ wallet'[target] = m /\ wallet'[source] = None
      /\ \A x \in Users \ {target, source} : wallet'[x] = wallet[x]
  BY <1>1, <1>2, <1>3 DEF TypeOK
<1>5. \A x \in Users : HasAccount(x)' <=> HasAccount(x) /\ x # source
  BY <1>1, <1>2, <1>4 DEF HasAccount
<1>6. /\ userAlias' \in [Users -> Users \cup {None}]
      /\ \A x \in Users : userAlias'[x] = IF x = source \/ userAlias[x] = source
                                            THEN target ELSE userAlias[x]
  BY DEF MergeWallets, TypeOK
<1>7. \A x \in Users : userAlias[x] # None => ~HasAccount(x)
  BY DEF AliasesLead
<1>8. \A x \in Users : Home(x)' = IF Home(x) = source THEN target ELSE Home(x)
  BY <1>1, <1>5, <1>6, <1>7 DEF Home
<1>9. AliasesLead'
  BY <1>1, <1>5, <1>6 DEF AliasesLead, TypeOK
<1> QED BY <1>1, <1>4, <1>5, <1>6, <1>8, <1>9 DEF m

LEMMA DeleteMoves ==
  ASSUME TypeOK, AliasesLead, NEW u \in Users, DeleteWallet(u)
  PROVE  /\ HasAccount(u)
         /\ wallet' \in [Users -> Wallet \cup {None}]
         /\ userAlias' \in [Users -> Users \cup {None}]
         /\ \A x \in Users \ {u} : wallet'[x] = wallet[x]
         /\ \A x \in Users : HasAccount(x)' <=> HasAccount(x) /\ x # u
         /\ \A x \in Users : userAlias'[x] = IF userAlias[x] = u THEN None ELSE userAlias[x]
         /\ \A x \in Users : Home(x)' = IF Home(x) = u THEN None ELSE Home(x)
         /\ AliasesLead'
<1> USE UsersAssumption
<1>1. /\ wallet' \in [Users -> Wallet \cup {None}] /\ HasAccount(u)
      /\ wallet'[u] = None /\ \A x \in Users \ {u} : wallet'[x] = wallet[x]
      /\ userAlias' \in [Users -> Users \cup {None}]
      /\ \A x \in Users : userAlias'[x] = IF userAlias[x] = u THEN None ELSE userAlias[x]
  BY DEF DeleteWallet, TypeOK
<1>2. \A x \in Users : HasAccount(x)' <=> HasAccount(x) /\ x # u
  BY <1>1 DEF HasAccount
<1>3. userAlias[u] = None
  BY <1>1 DEF AliasesLead
<1>4. \A x \in Users : Home(x)' = IF Home(x) = u THEN None ELSE Home(x)
  BY <1>1, <1>2, <1>3 DEF Home
<1>5. AliasesLead'
  BY <1>1, <1>2 DEF AliasesLead, TypeOK
<1> QED BY <1>1, <1>2, <1>4, <1>5

-------------------------------------------------------------------------------
(* The handlers *)

LEMMA KeptHomes ==
  ASSUME TypeOK, AliasesLead, CustomersAtHome, WalletsKept
  PROVE  /\ \A x \in Users : Home(x)' = Home(x)
         /\ AliasesLead' /\ CustomersAtHome'
<1>1. \A x \in Users : /\ HasAccount(x)' <=> HasAccount(x)
                       /\ userAlias'[x] = userAlias[x]
                       /\ HasAccount(x) => wallet'[x].customer = wallet[x].customer
  BY DEF WalletsKept
<1>2. \A x \in Users : Home(x)' = Home(x)
  BY <1>1 DEF Home
<1>3. AliasesLead'
  <2>1. userAlias' = userAlias
    BY DEF WalletsKept
  <2>2. \A x \in Users : userAlias[x] # None => userAlias[x] \in Users
    BY DEF TypeOK
  <2> QED BY <1>1, <2>1, <2>2 DEF AliasesLead, HasAccount
<1>4. CustomersAtHome'
  BY <1>1, <1>2 DEF CustomersAtHome
<1> QED BY <1>2, <1>3, <1>4

LEMMA GrantKeeps ==
  ASSUME TypeOK, NEW p \in Payments, NEW u \in Users, NEW item \in Item,
         Grant(p, u, item), userAlias' = userAlias
  PROVE  /\ WalletsKept
         /\ grants' \in [Payments -> Nat]
         /\ \A q \in Payments : grants'[q] = IF q = p THEN grants[q] + 1 ELSE grants[q]
         /\ bought' \in [Payments -> Users \cup {None}]
         /\ \A q \in Payments : bought'[q] = IF q = p /\ item = "credits" THEN u ELSE bought[q]
         /\ \A x \in Users : HasAccount(x) =>
              wallet'[x].credits = IF x = u /\ item = "credits" THEN wallet[x].credits + Amount
                                                                ELSE wallet[x].credits
<1>1. /\ wallet \in [Users -> Wallet \cup {None}] /\ grants \in [Payments -> Nat]
      /\ bought \in [Payments -> Users \cup {None}]
  BY DEF TypeOK
<1>2. /\ wallet' = Granted(wallet, u, item, Amount)
      /\ grants' = [grants EXCEPT ![p] = @ + 1]
      /\ bought' = IF item = "credits" THEN [bought EXCEPT ![p] = u] ELSE bought
  BY DEF Grant
<1>3. /\ grants' \in [Payments -> Nat]
      /\ \A q \in Payments : grants'[q] = IF q = p THEN grants[q] + 1 ELSE grants[q]
  BY <1>1, <1>2
<1>4. /\ bought' \in [Payments -> Users \cup {None}]
      /\ \A q \in Payments : bought'[q] = IF q = p /\ item = "credits" THEN u ELSE bought[q]
  BY <1>1, <1>2
<1>5. /\ wallet' \in [Users -> Wallet \cup {None}]
      /\ \A x \in Users : wallet'[x] = None <=> wallet[x] = None
      /\ \A x \in Users : wallet[x] # None =>
           /\ wallet'[x].customer = wallet[x].customer
           /\ wallet'[x].credits = IF x = u /\ item = "credits" THEN wallet[x].credits + Amount
                                                                  ELSE wallet[x].credits
  BY <1>1, <1>2, GrantedKeeps
<1>6. WalletsKept
  BY <1>5 DEF WalletsKept, HasAccount
<1> QED BY <1>3, <1>4, <1>5, <1>6 DEF HasAccount

LEMMA StatusSet ==
  ASSUME TypeOK, NEW t \in Tokens, NEW status \in Statuses, purchaseIntent[t] # None,
         SetStatus(t, status)
  PROVE  /\ purchaseIntent' \in [Tokens -> IntentRow \cup {None}]
         /\ \A x \in Tokens \ {t} : purchaseIntent'[x] = purchaseIntent[x]
         /\ purchaseIntent'[t].user = purchaseIntent[t].user
         /\ purchaseIntent'[t].status = status
<1>1. purchaseIntent \in [Tokens -> IntentRow \cup {None}] /\ purchaseIntent[t] \in IntentRow
  BY DEF TypeOK
<1> DEFINE v == [purchaseIntent[t] EXCEPT !.status = status]
<1>2. v \in IntentRow /\ v.user = purchaseIntent[t].user /\ v.status = status
  BY <1>1 DEF IntentRow
<1>3. purchaseIntent' = [purchaseIntent EXCEPT ![t] = v]
  BY DEF SetStatus
<1> HIDE DEF v
<1> QED BY <1>1, <1>2, <1>3

\* What a report changes: rows are only deleted and marked, and what it grants is
\* its token.
ReportChanges(t) ==
  /\ WalletsKept
  /\ purchaseToken' \in [Tokens -> TokenRow \cup {None}]
  /\ purchaseIntent' \in [Tokens -> IntentRow \cup {None}]
  /\ grants' \in [Payments -> Nat] /\ bought' \in [Payments -> Users \cup {None}]
  /\ \A x \in Tokens : /\ purchaseToken'[x] \in {purchaseToken[x], None}
                        /\ (x # t => purchaseIntent'[x] = purchaseIntent[x])
                        /\ (purchaseIntent'[x] # None =>
                             /\ purchaseIntent[x] # None
                             /\ purchaseIntent'[x].user = purchaseIntent[x].user)
  /\ \A q \in Payments \ {t} : grants'[q] = grants[q]

LEMMA NothingGranted ==
  ASSUME TypeOK, UNCHANGED <<grants, bought, walletVars>>
  PROVE  /\ WalletsKept
         /\ grants' \in [Payments -> Nat] /\ bought' \in [Payments -> Users \cup {None}]
         /\ \A q \in Payments : grants'[q] = grants[q]
BY DEF WalletsKept, HasAccount, TypeOK, walletVars

LEMMA ConfirmActs ==
  ASSUME TypeOK, NEW t \in Tokens, purchaseIntent[t] # None, userAlias' = userAlias,
         Confirm(t)
  PROVE  ReportChanges(t)
<1>1. /\ purchaseToken \in [Tokens -> TokenRow \cup {None}]
      /\ purchaseIntent \in [Tokens -> IntentRow \cup {None}] /\ t \in Payments
  BY DEF TypeOK, Payments
<1>2. purchaseIntent[t].user \in Users /\ purchaseIntent[t].item \in Item
  BY <1>1 DEF IntentRow
<1>3. CASE AlreadyConfirmed(t)
  <2>1. UNCHANGED <<purchaseIntent, purchaseToken, grants, bought, wallet>>
    BY <1>3 DEF Confirm
  <2> QED BY <1>1, <2>1, NothingGranted DEF ReportChanges, walletVars
<1>4. CASE ~AlreadyConfirmed(t)
  <2>1. /\ Grant(t, purchaseIntent[t].user, purchaseIntent[t].item)
        /\ SetStatus(t, "confirmed")
        /\ purchaseToken' = [purchaseToken EXCEPT ![t] = None]
    BY <1>4 DEF Confirm
  <2>2. /\ WalletsKept
        /\ grants' \in [Payments -> Nat] /\ bought' \in [Payments -> Users \cup {None}]
        /\ \A q \in Payments \ {t} : grants'[q] = grants[q]
    BY <1>1, <1>2, <2>1, GrantKeeps
  <2>3. /\ purchaseIntent' \in [Tokens -> IntentRow \cup {None}]
        /\ \A x \in Tokens \ {t} : purchaseIntent'[x] = purchaseIntent[x]
        /\ purchaseIntent'[t].user = purchaseIntent[t].user
    BY <2>1, StatusSet DEF Statuses
  <2>4. /\ purchaseToken' \in [Tokens -> TokenRow \cup {None}]
        /\ \A x \in Tokens : purchaseToken'[x] \in {purchaseToken[x], None}
    BY <1>1, <2>1
  <2> QED BY <2>2, <2>3, <2>4 DEF ReportChanges
<1> QED BY <1>3, <1>4

LEMMA LegacyActs ==
  ASSUME TypeOK, NEW t \in Tokens, purchaseToken[t] # None, userAlias' = userAlias,
         Legacy(t)
  PROVE  ReportChanges(t)
<1>1. /\ purchaseToken \in [Tokens -> TokenRow \cup {None}]
      /\ purchaseIntent \in [Tokens -> IntentRow \cup {None}] /\ t \in Payments
  BY DEF TypeOK, Payments
<1>2. purchaseToken[t].user \in Users /\ purchaseToken[t].item \in Item
  BY <1>1 DEF TokenRow
<1>3. /\ Grant(t, purchaseToken[t].user, purchaseToken[t].item)
      /\ purchaseToken' = [purchaseToken EXCEPT ![t] = None]
  BY DEF Legacy
<1>4. /\ WalletsKept
      /\ grants' \in [Payments -> Nat] /\ bought' \in [Payments -> Users \cup {None}]
      /\ \A q \in Payments \ {t} : grants'[q] = grants[q]
  BY <1>1, <1>2, <1>3, GrantKeeps
<1>5. /\ purchaseIntent' \in [Tokens -> IntentRow \cup {None}]
      /\ \A x \in Tokens \ {t} : purchaseIntent'[x] = purchaseIntent[x]
      /\ purchaseIntent'[t] # None =>
           purchaseIntent[t] # None /\ purchaseIntent'[t].user = purchaseIntent[t].user
  <2>1. CASE purchaseIntent[t] = None
    BY <1>1, <2>1 DEF Legacy
  <2>2. CASE purchaseIntent[t] # None
    BY <2>2, StatusSet DEF Legacy, Statuses
  <2> QED BY <2>1, <2>2
<1>6. /\ purchaseToken' \in [Tokens -> TokenRow \cup {None}]
      /\ \A x \in Tokens : purchaseToken'[x] \in {purchaseToken[x], None}
  BY <1>1, <1>3
<1> QED BY <1>4, <1>5, <1>6 DEF ReportChanges

LEMMA MarkingActs ==
  ASSUME TypeOK, NEW t \in Tokens, purchaseIntent[t] # None, userAlias' = userAlias,
         OrderPlaced(t) \/ DelayedRejected(t)
  PROVE  ReportChanges(t)
<1>1. /\ purchaseToken \in [Tokens -> TokenRow \cup {None}]
      /\ UNCHANGED <<purchaseToken, grants, bought, wallet>>
  BY DEF TypeOK, OrderPlaced, DelayedRejected
<1>2. /\ purchaseIntent' \in [Tokens -> IntentRow \cup {None}]
      /\ \A x \in Tokens \ {t} : purchaseIntent'[x] = purchaseIntent[x]
      /\ purchaseIntent'[t].user = purchaseIntent[t].user
  BY StatusSet DEF OrderPlaced, DelayedRejected, Statuses
<1> QED BY <1>1, <1>2, NothingGranted DEF ReportChanges, walletVars

LEMMA ReportActs ==
  ASSUME TypeOK, NEW t \in Tokens, Report(t)
  PROVE  /\ ReportChanges(t)
         /\ reported' \in [Tokens -> Nat]
         /\ UNCHANGED <<story, order, recorded, handler, answered>>
<1>1. PICK n \in Due(t), seen \in BOOLEAN :
        /\ LET event == story[t][n]
           IN \/ /\ event = "legacy" /\ purchaseToken[t] # None /\ Legacy(t)
              \/ /\ event # "legacy" /\ purchaseIntent[t] # None
                 /\ \/ event = "order-placed" /\ OrderPlaced(t)
                    \/ event = "delayed-rejected" /\ DelayedRejected(t)
                    \/ event \in {"payment-completed", "delayed-confirmed"} /\ Confirm(t)
        /\ reported' = IF seen /\ n = reported[t] + 1
                         THEN [reported EXCEPT ![t] = n] ELSE reported
  BY DEF Report
<1>2. userAlias' = userAlias /\ UNCHANGED <<story, order, recorded, handler, answered>>
  BY DEF Report
<1>3. ReportChanges(t)
  BY <1>1, <1>2, ConfirmActs, LegacyActs, MarkingActs
<1>4. reported' \in [Tokens -> Nat]
  <2>1. reported \in [Tokens -> Nat]
    BY DEF TypeOK
  <2> QED BY <1>1, <2>1
<1> QED BY <1>2, <1>3, <1>4

-------------------------------------------------------------------------------
(* The invariant is kept *)

LEMMA KeptOrders ==
  ASSUME BillingInv, WalletsKept, UNCHANGED <<order, recorded, handler, answered>>,
         \A o \in Orders : grants'[o] = grants[o]
  PROVE  AliasesLead' /\ CustomersAtHome' /\ OrdersGrantOnce' /\ HandlersFit'
<1>1. /\ \A x \in Users : Home(x)' = Home(x)
      /\ AliasesLead' /\ CustomersAtHome'
  BY KeptHomes DEF BillingInv
<1>2. \A x \in Users : HasAccount(x)' <=> HasAccount(x)
  BY DEF WalletsKept
<1>3. \A o \in Orders : order[o] # None => order[o].user \in Users
  BY DEF BillingInv, TypeOK, OrderRow
<1>4. OrdersGrantOnce'
  BY <1>1, <1>3 DEF BillingInv, OrdersGrantOnce, Home, HasAccount
<1>5. \A h \in Handlers : handler[h] # None => handler[h].user \in Users /\ handler[h].order \in Orders
  BY DEF BillingInv, TypeOK, HandlerRow
<1>6. HandlersFit'
  BY <1>1, <1>2, <1>3, <1>5 DEF BillingInv, HandlersFit, Home, HasAccount
<1> QED BY <1>1, <1>4, <1>6

LEMMA InvReport ==
  ASSUME BillingInv, NEW t \in Tokens, Report(t), UNCHANGED downloadVars
  PROVE  BillingInv'
<1>1. /\ ReportChanges(t) /\ reported' \in [Tokens -> Nat]
      /\ UNCHANGED <<story, order, recorded, handler, answered>>
  BY ReportActs DEF BillingInv
<1>2. TypeOK'
  BY <1>1 DEF BillingInv, TypeOK, ReportChanges, WalletsKept, downloadVars
<1>3. \A o \in Orders : grants'[o] = grants[o]
  BY <1>1, PurchasesAssumption DEF ReportChanges, Payments
<1>4. AliasesLead' /\ CustomersAtHome' /\ OrdersGrantOnce' /\ HandlersFit'
  BY <1>1, <1>3, KeptOrders DEF ReportChanges
<1>5. RowsAreOwned'
  <2>1. /\ \A x \in Users : HasAccount(x) => wallet'[x] # None
        /\ \A x \in Tokens : /\ purchaseToken[x] # None => purchaseToken[x].user \in Users
                             /\ purchaseIntent[x] # None => purchaseIntent[x].user \in Users
        /\ \A o \in Orders : recorded[o] # None => recorded[o] \in Users
        /\ \A j \in Jobs : blockedCredit[j] # None => blockedCredit[j].user \in Users
    BY <1>1 DEF BillingInv, TypeOK, ReportChanges, WalletsKept, HasAccount, TokenRow, IntentRow, NoteRow
  <2>2. \A x \in Tokens : /\ (purchaseToken'[x] # None => wallet'[purchaseToken'[x].user] # None)
                          /\ (purchaseIntent'[x] # None => wallet'[purchaseIntent'[x].user] # None)
    BY <1>1, <2>1 DEF BillingInv, ReportChanges, RowsAreOwned
  <2>3. /\ \A o \in Orders : recorded'[o] # None => wallet'[recorded'[o]] # None
        /\ \A j \in Jobs : blockedCredit'[j] # None => wallet'[blockedCredit'[j].user] # None
    BY <1>1, <2>1 DEF BillingInv, RowsAreOwned, downloadVars
  <2> QED BY <2>2, <2>3 DEF RowsAreOwned, HasAccount
<1>6. BuyersKnown'
  BY DEF BillingInv, BuyersKnown, downloadVars
<1> QED BY <1>2, <1>4, <1>5, <1>6 DEF BillingInv

LEMMA InvCheckout ==
  ASSUME BillingInv, NEW t \in Tokens, Checkout(t), UNCHANGED downloadVars
  PROVE  BillingInv'
<1>1. PICK u \in Users, item \in Item, s \in Stories :
        /\ HasAccount(u)
        /\ purchaseToken' = [purchaseToken EXCEPT ![t] = [user |-> u, item |-> item]]
        /\ purchaseIntent' = [purchaseIntent EXCEPT ![t] =
                                [user |-> u, item |-> item, status |-> "created"]]
        /\ story' = [story EXCEPT ![t] = s]
  BY DEF Checkout
<1>2. UNCHANGED <<reported, order, recorded, handler, answered, grants, bought, walletVars>>
  BY DEF Checkout
<1>3. [user |-> u, item |-> item] \in TokenRow /\ [user |-> u, item |-> item, status |-> "created"] \in IntentRow
  BY DEF TokenRow, IntentRow, Statuses
<1>4. TypeOK'
  BY <1>1, <1>2, <1>3 DEF BillingInv, TypeOK, downloadVars, walletVars
<1>5. AliasesLead' /\ CustomersAtHome' /\ OrdersGrantOnce' /\ HandlersFit'
  BY <1>2, NothingGranted, KeptOrders DEF BillingInv
<1>6. RowsAreOwned'
  BY <1>1, <1>2 DEF BillingInv, TypeOK, RowsAreOwned, HasAccount, downloadVars, walletVars
<1>7. BuyersKnown'
  BY DEF BillingInv, BuyersKnown, downloadVars
<1> QED BY <1>4, <1>5, <1>6, <1>7 DEF BillingInv

LEMMA InvExpire ==
  ASSUME BillingInv, NEW t \in Tokens, Expire(t), UNCHANGED downloadVars
  PROVE  BillingInv'
<1>1. /\ purchaseToken' = [purchaseToken EXCEPT ![t] = None]
      /\ purchaseIntent' = [purchaseIntent EXCEPT ![t] = None]
      /\ UNCHANGED <<story, reported, order, recorded, handler, answered, grants, bought, walletVars>>
  BY DEF Expire
<1>2. TypeOK'
  BY <1>1 DEF BillingInv, TypeOK, downloadVars, walletVars
<1>3. AliasesLead' /\ CustomersAtHome' /\ OrdersGrantOnce' /\ HandlersFit'
  BY <1>1, NothingGranted, KeptOrders DEF BillingInv
<1>4. RowsAreOwned'
  BY <1>1 DEF BillingInv, TypeOK, RowsAreOwned, HasAccount, downloadVars, walletVars
<1>5. BuyersKnown'
  BY DEF BillingInv, BuyersKnown, downloadVars
<1> QED BY <1>2, <1>3, <1>4, <1>5 DEF BillingInv

LEMMA InvPlaceOrder ==
  ASSUME BillingInv, NEW o \in Orders, PlaceOrder(o), UNCHANGED downloadVars
  PROVE  BillingInv'
<1>1. PICK u \in Users, item \in Item :
        order' = [order EXCEPT ![o] = [user |-> u, item |-> item, paid |-> FALSE]]
  BY DEF PlaceOrder
<1>2. /\ order[o] = None
      /\ UNCHANGED <<purchaseToken, purchaseIntent, story, reported, recorded,
                     handler, answered, grants, bought, walletVars>>
  BY DEF PlaceOrder
<1> DEFINE row == [user |-> u, item |-> item, paid |-> FALSE]
<1>3. row \in OrderRow /\ row # None /\ row.user = u
  <2>1. row \in OrderRow /\ row.user = u
    BY DEF OrderRow
  <2> HIDE DEF row
  <2> QED BY <2>1, PurchaseRowsAssumption
<1>4. /\ order' = [order EXCEPT ![o] = row]
      /\ order \in [Orders -> OrderRow \cup {None}]
  BY <1>1 DEF BillingInv, TypeOK
<1> HIDE DEF row
<1>5. order'[o] = row /\ \A x \in Orders \ {o} : order'[x] = order[x]
  BY <1>4
<1>6. TypeOK'
  BY <1>2, <1>3, <1>4 DEF BillingInv, TypeOK, downloadVars, walletVars
<1>7. AliasesLead' /\ CustomersAtHome' /\ RowsAreOwned' /\ BuyersKnown'
  BY <1>2 DEF BillingInv, AliasesLead, CustomersAtHome, RowsAreOwned, BuyersKnown, HasAccount,
     Home, walletVars, downloadVars
<1>8. OrdersGrantOnce'
  BY <1>2, <1>3, <1>5 DEF BillingInv, OrdersGrantOnce, Home, HasAccount, walletVars
<1>9. HandlersFit'
  <2>1. \A h \in Handlers : handler[h] # None => handler[h].order \in Orders
    BY DEF BillingInv, TypeOK, HandlerRow
  <2> QED BY <1>2, <1>5, <2>1 DEF BillingInv, HandlersFit, Home, HasAccount, walletVars
<1> QED BY <1>6, <1>7, <1>8, <1>9 DEF BillingInv

LEMMA OrderIsPaid ==
  ASSUME TypeOK, NEW o \in Orders, PayOrder(o)
  PROVE  /\ order' \in [Orders -> OrderRow \cup {None}]
         /\ \A x \in Orders : /\ order'[x] = None <=> order[x] = None
                              /\ order[x] # None => order'[x].user = order[x].user
<1>1. order \in [Orders -> OrderRow \cup {None}] /\ order[o] \in OrderRow
  BY DEF TypeOK, PayOrder
<1> DEFINE v == [order[o] EXCEPT !.paid = TRUE]
<1>2. v \in OrderRow /\ v.user = order[o].user /\ v # None
  <2>1. v \in OrderRow /\ v.user = order[o].user
    BY <1>1 DEF OrderRow
  <2> QED BY <2>1, PurchaseRowsAssumption
<1>3. order' = [order EXCEPT ![o] = v]
  BY DEF PayOrder
<1> HIDE DEF v
<1> QED BY <1>1, <1>2, <1>3, PurchaseRowsAssumption

LEMMA InvPayOrder ==
  ASSUME BillingInv, NEW o \in Orders, PayOrder(o), UNCHANGED downloadVars
  PROVE  BillingInv'
<1>1. /\ order' \in [Orders -> OrderRow \cup {None}]
      /\ \A x \in Orders : /\ order'[x] = None <=> order[x] = None
                           /\ order[x] # None => order'[x].user = order[x].user
  BY OrderIsPaid DEF BillingInv
<1>2. UNCHANGED <<purchaseToken, purchaseIntent, story, reported, recorded,
                  handler, answered, grants, bought, walletVars>>
  BY DEF PayOrder
<1>3. TypeOK'
  BY <1>1, <1>2 DEF BillingInv, TypeOK, downloadVars, walletVars
<1>4. AliasesLead' /\ CustomersAtHome' /\ RowsAreOwned' /\ BuyersKnown'
  BY <1>2 DEF BillingInv, AliasesLead, CustomersAtHome, RowsAreOwned, BuyersKnown, HasAccount,
     Home, walletVars, downloadVars
<1>5. OrdersGrantOnce'
  BY <1>1, <1>2 DEF BillingInv, OrdersGrantOnce, Home, HasAccount, walletVars
<1>6. HandlersFit'
  <2>1. \A h \in Handlers : handler[h] # None => handler[h].order \in Orders
    BY DEF BillingInv, TypeOK, HandlerRow
  <2> QED BY <1>1, <1>2, <2>1 DEF BillingInv, HandlersFit, Home, HasAccount, walletVars
<1> QED BY <1>3, <1>4, <1>5, <1>6 DEF BillingInv

LEMMA InvOrderPaid ==
  ASSUME BillingInv, NEW h \in Handlers, NEW o \in Orders, OrderPaid(h, o),
         UNCHANGED downloadVars
  PROVE  BillingInv'
<1>1. /\ handler[h] = None /\ order[o] # None
      /\ UNCHANGED <<purchaseToken, purchaseIntent, story, reported, order, recorded,
                     grants, bought, walletVars>>
  BY DEF OrderPaid
<1>2. order[o].user \in Users
  BY <1>1 DEF BillingInv, TypeOK, OrderRow
<1>3. /\ answered' \subseteq Orders
      /\ \A x \in Orders : order[x] = None => x \notin answered'
  <2>1. answered' \subseteq answered \cup {o}
    BY DEF OrderPaid
  <2> QED BY <1>1, <2>1 DEF BillingInv, TypeOK, OrdersGrantOnce
<1>4. \/ handler' = handler
      \/ \E u \in Users : /\ handler' = [handler EXCEPT ![h] = [order |-> o, user |-> u]]
                          /\ HasAccount(u) => Home(order[o].user) = u
  <2>1. CASE \E u \in Resolved(o) : handler' = [handler EXCEPT ![h] = [order |-> o, user |-> u]]
    <3>1. PICK u \in Resolved(o) : handler' = [handler EXCEPT ![h] = [order |-> o, user |-> u]]
      BY <2>1
    <3>2. u \in Users /\ Home(order[o].user) = u
      <4>1. CASE HasAccount(order[o].user)
        BY <1>2, <4>1 DEF Resolved, Home
      <4>2. CASE ~HasAccount(order[o].user)
        <5>1. u \in Users /\ HasAccount(u) /\ wallet[u].customer = order[o].user
          BY <4>2 DEF Resolved
        <5> QED BY <1>2, <5>1 DEF BillingInv, CustomersAtHome
      <4> QED BY <4>1, <4>2
    <3> QED BY <3>1, <3>2
  <2>2. CASE handler' = handler
    BY <2>2
  <2> QED BY <2>1, <2>2 DEF OrderPaid
<1>5. /\ handler' \in [Handlers -> HandlerRow \cup {None}]
      /\ \A k \in Handlers : handler'[k] # None /\ handler'[k] # handler[k] =>
           /\ handler'[k].order = o
           /\ HasAccount(handler'[k].user) => Home(order[o].user) = handler'[k].user
  <2>1. handler \in [Handlers -> HandlerRow \cup {None}]
    BY DEF BillingInv, TypeOK
  <2>2. CASE handler' = handler
    BY <2>1, <2>2
  <2>3. CASE handler' # handler
    <3>1. PICK u \in Users : /\ handler' = [handler EXCEPT ![h] = [order |-> o, user |-> u]]
                             /\ HasAccount(u) => Home(order[o].user) = u
      BY <1>4, <2>3
    <3> DEFINE row == [order |-> o, user |-> u]
    <3>2. row \in HandlerRow /\ row.order = o /\ row.user = u
      BY DEF HandlerRow
    <3>3. handler' = [handler EXCEPT ![h] = row]
      BY <3>1
    <3> HIDE DEF row
    <3>4. handler' \in [Handlers -> HandlerRow \cup {None}]
      BY <2>1, <3>2, <3>3
    <3>5. \A k \in Handlers : handler'[k] # handler[k] => handler'[k] = row
      BY <2>1, <3>3
    <3> QED BY <3>1, <3>2, <3>4, <3>5
  <2> QED BY <2>2, <2>3
<1>6. TypeOK'
  BY <1>1, <1>3, <1>5 DEF BillingInv, TypeOK, downloadVars, walletVars
<1>7. AliasesLead' /\ CustomersAtHome' /\ RowsAreOwned' /\ BuyersKnown'
  BY <1>1 DEF BillingInv, AliasesLead, CustomersAtHome, RowsAreOwned, BuyersKnown, HasAccount,
     Home, walletVars, downloadVars
<1>8. OrdersGrantOnce'
  BY <1>1, <1>3 DEF BillingInv, OrdersGrantOnce, Home, HasAccount, walletVars
<1>9. HandlersFit'
  BY <1>1, <1>5 DEF BillingInv, HandlersFit, Home, HasAccount, walletVars
<1> QED BY <1>6, <1>7, <1>8, <1>9 DEF BillingInv

\* A granting request finds its order not yet granted.
LEMMA RecordGrants ==
  ASSUME BillingInv, NEW h \in Handlers, RecordOrder(h)
  PROVE  /\ handler[h] # None /\ handler[h].order \in Orders /\ handler[h].user \in Users
         /\ order[handler[h].order] # None /\ order[handler[h].order].user \in Users
         /\ order[handler[h].order].item \in Item
         /\ Inserted(handler[h].order, handler[h].user) =>
              /\ grants[handler[h].order] = 0
              /\ Home(order[handler[h].order].user) = handler[h].user
<1>1. handler[h] # None /\ handler[h].order \in Orders /\ handler[h].user \in Users
  BY DEF RecordOrder, BillingInv, TypeOK, HandlerRow
<1>2. /\ order[handler[h].order] # None
      /\ HasAccount(handler[h].user) => Home(order[handler[h].order].user) = handler[h].user
  BY <1>1 DEF BillingInv, HandlersFit
<1>3. /\ order[handler[h].order].user \in Users
      /\ order[handler[h].order].item \in Item
  BY <1>1, <1>2 DEF BillingInv, TypeOK, OrderRow
<1>4. ASSUME Inserted(handler[h].order, handler[h].user)
      PROVE  grants[handler[h].order] = 0
  <2>1. recorded[handler[h].order] = None /\ HasAccount(handler[h].user)
    BY <1>4 DEF Inserted
  <2>2. Home(order[handler[h].order].user) # None
    BY <1>1, <1>2, <2>1, UsersAssumption
  <2>3. grants[handler[h].order] \in Nat
    BY <1>1 DEF BillingInv, TypeOK, Payments
  <2> QED BY <1>1, <2>1, <2>2, <2>3 DEF BillingInv, OrdersGrantOnce
<1> QED BY <1>1, <1>2, <1>3, <1>4 DEF Inserted

LEMMA InvRecordOrder ==
  ASSUME BillingInv, NEW h \in Handlers, RecordOrder(h), UNCHANGED downloadVars
  PROVE  BillingInv'
<1>1. PICK o \in Orders : o = handler[h].order
  BY RecordGrants
<1>2. PICK u \in Users : u = handler[h].user
  BY RecordGrants
<1>3. /\ order[o] # None /\ order[o].user \in Users /\ order[o].item \in Item
      /\ Inserted(o, u) => grants[o] = 0 /\ Home(order[o].user) = u
  BY <1>1, <1>2, RecordGrants
<1>4. /\ IF Inserted(o, u)
           THEN recorded' = [recorded EXCEPT ![o] = u] /\ Grant(o, u, order[o].item)
           ELSE UNCHANGED <<recorded, grants, bought, wallet>>
      /\ answered' = answered \cup {o}
      /\ handler' = [handler EXCEPT ![h] = None]
      /\ UNCHANGED <<purchaseToken, purchaseIntent, story, reported, order, userAlias>>
  BY <1>1, <1>2 DEF RecordOrder
<1>5. /\ WalletsKept
      /\ grants' \in [Payments -> Nat] /\ bought' \in [Payments -> Users \cup {None}]
      /\ recorded' \in [Orders -> Users \cup {None}]
      /\ \A x \in Orders : IF Inserted(o, u) /\ x = o
                             THEN recorded'[x] = u /\ grants'[x] = 1
                             ELSE recorded'[x] = recorded[x] /\ grants'[x] = grants[x]
  <2>1. /\ recorded \in [Orders -> Users \cup {None}] /\ grants \in [Payments -> Nat]
        /\ bought \in [Payments -> Users \cup {None}] /\ o \in Payments /\ Orders \subseteq Payments
    BY DEF BillingInv, TypeOK, Payments
  <2>2. CASE Inserted(o, u)
    <3>1. /\ WalletsKept
          /\ grants' \in [Payments -> Nat] /\ bought' \in [Payments -> Users \cup {None}]
          /\ \A q \in Payments : grants'[q] = IF q = o THEN grants[q] + 1 ELSE grants[q]
      BY <1>3, <1>4, <2>1, <2>2, GrantKeeps DEF BillingInv
    <3>2. /\ recorded' \in [Orders -> Users \cup {None}]
          /\ \A x \in Orders : recorded'[x] = IF x = o THEN u ELSE recorded[x]
      BY <1>4, <2>1, <2>2
    <3> QED BY <1>3, <2>1, <2>2, <3>1, <3>2
  <2>3. CASE ~Inserted(o, u)
    <3>1. UNCHANGED <<recorded, grants, bought, walletVars>>
      BY <1>4, <2>3 DEF walletVars
    <3>2. WalletsKept
      BY <3>1, NothingGranted DEF BillingInv
    <3> QED BY <2>1, <2>3, <3>1, <3>2
  <2> QED BY <2>2, <2>3
<1>6. handler' \in [Handlers -> HandlerRow \cup {None}]
      /\ \A k \in Handlers : handler'[k] \in {handler[k], None}
  BY <1>4 DEF BillingInv, TypeOK
<1>7. TypeOK'
  BY <1>4, <1>5, <1>6 DEF BillingInv, TypeOK, WalletsKept, downloadVars
<1>8. /\ \A x \in Users : Home(x)' = Home(x)
      /\ \A x \in Users : HasAccount(x)' <=> HasAccount(x)
      /\ AliasesLead' /\ CustomersAtHome'
  BY <1>5, KeptHomes DEF BillingInv, WalletsKept
<1>9. \A x \in Orders : order[x] # None => order[x].user \in Users
  BY DEF BillingInv, TypeOK, OrderRow
<1>10. RowsAreOwned'
  <2>1. ASSUME NEW x \in Orders, recorded'[x] # None
        PROVE  wallet'[recorded'[x]] # None
    <3>1. CASE Inserted(o, u) /\ x = o
      BY <1>5, <1>8, <3>1 DEF HasAccount, Inserted
    <3>2. CASE ~(Inserted(o, u) /\ x = o)
      <4>1. recorded'[x] = recorded[x]
        BY <1>5, <3>2
      <4>2. recorded[x] \in Users
        BY <2>1, <4>1 DEF BillingInv, TypeOK
      <4> QED BY <1>8, <2>1, <4>1, <4>2 DEF BillingInv, RowsAreOwned, HasAccount
    <3> QED BY <3>1, <3>2
  <2>2. /\ \A x \in Tokens : /\ purchaseToken[x] # None => purchaseToken[x].user \in Users
                             /\ purchaseIntent[x] # None => purchaseIntent[x].user \in Users
        /\ \A j \in Jobs : blockedCredit[j] # None => blockedCredit[j].user \in Users
    BY DEF BillingInv, TypeOK, TokenRow, IntentRow, NoteRow
  <2>3. /\ \A x \in Tokens : /\ purchaseToken'[x] # None => wallet'[purchaseToken'[x].user] # None
                             /\ purchaseIntent'[x] # None => wallet'[purchaseIntent'[x].user] # None
        /\ \A j \in Jobs : blockedCredit'[j] # None => wallet'[blockedCredit'[j].user] # None
    BY <1>4, <1>8, <2>2 DEF BillingInv, RowsAreOwned, HasAccount, downloadVars
  <2> QED BY <2>1, <2>3 DEF RowsAreOwned, HasAccount
<1>11. OrdersGrantOnce'
  <2>1. \A x \in Orders : order[x] # None => Home(order[x].user)' = Home(order[x].user)
    BY <1>4, <1>8, <1>9 DEF Home, HasAccount
  <2>2. SUFFICES ASSUME NEW x \in Orders
                 PROVE  /\ order'[x] = None => grants'[x] = 0 /\ recorded'[x] = None /\ x \notin answered'
                        /\ grants'[x] <= 1
                        /\ recorded'[x] # None => grants'[x] = 1 /\ recorded'[x] = Home(order[x].user)'
                        /\ grants'[x] = 1 /\ recorded'[x] = None => Home(order[x].user)' = None
    BY DEF OrdersGrantOnce
  <2>3. CASE Inserted(o, u) /\ x = o
    BY <1>3, <1>4, <1>5, <2>1, <2>3, UsersAssumption
  <2>4. CASE ~(Inserted(o, u) /\ x = o)
    <3>1. /\ recorded'[x] = recorded[x] /\ grants'[x] = grants[x] /\ order'[x] = order[x]
          /\ x \in answered' => x \in answered \/ x = o
      BY <1>4, <1>5, <2>4
    <3>2. CASE order[x] = None
      BY <1>3, <3>1, <3>2 DEF BillingInv, OrdersGrantOnce
    <3>3. CASE order[x] # None
      BY <2>1, <3>1, <3>3 DEF BillingInv, OrdersGrantOnce
    <3> QED BY <3>2, <3>3
  <2> QED BY <2>3, <2>4
<1>12. HandlersFit'
  <2>1. \A k \in Handlers : handler[k] # None => handler[k].user \in Users /\ handler[k].order \in Orders
    BY DEF BillingInv, TypeOK, HandlerRow
  <2> QED BY <1>4, <1>6, <1>8, <1>9, <2>1 DEF BillingInv, HandlersFit, Home, HasAccount
<1>13. BuyersKnown'
  BY DEF BillingInv, BuyersKnown, downloadVars
<1> QED BY <1>7, <1>8, <1>10, <1>11, <1>12, <1>13 DEF BillingInv

\* Steps of the downloads leave the purchases alone.
LEMMA KeptPurchases ==
  ASSUME BillingInv, WalletsKept, UNCHANGED purchaseVars
  PROVE  /\ AliasesLead' /\ CustomersAtHome' /\ OrdersGrantOnce' /\ HandlersFit'
         /\ \A t \in Tokens :
              /\ (purchaseToken'[t] # None => wallet'[purchaseToken'[t].user] # None)
              /\ (purchaseIntent'[t] # None => wallet'[purchaseIntent'[t].user] # None)
         /\ \A o \in Orders : recorded'[o] # None => wallet'[recorded'[o]] # None
         /\ \A x \in Users : wallet'[x] # None <=> wallet[x] # None
<1>1. UNCHANGED <<purchaseToken, purchaseIntent, order, recorded, handler, answered, grants>>
  BY DEF purchaseVars
<1>2. AliasesLead' /\ CustomersAtHome' /\ OrdersGrantOnce' /\ HandlersFit'
  BY <1>1, KeptOrders
<1>3. \A x \in Users : wallet'[x] # None <=> wallet[x] # None
  BY DEF WalletsKept, HasAccount
<1>4. /\ \A t \in Tokens : /\ (purchaseToken[t] # None => purchaseToken[t].user \in Users)
                           /\ (purchaseIntent[t] # None => purchaseIntent[t].user \in Users)
      /\ \A o \in Orders : recorded[o] # None => recorded[o] \in Users
  BY DEF BillingInv, TypeOK, TokenRow, IntentRow
<1> QED BY <1>1, <1>2, <1>3, <1>4 DEF BillingInv, RowsAreOwned, HasAccount

LEMMA CreditKeeps ==
  ASSUME TypeOK, NEW u \in Users, NEW amount \in Int, wallet' = Credited(wallet, u, amount),
         userAlias' = userAlias
  PROVE  /\ WalletsKept
         /\ \A x \in Users : HasAccount(x) =>
              wallet'[x].credits = IF x = u THEN wallet[x].credits + amount ELSE wallet[x].credits
<1>1. wallet \in [Users -> Wallet \cup {None}]
  BY DEF TypeOK
<1>2. /\ wallet' \in [Users -> Wallet \cup {None}]
      /\ \A x \in Users \ {u} : wallet'[x] = wallet[x]
      /\ wallet[u] = None => wallet'[u] = None
      /\ wallet[u] # None => /\ wallet'[u] # None
                             /\ wallet'[u].credits = wallet[u].credits + amount
                             /\ wallet'[u].customer = wallet[u].customer
  BY <1>1, CreditedKeeps
<1> QED BY <1>2 DEF WalletsKept, HasAccount

LEMMA InvStartDownload ==
  ASSUME BillingInv, NEW j \in Jobs, StartStep(j)
  PROVE  BillingInv'
<1>1. PICK u \in Users :
        /\ HasAccount(u)
        /\ wallet' = Credited(wallet, u, -Price)
        /\ buyer' = [buyer EXCEPT ![j] = u]
        /\ blockedCredit' = [blockedCredit EXCEPT ![j] = [user |-> u, old |-> FALSE]]
  BY DEF StartStep, StartDownload
<1>2. /\ job' = [job EXCEPT ![j] = "running"]
      /\ UNCHANGED <<refund, paid, userAlias>> /\ UNCHANGED purchaseVars
  BY DEF StartStep, StartDownload, Become
<1>3. WalletsKept
  BY <1>1, <1>2, CreditKeeps, DownloadsAssumption DEF BillingInv
<1>4. [user |-> u, old |-> FALSE] \in NoteRow
  BY DEF NoteRow
<1>5. TypeOK'
  BY <1>1, <1>2, <1>3, <1>4 DEF BillingInv, TypeOK, WalletsKept, purchaseVars, JobStates
<1>6. /\ AliasesLead' /\ CustomersAtHome' /\ OrdersGrantOnce' /\ HandlersFit'
      /\ \A t \in Tokens :
           /\ (purchaseToken'[t] # None => wallet'[purchaseToken'[t].user] # None)
           /\ (purchaseIntent'[t] # None => wallet'[purchaseIntent'[t].user] # None)
      /\ \A o \in Orders : recorded'[o] # None => wallet'[recorded'[o]] # None
      /\ \A x \in Users : wallet'[x] # None <=> wallet[x] # None
  BY <1>2, <1>3, KeptPurchases
<1>7. RowsAreOwned'
  BY <1>1, <1>6 DEF BillingInv, TypeOK, NoteRow, RowsAreOwned, HasAccount
<1>8. BuyersKnown'
  BY <1>1, <1>2, UsersAssumption DEF BillingInv, TypeOK, BuyersKnown
<1> QED BY <1>5, <1>6, <1>7, <1>8 DEF BillingInv

LEMMA InvSettle ==
  ASSUME BillingInv, NEW j \in Jobs, Settle(j), UNCHANGED purchaseVars
  PROVE  BillingInv'
<1>1. /\ job[j] = "settling" /\ job' = [job EXCEPT ![j] = "done"]
      /\ wallet' = IF refund[j] THEN Credited(wallet, buyer[j], Price) ELSE wallet
      /\ blockedCredit' = [blockedCredit EXCEPT ![j] = None]
      /\ paid' = IF refund[j] THEN paid ELSE paid \cup {j}
      /\ UNCHANGED <<buyer, refund, userAlias>>
  BY DEF Settle, Become, SettledNotes
<1>2. buyer[j] \in Users
  BY <1>1 DEF BillingInv, TypeOK, BuyersKnown
<1>3. WalletsKept
  <2>1. CASE refund[j]
    BY <1>1, <1>2, <2>1, CreditKeeps, DownloadsAssumption DEF BillingInv
  <2>2. CASE ~refund[j]
    BY <1>1, <2>2 DEF BillingInv, TypeOK, WalletsKept, HasAccount
  <2> QED BY <2>1, <2>2
<1>4. TypeOK'
  BY <1>1, <1>3 DEF BillingInv, TypeOK, WalletsKept, purchaseVars, JobStates
<1>5. /\ AliasesLead' /\ CustomersAtHome' /\ OrdersGrantOnce' /\ HandlersFit'
      /\ \A t \in Tokens :
           /\ (purchaseToken'[t] # None => wallet'[purchaseToken'[t].user] # None)
           /\ (purchaseIntent'[t] # None => wallet'[purchaseIntent'[t].user] # None)
      /\ \A o \in Orders : recorded'[o] # None => wallet'[recorded'[o]] # None
      /\ \A x \in Users : wallet'[x] # None <=> wallet[x] # None
  BY <1>3, KeptPurchases
<1>6. RowsAreOwned'
  BY <1>1, <1>5 DEF BillingInv, TypeOK, NoteRow, RowsAreOwned, HasAccount
<1>7. BuyersKnown'
  BY <1>1 DEF BillingInv, TypeOK, BuyersKnown
<1> QED BY <1>4, <1>5, <1>6, <1>7 DEF BillingInv

LEMMA InvJobMoves ==
  ASSUME BillingInv, NEW j \in Jobs,
         FinishDownload(j) \/ FailDownload(j) \/ MailFailure(j) \/ JobDies(j),
         UNCHANGED purchaseVars
  PROVE  BillingInv'
<1>1. /\ job[j] # "idle"
      /\ \E s \in JobStates : job' = [job EXCEPT ![j] = s]
      /\ refund' \in {refund, [refund EXCEPT ![j] = TRUE]}
      /\ UNCHANGED <<buyer, blockedCredit, paid, walletVars>>
  BY DEF FinishDownload, FailDownload, MailFailure, JobDies, Become, JobStates
<1>2. TypeOK'
  <2>1. job' \in [Jobs -> JobStates]
    <3>1. job \in [Jobs -> JobStates]
      BY DEF BillingInv, TypeOK
    <3> QED BY <1>1, <3>1
  <2>2. refund' \in [Jobs -> BOOLEAN]
    <3>1. refund \in [Jobs -> BOOLEAN]
      BY DEF BillingInv, TypeOK
    <3> QED BY <1>1, <3>1
  <2> QED BY <1>1, <2>1, <2>2 DEF BillingInv, TypeOK, purchaseVars, walletVars
<1>3. /\ AliasesLead' /\ CustomersAtHome' /\ OrdersGrantOnce' /\ HandlersFit' /\ RowsAreOwned'
  BY <1>1 DEF BillingInv, AliasesLead, CustomersAtHome, OrdersGrantOnce, HandlersFit,
     RowsAreOwned, HasAccount, Home, purchaseVars, walletVars
<1>4. BuyersKnown'
  BY <1>1 DEF BillingInv, TypeOK, BuyersKnown
<1> QED BY <1>2, <1>3, <1>4 DEF BillingInv

LEMMA DayKeepsNotes ==
  ASSUME TypeOK, NEW j \in Jobs, DayPasses(j)
  PROVE  /\ blockedCredit' \in [Jobs -> NoteRow \cup {None}]
         /\ \A i \in Jobs : /\ (i # j => blockedCredit'[i] = blockedCredit[i])
                            /\ (blockedCredit[i] = None <=> blockedCredit'[i] = None)
                            /\ (blockedCredit[i] # None => blockedCredit'[i].user = blockedCredit[i].user)
<1>1. blockedCredit \in [Jobs -> NoteRow \cup {None}] /\ blockedCredit[j] \in NoteRow
  BY DEF TypeOK, DayPasses
<1> DEFINE v == [blockedCredit[j] EXCEPT !.old = TRUE]
<1>2. v \in NoteRow /\ v.user = blockedCredit[j].user
  BY <1>1 DEF NoteRow
<1>3. blockedCredit' = [blockedCredit EXCEPT ![j] = v]
  BY DEF DayPasses
<1> HIDE DEF v
<1> QED BY <1>1, <1>2, <1>3, DownloadsAssumption

LEMMA InvDayPasses ==
  ASSUME BillingInv, NEW j \in Jobs, DayStep(j)
  PROVE  BillingInv'
<1>1. UNCHANGED <<job, buyer, refund, paid, walletVars>> /\ UNCHANGED purchaseVars
  BY DEF DayStep, DayPasses
<1>2. /\ blockedCredit' \in [Jobs -> NoteRow \cup {None}]
      /\ \A i \in Jobs : /\ (blockedCredit[i] = None <=> blockedCredit'[i] = None)
                         /\ (blockedCredit[i] # None => blockedCredit'[i].user = blockedCredit[i].user)
  BY DayKeepsNotes DEF DayStep, BillingInv
<1>3. TypeOK'
  BY <1>1, <1>2 DEF BillingInv, TypeOK, purchaseVars, walletVars
<1>4. AliasesLead' /\ CustomersAtHome' /\ OrdersGrantOnce' /\ HandlersFit' /\ BuyersKnown'
  BY <1>1 DEF BillingInv, AliasesLead, CustomersAtHome, OrdersGrantOnce, HandlersFit,
     BuyersKnown, HasAccount, Home, purchaseVars, walletVars
<1>5. RowsAreOwned'
  BY <1>1, <1>2 DEF BillingInv, RowsAreOwned, HasAccount, purchaseVars, walletVars
<1> QED BY <1>3, <1>4, <1>5 DEF BillingInv

\* What cleanup() gives back to an account: the price of each old note.
OldNotesOf(u) == {j \in OldNotes : blockedCredit[j].user = u}

LEMMA CleanUpKeeps ==
  ASSUME TypeOK, CleanUpNotes
  PROVE  /\ WalletsKept
         /\ \A u \in Users : IsFiniteSet(OldNotesOf(u))
         /\ \A u \in Users : HasAccount(u) =>
              wallet'[u].credits = wallet[u].credits + Price * Cardinality(OldNotesOf(u))
<1>1. wallet \in [Users -> Wallet \cup {None}] /\ userAlias' = userAlias
  BY DEF TypeOK, CleanUpNotes
<1>2. wallet' = [u \in Users |->
        IF wallet[u] = None THEN None
        ELSE [wallet[u] EXCEPT !.credits = @ + Price * Cardinality(OldNotesOf(u))]]
  BY DEF CleanUpNotes, OldNotesOf
<1>3. ASSUME NEW u \in Users
      PROVE  IsFiniteSet(OldNotesOf(u)) /\ Cardinality(OldNotesOf(u)) \in Nat
  <2>1. OldNotesOf(u) \subseteq Jobs
    BY DEF OldNotesOf, OldNotes
  <2>2. IsFiniteSet(OldNotesOf(u))
    BY <2>1, DownloadsAssumption, FS_Subset
  <2> QED BY <2>2, FS_CardinalityType
<1>4. ASSUME NEW u \in Users, wallet[u] # None
      PROVE  /\ wallet'[u] \in Wallet
             /\ wallet'[u].credits = wallet[u].credits + Price * Cardinality(OldNotesOf(u))
             /\ wallet'[u].customer = wallet[u].customer
  <2>1. PICK n \in Int : n = Price * Cardinality(OldNotesOf(u))
    <3>1. Price \in Nat
      BY DownloadsAssumption
    <3> QED BY <1>3, <3>1
  <2>2. wallet'[u] = [wallet[u] EXCEPT !.credits = @ + n]
    BY <1>2, <1>4, <2>1
  <2>3. wallet[u] \in Wallet
    BY <1>1, <1>4
  <2> QED BY <2>1, <2>2, <2>3 DEF Wallet
<1>5. ASSUME NEW u \in Users, wallet[u] = None
      PROVE  wallet'[u] = None
  BY <1>2, <1>5
<1>6. wallet' \in [Users -> Wallet \cup {None}]
  <2>1. wallet' = [u \in Users |-> wallet'[u]]
    BY <1>2
  <2> QED BY <1>4, <1>5, <2>1
<1>7. WalletsKept
  BY <1>1, <1>4, <1>5, <1>6, WalletAssumption DEF WalletsKept, HasAccount
<1> QED BY <1>3, <1>4, <1>7 DEF HasAccount

LEMMA InvCleanUp ==
  ASSUME BillingInv, CleanUpStep
  PROVE  BillingInv'
<1>1. /\ blockedCredit' = [j \in Jobs |-> IF j \in OldNotes THEN None ELSE blockedCredit[j]]
      /\ UNCHANGED <<job, buyer, refund, paid, userAlias>> /\ UNCHANGED purchaseVars
  BY DEF CleanUpStep, CleanUpNotes
<1>2. WalletsKept
  BY CleanUpKeeps DEF CleanUpStep, BillingInv
<1>3. TypeOK'
  BY <1>1, <1>2 DEF BillingInv, TypeOK, WalletsKept, purchaseVars
<1>4. /\ AliasesLead' /\ CustomersAtHome' /\ OrdersGrantOnce' /\ HandlersFit'
      /\ \A t \in Tokens :
           /\ (purchaseToken'[t] # None => wallet'[purchaseToken'[t].user] # None)
           /\ (purchaseIntent'[t] # None => wallet'[purchaseIntent'[t].user] # None)
      /\ \A o \in Orders : recorded'[o] # None => wallet'[recorded'[o]] # None
      /\ \A x \in Users : wallet'[x] # None <=> wallet[x] # None
  BY <1>1, <1>2, KeptPurchases
<1>5. RowsAreOwned'
  BY <1>1, <1>4 DEF BillingInv, TypeOK, NoteRow, RowsAreOwned, HasAccount
<1>6. BuyersKnown'
  BY <1>1 DEF BillingInv, BuyersKnown
<1> QED BY <1>3, <1>4, <1>5, <1>6 DEF BillingInv

LEMMA InvRestart ==
  ASSUME BillingInv, Restart
  PROVE  BillingInv'
<1>1. /\ handler' = [h \in Handlers |-> None]
      /\ job' = [j \in Jobs |-> IF Working(j) THEN "dead" ELSE job[j]]
      /\ UNCHANGED <<purchaseToken, purchaseIntent, story, reported, order, recorded,
                     answered, grants, bought>>
      /\ UNCHANGED <<buyer, refund, blockedCredit, paid, walletVars>>
  BY DEF Restart, DropHandlers
<1>2. TypeOK'
  BY <1>1 DEF BillingInv, TypeOK, JobStates, walletVars
<1>3. AliasesLead' /\ CustomersAtHome' /\ OrdersGrantOnce' /\ HandlersFit' /\ RowsAreOwned'
  BY <1>1 DEF BillingInv, AliasesLead, CustomersAtHome, OrdersGrantOnce, HandlersFit,
     RowsAreOwned, HasAccount, Home, walletVars
<1>4. BuyersKnown'
  BY <1>1 DEF BillingInv, BuyersKnown, Working
<1> QED BY <1>2, <1>3, <1>4 DEF BillingInv

-------------------------------------------------------------------------------
(* Merges and deletions *)

\* The row of one account becomes the other's, or goes when there is none.
Moved(x, from, to) == IF x = from THEN to ELSE x

LEMMA RepointedToken ==
  ASSUME NEW row \in TokenRow \cup {None}, NEW from \in Users, NEW to \in Users \cup {None}
  PROVE  /\ Repointed(row, from, to) \in TokenRow \cup {None}
         /\ Repointed(row, from, to) # None =>
              /\ row # None /\ Moved(row.user, from, to) # None
              /\ Repointed(row, from, to).user = Moved(row.user, from, to)
<1> USE UsersAssumption
<1>1. CASE row = None
  BY <1>1 DEF Repointed
<1>2. CASE row # None
  <2>1. row \in TokenRow
    BY <1>2
  <2> QED BY <1>2, <2>1 DEF Repointed, Moved, TokenRow
<1> QED BY <1>1, <1>2

LEMMA RepointedIntent ==
  ASSUME NEW row \in IntentRow \cup {None}, NEW from \in Users, NEW to \in Users \cup {None}
  PROVE  /\ Repointed(row, from, to) \in IntentRow \cup {None}
         /\ Repointed(row, from, to) # None =>
              /\ row # None /\ Moved(row.user, from, to) # None
              /\ Repointed(row, from, to).user = Moved(row.user, from, to)
              /\ Repointed(row, from, to).status = row.status
<1> USE UsersAssumption
<1>1. CASE row = None
  BY <1>1 DEF Repointed
<1>2. CASE row # None
  <2>1. row \in IntentRow
    BY <1>2
  <2> QED BY <1>2, <2>1 DEF Repointed, Moved, IntentRow
<1> QED BY <1>1, <1>2

LEMMA RepointedPurchases ==
  ASSUME TypeOK, NEW from \in Users, NEW to \in Users \cup {None}, RepointPurchases(from, to)
  PROVE  /\ purchaseToken' \in [Tokens -> TokenRow \cup {None}]
         /\ purchaseIntent' \in [Tokens -> IntentRow \cup {None}]
         /\ recorded' \in [Orders -> Users \cup {None}]
         /\ \A t \in Tokens :
              /\ (purchaseToken'[t] # None =>
                   /\ purchaseToken[t] # None /\ Moved(purchaseToken[t].user, from, to) # None
                   /\ purchaseToken'[t].user = Moved(purchaseToken[t].user, from, to))
              /\ (purchaseIntent'[t] # None =>
                   /\ purchaseIntent[t] # None /\ Moved(purchaseIntent[t].user, from, to) # None
                   /\ purchaseIntent'[t].user = Moved(purchaseIntent[t].user, from, to)
                   /\ purchaseIntent'[t].status = purchaseIntent[t].status)
         /\ \A o \in Orders : recorded'[o] = Moved(recorded[o], from, to)
         /\ UNCHANGED <<story, reported, order, handler, answered, grants, bought>>
<1>1. /\ purchaseToken' = [t \in Tokens |-> Repointed(purchaseToken[t], from, to)]
      /\ purchaseIntent' = [t \in Tokens |-> Repointed(purchaseIntent[t], from, to)]
      /\ recorded' = [o \in Orders |-> IF recorded[o] = from THEN to ELSE recorded[o]]
      /\ UNCHANGED <<story, reported, order, handler, answered, grants, bought>>
  BY DEF RepointPurchases
<1>2. \A t \in Tokens : purchaseToken[t] \in TokenRow \cup {None} /\ purchaseIntent[t] \in IntentRow \cup {None}
  BY DEF TypeOK
<1>3. ASSUME NEW t \in Tokens
      PROVE  /\ purchaseToken'[t] \in TokenRow \cup {None}
             /\ purchaseToken'[t] # None =>
                   /\ purchaseToken[t] # None /\ Moved(purchaseToken[t].user, from, to) # None
                   /\ purchaseToken'[t].user = Moved(purchaseToken[t].user, from, to)
  BY <1>1, <1>2, RepointedToken
<1>4. ASSUME NEW t \in Tokens
      PROVE  /\ purchaseIntent'[t] \in IntentRow \cup {None}
             /\ purchaseIntent'[t] # None =>
                   /\ purchaseIntent[t] # None /\ Moved(purchaseIntent[t].user, from, to) # None
                   /\ purchaseIntent'[t].user = Moved(purchaseIntent[t].user, from, to)
                   /\ purchaseIntent'[t].status = purchaseIntent[t].status
  BY <1>1, <1>2, RepointedIntent
<1>5. /\ purchaseToken' \in [Tokens -> TokenRow \cup {None}]
      /\ purchaseIntent' \in [Tokens -> IntentRow \cup {None}]
  <2>1. /\ purchaseToken' = [t \in Tokens |-> purchaseToken'[t]]
        /\ purchaseIntent' = [t \in Tokens |-> purchaseIntent'[t]]
    BY <1>1
  <2> QED BY <1>3, <1>4, <2>1
<1>6. /\ recorded' \in [Orders -> Users \cup {None}]
      /\ \A o \in Orders : recorded'[o] = Moved(recorded[o], from, to)
  BY <1>1 DEF TypeOK, Moved
<1> QED BY <1>1, <1>3, <1>4, <1>5, <1>6

LEMMA RepointedNotes ==
  ASSUME TypeOK, NEW from \in Users, NEW to \in Users \cup {None}, RepointNotes(from, to)
  PROVE  /\ blockedCredit' \in [Jobs -> NoteRow \cup {None}]
         /\ \A j \in Jobs :
              /\ (blockedCredit'[j] # None =>
                   /\ blockedCredit[j] # None
                   /\ blockedCredit'[j].user = Moved(blockedCredit[j].user, from, to)
                   /\ blockedCredit'[j].old = blockedCredit[j].old)
              /\ (blockedCredit'[j] # None <=>
                   blockedCredit[j] # None /\ Moved(blockedCredit[j].user, from, to) # None)
         /\ UNCHANGED <<job, buyer, refund, paid>>
<1>1. /\ blockedCredit' = [j \in Jobs |->
           IF blockedCredit[j] = None THEN None
           ELSE IF blockedCredit[j].user # from THEN blockedCredit[j]
           ELSE IF to = None THEN None ELSE [blockedCredit[j] EXCEPT !.user = to]]
      /\ UNCHANGED <<job, buyer, refund, paid>>
  BY DEF RepointNotes
<1>2. ASSUME NEW j \in Jobs, blockedCredit[j] = None
      PROVE  blockedCredit'[j] = None
  BY <1>1, <1>2
<1>3. ASSUME NEW j \in Jobs, blockedCredit[j] # None
      PROVE  /\ blockedCredit'[j] \in NoteRow \cup {None}
             /\ blockedCredit'[j] # None =>
                  /\ blockedCredit'[j].user = Moved(blockedCredit[j].user, from, to)
                  /\ blockedCredit'[j].old = blockedCredit[j].old
             /\ blockedCredit'[j] # None <=> Moved(blockedCredit[j].user, from, to) # None
  <2>1. blockedCredit[j] \in NoteRow
    BY <1>3 DEF TypeOK
  <2>2. CASE blockedCredit[j].user # from
    <3>1. blockedCredit'[j] = blockedCredit[j] /\ blockedCredit[j].user \in Users
      BY <1>1, <1>3, <2>1, <2>2 DEF NoteRow
    <3> QED BY <1>3, <2>1, <2>2, <3>1, UsersAssumption DEF Moved
  <2>3. CASE blockedCredit[j].user = from /\ to = None
    BY <1>1, <1>3, <2>3 DEF Moved
  <2>4. CASE blockedCredit[j].user = from /\ to # None
    <3> DEFINE v == [blockedCredit[j] EXCEPT !.user = to]
    <3>1. v \in NoteRow /\ v.user = to /\ v.old = blockedCredit[j].old
      BY <2>1, <2>4 DEF NoteRow
    <3>2. blockedCredit'[j] = v
      BY <1>1, <1>3, <2>4
    <3> HIDE DEF v
    <3> QED BY <2>4, <3>1, <3>2, DownloadsAssumption DEF Moved
  <2> QED BY <2>2, <2>3, <2>4
<1>4. blockedCredit' \in [Jobs -> NoteRow \cup {None}]
  <2>1. blockedCredit' = [j \in Jobs |-> blockedCredit'[j]]
    BY <1>1
  <2> QED BY <1>2, <1>3, <2>1
<1> QED BY <1>1, <1>2, <1>3, <1>4

\* Both move where every account's rows are.
AccountsMove(from, to) ==
  /\ wallet' \in [Users -> Wallet \cup {None}]
  /\ userAlias' \in [Users -> Users \cup {None}]
  /\ HasAccount(from)
  /\ to # None => HasAccount(to) /\ to # from
  /\ \A x \in Users : HasAccount(x)' <=> HasAccount(x) /\ x # from
  /\ \A x \in Users : Home(x)' = Moved(Home(x), from, to)

LEMMA InvMoved ==
  ASSUME BillingInv, NEW from \in Users, NEW to \in Users \cup {None}, AccountsMove(from, to),
         RepointPurchases(from, to), RepointNotes(from, to)
  PROVE  TypeOK' /\ RowsAreOwned' /\ OrdersGrantOnce' /\ HandlersFit' /\ BuyersKnown'
<1> USE UsersAssumption
<1>1. /\ purchaseToken' \in [Tokens -> TokenRow \cup {None}]
      /\ purchaseIntent' \in [Tokens -> IntentRow \cup {None}]
      /\ recorded' \in [Orders -> Users \cup {None}]
      /\ \A t \in Tokens :
           /\ (purchaseToken'[t] # None =>
                /\ purchaseToken[t] # None /\ Moved(purchaseToken[t].user, from, to) # None
                /\ purchaseToken'[t].user = Moved(purchaseToken[t].user, from, to))
           /\ (purchaseIntent'[t] # None =>
                /\ purchaseIntent[t] # None /\ Moved(purchaseIntent[t].user, from, to) # None
                /\ purchaseIntent'[t].user = Moved(purchaseIntent[t].user, from, to))
      /\ \A o \in Orders : recorded'[o] = Moved(recorded[o], from, to)
      /\ UNCHANGED <<story, reported, order, handler, answered, grants, bought>>
  BY RepointedPurchases DEF BillingInv
<1>2. /\ blockedCredit' \in [Jobs -> NoteRow \cup {None}]
      /\ \A j \in Jobs :
           /\ (blockedCredit'[j] # None =>
                /\ blockedCredit[j] # None
                /\ blockedCredit'[j].user = Moved(blockedCredit[j].user, from, to))
           /\ (blockedCredit'[j] # None <=>
                blockedCredit[j] # None /\ Moved(blockedCredit[j].user, from, to) # None)
      /\ UNCHANGED <<job, buyer, refund, paid>>
  BY RepointedNotes DEF BillingInv
<1>3. TypeOK'
  BY <1>1, <1>2 DEF BillingInv, TypeOK, AccountsMove
<1>4. \A x \in Users : HasAccount(x) /\ Moved(x, from, to) # None
        => Moved(x, from, to) \in Users /\ wallet'[Moved(x, from, to)] # None
  BY DEF AccountsMove, Moved, HasAccount
<1>5. RowsAreOwned'
  <2>1. /\ \A t \in Tokens : /\ (purchaseToken[t] # None => purchaseToken[t].user \in Users)
                             /\ (purchaseIntent[t] # None => purchaseIntent[t].user \in Users)
        /\ \A o \in Orders : recorded[o] # None => recorded[o] \in Users
        /\ \A j \in Jobs : blockedCredit[j] # None => blockedCredit[j].user \in Users
    BY DEF BillingInv, TypeOK, TokenRow, IntentRow, NoteRow
  <2>2. \A t \in Tokens : /\ (purchaseToken'[t] # None => wallet'[purchaseToken'[t].user] # None)
                          /\ (purchaseIntent'[t] # None => wallet'[purchaseIntent'[t].user] # None)
    BY <1>1, <1>4, <2>1 DEF BillingInv, RowsAreOwned
  <2>3. \A o \in Orders : recorded'[o] # None => wallet'[recorded'[o]] # None
    <3>1. ASSUME NEW o \in Orders, recorded'[o] # None
          PROVE  recorded[o] # None
      BY <1>1, <3>1 DEF Moved
    <3> QED BY <1>1, <1>4, <2>1, <3>1 DEF BillingInv, RowsAreOwned
  <2>4. \A j \in Jobs : blockedCredit'[j] # None => wallet'[blockedCredit'[j].user] # None
    BY <1>2, <1>4, <2>1 DEF BillingInv, RowsAreOwned
  <2> QED BY <2>2, <2>3, <2>4 DEF RowsAreOwned, HasAccount
<1>6. \A o \in Orders : order[o] # None => order[o].user \in Users
  BY DEF BillingInv, TypeOK, OrderRow
<1>7. \A o \in Orders : order[o] # None => Home(order[o].user)' = Moved(Home(order[o].user), from, to)
  BY <1>1, <1>6 DEF AccountsMove, Home, HasAccount
<1>8. OrdersGrantOnce'
  <2>1. SUFFICES ASSUME NEW o \in Orders
                 PROVE  /\ order'[o] = None => grants'[o] = 0 /\ recorded'[o] = None /\ o \notin answered'
                        /\ grants'[o] <= 1
                        /\ recorded'[o] # None => grants'[o] = 1 /\ recorded'[o] = Home(order[o].user)'
                        /\ grants'[o] = 1 /\ recorded'[o] = None => Home(order[o].user)' = None
    BY <1>1 DEF OrdersGrantOnce
  <2>2. CASE order[o] = None
    BY <1>1, <2>2 DEF BillingInv, OrdersGrantOnce, Moved
  <2>3. CASE order[o] # None
    BY <1>1, <1>7, <2>3 DEF BillingInv, OrdersGrantOnce, Moved
  <2> QED BY <2>2, <2>3
<1>9. HandlersFit'
  <2>1. \A h \in Handlers : handler[h] # None => handler[h].user \in Users /\ handler[h].order \in Orders
    BY DEF BillingInv, TypeOK, HandlerRow
  <2>2. SUFFICES ASSUME NEW h \in Handlers, handler[h] # None
                 PROVE  /\ order[handler[h].order] # None
                        /\ wallet'[handler[h].user] # None =>
                             Home(order[handler[h].order].user)' = handler[h].user
    BY <1>1 DEF HandlersFit, HasAccount
  <2>3. order[handler[h].order] # None
    BY <2>2 DEF BillingInv, HandlersFit
  <2>4. ASSUME wallet'[handler[h].user] # None
        PROVE  Home(order[handler[h].order].user)' = handler[h].user
    <3>1. HasAccount(handler[h].user) /\ handler[h].user # from
      BY <2>1, <2>2, <2>4 DEF AccountsMove, HasAccount
    <3>2. Home(order[handler[h].order].user) = handler[h].user
      BY <2>2, <3>1 DEF BillingInv, HandlersFit
    <3>3. PICK x \in Users : x = order[handler[h].order].user
      BY <1>6, <2>1, <2>2, <2>3
    <3>4. Home(x)' = handler[h].user
      BY <2>1, <2>2, <3>1, <3>2, <3>3 DEF AccountsMove, Moved
    <3> QED BY <1>1, <3>3, <3>4 DEF Home, HasAccount
  <2> QED BY <2>3, <2>4
<1>10. BuyersKnown'
  BY <1>2 DEF BillingInv, BuyersKnown
<1> QED BY <1>3, <1>5, <1>8, <1>9, <1>10

LEMMA InvMerge ==
  ASSUME BillingInv, NEW target \in Users, NEW source \in Users, Merge(target, source)
  PROVE  BillingInv' /\ AccountsMove(source, target)
<1>1. /\ HasAccount(target) /\ HasAccount(source) /\ target # source
      /\ wallet' \in [Users -> Wallet \cup {None}]
      /\ userAlias' \in [Users -> Users \cup {None}]
      /\ \A x \in Users \ {target, source} : wallet'[x] = wallet[x]
      /\ wallet'[target] = MergedWallet(wallet[target], wallet[source])
      /\ \A x \in Users : HasAccount(x)' <=> HasAccount(x) /\ x # source
      /\ \A x \in Users : Home(x)' = IF Home(x) = source THEN target ELSE Home(x)
      /\ AliasesLead'
  BY MergeMoves DEF Merge, BillingInv
<1>2. AccountsMove(source, target)
  BY <1>1 DEF AccountsMove, Moved
<1>3. TypeOK' /\ RowsAreOwned' /\ OrdersGrantOnce' /\ HandlersFit' /\ BuyersKnown'
  BY <1>2, InvMoved DEF Merge
<1>4. CustomersAtHome'
  <2>1. SUFFICES ASSUME NEW a \in Users, NEW c \in Users, HasAccount(a)', wallet'[a].customer = c
                 PROVE  Home(c)' = a
    BY DEF CustomersAtHome
  <2>2. HasAccount(a) /\ a # source
    BY <1>1, <2>1
  <2>3. CASE a = target
    <3>1. wallet[target] \in Wallet /\ wallet[source] \in Wallet
      BY <1>1 DEF BillingInv, TypeOK, HasAccount
    <3>2. c \in {wallet[target].customer, wallet[source].customer}
      BY <1>1, <2>1, <2>3, <3>1, MergedIsWallet
    <3>3. Home(c) = target \/ Home(c) = source
      BY <1>1, <3>2 DEF BillingInv, CustomersAtHome
    <3> QED BY <1>1, <2>3, <3>3
  <2>4. CASE a # target
    <3>1. wallet[a].customer = c
      BY <1>1, <2>1, <2>2, <2>4
    <3>2. Home(c) = a
      BY <2>2, <3>1 DEF BillingInv, CustomersAtHome
    <3> QED BY <1>1, <2>2, <3>2
  <2> QED BY <2>3, <2>4
<1> QED BY <1>1, <1>2, <1>3, <1>4 DEF BillingInv

LEMMA InvDelete ==
  ASSUME BillingInv, NEW u \in Users, DeleteAccount(u)
  PROVE  BillingInv' /\ AccountsMove(u, None)
<1>1. /\ HasAccount(u)
      /\ wallet' \in [Users -> Wallet \cup {None}]
      /\ userAlias' \in [Users -> Users \cup {None}]
      /\ \A x \in Users \ {u} : wallet'[x] = wallet[x]
      /\ \A x \in Users : HasAccount(x)' <=> HasAccount(x) /\ x # u
      /\ \A x \in Users : Home(x)' = IF Home(x) = u THEN None ELSE Home(x)
      /\ AliasesLead'
  BY DeleteMoves DEF DeleteAccount, BillingInv
<1>2. AccountsMove(u, None)
  BY <1>1 DEF AccountsMove, Moved
<1>3. TypeOK' /\ RowsAreOwned' /\ OrdersGrantOnce' /\ HandlersFit' /\ BuyersKnown'
  BY <1>2, InvMoved DEF DeleteAccount
<1>4. CustomersAtHome'
  <2>1. SUFFICES ASSUME NEW a \in Users, NEW c \in Users, HasAccount(a)', wallet'[a].customer = c
                 PROVE  Home(c)' = a
    BY DEF CustomersAtHome
  <2>2. HasAccount(a) /\ a # u
    BY <1>1, <2>1
  <2>3. Home(c) = a
    BY <1>1, <2>1, <2>2 DEF BillingInv, CustomersAtHome
  <2> QED BY <1>1, <2>2, <2>3
<1> QED BY <1>1, <1>2, <1>3, <1>4 DEF BillingInv

-------------------------------------------------------------------------------
(* Type correctness *)

LEMMA InvInit == Init => BillingInv
<1> SUFFICES ASSUME Init PROVE BillingInv
  OBVIOUS
<1>1. /\ purchaseToken = [t \in Tokens |-> None]
      /\ purchaseIntent = [t \in Tokens |-> None]
      /\ story = [t \in Tokens |-> <<>>]
      /\ reported = [t \in Tokens |-> 0]
      /\ order = [o \in Orders |-> None]
      /\ recorded = [o \in Orders |-> None]
      /\ handler = [h \in Handlers |-> None]
      /\ answered = {}
      /\ grants = [p \in Payments |-> 0]
      /\ bought = [p \in Payments |-> None]
  BY DEF Init, InitPurchases
<1>2. /\ job = [j \in Jobs |-> "idle"]
      /\ buyer = [j \in Jobs |-> None]
      /\ refund = [j \in Jobs |-> FALSE]
      /\ blockedCredit = [j \in Jobs |-> None]
      /\ paid = {}
  BY DEF Init, InitDownloads
<1>3. userAlias = [u \in Users |-> None]
  BY DEF Init
<1>4. ASSUME NEW u \in Users
      PROVE  /\ wallet[u] \in Wallet
             /\ wallet[u].credits = InitialCredits
             /\ wallet[u].customer \in {u, None}
  <2>1. wallet[u] = [credits |-> InitialCredits, premium |-> IF u \in Subscribers THEN 1 ELSE 0,
                     customer |-> IF u \in Customers THEN u ELSE None,
                     subscribed |-> u \in Subscribers]
    BY DEF Init
  <2>2. (u \in Subscribers) \in BOOLEAN
    OBVIOUS
  <2> QED BY <2>1, <2>2, BillingAssumption DEF Wallet
<1>5. wallet \in [Users -> Wallet \cup {None}]
  <2>1. wallet = [u \in Users |-> wallet[u]]
    BY DEF Init
  <2> QED BY <1>4, <2>1
<1>6. \A u \in Users : HasAccount(u) /\ userAlias[u] = None
  BY <1>3, <1>4, WalletAssumption DEF HasAccount
<1>7. TypeOK
  BY <1>1, <1>2, <1>3, <1>5 DEF TypeOK, JobStates
<1>8. AliasesLead /\ RowsAreOwned /\ HandlersFit /\ BuyersKnown
  BY <1>1, <1>2, <1>6 DEF AliasesLead, RowsAreOwned, HandlersFit, BuyersKnown
<1>9. CustomersAtHome
  BY <1>4, <1>6, UsersAssumption DEF CustomersAtHome, Home
<1>10. OrdersGrantOnce
  BY <1>1 DEF OrdersGrantOnce, Payments
<1> QED BY <1>7, <1>8, <1>9, <1>10 DEF BillingInv

LEMMA InvStutters ==
  ASSUME BillingInv, UNCHANGED vars
  PROVE  BillingInv'
<1>1. /\ UNCHANGED <<wallet, userAlias>> /\ UNCHANGED purchaseVars /\ UNCHANGED downloadVars
  BY DEF vars, walletVars
<1>2. TypeOK' /\ AliasesLead' /\ RowsAreOwned' /\ CustomersAtHome'
  BY <1>1 DEF BillingInv, TypeOK, AliasesLead, RowsAreOwned, CustomersAtHome, HasAccount, Home,
     purchaseVars, downloadVars
<1>3. OrdersGrantOnce' /\ HandlersFit' /\ BuyersKnown'
  BY <1>1 DEF BillingInv, OrdersGrantOnce, HandlersFit, BuyersKnown, HasAccount, Home,
     purchaseVars, downloadVars
<1> QED BY <1>2, <1>3 DEF BillingInv

\* The steps, one by one, for the proofs that take them so.
LEMMA StepsOfNext ==
  ASSUME Next
  PROVE  \/ \E t \in Tokens : Checkout(t) /\ UNCHANGED downloadVars
         \/ \E t \in Tokens : Report(t) /\ UNCHANGED downloadVars
         \/ \E t \in Tokens : Expire(t) /\ UNCHANGED downloadVars
         \/ \E o \in Orders : PlaceOrder(o) /\ UNCHANGED downloadVars
         \/ \E o \in Orders : PayOrder(o) /\ UNCHANGED downloadVars
         \/ \E h \in Handlers : RecordOrder(h) /\ UNCHANGED downloadVars
         \/ \E h \in Handlers, o \in Orders : OrderPaid(h, o) /\ UNCHANGED downloadVars
         \/ \E j \in Jobs : StartStep(j)
         \/ \E j \in Jobs : /\ FinishDownload(j) \/ FailDownload(j) \/ MailFailure(j) \/ JobDies(j)
                            /\ UNCHANGED purchaseVars
         \/ \E j \in Jobs : Settle(j) /\ UNCHANGED purchaseVars
         \/ \E j \in Jobs : DayStep(j)
         \/ CleanUpStep
         \/ \E target, source \in Users : Merge(target, source)
         \/ \E u \in Users : DeleteAccount(u)
         \/ Restart
<1>1. CASE PurchaseStep
  BY <1>1 DEF PurchaseStep
<1>2. CASE \E j \in Jobs : StartStep(j) \/ JobStep(j) \/ DayStep(j)
  BY <1>2 DEF JobStep
<1>3. CASE \/ CleanUpStep
           \/ \E target, source \in Users : Merge(target, source)
           \/ \E u \in Users : DeleteAccount(u)
           \/ Restart
  BY <1>3
<1> QED BY <1>1, <1>2, <1>3 DEF Next

LEMMA InvStep == BillingInv /\ [Next]_vars => BillingInv'
<1> SUFFICES ASSUME BillingInv, [Next]_vars PROVE BillingInv'
  OBVIOUS
<1>1. CASE UNCHANGED vars
  BY <1>1, InvStutters
<1>2. CASE Next
  BY <1>2, StepsOfNext, InvCheckout, InvReport, InvExpire, InvPlaceOrder, InvPayOrder,
     InvRecordOrder, InvOrderPaid, InvStartDownload, InvJobMoves, InvSettle, InvDayPasses,
     InvCleanUp, InvMerge, InvDelete, InvRestart
<1> QED BY <1>1, <1>2

\* Billing's variables stay within their types, whatever the accounts, payments,
\* downloads, merges and repeated reports.
THEOREM TypeCorrect == Spec => []TypeOK
<1>1. BillingInv => TypeOK
  BY DEF BillingInv
<1> QED BY InvInit, InvStep, <1>1, PTL DEF Spec

-------------------------------------------------------------------------------
(* Payments are granted once *)

\* Rovas says no more of a payment it has confirmed than that it is confirmed.
LEMMA StoriesEnd ==
  ASSUME NEW s \in Stories, NEW n \in 1..Len(s), NEW m \in 1..Len(s), m >= n,
         s[n] \in {"payment-completed", "delayed-confirmed", "legacy"}
  PROVE  s[m] \notin {"order-placed", "delayed-rejected"}
<1>1. CASE s = <<"payment-completed">>
  BY <1>1
<1>2. CASE s = <<"order-placed", "delayed-confirmed">>
  BY <1>2
<1>3. CASE s = <<"order-placed", "delayed-rejected">>
  BY <1>3
<1>4. CASE s = <<"legacy">>
  BY <1>4
<1>5. CASE s = <<"legacy", "payment-completed">>
  BY <1>5
<1> QED BY <1>1, <1>2, <1>3, <1>4, <1>5 DEF Stories

\* What a report in its turn does: it grants its token to an account that has
\* the row, or it grants nothing.
GrantingReport(t, event) ==
  /\ event \in {"payment-completed", "delayed-confirmed", "legacy"}
  /\ \/ event = "legacy" /\ purchaseToken[t] # None
     \/ event # "legacy" /\ purchaseIntent[t] # None /\ purchaseIntent[t].status # "confirmed"
  /\ \E u \in Users, item \in Item : HasAccount(u) /\ Grant(t, u, item)
  /\ purchaseToken' = [purchaseToken EXCEPT ![t] = None]
  /\ purchaseIntent'[t] # None => purchaseIntent'[t].status = "confirmed"

QuietReport(t, event) ==
  /\ UNCHANGED <<purchaseToken, grants, bought, wallet>>
  /\ event \in {"payment-completed", "delayed-confirmed", "legacy"} => UNCHANGED purchaseIntent

LEMMA ConfirmGrants ==
  ASSUME TypeOK, RowsAreOwned, NEW t \in Tokens, purchaseIntent[t] # None, Confirm(t),
         NEW event \in {"payment-completed", "delayed-confirmed"}
  PROVE  GrantingReport(t, event) \/ QuietReport(t, event)
<1>1. CASE AlreadyConfirmed(t)
  BY <1>1 DEF Confirm, QuietReport
<1>2. CASE ~AlreadyConfirmed(t)
  <2>1. /\ Grant(t, purchaseIntent[t].user, purchaseIntent[t].item)
        /\ SetStatus(t, "confirmed")
        /\ purchaseToken' = [purchaseToken EXCEPT ![t] = None]
    BY <1>2 DEF Confirm
  <2>2. purchaseIntent[t].user \in Users /\ purchaseIntent[t].item \in Item
    BY DEF TypeOK, IntentRow
  <2>3. HasAccount(purchaseIntent[t].user)
    BY DEF RowsAreOwned
  <2>4. purchaseIntent'[t].status = "confirmed"
    BY <2>1, StatusSet DEF Statuses
  <2>5. purchaseIntent[t].status # "confirmed"
    BY <1>2 DEF AlreadyConfirmed
  <2> QED BY <2>1, <2>2, <2>3, <2>4, <2>5 DEF GrantingReport
<1> QED BY <1>1, <1>2

LEMMA LegacyGrants ==
  ASSUME TypeOK, RowsAreOwned, NEW t \in Tokens, purchaseToken[t] # None, Legacy(t)
  PROVE  GrantingReport(t, "legacy")
<1>1. /\ Grant(t, purchaseToken[t].user, purchaseToken[t].item)
      /\ purchaseToken' = [purchaseToken EXCEPT ![t] = None]
  BY DEF Legacy
<1>2. purchaseToken[t].user \in Users /\ purchaseToken[t].item \in Item
  BY DEF TypeOK, TokenRow
<1>3. HasAccount(purchaseToken[t].user)
  BY DEF RowsAreOwned
<1>4. purchaseIntent'[t] # None => purchaseIntent'[t].status = "confirmed"
  BY StatusSet DEF Legacy, Statuses
<1> QED BY <1>1, <1>2, <1>3, <1>4 DEF GrantingReport

LEMMA ReportOutcome ==
  ASSUME BillingInv, NEW t \in Tokens, Report(t), Reordering = FALSE
  PROVE  \E n \in 1..Len(story[t]) :
           /\ n = reported[t] + 1
           /\ reported' \in {reported, [reported EXCEPT ![t] = n]}
           /\ GrantingReport(t, story[t][n]) \/ QuietReport(t, story[t][n])
<1>1. PICK n \in Due(t), seen \in BOOLEAN :
        /\ LET event == story[t][n]
           IN \/ /\ event = "legacy" /\ purchaseToken[t] # None /\ Legacy(t)
              \/ /\ event # "legacy" /\ purchaseIntent[t] # None
                 /\ \/ event = "order-placed" /\ OrderPlaced(t)
                    \/ event = "delayed-rejected" /\ DelayedRejected(t)
                    \/ event \in {"payment-completed", "delayed-confirmed"} /\ Confirm(t)
        /\ reported' = IF seen /\ n = reported[t] + 1
                         THEN [reported EXCEPT ![t] = n] ELSE reported
  BY DEF Report
<1>2. n \in 1..Len(story[t]) /\ n = reported[t] + 1
  BY DEF Due
<1>3. GrantingReport(t, story[t][n]) \/ QuietReport(t, story[t][n])
  <2>1. TypeOK /\ RowsAreOwned
    BY DEF BillingInv
  <2>2. CASE story[t][n] = "legacy" /\ purchaseToken[t] # None /\ Legacy(t)
    BY <2>1, <2>2, LegacyGrants
  <2>3. CASE /\ purchaseIntent[t] # None
             /\ story[t][n] \in {"payment-completed", "delayed-confirmed"} /\ Confirm(t)
    BY <2>1, <2>3, ConfirmGrants
  <2>4. CASE \/ story[t][n] = "order-placed" /\ OrderPlaced(t)
             \/ story[t][n] = "delayed-rejected" /\ DelayedRejected(t)
    BY <2>4 DEF OrderPlaced, DelayedRejected, QuietReport
  <2> QED BY <1>1, <2>2, <2>3, <2>4
<1> QED BY <1>1, <1>2, <1>3

LEMMA KeptTokens ==
  ASSUME TokensGrantOnce, UNCHANGED <<story, reported>>,
         \A t \in Tokens :
           /\ grants'[t] = grants[t]
           /\ (purchaseToken'[t] # None => purchaseToken[t] # None)
           /\ (purchaseIntent'[t] # None =>
                /\ purchaseIntent[t] # None
                /\ purchaseIntent'[t].status = purchaseIntent[t].status)
  PROVE  TokensGrantOnce'
BY DEF TokensGrantOnce

LEMMA TokensReport ==
  ASSUME BillingInv, TokensGrantOnce, NEW t \in Tokens, Report(t), Reordering = FALSE
  PROVE  TokensGrantOnce'
<1>1. PICK n \in 1..Len(story[t]) :
        /\ n = reported[t] + 1
        /\ reported' \in {reported, [reported EXCEPT ![t] = n]}
        /\ GrantingReport(t, story[t][n]) \/ QuietReport(t, story[t][n])
  BY ReportOutcome
<1>2. /\ ReportChanges(t) /\ story' = story
      /\ story[t] \in Stories \cup {<<>>}
      /\ reported \in [Tokens -> Nat] /\ grants \in [Payments -> Nat] /\ t \in Payments
      /\ Tokens \subseteq Payments
  BY ReportActs DEF BillingInv, TypeOK, Payments
<1>3. reported'[t] \in {reported[t], n} /\ \A x \in Tokens \ {t} : reported'[x] = reported[x]
  BY <1>1, <1>2
<1>4. story[t] \in Stories
  BY <1>1, <1>2
<1>5. ASSUME NEW x \in Tokens \ {t}
      PROVE  /\ grants'[x] = grants[x]
             /\ reported'[x] = reported[x]
             /\ (purchaseToken'[x] # None => purchaseToken[x] # None)
             /\ purchaseIntent'[x] = purchaseIntent[x]
  BY <1>2, <1>3 DEF ReportChanges
<1>6. /\ grants'[t] <= 1
      /\ story'[t] = <<>> => grants'[t] = 0
      /\ grants'[t] = 1 =>
           /\ purchaseToken'[t] = None
           /\ purchaseIntent'[t] # None => purchaseIntent'[t].status = "confirmed"
           /\ \A m \in 1..Len(story'[t]) :
                m > reported'[t] => story'[t][m] \notin {"order-placed", "delayed-rejected"}
  <2>1. CASE GrantingReport(t, story[t][n])
    <3>1. grants[t] # 1
      BY <2>1 DEF GrantingReport, TokensGrantOnce
    <3>2. grants[t] = 0
      BY <1>2, <3>1 DEF TokensGrantOnce
    <3>3. grants'[t] = 1
      <4>1. grants' = [grants EXCEPT ![t] = @ + 1]
        BY <2>1 DEF GrantingReport, Grant
      <4> QED BY <1>2, <3>2, <4>1
    <3>4. purchaseToken'[t] = None
      BY <2>1 DEF GrantingReport, BillingInv, TypeOK
    <3>5. \A m \in 1..Len(story[t]) :
            m > reported'[t] => story[t][m] \notin {"order-placed", "delayed-rejected"}
      <4>1. \A m \in 1..Len(story[t]) : m > reported'[t] => m >= n
        BY <1>1, <1>2, <1>3
      <4> QED BY <1>4, <2>1, <4>1, StoriesEnd DEF GrantingReport
    <3>6. story[t] # <<>>
      BY <1>1
    <3> QED BY <1>2, <2>1, <3>3, <3>4, <3>5, <3>6 DEF GrantingReport
  <2>2. CASE QuietReport(t, story[t][n])
    <3>1. /\ grants'[t] = grants[t] /\ purchaseToken'[t] = purchaseToken[t]
      BY <2>2 DEF QuietReport
    <3>2. \A m \in 1..Len(story[t]) : m > reported'[t] => m > reported[t]
      BY <1>1, <1>2, <1>3
    <3>3. grants[t] = 1 => purchaseIntent' = purchaseIntent
      <4>1. SUFFICES ASSUME grants[t] = 1 PROVE purchaseIntent' = purchaseIntent
        OBVIOUS
      <4>2. n > reported[t]
        BY <1>1, <1>2
      <4>3. story[t][n] \notin {"order-placed", "delayed-rejected"}
        BY <4>1, <4>2 DEF TokensGrantOnce
      <4>4. story[t][n] \in Events
        <5>1. ASSUME NEW s \in Stories, NEW i \in 1..Len(s) PROVE s[i] \in Events
          <6>1. CASE s = <<"payment-completed">>
            BY <6>1 DEF Events
          <6>2. CASE s = <<"order-placed", "delayed-confirmed">>
            BY <6>2 DEF Events
          <6>3. CASE s = <<"order-placed", "delayed-rejected">>
            BY <6>3 DEF Events
          <6>4. CASE s = <<"legacy">>
            BY <6>4 DEF Events
          <6>5. CASE s = <<"legacy", "payment-completed">>
            BY <6>5 DEF Events
          <6> QED BY <6>1, <6>2, <6>3, <6>4, <6>5 DEF Stories
        <5> QED BY <1>4, <5>1
      <4> QED BY <2>2, <4>3, <4>4 DEF QuietReport, Events
    <3> QED BY <1>2, <3>1, <3>2, <3>3 DEF TokensGrantOnce
  <2> QED BY <1>1, <2>1, <2>2
<1>7. SUFFICES ASSUME NEW x \in Tokens, x # t
               PROVE  /\ grants'[x] <= 1
                      /\ story'[x] = <<>> => grants'[x] = 0
                      /\ grants'[x] = 1 =>
                           /\ purchaseToken'[x] = None
                           /\ purchaseIntent'[x] # None => purchaseIntent'[x].status = "confirmed"
                           /\ \A m \in 1..Len(story'[x]) :
                                m > reported'[x] => story'[x][m] \notin {"order-placed", "delayed-rejected"}
  BY <1>6 DEF TokensGrantOnce
<1> QED BY <1>2, <1>5, <1>7 DEF TokensGrantOnce

LEMMA TokensCheckout ==
  ASSUME BillingInv, TokensGrantOnce, NEW t \in Tokens, Checkout(t)
  PROVE  TokensGrantOnce'
<1>1. /\ story[t] = <<>>
      /\ \A x \in Tokens \ {t} : /\ story'[x] = story[x] /\ purchaseToken'[x] = purchaseToken[x]
                                 /\ purchaseIntent'[x] = purchaseIntent[x]
      /\ UNCHANGED <<reported, grants>>
  BY DEF Checkout, BillingInv, TypeOK
<1>2. grants[t] = 0
  BY <1>1 DEF TokensGrantOnce
<1>3. SUFFICES ASSUME NEW x \in Tokens
               PROVE  /\ grants'[x] <= 1
                      /\ story'[x] = <<>> => grants'[x] = 0
                      /\ grants'[x] = 1 =>
                           /\ purchaseToken'[x] = None
                           /\ purchaseIntent'[x] # None => purchaseIntent'[x].status = "confirmed"
                           /\ \A m \in 1..Len(story'[x]) :
                                m > reported'[x] => story'[x][m] \notin {"order-placed", "delayed-rejected"}
  BY DEF TokensGrantOnce
<1>4. CASE x = t
  BY <1>1, <1>2, <1>4
<1>5. CASE x # t
  BY <1>1, <1>5 DEF TokensGrantOnce
<1> QED BY <1>4, <1>5

LEMMA TokensMoved ==
  ASSUME TypeOK, TokensGrantOnce, NEW from \in Users, NEW to \in Users \cup {None},
         RepointPurchases(from, to)
  PROVE  TokensGrantOnce'
<1>1. /\ UNCHANGED <<story, reported, grants>>
      /\ \A t \in Tokens :
           /\ (purchaseToken'[t] # None => purchaseToken[t] # None)
           /\ (purchaseIntent'[t] # None =>
                   /\ purchaseIntent[t] # None
                   /\ purchaseIntent'[t].status = purchaseIntent[t].status)
  BY RepointedPurchases
<1> QED BY <1>1, KeptTokens

LEMMA TokensStep ==
  ASSUME BillingInv, TokensGrantOnce, Reordering = FALSE, [Next]_vars
  PROVE  TokensGrantOnce'
<1> USE DEF BillingInv
<1>1. ASSUME NEW t \in Tokens, Expire(t) PROVE TokensGrantOnce'
  <2>1. /\ purchaseToken' = [purchaseToken EXCEPT ![t] = None]
        /\ purchaseIntent' = [purchaseIntent EXCEPT ![t] = None]
        /\ UNCHANGED <<story, reported, grants>>
    BY <1>1 DEF Expire
  <2>2. \A x \in Tokens : /\ purchaseToken'[x] \in {purchaseToken[x], None}
                          /\ purchaseIntent'[x] \in {purchaseIntent[x], None}
    BY <2>1 DEF TypeOK
  <2> QED BY <2>1, <2>2, KeptTokens
<1>2. ASSUME NEW h \in Handlers, RecordOrder(h) PROVE TokensGrantOnce'
  <2>1. PICK o \in Orders : o = handler[h].order
    BY <1>2, RecordGrants
  <2>2. /\ UNCHANGED <<purchaseToken, purchaseIntent, story, reported>>
        /\ grants' \in {grants, [grants EXCEPT ![o] = @ + 1]}
    BY <1>2, <2>1 DEF RecordOrder, Grant
  <2>3. \A t \in Tokens : grants'[t] = grants[t]
    BY <2>2, PurchasesAssumption DEF TypeOK, Payments
  <2> QED BY <2>2, <2>3, KeptTokens
<1>3. ASSUME UNCHANGED <<purchaseToken, purchaseIntent, story, reported, grants>>
      PROVE  TokensGrantOnce'
  BY <1>3, KeptTokens
<1>4. CASE UNCHANGED vars
  BY <1>3, <1>4 DEF vars, purchaseVars
<1>5. CASE Next
  <2>1. ASSUME NEW o \in Orders, PlaceOrder(o) \/ PayOrder(o) \/ \E h \in Handlers : OrderPaid(h, o)
        PROVE  TokensGrantOnce'
    BY <1>3, <2>1 DEF PlaceOrder, PayOrder, OrderPaid
  <2>2. ASSUME UNCHANGED purchaseVars PROVE TokensGrantOnce'
    BY <1>3, <2>2 DEF purchaseVars
  <2>3. ASSUME NEW target \in Users, NEW source \in Users, Merge(target, source)
        PROVE  TokensGrantOnce'
    BY <2>3, TokensMoved DEF Merge
  <2>4. ASSUME NEW u \in Users, DeleteAccount(u) PROVE TokensGrantOnce'
    BY <2>4, TokensMoved DEF DeleteAccount
  <2>5. ASSUME Restart PROVE TokensGrantOnce'
    BY <1>3, <2>5 DEF Restart, DropHandlers
  <2> QED BY <1>1, <1>2, <1>5, <2>1, <2>2, <2>3, <2>4, <2>5, StepsOfNext, TokensCheckout,
       TokensReport DEF StartStep, DayStep, CleanUpStep
<1> QED BY <1>4, <1>5

-------------------------------------------------------------------------------
(* Answered orders are granted *)

OrdersInv == OpenOrdersStay /\ AnsweredIsGranted

\* Homes are kept but for those of an account that goes, and what was granted stays.
HomesHold ==
  /\ \A o \in Orders : order[o] # None =>
       /\ order'[o] # None
       /\ order'[o].user = order[o].user
       /\ Deleted(order[o].user) => Deleted(order[o].user)'
       /\ userAlias[order[o].user] = None /\ o \notin answered => userAlias'[order[o].user] = None
  /\ \A o \in Orders : grants'[o] \in Nat /\ grants'[o] >= grants[o]

LEMMA AnsweredAreOrders ==
  ASSUME BillingInv
  PROVE  /\ \A o \in answered : o \in Orders /\ order[o] # None
         /\ \A o \in Orders : order[o] # None => order[o].user \in Users
         /\ \A o \in Orders : grants[o] \in Nat
         /\ \A h \in Handlers : handler[h] # None =>
              /\ handler[h].order \in Orders /\ order[handler[h].order] # None
              /\ handler[h].user \in Users
BY DEF BillingInv, TypeOK, OrdersGrantOnce, HandlersFit, OrderRow, HandlerRow, Payments

LEMMA OrdersKept ==
  ASSUME BillingInv, OrdersInv, HomesHold, answered' = answered,
         \A o \in Orders : order[o] = None => order'[o] = None,
         \A h \in Handlers : handler'[h] \in {handler[h], None}
  PROVE  OrdersInv'
<1>1. \A o \in Orders : order'[o] # None => order[o] # None
  OBVIOUS
<1>2. OpenOrdersStay'
  <2>1. \A o \in Orders \ answered : order'[o] # None =>
          /\ order[o] # None /\ order'[o].user = order[o].user
          /\ userAlias'[order[o].user] = None
    BY <1>1 DEF OrdersInv, OpenOrdersStay, HomesHold
  <2>2. \A h \in Handlers : handler'[h] # None => handler[h] # None /\ handler'[h] = handler[h]
    OBVIOUS
  <2> QED BY <2>1, <2>2 DEF OrdersInv, OpenOrdersStay
<1>3. AnsweredIsGranted'
  <2>1. \A o \in answered : o \in Orders /\ order[o] # None
    BY AnsweredAreOrders
  <2>2. \A o \in Orders : grants[o] \in Nat /\ grants'[o] \in Nat /\ grants'[o] >= grants[o]
    BY AnsweredAreOrders DEF HomesHold
  <2>3. SUFFICES ASSUME NEW o \in answered
                 PROVE  grants'[o] >= 1 \/ Deleted(order[o].user)'
    <3>1. \A o \in answered' : o \in answered
      OBVIOUS
    <3>2. \A o \in answered : order'[o].user = order[o].user
      BY <2>1 DEF HomesHold
    <3> QED BY <3>1, <3>2 DEF AnsweredIsGranted, Deleted, HasAccount
  <2>4. CASE grants[o] >= 1
    <3>1. grants'[o] >= grants[o] /\ grants[o] \in Nat /\ grants'[o] \in Nat
      BY <2>1, <2>2
    <3> QED BY <2>4, <3>1
  <2>5. CASE Deleted(order[o].user)
    BY <2>1, <2>5 DEF HomesHold
  <2> QED BY <2>4, <2>5 DEF OrdersInv, AnsweredIsGranted
<1> QED BY <1>2, <1>3 DEF OrdersInv

LEMMA HomesUntouched ==
  ASSUME BillingInv, WalletsKept, order' = order,
         \A o \in Orders : grants'[o] \in Nat /\ grants'[o] >= grants[o]
  PROVE  HomesHold
<1>1. /\ \A x \in Users : HasAccount(x)' <=> HasAccount(x)
      /\ userAlias' = userAlias
  BY DEF WalletsKept
<1>2. \A o \in Orders : order[o] # None => order[o].user \in Users
  BY AnsweredAreOrders
<1> QED BY <1>1, <1>2 DEF HomesHold, Deleted, HasAccount

LEMMA OrdersPlace ==
  ASSUME BillingInv, OrdersInv, NEW o \in Orders, PlaceOrder(o)
  PROVE  OrdersInv'
<1>1. PICK u \in Users, item \in Item :
        /\ HasAccount(u)
        /\ order' = [order EXCEPT ![o] = [user |-> u, item |-> item, paid |-> FALSE]]
  BY DEF PlaceOrder
<1>2. /\ order[o] = None
      /\ UNCHANGED <<handler, answered, grants, wallet, userAlias>>
  BY DEF PlaceOrder, walletVars
<1>3. order'[o].user = u /\ \A x \in Orders \ {o} : order'[x] = order[x]
  BY <1>1 DEF BillingInv, TypeOK
<1>4. userAlias[u] = None
  BY <1>1 DEF BillingInv, AliasesLead
<1>5. \A h \in Handlers : handler[h] # None => handler[h].order # o
  BY <1>2, AnsweredAreOrders
<1>6. OpenOrdersStay'
  <2>1. \A x \in Orders \ answered : order'[x] # None =>
          /\ userAlias[order'[x].user] = None
          /\ \A h \in Handlers : handler[h] # None /\ handler[h].order = x
                                   => handler[h].user = order'[x].user
    BY <1>3, <1>4, <1>5 DEF OrdersInv, OpenOrdersStay
  <2> QED BY <1>2, <2>1 DEF OpenOrdersStay
<1>7. AnsweredIsGranted'
  BY <1>2, <1>3, AnsweredAreOrders DEF OrdersInv, AnsweredIsGranted, Deleted, HasAccount
<1> QED BY <1>6, <1>7 DEF OrdersInv

LEMMA OrdersPaid ==
  ASSUME BillingInv, OrdersInv, NEW h \in Handlers, NEW o \in Orders, OrderPaid(h, o)
  PROVE  OrdersInv'
<1>1. /\ handler[h] = None /\ order[o] # None
      /\ UNCHANGED <<order, grants, wallet, userAlias>>
  BY DEF OrderPaid, walletVars
<1>2. order[o].user \in Users
  BY <1>1, AnsweredAreOrders
<1>3. \/ /\ answered' = answered
         /\ \E u \in Resolved(o) : handler' = [handler EXCEPT ![h] = [order |-> o, user |-> u]]
      \/ /\ Resolved(o) = {} /\ answered' = answered \cup {o} /\ handler' = handler
  BY DEF OrderPaid
<1>4. ASSUME o \notin answered
      PROVE  /\ userAlias[order[o].user] = None
             /\ \A u \in Resolved(o) : u = order[o].user
             /\ Resolved(o) = {} => Deleted(order[o].user)
  <2>1. userAlias[order[o].user] = None
    BY <1>1, <1>4 DEF OrdersInv, OpenOrdersStay
  <2>2. CASE HasAccount(order[o].user)
    BY <2>1, <2>2 DEF Resolved
  <2>3. CASE ~HasAccount(order[o].user)
    <3>1. Home(order[o].user) = None
      BY <2>1, <2>3 DEF Home
    <3>2. Resolved(o) = {}
      BY <1>2, <2>3, <3>1, UsersAssumption DEF Resolved, BillingInv, CustomersAtHome
    <3> QED BY <2>1, <2>3, <3>2 DEF Deleted
  <2> QED BY <2>1, <2>2, <2>3
<1>5. \A x \in Orders : grants[x] \in Nat
  BY AnsweredAreOrders
<1>6. AnsweredIsGranted'
  <2>1. \A x \in answered' : x \in answered \/ (x = o /\ o \notin answered /\ Resolved(o) = {})
    BY <1>3
  <2>2. \A x \in answered' : grants[x] >= 1 \/ Deleted(order[x].user)
    BY <1>4, <2>1 DEF OrdersInv, AnsweredIsGranted
  <2> QED BY <1>1, <2>2 DEF AnsweredIsGranted, Deleted, HasAccount
<1>7. OpenOrdersStay'
  <2>1. CASE handler' = handler
    <3>1. answered \subseteq answered'
      BY <1>3
    <3> QED BY <1>1, <2>1, <3>1 DEF OrdersInv, OpenOrdersStay
  <2>2. CASE handler' # handler
    <3>1. PICK u \in Resolved(o) : handler' = [handler EXCEPT ![h] = [order |-> o, user |-> u]]
      BY <1>3, <2>2
    <3>2. answered' = answered
      BY <1>3, <2>2
    <3>3. handler \in [Handlers -> HandlerRow \cup {None}]
      BY DEF BillingInv, TypeOK
    <3>4. /\ handler'[h].order = o /\ handler'[h].user = u
          /\ \A k \in Handlers \ {h} : handler'[k] = handler[k]
      BY <3>1, <3>3
    <3>5. SUFFICES ASSUME NEW x \in Orders \ answered, order[x] # None
                   PROVE  /\ userAlias[order[x].user] = None
                          /\ \A k \in Handlers : handler'[k] # None /\ handler'[k].order = x
                                                   => handler'[k].user = order[x].user
      BY <1>1, <3>2 DEF OpenOrdersStay
    <3>6. userAlias[order[x].user] = None
      BY <3>5 DEF OrdersInv, OpenOrdersStay
    <3>7. ASSUME NEW k \in Handlers, handler'[k] # None, handler'[k].order = x
          PROVE  handler'[k].user = order[x].user
      <4>1. CASE k = h
        BY <1>4, <3>4, <3>5, <3>7, <4>1
      <4>2. CASE k # h
        BY <3>4, <3>5, <3>7, <4>2 DEF OrdersInv, OpenOrdersStay
      <4> QED BY <4>1, <4>2
    <3> QED BY <3>6, <3>7
  <2> QED BY <2>1, <2>2
<1> QED BY <1>6, <1>7 DEF OrdersInv

LEMMA OrdersRecord ==
  ASSUME BillingInv, OrdersInv, NEW h \in Handlers, RecordOrder(h), UNCHANGED downloadVars
  PROVE  OrdersInv'
<1>1. PICK o \in Orders : o = handler[h].order
  BY RecordGrants
<1>2. PICK u \in Users : u = handler[h].user
  BY RecordGrants
<1>3. /\ IF Inserted(o, u)
           THEN recorded' = [recorded EXCEPT ![o] = u] /\ Grant(o, u, order[o].item)
           ELSE UNCHANGED <<recorded, grants, bought, wallet>>
      /\ answered' = answered \cup {o}
      /\ handler' = [handler EXCEPT ![h] = None]
      /\ UNCHANGED <<order, userAlias>>
  BY <1>1, <1>2 DEF RecordOrder
<1>4. /\ order[o] # None /\ order[o].user \in Users /\ order[o].item \in Item
      /\ handler[h] # None /\ o \in Payments
  BY <1>1, RecordGrants DEF Payments
<1>5. /\ \A x \in Users : HasAccount(x)' <=> HasAccount(x)
      /\ grants \in [Payments -> Nat]
      /\ \A x \in Orders : grants'[x] \in Nat /\ grants'[x] >= grants[x]
      /\ Inserted(o, u) => grants'[o] >= 1
  <2>1. grants \in [Payments -> Nat] /\ Orders \subseteq Payments
    BY DEF BillingInv, TypeOK, Payments
  <2>2. CASE Inserted(o, u)
    <3>1. /\ WalletsKept
          /\ \A q \in Payments : grants'[q] = IF q = o THEN grants[q] + 1 ELSE grants[q]
      BY <1>3, <1>4, <2>2, GrantKeeps DEF BillingInv
    <3> QED BY <1>4, <2>1, <3>1 DEF WalletsKept
  <2>3. CASE ~Inserted(o, u)
    <3>1. UNCHANGED <<grants, wallet>>
      BY <1>3, <2>3
    <3> QED BY <2>1, <2>3, <3>1 DEF HasAccount
  <2> QED BY <2>2, <2>3
<1>6. \A x \in Orders : order[x] # None => order[x].user \in Users
  BY AnsweredAreOrders
<1>7. \A x \in Orders : order[x] # None /\ Deleted(order[x].user) => Deleted(order[x].user)'
  BY <1>3, <1>5, <1>6 DEF Deleted, HasAccount
<1>8. OpenOrdersStay'
  <2>1. \A k \in Handlers : handler'[k] # None => handler'[k] = handler[k]
    BY <1>3 DEF BillingInv, TypeOK
  <2> QED BY <1>3, <2>1 DEF OrdersInv, OpenOrdersStay
<1>9. ASSUME NEW x \in answered'
      PROVE  grants'[x] >= 1 \/ Deleted(order[x].user)'
  <2>1. x \in Orders /\ order[x] # None /\ grants[x] \in Nat /\ grants'[x] \in Nat /\ grants'[x] >= grants[x]
    BY <1>3, <1>4, <1>5, <1>9, AnsweredAreOrders DEF Payments
  <2>2. CASE x \in answered
    <3>1. grants[x] >= 1 \/ Deleted(order[x].user)
      BY <2>2 DEF OrdersInv, AnsweredIsGranted
    <3>2. CASE grants[x] >= 1
      BY <1>5, <2>1, <3>2
    <3>3. CASE Deleted(order[x].user)
      BY <1>7, <2>1, <3>3
    <3> QED BY <3>1, <3>2, <3>3
  <2>3. CASE x \notin answered
    <3>1. x = o
      BY <1>3, <2>3, <1>9
    <3>2. u = order[o].user /\ userAlias[u] = None
      BY <1>1, <1>2, <1>4, <2>3, <3>1 DEF OrdersInv, OpenOrdersStay
    <3>3. CASE Inserted(o, u)
      BY <1>5, <3>1, <3>3
    <3>4. CASE recorded[o] # None
      <4>1. grants[o] = 1
        BY <3>4 DEF BillingInv, OrdersGrantOnce
      <4> QED BY <2>1, <3>1, <4>1
    <3>5. CASE ~HasAccount(u)
      <4>1. Deleted(order[o].user)
        BY <3>2, <3>5 DEF Deleted
      <4> QED BY <1>4, <1>7, <3>1, <4>1
    <3> QED BY <3>3, <3>4, <3>5 DEF Inserted
  <2> QED BY <2>2, <2>3
<1>10. AnsweredIsGranted'
  BY <1>3, <1>9 DEF AnsweredIsGranted, Deleted, HasAccount
<1> QED BY <1>8, <1>10 DEF OrdersInv

LEMMA OrdersMerge ==
  ASSUME BillingInv, OrdersInv, "order" \notin MergesDuring,
         NEW target \in Users, NEW source \in Users, Merge(target, source)
  PROVE  OrdersInv'
<1>1. /\ HasAccount(source)
      /\ \A x \in Users : HasAccount(x)' <=> HasAccount(x) /\ x # source
      /\ \A x \in Users : userAlias'[x] = IF x = source \/ userAlias[x] = source
                                            THEN target ELSE userAlias[x]
  BY MergeMoves DEF Merge, BillingInv
<1>2. ~OrderOpen(source)
  BY DEF Merge, Overtakes
<1>3. UNCHANGED <<order, handler, answered, grants>>
  BY DEF Merge, RepointPurchases
<1>4. /\ \A o \in Orders : order[o] # None => order[o].user \in Users
      /\ \A o \in Orders : grants[o] \in Nat
  BY AnsweredAreOrders
<1>5. HomesHold
  <2>1. ASSUME NEW o \in Orders, order[o] # None
        PROVE  /\ Deleted(order[o].user) => Deleted(order[o].user)'
               /\ userAlias[order[o].user] = None /\ o \notin answered
                    => userAlias'[order[o].user] = None
    <3>1. PICK x \in Users : x = order[o].user
      BY <1>4, <2>1
    <3>2. ASSUME ~HasAccount(x), userAlias[x] = None
          PROVE  ~HasAccount(x)' /\ userAlias'[x] = None
      BY <1>1, <3>2, UsersAssumption
    <3>3. ASSUME o \notin answered, userAlias[x] = None
          PROVE  userAlias'[x] = None
      <4>1. x # source
        BY <1>2, <2>1, <3>1, <3>3 DEF OrderOpen
      <4> QED BY <1>1, <3>3, <4>1, UsersAssumption
    <3> QED BY <1>3, <3>1, <3>2, <3>3 DEF Deleted, HasAccount
  <2> QED BY <1>3, <1>4, <2>1 DEF HomesHold
<1> QED BY <1>3, <1>5, OrdersKept

LEMMA OrdersDelete ==
  ASSUME BillingInv, OrdersInv, NEW u \in Users, DeleteAccount(u)
  PROVE  OrdersInv'
<1>1. /\ \A x \in Users : HasAccount(x)' <=> HasAccount(x) /\ x # u
      /\ \A x \in Users : userAlias'[x] = IF userAlias[x] = u THEN None ELSE userAlias[x]
  BY DeleteMoves DEF DeleteAccount, BillingInv
<1>2. UNCHANGED <<order, handler, answered, grants>>
  BY DEF DeleteAccount, RepointPurchases
<1>3. /\ \A o \in Orders : order[o] # None => order[o].user \in Users
      /\ \A o \in Orders : grants[o] \in Nat
  BY AnsweredAreOrders
<1>4. HomesHold
  BY <1>1, <1>2, <1>3 DEF HomesHold, Deleted, HasAccount
<1> QED BY <1>2, <1>4, OrdersKept

LEMMA OrdersStep ==
  ASSUME BillingInv, OrdersInv, "order" \notin MergesDuring, [Next]_vars
  PROVE  OrdersInv'
<1>1. \A o \in Orders : grants[o] \in Nat
  BY AnsweredAreOrders
<1>2. ASSUME WalletsKept, UNCHANGED <<order, answered>>,
             \A o \in Orders : grants'[o] = grants[o],
             \A h \in Handlers : handler'[h] \in {handler[h], None}
      PROVE  OrdersInv'
  BY <1>1, <1>2, HomesUntouched, OrdersKept
<1>3. ASSUME UNCHANGED <<order, answered, grants, walletVars>>,
             \A h \in Handlers : handler'[h] \in {handler[h], None}
      PROVE  OrdersInv'
  <2>1. WalletsKept
    BY <1>3 DEF WalletsKept, HasAccount, BillingInv, TypeOK, walletVars
  <2> QED BY <1>2, <1>3, <2>1
<1>4. ASSUME NEW t \in Tokens, Report(t) PROVE OrdersInv'
  <2>1. ReportChanges(t) /\ UNCHANGED <<order, handler, answered>>
    BY <1>4, ReportActs DEF BillingInv
  <2>2. \A o \in Orders : grants'[o] = grants[o]
    BY <2>1, PurchasesAssumption DEF ReportChanges, Payments
  <2> QED BY <1>2, <2>1, <2>2 DEF ReportChanges
<1>5. ASSUME NEW o \in Orders, PayOrder(o) PROVE OrdersInv'
  <2>1. \A x \in Orders : /\ order'[x] = None <=> order[x] = None
                          /\ order[x] # None => order'[x].user = order[x].user
    BY <1>5, OrderIsPaid DEF BillingInv
  <2>2. UNCHANGED <<handler, answered, grants, wallet, userAlias>>
    BY <1>5 DEF PayOrder, walletVars
  <2>3. HomesHold
    BY <1>1, <2>1, <2>2 DEF HomesHold, Deleted, HasAccount
  <2> QED BY <2>1, <2>2, <2>3, OrdersKept
<1>6. ASSUME UNCHANGED purchaseVars, WalletsKept PROVE OrdersInv'
  BY <1>2, <1>6 DEF purchaseVars
<1>7. ASSUME NEW j \in Jobs, StartStep(j) PROVE OrdersInv'
  <2>1. PICK u \in Users : wallet' = Credited(wallet, u, -Price)
    BY <1>7 DEF StartStep, StartDownload
  <2>2. WalletsKept
    BY <1>7, <2>1, CreditKeeps, DownloadsAssumption DEF BillingInv, StartStep, StartDownload
  <2> QED BY <1>6, <1>7, <2>2 DEF StartStep
<1>8. ASSUME NEW j \in Jobs, Settle(j), UNCHANGED purchaseVars PROVE OrdersInv'
  <2>1. CASE refund[j]
    <3>1. buyer[j] \in Users
      BY <1>8 DEF Settle, BillingInv, TypeOK, BuyersKnown
    <3>2. WalletsKept
      BY <1>8, <2>1, <3>1, CreditKeeps, DownloadsAssumption DEF BillingInv, Settle
    <3> QED BY <1>6, <1>8, <3>2
  <2>2. CASE ~refund[j]
    BY <1>3, <1>8, <2>2 DEF Settle, walletVars, purchaseVars
  <2> QED BY <2>1, <2>2
<1>9. CASE UNCHANGED vars
  BY <1>3, <1>9 DEF vars, purchaseVars
<1>10. CASE Next
  <2>1. ASSUME NEW t \in Tokens, Checkout(t) \/ Expire(t) PROVE OrdersInv'
    BY <1>3, <2>1 DEF Checkout, Expire
  <2>2. ASSUME UNCHANGED walletVars, UNCHANGED purchaseVars PROVE OrdersInv'
    BY <1>3, <2>2 DEF purchaseVars
  <2>3. ASSUME NEW j \in Jobs, UNCHANGED purchaseVars,
               FinishDownload(j) \/ FailDownload(j) \/ MailFailure(j) \/ JobDies(j)
        PROVE OrdersInv'
    BY <2>2, <2>3 DEF FinishDownload, FailDownload, MailFailure, JobDies
  <2>4. ASSUME NEW j \in Jobs, DayStep(j) PROVE OrdersInv'
    BY <2>2, <2>4 DEF DayStep, DayPasses
  <2>5. ASSUME CleanUpStep PROVE OrdersInv'
    BY <1>6, <2>5, CleanUpKeeps DEF CleanUpStep, BillingInv
  <2>6. ASSUME Restart PROVE OrdersInv'
    BY <1>3, <2>6 DEF Restart, DropHandlers
  <2> QED BY <1>4, <1>5, <1>7, <1>8, <1>10, <2>1, <2>3, <2>4, <2>5, <2>6, StepsOfNext,
       OrdersPlace, OrdersPaid, OrdersRecord, OrdersMerge, OrdersDelete
<1> QED BY <1>9, <1>10

\* Nothing is granted twice if Rovas reports in order, whatever merges: "grant
\* access (idempotently)" (purchaseValidateHandler.ts:176).
THEOREM NothingGrantedTwice ==
  ASSUME Reordering = FALSE
  PROVE  Spec => []GrantedOnce
<1> DEFINE I == BillingInv /\ TokensGrantOnce
<1>1. Init => I
  <2> SUFFICES ASSUME Init PROVE I
    OBVIOUS
  <2>1. grants = [p \in Payments |-> 0]
    BY DEF Init, InitPurchases
  <2> QED BY <2>1, InvInit DEF TokensGrantOnce, Payments
<1>2. I /\ [Next]_vars => I'
  BY InvStep, TokensStep
<1>3. I => GrantedOnce
  BY DEF BillingInv, TokensGrantOnce, OrdersGrantOnce, GrantedOnce, Payments
<1> HIDE DEF I
<1> QED BY <1>1, <1>2, <1>3, PTL DEF Spec

\* A payment reported is granted once, no less and no more, if Rovas reports in
\* order and no merge overtakes an order paid but not provisioned: however often
\* reports repeat, whichever callbacks bring them, however requests for an order
\* overlap, and whatever restarts, expires or is deleted between.
THEOREM PaymentsGrantOnce ==
  ASSUME Reordering = FALSE, "order" \notin MergesDuring
  PROVE  Spec => []GrantedExactlyOnce
<1> DEFINE I == BillingInv /\ TokensGrantOnce /\ OrdersInv
<1>1. Init => I
  <2> SUFFICES ASSUME Init PROVE I
    OBVIOUS
  <2>1. BillingInv
    BY InvInit
  <2>2. /\ grants = [p \in Payments |-> 0] /\ answered = {} /\ order = [o \in Orders |-> None]
    BY DEF Init, InitPurchases
  <2>3. TokensGrantOnce
    BY <2>2 DEF TokensGrantOnce, Payments
  <2>4. OrdersInv
    BY <2>2 DEF OrdersInv, OpenOrdersStay, AnsweredIsGranted
  <2> QED BY <2>1, <2>3, <2>4
<1>2. I /\ [Next]_vars => I'
  BY InvStep, TokensStep, OrdersStep
<1>3. I => GrantedExactlyOnce
  BY DEF BillingInv, TokensGrantOnce, OrdersGrantOnce, OrdersInv, GrantedExactlyOnce,
     GrantedOnce, Payments
<1> HIDE DEF I
<1> QED BY <1>1, <1>2, <1>3, PTL DEF Spec

-------------------------------------------------------------------------------
(* Credits balance *)

LEMMA AbsorbedAtHome ==
  ASSUME AliasesLead, NEW v \in Users, HasAccount(v), NEW x \in Users
  PROVE  x \in Absorbed(v) <=> Home(x) = v
<1>1. userAlias[x] # None => ~HasAccount(x)
  BY DEF AliasesLead
<1>2. userAlias[x] = v => userAlias[x] # None
  BY UsersAssumption
<1> QED BY <1>1, <1>2 DEF Absorbed, Home

CountsFit ==
  \A u \in Users :
    /\ IsFiniteSet(Absorbed(u)) /\ Cardinality(Absorbed(u)) \in Nat
    /\ IsFiniteSet(PacksOf(u)) /\ Cardinality(PacksOf(u)) \in Nat
    /\ IsFiniteSet(MapsOf(u)) /\ Cardinality(MapsOf(u)) \in Nat

LEMMA Counts == CountsFit
<1>1. IsFiniteSet(Payments)
  BY PurchasesAssumption, FS_Union DEF Payments
<1>2. SUFFICES ASSUME NEW u \in Users
               PROVE  /\ IsFiniteSet(Absorbed(u)) /\ Cardinality(Absorbed(u)) \in Nat
                      /\ IsFiniteSet(PacksOf(u)) /\ Cardinality(PacksOf(u)) \in Nat
                      /\ IsFiniteSet(MapsOf(u)) /\ Cardinality(MapsOf(u)) \in Nat
  BY DEF CountsFit
<1>3. Absorbed(u) \subseteq Users /\ PacksOf(u) \subseteq Payments /\ MapsOf(u) \subseteq Jobs
  BY DEF Absorbed, PacksOf, MapsOf
<1>4. IsFiniteSet(Absorbed(u)) /\ IsFiniteSet(PacksOf(u)) /\ IsFiniteSet(MapsOf(u))
  BY <1>1, <1>3, FS_Subset, UsersAssumption, DownloadsAssumption
<1> QED BY <1>4, FS_CardinalityType

LEMMA OneMore ==
  ASSUME NEW S, NEW x, IsFiniteSet(S), x \notin S
  PROVE  Cardinality(S \cup {x}) = Cardinality(S) + 1
BY FS_AddElement

LEMMA OneLess ==
  ASSUME NEW S, NEW x, IsFiniteSet(S), x \in S
  PROVE  Cardinality(S \ {x}) = Cardinality(S) - 1
BY FS_RemoveElement

LEMMA FewerBy ==
  ASSUME NEW S, NEW T, IsFiniteSet(S), T \subseteq S
  PROVE  Cardinality(S \ T) = Cardinality(S) - Cardinality(T)
<1>1. S \cap T = T /\ IsFiniteSet(T)
  BY FS_Subset
<1> QED BY <1>1, FS_Difference

LEMMA Together ==
  ASSUME NEW S, NEW T, IsFiniteSet(S), IsFiniteSet(T), S \cap T = {}
  PROVE  Cardinality(S \cup T) = Cardinality(S) + Cardinality(T)
<1>1. Cardinality(S \cap T) = 0
  BY FS_EmptySet
<1>2. Cardinality(S) \in Nat /\ Cardinality(T) \in Nat
  BY FS_CardinalityType
<1>3. Cardinality(S \cup T) = Cardinality(S) + Cardinality(T) - Cardinality(S \cap T)
  BY FS_Union
<1> QED BY <1>1, <1>2, <1>3

LEMMA Distributes ==
  ASSUME NEW k \in Nat, NEW a \in Int, NEW b \in Int
  PROVE  /\ k * (a + b) = k * a + k * b
         /\ k * (a - b) = k * a - k * b
         /\ k * (a + 1) = k * a + k
         /\ k * (a - 1) = k * a - k
         /\ k * a \in Int /\ k * b \in Int
OBVIOUS

\* The credits an account should have.
Balance(u) ==
  InitialCredits * Cardinality(Absorbed(u))
    + Amount * Cardinality(PacksOf(u)) - Price * Cardinality(MapsOf(u))

LEMMA BalanceKept ==
  ASSUME CreditsBalance,
         \A v \in Users : HasAccount(v)' =>
           /\ HasAccount(v) /\ wallet'[v].credits = wallet[v].credits
           /\ Absorbed(v)' = Absorbed(v) /\ PacksOf(v)' = PacksOf(v) /\ MapsOf(v)' = MapsOf(v)
  PROVE  CreditsBalance'
BY DEF CreditsBalance

\* A pack granted adds its amount, once.
LEMMA BalanceGrant ==
  ASSUME BillingInv, BoughtIsGranted, CreditsBalance, NEW p \in Payments, grants[p] = 0,
         NEW u \in Users, HasAccount(u), NEW item \in Item, Grant(p, u, item),
         userAlias' = userAlias, UNCHANGED downloadVars
  PROVE  CreditsBalance' /\ BoughtIsGranted'
<1>1. /\ WalletsKept
      /\ \A q \in Payments : grants'[q] = IF q = p THEN grants[q] + 1 ELSE grants[q]
      /\ \A q \in Payments : bought'[q] = IF q = p /\ item = "credits" THEN u ELSE bought[q]
      /\ \A x \in Users : HasAccount(x) =>
           wallet'[x].credits = IF x = u /\ item = "credits" THEN wallet[x].credits + Amount
                                                             ELSE wallet[x].credits
  BY GrantKeeps DEF BillingInv
<1>2. bought[p] = None
  BY DEF BoughtIsGranted
<1>3. BoughtIsGranted'
  BY <1>1, <1>2 DEF BoughtIsGranted
<1>4. \A v \in Users : HasAccount(v)' <=> HasAccount(v)
  BY <1>1 DEF WalletsKept
<1>5. \A v \in Users : Absorbed(v)' = Absorbed(v) /\ MapsOf(v)' = MapsOf(v)
  BY DEF Absorbed, MapsOf, downloadVars
<1>6. \A v \in Users : None \notin Absorbed(v)
  BY UsersAssumption DEF Absorbed
<1>7. CASE item # "credits"
  <2>1. \A v \in Users : PacksOf(v)' = PacksOf(v)
    BY <1>1, <1>5, <1>7 DEF PacksOf
  <2> QED BY <1>1, <1>3, <1>4, <1>5, <1>7, <2>1, BalanceKept
<1>8. CASE item = "credits"
  <2>1. SUFFICES ASSUME NEW v \in Users, HasAccount(v)
                 PROVE  wallet'[v].credits = Balance(v)'
    BY <1>3, <1>4 DEF CreditsBalance, Balance
  <2>2. wallet[v].credits = Balance(v)
    BY <2>1 DEF CreditsBalance, Balance
  <2>3. CASE v # u
    <3>1. u \notin Absorbed(v)
      <4>1. Home(u) = u
        BY DEF Home
      <4> QED BY <2>1, <2>3, <4>1, AbsorbedAtHome DEF BillingInv
    <3>2. PacksOf(v)' = PacksOf(v)
      BY <1>1, <1>2, <1>5, <1>6, <1>8, <3>1 DEF PacksOf
    <3> QED BY <1>1, <1>5, <2>1, <2>2, <2>3, <3>2 DEF Balance
  <2>4. CASE v = u
    <3>1. u \in Absorbed(u)
      BY DEF Absorbed
    <3>2. PacksOf(u)' = PacksOf(u) \cup {p} /\ p \notin PacksOf(u)
      BY <1>1, <1>2, <1>5, <1>6, <1>8, <3>1 DEF PacksOf
    <3>3. Cardinality(PacksOf(u)') = Cardinality(PacksOf(u)) + 1
      BY <3>2, Counts, OneMore DEF CountsFit
    <3>4. PICK a \in Nat : a = Cardinality(Absorbed(u))
      BY Counts DEF CountsFit
    <3>5. PICK b \in Nat : b = Cardinality(PacksOf(u))
      BY Counts DEF CountsFit
    <3>6. PICK c \in Nat : c = Cardinality(MapsOf(u))
      BY Counts DEF CountsFit
    <3>7. wallet[u].credits = InitialCredits * a + Amount * b - Price * c
      BY <2>2, <2>4, <3>4, <3>5, <3>6 DEF Balance
    <3>8. Balance(u)' = InitialCredits * a + Amount * (b + 1) - Price * c
      BY <1>5, <3>3, <3>4, <3>5, <3>6 DEF Balance
    <3>9. InitialCredits * a + Amount * (b + 1) - Price * c
            = InitialCredits * a + Amount * b - Price * c + Amount
      <4>1. InitialCredits \in Nat /\ Amount \in Nat /\ Price \in Nat
        BY BillingAssumption, PurchasesAssumption, DownloadsAssumption
      <4>2. Amount * (b + 1) = Amount * b + Amount
        BY <4>1, Distributes
      <4>3. InitialCredits * a \in Int /\ Amount * b \in Int /\ Price * c \in Int
        BY <4>1, Distributes
      <4> QED BY <4>1, <4>2, <4>3
    <3> QED BY <1>1, <1>8, <2>1, <2>4, <3>7, <3>8, <3>9
  <2> QED BY <2>3, <2>4
<1> QED BY <1>7, <1>8

\* The three amounts of a balance, for the arithmetic.
LEMMA BalanceOf ==
  ASSUME NEW a \in Nat, NEW b \in Nat, NEW c \in Nat
  PROVE  /\ InitialCredits \in Nat /\ Amount \in Nat /\ Price \in Nat
         /\ InitialCredits * a \in Int /\ Amount * b \in Int /\ Price * c \in Int
         /\ InitialCredits * a + Amount * b - Price * c \in Int
<1>1. InitialCredits \in Nat /\ Amount \in Nat /\ Price \in Nat
  BY BillingAssumption, PurchasesAssumption, DownloadsAssumption
<1>2. InitialCredits * a \in Int /\ Amount * b \in Int /\ Price * c \in Int
  BY <1>1, Distributes
<1> QED BY <1>1, <1>2

\* An account whose maps become `more` in number (fewer when negative) and that
\* paid for them.
LEMMA BalanceMaps ==
  ASSUME NEW v \in Users, NEW n \in Int, wallet[v].credits = Balance(v),
         wallet'[v].credits = wallet[v].credits - Price * n,
         Absorbed(v)' = Absorbed(v), PacksOf(v)' = PacksOf(v),
         Cardinality(MapsOf(v)') = Cardinality(MapsOf(v)) + n
  PROVE  wallet'[v].credits = Balance(v)'
<1>1. PICK a \in Nat : a = Cardinality(Absorbed(v))
  BY Counts DEF CountsFit
<1>2. PICK b \in Nat : b = Cardinality(PacksOf(v))
  BY Counts DEF CountsFit
<1>3. PICK c \in Nat : c = Cardinality(MapsOf(v))
  BY Counts DEF CountsFit
<1>4. wallet[v].credits = InitialCredits * a + Amount * b - Price * c
  BY <1>1, <1>2, <1>3 DEF Balance
<1>5. Balance(v)' = InitialCredits * a + Amount * b - Price * (c + n)
  BY <1>1, <1>2, <1>3 DEF Balance
<1>6. /\ InitialCredits \in Nat /\ Amount \in Nat /\ Price \in Nat
      /\ InitialCredits * a \in Int /\ Amount * b \in Int /\ Price * c \in Int
  BY BalanceOf
<1>7. PICK k \in Int : k = InitialCredits * a + Amount * b - Price * c
  BY <1>6
<1>8. PICK m \in Int : m = Price * n
  BY <1>6, Distributes
<1>9. InitialCredits * a + Amount * b - Price * (c + n) = k - m
  <2>1. Price * (c + n) = Price * c + Price * n
    BY <1>6, Distributes
  <2> QED BY <1>6, <1>7, <1>8, <2>1
<1>10. wallet'[v].credits = k - m
  <2>1. wallet[v].credits = k
    BY <1>4, <1>7
  <2> QED BY <1>8, <2>1
<1> QED BY <1>5, <1>9, <1>10

LEMMA BalanceStart ==
  ASSUME BillingInv, NotesFit, BoughtIsGranted, CreditsBalance, NEW j \in Jobs, StartStep(j)
  PROVE  CreditsBalance' /\ NotesFit'
<1>1. PICK u \in Users :
        /\ HasAccount(u)
        /\ wallet' = Credited(wallet, u, -Price)
        /\ buyer' = [buyer EXCEPT ![j] = u]
        /\ blockedCredit' = [blockedCredit EXCEPT ![j] = [user |-> u, old |-> FALSE]]
  BY DEF StartStep, StartDownload
<1>2. /\ job[j] = "idle" /\ job' = [job EXCEPT ![j] = "running"]
      /\ UNCHANGED <<refund, paid, userAlias, bought>>
  BY DEF StartStep, StartDownload, Become, purchaseVars
<1>3. buyer[j] = None /\ blockedCredit[j] = None /\ j \notin paid
  BY <1>2 DEF NotesFit
<1>4. Price \in Nat /\ -Price \in Int
  BY DownloadsAssumption
<1>5. /\ WalletsKept
      /\ \A x \in Users : HasAccount(x) =>
           wallet'[x].credits = IF x = u THEN wallet[x].credits + (-Price) ELSE wallet[x].credits
  BY <1>1, <1>2, <1>4, CreditKeeps DEF BillingInv
<1>6. \A v \in Users : HasAccount(v)' <=> HasAccount(v)
  BY <1>5 DEF WalletsKept
<1>7. /\ buyer'[j] = u /\ blockedCredit'[j] = [user |-> u, old |-> FALSE] /\ job'[j] = "running"
      /\ \A i \in Jobs \ {j} : /\ buyer'[i] = buyer[i] /\ blockedCredit'[i] = blockedCredit[i]
                               /\ job'[i] = job[i]
  BY <1>1, <1>2 DEF BillingInv, TypeOK
<1>8. blockedCredit'[j] # None /\ blockedCredit'[j].user = u /\ ~blockedCredit'[j].old
  <2>1. [user |-> u, old |-> FALSE] \in NoteRow
    BY DEF NoteRow
  <2>2. [user |-> u, old |-> FALSE] # None
    BY <2>1, DownloadsAssumption
  <2> QED BY <1>7, <2>2
<1>9. \A v \in Users : /\ Absorbed(v)' = Absorbed(v) /\ PacksOf(v)' = PacksOf(v)
                       /\ MapsOf(v)' = IF u \in Absorbed(v) THEN MapsOf(v) \cup {j} ELSE MapsOf(v)
                       /\ j \notin MapsOf(v)
  <2>1. \A v \in Users : Absorbed(v)' = Absorbed(v) /\ PacksOf(v)' = PacksOf(v)
    BY <1>2 DEF Absorbed, PacksOf
  <2>2. \A v \in Users : j \notin MapsOf(v)
    BY <1>3 DEF MapsOf
  <2>3. ASSUME NEW v \in Users, NEW i \in Jobs
        PROVE  i \in MapsOf(v)' <=> i \in MapsOf(v) \/ (i = j /\ u \in Absorbed(v))
    BY <1>2, <1>7, <1>8, <2>1, <2>2 DEF MapsOf
  <2>4. \A v \in Users : MapsOf(v) \subseteq Jobs /\ MapsOf(v)' \subseteq Jobs
    BY DEF MapsOf
  <2> QED BY <2>1, <2>2, <2>3, <2>4
<1>10. CreditsBalance'
  <2>1. SUFFICES ASSUME NEW v \in Users, HasAccount(v)
                 PROVE  wallet'[v].credits = Balance(v)'
    BY <1>6 DEF CreditsBalance, Balance
  <2>2. wallet[v].credits = Balance(v)
    BY <2>1 DEF CreditsBalance, Balance
  <2>3. u \in Absorbed(v) <=> u = v
    <3>1. Home(u) = u
      BY <1>1 DEF Home
    <3> QED BY <2>1, <3>1, AbsorbedAtHome DEF BillingInv
  <2>4. CASE v # u
    BY <1>5, <1>9, <2>1, <2>2, <2>3, <2>4 DEF Balance
  <2>5. CASE v = u
    <3>1. Cardinality(MapsOf(v)') = Cardinality(MapsOf(v)) + 1
      BY <1>9, <2>3, <2>5, Counts, OneMore DEF CountsFit
    <3>2. wallet[v].credits \in Int
      BY <2>1 DEF BillingInv, TypeOK, Wallet, HasAccount
    <3>3. wallet'[v].credits = wallet[v].credits - Price * 1
      BY <1>4, <1>5, <2>1, <2>5, <3>2
    <3> QED BY <1>9, <2>2, <3>1, <3>3, BalanceMaps
  <2> QED BY <2>4, <2>5
<1>11. NotesFit'
  <2>1. \A i \in Jobs : Working(i)' => IF i = j THEN TRUE ELSE Working(i)
    BY <1>7 DEF Working
  <2>2. Home(u) = u /\ userAlias[u] = None
    BY <1>1 DEF Home, BillingInv, AliasesLead
  <2>3. SUFFICES ASSUME NEW i \in Jobs
                 PROVE  /\ job'[i] \in {"idle", "done"} => blockedCredit'[i] = None
                        /\ job'[i] = "idle" => buyer'[i] = None
                        /\ i \in paid' => job'[i] = "done"
                        /\ blockedCredit'[i] # None => blockedCredit'[i].user = Home(buyer[i])'
                        /\ Working(i)' => /\ userAlias'[buyer'[i]] = None
                                          /\ HasAccount(buyer[i])' => blockedCredit'[i] # None
                                          /\ blockedCredit'[i] # None => ~blockedCredit'[i].old
    BY DEF NotesFit
  <2>4. CASE i = j
    BY <1>1, <1>2, <1>3, <1>6, <1>7, <1>8, <2>2, <2>4 DEF Home, HasAccount
  <2>5. CASE i # j
    <3>1. blockedCredit[i] # None => buyer[i] \in Users
      BY DEF NotesFit, BillingInv, BuyersKnown, TypeOK
    <3>2. Working(i) => buyer[i] \in Users
      BY DEF Working, BillingInv, BuyersKnown, TypeOK
    <3>3. buyer[i] \in Users => Home(buyer[i])' = Home(buyer[i])
      BY <1>2, <1>6, <1>7, <2>5 DEF Home, HasAccount
    <3>4. buyer[i] \in Users => (HasAccount(buyer[i])' <=> HasAccount(buyer[i]))
      BY <1>6, <1>7, <2>5 DEF HasAccount
    <3> QED BY <1>2, <1>7, <2>1, <2>5, <3>1, <3>2, <3>3, <3>4 DEF NotesFit
  <2> QED BY <2>4, <2>5
<1> QED BY <1>10, <1>11

\* Notes, where the accounts stay as they are.
LEMMA NotesKept ==
  ASSUME BillingInv, NotesFit, WalletsKept, buyer' = buyer,
         \A i \in Jobs :
           /\ job'[i] \in {"idle", "done"} => blockedCredit'[i] = None
           /\ job'[i] = "idle" => job[i] = "idle"
           /\ i \in paid' => job'[i] = "done"
           /\ blockedCredit'[i] # None =>
                blockedCredit[i] # None /\ blockedCredit'[i].user = blockedCredit[i].user
           /\ Working(i)' => Working(i) /\ blockedCredit'[i] = blockedCredit[i]
  PROVE  NotesFit'
<1>1. /\ \A x \in Users : Home(x)' = Home(x)
      /\ \A x \in Users : HasAccount(x)' <=> HasAccount(x)
      /\ userAlias' = userAlias
  BY KeptHomes DEF BillingInv, WalletsKept
<1>2. SUFFICES ASSUME NEW i \in Jobs
               PROVE  /\ job'[i] \in {"idle", "done"} => blockedCredit'[i] = None
                      /\ job'[i] = "idle" => buyer'[i] = None
                      /\ i \in paid' => job'[i] = "done"
                      /\ blockedCredit'[i] # None => blockedCredit'[i].user = Home(buyer[i])'
                      /\ Working(i)' => /\ userAlias'[buyer'[i]] = None
                                        /\ HasAccount(buyer[i])' => blockedCredit'[i] # None
                                        /\ blockedCredit'[i] # None => ~blockedCredit'[i].old
  BY DEF NotesFit
<1>3. blockedCredit[i] # None => buyer[i] \in Users
  BY DEF NotesFit, BillingInv, BuyersKnown, TypeOK
<1>4. Working(i) => buyer[i] \in Users
  BY DEF Working, BillingInv, BuyersKnown, TypeOK
<1>5. buyer[i] \in Users => Home(buyer[i])' = Home(buyer[i])
  BY <1>1 DEF Home, HasAccount
<1>6. buyer[i] \in Users => (HasAccount(buyer[i])' <=> HasAccount(buyer[i]))
  BY <1>1 DEF HasAccount
<1> QED BY <1>1, <1>3, <1>4, <1>5, <1>6 DEF NotesFit

LEMMA BalanceSettle ==
  ASSUME BillingInv, NotesFit, BoughtIsGranted, CreditsBalance, NEW j \in Jobs, Settle(j),
         UNCHANGED purchaseVars
  PROVE  CreditsBalance' /\ NotesFit'
<1>1. /\ job[j] = "settling" /\ job' = [job EXCEPT ![j] = "done"]
      /\ wallet' = IF refund[j] THEN Credited(wallet, buyer[j], Price) ELSE wallet
      /\ blockedCredit' = [blockedCredit EXCEPT ![j] = None]
      /\ paid' = IF refund[j] THEN paid ELSE paid \cup {j}
      /\ UNCHANGED <<buyer, refund, userAlias, bought>>
  BY DEF Settle, Become, SettledNotes, purchaseVars
<1>2. PICK b \in Users : b = buyer[j]
  BY <1>1 DEF BillingInv, TypeOK, BuyersKnown
<1>3. Price \in Nat
  BY DownloadsAssumption
<1>4. /\ WalletsKept
      /\ \A x \in Users : HasAccount(x) =>
           wallet'[x].credits = IF x = b /\ refund[j] THEN wallet[x].credits + Price
                                                      ELSE wallet[x].credits
  <2>1. CASE refund[j]
    BY <1>1, <1>2, <1>3, <2>1, CreditKeeps DEF BillingInv
  <2>2. CASE ~refund[j]
    BY <1>1, <2>2 DEF BillingInv, TypeOK, WalletsKept, HasAccount
  <2> QED BY <2>1, <2>2
<1>5. \A v \in Users : HasAccount(v)' <=> HasAccount(v)
  BY <1>4 DEF WalletsKept
<1>6. /\ job'[j] = "done" /\ blockedCredit'[j] = None
      /\ \A i \in Jobs \ {j} : /\ blockedCredit'[i] = blockedCredit[i] /\ job'[i] = job[i]
      /\ \A i \in Jobs : i \in paid' <=> i \in paid \/ (i = j /\ ~refund[j])
  BY <1>1 DEF BillingInv, TypeOK
<1>7. /\ userAlias[b] = None /\ j \notin paid
      /\ HasAccount(b) => blockedCredit[j] # None
  BY <1>1, <1>2 DEF NotesFit, Working
<1>8. NotesFit'
  <2>1. \A i \in Jobs : Working(i)' => Working(i) /\ i # j
    BY <1>6 DEF Working
  <2>2. \A i \in Jobs :
           /\ job'[i] \in {"idle", "done"} => blockedCredit'[i] = None
           /\ job'[i] = "idle" => job[i] = "idle"
           /\ i \in paid' => job'[i] = "done"
           /\ blockedCredit'[i] # None =>
                blockedCredit[i] # None /\ blockedCredit'[i].user = blockedCredit[i].user
    BY <1>6 DEF NotesFit
  <2> QED BY <1>1, <1>4, <1>6, <2>1, <2>2, NotesKept
<1>9. \A v \in Users : Absorbed(v)' = Absorbed(v) /\ PacksOf(v)' = PacksOf(v)
  BY <1>1 DEF Absorbed, PacksOf
<1>10. CreditsBalance'
  <2>1. SUFFICES ASSUME NEW v \in Users, HasAccount(v)
                 PROVE  wallet'[v].credits = Balance(v)'
    BY <1>5 DEF CreditsBalance, Balance
  <2>2. wallet[v].credits = Balance(v)
    BY <2>1 DEF CreditsBalance, Balance
  <2>3. b \in Absorbed(v) <=> HasAccount(b) /\ b = v
    <3>1. b \in Absorbed(v) <=> Home(b) = v
      BY <2>1, AbsorbedAtHome DEF BillingInv
    <3> QED BY <1>7, <2>1, <3>1, UsersAssumption DEF Home
  <2>4. MapsOf(v) \subseteq Jobs /\ MapsOf(v)' \subseteq Jobs
    BY DEF MapsOf
  <2>5. ASSUME NEW i \in Jobs
        PROVE  i \in MapsOf(v)' <=> i \in MapsOf(v) /\ ~(i = j /\ refund[j] /\ b = v)
    <3>1. CASE i # j
      BY <1>1, <1>6, <1>9, <3>1 DEF MapsOf
    <3>2. CASE i = j
      <4>1. i \in MapsOf(v) <=> HasAccount(b) /\ b = v
        BY <1>2, <1>7, <2>3, <3>2 DEF MapsOf
      <4>2. i \in MapsOf(v)' <=> b \in Absorbed(v) /\ ~refund[j]
        BY <1>1, <1>2, <1>6, <1>7, <1>9, <3>2 DEF MapsOf
      <4> QED BY <2>3, <3>2, <4>1, <4>2
    <3> QED BY <3>1, <3>2
  <2>6. CASE ~(refund[j] /\ b = v)
    <3>1. MapsOf(v)' = MapsOf(v)
      BY <2>4, <2>5, <2>6
    <3> QED BY <1>4, <1>9, <2>1, <2>2, <2>6, <3>1 DEF Balance
  <2>7. CASE refund[j] /\ b = v
    <3>1. j \in MapsOf(v)
      BY <1>2, <1>7, <2>1, <2>3, <2>7 DEF MapsOf
    <3>2. MapsOf(v)' = MapsOf(v) \ {j}
      BY <2>4, <2>5, <2>7
    <3>3. /\ Cardinality(MapsOf(v)') = Cardinality(MapsOf(v)) - 1
          /\ Cardinality(MapsOf(v)) \in Nat
      BY <3>1, <3>2, Counts, OneLess DEF CountsFit
    <3>4. wallet[v].credits \in Int
      BY <2>1 DEF BillingInv, TypeOK, Wallet, HasAccount
    <3>5. wallet'[v].credits = wallet[v].credits - Price * (-1)
      BY <1>3, <1>4, <2>1, <2>7, <3>4
    <3>6. Cardinality(MapsOf(v)') = Cardinality(MapsOf(v)) + (-1) /\ -1 \in Int
      BY <3>3
    <3> QED BY <1>9, <2>2, <3>5, <3>6, BalanceMaps
  <2> QED BY <2>6, <2>7
<1> QED BY <1>8, <1>10

LEMMA BalanceCleanUp ==
  ASSUME BillingInv, NotesFit, BoughtIsGranted, CreditsBalance, CleanUpStep
  PROVE  CreditsBalance' /\ NotesFit'
<1>1. /\ blockedCredit' = [j \in Jobs |-> IF j \in OldNotes THEN None ELSE blockedCredit[j]]
      /\ UNCHANGED <<job, buyer, refund, paid, userAlias, bought>>
  BY DEF CleanUpStep, CleanUpNotes, purchaseVars
<1>2. /\ WalletsKept
      /\ \A u \in Users : IsFiniteSet(OldNotesOf(u))
      /\ \A u \in Users : HasAccount(u) =>
           wallet'[u].credits = wallet[u].credits + Price * Cardinality(OldNotesOf(u))
  BY CleanUpKeeps DEF BillingInv, CleanUpStep
<1>3. NotesFit'
  <2>1. \A i \in Jobs : Working(i) => i \notin OldNotes
    BY DEF NotesFit, OldNotes
  <2>2. \A i \in Jobs : Working(i)' => Working(i) /\ blockedCredit'[i] = blockedCredit[i]
    BY <1>1, <2>1 DEF Working
  <2>3. \A i \in Jobs :
           /\ job'[i] \in {"idle", "done"} => blockedCredit'[i] = None
           /\ job'[i] = "idle" => job[i] = "idle"
           /\ i \in paid' => job'[i] = "done"
           /\ blockedCredit'[i] # None =>
                blockedCredit[i] # None /\ blockedCredit'[i].user = blockedCredit[i].user
    BY <1>1 DEF NotesFit
  <2> QED BY <1>1, <1>2, <2>2, <2>3, NotesKept
<1>4. \A v \in Users : Absorbed(v)' = Absorbed(v) /\ PacksOf(v)' = PacksOf(v)
  BY <1>1 DEF Absorbed, PacksOf
<1>5. CreditsBalance'
  <2>1. SUFFICES ASSUME NEW v \in Users, HasAccount(v)
                 PROVE  wallet'[v].credits = Balance(v)'
    BY <1>2 DEF CreditsBalance, Balance, WalletsKept
  <2>2. wallet[v].credits = Balance(v)
    BY <2>1 DEF CreditsBalance, Balance
  <2>3. ASSUME NEW i \in OldNotes
        PROVE  /\ i \in Jobs /\ blockedCredit[i] # None /\ i \notin paid
               /\ blockedCredit[i].user = v <=> buyer[i] \in Absorbed(v)
    <3>1. i \in Jobs /\ blockedCredit[i] # None
      BY DEF OldNotes
    <3>2. /\ job[i] \notin {"idle", "done"} /\ i \notin paid
          /\ blockedCredit[i].user = Home(buyer[i])
      BY <3>1 DEF NotesFit
    <3>3. buyer[i] \in Users
      BY <3>1, <3>2 DEF BillingInv, BuyersKnown, TypeOK
    <3>4. buyer[i] \in Absorbed(v) <=> Home(buyer[i]) = v
      BY <2>1, <3>3, AbsorbedAtHome DEF BillingInv
    <3> QED BY <3>1, <3>2, <3>4
  <2>4. OldNotesOf(v) \subseteq MapsOf(v)
    BY <2>3 DEF OldNotesOf, MapsOf
  <2>5. MapsOf(v)' = MapsOf(v) \ OldNotesOf(v)
    <3>1. MapsOf(v) \subseteq Jobs /\ MapsOf(v)' \subseteq Jobs
      BY DEF MapsOf
    <3>2. ASSUME NEW i \in Jobs
          PROVE  i \in MapsOf(v)' <=> i \in MapsOf(v) \ OldNotesOf(v)
      <4>1. CASE i \in OldNotes
        <5>1. blockedCredit'[i] = None /\ i \notin paid
          BY <1>1, <2>3, <4>1
        <5>2. i \notin MapsOf(v)'
          BY <1>1, <5>1 DEF MapsOf
        <5>3. i \in MapsOf(v) => i \in OldNotesOf(v)
          BY <2>3, <4>1 DEF MapsOf, OldNotesOf
        <5> QED BY <5>2, <5>3
      <4>2. CASE i \notin OldNotes
        <5>1. blockedCredit'[i] = blockedCredit[i] /\ i \notin OldNotesOf(v)
          BY <1>1, <4>2 DEF OldNotesOf
        <5> QED BY <1>1, <1>4, <5>1 DEF MapsOf
      <4> QED BY <4>1, <4>2
    <3> QED BY <3>1, <3>2
  <2>6. PICK n \in Nat : n = Cardinality(OldNotesOf(v))
    BY <1>2, FS_CardinalityType
  <2>7. /\ Cardinality(MapsOf(v)') = Cardinality(MapsOf(v)) - n
        /\ Cardinality(MapsOf(v)) \in Nat
    BY <2>4, <2>5, <2>6, Counts, FewerBy DEF CountsFit
  <2>8. -n \in Int /\ Cardinality(MapsOf(v)') = Cardinality(MapsOf(v)) + (-n)
    BY <2>7
  <2>9. wallet'[v].credits = wallet[v].credits - Price * (-n)
    <3>1. wallet[v].credits \in Int
      BY <2>1 DEF BillingInv, TypeOK, Wallet, HasAccount
    <3>2. wallet'[v].credits = wallet[v].credits + Price * n
      BY <1>2, <2>1, <2>6
    <3>3. Price \in Nat
      BY DownloadsAssumption
    <3> QED BY <3>1, <3>2, <3>3
  <2> QED BY <1>4, <2>2, <2>8, <2>9, BalanceMaps
<1> QED BY <1>3, <1>5

LEMMA NotesMoved ==
  ASSUME BillingInv, NotesFit, NEW from \in Users, NEW to \in Users \cup {None},
         AccountsMove(from, to), RepointNotes(from, to),
         \A j \in Jobs : Working(j) /\ userAlias[buyer[j]] = None
           => userAlias'[buyer[j]] = None
  PROVE  NotesFit'
<1>1. /\ \A j \in Jobs :
           /\ (blockedCredit'[j] # None =>
                /\ blockedCredit[j] # None
                /\ blockedCredit'[j].user = Moved(blockedCredit[j].user, from, to)
                /\ blockedCredit'[j].old = blockedCredit[j].old)
           /\ (blockedCredit'[j] # None <=>
                blockedCredit[j] # None /\ Moved(blockedCredit[j].user, from, to) # None)
      /\ UNCHANGED <<job, buyer, refund, paid>>
  BY RepointedNotes DEF BillingInv
<1>2. SUFFICES ASSUME NEW j \in Jobs
               PROVE  /\ job'[j] \in {"idle", "done"} => blockedCredit'[j] = None
                      /\ job'[j] = "idle" => buyer'[j] = None
                      /\ j \in paid' => job'[j] = "done"
                      /\ blockedCredit'[j] # None => blockedCredit'[j].user = Home(buyer[j])'
                      /\ Working(j)' => /\ userAlias'[buyer'[j]] = None
                                        /\ HasAccount(buyer[j])' => blockedCredit'[j] # None
                                        /\ blockedCredit'[j] # None => ~blockedCredit'[j].old
  BY DEF NotesFit
<1>3. blockedCredit[j] # None => buyer[j] \in Users
  BY DEF NotesFit, BillingInv, BuyersKnown, TypeOK
<1>4. Working(j) => buyer[j] \in Users
  BY DEF Working, BillingInv, BuyersKnown, TypeOK
<1>5. buyer[j] \in Users => Home(buyer[j])' = Moved(Home(buyer[j]), from, to)
  BY <1>1 DEF AccountsMove, Home, HasAccount
<1>6. buyer[j] \in Users =>
        (HasAccount(buyer[j])' => HasAccount(buyer[j]) /\ buyer[j] # from)
  BY <1>1 DEF AccountsMove, HasAccount
<1>7. blockedCredit'[j] # None => blockedCredit'[j].user = Home(buyer[j])'
  BY <1>1, <1>3, <1>5 DEF NotesFit
<1>8. Working(j)' <=> Working(j)
  BY <1>1 DEF Working
<1>9. ASSUME Working(j), HasAccount(buyer[j])'
      PROVE  blockedCredit'[j] # None
  <2>1. buyer[j] \in Users /\ HasAccount(buyer[j]) /\ buyer[j] # from
    BY <1>4, <1>6, <1>9
  <2>2. blockedCredit[j] # None /\ blockedCredit[j].user = Home(buyer[j])
    BY <1>9, <2>1 DEF NotesFit
  <2>3. Home(buyer[j]) = buyer[j]
    BY <2>1 DEF Home
  <2>4. Moved(blockedCredit[j].user, from, to) # None
    BY <2>1, <2>2, <2>3, UsersAssumption DEF Moved
  <2> QED BY <1>1, <2>2, <2>4
<1>10. Working(j) => userAlias'[buyer'[j]] = None
  BY <1>1 DEF NotesFit
<1> QED BY <1>1, <1>7, <1>8, <1>9, <1>10 DEF NotesFit

LEMMA BalanceMerge ==
  ASSUME BillingInv, NotesFit, BoughtIsGranted, CreditsBalance, "download" \notin MergesDuring,
         NEW target \in Users, NEW source \in Users, Merge(target, source)
  PROVE  CreditsBalance' /\ NotesFit'
<1> USE UsersAssumption
<1>1. /\ HasAccount(target) /\ HasAccount(source) /\ target # source
      /\ \A x \in Users \ {target, source} : wallet'[x] = wallet[x]
      /\ wallet'[target] = MergedWallet(wallet[target], wallet[source])
      /\ \A x \in Users : HasAccount(x)' <=> HasAccount(x) /\ x # source
      /\ \A x \in Users : userAlias'[x] = IF x = source \/ userAlias[x] = source
                                            THEN target ELSE userAlias[x]
  BY MergeMoves DEF Merge, BillingInv
<1>2. AccountsMove(source, target)
  BY InvMerge
<1>3. NotesFit'
  <2>1. \A j \in Jobs : Working(j) => buyer[j] # source
    BY DEF Merge, Overtakes
  <2>2. \A j \in Jobs : Working(j) => buyer[j] \in Users
    BY DEF Working, BillingInv, BuyersKnown, TypeOK
  <2>3. \A j \in Jobs : Working(j) /\ userAlias[buyer[j]] = None => userAlias'[buyer[j]] = None
    BY <1>1, <2>1, <2>2
  <2> QED BY <1>2, <2>3, NotesMoved DEF Merge
<1>4. /\ UNCHANGED <<bought, buyer, paid>>
      /\ \A j \in Jobs : blockedCredit'[j] # None <=> blockedCredit[j] # None
  <2>1. \A j \in Jobs : blockedCredit[j] # None => blockedCredit[j].user \in Users
    BY DEF BillingInv, TypeOK, NoteRow
  <2>2. \A j \in Jobs : blockedCredit'[j] # None <=>
          blockedCredit[j] # None /\ Moved(blockedCredit[j].user, source, target) # None
    BY RepointedNotes DEF Merge, BillingInv
  <2> QED BY <2>1, <2>2 DEF Merge, RepointNotes, RepointPurchases, Moved
<1>5. userAlias[source] = None /\ userAlias[target] = None
  BY <1>1 DEF BillingInv, AliasesLead
<1>6. /\ Absorbed(target)' = Absorbed(target) \cup Absorbed(source)
      /\ Absorbed(target) \cap Absorbed(source) = {}
  BY <1>1, <1>5 DEF Absorbed
<1>7. \A v \in Users \ {target, source} : Absorbed(v)' = Absorbed(v)
  BY <1>1, <1>5 DEF Absorbed
<1>8. /\ PacksOf(target)' = PacksOf(target) \cup PacksOf(source)
      /\ PacksOf(target) \cap PacksOf(source) = {}
  BY <1>4, <1>6 DEF PacksOf
<1>9. /\ MapsOf(target)' = MapsOf(target) \cup MapsOf(source)
      /\ MapsOf(target) \cap MapsOf(source) = {}
  BY <1>4, <1>6 DEF MapsOf
<1>10. CreditsBalance'
  <2>1. SUFFICES ASSUME NEW v \in Users, HasAccount(v), v # source
                 PROVE  wallet'[v].credits = Balance(v)'
    BY <1>1 DEF CreditsBalance, Balance
  <2>2. \A x \in Users : HasAccount(x) => wallet[x].credits = Balance(x)
    BY DEF CreditsBalance, Balance
  <2>3. CASE v # target
    <3>1. PacksOf(v)' = PacksOf(v)
      BY <1>4, <1>7, <2>1, <2>3 DEF PacksOf
    <3>2. MapsOf(v)' = MapsOf(v)
      BY <1>4, <1>7, <2>1, <2>3 DEF MapsOf
    <3> QED BY <1>1, <1>7, <2>1, <2>2, <2>3, <3>1, <3>2 DEF Balance
  <2>4. CASE v = target
    <3>1. wallet[target] \in Wallet /\ wallet[source] \in Wallet
      BY <1>1 DEF BillingInv, TypeOK, HasAccount
    <3>2. wallet'[target].credits = wallet[target].credits + wallet[source].credits
      BY <1>1, <3>1, MergedIsWallet
    <3>3. PICK a \in Nat, b \in Nat, c \in Nat :
            a = Cardinality(Absorbed(target)) /\ b = Cardinality(PacksOf(target)) /\ c = Cardinality(MapsOf(target))
      BY Counts DEF CountsFit
    <3>4. PICK d \in Nat, e \in Nat, f \in Nat :
            d = Cardinality(Absorbed(source)) /\ e = Cardinality(PacksOf(source)) /\ f = Cardinality(MapsOf(source))
      BY Counts DEF CountsFit
    <3>5. /\ Cardinality(Absorbed(target)') = a + d
          /\ Cardinality(PacksOf(target)') = b + e
          /\ Cardinality(MapsOf(target)') = c + f
      BY <1>6, <1>8, <1>9, <3>3, <3>4, Counts, Together DEF CountsFit
    <3>6. Balance(target)' = InitialCredits * (a + d) + Amount * (b + e) - Price * (c + f)
      BY <3>5 DEF Balance
    <3>7. /\ wallet[target].credits = InitialCredits * a + Amount * b - Price * c
          /\ wallet[source].credits = InitialCredits * d + Amount * e - Price * f
      BY <1>1, <2>2, <3>3, <3>4 DEF Balance
    <3>8. InitialCredits * (a + d) + Amount * (b + e) - Price * (c + f)
            = (InitialCredits * a + Amount * b - Price * c)
                + (InitialCredits * d + Amount * e - Price * f)
      <4>1. /\ InitialCredits * a \in Int /\ Amount * b \in Int /\ Price * c \in Int
            /\ InitialCredits * d \in Int /\ Amount * e \in Int /\ Price * f \in Int
        BY BalanceOf
      <4>2. /\ InitialCredits * (a + d) = InitialCredits * a + InitialCredits * d
            /\ Amount * (b + e) = Amount * b + Amount * e
            /\ Price * (c + f) = Price * c + Price * f
        <5>1. InitialCredits \in Nat /\ Amount \in Nat /\ Price \in Nat
          BY BalanceOf
        <5>2. InitialCredits * (a + d) = InitialCredits * a + InitialCredits * d
          BY <5>1, Distributes
        <5>3. Amount * (b + e) = Amount * b + Amount * e
          BY <5>1, Distributes
        <5>4. Price * (c + f) = Price * c + Price * f
          BY <5>1, Distributes
        <5> QED BY <5>2, <5>3, <5>4
      <4> QED BY <4>1, <4>2
    <3> QED BY <2>4, <3>2, <3>6, <3>7, <3>8
  <2> QED BY <2>3, <2>4
<1> QED BY <1>3, <1>10

LEMMA BalanceDelete ==
  ASSUME BillingInv, NotesFit, BoughtIsGranted, CreditsBalance,
         NEW u \in Users, DeleteAccount(u)
  PROVE  CreditsBalance' /\ NotesFit'
<1> USE UsersAssumption
<1>1. /\ \A x \in Users \ {u} : wallet'[x] = wallet[x]
      /\ \A x \in Users : HasAccount(x)' <=> HasAccount(x) /\ x # u
      /\ \A x \in Users : userAlias'[x] = IF userAlias[x] = u THEN None ELSE userAlias[x]
  BY DeleteMoves DEF DeleteAccount, BillingInv
<1>2. AccountsMove(u, None)
  BY InvDelete
<1>3. NotesFit'
  <2>1. \A j \in Jobs : Working(j) => buyer[j] \in Users
    BY DEF Working, BillingInv, BuyersKnown, TypeOK
  <2>2. \A j \in Jobs : Working(j) /\ userAlias[buyer[j]] = None => userAlias'[buyer[j]] = None
    BY <1>1, <2>1
  <2> QED BY <1>2, <2>2, NotesMoved DEF DeleteAccount
<1>4. /\ UNCHANGED <<bought, buyer, paid>>
      /\ \A j \in Jobs : blockedCredit'[j] # None <=>
           blockedCredit[j] # None /\ Moved(blockedCredit[j].user, u, None) # None
  BY RepointedNotes DEF DeleteAccount, BillingInv, RepointPurchases
<1>5. ASSUME NEW v \in Users, HasAccount(v), v # u
      PROVE  /\ wallet'[v].credits = wallet[v].credits
             /\ Absorbed(v)' = Absorbed(v) /\ PacksOf(v)' = PacksOf(v) /\ MapsOf(v)' = MapsOf(v)
  <2>1. Absorbed(v)' = Absorbed(v)
    BY <1>1, <1>5 DEF Absorbed
  <2>2. PacksOf(v)' = PacksOf(v)
    BY <1>4, <2>1 DEF PacksOf
  <2>3. ASSUME NEW j \in Jobs, buyer[j] \in Absorbed(v)
        PROVE  blockedCredit'[j] # None <=> blockedCredit[j] # None
    <3>1. buyer[j] \in Users
      BY <2>3 DEF Absorbed
    <3>2. Home(buyer[j]) = v
      BY <1>5, <2>3, <3>1, AbsorbedAtHome DEF BillingInv
    <3>3. blockedCredit[j] # None => blockedCredit[j].user = v
      BY <3>2 DEF NotesFit
    <3> QED BY <1>4, <1>5, <3>3 DEF Moved
  <2>4. MapsOf(v)' = MapsOf(v)
    BY <1>4, <2>1, <2>3 DEF MapsOf
  <2> QED BY <1>1, <1>5, <2>1, <2>2, <2>4
<1>6. CreditsBalance'
  BY <1>1, <1>5, BalanceKept
<1> QED BY <1>3, <1>6

\* Steps that leave credits, payments and downloads as they are.
LEMMA BalanceUntouched ==
  ASSUME BillingInv, NotesFit, BoughtIsGranted, CreditsBalance,
         UNCHANGED <<wallet, userAlias, grants, bought, job, buyer, paid, blockedCredit>>
  PROVE  CreditsBalance' /\ NotesFit' /\ BoughtIsGranted'
<1>1. CreditsBalance'
  BY DEF CreditsBalance, Absorbed, PacksOf, MapsOf, HasAccount
<1>2. NotesFit'
  BY DEF NotesFit, Home, HasAccount, Working
<1>3. BoughtIsGranted'
  BY DEF BoughtIsGranted
<1> QED BY <1>1, <1>2, <1>3

LEMMA BalanceReport ==
  ASSUME BillingInv, TokensGrantOnce, NotesFit, BoughtIsGranted, CreditsBalance,
         Reordering = FALSE, NEW t \in Tokens, Report(t), UNCHANGED downloadVars
  PROVE  CreditsBalance' /\ NotesFit' /\ BoughtIsGranted'
<1>1. PICK n \in 1..Len(story[t]) :
        /\ n = reported[t] + 1
        /\ GrantingReport(t, story[t][n]) \/ QuietReport(t, story[t][n])
  BY ReportOutcome
<1>2. userAlias' = userAlias /\ UNCHANGED <<job, buyer, refund, paid, blockedCredit>>
  BY DEF Report, downloadVars
<1>3. ReportChanges(t)
  BY ReportActs DEF BillingInv
<1>4. CASE GrantingReport(t, story[t][n])
  <2>1. t \in Payments /\ grants[t] \in Nat
    BY DEF Payments, BillingInv, TypeOK
  <2>2. grants[t] # 1
    BY <1>4 DEF GrantingReport, TokensGrantOnce
  <2>3. grants[t] = 0
    BY <2>1, <2>2 DEF TokensGrantOnce
  <2>4. PICK u \in Users, item \in Item : HasAccount(u) /\ Grant(t, u, item)
    BY <1>4 DEF GrantingReport
  <2>5. CreditsBalance' /\ BoughtIsGranted'
    BY <1>2, <2>1, <2>3, <2>4, BalanceGrant
  <2>6. NotesFit'
    <3>1. \A i \in Jobs : Working(i)' => Working(i)
      BY <1>2 DEF Working
    <3>2. \A i \in Jobs :
           /\ job'[i] \in {"idle", "done"} => blockedCredit'[i] = None
           /\ i \in paid' => job'[i] = "done"
      BY <1>2 DEF NotesFit
    <3> QED BY <1>2, <1>3, <3>1, <3>2, NotesKept DEF ReportChanges
  <2> QED BY <2>5, <2>6
<1>5. CASE QuietReport(t, story[t][n])
  BY <1>2, <1>5, BalanceUntouched DEF QuietReport
<1> QED BY <1>1, <1>4, <1>5

LEMMA BalanceRecord ==
  ASSUME BillingInv, NotesFit, BoughtIsGranted, CreditsBalance,
         NEW h \in Handlers, RecordOrder(h), UNCHANGED downloadVars
  PROVE  CreditsBalance' /\ NotesFit' /\ BoughtIsGranted'
<1>1. PICK o \in Orders : o = handler[h].order
  BY RecordGrants
<1>2. PICK u \in Users : u = handler[h].user
  BY RecordGrants
<1>3. /\ IF Inserted(o, u)
           THEN recorded' = [recorded EXCEPT ![o] = u] /\ Grant(o, u, order[o].item)
           ELSE UNCHANGED <<recorded, grants, bought, wallet>>
      /\ UNCHANGED <<order, userAlias>>
  BY <1>1, <1>2 DEF RecordOrder
<1>4. /\ order[o].item \in Item /\ o \in Payments
      /\ Inserted(o, u) => grants[o] = 0
  BY <1>1, <1>2, RecordGrants DEF Payments
<1>5. UNCHANGED <<job, buyer, refund, paid, blockedCredit>>
  BY DEF downloadVars
<1>6. CASE Inserted(o, u)
  <2>1. HasAccount(u)
    BY <1>6 DEF Inserted
  <2>2. CreditsBalance' /\ BoughtIsGranted'
    BY <1>3, <1>4, <1>6, <2>1, BalanceGrant
  <2>3. WalletsKept
    BY <1>3, <1>4, <1>6, GrantKeeps DEF BillingInv
  <2>4. NotesFit'
    <3>1. \A i \in Jobs : Working(i)' => Working(i)
      BY <1>5 DEF Working
    <3>2. \A i \in Jobs :
           /\ job'[i] \in {"idle", "done"} => blockedCredit'[i] = None
           /\ i \in paid' => job'[i] = "done"
      BY <1>5 DEF NotesFit
    <3> QED BY <1>5, <2>3, <3>1, <3>2, NotesKept
  <2> QED BY <2>2, <2>4
<1>7. CASE ~Inserted(o, u)
  BY <1>3, <1>5, <1>7, BalanceUntouched
<1> QED BY <1>6, <1>7

\* A job that moves on, or all of them at a restart, its notes as they are.
LEMMA BalanceJobs ==
  ASSUME BillingInv, NotesFit, BoughtIsGranted, CreditsBalance,
         UNCHANGED <<wallet, userAlias, grants, bought, buyer, paid, blockedCredit>>,
         \A i \in Jobs : \/ job'[i] = job[i]
                         \/ Working(i) /\ job'[i] \in {"mailing", "settling", "dead"}
  PROVE  CreditsBalance' /\ NotesFit' /\ BoughtIsGranted'
<1>1. CreditsBalance'
  BY DEF CreditsBalance, Absorbed, PacksOf, MapsOf, HasAccount
<1>2. NotesFit'
  <2>1. \A i \in Jobs : /\ (Working(i)' => Working(i))
                        /\ (job'[i] \in {"idle", "done"} => job'[i] = job[i])
                        /\ (job[i] = "done" => job'[i] = "done")
    BY DEF Working
  <2>2. WalletsKept
    BY DEF WalletsKept, HasAccount, BillingInv, TypeOK
  <2>3. \A i \in Jobs :
           /\ job'[i] \in {"idle", "done"} => blockedCredit'[i] = None
           /\ job'[i] = "idle" => job[i] = "idle"
           /\ i \in paid' => job'[i] = "done"
    BY <2>1 DEF NotesFit
  <2> QED BY <2>1, <2>2, <2>3, NotesKept
<1>3. BoughtIsGranted'
  BY DEF BoughtIsGranted
<1> QED BY <1>1, <1>2, <1>3

LEMMA BalanceDay ==
  ASSUME BillingInv, NotesFit, BoughtIsGranted, CreditsBalance, LongDownloads = FALSE,
         NEW j \in Jobs, DayStep(j)
  PROVE  CreditsBalance' /\ NotesFit' /\ BoughtIsGranted'
<1>1. /\ UNCHANGED <<job, buyer, refund, paid, wallet, userAlias>>
      /\ UNCHANGED <<grants, bought>>
      /\ job[j] \in {"done", "dead"}
  BY DEF DayStep, DayPasses, purchaseVars, walletVars
<1>2. \A i \in Jobs : /\ (i # j => blockedCredit'[i] = blockedCredit[i])
                      /\ (blockedCredit[i] = None <=> blockedCredit'[i] = None)
                      /\ (blockedCredit[i] # None => blockedCredit'[i].user = blockedCredit[i].user)
  BY DayKeepsNotes DEF DayStep, BillingInv
<1>3. CreditsBalance'
  BY <1>1, <1>2 DEF CreditsBalance, Absorbed, PacksOf, MapsOf, HasAccount
<1>4. NotesFit'
  <2>1. \A i \in Jobs : Working(i)' => Working(i) /\ i # j
    BY <1>1 DEF Working
  <2>2. WalletsKept
    BY <1>1 DEF WalletsKept, HasAccount, BillingInv, TypeOK
  <2>3. \A i \in Jobs :
           /\ job'[i] \in {"idle", "done"} => blockedCredit'[i] = None
           /\ job'[i] = "idle" => job[i] = "idle"
           /\ i \in paid' => job'[i] = "done"
           /\ blockedCredit'[i] # None =>
                blockedCredit[i] # None /\ blockedCredit'[i].user = blockedCredit[i].user
    BY <1>1, <1>2 DEF NotesFit
  <2> QED BY <1>1, <1>2, <2>1, <2>2, <2>3, NotesKept
<1>5. BoughtIsGranted'
  BY <1>1 DEF BoughtIsGranted
<1> QED BY <1>3, <1>4, <1>5

LedgerInv == NotesFit /\ BoughtIsGranted /\ CreditsBalance

LEMMA LedgerStep ==
  ASSUME BillingInv, TokensGrantOnce, LedgerInv, [Next]_vars,
         Reordering = FALSE, LongDownloads = FALSE, "download" \notin MergesDuring
  PROVE  LedgerInv'
<1>1. NotesFit /\ BoughtIsGranted /\ CreditsBalance
  BY DEF LedgerInv
<1>2. ASSUME UNCHANGED walletVars, UNCHANGED downloadVars, UNCHANGED <<grants, bought>>
      PROVE  LedgerInv'
  BY <1>1, <1>2, BalanceUntouched DEF LedgerInv, walletVars, downloadVars
<1>3. ASSUME UNCHANGED <<grants, bought>> PROVE BoughtIsGranted'
  BY <1>1, <1>3 DEF BoughtIsGranted
<1>4. CASE UNCHANGED vars
  BY <1>2, <1>4 DEF vars, purchaseVars
<1>5. CASE Next
  <2>1. ASSUME NEW t \in Tokens, Checkout(t) \/ Expire(t), UNCHANGED downloadVars PROVE LedgerInv'
    BY <1>2, <2>1 DEF Checkout, Expire
  <2>2. ASSUME NEW t \in Tokens, Report(t), UNCHANGED downloadVars PROVE LedgerInv'
    BY <1>1, <2>2, BalanceReport DEF LedgerInv
  <2>3. ASSUME NEW o \in Orders, PlaceOrder(o) \/ PayOrder(o) \/ \E h \in Handlers : OrderPaid(h, o),
               UNCHANGED downloadVars
        PROVE  LedgerInv'
    BY <1>2, <2>3 DEF PlaceOrder, PayOrder, OrderPaid
  <2>4. ASSUME NEW h \in Handlers, RecordOrder(h), UNCHANGED downloadVars PROVE LedgerInv'
    BY <1>1, <2>4, BalanceRecord DEF LedgerInv
  <2>5. ASSUME NEW j \in Jobs, StartStep(j) PROVE LedgerInv'
    BY <1>1, <1>3, <2>5, BalanceStart DEF LedgerInv, StartStep, purchaseVars
  <2>6. ASSUME NEW j \in Jobs, UNCHANGED purchaseVars,
               FinishDownload(j) \/ FailDownload(j) \/ MailFailure(j) \/ JobDies(j)
        PROVE  LedgerInv'
    <3>1. /\ UNCHANGED <<wallet, userAlias, grants, bought, buyer, paid, blockedCredit>>
          /\ Working(j)
          /\ \E s \in {"mailing", "settling", "dead"} : job' = [job EXCEPT ![j] = s]
      BY <2>6 DEF FinishDownload, FailDownload, MailFailure, JobDies, Become, Working,
         purchaseVars, walletVars
    <3>2. \A i \in Jobs : \/ job'[i] = job[i]
                          \/ Working(i) /\ job'[i] \in {"mailing", "settling", "dead"}
      BY <3>1 DEF BillingInv, TypeOK
    <3> QED BY <1>1, <3>1, <3>2, BalanceJobs DEF LedgerInv
  <2>7. ASSUME NEW j \in Jobs, Settle(j), UNCHANGED purchaseVars PROVE LedgerInv'
    BY <1>1, <1>3, <2>7, BalanceSettle DEF LedgerInv, purchaseVars
  <2>8. ASSUME NEW j \in Jobs, DayStep(j) PROVE LedgerInv'
    BY <1>1, <2>8, BalanceDay DEF LedgerInv
  <2>9. ASSUME CleanUpStep PROVE LedgerInv'
    BY <1>1, <1>3, <2>9, BalanceCleanUp DEF LedgerInv, CleanUpStep, purchaseVars
  <2>10. ASSUME NEW target \in Users, NEW source \in Users, Merge(target, source)
         PROVE  LedgerInv'
    BY <1>1, <1>3, <2>10, BalanceMerge DEF LedgerInv, Merge, RepointPurchases
  <2>11. ASSUME NEW u \in Users, DeleteAccount(u) PROVE LedgerInv'
    BY <1>1, <1>3, <2>11, BalanceDelete DEF LedgerInv, DeleteAccount, RepointPurchases
  <2>12. ASSUME Restart PROVE LedgerInv'
    <3>1. /\ UNCHANGED <<wallet, userAlias, grants, bought, buyer, paid, blockedCredit>>
          /\ \A i \in Jobs : \/ job'[i] = job[i]
                             \/ Working(i) /\ job'[i] \in {"mailing", "settling", "dead"}
      BY <2>12 DEF Restart, DropHandlers, walletVars
    <3> QED BY <1>1, <3>1, BalanceJobs DEF LedgerInv
  <2> QED BY <1>5, <2>1, <2>2, <2>3, <2>4, <2>5, <2>6, <2>7, <2>8, <2>9, <2>10, <2>11, <2>12,
       StepsOfNext
<1> QED BY <1>4, <1>5

LEMMA LedgerInit == Init => LedgerInv
<1> SUFFICES ASSUME Init PROVE LedgerInv
  OBVIOUS
<1>1. /\ bought = [p \in Payments |-> None] /\ paid = {}
      /\ job = [j \in Jobs |-> "idle"] /\ buyer = [j \in Jobs |-> None]
      /\ blockedCredit = [j \in Jobs |-> None]
      /\ userAlias = [u \in Users |-> None]
  BY DEF Init, InitPurchases, InitDownloads
<1>2. NotesFit /\ BoughtIsGranted
  BY <1>1 DEF NotesFit, BoughtIsGranted, Working
<1>3. ASSUME NEW u \in Users
      PROVE  wallet[u].credits = Balance(u)
  <2>1. wallet[u].credits = InitialCredits
    BY DEF Init
  <2>2. Absorbed(u) = {u} /\ PacksOf(u) = {} /\ MapsOf(u) = {}
    BY <1>1, UsersAssumption DEF Absorbed, PacksOf, MapsOf
  <2>3. /\ Cardinality(Absorbed(u)) = 1 /\ Cardinality(PacksOf(u)) = 0
        /\ Cardinality(MapsOf(u)) = 0
    BY <2>2, FS_Singleton, FS_EmptySet
  <2>4. InitialCredits \in Nat /\ Amount \in Nat /\ Price \in Nat
    BY BalanceOf
  <2> QED BY <2>1, <2>3, <2>4 DEF Balance
<1> QED BY <1>2, <1>3 DEF LedgerInv, CreditsBalance, Balance

\* No account's credits are made or lost, if Rovas reports in order, no download
\* goes on for over a day and no merge overtakes one: an account has what it and
\* those merged into it began with and bought, once, less the maps it was charged
\* for and did not get back, however jobs fail, mails are lost, cleanup() runs,
\* reports repeat and the process restarts.
THEOREM CreditsAddUp ==
  ASSUME Reordering = FALSE, LongDownloads = FALSE, "download" \notin MergesDuring
  PROVE  Spec => []CreditsBalance
<1> DEFINE I == BillingInv /\ TokensGrantOnce /\ LedgerInv
<1>1. Init => I
  <2> SUFFICES ASSUME Init PROVE I
    OBVIOUS
  <2>1. grants = [p \in Payments |-> 0]
    BY DEF Init, InitPurchases
  <2>2. TokensGrantOnce
    BY <2>1 DEF TokensGrantOnce, Payments
  <2> QED BY <2>2, InvInit, LedgerInit
<1>2. I /\ [Next]_vars => I'
  BY InvStep, TokensStep, LedgerStep
<1>3. I => CreditsBalance
  BY DEF LedgerInv
<1> HIDE DEF I
<1> QED BY <1>1, <1>2, <1>3, PTL DEF Spec

-------------------------------------------------------------------------------
(* The file of a download *)

PackageTypeOK ==
  /\ stage \in {"downloading", "mailing", "mailed", "failed"}
  /\ tile \in [Tiles -> [at: {"new", "asked", "paused", "done", "failed"}, retries: Nat]]
  /\ asked \in 0..Total /\ active \in Seq(Tiles)
  /\ rows \subseteq Tiles /\ absent \subseteq Tiles
  /\ file \in {"none", "open", "closed"}

\* Every tile that was asked is done or has its promise in the race, of which there
\* are never more than CONCURRENCY; while there are tiles left the race goes on;
\* what is done is stored or absent.
Raced(t) == \E i \in DOMAIN active : active[i] = t
PackageInv ==
  /\ PackageTypeOK
  /\ Len(active) <= CONCURRENCY
  /\ asked < Total => active # <<>>
  /\ \A t \in Tiles : /\ tile[t].at = "new" <=> t > asked
                      /\ tile[t].at \in {"asked", "paused", "failed"} => Raced(t)
                      /\ tile[t].at = "done" => t \in rows \cup absent
                      /\ t \in rows \cup absent => tile[t].at = "done"
  /\ rows \cap absent = {}
  /\ stage = "downloading" => file = "open"
  /\ stage \in {"mailing", "mailed"} => file = "closed" /\ active = <<>>

\* The race without its i-th promise has all the others.
LEMMA RemovalKeepsOthers ==
  ASSUME NEW s \in Seq(Tiles), NEW i \in 1..Len(s)
  PROVE  /\ RemoveAt(s, i) \in Seq(Tiles) /\ Len(RemoveAt(s, i)) = Len(s) - 1
         /\ \A k \in 1..Len(s) : k # i => \E j \in 1..(Len(s) - 1) : RemoveAt(s, i)[j] = s[k]
<1> DEFINE before == SubSeq(s, 1, i - 1)
           after == SubSeq(s, i + 1, Len(s))
<1>1. /\ before \in Seq(Tiles) /\ Len(before) = i - 1
      /\ \A k \in 1..(i - 1) : before[k] = s[k]
  OBVIOUS
<1>2. /\ after \in Seq(Tiles) /\ Len(after) = Len(s) - i
      /\ \A k \in 1..(Len(s) - i) : after[k] = s[i + k]
  OBVIOUS
<1>3. RemoveAt(s, i) = before \o after
  BY DEF RemoveAt
<1> HIDE DEF before, after
<1>4. RemoveAt(s, i) \in Seq(Tiles) /\ Len(RemoveAt(s, i)) = Len(s) - 1
  BY <1>1, <1>2, <1>3
<1>5. ASSUME NEW k \in 1..Len(s), k # i
      PROVE  \E j \in 1..(Len(s) - 1) : RemoveAt(s, i)[j] = s[k]
  <2>1. CASE k < i
    <3>1. k \in 1..(Len(s) - 1) /\ (before \o after)[k] = before[k] /\ before[k] = s[k]
      BY <1>1, <1>2, <2>1
    <3> QED BY <1>3, <3>1
  <2>2. CASE k > i
    <3>1. /\ k - 1 \in 1..(Len(s) - 1)
          /\ (before \o after)[k - 1] = after[k - 1 - Len(before)]
      BY <1>1, <1>2, <2>2
    <3>2. after[k - i] = s[k]
      BY <1>2, <2>2
    <3>3. k - 1 - Len(before) = k - i
      BY <1>1
    <3> QED BY <1>3, <3>1, <3>2, <3>3
  <2> QED BY <1>5, <2>1, <2>2
<1> QED BY <1>4, <1>5

LEMMA PackageInvInit == PackageInit => PackageInv
<1> SUFFICES ASSUME PackageInit PROVE PackageInv
  OBVIOUS
<1>1. /\ asked \in 0..Total /\ asked <= CONCURRENCY /\ (asked < Total => asked = CONCURRENCY)
  BY PackageAssumption DEF PackageInit, Lesser
<1>2. /\ active \in Seq(Tiles) /\ Len(active) = asked
      /\ \A t \in Tiles : t <= asked => Raced(t)
  BY <1>1, PackageAssumption DEF PackageInit, Tiles, Raced
<1>3. \A t \in Tiles : tile[t].at = IF t <= asked THEN "asked" ELSE "new"
  BY DEF PackageInit
<1>4. PackageTypeOK
  BY <1>1, <1>2 DEF PackageInit, PackageTypeOK
<1>5. asked < Total => active # <<>>
  BY <1>1, <1>2, PackageAssumption
<1> QED BY <1>1, <1>2, <1>3, <1>4, <1>5, PackageAssumption DEF PackageInv, PackageInit, Tiles

\* A promise that goes on, wherever it is.
LEMMA PromisesKeepPackage ==
  ASSUME PackageInv, NEW t \in Tiles,
         Arrives(t) \/ IsAbsent(t) \/ IsLost(t) \/ Retry(t) \/ IsRefused(t)
  PROVE  PackageInv'
<1>1. UNCHANGED <<stage, asked, active, file>> /\ tile[t].at \in {"asked", "paused"}
  BY DEF Arrives, IsAbsent, IsLost, Retry, IsRefused
<1>2. \A x \in Tiles : tile'[x] = IF x = t THEN tile'[t] ELSE tile[x]
  BY DEF Arrives, IsAbsent, IsLost, Retry, IsRefused, Settles, PackageInv, PackageTypeOK
<1>3. /\ tile'[t] \in [at: {"asked", "paused", "done", "failed"}, retries: Nat]
      /\ tile' \in [Tiles -> [at: {"new", "asked", "paused", "done", "failed"}, retries: Nat]]
  <2>1. tile \in [Tiles -> [at: {"new", "asked", "paused", "done", "failed"}, retries: Nat]]
    BY DEF PackageInv, PackageTypeOK
  <2>2. CASE Arrives(t) \/ IsAbsent(t)
    BY <2>1, <2>2 DEF Arrives, IsAbsent, Settles
  <2>3. CASE IsLost(t)
    BY <2>1, <2>3 DEF IsLost
  <2>4. CASE Retry(t) \/ IsRefused(t)
    BY <2>1, <2>4 DEF Retry, IsRefused, Settles
  <2> QED BY <2>2, <2>3, <2>4
<1>4. t \notin rows \cup absent /\ Raced(t)
  BY <1>1 DEF PackageInv
<1>5. \/ tile'[t].at = "done" /\ rows' = rows \cup {t} /\ absent' = absent
      \/ tile'[t].at = "done" /\ rows' = rows /\ absent' = absent \cup {t}
      \/ tile'[t].at # "done" /\ UNCHANGED <<rows, absent>>
  <2>1. tile \in [Tiles -> [at: {"new", "asked", "paused", "done", "failed"}, retries: Nat]]
    BY DEF PackageInv, PackageTypeOK
  <2>2. CASE Arrives(t)
    BY <2>1, <2>2 DEF Arrives, Settles
  <2>3. CASE IsAbsent(t)
    BY <2>1, <2>3 DEF IsAbsent, Settles
  <2>4. CASE IsLost(t)
    BY <2>1, <2>4 DEF IsLost
  <2>5. CASE Retry(t) \/ IsRefused(t)
    BY <2>1, <2>5 DEF Retry, IsRefused, Settles
  <2> QED BY <2>2, <2>3, <2>4, <2>5
<1>6. \A x \in Tiles : Raced(x)' <=> Raced(x)
  BY <1>1 DEF Raced
<1>7. PackageTypeOK'
  BY <1>1, <1>3, <1>5 DEF PackageInv, PackageTypeOK
<1>8. rows' \cap absent' = {}
  BY <1>4, <1>5 DEF PackageInv
<1>9. t <= asked
  BY <1>1 DEF PackageInv, PackageTypeOK, Tiles
<1>10. ASSUME NEW x \in Tiles
       PROVE  /\ tile'[x].at = "new" <=> x > asked
              /\ tile'[x].at \in {"asked", "paused", "failed"} => Raced(x)
              /\ tile'[x].at = "done" => x \in rows' \cup absent'
              /\ x \in rows' \cup absent' => tile'[x].at = "done"
  <2>1. CASE x = t
    <3>1. tile'[t].at # "new" /\ ~(t > asked)
      BY <1>3, <1>9 DEF PackageInv, PackageTypeOK, Tiles
    <3> QED BY <1>4, <1>5, <2>1, <3>1
  <2>2. CASE x # t
    BY <1>2, <1>5, <2>2 DEF PackageInv
  <2> QED BY <2>1, <2>2
<1> QED BY <1>1, <1>6, <1>7, <1>8, <1>10 DEF PackageInv

\* The next tile takes the place of the one that was done.
LEMMA FinishedKeepsPackage ==
  ASSUME PackageInv, NEW i \in 1..CONCURRENCY, Finished(i)
  PROVE  PackageInv'
<1> DEFINE left == RemoveAt(active, i)
<1>1. /\ stage = "downloading" /\ UNCHANGED <<stage, rows, absent, file>>
      /\ i \in 1..Len(active) /\ tile[active[i]].at = "done" /\ active \in Seq(Tiles)
  BY DEF Finished, PackageInv, PackageTypeOK
<1>2. /\ left \in Seq(Tiles) /\ Len(left) = Len(active) - 1
      /\ \A k \in 1..Len(active) : k # i => \E j \in 1..(Len(active) - 1) : left[j] = active[k]
  BY <1>1, RemovalKeepsOthers
<1> HIDE DEF left
<1>3. \A t \in Tiles : tile[t].at # "done" /\ Raced(t) => \E j \in 1..Len(left) : left[j] = t
  BY <1>1, <1>2 DEF Raced
<1>4. CASE asked < Total
  <2>1. /\ active' = Append(left, asked + 1) /\ asked' = asked + 1
        /\ tile' = [tile EXCEPT ![asked + 1].at = "asked"]
    BY <1>4 DEF Finished, Spliced, Settles, left
  <2>2. asked + 1 \in Tiles /\ asked \in Nat /\ asked + 1 \in 0..Total
    BY <1>4, PackageAssumption DEF PackageInv, PackageTypeOK, Tiles
  <2>3. /\ active' \in Seq(Tiles) /\ Len(active') = Len(active) /\ active' # <<>>
        /\ \A j \in 1..Len(left) : active'[j] = left[j]
        /\ active'[Len(active)] = asked + 1 /\ DOMAIN active' = 1..Len(active)
    BY <1>1, <1>2, <2>1, <2>2
  <2>4. \A t \in Tiles : tile'[t].at = IF t = asked + 1 THEN "asked" ELSE tile[t].at
    BY <2>1, <2>2 DEF PackageInv, PackageTypeOK
  <2>5. PackageTypeOK'
    <3>1. tile' \in [Tiles -> [at: {"new", "asked", "paused", "done", "failed"}, retries: Nat]]
      BY <2>1 DEF PackageInv, PackageTypeOK
    <3> QED BY <1>1, <2>1, <2>2, <2>3, <3>1 DEF PackageInv, PackageTypeOK
  <2>6. \A t \in Tiles : tile[t].at # "done" /\ Raced(t) => Raced(t)'
    <3>1. \A j \in 1..Len(left) : j \in DOMAIN active' /\ active'[j] = left[j]
      BY <1>1, <1>2, <2>3
    <3> QED BY <1>3, <3>1 DEF Raced
  <2>7. \A t \in Tiles : t = asked + 1 => Raced(t)'
    <3>1. Len(active) \in DOMAIN active'
      BY <1>1, <2>3
    <3> QED BY <2>3, <3>1 DEF Raced
  <2>8. tile[asked + 1].at = "new"
    BY <2>2 DEF PackageInv
  <2>9. ASSUME NEW t \in Tiles
        PROVE  /\ tile'[t].at = "new" <=> t > asked + 1
               /\ tile'[t].at \in {"asked", "paused", "failed"} => Raced(t)'
               /\ tile'[t].at = "done" => t \in rows \cup absent
               /\ t \in rows \cup absent => tile'[t].at = "done"
    <3>1. CASE t = asked + 1
      <4>1. tile'[t].at = "asked" /\ t \notin rows \cup absent
        BY <2>4, <2>8, <3>1 DEF PackageInv
      <4>2. ~(t > asked + 1)
        BY <2>2, <3>1
      <4> QED BY <2>7, <3>1, <4>1, <4>2
    <3>2. CASE t # asked + 1
      <4>1. t > asked + 1 <=> t > asked
        BY <2>2, <3>2 DEF Tiles
      <4> QED BY <2>4, <2>6, <3>2, <4>1 DEF PackageInv
    <3> QED BY <3>1, <3>2
  <2> QED BY <1>1, <2>1, <2>3, <2>5, <2>9 DEF PackageInv
<1>5. CASE ~(asked < Total)
  <2>1. active' = left /\ UNCHANGED <<asked, tile>>
    BY <1>5 DEF Finished, Spliced, left
  <2>2. PackageTypeOK'
    BY <1>1, <1>2, <2>1 DEF PackageInv, PackageTypeOK
  <2>3. \A t \in Tiles : tile[t].at # "done" /\ Raced(t) => Raced(t)'
    BY <1>2, <1>3, <2>1 DEF Raced
  <2>4. Len(active') <= CONCURRENCY
    BY <1>2, <2>1, PackageAssumption DEF PackageInv
  <2> QED BY <1>1, <1>5, <2>1, <2>2, <2>3, <2>4 DEF PackageInv
<1> QED BY <1>4, <1>5

LEMMA PackageInvNext == PackageInv /\ [PackageNext]_packageVars => PackageInv'
<1> SUFFICES ASSUME PackageInv, [PackageNext]_packageVars PROVE PackageInv'
  OBVIOUS
<1>1. CASE Close \/ Mail \/ UNCHANGED packageVars
           \/ \E i \in 1..CONCURRENCY : Rejected(i)
  <2>1. UNCHANGED <<tile, asked, active, rows, absent>>
    BY <1>1 DEF Close, Mail, packageVars, Rejected
  <2>2. PackageTypeOK'
    BY <1>1, <2>1 DEF Close, Mail, packageVars, Rejected, PackageInv, PackageTypeOK
  <2>3. /\ stage' = "downloading" => file' = "open"
        /\ stage' \in {"mailing", "mailed"} => file' = "closed" /\ active' = <<>>
    BY <1>1, <2>1 DEF Close, Mail, packageVars, Rejected, PackageInv, PackageTypeOK
  <2>4. \A t \in Tiles : Raced(t)' <=> Raced(t)
    BY <2>1 DEF Raced
  <2> QED BY <2>1, <2>2, <2>3, <2>4 DEF PackageInv
<1> QED BY <1>1, PromisesKeepPackage, FinishedKeepsPackage DEF PackageNext

\* The tiles that are waited for are in the race.
LEMMA PendingFits == PackageInv => Cardinality(Pending) <= CONCURRENCY
<1> SUFFICES ASSUME PackageInv PROVE Cardinality(Pending) <= CONCURRENCY
  OBVIOUS
<1> DEFINE raced == {active[i] : i \in 1..Len(active)}
<1>1. active \in Seq(Tiles) /\ Len(active) \in Nat /\ Len(active) <= CONCURRENCY
  BY DEF PackageInv, PackageTypeOK
<1>2. Pending \subseteq raced
  BY <1>1 DEF Pending, PackageInv, Raced
<1>3. IsFiniteSet(1..Len(active)) /\ Cardinality(1..Len(active)) = Len(active)
  BY <1>1, FS_Interval
<1>4. [i \in 1..Len(active) |-> active[i]] \in Surjection(1..Len(active), raced)
  BY DEF Surjection
<1>5. IsFiniteSet(raced) /\ Cardinality(raced) <= Len(active)
  BY <1>3, <1>4, FS_Surjection
<1>6. Cardinality(Pending) <= Cardinality(raced) /\ Cardinality(Pending) \in Nat
      /\ Cardinality(raced) \in Nat
  BY <1>2, <1>5, FS_Subset, FS_CardinalityType
<1> QED BY <1>1, <1>5, <1>6, PackageAssumption

\* A package whose link is mailed has every tile the server has, in whatever order
\* they came, were lost and asked again; and never are more than CONCURRENCY waited for.
THEOREM PackagesAreWhole == PackageSpec => []PackageIsWhole
<1>1. PackageInv => PackageIsWhole
  <2> SUFFICES ASSUME PackageInv PROVE PackageIsWhole
    OBVIOUS
  <2>1. ASSUME stage \in {"mailing", "mailed"}
        PROVE  file = "closed" /\ rows = Tiles \ absent
    <3>1. file = "closed" /\ active = <<>> /\ asked = Total
      BY <2>1, PackageAssumption DEF PackageInv, PackageTypeOK
    <3>2. \A t \in Tiles : tile[t].at = "done"
      <4>1. \A t \in Tiles : ~Raced(t) /\ ~(t > asked)
        BY <3>1, PackageAssumption DEF Raced, Tiles
      <4> QED BY <4>1 DEF PackageInv, PackageTypeOK
    <3> QED BY <3>1, <3>2 DEF PackageInv, PackageTypeOK
  <2> QED BY <2>1, PendingFits DEF PackageIsWhole
<1> QED BY <1>1, PackageInvInit, PackageInvNext, PTL DEF PackageSpec
===============================================================================
