-------------------------------- MODULE Wallets --------------------------------
(***************************************************************************)
(* What the user table holds of money: credits, premium and the Polar      *)
(* customer of an account, how a purchase adds to them and how a merge of  *)
(* two accounts puts them together (userMerge.ts).                         *)
(***************************************************************************)
EXTENDS Integers, FiniteSets

CONSTANTS Users, None

ASSUME UsersAssumption == None \notin Users /\ IsFiniteSet(Users)

VARIABLES
  wallet,   \* the row of each account, None once it is merged away or deleted
  userAlias \* the account that took over a merged one

walletVars == <<wallet, userAlias>>

\* `premium` is in years from now; `subscribed` is liveSubscriptionSql.  Polar
\* knows a customer by the account that first checked out.
Wallet == [credits: Int, premium: Nat, customer: Users \cup {None}, subscribed: BOOLEAN]

ASSUME WalletAssumption == None \notin Wallet

Item == {"credits", "premium"}

HasAccount(u) == wallet[u] # None

\* UPDATE user ... WHERE id = u: no row, no effect.
Credited(w, u, amount) ==
  IF w[u] = None THEN w ELSE [w EXCEPT ![u].credits = @ + amount]

\* A purchase adds its credits, or a year to what premium is left.
Granted(w, u, item, amount) ==
  IF item = "credits" THEN Credited(w, u, amount)
  ELSE IF w[u] = None THEN w ELSE [w EXCEPT ![u].premium = @ + 1]

Later(a, b) == IF a < b THEN b ELSE a

\* The customer has to travel with a live subscription.
MergedWallet(target, source) ==
  LET moves == source.subscribed /\ ~target.subscribed
  IN [credits |-> target.credits + source.credits,
      premium |-> Later(target.premium, source.premium),
      customer |-> IF moves \/ target.customer = None THEN source.customer
                                                      ELSE target.customer,
      subscribed |-> target.subscribed \/ source.subscribed]

MergeWallets(target, source) ==
  /\ HasAccount(target) /\ HasAccount(source) /\ target # source
  /\ wallet' = [wallet EXCEPT ![target] = MergedWallet(@, wallet[source]),
                              ![source] = None]
  /\ userAlias' = [u \in Users |-> IF u = source \/ userAlias[u] = source
                                    THEN target ELSE userAlias[u]]

DeleteWallet(u) ==
  /\ HasAccount(u)
  /\ wallet' = [wallet EXCEPT ![u] = None]
  /\ userAlias' = [x \in Users |-> IF userAlias[x] = u THEN None ELSE userAlias[x]]

\* Neither an account nor merged into one.
Deleted(u) == ~HasAccount(u) /\ userAlias[u] = None
===============================================================================
