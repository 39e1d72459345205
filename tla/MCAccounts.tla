------------------------------ MODULE MCAccounts ------------------------------
(***************************************************************************)
(* Accounts and app tokens for TLC. A behaviour is of one part, chosen     *)
(* when it starts: two persons with three logins and a request in flight,  *)
(* one person who publishes what the profile shows beside an account made  *)
(* for an organizer, or a part of MCAppTokens. The parts bound what an     *)
(* instance of all would reach.                                            *)
(***************************************************************************)
EXTENDS Accounts, MCAppTokens

CONSTANTS
  ann, bob, annMail, bobMail, annHub, annHub2

MCOwner == [x \in Mailboxes \cup Remotes |-> IF x = bobMail THEN bob ELSE ann]
MCProviderOf == [x \in Remotes |-> "github"]

PersonsMove ==
  /\ part = "persons" /\ Cardinality(session') <= 2
  /\ organizers' = {} /\ consent' = consent

\* Ann proves her address, and accounts may have Bob's unproven.
ConsentMove ==
  /\ part = "consent" /\ created' <= 2 /\ Cardinality(session') <= 1
  /\ \A s \in session' : s.who = ann
  /\ \A i \in Live' : Linked(account'[i]) \subseteq {annHub}

MCInit == part \in {"persons", "consent", "roles", "apps"} /\ Init /\ TokensInit
MCNext ==
  \/ /\ part \in {"persons", "consent"} /\ UNCHANGED <<tokenVars, part>>
     /\ Next /\ (PersonsMove \/ ConsentMove)
  \/ AppTokensMove /\ UNCHANGED vars
MCSpec == MCInit /\ [][MCNext]_<<vars, tokenVars, part>>
===============================================================================
