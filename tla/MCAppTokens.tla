------------------------------ MODULE MCAppTokens ------------------------------
(***************************************************************************)
(* App tokens for TLC, in two parts that a behaviour is chosen from when it *)
(* starts: requests about one token's scopes, expiration and its owner's   *)
(* roles, and map apps that fetch the token of their user beside one such  *)
(* request at a time. The parts bound what an instance of both would reach. *)
(***************************************************************************)
EXTENDS AppTokens

VARIABLE part

\* One token that its users make, and no map apps.
RolesMove ==
  /\ part = "roles" /\ made' <= 1 /\ visit' = visit /\ link' = link
  /\ \A k \in TokenIds : token'[k] # NULL => ~token'[k].named

\* Tokens that map apps of one account make, each edited in one respect, and
\* requests of its sessions, one at a time.
AsMadeButOne(t) ==
  /\ t.granted = NULL /\ t.expires \in {NULL, 1}
  /\ \/ t.named /\ t.scopes = TokenScopes
     \/ t.named /\ t.expires = NULL
     \/ t.expires = NULL /\ t.scopes = TokenScopes
AppsMove ==
  /\ part = "apps" /\ now' <= 1 /\ manager' \subseteq manager /\ taken' = taken
  /\ made' = made \/ visit' # visit
  /\ \A v \in Visits : visit'[v].user \in Managers \cup {NULL}
  /\ Cardinality({r \in Requests : request'[r] # NULL}) <= 1
  /\ \A r \in Requests : request'[r] # NULL =>
       request'[r].user \in Managers /\ request'[r].by = "session"
  /\ \A k \in TokenIds : token'[k] # NULL => AsMadeButOne(token'[k])

AppTokensMove == TokensNext /\ (RolesMove \/ AppsMove) /\ part' = part
===============================================================================
