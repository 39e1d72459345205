--------------------------------- MODULE Owners ---------------------------------
(***************************************************************************)
(* The accounts that own what the other modules keep, and the requests     *)
(* that act for them: each on the user row that its authentication read,   *)
(* though the account may be merged away or deleted before it is answered. *)
(***************************************************************************)
EXTENDS Integers, Sequences, FiniteSets

CONSTANTS
  Users,      \* accounts
  Moderators, \* those with the roles galleryModerator, mapModerator, eventManager
  Requests,   \* clients, each with a request at a time
  MaxTime,    \* bound on the clock, in seconds
  None

ASSUME OwnersAssumption ==
  Moderators \subseteq Users /\ None \notin Users \cup Requests /\ MaxTime \in Nat

VARIABLES
  now,
  alive,     \* the accounts that exist
  userAlias, \* where each account merged away went
  request    \* ctx.state.user of each request, and where its handler is between steps

ownersVars == <<now, alive, userAlias, request>>

\* A request that does `work` between two of its handler's steps, or nothing yet.
RequestRow(work) == [user: Users, doing: work \cup {None}]

OwnersInit ==
  /\ now = 0 /\ alive = Users
  /\ userAlias = [u \in Users |-> None] /\ request = [r \in Requests |-> None]

Tick == now < MaxTime /\ now' = now + 1 /\ UNCHANGED <<alive, userAlias, request>>

Authenticate(r, u) ==
  /\ request[r] = None /\ u \in alive
  /\ request' = [request EXCEPT ![r] = [user |-> u, doing |-> None]]
  /\ UNCHANGED <<now, alive, userAlias>>

Begins(r) == request[r] # None /\ request[r].doing = None
Doing(r, kind) == request[r] # None /\ request[r].doing # None /\ request[r].doing.kind = kind
Caller(r) == request[r].user
Work(r) == request[r].doing

GoesOn(r, work) ==
  /\ request' = [request EXCEPT ![r].doing = work]
  /\ UNCHANGED <<now, alive, userAlias>>
Answered(r) ==
  /\ request' = [request EXCEPT ![r] = None]
  /\ UNCHANGED <<now, alive, userAlias>>

\* Roles and the owner's own ID, as the request knows them.
HasRole(r) == Caller(r) \in Moderators
IsOwnerOrRole(r, owner) == Caller(r) = owner \/ HasRole(r)

\* UPDATE ... SET userId = target WHERE userId = source, of a table of rows.
Repointed(table, source, target) ==
  [x \in DOMAIN table |->
     IF table[x] # None /\ table[x].owner = source
     THEN [table[x] EXCEPT !.owner = target] ELSE table[x]]

\* UPDATE IGNORE and DELETE, of the users that a parent's rows name.
Renamed(users, source, target) ==
  IF source \in users THEN (users \ {source}) \cup {target} ELSE users

\* ON DELETE CASCADE of the owner.
WithoutOwner(table, u) ==
  [x \in DOMAIN table |-> IF table[x] # None /\ table[x].owner = u THEN None ELSE table[x]]

MergeOwners(source, target) ==
  /\ {source, target} \subseteq alive /\ source # target
  /\ alive' = alive \ {source}
  /\ userAlias' = [u \in Users |-> IF u = source \/ userAlias[u] = source
                                   THEN target ELSE userAlias[u]]
  /\ UNCHANGED <<now, request>>

DeleteOwner(u) ==
  /\ u \in alive /\ alive' = alive \ {u}
  /\ userAlias' = [v \in Users |-> IF userAlias[v] = u THEN None ELSE userAlias[v]]
  /\ UNCHANGED <<now, request>>
=================================================================================
