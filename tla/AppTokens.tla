------------------------------- MODULE AppTokens -------------------------------
(***************************************************************************)
(* App tokens: what their owners make and edit (post-, patch- and          *)
(* deleteAppTokenHandler.ts), the one the map apps of a user share         *)
(* (mapApps/), handed out over single-use links, and the roles of accounts *)
(* (adminPatchUserHandler.ts, mergeUsersHandler.ts) that some scopes need. *)
(* A request acts on the user row its authentication read (authenticator). *)
(* Of the roles and scopes only userManager and the scopes that need it    *)
(* are told apart from the rest.                                           *)
(***************************************************************************)
EXTENDS Integers, FiniteSets

CONSTANTS
  Users,      \* accounts
  Managers,   \* the accounts that hold the userManager role to begin with
  Requests,   \* requests of logged-in users
  Visits,     \* GETs of the map apps' provider lists
  Links,      \* nonces
  MaxTokens,  \* bound on the tokens made
  MaxLife,    \* ROLE_SCOPE_MAX_DAYS, with the clock skew
  LinkLife,   \* how long an install link is valid
  MaxTime,    \* bound on the clock
  MaxTaken,   \* bound on how often the roles of an account are taken away
  NULL

VARIABLES
  now,
  alive,    \* the accounts that exist
  manager,  \* those with the userManager role
  taken,    \* how often each account's role was taken away (history)
  made,     \* tokens made so far, the last AUTO_INCREMENT id
  token,    \* the appToken table
  link,     \* the locusInstall table
  request,  \* the user row each request acts on, and the app token it came with
  visit,    \* the transaction of each visit
  holder,   \* the visit that has locked the account's row
  handed    \* how often each link's token was handed out (history)

\* NULL is none of the things a column may hold.
Parameters ==
  /\ {MaxTokens, LinkLife, MaxTime} \subseteq Nat /\ Managers \subseteq Users
  /\ NULL \notin Nat \cup Users \cup Visits \cup Links
ASSUME ParametersAssumption == Parameters

tables == <<alive, manager, taken, made, token, link>>
tokenVars == <<now, tables, request, visit, holder, handed>>

TokenIds == 1..MaxTokens
Scopes == {"users", "tiles", "other"}
RoleScopes == {"users"}
TokenScopes == {"tiles"}
Idle == [at |-> "idle", link |-> NULL, user |-> NULL, reused |-> {}]

TokensInit ==
  /\ now = 0
  /\ alive = Users /\ manager = Managers /\ taken = [u \in Users |-> 0]
  /\ made = 0 /\ token = [k \in TokenIds |-> NULL]
  /\ link = [n \in Links |-> NULL]
  /\ request = [r \in Requests |-> NULL]
  /\ visit = [v \in Visits |-> Idle]
  /\ holder = [u \in Users |-> NULL]
  /\ handed = [n \in Links |-> 0]

TokensOf(u) == {k \in TokenIds : token[k] # NULL /\ token[k].owner = u}
\* Without an expiration (NULL), never.
Unexpired(k) == token[k].expires \notin 0..now
Unlocked(u) == holder[u] = NULL

Tick ==
  /\ now < MaxTime
  /\ now' = now + 1
  /\ UNCHANGED <<tables, request, visit, holder, handed>>
-------------------------------------------------------------------------------
(* Requests *)

\* With a session of the user, or with a token of theirs: one without a role
\* scope reaches none of the routes below.
AuthenticateWith(r, u, k) ==
  /\ request[r] = NULL /\ u \in alive
  /\ k # NULL => k \in TokensOf(u) /\ Unexpired(k) /\ "users" \in token[k].scopes
  /\ request' = [request EXCEPT ![r] =
       [user |-> u, manager |-> u \in manager, by |-> IF k = NULL THEN "session" ELSE "token"]]
  /\ UNCHANGED <<now, tables, visit, holder, handed>>

HasRole(r) == request[r] # NULL /\ request[r].manager
InSession(r) == request[r] # NULL /\ request[r].by = "session"
WithScope(r) == request[r] # NULL
Replied(r) == request' = [request EXCEPT ![r] = NULL]

TooLong(expires, created) == expires \notin 0..(created + MaxLife)

\* (mutation) a life counted from the edit
RefusalFromNow(r, scopes, expires, created) ==
  scopes \cap RoleScopes # {} /\ (~HasRole(r) \/ TooLong(expires, now))

\* Why a token may not be as asked for: scopes that need a role, or live too long.
Refusal(r, scopes, expires, created) ==
  scopes \cap RoleScopes # {} /\ (~HasRole(r) \/ TooLong(expires, created))

\* The expiration a body may name.
ValidExpirations == {NULL} \cup (now + 1)..(MaxTime + 1)

\* Who gave the token its role scopes, and how often their role had been taken by then.
Granted(u, scopes) ==
  IF scopes \cap RoleScopes = {} THEN NULL ELSE [by |-> u, taken |-> taken[u]]
Token(u, scopes, expires, isNamed, madeFor) ==
  [owner |-> u, scopes |-> scopes, created |-> now, expires |-> expires, named |-> isNamed,
   madeFor |-> madeFor, edited |-> FALSE, granted |-> Granted(u, scopes)]

\* The user row's lock makes the INSERT wait; without the row it fails.
PostToken(r, scopes, expires, isNamed) ==
  /\ InSession(r) /\ Unlocked(request[r].user)
  /\ expires \in ValidExpirations
  /\ IF Refusal(r, scopes, expires, now) \/ request[r].user \notin alive
     THEN UNCHANGED <<made, token>>
     ELSE /\ made < MaxTokens
          /\ made' = made + 1
          /\ token' = [token EXCEPT ![made + 1] =
                         Token(request[r].user, scopes, expires, isNamed, NULL)]
  /\ Replied(r)
  /\ UNCHANGED <<now, alive, manager, taken, link, visit, holder, handed>>

\* Any of the note, the scopes and the expiration, checked as the token will be.
PatchToken(r, k, scopes, expires, isNamed) ==
  /\ InSession(r) /\ k \in TokensOf(request[r].user)
  /\ expires \in ValidExpirations \cup {token[k].expires}
  /\ IF Refusal(r, scopes, expires, token[k].created)
     THEN UNCHANGED token
     ELSE token' = [token EXCEPT ![k] =
            [@ EXCEPT !.scopes = scopes, !.expires = expires, !.named = isNamed,
                      !.edited = token[k].edited \/ token[k].madeFor # NULL,
                      !.granted = Granted(request[r].user, scopes)]]
  /\ Replied(r)
  /\ UNCHANGED <<now, alive, manager, taken, made, link, visit, holder, handed>>

DeleteToken(r, k) ==
  /\ InSession(r) /\ k \in TokensOf(request[r].user)
  /\ token' = [token EXCEPT ![k] = NULL]
  /\ Replied(r)
  /\ UNCHANGED <<now, alive, manager, taken, made, link, visit, holder, handed>>

\* No such token any more, or not one of this user.
NoSuchToken(r) ==
  /\ InSession(r) /\ Replied(r)
  /\ UNCHANGED <<now, tables, visit, holder, handed>>
-------------------------------------------------------------------------------
(* Accounts *)

WithoutRoleTokens(u) ==
  [k \in TokenIds |-> IF k \in TokensOf(u) /\ token[k].scopes \cap RoleScopes # {}
                 THEN NULL ELSE token[k]]

\* The administrator sets the roles, which takes a session, and with a role go
\* the tokens that need it.
AdminPatchUser(r, u, grant) ==
  /\ InSession(r) /\ HasRole(r) /\ u \in alive /\ Unlocked(u)
  /\ \/ /\ grant
        /\ manager' = manager \cup {u}
        /\ UNCHANGED <<taken, token>>
     \/ /\ ~grant /\ taken[u] < MaxTaken
        /\ manager' = manager \ {u}
        /\ taken' = [taken EXCEPT ![u] = @ + 1]
        /\ token' = WithoutRoleTokens(u)
  /\ Replied(r)
  /\ UNCHANGED <<now, alive, made, link, visit, holder, handed>>

Repointed(table, source, target) ==
  [x \in DOMAIN table |->
     IF table[x] # NULL /\ table[x].owner = source
     THEN [table[x] EXCEPT !.owner = target] ELSE table[x]]

\* (mutation) every token follows the merge
KeptRoleTokens(source) == token

\* What a merge takes along.
MovedTokens(source) == WithoutRoleTokens(source)

\* A manager merges two accounts, with a token only such as hold no roles. The
\* one that stays has the roles of both, and its role tokens count as they did.
MergeUsers(r, target, source) ==
  /\ WithScope(r) /\ HasRole(r)
  /\ target # source /\ {target, source} \subseteq alive
  /\ Unlocked(target) /\ Unlocked(source)
  /\ InSession(r) \/ {target, source} \cap manager = {}
  /\ alive' = alive \ {source}
  /\ manager' = IF source \in manager THEN (manager \cup {target}) \ {source} ELSE manager
  /\ LET moved == MovedTokens(source)
     IN token' = Repointed(moved, source, target)
  /\ link' = Repointed(link, source, target)
  /\ Replied(r)
  /\ UNCHANGED <<now, taken, made, visit, holder, handed>>

DeleteUser(u) ==
  /\ u \in alive /\ Unlocked(u)
  /\ alive' = alive \ {u} /\ manager' = manager \ {u}
  /\ token' = [k \in TokenIds |-> IF k \in TokensOf(u) THEN NULL ELSE token[k]]
  /\ link' = [n \in Links |-> IF link[n] # NULL /\ link[n].owner = u THEN NULL ELSE link[n]]
  /\ UNCHANGED <<now, taken, made, request, visit, holder, handed>>

CleanUp ==
  /\ token' = [k \in TokenIds |-> IF token[k] # NULL /\ token[k].expires \in 0..(now - 1)
                             THEN NULL ELSE token[k]]
  /\ link' = [n \in Links |-> IF link[n] # NULL /\ link[n].until < now
                                 /\ link[n].taker = NULL THEN NULL ELSE link[n]]
  /\ UNCHANGED <<now, alive, manager, taken, made, request, visit, holder, handed>>
-------------------------------------------------------------------------------
(* Map apps *)

\* POST /locus/installs: a link that is valid for a while.
Install(r, n) ==
  /\ InSession(r) /\ handed[n] = 0 /\ link[n] = NULL
  /\ \A v \in Visits : visit[v].link # n
  /\ Unlocked(request[r].user)
  /\ link' = IF request[r].user \in alive
             THEN [link EXCEPT ![n] = [owner |-> request[r].user, until |-> now + LinkLife,
                                       taker |-> NULL]]
             ELSE link
  /\ Replied(r)
  /\ UNCHANGED <<now, alive, manager, taken, made, token, visit, holder, handed>>

Valid(n) == link[n] # NULL /\ link[n].until > now /\ link[n].taker = NULL

\* GET /locus/providers/:nonce: the link's row is locked and deleted. Another
\* visit waits for the lock.
TakeLink(v, n) ==
  /\ visit[v].at = "idle" /\ Valid(n)
  /\ link' = [link EXCEPT ![n].taker = v]
  /\ visit' = [visit EXCEPT ![v] = [Idle EXCEPT !.at = "lock", !.link = n, !.user = link[n].owner]]
  /\ UNCHANGED <<now, alive, manager, taken, made, token, request, holder, handed>>

\* GET /oruxmaps/onlinemapsources.xml, in a session.
AskOrux(r, v) ==
  /\ InSession(r) /\ visit[v].at = "idle"
  /\ visit' = [visit EXCEPT ![v] = [Idle EXCEPT !.at = "lock", !.user = request[r].user]]
  /\ Replied(r)
  /\ UNCHANGED <<now, tables, holder, handed>>

\* (mutation) the user's row read without FOR UPDATE
RowIsAnyones(u) == TRUE

\* mapAppsToken locks the user's row and reads the tokens of the note whose hash
\* is the derived one.
RowIsFree(u) == Unlocked(u)
LockUser(v) ==
  LET u == visit[v].user
  IN /\ visit[v].at = "lock" /\ RowIsFree(u) /\ u \in alive
     /\ holder' = [holder EXCEPT ![u] = v]
     /\ visit' = [visit EXCEPT ![v].at = "write",
          ![v].reused = {k \in TokensOf(u) : token[k].named /\ token[k].madeFor # NULL /\ Unexpired(k)}]
     /\ UNCHANGED <<now, tables, request, handed>>

Closed(v) ==
  /\ holder' = [u \in Users |-> IF holder[u] = v THEN NULL ELSE holder[u]]
  /\ visit' = [visit EXCEPT ![v] = Idle]
Consumed(v) ==
  IF visit[v].link = NULL THEN link ELSE [link EXCEPT ![visit[v].link] = NULL]

\* The token's scopes are set back, or a token is made; the commit takes the link.
WriteToken(v) ==
  /\ visit[v].at = "write"
  /\ IF visit[v].reused # {}
     THEN /\ \E k \in visit[v].reused :
               token' = [token EXCEPT ![k] =
                           IF @ = NULL THEN @
                           ELSE [@ EXCEPT !.scopes = TokenScopes, !.granted = NULL]]
          /\ UNCHANGED made
     ELSE /\ made < MaxTokens
          /\ made' = made + 1
          /\ token' = [token EXCEPT ![made + 1] =
                         Token(visit[v].user, TokenScopes, NULL, TRUE, visit[v].user)]
  /\ link' = Consumed(v)
  /\ handed' = [n \in Links |-> IF n = visit[v].link THEN handed[n] + 1 ELSE handed[n]]
  /\ Closed(v)
  /\ UNCHANGED <<now, alive, manager, taken, request>>

\* A statement fails, or the account is gone: the link stays.
RollBack(v) ==
  /\ visit[v].at \in {"lock", "write"}
  /\ link' = IF visit[v].link = NULL \/ link[visit[v].link] = NULL THEN link
             ELSE [link EXCEPT ![visit[v].link].taker = NULL]
  /\ Closed(v)
  /\ UNCHANGED <<now, alive, manager, taken, made, token, request, handed>>

\* The scopes after an edit: others, or those of a map app's token kept with a
\* new note or expiration.
EditedScopes == {{"users"}, {"other"}, TokenScopes}

TokensNext ==
  \/ Tick \/ CleanUp
  \/ \E u \in Users : DeleteUser(u)
  \/ \E r \in Requests :
       \/ \E u \in Users, k \in TokenIds \cup {NULL} : AuthenticateWith(r, u, k)
       \/ \E s \in {{"users"}, {"other"}}, e \in ValidExpirations : PostToken(r, s, e, FALSE)
       \/ \E k \in TokenIds : DeleteToken(r, k)
       \/ \E k \in TokenIds, s \in EditedScopes, e \in 0..(MaxTime + 1) \cup {NULL},
             isNamed \in BOOLEAN : PatchToken(r, k, s, e, isNamed)
       \/ NoSuchToken(r)
       \/ \E u \in Users, grant \in BOOLEAN : AdminPatchUser(r, u, grant)
       \/ \E t, s \in Users : MergeUsers(r, t, s)
       \/ \E n \in Links : Install(r, n)
       \/ \E v \in Visits : AskOrux(r, v)
  \/ \E v \in Visits :
       \/ \E n \in Links : TakeLink(v, n)
       \/ LockUser(v) \/ WriteToken(v) \/ RollBack(v)

TokensSpec == TokensInit /\ [][TokensNext]_tokenVars
-------------------------------------------------------------------------------
TokenRecord ==
  [owner: Users, scopes: SUBSET Scopes, created: Nat, expires: Nat \cup {NULL},
   named: BOOLEAN, madeFor: Users \cup {NULL}, edited: BOOLEAN,
   granted: [by: Users, taken: Nat] \cup {NULL}]

\* The tables keep their types, and a token or a link its owner.
TokensTypeOK ==
  /\ now \in Nat /\ made \in 0..MaxTokens
  /\ manager \subseteq alive /\ alive \subseteq Users
  /\ taken \in [Users -> Nat]
  /\ token \in [TokenIds -> TokenRecord \cup {NULL}]
  /\ \A k \in TokenIds : token[k] # NULL => token[k].owner \in alive /\ k <= made
  /\ link \in [Links -> [owner: Users, until: Nat, taker: Visits \cup {NULL}] \cup {NULL}]
  /\ \A n \in Links : link[n] # NULL => link[n].owner \in alive
  /\ request \in [Requests ->
       [user: Users, manager: BOOLEAN, by: {"session", "token"}] \cup {NULL}]
  /\ holder \in [Users -> Visits \cup {NULL}]
  /\ handed \in [Links -> Nat]

\* "A role scope reaches other people's accounts, so its token lives briefly",
\* "an edit can't extend it" (appTokens.ts:66-74): whatever edits of scopes and
\* expiration, merges and resets a token went through, while it has a role scope
\* it ends within MaxLife of its creation.
RoleTokensAreShortLived ==
  \A k \in TokenIds : token[k] # NULL /\ token[k].scopes \cap RoleScopes # {} =>
    ~TooLong(token[k].expires, token[k].created)

\* "A role taken away takes its tokens, so granting it again won't revive them"
\* (adminPatchUserHandler.ts:135), "admin tokens stay with the account their owner
\* minted them on" (userMerge.ts:129): a token with a role scope is on the account
\* that gave it the scope, and was last written after the role was last taken
\* from that account.
RoleTokensStay ==
  \A k \in TokenIds : token[k] # NULL /\ token[k].scopes \cap RoleScopes # {} =>
    token[k].granted = [by |-> token[k].owner, taken |-> taken[token[k].owner]]

\* "Every map app of a user carries the same token" (token.ts:12): of the tokens
\* derived for one account at most one is as it was made, however many apps ask
\* at once.
MapAppsShareAToken ==
  \A j, k \in TokenIds :
    /\ token[j] # NULL /\ token[k] # NULL /\ ~token[j].edited /\ ~token[k].edited
    /\ token[j].madeFor = token[k].madeFor /\ token[k].madeFor # NULL
    => j = k

\* And an install link is "single use" (mapApps/index.ts:21): however many apps
\* fetch it at once, fail and try again, it hands that token out once.
LinksWorkOnce == \A n \in Links : handed[n] <= 1
MapAppsGetOneToken == MapAppsShareAToken /\ LinksWorkOnce
===============================================================================
