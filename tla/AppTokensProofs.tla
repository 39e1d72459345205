---------------------------- MODULE AppTokensProofs ----------------------------
(***************************************************************************)
(* Theorems about AppTokens, for any accounts, managers, requests, visits  *)
(* of map apps, links, tokens and lifetimes with the Parameters.           *)
(***************************************************************************)
EXTENDS AppTokens, TLAPS

-------------------------------------------------------------------------------
(* Types *)

LinkRecord == [owner: Users, until: Nat, taker: Visits \cup {NULL}]
RequestRecord == [user: Users, manager: BOOLEAN, by: {"session", "token"}]
VisitRecord ==
  [at: {"idle", "lock", "write"}, link: Links \cup {NULL}, user: Users \cup {NULL},
   reused: SUBSET TokenIds]

\* A visit that writes has locked the row of an account that exists, and keeps it.
Locks ==
  /\ visit \in [Visits -> VisitRecord]
  /\ \A v \in Visits : visit[v].at # "idle" => visit[v].user \in Users
  /\ \A v \in Visits : visit[v].at = "write" =>
       visit[v].user \in alive /\ holder[visit[v].user] = v

Typed == Parameters /\ TokensTypeOK /\ Locks

\* The parts of the types that most steps leave alone.
TokensTyped ==
  /\ made \in 0..MaxTokens
  /\ token \in [TokenIds -> TokenRecord \cup {NULL}]
  /\ \A k \in TokenIds : token[k] # NULL => token[k].owner \in alive /\ k <= made
LinksTyped ==
  /\ link \in [Links -> LinkRecord \cup {NULL}]
  /\ \A n \in Links : link[n] # NULL => link[n].owner \in alive
AccountsTyped ==
  /\ manager \subseteq alive /\ alive \subseteq Users /\ taken \in [Users -> Nat]
RequestsTyped == request \in [Requests -> RequestRecord \cup {NULL}]
VisitsTyped == holder \in [Users -> Visits \cup {NULL}] /\ handed \in [Links -> Nat] /\ Locks

LEMMA TypedParts ==
  Typed <=> /\ Parameters /\ now \in Nat
            /\ TokensTyped /\ LinksTyped /\ AccountsTyped /\ RequestsTyped /\ VisitsTyped
BY DEF Typed, TokensTypeOK, TokensTyped, LinksTyped, AccountsTyped, RequestsTyped, VisitsTyped,
       LinkRecord, RequestRecord

LEMMA TypedPartsNext ==
  ASSUME Parameters, now' \in Nat,
         TokensTyped', LinksTyped', AccountsTyped', RequestsTyped', VisitsTyped'
  PROVE  Typed'
BY DEF Parameters, Typed, TokensTypeOK, TokensTyped, LinksTyped, AccountsTyped, RequestsTyped,
       VisitsTyped, LinkRecord, RequestRecord

LEMMA TypedInitially == Parameters /\ TokensInit => Typed
<1> SUFFICES ASSUME Parameters, TokensInit PROVE Typed
  OBVIOUS
<1>1. now \in Nat /\ AccountsTyped /\ RequestsTyped
  BY DEF TokensInit, Parameters, AccountsTyped, RequestsTyped
<1>2. TokensTyped /\ LinksTyped
  BY DEF TokensInit, Parameters, TokensTyped, LinksTyped
<1>3. VisitsTyped
  BY DEF TokensInit, Idle, VisitsTyped, Locks, VisitRecord
<1> QED BY <1>1, <1>2, <1>3, TypedParts

LEMMA ExpirationsAreTimes ==
  ASSUME Typed, NEW e \in ValidExpirations
  PROVE  e \in Nat \cup {NULL}
BY DEF ValidExpirations, Typed, TokensTypeOK, Parameters

LEMMA TokensAreRecords ==
  ASSUME Typed, NEW u \in Users, NEW scopes \in SUBSET Scopes, NEW e \in Nat \cup {NULL},
         NEW isNamed \in BOOLEAN, NEW madeFor \in Users \cup {NULL}
  PROVE  /\ Granted(u, scopes) \in [by: Users, taken: Nat] \cup {NULL}
         /\ Token(u, scopes, e, isNamed, madeFor) \in TokenRecord
<1>1. taken[u] \in Nat /\ now \in Nat
  BY DEF Typed, TokensTypeOK
<1>2. Granted(u, scopes) \in [by: Users, taken: Nat] \cup {NULL}
  BY <1>1 DEF Granted
<1> QED BY <1>1, <1>2 DEF Token, TokenRecord

LEMMA TokenMade ==
  ASSUME Parameters, TokensTyped, made < MaxTokens, alive' = alive, made' = made + 1,
         NEW new \in TokenRecord, new.owner \in alive,
         token' = [token EXCEPT ![made + 1] = new]
  PROVE  TokensTyped'
<1>1. made + 1 \in 0..MaxTokens /\ made \in Nat /\ made + 1 \in TokenIds
  BY DEF TokensTyped, Parameters, TokenIds
<1>2. token' \in [TokenIds -> TokenRecord \cup {NULL}]
  BY DEF TokensTyped
<1>3. ASSUME NEW j \in TokenIds, token'[j] # NULL
      PROVE  token'[j].owner \in alive' /\ j <= made'
  <2>1. CASE j = made + 1
    BY <1>1, <2>1 DEF TokensTyped
  <2>2. CASE j # made + 1
    <3>1. token'[j] = token[j] /\ token[j] # NULL /\ j \in Int
      BY <1>3, <2>2 DEF TokensTyped, TokenIds
    <3> QED BY <1>1, <3>1 DEF TokensTyped
  <2> QED BY <2>1, <2>2
<1> QED BY <1>1, <1>2, <1>3 DEF TokensTyped

\* What the requests for an account's own tokens leave alone.
LEMMA OwnTokenRequests ==
  ASSUME Typed, NEW r \in Requests, InSession(r), Replied(r),
         UNCHANGED <<now, alive, manager, taken, link, visit, holder, handed>>
  PROVE  /\ request[r].user \in Users
         /\ Parameters /\ now' \in Nat
         /\ RequestsTyped' /\ LinksTyped' /\ AccountsTyped' /\ VisitsTyped'
<1>1. request[r] \in RequestRecord
  BY DEF InSession, Typed, TokensTypeOK, RequestRecord
<1>2. Parameters /\ now' \in Nat
  BY TypedParts
<1>3. RequestsTyped' /\ LinksTyped' /\ AccountsTyped' /\ VisitsTyped'
  BY TypedParts DEF Replied, RequestsTyped, LinksTyped, AccountsTyped, VisitsTyped, Locks
<1> QED BY <1>1, <1>2, <1>3 DEF RequestRecord

LEMMA TypedPost ==
  ASSUME Typed, NEW r \in Requests, NEW scopes \in SUBSET Scopes, NEW isNamed \in BOOLEAN,
         NEW e \in Nat \cup {NULL},
         PostToken(r, scopes, e, isNamed)
  PROVE  Typed'
<1>1. /\ InSession(r) /\ Replied(r)
      /\ UNCHANGED <<now, alive, manager, taken, link, visit, holder, handed>>
  BY DEF PostToken
<1>2. request[r].user \in Users
  BY <1>1, OwnTokenRequests
<1>3. TokensTyped
  BY TypedParts
<1>4. TokensTyped'
  <2>1. CASE UNCHANGED <<made, token>>
    BY <1>1, <1>3, <2>1 DEF TokensTyped
  <2>2. CASE /\ request[r].user \in alive /\ made < MaxTokens /\ made' = made + 1
             /\ token' = [token EXCEPT ![made + 1] =
                            Token(request[r].user, scopes, e, isNamed, NULL)]
    <3>1. /\ Token(request[r].user, scopes, e, isNamed, NULL) \in TokenRecord
          /\ Token(request[r].user, scopes, e, isNamed, NULL).owner = request[r].user
      BY <1>2, TokensAreRecords DEF Token
    <3> QED BY <1>1, <1>3, <2>2, <3>1, TypedParts, TokenMade
  <2> QED BY <2>1, <2>2 DEF PostToken
<1> QED BY <1>1, <1>4, OwnTokenRequests, TypedPartsNext

LEMMA TypedPatch ==
  ASSUME Typed, NEW r \in Requests, NEW scopes \in SUBSET Scopes, NEW isNamed \in BOOLEAN,
         NEW k \in TokenIds, NEW e \in Nat \cup {NULL},
         PatchToken(r, k, scopes, e, isNamed)
  PROVE  Typed'
<1>1. /\ InSession(r) /\ Replied(r)
      /\ UNCHANGED <<now, alive, manager, taken, link, visit, holder, handed>>
  BY DEF PatchToken
<1>2. request[r].user \in Users
  BY <1>1, OwnTokenRequests
<1>3. TokensTyped
  BY TypedParts
<1>4. TokensTyped'
  <2>1. token[k] # NULL /\ token[k] \in TokenRecord
    BY <1>3 DEF PatchToken, TokensOf, TokensTyped
  <2> DEFINE patched == [token[k] EXCEPT !.scopes = scopes, !.expires = e, !.named = isNamed,
                           !.edited = token[k].edited \/ token[k].madeFor # NULL,
                           !.granted = Granted(request[r].user, scopes)]
  <2>2. token' = token \/ token' = [token EXCEPT ![k] = patched]
    BY DEF PatchToken
  <2>3. patched \in TokenRecord /\ patched.owner = token[k].owner
    <3>1. /\ Granted(request[r].user, scopes) \in [by: Users, taken: Nat] \cup {NULL}
          /\ (token[k].edited \/ token[k].madeFor # NULL) \in BOOLEAN
      BY <1>2, <2>1, TokensAreRecords DEF TokenRecord
    <3> QED BY <2>1, <3>1 DEF TokenRecord
  <2>4. made' = made
    BY DEF PatchToken
  <2> HIDE DEF patched
  <2> QED BY <1>1, <1>3, <2>1, <2>2, <2>3, <2>4 DEF TokensTyped
<1> QED BY <1>1, <1>4, OwnTokenRequests, TypedPartsNext

LEMMA TypedDelete ==
  ASSUME Typed, NEW r \in Requests, NEW k \in TokenIds,
         DeleteToken(r, k)
  PROVE  Typed'
<1>1. /\ InSession(r) /\ Replied(r)
      /\ UNCHANGED <<now, alive, manager, taken, link, visit, holder, handed>>
  BY DEF DeleteToken
<1>2. request[r].user \in Users
  BY <1>1, OwnTokenRequests
<1>3. TokensTyped
  BY TypedParts
<1>4. TokensTyped'
  <2>1. token' = [token EXCEPT ![k] = NULL] /\ made' = made /\ alive' = alive
    BY DEF DeleteToken
  <2> QED BY <1>3, <2>1 DEF TokensTyped
<1> QED BY <1>1, <1>4, OwnTokenRequests, TypedPartsNext

LEMMA TypedRequests ==
  ASSUME Typed, NEW r \in Requests,
         \/ \E u \in Users, k \in TokenIds \cup {NULL} : AuthenticateWith(r, u, k)
         \/ NoSuchToken(r)
         \/ \E n \in Links : Install(r, n)
         \/ \E v \in Visits : AskOrux(r, v)
  PROVE  Typed'
<1>1. UNCHANGED <<now, alive, manager, taken, made, token, holder, handed>>
  BY DEF AuthenticateWith, NoSuchToken, Install, AskOrux, tables
<1>2. Parameters /\ now' \in Nat /\ TokensTyped' /\ AccountsTyped'
  BY <1>1, TypedParts DEF TokensTyped, AccountsTyped
<1>3. RequestsTyped'
  <2>1. CASE request' = [request EXCEPT ![r] = NULL]
    BY <2>1, TypedParts DEF RequestsTyped
  <2>2. CASE \E u \in Users, k \in TokenIds \cup {NULL} : AuthenticateWith(r, u, k)
    <3>1. PICK u \in Users, k \in TokenIds \cup {NULL} : AuthenticateWith(r, u, k)
      BY <2>2
    <3>2. [user |-> u, manager |-> u \in manager, by |-> IF k = NULL THEN "session" ELSE "token"]
            \in RequestRecord
      <4>1. (u \in manager) \in BOOLEAN
        OBVIOUS
      <4> QED BY <4>1 DEF RequestRecord
    <3> QED BY <3>1, <3>2, TypedParts DEF AuthenticateWith, RequestsTyped
  <2> QED BY <2>1, <2>2 DEF NoSuchToken, Install, AskOrux, Replied
<1>4. LinksTyped'
  <2>1. CASE link' = link
    BY <1>1, <2>1, TypedParts DEF LinksTyped
  <2>2. ASSUME NEW n \in Links, Install(r, n), link' # link
        PROVE  LinksTyped'
    <3>1. now + LinkLife \in Nat /\ alive \subseteq Users
      BY TypedParts DEF Parameters, AccountsTyped
    <3>2. request[r].user \in alive
      BY <2>2 DEF Install
    <3>3. link' = [link EXCEPT ![n] = [owner |-> request[r].user, until |-> now + LinkLife,
                                       taker |-> NULL]]
      BY <2>2, <3>2 DEF Install
    <3>4. [owner |-> request[r].user, until |-> now + LinkLife, taker |-> NULL] \in LinkRecord
      BY <3>1, <3>2 DEF LinkRecord
    <3> QED BY <1>1, <3>2, <3>3, <3>4, TypedParts DEF LinksTyped
  <2> QED BY <2>1, <2>2 DEF AuthenticateWith, NoSuchToken, AskOrux, tables
<1>5. VisitsTyped'
  <2>1. CASE visit' = visit
    BY <1>1, <2>1, TypedParts DEF VisitsTyped, Locks
  <2>2. ASSUME NEW v \in Visits, AskOrux(r, v)
        PROVE  VisitsTyped'
    <3>1. request[r].user \in Users
      BY <2>2, TypedParts DEF AskOrux, InSession, RequestsTyped, RequestRecord
    <3>2. /\ visit' = [visit EXCEPT ![v] = [Idle EXCEPT !.at = "lock", !.user = request[r].user]]
          /\ visit \in [Visits -> VisitRecord]
      BY <2>2, TypedParts DEF AskOrux, VisitsTyped, Locks
    <3>3. [Idle EXCEPT !.at = "lock", !.user = request[r].user] \in VisitRecord
      BY <3>1 DEF Idle, VisitRecord
    <3>4. /\ visit' \in [Visits -> VisitRecord]
          /\ visit'[v].at = "lock" /\ visit'[v].user \in Users
          /\ \A w \in Visits \ {v} : visit'[w] = visit[w]
      BY <3>1, <3>2, <3>3 DEF Idle
    <3> QED BY <1>1, <3>4, TypedParts DEF VisitsTyped, Locks
  <2> QED BY <2>1, <2>2 DEF AuthenticateWith, NoSuchToken, Install
<1> QED BY <1>2, <1>3, <1>4, <1>5, TypedPartsNext

LEMMA TypedAdminPatch ==
  ASSUME Typed, NEW r \in Requests, NEW u \in Users, NEW grant \in BOOLEAN,
         AdminPatchUser(r, u, grant)
  PROVE  Typed'
<1>1. /\ UNCHANGED <<now, alive, made, link, visit, holder, handed>> /\ u \in alive
      /\ request' = [request EXCEPT ![r] = NULL]
      /\ manager' \subseteq manager \cup {u} /\ (taken' = taken \/ taken' = [taken EXCEPT ![u] = @ + 1])
      /\ token' = token \/ token' = WithoutRoleTokens(u)
  BY DEF AdminPatchUser, Replied
<1>2. Parameters /\ now' \in Nat /\ LinksTyped' /\ RequestsTyped' /\ VisitsTyped'
  BY <1>1, TypedParts DEF LinksTyped, RequestsTyped, VisitsTyped, Locks
<1>3. AccountsTyped'
  BY <1>1, TypedParts DEF AccountsTyped
<1>4. TokensTyped'
  BY <1>1, TypedParts DEF TokensTyped, WithoutRoleTokens
<1> QED BY <1>2, <1>3, <1>4, TypedPartsNext

LEMMA TypedMerge ==
  ASSUME Typed, NEW r \in Requests, NEW target \in Users, NEW source \in Users,
         MergeUsers(r, target, source)
  PROVE  Typed'
<1>1. /\ UNCHANGED <<now, taken, made, visit, holder, handed>>
      /\ target # source /\ {target, source} \subseteq alive /\ Unlocked(source)
      /\ alive' = alive \ {source} /\ request' = [request EXCEPT ![r] = NULL]
      /\ manager' = IF source \in manager THEN (manager \cup {target}) \ {source} ELSE manager
      /\ token' = Repointed(WithoutRoleTokens(source), source, target)
      /\ link' = Repointed(link, source, target)
  BY DEF MergeUsers, Replied, MovedTokens
<1>2. Parameters /\ now' \in Nat /\ RequestsTyped' /\ AccountsTyped'
  BY <1>1, TypedParts DEF RequestsTyped, AccountsTyped
<1>3. LinksTyped'
  <2>1. link \in [Links -> LinkRecord \cup {NULL}]
    BY TypedParts DEF LinksTyped
  <2>2. link' \in [Links -> LinkRecord \cup {NULL}]
    BY <1>1, <2>1 DEF Repointed, LinkRecord
  <2>3. ASSUME NEW n \in Links, link'[n] # NULL PROVE link'[n].owner \in alive'
    <3>1. link'[n] = IF link[n] # NULL /\ link[n].owner = source
                     THEN [link[n] EXCEPT !.owner = target] ELSE link[n]
      BY <1>1, <2>1 DEF Repointed
    <3>2. link[n] # NULL => link[n] \in LinkRecord /\ link[n].owner \in alive
      BY <2>1, TypedParts DEF LinksTyped
    <3> QED BY <1>1, <2>3, <3>1, <3>2 DEF LinkRecord
  <2> QED BY <2>2, <2>3 DEF LinksTyped
<1>4. TokensTyped'
  <2> DEFINE kept == WithoutRoleTokens(source)
  <2>1. /\ kept \in [TokenIds -> TokenRecord \cup {NULL}]
        /\ \A k \in TokenIds : kept[k] # NULL => kept[k].owner \in alive /\ k <= made
    BY TypedParts DEF WithoutRoleTokens, TokensTyped
  <2> HIDE DEF kept
  <2>2. token' = Repointed(kept, source, target)
    BY <1>1 DEF kept
  <2>3. token' \in [TokenIds -> TokenRecord \cup {NULL}]
    BY <1>1, <2>1, <2>2 DEF Repointed, TokenRecord
  <2>4. ASSUME NEW k \in TokenIds, token'[k] # NULL PROVE token'[k].owner \in alive' /\ k <= made'
    <3>1. token'[k] = IF kept[k] # NULL /\ kept[k].owner = source
                      THEN [kept[k] EXCEPT !.owner = target] ELSE kept[k]
      BY <2>1, <2>2 DEF Repointed
    <3>2. kept[k] # NULL => kept[k] \in TokenRecord /\ kept[k].owner \in alive /\ k <= made
      BY <2>1
    <3> QED BY <1>1, <2>4, <3>1, <3>2 DEF TokenRecord
  <2> QED BY <1>1, <2>3, <2>4, TypedParts DEF TokensTyped
<1>5. VisitsTyped'
  <2>1. \A v \in Visits : visit[v].at = "write" => visit[v].user # source
    BY <1>1, TypedParts DEF VisitsTyped, Locks, Unlocked, Parameters
  <2> QED BY <1>1, <2>1, TypedParts DEF VisitsTyped, Locks
<1> QED BY <1>2, <1>3, <1>4, <1>5, TypedPartsNext

LEMMA TypedOther ==
  ASSUME Typed, Tick \/ CleanUp \/ \E u \in Users : DeleteUser(u)
  PROVE  Typed'
<1>1. CASE Tick
  <2>1. now' \in Nat /\ UNCHANGED <<tables, request, visit, holder, handed>>
    BY <1>1, TypedParts DEF Tick
  <2> QED BY <2>1, TypedParts, TypedPartsNext
          DEF tables, TokensTyped, LinksTyped, AccountsTyped, RequestsTyped, VisitsTyped, Locks
<1>2. CASE CleanUp
  <2>1. UNCHANGED <<now, alive, manager, taken, made, request, visit, holder, handed>>
    BY <1>2 DEF CleanUp
  <2>2. TokensTyped'
    BY <1>2, <2>1, TypedParts DEF CleanUp, TokensTyped
  <2>3. LinksTyped'
    BY <1>2, <2>1, TypedParts DEF CleanUp, LinksTyped
  <2> QED BY <2>1, <2>2, <2>3, TypedParts, TypedPartsNext
          DEF AccountsTyped, RequestsTyped, VisitsTyped, Locks
<1>3. ASSUME NEW u \in Users, DeleteUser(u) PROVE Typed'
  <2>1. /\ UNCHANGED <<now, taken, made, request, visit, holder, handed>>
        /\ Unlocked(u) /\ alive' = alive \ {u} /\ manager' = manager \ {u}
    BY <1>3 DEF DeleteUser
  <2>2. TokensTyped'
    BY <1>3, <2>1, TypedParts DEF DeleteUser, TokensTyped, TokensOf
  <2>3. LinksTyped'
    BY <1>3, <2>1, TypedParts DEF DeleteUser, LinksTyped
  <2>4. VisitsTyped'
    <3>1. \A v \in Visits : visit[v].at = "write" => visit[v].user # u
      BY <2>1, TypedParts DEF VisitsTyped, Locks, Unlocked, Parameters
    <3> QED BY <2>1, <3>1, TypedParts DEF VisitsTyped, Locks
  <2> QED BY <2>1, <2>2, <2>3, <2>4, TypedParts, TypedPartsNext DEF AccountsTyped, RequestsTyped
<1> QED BY <1>1, <1>2, <1>3


\* A visit that ends lets go of its row and no other's.
LEMMA TypedClose ==
  ASSUME Typed, NEW v \in Visits, Closed(v), alive' = alive, handed' \in [Links -> Nat]
  PROVE  VisitsTyped'
<1>1. /\ visit \in [Visits -> VisitRecord] /\ holder \in [Users -> Visits \cup {NULL}]
      /\ visit' = [visit EXCEPT ![v] = Idle]
      /\ holder' = [u \in Users |-> IF holder[u] = v THEN NULL ELSE holder[u]]
  BY TypedParts DEF VisitsTyped, Locks, Closed
<1>2. Idle \in VisitRecord /\ Idle.at = "idle"
  BY DEF Idle, VisitRecord
<1>3. \A w \in Visits \ {v} : visit'[w] = visit[w]
  BY <1>1
<1>4. ASSUME NEW w \in Visits, visit'[w].at = "write"
      PROVE  visit'[w].user \in alive' /\ holder'[visit'[w].user] = w
  <2>1. w # v
    BY <1>1, <1>2, <1>4
  <2>2. visit[w].user \in alive /\ holder[visit[w].user] = w /\ visit[w].user \in Users
    BY <1>3, <1>4, <2>1, TypedParts DEF VisitsTyped, Locks
  <2> QED BY <1>1, <1>3, <2>1, <2>2
<1>5. \A w \in Visits : visit'[w].at # "idle" => visit'[w].user \in Users
  BY <1>1, <1>2, <1>3, TypedParts DEF VisitsTyped, Locks
<1>6. visit' \in [Visits -> VisitRecord] /\ holder' \in [Users -> Visits \cup {NULL}]
  BY <1>1, <1>2
<1> QED BY <1>4, <1>5, <1>6 DEF VisitsTyped, Locks

LEMMA TypedTake ==
  ASSUME Typed, NEW v \in Visits, NEW n \in Links, TakeLink(v, n)
  PROVE  Typed'
<1>1. /\ UNCHANGED <<now, alive, manager, taken, made, token, request, holder, handed>>
      /\ link[n] # NULL
      /\ link' = [link EXCEPT ![n].taker = v]
      /\ visit' = [visit EXCEPT ![v] = [Idle EXCEPT !.at = "lock", !.link = n, !.user = link[n].owner]]
  BY DEF TakeLink, Valid
<1>2. /\ link \in [Links -> LinkRecord \cup {NULL}] /\ link[n] \in LinkRecord
      /\ visit \in [Visits -> VisitRecord]
  BY <1>1, TypedParts DEF LinksTyped, VisitsTyped, Locks
<1>3. LinksTyped'
  <2>1. link' = [link EXCEPT ![n] = [link[n] EXCEPT !.taker = v]]
    BY <1>1, <1>2
  <2>2. [link[n] EXCEPT !.taker = v] \in LinkRecord /\ [link[n] EXCEPT !.taker = v].owner = link[n].owner
    BY <1>2 DEF LinkRecord
  <2> QED BY <1>1, <1>2, <2>1, <2>2, TypedParts DEF LinksTyped
<1>4. VisitsTyped'
  <2> DEFINE begun == [Idle EXCEPT !.at = "lock", !.link = n, !.user = link[n].owner]
  <2>1. begun \in VisitRecord /\ begun.at = "lock" /\ begun.user \in Users
    BY <1>2 DEF Idle, VisitRecord, LinkRecord
  <2> HIDE DEF begun
  <2>2. visit' = [visit EXCEPT ![v] = begun]
    BY <1>1 DEF begun
  <2>3. /\ visit' \in [Visits -> VisitRecord] /\ visit'[v] = begun
        /\ \A w \in Visits \ {v} : visit'[w] = visit[w]
    BY <1>2, <2>1, <2>2
  <2> QED BY <1>1, <2>1, <2>3, TypedParts DEF VisitsTyped, Locks
<1> QED BY <1>1, <1>3, <1>4, TypedParts, TypedPartsNext
        DEF TokensTyped, AccountsTyped, RequestsTyped

LEMMA LockSteps ==
  ASSUME Typed, NEW v \in Visits, LockUser(v)
  PROVE  LET u == visit[v].user
         IN /\ UNCHANGED <<now, tables, request, handed>>
            /\ u \in alive /\ u \in Users /\ holder[u] = NULL /\ visit[v].at = "lock"
            /\ holder' = [holder EXCEPT ![u] = v]
            /\ visit'[v].at = "write" /\ visit'[v].user = u /\ visit'[v].link = visit[v].link
            /\ visit'[v].reused =
                 {k \in TokensOf(u) : token[k].named /\ token[k].madeFor # NULL /\ Unexpired(k)}
            /\ visit' \in [Visits -> VisitRecord]
            /\ \A w \in Visits \ {v} : visit'[w] = visit[w]
<1> DEFINE u == visit[v].user
           reused == {k \in TokensOf(u) : token[k].named /\ token[k].madeFor # NULL /\ Unexpired(k)}
<1>1. /\ visit[v].at = "lock" /\ holder[u] = NULL /\ u \in alive
      /\ holder' = [holder EXCEPT ![u] = v]
      /\ visit' = [visit EXCEPT ![v].at = "write", ![v].reused = reused]
      /\ UNCHANGED <<now, tables, request, handed>>
  BY DEF LockUser, RowIsFree, Unlocked
<1>2. visit \in [Visits -> VisitRecord] /\ visit[v] \in VisitRecord /\ u \in Users
  BY <1>1, TypedParts DEF VisitsTyped, Locks
<1>3. reused \in SUBSET TokenIds
  BY DEF TokensOf
<1> HIDE DEF reused
<1>4. visit' = [visit EXCEPT ![v] = [visit[v] EXCEPT !.at = "write", !.reused = reused]]
  BY <1>1, <1>2
<1>5. [visit[v] EXCEPT !.at = "write", !.reused = reused] \in VisitRecord
  BY <1>2, <1>3 DEF VisitRecord
<1>6. /\ visit' \in [Visits -> VisitRecord]
      /\ visit'[v].at = "write" /\ visit'[v].user = u /\ visit'[v].link = visit[v].link
      /\ visit'[v].reused = reused
      /\ \A w \in Visits \ {v} : visit'[w] = visit[w]
  BY <1>2, <1>4, <1>5 DEF VisitRecord
<1> QED BY <1>1, <1>2, <1>6 DEF reused

LEMMA TypedLock ==
  ASSUME Typed, NEW v \in Visits, LockUser(v)
  PROVE  Typed'
<1> DEFINE u == visit[v].user
<1>1. /\ UNCHANGED <<now, tables, request, handed>>
      /\ u \in alive /\ u \in Users /\ holder[u] = NULL
      /\ holder' = [holder EXCEPT ![u] = v]
      /\ visit'[v].at = "write" /\ visit'[v].user = u
      /\ visit' \in [Visits -> VisitRecord]
      /\ \A w \in Visits \ {v} : visit'[w] = visit[w]
  BY LockSteps
<1>2. holder \in [Users -> Visits \cup {NULL}] /\ alive' = alive
  BY <1>1, TypedParts DEF VisitsTyped, tables
<1>3. ASSUME NEW w \in Visits, visit'[w].at = "write"
      PROVE  visit'[w].user \in alive' /\ holder'[visit'[w].user] = w
  <2>1. CASE w = v
    BY <1>1, <1>2, <2>1
  <2>2. CASE w # v
    <3>1. visit[w].user \in alive /\ holder[visit[w].user] = w /\ visit[w].user \in Users
      BY <1>1, <1>3, <2>2, TypedParts DEF VisitsTyped, Locks
    <3>2. visit[w].user # u
      BY <1>1, <3>1, TypedParts DEF Parameters
    <3> QED BY <1>1, <1>2, <2>2, <3>1, <3>2
  <2> QED BY <2>1, <2>2
<1>4. \A w \in Visits : visit'[w].at # "idle" => visit'[w].user \in Users
  BY <1>1, TypedParts DEF VisitsTyped, Locks
<1>5. VisitsTyped'
  BY <1>1, <1>2, <1>3, <1>4, TypedParts DEF VisitsTyped, Locks
<1> QED BY <1>1, <1>5, TypedParts, TypedPartsNext
        DEF tables, TokensTyped, LinksTyped, AccountsTyped, RequestsTyped


\* A token set back by a map app.
SetBack(t) == [t EXCEPT !.scopes = TokenScopes, !.granted = NULL]

LEMMA WriteSteps ==
  ASSUME Typed, NEW v \in Visits, WriteToken(v)
  PROVE  LET u == visit[v].user
         IN /\ visit[v].at = "write" /\ u \in alive /\ u \in Users /\ holder[u] = v
            /\ \/ /\ visit[v].reused # {} /\ made' = made
                  /\ \E k \in TokenIds :
                       \/ token' = token
                       \/ token[k] # NULL /\ token' = [token EXCEPT ![k] = SetBack(token[k])]
               \/ /\ visit[v].reused = {} /\ made < MaxTokens /\ made' = made + 1
                  /\ token' = [token EXCEPT ![made + 1] = Token(u, TokenScopes, NULL, TRUE, u)]
            /\ link' = Consumed(v) /\ Closed(v)
            /\ handed' = [n \in Links |-> IF n = visit[v].link THEN handed[n] + 1 ELSE handed[n]]
            /\ UNCHANGED <<now, alive, manager, taken, request>>
<1> DEFINE u == visit[v].user
<1>1. /\ visit[v].at = "write" /\ u \in alive /\ u \in Users /\ holder[u] = v
      /\ visit[v].reused \subseteq TokenIds /\ token \in [TokenIds -> TokenRecord \cup {NULL}]
  BY TypedParts DEF WriteToken, VisitsTyped, Locks, VisitRecord, AccountsTyped, TokensTyped
<1>2. CASE visit[v].reused # {}
  <2>1. PICK k \in visit[v].reused :
          token' = [token EXCEPT ![k] = IF token[k] = NULL THEN token[k] ELSE SetBack(token[k])]
    BY <1>2 DEF WriteToken, SetBack
  <2>2. token[k] = NULL => token' = token
    BY <1>1, <2>1
  <2>3. token[k] # NULL => token' = [token EXCEPT ![k] = SetBack(token[k])]
    BY <2>1
  <2> QED BY <1>1, <1>2, <2>1, <2>2, <2>3 DEF WriteToken
<1>3. CASE visit[v].reused = {}
  BY <1>1, <1>3 DEF WriteToken
<1> QED BY <1>2, <1>3

LEMMA TypedWrite ==
  ASSUME Typed, NEW v \in Visits, WriteToken(v)
  PROVE  Typed'
<1> DEFINE u == visit[v].user
<1>1. /\ u \in alive /\ u \in Users /\ Closed(v) /\ link' = Consumed(v)
      /\ handed' = [n \in Links |-> IF n = visit[v].link THEN handed[n] + 1 ELSE handed[n]]
      /\ UNCHANGED <<now, alive, manager, taken, request>>
  BY WriteSteps
<1>2. Parameters /\ now' \in Nat /\ AccountsTyped' /\ RequestsTyped'
  BY <1>1, TypedParts DEF AccountsTyped, RequestsTyped
<1>3. LinksTyped'
  BY <1>1, TypedParts DEF LinksTyped, Consumed
<1>4. VisitsTyped'
  <2>1. handed' \in [Links -> Nat]
    BY <1>1, TypedParts DEF VisitsTyped
  <2> QED BY <1>1, <2>1, TypedClose
<1>5. TokensTyped'
  <2>0. TokensTyped
    BY TypedParts
  <2>1. CASE made' = made /\ token' = token
    BY <1>1, <2>0, <2>1 DEF TokensTyped
  <2>2. ASSUME made' = made, NEW k \in TokenIds, token[k] # NULL,
               token' = [token EXCEPT ![k] = SetBack(token[k])]
        PROVE  TokensTyped'
    <3>1. token[k] \in TokenRecord
      BY <2>0, <2>2 DEF TokensTyped
    <3>2. SetBack(token[k]) \in TokenRecord /\ SetBack(token[k]).owner = token[k].owner
      BY <3>1 DEF SetBack, TokenRecord, TokenScopes, Scopes
    <3> QED BY <1>1, <2>0, <2>2, <3>1, <3>2 DEF TokensTyped
  <2>3. CASE /\ made < MaxTokens /\ made' = made + 1
             /\ token' = [token EXCEPT ![made + 1] = Token(u, TokenScopes, NULL, TRUE, u)]
    <3>1. /\ Token(u, TokenScopes, NULL, TRUE, u) \in TokenRecord
          /\ Token(u, TokenScopes, NULL, TRUE, u).owner = u
      BY <1>1, TokensAreRecords DEF Token, TokenScopes, Scopes
    <3> QED BY <1>1, <1>2, <2>0, <2>3, <3>1, TokenMade
  <2> QED BY <2>1, <2>2, <2>3, WriteSteps
<1> QED BY <1>2, <1>3, <1>4, <1>5, TypedPartsNext

LEMMA TypedRollBack ==
  ASSUME Typed, NEW v \in Visits, RollBack(v)
  PROVE  Typed'
<1>1. /\ UNCHANGED <<now, alive, manager, taken, made, token, request, handed>> /\ Closed(v)
      /\ link' = IF visit[v].link = NULL \/ link[visit[v].link] = NULL THEN link
                 ELSE [link EXCEPT ![visit[v].link].taker = NULL]
  BY DEF RollBack
<1>2. VisitsTyped'
  BY <1>1, TypedClose, TypedParts DEF VisitsTyped
<1>3. LinksTyped'
  <2>1. CASE link' = link
    BY <1>1, <2>1, TypedParts DEF LinksTyped
  <2>2. CASE link' # link
    <3> DEFINE n == visit[v].link
    <3>1. n \in Links /\ link[n] # NULL /\ link \in [Links -> LinkRecord \cup {NULL}]
      BY <1>1, <2>2, TypedParts DEF VisitsTyped, Locks, VisitRecord, LinksTyped
    <3>2. link[n] \in LinkRecord /\ link' = [link EXCEPT ![n] = [link[n] EXCEPT !.taker = NULL]]
      BY <1>1, <2>2, <3>1
    <3>3. /\ [link[n] EXCEPT !.taker = NULL] \in LinkRecord
          /\ [link[n] EXCEPT !.taker = NULL].owner = link[n].owner
      BY <3>2 DEF LinkRecord
    <3> QED BY <1>1, <3>1, <3>2, <3>3, TypedParts DEF LinksTyped
  <2> QED BY <2>1, <2>2
<1> QED BY <1>1, <1>2, <1>3, TypedParts, TypedPartsNext
        DEF TokensTyped, AccountsTyped, RequestsTyped

LEMMA TypedNext == Typed /\ [TokensNext]_tokenVars => Typed'
<1> SUFFICES ASSUME Typed, [TokensNext]_tokenVars PROVE Typed'
  OBVIOUS
<1>1. CASE UNCHANGED tokenVars
  BY <1>1 DEF tokenVars, tables, Typed, TokensTypeOK, Locks, Parameters
<1>2. CASE Tick \/ CleanUp \/ \E u \in Users : DeleteUser(u)
  BY <1>2, TypedOther
<1>3. ASSUME NEW r \in Requests,
             \/ \E u \in Users, k \in TokenIds \cup {NULL} : AuthenticateWith(r, u, k)
             \/ NoSuchToken(r)
             \/ \E n \in Links : Install(r, n)
             \/ \E v \in Visits : AskOrux(r, v)
             \/ \E u \in Users, grant \in BOOLEAN : AdminPatchUser(r, u, grant)
             \/ \E t, s \in Users : MergeUsers(r, t, s)
             \/ \E s \in {{"users"}, {"other"}}, e \in ValidExpirations : PostToken(r, s, e, FALSE)
             \/ \E k \in TokenIds : DeleteToken(r, k)
             \/ \E k \in TokenIds, s \in EditedScopes, e \in 0..(MaxTime + 1) \cup {NULL},
                   isNamed \in BOOLEAN : PatchToken(r, k, s, e, isNamed)
      PROVE  Typed'
  <2>0. /\ EditedScopes \subseteq SUBSET Scopes
        /\ {{"users"}, {"other"}} \subseteq EditedScopes
        /\ ValidExpirations \subseteq Nat \cup {NULL}
        /\ 0..(MaxTime + 1) \cup {NULL} \subseteq Nat \cup {NULL}
        /\ FALSE \in BOOLEAN
    BY ExpirationsAreTimes, TypedParts DEF Scopes, EditedScopes, TokenScopes, Parameters
  <2>1. CASE \/ \E u \in Users, k \in TokenIds \cup {NULL} : AuthenticateWith(r, u, k)
             \/ NoSuchToken(r)
             \/ \E n \in Links : Install(r, n)
             \/ \E v \in Visits : AskOrux(r, v)
    BY <2>1, TypedRequests
  <2>2. CASE \E u \in Users, grant \in BOOLEAN : AdminPatchUser(r, u, grant)
    BY <2>2, TypedAdminPatch
  <2>3. CASE \E t, s \in Users : MergeUsers(r, t, s)
    BY <2>3, TypedMerge
  <2>4. CASE \E s \in {{"users"}, {"other"}}, e \in ValidExpirations : PostToken(r, s, e, FALSE)
    BY <2>0, <2>4, TypedPost
  <2>5. CASE \E k \in TokenIds : DeleteToken(r, k)
    BY <2>5, TypedDelete
  <2>6. CASE \E k \in TokenIds, s \in EditedScopes, e \in 0..(MaxTime + 1) \cup {NULL},
               isNamed \in BOOLEAN : PatchToken(r, k, s, e, isNamed)
    BY <2>0, <2>6, TypedPatch
  <2> QED BY <1>3, <2>1, <2>2, <2>3, <2>4, <2>5, <2>6
<1>4. ASSUME NEW v \in Visits,
             (\E n \in Links : TakeLink(v, n)) \/ LockUser(v) \/ WriteToken(v) \/ RollBack(v)
      PROVE  Typed'
  BY <1>4, TypedTake, TypedLock, TypedWrite, TypedRollBack
<1> QED BY <1>1, <1>2, <1>3, <1>4 DEF TokensNext

\* Every table keeps its types, every token and link its owner, and a visit that
\* writes holds the row of an account that exists.
THEOREM TypeCorrect == TokensSpec => []TokensTypeOK
<1>0. Parameters
  BY ParametersAssumption
<1>1. TokensInit => Typed
  BY <1>0, TypedInitially
<1>2. Typed => TokensTypeOK
  BY DEF Typed
<1> QED BY <1>0, <1>1, <1>2, TypedNext, PTL DEF TokensSpec


-------------------------------------------------------------------------------
(* Tokens with a role scope *)

NeedsRole(t) == t.scopes \cap RoleScopes # {}

\* A role scope comes with a short life and the owner's grant, or stays as it was.
LEMMA RoleTokensChange ==
  ASSUME Typed, [TokensNext]_tokenVars, NEW k \in TokenIds, token'[k] # NULL, NeedsRole(token'[k])
  PROVE  \/ /\ token'[k] = token[k]
            /\ taken'[token[k].owner] = taken[token[k].owner]
         \/ /\ ~TooLong(token'[k].expires, token'[k].created)
            /\ token'[k].granted = [by |-> token'[k].owner, taken |-> taken'[token'[k].owner]]
<1> DEFINE Stays == token'[k] = token[k] /\ taken'[token[k].owner] = taken[token[k].owner]
           Given == /\ ~TooLong(token'[k].expires, token'[k].created)
                    /\ token'[k].granted = [by |-> token'[k].owner, taken |-> taken'[token'[k].owner]]
<1>0. /\ token \in [TokenIds -> TokenRecord \cup {NULL}] /\ taken \in [Users -> Nat]
      /\ \A j \in TokenIds : token[j] # NULL => token[j] \in TokenRecord
  BY TypedParts DEF TokensTyped, AccountsTyped
<1>1. ASSUME UNCHANGED <<token, taken>> PROVE Stays
  BY <1>1
<1>2. ASSUME UNCHANGED tokenVars \/ Tick PROVE Stays
  BY <1>1, <1>2 DEF tokenVars, tables, Tick
<1>3. ASSUME CleanUp \/ \E u \in Users : DeleteUser(u) PROVE Stays
  BY <1>0, <1>3 DEF CleanUp, DeleteUser
<1>4. ASSUME NEW r \in Requests, NEW s, NEW e, NEW isNamed, PostToken(r, s, e, isNamed)
      PROVE  Stays \/ Given
  <2>1. CASE token' = token
    BY <1>4, <2>1 DEF PostToken
  <2>2. CASE token' # token
    <3>1. /\ token' = [token EXCEPT ![made + 1] = Token(request[r].user, s, e, isNamed, NULL)]
          /\ ~Refusal(r, s, e, now) /\ taken' = taken
      BY <1>4, <2>2 DEF PostToken
    <3>2. CASE k = made + 1
      <4>1. token'[k] = Token(request[r].user, s, e, isNamed, NULL)
        BY <1>0, <3>1, <3>2
      <4>2. /\ token'[k].expires = e /\ token'[k].created = now /\ token'[k].scopes = s
            /\ token'[k].owner = request[r].user
            /\ token'[k].granted = Granted(request[r].user, s)
        BY <4>1 DEF Token
      <4> QED BY <3>1, <4>2 DEF NeedsRole, Refusal, Granted
    <3>3. CASE k # made + 1
      BY <1>0, <3>1, <3>3
    <3> QED BY <3>2, <3>3
  <2> QED BY <2>1, <2>2
<1>5. ASSUME NEW r \in Requests, NEW j \in TokenIds, NEW s, NEW e, NEW isNamed,
             PatchToken(r, j, s, e, isNamed)
      PROVE  Stays \/ Given
  <2>1. CASE token' = token
    BY <1>5, <2>1 DEF PatchToken
  <2>2. CASE token' # token
    <3> DEFINE patched == [token[j] EXCEPT !.scopes = s, !.expires = e, !.named = isNamed,
                             !.edited = token[j].edited \/ token[j].madeFor # NULL,
                             !.granted = Granted(request[r].user, s)]
    <3>1. /\ token' = [token EXCEPT ![j] = patched]
          /\ ~Refusal(r, s, e, token[j].created) /\ taken' = taken
          /\ token[j].owner = request[r].user /\ token[j] # NULL
      BY <1>5, <2>2 DEF PatchToken, TokensOf
    <3>2. CASE k = j
      <4>1. token'[k] = patched /\ token[j] \in TokenRecord
        BY <1>0, <3>1, <3>2
      <4>2. /\ token'[k].expires = e /\ token'[k].created = token[j].created
            /\ token'[k].scopes = s /\ token'[k].owner = request[r].user
            /\ token'[k].granted = Granted(request[r].user, s)
        <5>1. (token[j].edited \/ token[j].madeFor # NULL) \in BOOLEAN
          BY <4>1 DEF TokenRecord
        <5>2. /\ patched.expires = e /\ patched.created = token[j].created
              /\ patched.scopes = s /\ patched.owner = token[j].owner
              /\ patched.granted = Granted(request[r].user, s)
          BY <4>1, <5>1 DEF TokenRecord
        <5> HIDE DEF patched
        <5> QED BY <3>1, <4>1, <5>2
      <4> HIDE DEF patched
      <4> QED BY <3>1, <4>2 DEF NeedsRole, Refusal, Granted
    <3>3. CASE k # j
      BY <1>0, <3>1, <3>3
    <3> QED BY <3>2, <3>3
  <2> QED BY <2>1, <2>2
<1>6. ASSUME NEW r \in Requests, NEW u \in Users, NEW grant, AdminPatchUser(r, u, grant)
      PROVE  Stays
  <2>1. CASE UNCHANGED <<taken, token>>
    BY <2>1
  <2>2. CASE taken' = [taken EXCEPT ![u] = @ + 1] /\ token' = WithoutRoleTokens(u)
    <3>1. token'[k] = token[k] /\ k \notin TokensOf(u)
      BY <2>2 DEF WithoutRoleTokens, NeedsRole
    <3>2. token[k].owner # u
      BY <3>1 DEF TokensOf
    <3> QED BY <1>0, <2>2, <3>1, <3>2
  <2> QED BY <1>6, <2>1, <2>2 DEF AdminPatchUser
<1>7. ASSUME NEW r \in Requests, NEW t \in Users, NEW s \in Users, MergeUsers(r, t, s)
      PROVE  Stays
  <2> DEFINE kept == WithoutRoleTokens(s)
  <2>1. token' = Repointed(kept, s, t) /\ taken' = taken
    BY <1>7 DEF MergeUsers, MovedTokens
  <2>2. token'[k] = IF kept[k] # NULL /\ kept[k].owner = s
                    THEN [kept[k] EXCEPT !.owner = t] ELSE kept[k]
    BY <2>1 DEF Repointed, WithoutRoleTokens
  <2>3. kept[k] # NULL
    BY <2>2
  <2>4. kept[k] = token[k] /\ (k \notin TokensOf(s) \/ ~NeedsRole(token[k]))
    BY <2>3 DEF WithoutRoleTokens, NeedsRole
  <2>5. CASE token[k].owner = s
    <3>1. ~NeedsRole(token[k])
      BY <2>3, <2>4, <2>5 DEF TokensOf
    <3>2. token'[k] = [token[k] EXCEPT !.owner = t] /\ token[k] \in TokenRecord
      BY <1>0, <2>2, <2>3, <2>4, <2>5
    <3>3. token'[k].scopes = token[k].scopes
      BY <3>2 DEF TokenRecord
    <3> QED BY <3>1, <3>3 DEF NeedsRole
  <2>6. CASE token[k].owner # s
    BY <2>1, <2>2, <2>4, <2>6
  <2> QED BY <2>5, <2>6
<1>8. ASSUME NEW v \in Visits, WriteToken(v)
      PROVE  Stays
  <2>1. taken' = taken
    BY <1>8, WriteSteps
  <2>2. ASSUME NEW j \in TokenIds, token[j] # NULL, token' = [token EXCEPT ![j] = SetBack(token[j])]
        PROVE  Stays
    <3>1. CASE k = j
      <4>1. token'[k] = SetBack(token[j]) /\ token[j] \in TokenRecord
        BY <1>0, <2>2, <3>1
      <4>2. token'[k].scopes = TokenScopes
        BY <4>1 DEF SetBack, TokenRecord
      <4> QED BY <4>2 DEF NeedsRole, TokenScopes, RoleScopes
    <3>2. CASE k # j
      BY <1>0, <2>1, <2>2, <3>2
    <3> QED BY <3>1, <3>2
  <2>3. ASSUME token' = [token EXCEPT ![made + 1] = Token(visit[v].user, TokenScopes, NULL, TRUE, visit[v].user)]
        PROVE  Stays
    <3>1. CASE k = made + 1
      <4>1. token'[k].scopes = TokenScopes
        BY <1>0, <2>3, <3>1 DEF Token
      <4> QED BY <4>1 DEF NeedsRole, TokenScopes, RoleScopes
    <3>2. CASE k # made + 1
      BY <1>0, <2>1, <2>3, <3>2
    <3> QED BY <3>1, <3>2
  <2>4. CASE token' = token
    BY <2>1, <2>4
  <2> QED BY <1>8, <2>2, <2>3, <2>4, WriteSteps
<1>9. ASSUME NEW r \in Requests,
             \/ \E u \in Users, j \in TokenIds \cup {NULL} : AuthenticateWith(r, u, j)
             \/ NoSuchToken(r) \/ (\E n \in Links : Install(r, n))
             \/ \E v \in Visits : AskOrux(r, v)
      PROVE  Stays
  BY <1>9 DEF AuthenticateWith, NoSuchToken, Install, AskOrux, tables
<1>10. ASSUME NEW v \in Visits, (\E n \in Links : TakeLink(v, n)) \/ LockUser(v) \/ RollBack(v)
       PROVE  Stays
  BY <1>10 DEF TakeLink, LockUser, RollBack, tables
<1>11. ASSUME NEW r \in Requests, \E j \in TokenIds : DeleteToken(r, j)
       PROVE  Stays
  BY <1>0, <1>11 DEF DeleteToken
<1> HIDE DEF Stays, Given
<1>12. ASSUME \E r \in Requests :
             \/ \E u \in Users, j \in TokenIds \cup {NULL} : AuthenticateWith(r, u, j)
             \/ \E s \in {{"users"}, {"other"}}, e \in ValidExpirations : PostToken(r, s, e, FALSE)
             \/ \E j \in TokenIds : DeleteToken(r, j)
             \/ \E j \in TokenIds, s \in EditedScopes, e \in 0..(MaxTime + 1) \cup {NULL},
                   isNamed \in BOOLEAN : PatchToken(r, j, s, e, isNamed)
             \/ NoSuchToken(r)
             \/ \E u \in Users, grant \in BOOLEAN : AdminPatchUser(r, u, grant)
             \/ \E t, s \in Users : MergeUsers(r, t, s)
             \/ \E n \in Links : Install(r, n)
             \/ \E v \in Visits : AskOrux(r, v)
       PROVE  Stays \/ Given
  BY <1>4, <1>5, <1>6, <1>7, <1>9, <1>11, <1>12
<1>13. ASSUME \E v \in Visits :
             (\E n \in Links : TakeLink(v, n)) \/ LockUser(v) \/ WriteToken(v) \/ RollBack(v)
       PROVE  Stays \/ Given
  BY <1>8, <1>10, <1>13
<1>14. Stays \/ Given
  BY <1>2, <1>3, <1>12, <1>13 DEF TokensNext
<1> QED BY <1>14 DEF Stays, Given


LEMMA RoleTokensNext ==
  ASSUME Typed, RoleTokensAreShortLived, RoleTokensStay, [TokensNext]_tokenVars
  PROVE  RoleTokensAreShortLived' /\ RoleTokensStay'
<1>1. SUFFICES ASSUME NEW k \in TokenIds, token'[k] # NULL, NeedsRole(token'[k])
               PROVE  /\ ~TooLong(token'[k].expires, token'[k].created)
                      /\ token'[k].granted =
                           [by |-> token'[k].owner, taken |-> taken'[token'[k].owner]]
  BY DEF RoleTokensAreShortLived, RoleTokensStay, NeedsRole, TooLong
<1>2. CASE token'[k] = token[k] /\ taken'[token[k].owner] = taken[token[k].owner]
  BY <1>1, <1>2 DEF RoleTokensAreShortLived, RoleTokensStay, NeedsRole
<1> QED BY <1>1, <1>2, RoleTokensChange

LEMMA RoleTokensInitially == TokensInit => RoleTokensAreShortLived /\ RoleTokensStay
BY DEF TokensInit, RoleTokensAreShortLived, RoleTokensStay

\* While a token has a role scope it ends within MaxLife of its creation, whatever
\* edits, merges and resets it went through.
THEOREM RoleTokensLiveBriefly == TokensSpec => []RoleTokensAreShortLived
<1>0. Parameters
  BY ParametersAssumption
<1>1. TokensInit => Typed
  BY <1>0, TypedInitially
<1> QED BY <1>0, <1>1, TypedNext, RoleTokensInitially, RoleTokensNext, PTL DEF TokensSpec

\* A token with a role scope is on the account that gave it the scope, and was
\* written after the role was last taken from it, whoever takes and grants roles,
\* merges accounts or edits tokens meanwhile.
THEOREM RoleTokensStayPut == TokensSpec => []RoleTokensStay
<1>0. Parameters
  BY ParametersAssumption
<1>1. TokensInit => Typed
  BY <1>0, TypedInitially
<1> QED BY <1>0, <1>1, TypedNext, RoleTokensInitially, RoleTokensNext, PTL DEF TokensSpec


-------------------------------------------------------------------------------
(* Tokens of map apps, and their links *)

Untouched(k, u) == token[k] # NULL /\ token[k].madeFor = u /\ ~token[k].edited

\* A derived token nobody edited is found by the next map app of its account, and
\* one that is about to be made will be the only one.
Derived ==
  /\ \A k \in TokenIds, u \in Users : Untouched(k, u) =>
       /\ token[k].named /\ token[k].expires = NULL
       /\ u \in alive => token[k].owner = u
  /\ \A v \in Visits : visit[v].at = "write" /\ visit[v].reused = {} =>
       \A k \in TokenIds : ~Untouched(k, visit[v].user)

\* A link is with at most one visit, which has not used it yet.
LinksHeld ==
  /\ \A v, w \in Visits : visit[v].link # NULL /\ visit[v].link = visit[w].link => v = w
  /\ \A v \in Visits, n \in Links : visit[v].link = n =>
       handed[n] = 0 /\ (link[n] = NULL \/ link[n].taker = v)
  /\ \A n \in Links : link[n] # NULL => handed[n] = 0


LEMMA LinksHeldNext ==
  ASSUME Typed, LinksHeld, LinksWorkOnce, [TokensNext]_tokenVars
  PROVE  LinksHeld' /\ LinksWorkOnce'
<1>0. /\ link \in [Links -> LinkRecord \cup {NULL}] /\ handed \in [Links -> Nat]
      /\ visit \in [Visits -> VisitRecord]
      /\ NULL \notin Visits /\ NULL \notin Links
  BY TypedParts DEF LinksTyped, VisitsTyped, Locks, Parameters
<1>1. ASSUME visit' = visit, handed' = handed,
             \A n \in Links : link'[n] = NULL \/ (link[n] # NULL /\ link'[n].taker = link[n].taker)
      PROVE  LinksHeld' /\ LinksWorkOnce'
  BY <1>1 DEF LinksHeld, LinksWorkOnce
<1>2. ASSUME UNCHANGED <<link, visit, handed>>
      PROVE  LinksHeld' /\ LinksWorkOnce'
  BY <1>1, <1>2
<1>3. ASSUME UNCHANGED tokenVars \/ Tick
      PROVE  LinksHeld' /\ LinksWorkOnce'
  BY <1>2, <1>3 DEF tokenVars, tables, Tick
<1>4. ASSUME CleanUp \/ \E u \in Users : DeleteUser(u)
      PROVE  LinksHeld' /\ LinksWorkOnce'
  BY <1>0, <1>1, <1>4 DEF CleanUp, DeleteUser
<1>5. ASSUME NEW r \in Requests,
             \/ \E u \in Users, j \in TokenIds \cup {NULL} : AuthenticateWith(r, u, j)
             \/ \E s \in {{"users"}, {"other"}}, e \in ValidExpirations : PostToken(r, s, e, FALSE)
             \/ \E j \in TokenIds : DeleteToken(r, j)
             \/ \E j \in TokenIds, s \in EditedScopes, e \in 0..(MaxTime + 1) \cup {NULL},
                   isNamed \in BOOLEAN : PatchToken(r, j, s, e, isNamed)
             \/ NoSuchToken(r)
             \/ \E u \in Users, grant \in BOOLEAN : AdminPatchUser(r, u, grant)
      PROVE  LinksHeld' /\ LinksWorkOnce'
  <2>1. UNCHANGED <<link, visit, handed>>
    BY <1>5 DEF AuthenticateWith, PostToken, DeleteToken, PatchToken, NoSuchToken, AdminPatchUser, tables
  <2> QED BY <1>2, <2>1
<1>6. ASSUME NEW r \in Requests, NEW t \in Users, NEW s \in Users, MergeUsers(r, t, s)
      PROVE  LinksHeld' /\ LinksWorkOnce'
  <2>1. link' = Repointed(link, s, t) /\ visit' = visit /\ handed' = handed
    BY <1>6 DEF MergeUsers
  <2>2. ASSUME NEW n \in Links, link'[n] # NULL
        PROVE  link[n] # NULL /\ link'[n].taker = link[n].taker
    <3>1. link'[n] = IF link[n] # NULL /\ link[n].owner = s
                     THEN [link[n] EXCEPT !.owner = t] ELSE link[n]
      BY <1>0, <2>1 DEF Repointed
    <3>2. link[n] # NULL /\ link[n] \in LinkRecord
      BY <1>0, <2>2, <3>1
    <3> QED BY <3>1, <3>2 DEF LinkRecord
  <2> QED BY <1>1, <2>1, <2>2
<1>7. ASSUME NEW r \in Requests, NEW n \in Links, Install(r, n)
      PROVE  LinksHeld' /\ LinksWorkOnce'
  <2>1. /\ visit' = visit /\ handed' = handed /\ handed[n] = 0 /\ \A v \in Visits : visit[v].link # n
        /\ \A m \in Links \ {n} : link'[m] = link[m]
    BY <1>0, <1>7 DEF Install
  <2> QED BY <2>1 DEF LinksHeld, LinksWorkOnce
<1>8. ASSUME NEW r \in Requests, NEW v \in Visits, AskOrux(r, v)
      PROVE  LinksHeld' /\ LinksWorkOnce'
  <2>1. /\ link' = link /\ handed' = handed
        /\ visit' = [visit EXCEPT ![v] = [Idle EXCEPT !.at = "lock", !.user = request[r].user]]
    BY <1>8 DEF AskOrux, tables
  <2>2. visit'[v].link = NULL /\ \A w \in Visits \ {v} : visit'[w] = visit[w]
    BY <1>0, <2>1 DEF Idle
  <2> QED BY <1>0, <2>1, <2>2 DEF LinksHeld, LinksWorkOnce
<1>9. ASSUME NEW v \in Visits, NEW n \in Links, TakeLink(v, n)
      PROVE  LinksHeld' /\ LinksWorkOnce'
  <2>1. /\ link[n] # NULL /\ link[n].taker = NULL /\ handed' = handed
        /\ link' = [link EXCEPT ![n].taker = v]
        /\ visit' = [visit EXCEPT ![v] = [Idle EXCEPT !.at = "lock", !.link = n, !.user = link[n].owner]]
    BY <1>9 DEF TakeLink, Valid
  <2>2. visit'[v].link = n /\ \A w \in Visits \ {v} : visit'[w] = visit[w]
    BY <1>0, <2>1 DEF Idle
  <2>3. link'[n].taker = v /\ \A m \in Links \ {n} : link'[m] = link[m]
    BY <1>0, <2>1 DEF LinkRecord
  <2>4. \A w \in Visits : visit[w].link # n
    BY <1>0, <2>1 DEF LinksHeld
  <2>5. handed[n] = 0
    BY <2>1 DEF LinksHeld
  <2>6. ASSUME NEW w \in Visits, NEW x \in Visits, visit'[w].link # NULL, visit'[w].link = visit'[x].link
        PROVE  w = x
    BY <2>2, <2>4, <2>6 DEF LinksHeld
  <2>7. ASSUME NEW w \in Visits, NEW m \in Links, visit'[w].link = m
        PROVE  handed'[m] = 0 /\ (link'[m] = NULL \/ link'[m].taker = w)
    BY <2>1, <2>2, <2>3, <2>4, <2>5, <2>7 DEF LinksHeld
  <2>8. ASSUME NEW m \in Links, link'[m] # NULL
        PROVE  handed'[m] = 0
    BY <2>1, <2>3, <2>5, <2>8 DEF LinksHeld
  <2> QED BY <2>1, <2>6, <2>7, <2>8 DEF LinksHeld, LinksWorkOnce
<1>10. ASSUME NEW v \in Visits, LockUser(v)
       PROVE  LinksHeld' /\ LinksWorkOnce'
  <2>1. /\ link' = link /\ handed' = handed
        /\ \A w \in Visits : visit'[w].link = visit[w].link
    BY <1>10, LockSteps DEF tables
  <2> QED BY <2>1 DEF LinksHeld, LinksWorkOnce
<1>11. ASSUME NEW v \in Visits, WriteToken(v) \/ RollBack(v)
       PROVE  LinksHeld' /\ LinksWorkOnce'
  <2>0. /\ visit' = [visit EXCEPT ![v] = Idle]
        /\ \/ /\ link' = Consumed(v)
              /\ handed' = [n \in Links |-> IF n = visit[v].link THEN handed[n] + 1 ELSE handed[n]]
           \/ /\ handed' = handed
              /\ link' = IF visit[v].link = NULL \/ link[visit[v].link] = NULL THEN link
                         ELSE [link EXCEPT ![visit[v].link].taker = NULL]
    <3>1. CASE WriteToken(v)
      BY <3>1, WriteSteps DEF Closed
    <3>2. CASE RollBack(v)
      BY <3>2 DEF RollBack, Closed
    <3> QED BY <1>11, <3>1, <3>2
  <2>1. visit'[v].link = NULL /\ \A w \in Visits \ {v} : visit'[w] = visit[w]
    BY <1>0, <2>0 DEF Idle
  <2>2. \A m \in Links : m # visit[v].link => link'[m] = link[m] /\ handed'[m] = handed[m]
    BY <1>0, <2>0 DEF Consumed
  <2>3. \A m \in Links : m = visit[v].link =>
          /\ handed[m] = 0 /\ \A w \in Visits \ {v} : visit[w].link # m
    BY <1>0 DEF LinksHeld
  <2>4. ASSUME NEW m \in Links, m = visit[v].link
        PROVE  handed'[m] <= 1 /\ (handed'[m] = 0 \/ link'[m] = NULL)
    <3>1. handed[m] = 0 /\ m # NULL
      BY <1>0, <2>3, <2>4
    <3>2. CASE link' = Consumed(v) /\ handed'[m] = handed[m] + 1
      BY <1>0, <2>4, <3>1, <3>2 DEF Consumed
    <3>3. CASE handed' = handed
      BY <3>1, <3>3
    <3> QED BY <2>0, <2>4, <3>2, <3>3
  <2>5. \A w, x \in Visits : visit'[w].link # NULL /\ visit'[w].link = visit'[x].link => w = x
    BY <2>1 DEF LinksHeld
  <2>6. ASSUME NEW w \in Visits, NEW m \in Links, visit'[w].link = m
        PROVE  handed'[m] = 0 /\ (link'[m] = NULL \/ link'[m].taker = w)
    <3>1. w # v /\ visit[w].link = m
      BY <1>0, <2>1, <2>6
    <3>2. m # visit[v].link
      BY <2>3, <3>1
    <3> QED BY <2>2, <3>1, <3>2 DEF LinksHeld
  <2>7. \A m \in Links : link'[m] # NULL => handed'[m] = 0
    BY <2>2, <2>4 DEF LinksHeld
  <2>8. LinksWorkOnce'
    BY <2>2, <2>4 DEF LinksWorkOnce
  <2> QED BY <2>5, <2>6, <2>7, <2>8 DEF LinksHeld
<1>12. CASE \E r \in Requests :
             \/ \E u \in Users, j \in TokenIds \cup {NULL} : AuthenticateWith(r, u, j)
             \/ \E s \in {{"users"}, {"other"}}, e \in ValidExpirations : PostToken(r, s, e, FALSE)
             \/ \E j \in TokenIds : DeleteToken(r, j)
             \/ \E j \in TokenIds, s \in EditedScopes, e \in 0..(MaxTime + 1) \cup {NULL},
                   isNamed \in BOOLEAN : PatchToken(r, j, s, e, isNamed)
             \/ NoSuchToken(r)
             \/ \E u \in Users, grant \in BOOLEAN : AdminPatchUser(r, u, grant)
             \/ \E t, s \in Users : MergeUsers(r, t, s)
             \/ \E n \in Links : Install(r, n)
             \/ \E v \in Visits : AskOrux(r, v)
  BY <1>5, <1>6, <1>7, <1>8, <1>12
<1>13. CASE \E v \in Visits :
             (\E n \in Links : TakeLink(v, n)) \/ LockUser(v) \/ WriteToken(v) \/ RollBack(v)
  BY <1>9, <1>10, <1>11, <1>13
<1> QED BY <1>3, <1>4, <1>12, <1>13 DEF TokensNext

\* A token nobody edited is as it was but for its scopes and perhaps its owner.
Kept(k, u) ==
  /\ Untouched(k, u)
  /\ token'[k].named = token[k].named /\ token'[k].expires = token[k].expires
  /\ token'[k].owner = token[k].owner \/ token[k].owner \notin alive'

\* Or a map app has just been given it, there being no other.
JustMade(k, u) ==
  \E v \in Visits :
    /\ WriteToken(v) /\ visit[v].reused = {} /\ visit[v].user = u /\ k = made + 1
    /\ token'[k].named /\ token'[k].expires = NULL /\ token'[k].owner = u

LEMMA UntouchedChange ==
  ASSUME Typed, [TokensNext]_tokenVars, NEW k \in TokenIds, NEW u \in Users, Untouched(k, u)'
  PROVE  Kept(k, u) \/ JustMade(k, u)
<1>0. /\ token \in [TokenIds -> TokenRecord \cup {NULL}] /\ NULL \notin Users
      /\ \A j \in TokenIds : token[j] # NULL => token[j] \in TokenRecord
      /\ token'[k] # NULL /\ token'[k].madeFor = u /\ ~token'[k].edited
  BY TypedParts DEF TokensTyped, Parameters, Untouched
<1>1. ASSUME token'[k] = token[k] PROVE Kept(k, u)
  BY <1>0, <1>1 DEF Kept, Untouched
<1>2. ASSUME UNCHANGED tokenVars \/ Tick PROVE Kept(k, u)
  BY <1>1, <1>2 DEF tokenVars, tables, Tick
<1>3. ASSUME CleanUp \/ \E x \in Users : DeleteUser(x) PROVE Kept(k, u)
  BY <1>0, <1>1, <1>3 DEF CleanUp, DeleteUser
<1>4. ASSUME NEW r \in Requests, NEW s, NEW e, NEW isNamed, PostToken(r, s, e, isNamed)
      PROVE  Kept(k, u)
  <2>1. \/ token' = token
        \/ token' = [token EXCEPT ![made + 1] = Token(request[r].user, s, e, isNamed, NULL)]
    BY <1>4 DEF PostToken
  <2>2. Token(request[r].user, s, e, isNamed, NULL).madeFor = NULL
    BY DEF Token
  <2> QED BY <1>0, <1>1, <2>1, <2>2
<1>5. ASSUME NEW r \in Requests, NEW j \in TokenIds, NEW s, NEW e, NEW isNamed,
             PatchToken(r, j, s, e, isNamed)
      PROVE  Kept(k, u)
  <2> DEFINE patched == [token[j] EXCEPT !.scopes = s, !.expires = e, !.named = isNamed,
                           !.edited = token[j].edited \/ token[j].madeFor # NULL,
                           !.granted = Granted(request[r].user, s)]
  <2>1. token[j] # NULL /\ (token' = token \/ token' = [token EXCEPT ![j] = patched])
    BY <1>5 DEF PatchToken, TokensOf
  <2>2. patched.madeFor = token[j].madeFor /\ patched.edited = (token[j].edited \/ token[j].madeFor # NULL)
    BY <1>0, <2>1 DEF TokenRecord
  <2> HIDE DEF patched
  <2> QED BY <1>0, <1>1, <2>1, <2>2
<1>6. ASSUME NEW r \in Requests, NEW x \in Users, NEW grant, AdminPatchUser(r, x, grant)
      PROVE  Kept(k, u)
  BY <1>0, <1>1, <1>6 DEF AdminPatchUser, WithoutRoleTokens
<1>7. ASSUME NEW r \in Requests, NEW t \in Users, NEW s \in Users, MergeUsers(r, t, s)
      PROVE  Kept(k, u)
  <2> DEFINE kept == WithoutRoleTokens(s)
  <2>1. token' = Repointed(kept, s, t) /\ alive' = alive \ {s}
    BY <1>7 DEF MergeUsers, MovedTokens
  <2>2. token'[k] = IF kept[k] # NULL /\ kept[k].owner = s
                    THEN [kept[k] EXCEPT !.owner = t] ELSE kept[k]
    BY <2>1 DEF Repointed, WithoutRoleTokens
  <2>3. kept[k] # NULL /\ kept[k] = token[k]
    BY <1>0, <2>2 DEF WithoutRoleTokens
  <2>4. CASE token[k].owner = s
    <3>1. token'[k] = [token[k] EXCEPT !.owner = t] /\ token[k] \in TokenRecord
      BY <1>0, <2>2, <2>3, <2>4
    <3>2. /\ token'[k].madeFor = token[k].madeFor /\ token'[k].edited = token[k].edited
          /\ token'[k].named = token[k].named /\ token'[k].expires = token[k].expires
      BY <3>1 DEF TokenRecord
    <3> QED BY <1>0, <2>1, <2>3, <2>4, <3>2 DEF Kept, Untouched
  <2>5. CASE token[k].owner # s
    BY <1>1, <2>2, <2>3, <2>5
  <2> QED BY <2>4, <2>5
<1>8. ASSUME NEW v \in Visits, WriteToken(v)
      PROVE  Kept(k, u) \/ JustMade(k, u)
  <2>1. ASSUME NEW j \in TokenIds, token[j] # NULL, token' = [token EXCEPT ![j] = SetBack(token[j])], k = j
        PROVE  Kept(k, u)
    <3>1. token'[k] = SetBack(token[k]) /\ token[k] \in TokenRecord
      BY <1>0, <2>1
    <3>2. /\ token'[k].madeFor = token[k].madeFor /\ token'[k].edited = token[k].edited
          /\ token'[k].named = token[k].named /\ token'[k].expires = token[k].expires
          /\ token'[k].owner = token[k].owner
      BY <3>1 DEF SetBack, TokenRecord
    <3> QED BY <1>0, <2>1, <3>2 DEF Kept, Untouched
  <2> DEFINE new == Token(visit[v].user, TokenScopes, NULL, TRUE, visit[v].user)
  <2>2. ASSUME visit[v].reused = {}, token' = [token EXCEPT ![made + 1] = new], k = made + 1
        PROVE  JustMade(k, u)
    <3>1. token'[k] = new
      BY <1>0, <2>2
    <3>2. /\ new.madeFor = visit[v].user /\ new.owner = visit[v].user
          /\ new.named = TRUE /\ new.expires = NULL
      BY DEF Token
    <3> HIDE DEF new
    <3> QED BY <1>0, <1>8, <2>2, <3>1, <3>2 DEF JustMade
  <2>3. \/ token'[k] = token[k]
        \/ \E j \in TokenIds : token[j] # NULL /\ token' = [token EXCEPT ![j] = SetBack(token[j])] /\ k = j
        \/ visit[v].reused = {} /\ token' = [token EXCEPT ![made + 1] = new] /\ k = made + 1
    <3> HIDE DEF new
    <3>1. \/ \E j \in TokenIds : token' = token \/ (token[j] # NULL /\ token' = [token EXCEPT ![j] = SetBack(token[j])])
          \/ visit[v].reused = {} /\ token' = [token EXCEPT ![made + 1] = new]
      BY <1>8, WriteSteps DEF new
    <3> QED BY <1>0, <3>1
  <2> QED BY <1>1, <2>1, <2>2, <2>3
<1>9. ASSUME NEW r \in Requests,
             \/ \E x \in Users, j \in TokenIds \cup {NULL} : AuthenticateWith(r, x, j)
             \/ NoSuchToken(r) \/ (\E n \in Links : Install(r, n))
             \/ \E v \in Visits : AskOrux(r, v)
      PROVE  Kept(k, u)
  BY <1>1, <1>9 DEF AuthenticateWith, NoSuchToken, Install, AskOrux, tables
<1>10. ASSUME NEW v \in Visits, (\E n \in Links : TakeLink(v, n)) \/ LockUser(v) \/ RollBack(v)
       PROVE  Kept(k, u)
  BY <1>1, <1>10 DEF TakeLink, LockUser, RollBack, tables
<1>11. ASSUME NEW r \in Requests, \E j \in TokenIds : DeleteToken(r, j)
       PROVE  Kept(k, u)
  BY <1>0, <1>1, <1>11 DEF DeleteToken
<1>12. ASSUME \E r \in Requests :
             \/ \E x \in Users, j \in TokenIds \cup {NULL} : AuthenticateWith(r, x, j)
             \/ \E s \in {{"users"}, {"other"}}, e \in ValidExpirations : PostToken(r, s, e, FALSE)
             \/ \E j \in TokenIds : DeleteToken(r, j)
             \/ \E j \in TokenIds, s \in EditedScopes, e \in 0..(MaxTime + 1) \cup {NULL},
                   isNamed \in BOOLEAN : PatchToken(r, j, s, e, isNamed)
             \/ NoSuchToken(r)
             \/ \E x \in Users, grant \in BOOLEAN : AdminPatchUser(r, x, grant)
             \/ \E t, s \in Users : MergeUsers(r, t, s)
             \/ \E n \in Links : Install(r, n)
             \/ \E v \in Visits : AskOrux(r, v)
       PROVE  Kept(k, u)
  BY <1>4, <1>5, <1>6, <1>7, <1>9, <1>11, <1>12
<1>13. ASSUME \E v \in Visits :
             (\E n \in Links : TakeLink(v, n)) \/ LockUser(v) \/ WriteToken(v) \/ RollBack(v)
       PROVE  Kept(k, u) \/ JustMade(k, u)
  BY <1>8, <1>10, <1>13
<1> QED BY <1>2, <1>3, <1>12, <1>13 DEF TokensNext

\* A visit gets to writing by locking its user's row, and then stays as it is.
LEMMA WritingChange ==
  ASSUME Typed, [TokensNext]_tokenVars, NEW v \in Visits, visit'[v].at = "write"
  PROVE  visit'[v] = visit[v] \/ LockUser(v)
<1>0. visit \in [Visits -> VisitRecord]
  BY TypedParts DEF VisitsTyped, Locks
<1>1. ASSUME UNCHANGED tokenVars \/ Tick \/ CleanUp \/ \E x \in Users : DeleteUser(x)
      PROVE  visit' = visit
  BY <1>1 DEF tokenVars, Tick, CleanUp, DeleteUser
<1>2. ASSUME NEW r \in Requests,
             \/ \E x \in Users, j \in TokenIds \cup {NULL} : AuthenticateWith(r, x, j)
             \/ \E s \in {{"users"}, {"other"}}, e \in ValidExpirations : PostToken(r, s, e, FALSE)
             \/ \E j \in TokenIds : DeleteToken(r, j)
             \/ \E j \in TokenIds, s \in EditedScopes, e \in 0..(MaxTime + 1) \cup {NULL},
                   isNamed \in BOOLEAN : PatchToken(r, j, s, e, isNamed)
             \/ NoSuchToken(r)
             \/ \E x \in Users, grant \in BOOLEAN : AdminPatchUser(r, x, grant)
             \/ \E t, s \in Users : MergeUsers(r, t, s)
             \/ \E n \in Links : Install(r, n)
      PROVE  visit' = visit
  BY <1>2 DEF AuthenticateWith, PostToken, DeleteToken, PatchToken, NoSuchToken, AdminPatchUser,
              MergeUsers, Install
<1>3. ASSUME NEW r \in Requests, NEW w \in Visits, AskOrux(r, w)
      PROVE  visit'[v] = visit[v]
  BY <1>0, <1>3 DEF AskOrux, Idle
<1>4. ASSUME NEW w \in Visits, NEW n \in Links, TakeLink(w, n)
      PROVE  visit'[v] = visit[v]
  BY <1>0, <1>4 DEF TakeLink, Idle
<1>5. ASSUME NEW w \in Visits, WriteToken(w) \/ RollBack(w)
      PROVE  visit'[v] = visit[v]
  <2>1. visit' = [visit EXCEPT ![w] = Idle]
    BY <1>5 DEF WriteToken, RollBack, Closed
  <2> QED BY <1>0, <2>1 DEF Idle
<1>6. ASSUME NEW w \in Visits, LockUser(w)
      PROVE  visit'[v] = visit[v] \/ LockUser(v)
  BY <1>6, LockSteps
<1> QED BY <1>1, <1>2, <1>3, <1>4, <1>5, <1>6 DEF TokensNext

LEMMA NobodyReturns ==
  ASSUME Typed, [TokensNext]_tokenVars
  PROVE  alive' \subseteq alive
<1>1. ASSUME UNCHANGED tokenVars \/ Tick \/ CleanUp \/ \E x \in Users : DeleteUser(x)
      PROVE  alive' \subseteq alive
  BY <1>1 DEF tokenVars, tables, Tick, CleanUp, DeleteUser
<1>2. ASSUME NEW r \in Requests,
             \/ \E x \in Users, j \in TokenIds \cup {NULL} : AuthenticateWith(r, x, j)
             \/ \E s \in {{"users"}, {"other"}}, e \in ValidExpirations : PostToken(r, s, e, FALSE)
             \/ \E j \in TokenIds : DeleteToken(r, j)
             \/ \E j \in TokenIds, s \in EditedScopes, e \in 0..(MaxTime + 1) \cup {NULL},
                   isNamed \in BOOLEAN : PatchToken(r, j, s, e, isNamed)
             \/ NoSuchToken(r)
             \/ \E x \in Users, grant \in BOOLEAN : AdminPatchUser(r, x, grant)
             \/ \E n \in Links : Install(r, n)
             \/ \E v \in Visits : AskOrux(r, v)
      PROVE  alive' = alive
  BY <1>2 DEF AuthenticateWith, PostToken, DeleteToken, PatchToken, NoSuchToken, AdminPatchUser,
              Install, AskOrux, tables
<1>3. ASSUME NEW r \in Requests, NEW t \in Users, NEW s \in Users, MergeUsers(r, t, s)
      PROVE  alive' \subseteq alive
  BY <1>3 DEF MergeUsers
<1>4. ASSUME NEW v \in Visits,
             (\E n \in Links : TakeLink(v, n)) \/ LockUser(v) \/ WriteToken(v) \/ RollBack(v)
      PROVE  alive' = alive
  BY <1>4 DEF TakeLink, LockUser, WriteToken, RollBack, tables
<1> QED BY <1>1, <1>2, <1>3, <1>4 DEF TokensNext

LEMMA DerivedNext ==
  ASSUME Typed, Derived, MapAppsShareAToken, [TokensNext]_tokenVars
  PROVE  Derived' /\ MapAppsShareAToken'
<1>0. /\ NULL \notin Users /\ NULL \notin Nat /\ now \in Nat
      /\ visit \in [Visits -> VisitRecord] /\ alive' \subseteq alive
      /\ \A j \in TokenIds : token'[j] # NULL => token'[j].madeFor \in Users \cup {NULL}
      /\ \A v \in Visits : visit'[v].at = "write" => visit'[v].user \in Users
  <2>1. Typed'
    BY TypedNext
  <2>2. \A j \in TokenIds : token'[j] # NULL => token'[j] \in TokenRecord
    BY <2>1 DEF Typed, TokensTypeOK
  <2>3. \A v \in Visits : visit'[v].at = "write" => visit'[v].user \in Users
    BY <2>1 DEF Typed, Locks
  <2> QED BY <2>2, <2>3, NobodyReturns, TypedParts DEF Parameters, VisitsTyped, Locks, TokenRecord
<1>1. ASSUME NEW k \in TokenIds, NEW u \in Users, Untouched(k, u)'
      PROVE  /\ token'[k].named /\ token'[k].expires = NULL
             /\ u \in alive' => token'[k].owner = u
  <2>1. CASE Kept(k, u)
    BY <1>0, <2>1 DEF Kept, Derived
  <2>2. CASE JustMade(k, u)
    BY <2>2 DEF JustMade
  <2> QED BY <1>1, <2>1, <2>2, UntouchedChange
<1>2. ASSUME NEW v \in Visits, visit'[v].at = "write", visit'[v].reused = {},
             NEW k \in TokenIds, NEW u \in Users, u = visit'[v].user, Untouched(k, u)'
      PROVE  FALSE
  <2>1. CASE LockUser(v)
    <3>0. visit[v].user = u
      BY <1>2, <2>1, LockSteps
    <3>1. /\ token' = token /\ u \in alive
          /\ visit'[v].reused =
               {j \in TokensOf(visit[v].user) :
                  token[j].named /\ token[j].madeFor # NULL /\ Unexpired(j)}
      BY <2>1, <3>0, LockSteps DEF tables
    <3>2. Untouched(k, u)
      BY <1>2, <3>1 DEF Untouched
    <3>3. token[k] # NULL /\ token[k].named /\ token[k].expires = NULL /\ token[k].owner = u
      BY <3>1, <3>2 DEF Derived, Untouched
    <3>4. k \in TokensOf(u) /\ token[k].madeFor # NULL
      BY <1>0, <3>1, <3>2, <3>3 DEF TokensOf, Untouched
    <3>5. Unexpired(k)
      BY <1>0, <3>3 DEF Unexpired
    <3> QED BY <1>2, <3>0, <3>1, <3>3, <3>4, <3>5
  <2>2. CASE visit'[v] = visit[v]
    <3>1. /\ visit[v].at = "write" /\ visit[v].reused = {} /\ u = visit[v].user
          /\ holder[u] = v
      BY <1>2, <2>2, TypedParts DEF VisitsTyped, Locks
    <3>2. ~Untouched(k, u)
      BY <3>1 DEF Derived
    <3>3. JustMade(k, u)
      BY <1>2, <3>1, <3>2, UntouchedChange DEF Kept
    <3>4. PICK w \in Visits : WriteToken(w) /\ visit[w].user = u
      BY <3>3 DEF JustMade
    <3>5. w = v
      BY <3>1, <3>4, WriteSteps
    <3>6. visit' = [visit EXCEPT ![v] = Idle]
      BY <3>4, <3>5, WriteSteps DEF Closed
    <3> QED BY <1>0, <1>2, <3>6 DEF Idle
  <2> QED BY <1>2, <2>1, <2>2, WritingChange
<1>3. ASSUME NEW j \in TokenIds, NEW k \in TokenIds, NEW u \in Users, Untouched(j, u)', Untouched(k, u)'
      PROVE  j = k
  <2>1. CASE Kept(j, u) /\ Kept(k, u)
    BY <1>0, <2>1 DEF Kept, Untouched, MapAppsShareAToken
  <2>2. CASE JustMade(j, u) /\ JustMade(k, u)
    BY <2>2 DEF JustMade
  <2>3. ASSUME NEW i \in TokenIds, NEW m \in TokenIds, Kept(i, u), JustMade(m, u)
        PROVE  FALSE
    <3>1. PICK v \in Visits : WriteToken(v) /\ visit[v].reused = {} /\ visit[v].user = u
      BY <2>3 DEF JustMade
    <3>2. visit[v].at = "write"
      BY <3>1 DEF WriteToken
    <3> QED BY <2>3, <3>1, <3>2 DEF Kept, Derived
  <2>4. (Kept(j, u) \/ JustMade(j, u)) /\ (Kept(k, u) \/ JustMade(k, u))
    BY <1>3, UntouchedChange
  <2> QED BY <2>1, <2>2, <2>3, <2>4
<1>4. MapAppsShareAToken'
  BY <1>0, <1>3 DEF MapAppsShareAToken, Untouched
<1>5. \A v \in Visits : visit'[v].at = "write" /\ visit'[v].reused = {} =>
        \A k \in TokenIds : ~Untouched(k, visit[v].user)'
  BY <1>0, <1>2 DEF Untouched
<1>6. Derived'
  BY <1>1, <1>5 DEF Derived
<1> QED BY <1>4, <1>6

LEMMA MapAppsInitially ==
  Parameters /\ TokensInit => Derived /\ LinksHeld /\ MapAppsGetOneToken
BY DEF Parameters, TokensInit, Idle, Derived, Untouched, LinksHeld, MapAppsGetOneToken,
       MapAppsShareAToken, LinksWorkOnce

\* Of the tokens derived for one account at most one is as it was made, and no
\* install link hands a token out twice, however many apps ask at once, fail and
\* try again, while tokens are edited, accounts merged and deleted.
THEOREM MapAppsGetOne == TokensSpec => []MapAppsGetOneToken
<1>0. Parameters
  BY ParametersAssumption
<1> DEFINE Inv == Typed /\ Derived /\ LinksHeld /\ MapAppsShareAToken /\ LinksWorkOnce
<1>1. TokensInit => Inv
  BY <1>0, TypedInitially, MapAppsInitially DEF MapAppsGetOneToken
<1>2. Inv /\ [TokensNext]_tokenVars => Inv'
  <2> SUFFICES ASSUME Inv, [TokensNext]_tokenVars PROVE Inv'
    OBVIOUS
  <2>1. Typed'
    BY TypedNext
  <2>2. Derived' /\ MapAppsShareAToken'
    BY DerivedNext
  <2>3. LinksHeld' /\ LinksWorkOnce'
    BY LinksHeldNext
  <2> QED BY <2>1, <2>2, <2>3
<1>3. Inv => MapAppsGetOneToken
  BY DEF MapAppsGetOneToken
<1> QED BY <1>0, <1>1, <1>2, <1>3, PTL DEF TokensSpec
================================================================================
