------------------------------- MODULE Accounts -------------------------------
(***************************************************************************)
(* The accounts and the ways into them: login and loginWithEmail of        *)
(* loginProcessor.ts, PUT /auth/email, PATCH and DELETE /auth/settings,    *)
(* disconnecting a provider, the administrator's edits and merges, and     *)
(* mergeUserAccounts (userMerge.ts) with its aliases.                      *)
(*                                                                         *)
(* Every handler reads the rows it writes FOR UPDATE and is retried when   *)
(* it loses a race (runInTransaction), so a handler is one step.  What is  *)
(* not under the lock is the account the request was authenticated as: it  *)
(* is read at the start of the request, and by the time the handler's      *)
(* transaction runs it may have been merged away or deleted.               *)
(*                                                                         *)
(* The UNIQUE indexes are left out: that no two accounts share a login is  *)
(* for the handlers to keep, the index only turns a breach into an error.  *)
(***************************************************************************)
EXTENDS Naturals, FiniteSets

CONSTANTS
  Reqs,        \* requests of logged-in users, in flight at once
  Persons,
  Mailboxes,   \* normalized addresses (emailKey)
  Remotes,     \* users of the login providers
  Owner,       \* the person a mailbox or a remote user belongs to
  Providers,   \* authProviderToColumn
  Proving,     \* EMAIL_PROVING_PROVIDERS
  Fields,      \* PublicFieldSchema: "email" and providers
  ProviderOf,  \* the provider of a remote user
  MaxAccounts, \* bound on accounts ever created
  MaxOrganizers, \* bound on accounts created without a login
  None

ASSUME OwnersAssumption ==
  /\ Owner \in [Mailboxes \cup Remotes -> Persons]
  /\ ProviderOf \in [Remotes -> Providers]
  /\ Proving \subseteq Providers /\ Fields \subseteq {"email"} \cup Providers
  /\ None \notin Mailboxes \cup Remotes /\ "email" \notin Providers
  /\ MaxAccounts \in Nat /\ MaxOrganizers \in Nat
  /\ IsFiniteSet(Providers)

VARIABLES
  account,  \* the user table
  created,  \* AUTO_INCREMENT of user
  organizers, \* accounts created without a login so far
  session,  \* the auth table: who holds a session of which account
  alias,    \* the userAlias table
  req,      \* the account each request was authenticated as
  mergedInto, \* where each account merged away went (history)
  consent   \* what the owners last chose to show (history)

vars == <<account, created, organizers, session, alias, req, mergedInto, consent>>

Ids == 1..MaxAccounts

Row == [ids: [Providers -> Remotes \cup {None}],
        mailbox: Mailboxes \cup {None}, verified: BOOLEAN,
        reminderOff: BOOLEAN, published: SUBSET Fields, born: Nat]

Session == [who: Persons, id: Ids]

ASSUME NoneIsNull == None \notin Row \cup Session \cup Ids

NoEmail == [mailbox |-> None, verified |-> FALSE]
NoIds   == [p \in Providers |-> None]

Live == {i \in Ids : account[i] # None}

Linked(row)   == {row.ids[p] : p \in Providers} \ {None}
HasWayIn(row) == row.verified \/ Linked(row) # {}

\* What a flag of the public profile shows.
Shown(row, f) == IF f = "email" THEN row.mailbox ELSE row.ids[f]

Init ==
  /\ account = [i \in Ids |-> None]
  /\ created = 0 /\ organizers = {}
  /\ session = {}
  /\ alias = [i \in Ids |-> None]
  /\ req = [r \in Reqs |-> None]
  /\ mergedInto = [i \in Ids |-> None]
  /\ consent = [i \in Ids |-> {}]

-------------------------------------------------------------------------------
(* The address fields of a row: emailAddress.ts *)

EmailOf(row) == [mailbox |-> row.mailbox, verified |-> row.verified]

NextEmail(current, mailbox, proven, keepExisting) ==
  IF mailbox = None THEN IF keepExisting THEN current ELSE NoEmail
  ELSE IF keepExisting /\ current.mailbox # None
    THEN [current EXCEPT !.verified = @ \/ (proven /\ current.mailbox = mailbox)]
    ELSE [mailbox |-> mailbox,
          verified |-> proven \/ (current.mailbox = mailbox /\ current.verified)]

WithEmail(row, next) ==
  [row EXCEPT !.mailbox = next.mailbox, !.verified = next.verified]

\* emailChangeSql: another mailbox is not what the owner published.
ChangeEmail(row, next) ==
  IF next.mailbox = row.mailbox
    THEN WithEmail(row, next)
    ELSE [WithEmail(row, next) EXCEPT !.published = @ \ {"email"}]

\* findByVerifiedEmail, in a state of the table within a transaction
VerifiedOn(table, mailbox, except) ==
  {i \in Ids \ {except} : /\ table[i] # None /\ mailbox # None
                          /\ table[i].verified /\ table[i].mailbox = mailbox}

-------------------------------------------------------------------------------
(* mergeUserAccounts *)

\* (mutation) an account's own ids never conflict
NoConflict(target, source) == FALSE

Conflict(target, source) ==
  \E p \in Providers : /\ target.ids[p] # None /\ source.ids[p] # None
                       /\ target.ids[p] # source.ids[p]

OlderFirst(table, a, b) ==
  IF table[a].born < table[b].born \/ (table[a].born = table[b].born /\ a < b)
    THEN [target |-> a, source |-> b] ELSE [target |-> b, source |-> a]

RemovedItsEmail(row) == row.mailbox = None /\ row.reminderOff

SourceEmailWins(target, source) ==
  /\ ~RemovedItsEmail(target)
  /\ source.mailbox # None
  /\ target.mailbox = None \/ (source.verified /\ ~target.verified)

MergedEmail(target, source) ==
  IF RemovedItsEmail(target) THEN EmailOf(target)
  ELSE NextEmail(EmailOf(target), source.mailbox, source.verified,
                 ~SourceEmailWins(target, source))

\* (mutation) the flags of both, whatever they published
PublishedByEither(target, source) == target.published \cup source.published

\* A flag goes along only with what it published.
MergedPublished(target, source) ==
  LET same == source.mailbox # None /\ source.mailbox = target.mailbox
      wins == SourceEmailWins(target, source)
  IN {f \in target.published : f # "email" \/ ~wins \/ same}
     \cup {f \in source.published :
             IF f = "email" THEN source.mailbox # None /\ (wins \/ same)
                            ELSE target.ids[f] = None /\ source.ids[f] # None}

\* `extra`, the ids the caller sets, take the place of either account's.
MergedRow(target, source, extra) ==
  [ids |-> [p \in Providers |->
              IF p \in DOMAIN extra THEN extra[p]
              ELSE IF target.ids[p] # None THEN target.ids[p] ELSE source.ids[p]],
   mailbox |-> MergedEmail(target, source).mailbox,
   verified |-> MergedEmail(target, source).verified,
   reminderOff |-> target.reminderOff,
   published |-> MergedPublished(target, source),
   born |-> IF source.born < target.born THEN source.born ELSE target.born]

\* The table after a merge.
Merged(m, extra) ==
  [account EXCEPT ![m.target] = MergedRow(account[m.target], account[m.source], extra),
                  ![m.source] = None]

\* (mutation) the aliases of the source left to the cascade
MergeMovesAllButAliases(m) ==
  /\ alias' = [i \in Ids |-> IF i = m.source THEN m.target
                             ELSE IF alias[i] = m.source THEN None ELSE alias[i]]
  /\ mergedInto' = [mergedInto EXCEPT ![m.source] = m.target]
  /\ consent' = [consent EXCEPT ![m.target] = @ \cup consent[m.source],
                                ![m.source] = {}]

\* The aliases are repointed before the row goes, and with it what cascades.
MergeMoves(m) ==
  /\ alias' = [i \in Ids |-> IF i = m.source \/ alias[i] = m.source
                               THEN m.target ELSE alias[i]]
  /\ mergedInto' = [mergedInto EXCEPT ![m.source] = m.target]
  /\ consent' = [consent EXCEPT ![m.target] = @ \cup consent[m.source],
                                ![m.source] = {}]

SessionsWithout(id) == {s \in session : s.id # id}

-------------------------------------------------------------------------------
(* Requests *)

Authenticate(r) ==
  /\ req[r] = None
  /\ \E s \in session : req' = [req EXCEPT ![r] = s]
  /\ UNCHANGED <<account, created, organizers, session, alias, mergedInto, consent>>

Answered(r) == req' = [req EXCEPT ![r] = None]

\* 400, 401 or 409: the transaction is rolled back.
Refused(r) ==
  /\ Answered(r)
  /\ UNCHANGED <<account, created, organizers, session, alias, mergedInto, consent>>

\* "account gone": merged away or deleted since the request was authenticated.
AccountGone(r) ==
  /\ req[r] # None /\ req[r].id \notin Live
  /\ Refused(r)

Acting(r) == req[r] # None /\ req[r].id \in Live

Insert(row, who) ==
  /\ created < MaxAccounts
  /\ created' = created + 1
  /\ account' = [account EXCEPT ![created + 1] = row]
  /\ session' = session \cup {[who |-> who, id |-> created + 1]}

-------------------------------------------------------------------------------
(* login: what a provider says of its user `remote` *)

\* A proving provider vouches only for an address its user has; any provider
\* may name another.
Claim(remote) ==
  {c \in [mailbox: Mailboxes \cup {None}, vouched: BOOLEAN] :
     c.vouched => /\ c.mailbox # None /\ ProviderOf[remote] \in Proving
                  /\ Owner[c.mailbox] = Owner[remote]}

LinkedTo(remote) ==
  {i \in Live : account[i].ids[ProviderOf[remote]] = remote}

\* (mutation) taking the provider's word though another account has the proof
ProvenForAnyone(table, c, id) == c.vouched

ProvenFor(table, c, id) == c.vouched /\ VerifiedOn(table, c.mailbox, id) = {}

\* (mutation) bringing an address back that its owner removed
EmailAfterRemoved(table, c, id) ==
  LET proven == ProvenFor(table, c, id)
  IN ChangeEmail(table[id], NextEmail(EmailOf(table[id]), c.mailbox, proven,
                                      ~(proven /\ ~table[id].verified)))

EmailAfter(table, c, id) ==
  IF RemovedItsEmail(table[id]) THEN table[id]
  ELSE LET proven == ProvenFor(table, c, id)
       IN ChangeEmail(table[id], NextEmail(EmailOf(table[id]), c.mailbox, proven,
                                           ~(proven /\ ~table[id].verified)))

Link(row, remote) == [row EXCEPT !.ids[ProviderOf[remote]] = remote]

\* Not connecting: into the account the provider's user has, else the one its
\* proven address opens, else a new one.
Login(remote) ==
  \E c \in Claim(remote) :
    LET who == Owner[remote]
        candidate == IF c.vouched THEN VerifiedOn(account, c.mailbox, 0) ELSE {}
        matched == {i \in candidate : account[i].ids[ProviderOf[remote]] = None}
    IN /\ \/ \E i \in LinkedTo(remote) :
               /\ account' = [account EXCEPT ![i] = EmailAfter(account, c, i)]
               /\ session' = session \cup {[who |-> who, id |-> i]}
               /\ UNCHANGED created
          \/ /\ LinkedTo(remote) = {}
             /\ \E i \in matched :
                  /\ account' = [account EXCEPT ![i] = Link(@, remote)]
                  /\ session' = session \cup {[who |-> who, id |-> i]}
                  /\ UNCHANGED created
          \/ /\ LinkedTo(remote) = {} /\ matched = {}
             /\ LET e == NextEmail(NoEmail, c.mailbox, c.vouched /\ candidate = {}, FALSE)
                IN Insert([ids |-> [NoIds EXCEPT ![ProviderOf[remote]] = remote],
                           mailbox |-> e.mailbox, verified |-> e.verified,
                           reminderOff |-> FALSE, published |-> {},
                           born |-> created + 1], who)
       /\ UNCHANGED <<organizers, alias, req, mergedInto, consent>>

\* Connecting the provider to the logged-in account, which the provider's user
\* may already have one of its own beside; the older of the two stays.
Connect(r) ==
  /\ Acting(r)
  /\ \E remote \in Remotes : \E c \in Claim(remote) :
       /\ Owner[remote] = req[r].who
       /\ LET me == req[r].id
              mine == account[me].ids[ProviderOf[remote]]
              others == LinkedTo(remote) \ {me}
          IN \/ mine \notin {None, remote} /\ Refused(r)
             \/ /\ mine \in {None, remote} /\ others = {}
                /\ account' = [account EXCEPT ![me] =
                                 Link(EmailAfter(account, c, me), remote)]
                /\ Answered(r)
                /\ UNCHANGED <<created, organizers, session, alias, mergedInto, consent>>
             \/ /\ mine \in {None, remote}
                /\ \E other \in others :
                     LET m == OlderFirst(account, me, other)
                         extra == [p \in {ProviderOf[remote]} |-> remote]
                     IN IF Conflict(account[m.target], account[m.source])
                          THEN Refused(r)
                          ELSE /\ account' = [Merged(m, extra) EXCEPT ![m.target] =
                                                EmailAfter(Merged(m, extra), c, m.target)]
                               /\ session' = SessionsWithout(m.source) \cup
                                    IF m.target = me THEN {}
                                    ELSE {[who |-> req[r].who, id |-> m.target]}
                               /\ MergeMoves(m)
                               /\ Answered(r)
                               /\ UNCHANGED <<created, organizers>>

-------------------------------------------------------------------------------
(* Email as a login; a code sent there shows who has the mailbox *)

LoginWithEmail(mailbox) ==
  /\ \/ \E i \in VerifiedOn(account, mailbox, 0) :
          /\ session' = session \cup {[who |-> Owner[mailbox], id |-> i]}
          /\ UNCHANGED <<account, created>>
     \/ /\ VerifiedOn(account, mailbox, 0) = {}
        /\ Insert([ids |-> NoIds, mailbox |-> mailbox, verified |-> TRUE,
                   reminderOff |-> FALSE, published |-> {}, born |-> created + 1],
                  Owner[mailbox])
  /\ UNCHANGED <<organizers, alias, req, mergedInto, consent>>

ProvenNow(row, mailbox) == ChangeEmail(row, NextEmail(EmailOf(row), mailbox, TRUE, FALSE))

\* PUT /auth/email joins the account that has the address verified.
SetEmail(r) ==
  /\ Acting(r)
  /\ \E mailbox \in Mailboxes :
       /\ Owner[mailbox] = req[r].who
       /\ LET me == req[r].id
              others == VerifiedOn(account, mailbox, me)
          IN \/ /\ others = {}
                /\ account' = [account EXCEPT ![me] = ProvenNow(@, mailbox)]
                /\ Answered(r)
                /\ UNCHANGED <<created, organizers, session, alias, mergedInto, consent>>
             \/ \E other \in others :
                     LET m == OlderFirst(account, me, other)
                     IN IF Conflict(account[m.target], account[m.source])
                          THEN Refused(r)
                          ELSE /\ account' = [Merged(m, <<>>) EXCEPT ![m.target] =
                                                ProvenNow(@, mailbox)]
                               /\ session' = SessionsWithout(m.source) \cup
                                    IF m.target = me THEN {}
                                    ELSE {[who |-> req[r].who, id |-> m.target]}
                               /\ MergeMoves(m)
                               /\ Answered(r)
                               /\ UNCHANGED <<created, organizers>>

-------------------------------------------------------------------------------
(* The account's own settings *)

\* Only what there is to show now.
Presentable(row, fields) == {f \in fields : Shown(row, f) # None}

\* removesLastWayIn, going to `next` address fields
LocksOut(row, next) == HasWayIn(row) /\ ~HasWayIn(WithEmail(row, next))

\* PATCH /auth/settings, `email` being null or left out (another mailbox is
\* skipped), `publicFields` and `emailReminderOff` given or not.
PatchSettings(r) ==
  /\ Acting(r)
  /\ \E removes \in BOOLEAN, fields \in (SUBSET Fields) \cup {None},
        off \in BOOLEAN \cup {None} :
       /\ removes \/ fields # None \/ off # None
       /\ LET me == req[r].id
              row == account[me]
              applied == removes /\ row.mailbox # None
              emailed == IF applied THEN WithEmail(row, NoEmail) ELSE row
              allowed == IF fields # None THEN Presentable(emailed, fields)
                         ELSE IF removes THEN Presentable(emailed, row.published)
                         ELSE row.published
          IN IF applied /\ LocksOut(row, NoEmail)
               THEN Refused(r)
               ELSE /\ account' = [account EXCEPT ![me] =
                         [emailed EXCEPT !.published = allowed,
                            !.reminderOff = IF off # None THEN off
                                            ELSE IF applied THEN TRUE ELSE @]]
                    /\ consent' = IF fields = None THEN consent
                         ELSE [consent EXCEPT ![me] = {Shown(emailed, f) : f \in allowed}]
                    /\ Answered(r)
                    /\ UNCHANGED <<created, organizers, session, alias, mergedInto>>

\* (mutation) counting an address nobody proved as a way in
DisconnectedStaysOpenLoose(row) == row.mailbox # None \/ Linked(row) # {}

DisconnectedStaysOpen(row) == HasWayIn(row)

Disconnect(r) ==
  /\ Acting(r)
  /\ \E p \in Providers :
       LET me == req[r].id
           without == [account[me] EXCEPT !.ids[p] = None, !.published = @ \ {p}]
       IN IF ~DisconnectedStaysOpen(without) THEN Refused(r)
          ELSE /\ account' = [account EXCEPT ![me] = without]
               /\ Answered(r)
               /\ UNCHANGED <<created, organizers, session, alias, mergedInto, consent>>

\* The row's sessions and the aliases to it cascade.
Delete(r) ==
  /\ Acting(r)
  /\ LET me == req[r].id
     IN /\ account' = [account EXCEPT ![me] = None]
        /\ session' = SessionsWithout(me)
        /\ alias' = [i \in Ids |-> IF alias[i] = me THEN None ELSE alias[i]]
        /\ consent' = [consent EXCEPT ![me] = {}]
  /\ Answered(r)
  /\ UNCHANGED <<created, organizers, mergedInto>>

\* Logging out, and cleanup() of sessions out of use for a year.
EndSession ==
  /\ \E s \in session : session' = session \ {s}
  /\ UNCHANGED <<account, created, organizers, alias, req, mergedInto, consent>>

-------------------------------------------------------------------------------
(* Other writers of the table *)

\* PATCH /auth/users/:id with an email: unproven, unless it is the same mailbox.
AdminSetsEmail(id, mailbox) ==
  /\ id \in Live
  /\ LET next == NextEmail(EmailOf(account[id]), mailbox, FALSE, FALSE)
     IN /\ ~LocksOut(account[id], next)
        /\ account' = [account EXCEPT ![id] =
                         [WithEmail(account[id], next) EXCEPT !.published = @ \ {"email"}]]
  /\ UNCHANGED <<created, organizers, session, alias, req, mergedInto, consent>>

\* Whose logins an account has; an administrator joins only one person's.
PersonsOf(row) ==
  {Owner[x] : x \in Linked(row) \cup (IF row.verified THEN {row.mailbox} ELSE {})}

AdminMerges(target, source, force) ==
  /\ target \in Live /\ source \in Live /\ target # source
  /\ Cardinality(PersonsOf(account[target]) \cup PersonsOf(account[source])) <= 1
  /\ force \/ ~Conflict(account[target], account[source])
  /\ LET m == [target |-> target, source |-> source]
     IN /\ account' = Merged(m, <<>>)
        /\ session' = SessionsWithout(source)
        /\ MergeMoves(m)
  /\ UNCHANGED <<created, organizers, req>>

\* An event organizer's account, with no login until it is merged.
AddOrganizer ==
  /\ created < MaxAccounts /\ Cardinality(organizers) < MaxOrganizers
  /\ created' = created + 1
  /\ organizers' = organizers \cup {created + 1}
  /\ account' = [account EXCEPT ![created + 1] =
                   [ids |-> NoIds, mailbox |-> None, verified |-> FALSE,
                    reminderOff |-> FALSE, published |-> {}, born |-> created + 1]]
  /\ UNCHANGED <<session, alias, req, mergedInto, consent>>

\* fillEmailSql: the address a payment came from.
FillEmail(id, mailbox) ==
  /\ id \in Live
  /\ account[id].mailbox = None /\ ~account[id].reminderOff
  /\ account' = [account EXCEPT ![id].mailbox = mailbox]
  /\ UNCHANGED <<created, organizers, session, alias, req, mergedInto, consent>>

Next ==
  \/ \E r \in Reqs : \/ Authenticate(r) \/ AccountGone(r) \/ Connect(r) \/ SetEmail(r)
                     \/ PatchSettings(r) \/ Disconnect(r) \/ Delete(r)
  \/ \E remote \in Remotes : Login(remote)
  \/ \E mailbox \in Mailboxes : LoginWithEmail(mailbox)
  \/ EndSession
  \/ \E id \in Ids : \E mailbox \in Mailboxes \cup {None} : AdminSetsEmail(id, mailbox)
  \/ \E target, source \in Ids : \E force \in BOOLEAN : AdminMerges(target, source, force)
  \/ AddOrganizer
  \/ \E id \in Ids : \E mailbox \in Mailboxes : FillEmail(id, mailbox)

Spec == Init /\ [][Next]_vars

-------------------------------------------------------------------------------
(* What the accounts promise *)

\* Every variable stays within its type.
TypeOK ==
  /\ account \in [Ids -> Row \cup {None}]
  /\ created \in 0..MaxAccounts /\ organizers \subseteq Ids
  /\ session \subseteq Session
  /\ alias \in [Ids -> Ids \cup {None}]
  /\ req \in [Reqs -> Session \cup {None}]
  /\ mergedInto \in [Ids -> Ids \cup {None}]
  /\ consent \in [Ids -> SUBSET (Mailboxes \cup Remotes)]

\* "At most one account has an address verified" (database.ts:23), and one
\* holds a provider's user, without the index having to refuse a write: for
\* GitHub, Strava and Microsoft there is none.
LoginsAreUnique ==
  \A i, j \in Live :
    i # j => /\ Linked(account[i]) \cap Linked(account[j]) = {}
             /\ account[i].verified /\ account[j].verified
                  => account[i].mailbox # account[j].mailbox

\* The logins and the sessions of an account are one person's.
OwnLogins ==
  \A i \in Live :
    Cardinality(PersonsOf(account[i]) \cup {s.who : s \in {t \in session : t.id = i}}) <= 1

\* Nobody gets into another's account, and nobody's login opens two: whatever
\* order people log in, connect, confirm and merge in, and whatever address a
\* provider or a payment names.
OnePersonPerAccount == OwnLogins /\ LoginsAreUnique

\* "Every change that may take a way in away checks its outcome" (types.ts:119):
\* only an account made without a login is without one.
EveryoneCanGetIn ==
  \A i \in Live \ organizers : HasWayIn(account[i])

\* "The user published the address they had": a profile shows only what its
\* owners chose to show last, across address changes, disconnects and merges.
ShownByConsent ==
  \A i \in Live : \A f \in account[i].published :
    Shown(account[i], f) \in consent[i]

\* "one hop resolves all": the id of an account merged away, however many
\* merges ago, leads to the account that has its data while that one exists, and
\* no other id to any.
AliasesResolve ==
  \E survivor \in [Ids -> Ids] :
    \A i \in Ids :
      IF mergedInto[i] = None THEN survivor[i] = i /\ alias[i] = None
      ELSE /\ survivor[i] = survivor[mergedInto[i]] /\ mergedInto[survivor[i]] = None
           /\ alias[i] = IF survivor[i] \in Live THEN survivor[i] ELSE None

\* A merge an owner's request brings about drops none of the logins ("distinct
\* non-null values ... throws MergeConflictError").
OwnMergeKeepsLogins ==
  [][mergedInto' # mergedInto /\ req' # req =>
       UNION {Linked(account[i]) : i \in Live}
         \subseteq UNION {Linked(account'[i]) : i \in {j \in Ids : account'[j] # None}}]_vars

\* "One its owner removed isn't brought back" (loginProcessor.ts:274): only an
\* administrator, or the owner proving the mailbox, gives the account one again.
RemovedEmailStaysAway ==
  [][\A i \in Live :
       /\ RemovedItsEmail(account[i])
       /\ account'[i] # None /\ account'[i].mailbox # None
       => \/ \E r \in Reqs : SetEmail(r)
          \/ \E mailbox \in Mailboxes : AdminSetsEmail(i, mailbox)]_vars
===============================================================================
