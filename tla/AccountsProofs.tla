----------------------------- MODULE AccountsProofs -----------------------------
(***************************************************************************)
(* Proofs about Accounts: whoever logs in, connects, confirms and merges   *)
(* in whatever order, the logins of an account stay one person's, nobody   *)
(* loses the last way in, and a profile shows what its owner chose.        *)
(***************************************************************************)
EXTENDS Accounts, FiniteSetTheorems, TLAPS

-------------------------------------------------------------------------------
(* The inductive invariant *)

\* A row of the user table that the handlers can work with: a proven address
\* is there, and a provider's column holds a user of that provider.
Sound(row) ==
  /\ row \in Row
  /\ row.verified => row.mailbox # None
  /\ \A p \in Providers : row.ids[p] # None => ProviderOf[row.ids[p]] = p

SoundTable == \A i \in Live : Sound(account[i])

\* AUTO_INCREMENT: the ids above `created` are nobody's, and no request can
\* have been authenticated as one.
FreshIds ==
  /\ \A i \in Ids : account[i] # None => i <= created
  /\ \A r \in Reqs : req[r] # None => req[r].id <= created
  /\ organizers \subseteq 1..created

\* All of an account's logins are one person's.
OnePerson(row) == \A v, w \in PersonsOf(row) : v = w

\* Whoever holds a session of an account, or has a request in flight that was
\* authenticated as one still there, is the person all its logins belong to.
Held ==
  /\ \A i \in Live : OnePerson(account[i])
  /\ \A s \in session : s.id \in Live /\ s.who \in PersonsOf(account[s.id])
  /\ \A r \in Reqs : req[r] # None /\ req[r].id \in Live
                       => req[r].who \in PersonsOf(account[req[r].id])

\* No other account holds a login of the row, in the provider's column or as
\* its proven address.
Distinct(row, other) ==
  /\ \A p \in Providers : row.ids[p] # None => row.ids[p] # other.ids[p]
  /\ row.verified /\ other.verified => row.mailbox # other.mailbox

ApartByLogins == \A i, j \in Live : i # j => Distinct(account[i], account[j])

\* Where the merges of each id lead in the end, all of them with ids in use by now.
LeadTo(survivor) ==
  \A i \in Ids :
    IF mergedInto[i] = None THEN survivor[i] = i /\ alias[i] = None
    ELSE /\ i \notin Live /\ i <= created /\ survivor[i] <= created
         /\ survivor[i] = survivor[mergedInto[i]] /\ mergedInto[survivor[i]] = None
         /\ alias[i] = IF survivor[i] \in Live THEN survivor[i] ELSE None

AliasesLead == \E survivor \in [Ids -> Ids] : LeadTo(survivor)

AccountsInv ==
  TypeOK /\ SoundTable /\ FreshIds /\ Held /\ ApartByLogins
         /\ EveryoneCanGetIn /\ ShownByConsent /\ AliasesLead

-------------------------------------------------------------------------------
(* Rows: what the helpers of emailAddress.ts and userMerge.ts make of them *)

EmailFields == [mailbox: Mailboxes \cup {None}, verified: BOOLEAN]

\* The persons of a row are the owners of its providers' users and of its
\* proven address.
LEMMA PersonsAre ==
  ASSUME NEW row \in Row, NEW w
  PROVE  w \in PersonsOf(row) <=>
           \/ \E p \in Providers : row.ids[p] # None /\ w = Owner[row.ids[p]]
           \/ row.verified /\ w = Owner[row.mailbox]
BY DEF PersonsOf, Linked

LEMMA WayInIsSomeones ==
  ASSUME NEW row \in Row
  PROVE  HasWayIn(row) <=> \E w : w \in PersonsOf(row)
<1>1. HasWayIn(row) <=> row.verified \/ \E p \in Providers : row.ids[p] # None
  BY DEF HasWayIn, Linked
<1> QED BY <1>1, PersonsAre

\* What stays of a row when its address fields go to others.
SameButEmail(row, new) ==
  /\ new.ids = row.ids /\ new.reminderOff = row.reminderOff
  /\ new.published \subseteq row.published
  /\ "email" \in new.published => new.mailbox = row.mailbox

LEMMA NextEmailIs ==
  ASSUME NEW cur \in EmailFields, NEW mailbox \in Mailboxes \cup {None},
         NEW proven \in BOOLEAN, NEW keep \in BOOLEAN,
         cur.verified => cur.mailbox # None
  PROVE  LET next == NextEmail(cur, mailbox, proven, keep)
         IN /\ next \in EmailFields
            /\ next.verified => next.mailbox # None
            /\ next.verified => \/ cur.verified /\ next.mailbox = cur.mailbox
                                \/ proven /\ next.mailbox = mailbox
            /\ keep /\ cur.mailbox # None =>
                 next.mailbox = cur.mailbox /\ (cur.verified => next.verified)
            /\ mailbox # None /\ ~(keep /\ cur.mailbox # None) =>
                 next.mailbox = mailbox /\ (proven => next.verified)
            /\ mailbox = None /\ ~keep => next.mailbox = None
            /\ mailbox = None /\ keep => next = cur
BY DEF NextEmail, NoEmail, EmailFields

LEMMA ChangeEmailIs ==
  ASSUME NEW row, Sound(row), NEW next \in EmailFields, next.verified => next.mailbox # None
  PROVE  LET new == ChangeEmail(row, next)
         IN /\ Sound(new) /\ SameButEmail(row, new)
            /\ new.mailbox = next.mailbox /\ new.verified = next.verified
BY DEF ChangeEmail, WithEmail, Sound, Row, EmailFields, SameButEmail

LEMMA WithEmailIs ==
  ASSUME NEW row, Sound(row), NEW next \in EmailFields, next.verified => next.mailbox # None
  PROVE  LET new == WithEmail(row, next)
         IN /\ Sound(new)
            /\ new.ids = row.ids /\ new.reminderOff = row.reminderOff
            /\ new.published = row.published
            /\ new.mailbox = next.mailbox /\ new.verified = next.verified
BY DEF WithEmail, Sound, Row, EmailFields

LEMMA EmailOfIs ==
  ASSUME NEW row, Sound(row)
  PROVE  /\ EmailOf(row) \in EmailFields
         /\ EmailOf(row).mailbox = row.mailbox /\ EmailOf(row).verified = row.verified
         /\ EmailOf(row).verified => EmailOf(row).mailbox # None
BY DEF EmailOf, EmailFields, Sound, Row

\* A login leaves a proven address alone, and proves one only where no other
\* account has the proof.
LEMMA EmailAfterIs ==
  ASSUME NEW table, NEW id, Sound(table[id]), NEW remote \in Remotes, NEW c \in Claim(remote)
  PROVE  LET row == table[id]
             new == EmailAfter(table, c, id)
         IN /\ Sound(new) /\ SameButEmail(row, new)
            /\ row.verified => new.verified /\ new.mailbox = row.mailbox
            /\ new.verified /\ ~row.verified =>
                 /\ c.vouched /\ new.mailbox = c.mailbox
                 /\ VerifiedOn(table, c.mailbox, id) = {}
            /\ RemovedItsEmail(row) => new = row
<1> DEFINE row == table[id]
           proven == ProvenFor(table, c, id)
           keep == ~(proven /\ ~row.verified)
           next == NextEmail(EmailOf(row), c.mailbox, proven, keep)
<1>1. CASE RemovedItsEmail(row)
  BY <1>1 DEF EmailAfter, SameButEmail
<1>2. CASE ~RemovedItsEmail(row)
  <2>1. EmailAfter(table, c, id) = ChangeEmail(row, next)
    BY <1>2 DEF EmailAfter
  <2>2. /\ c.mailbox \in Mailboxes \cup {None} /\ proven \in BOOLEAN /\ keep \in BOOLEAN
        /\ proven => c.mailbox # None /\ c.vouched /\ VerifiedOn(table, c.mailbox, id) = {}
    BY DEF Claim, ProvenFor, Sound, Row
  <2>3. /\ EmailOf(row) \in EmailFields
        /\ EmailOf(row).mailbox = row.mailbox /\ EmailOf(row).verified = row.verified
        /\ row.verified => row.mailbox # None
        /\ row.verified \in BOOLEAN
    BY EmailOfIs DEF Sound, Row
  <2>4. /\ next \in EmailFields
        /\ next.verified => next.mailbox # None
        /\ next.verified => \/ row.verified /\ next.mailbox = row.mailbox
                            \/ proven /\ next.mailbox = c.mailbox
        /\ keep /\ row.mailbox # None =>
             next.mailbox = row.mailbox /\ (row.verified => next.verified)
    <3> HIDE DEF next, proven, keep, row
    <3> QED BY <2>2, <2>3, NextEmailIs DEF next
  <2>5. row.verified => next.verified /\ next.mailbox = row.mailbox
    BY <2>3, <2>4
  <2>6. next.verified /\ ~row.verified => proven /\ next.mailbox = c.mailbox
    BY <2>4
  <2>7. LET new == ChangeEmail(row, next)
        IN /\ Sound(new) /\ SameButEmail(row, new)
           /\ new.mailbox = next.mailbox /\ new.verified = next.verified
    <3> HIDE DEF next
    <3> QED BY <2>4, ChangeEmailIs
  <2> HIDE DEF next, proven, keep
  <2> QED BY <1>2, <2>1, <2>2, <2>5, <2>6, <2>7
<1> QED BY <1>1, <1>2

\* The code sent to the mailbox proves it for the row.
LEMMA ProvenNowIs ==
  ASSUME NEW row, Sound(row), NEW mailbox \in Mailboxes
  PROVE  LET new == ProvenNow(row, mailbox)
         IN /\ Sound(new) /\ SameButEmail(row, new)
            /\ new.verified /\ new.mailbox = mailbox
<1> DEFINE next == NextEmail(EmailOf(row), mailbox, TRUE, FALSE)
<1>1. mailbox # None
  BY OwnersAssumption
<1>2. next \in EmailFields /\ next.verified /\ next.mailbox = mailbox
  BY <1>1, EmailOfIs DEF NextEmail, EmailFields
<1> HIDE DEF next
<1> QED BY <1>1, <1>2, ChangeEmailIs DEF ProvenNow, next

-------------------------------------------------------------------------------
(* Merged rows *)

\* The ids a caller sets beside a merge are ones the accounts would have
\* brought along anyway.
Brought(target, source, extra) ==
  \A p \in DOMAIN extra :
    /\ target.ids[p] \in {None, extra[p]} /\ source.ids[p] \in {None, extra[p]}
    /\ extra[p] \in {target.ids[p], source.ids[p]}

\* The row of a merge, without `extra`.
MergedIds(target, source) ==
  [p \in Providers |-> IF target.ids[p] # None THEN target.ids[p] ELSE source.ids[p]]

LEMMA ExtraAddsNothing ==
  ASSUME NEW target, NEW source, NEW extra, Brought(target, source, extra)
  PROVE  MergedRow(target, source, extra).ids = MergedIds(target, source)
BY DEF MergedRow, MergedIds, Brought

LEMMA MergedEmailIs ==
  ASSUME NEW target, NEW source, Sound(target), Sound(source)
  PROVE  LET next == MergedEmail(target, source)
             same == source.mailbox # None /\ source.mailbox = target.mailbox
             wins == SourceEmailWins(target, source)
         IN /\ next \in EmailFields
            /\ next.verified => next.mailbox # None
            /\ next.verified => \/ target.verified /\ next.mailbox = target.mailbox
                                \/ source.verified /\ next.mailbox = source.mailbox
            /\ target.verified => next.verified /\ next.mailbox = target.mailbox
            /\ RemovedItsEmail(target) => next.mailbox = None
            /\ target.mailbox # None /\ (~wins \/ same) => next.mailbox = target.mailbox
            /\ wins \/ same => next.mailbox = source.mailbox
<1> DEFINE keep == ~SourceEmailWins(target, source)
           next == NextEmail(EmailOf(target), source.mailbox, source.verified, keep)
<1>1. /\ EmailOf(target) \in EmailFields
      /\ EmailOf(target).mailbox = target.mailbox
      /\ EmailOf(target).verified = target.verified
      /\ target.verified => target.mailbox # None
      /\ source.mailbox \in Mailboxes \cup {None} /\ source.verified \in BOOLEAN
      /\ source.verified => source.mailbox # None
      /\ target.verified \in BOOLEAN /\ keep \in BOOLEAN
  BY EmailOfIs DEF Sound, Row
<1>2. CASE RemovedItsEmail(target)
  BY <1>1, <1>2 DEF MergedEmail, RemovedItsEmail, SourceEmailWins
<1>3. CASE ~RemovedItsEmail(target)
  <2>1. MergedEmail(target, source) = next
    BY <1>3 DEF MergedEmail
  <2>2. /\ next \in EmailFields
        /\ next.verified => next.mailbox # None
        /\ next.verified => \/ target.verified /\ next.mailbox = target.mailbox
                            \/ source.verified /\ next.mailbox = source.mailbox
        /\ keep /\ target.mailbox # None =>
             next.mailbox = target.mailbox /\ (target.verified => next.verified)
        /\ source.mailbox # None /\ ~(keep /\ target.mailbox # None) =>
             next.mailbox = source.mailbox
        /\ source.mailbox = None /\ keep => next = EmailOf(target)
    <3> HIDE DEF next, keep
    <3> QED BY <1>1, NextEmailIs DEF next
  <2>3. target.verified => keep
    BY <1>1 DEF SourceEmailWins
  <2> HIDE DEF next
  <2> QED BY <1>1, <1>3, <2>1, <2>2, <2>3 DEF SourceEmailWins
<1> QED BY <1>2, <1>3

\* A merge keeps the target's logins and takes those of the source, and shows
\* only what was shown under the same flag.
LEMMA MergedRowIs ==
  ASSUME NEW target, NEW source, NEW extra, Sound(target), Sound(source),
         Brought(target, source, extra),
         \A f \in target.published : Shown(target, f) # None
  PROVE  LET new == MergedRow(target, source, extra)
         IN /\ Sound(new)
            /\ new.ids = MergedIds(target, source)
            /\ new.verified => \/ target.verified /\ new.mailbox = target.mailbox
                               \/ source.verified /\ new.mailbox = source.mailbox
            /\ target.verified => new.verified /\ new.mailbox = target.mailbox
            /\ RemovedItsEmail(target) => RemovedItsEmail(new)
            /\ \A f \in new.published :
                 \/ f \in target.published /\ Shown(new, f) = Shown(target, f)
                 \/ f \in source.published /\ Shown(new, f) = Shown(source, f)
<1> DEFINE new == MergedRow(target, source, extra)
           email == MergedEmail(target, source)
           same == source.mailbox # None /\ source.mailbox = target.mailbox
           wins == SourceEmailWins(target, source)
<1>1. /\ email \in EmailFields
      /\ email.verified => email.mailbox # None
      /\ email.verified => \/ target.verified /\ email.mailbox = target.mailbox
                           \/ source.verified /\ email.mailbox = source.mailbox
      /\ target.verified => email.verified /\ email.mailbox = target.mailbox
      /\ RemovedItsEmail(target) => email.mailbox = None
      /\ target.mailbox # None /\ (~wins \/ same) => email.mailbox = target.mailbox
      /\ wins \/ same => email.mailbox = source.mailbox
  BY MergedEmailIs
<1>2. /\ new.ids = MergedIds(target, source)
      /\ new.mailbox = email.mailbox /\ new.verified = email.verified
      /\ new.reminderOff = target.reminderOff
      /\ new.published = MergedPublished(target, source)
  BY ExtraAddsNothing DEF MergedRow
<1>3. MergedIds(target, source) \in [Providers -> Remotes \cup {None}]
  BY DEF MergedIds, Sound, Row
<1>4. \A p \in Providers : MergedIds(target, source)[p] # None =>
        ProviderOf[MergedIds(target, source)[p]] = p
  BY DEF MergedIds, Sound
<1>5. MergedPublished(target, source) \subseteq Fields
  BY DEF MergedPublished, Sound, Row
<1>6. new \in Row
  <2>1. new = [ids |-> new.ids, mailbox |-> email.mailbox, verified |-> email.verified,
               reminderOff |-> target.reminderOff,
               published |-> MergedPublished(target, source), born |-> new.born]
    BY DEF MergedRow
  <2>2. new.born \in Nat
    BY DEF MergedRow, Sound, Row
  <2>3. email.mailbox \in Mailboxes \cup {None} /\ email.verified \in BOOLEAN
    BY <1>1 DEF EmailFields
  <2>4. target.reminderOff \in BOOLEAN
    BY DEF Sound, Row
  <2> HIDE DEF new, email
  <2> QED BY <1>2, <1>3, <1>5, <2>1, <2>2, <2>3, <2>4 DEF Row
<1>7. \A f \in new.published :
        \/ f \in target.published /\ Shown(new, f) = Shown(target, f)
        \/ f \in source.published /\ Shown(new, f) = Shown(source, f)
  <2> SUFFICES ASSUME NEW f \in MergedPublished(target, source)
               PROVE  \/ f \in target.published /\ Shown(new, f) = Shown(target, f)
                      \/ f \in source.published /\ Shown(new, f) = Shown(source, f)
    BY <1>2
  <2>1. CASE f = "email"
    <3>1. \/ f \in target.published /\ (~wins \/ same)
          \/ f \in source.published /\ source.mailbox # None /\ (wins \/ same)
      BY <2>1 DEF MergedPublished
    <3> HIDE DEF new, email, wins
    <3> QED BY <1>1, <1>2, <2>1, <3>1 DEF Shown
  <2>2. CASE f # "email"
    <3>1. f \in Providers
      BY <1>5, <2>2, OwnersAssumption
    <3>2. \/ f \in target.published
          \/ f \in source.published /\ target.ids[f] = None /\ source.ids[f] # None
      BY <2>2 DEF MergedPublished
    <3>3. f \in target.published => target.ids[f] # None
      BY <2>2 DEF Shown
    <3> HIDE DEF new
    <3> QED BY <1>2, <2>2, <3>1, <3>2, <3>3 DEF Shown, MergedIds
  <2> QED BY <2>1, <2>2
<1> HIDE DEF new, email
<1> QED BY <1>1, <1>2, <1>4, <1>6, <1>7 DEF Sound, RemovedItsEmail, new

\* The persons of a merged row: all of the target's, and none but the two rows'.
LEMMA MergedPersons ==
  ASSUME NEW target, NEW source, NEW new, Sound(target), Sound(source), Sound(new),
         new.ids = MergedIds(target, source),
         new.verified => \/ target.verified /\ new.mailbox = target.mailbox
                         \/ source.verified /\ new.mailbox = source.mailbox,
         target.verified => new.verified /\ new.mailbox = target.mailbox
  PROVE  /\ PersonsOf(target) \subseteq PersonsOf(new)
         /\ PersonsOf(new) \subseteq PersonsOf(target) \cup PersonsOf(source)
<1> USE PersonsAre DEF Sound
<1>1. ASSUME NEW w \in PersonsOf(target) PROVE w \in PersonsOf(new)
  BY <1>1 DEF MergedIds
<1>2. ASSUME NEW w \in PersonsOf(new) PROVE w \in PersonsOf(target) \cup PersonsOf(source)
  BY <1>2 DEF MergedIds
<1> QED BY <1>1, <1>2

-------------------------------------------------------------------------------
(* The table: what keeps the invariant when a row changes or one is added *)

\* The sessions there may be after the rows in `gone` went and the persons of
\* row `i` may have got one.
SessionsFor(i, row, gone) ==
  {s \in session : s.id \notin gone} \cup {[who |-> w, id |-> i] : w \in PersonsOf(row)}

\* Row `i` becomes `row`, those in `gone` go: an edit, or a merge.
RowChange(i, row, gone) ==
  /\ account' = [j \in Ids |-> IF j = i THEN row ELSE IF j \in gone THEN None ELSE account[j]]
  /\ session' \subseteq SessionsFor(i, row, gone)
  /\ req' \in [Reqs -> Session \cup {None}]
  /\ \A r \in Reqs : req'[r] \in {req[r], None}
  /\ UNCHANGED <<created, organizers>>

\* What is written to row `i` keeps its persons and takes no login of a row
\* that stays.
Fits(i, row, gone) ==
  /\ Sound(row) /\ OnePerson(row)
  /\ PersonsOf(account[i]) \subseteq PersonsOf(row)
  /\ \A j \in Live \ (gone \cup {i}) : Distinct(row, account[j])

\* The histories follow: nobody else's choice changes, and `row` shows what was
\* chosen.
Consented(i, row, gone) ==
  /\ alias' \in [Ids -> Ids \cup {None}] /\ mergedInto' \in [Ids -> Ids \cup {None}]
  /\ consent' \in [Ids -> SUBSET (Mailboxes \cup Remotes)]
  /\ \A j \in Live \ (gone \cup {i}) : consent'[j] = consent[j]
  /\ \A f \in row.published : Shown(row, f) \in consent'[i]
  /\ \/ gone = {} /\ UNCHANGED <<alias, mergedInto>>
     \/ \E j \in gone : gone = {j} /\ MergeMoves([target |-> i, source |-> j])

LEMMA PersonsType ==
  ASSUME NEW row, Sound(row) PROVE PersonsOf(row) \subseteq Persons
<1>1. \A p \in Providers : row.ids[p] # None => row.ids[p] \in Remotes
  BY DEF Sound, Row
<1>2. row.verified => row.mailbox \in Mailboxes
  BY DEF Sound, Row
<1>3. row \in Row
  BY DEF Sound
<1> QED BY <1>1, <1>2, <1>3, PersonsAre, OwnersAssumption

\* The aliases stay as long as no account goes, whichever is added.
LEMMA AliasesStay ==
  ASSUME TypeOK, AliasesLead, Live' = Live \/ Live' = Live \cup {created + 1},
         created' \in {created, created + 1}, UNCHANGED <<alias, mergedInto>>
  PROVE  AliasesLead'
<1>1. PICK survivor \in [Ids -> Ids] : LeadTo(survivor)
  BY DEF AliasesLead
<1>2. created \in Nat /\ Ids \subseteq Nat
  BY OwnersAssumption DEF TypeOK, Ids
<1>3. LeadTo(survivor)'
  <2> SUFFICES ASSUME NEW i \in Ids, mergedInto[i] # None
               PROVE  /\ i \notin Live' /\ i <= created' /\ survivor[i] <= created'
                      /\ alias[i] = IF survivor[i] \in Live' THEN survivor[i] ELSE None
    BY <1>1 DEF LeadTo
  <2>1. /\ i \notin Live /\ i <= created /\ survivor[i] <= created /\ survivor[i] \in Ids
        /\ alias[i] = IF survivor[i] \in Live THEN survivor[i] ELSE None
    BY <1>1 DEF LeadTo
  <2>2. i # created + 1 /\ survivor[i] # created + 1
    BY <1>2, <2>1
  <2>3. i \notin Live' /\ (survivor[i] \in Live' <=> survivor[i] \in Live)
    BY <2>1, <2>2
  <2>4. i <= created' /\ survivor[i] <= created'
    <3>1. i \in Nat /\ survivor[i] \in Nat
      BY <1>2, <2>1
    <3>2. created' = created \/ created' = created + 1
      OBVIOUS
    <3> QED BY <1>2, <2>1, <3>1, <3>2
  <2> QED BY <2>1, <2>3, <2>4
<1> QED BY <1>1, <1>3 DEF AliasesLead

\* A merge leads to its target whatever led to its source.
LEMMA AliasesFollow ==
  ASSUME TypeOK, AliasesLead, FreshIds, NEW m, m.target \in Live, m.source \in Live,
         m.target # m.source, MergeMoves(m), Live' = Live \ {m.source}, UNCHANGED created
  PROVE  AliasesLead'
<1> DEFINE s == m.source
           t == m.target
<1>1. PICK survivor \in [Ids -> Ids] : LeadTo(survivor)
  BY DEF AliasesLead
<1>2. /\ s \in Ids /\ t \in Ids /\ s # None /\ s <= created /\ t <= created
      /\ mergedInto[s] = None /\ mergedInto[t] = None
      /\ t # None
  <2>1. s \in Ids /\ t \in Ids
    BY DEF Live
  <2>2. s <= created /\ t <= created
    BY DEF FreshIds, Live
  <2>3. mergedInto[s] = None /\ mergedInto[t] = None
    BY <1>1, <2>1 DEF LeadTo
  <2> QED BY <2>1, <2>2, <2>3, NoneIsNull
<1>3. /\ mergedInto' = [mergedInto EXCEPT ![s] = t] /\ mergedInto \in [Ids -> Ids \cup {None}]
      /\ alias' = [i \in Ids |-> IF i = s \/ alias[i] = s THEN t ELSE alias[i]]
  BY DEF MergeMoves, TypeOK
<1>4. t \in Live /\ s \in Live /\ s # t
  OBVIOUS
<1> HIDE DEF s, t
<1> DEFINE new == [i \in Ids |-> IF survivor[i] = s THEN t ELSE survivor[i]]
<1>5. new \in [Ids -> Ids] /\ \A i \in Ids : new[i] = IF survivor[i] = s THEN t ELSE survivor[i]
  BY <1>1, <1>2
<1>6. Live' = Live \ {s}
  BY DEF s
<1> HIDE DEF new
<1>7. ASSUME NEW i \in Ids
      PROVE  IF mergedInto'[i] = None THEN new[i] = i /\ alias'[i] = None
             ELSE /\ i \notin Live' /\ i <= created' /\ new[i] <= created'
                  /\ new[i] = new[mergedInto'[i]] /\ mergedInto'[new[i]] = None
                  /\ alias'[i] = IF new[i] \in Live' THEN new[i] ELSE None
  <2>1. CASE i = s
    <3>1. mergedInto'[i] = t /\ alias'[i] = t /\ survivor[i] = s /\ survivor[t] = t
      BY <1>1, <1>2, <1>3, <2>1 DEF LeadTo
    <3>2. new[i] = t /\ new[t] = t /\ mergedInto'[t] = None
      BY <1>2, <1>3, <1>4, <1>5, <2>1, <3>1
    <3> QED BY <1>2, <1>4, <1>6, <2>1, <3>1, <3>2
  <2>2. CASE i # s /\ mergedInto[i] = None
    <3>1. mergedInto'[i] = None /\ survivor[i] = i /\ alias[i] = None
      BY <1>1, <1>3, <2>2 DEF LeadTo
    <3> QED BY <1>2, <1>3, <1>5, <2>2, <3>1
  <2>3. CASE i # s /\ mergedInto[i] # None
    <3>1. /\ mergedInto'[i] = mergedInto[i] /\ mergedInto[i] \in Ids
          /\ i \notin Live /\ i <= created /\ survivor[i] <= created
          /\ survivor[i] = survivor[mergedInto[i]] /\ mergedInto[survivor[i]] = None
          /\ alias[i] = IF survivor[i] \in Live THEN survivor[i] ELSE None
      BY <1>1, <1>3, <2>3 DEF LeadTo
    <3>2. CASE survivor[i] = s
      <4>1. alias'[i] = t /\ new[i] = t /\ new[mergedInto[i]] = t
        BY <1>2, <1>3, <1>4, <1>5, <3>1, <3>2
      <4>2. mergedInto'[t] = None
        BY <1>2, <1>3, <1>4
      <4> QED BY <1>2, <1>4, <1>6, <2>3, <3>1, <4>1, <4>2
    <3>3. CASE survivor[i] # s
      <4>1. new[i] = survivor[i] /\ new[mergedInto[i]] = survivor[i]
        BY <1>5, <3>1, <3>3
      <4>2. mergedInto'[survivor[i]] = None
        BY <1>1, <1>3, <3>1, <3>3
      <4>3. alias[i] # s
        BY <1>2, <3>1, <3>3
      <4>4. alias'[i] = alias[i]
        BY <1>3, <2>3, <4>3
      <4> QED BY <1>6, <2>3, <3>1, <3>3, <4>1, <4>2, <4>4
    <3> QED BY <3>2, <3>3
  <2> QED BY <2>1, <2>2, <2>3
<1>8. LeadTo(new)'
  BY <1>7 DEF LeadTo
<1> QED BY <1>5, <1>8 DEF AliasesLead

\* A deleted account takes the aliases to it along.
LEMMA AliasesCascade ==
  ASSUME TypeOK, AliasesLead, NEW me \in Live, Live' = Live \ {me},
         alias' = [i \in Ids |-> IF alias[i] = me THEN None ELSE alias[i]],
         UNCHANGED <<created, mergedInto>>
  PROVE  AliasesLead'
<1>1. PICK survivor \in [Ids -> Ids] : LeadTo(survivor)
  BY DEF AliasesLead
<1>2. \A i \in Ids : alias'[i] = IF alias[i] = me THEN None ELSE alias[i]
  OBVIOUS
<1>3. LeadTo(survivor)'
  BY <1>1, <1>2 DEF LeadTo
<1> QED BY <1>1, <1>3 DEF AliasesLead

LEMMA RowChangeKeepsInv ==
  ASSUME AccountsInv, NEW i \in Live, NEW gone \in SUBSET (Live \ {i}), NEW row,
         RowChange(i, row, gone), Fits(i, row, gone), Consented(i, row, gone)
  PROVE  AccountsInv'
<1> USE DEF AccountsInv
<1>1. /\ Live \subseteq Ids /\ i \in Ids /\ gone \subseteq Ids
      /\ row \in Row /\ row # None /\ Sound(row)
  BY NoneIsNull DEF Live, Fits, Sound
<1>2. /\ account'[i] = row
      /\ \A j \in Ids \ (gone \cup {i}) : account'[j] = account[j]
      /\ \A j \in gone : account'[j] = None
      /\ Live' = Live \ gone
      /\ i \in Live'
  BY <1>1 DEF RowChange, Live
<1>3. \A s \in session' : \/ s \in session /\ s.id \notin gone
                          \/ s.id = i /\ s.who \in PersonsOf(row) /\ s \in Session
  BY <1>1, PersonsType DEF RowChange, SessionsFor, Session
<1>4. TypeOK'
  <2>1. account' \in [Ids -> Row \cup {None}]
    BY <1>1 DEF TypeOK, RowChange
  <2>2. session' \subseteq Session
    BY <1>3 DEF TypeOK
  <2> QED BY <2>1, <2>2 DEF TypeOK, RowChange, Consented
<1>5. SoundTable'
  <2>1. \A j \in Live' : Sound(account'[j])
    BY <1>1, <1>2 DEF SoundTable
  <2> QED BY <2>1 DEF SoundTable
<1>6. FreshIds'
  BY <1>1, <1>2 DEF FreshIds, RowChange, Live
<1>7. Held'
  <2>1. ASSUME NEW j \in Live' PROVE OnePerson(account'[j])
    <3>1. CASE j = i
      BY <1>2, <3>1 DEF Fits
    <3>2. CASE j # i
      <4>1. account'[j] = account[j] /\ j \in Live
        BY <1>1, <1>2, <3>2
      <4> QED BY <4>1 DEF Held
    <3> QED BY <3>1, <3>2
  <2>2. ASSUME NEW s \in session'
        PROVE  s.id \in Live' /\ s.who \in PersonsOf(account'[s.id])
    <3>1. CASE s.id = i
      BY <1>2, <1>3, <3>1 DEF Held, Fits
    <3>2. CASE s.id # i
      BY <1>1, <1>2, <1>3, <3>2 DEF Held
    <3> QED BY <3>1, <3>2
  <2>3. ASSUME NEW r \in Reqs, req'[r] # None, req'[r].id \in Live'
        PROVE  req'[r].who \in PersonsOf(account'[req'[r].id])
    <3>1. req'[r] = req[r] /\ req[r] # None
      BY <2>3 DEF RowChange
    <3>2. req[r].who \in PersonsOf(account[req[r].id])
      BY <1>2, <2>3, <3>1 DEF Held
    <3> QED BY <1>1, <1>2, <2>3, <3>1, <3>2 DEF Fits
  <2> QED BY <2>1, <2>2, <2>3 DEF Held
<1>8. ApartByLogins'
  <2> SUFFICES ASSUME NEW j \in Live', NEW k \in Live', j # k
               PROVE  Distinct(account'[j], account'[k])
    BY DEF ApartByLogins
  <2>1. CASE j = i
    BY <1>1, <1>2, <2>1 DEF Fits
  <2>2. CASE k = i
    <3>1. Distinct(row, account[j])
      BY <1>1, <1>2, <2>2 DEF Fits
    <3>2. account'[j] = account[j] /\ account'[k] = row
      BY <1>1, <1>2, <2>2
    <3> QED BY <3>1, <3>2 DEF Distinct
  <2>3. CASE j # i /\ k # i
    BY <1>1, <1>2, <2>3 DEF ApartByLogins
  <2> QED BY <2>1, <2>2, <2>3
<1>9. EveryoneCanGetIn'
  <2> SUFFICES ASSUME NEW j \in Live', j \notin organizers' PROVE HasWayIn(account'[j])
    BY DEF EveryoneCanGetIn
  <2>1. j \in Live /\ HasWayIn(account[j])
    BY <1>2 DEF EveryoneCanGetIn, RowChange
  <2>2. CASE j = i
    <3>1. account[i] \in Row
      BY DEF SoundTable, Sound
    <3> QED BY <1>1, <1>2, <2>1, <2>2, <3>1, WayInIsSomeones DEF Fits
  <2>3. CASE j # i
    BY <1>1, <1>2, <2>1, <2>3
  <2> QED BY <2>2, <2>3
<1>10. ShownByConsent'
  <2> SUFFICES ASSUME NEW j \in Live', NEW f \in account'[j].published
               PROVE  Shown(account'[j], f) \in consent'[j]
    BY DEF ShownByConsent
  <2>1. CASE j = i
    BY <1>2, <2>1 DEF Consented
  <2>2. CASE j # i
    BY <1>1, <1>2, <2>2 DEF Consented, ShownByConsent
  <2> QED BY <2>1, <2>2
<1>11. AliasesLead'
  <2>1. CASE gone = {} /\ UNCHANGED <<alias, mergedInto>>
    BY <1>2, <2>1, AliasesStay DEF RowChange
  <2>2. ASSUME NEW j \in gone, gone = {j}, MergeMoves([target |-> i, source |-> j])
        PROVE  AliasesLead'
    <3> DEFINE m == [target |-> i, source |-> j]
    <3>1. m.target = i /\ m.source = j /\ MergeMoves(m)
      BY <2>2
    <3> HIDE DEF m
    <3> QED BY <1>2, <2>2, <3>1, AliasesFollow DEF RowChange
  <2> QED BY <2>1, <2>2 DEF Consented
<1> QED BY <1>4, <1>5, <1>6, <1>7, <1>8, <1>9, <1>10, <1>11

\* A row is added under the next id.
RowAdded(row) ==
  /\ created < MaxAccounts /\ created' = created + 1
  /\ account' = [account EXCEPT ![created + 1] = row]
  /\ session' \subseteq SessionsFor(created + 1, row, {})
  /\ organizers' = organizers \/ organizers' = organizers \cup {created + 1}
  /\ HasWayIn(row) \/ created + 1 \in organizers'
  /\ UNCHANGED <<alias, req, mergedInto, consent>>

LEMMA AddedRowKeepsInv ==
  ASSUME AccountsInv, NEW row, RowAdded(row), Sound(row), OnePerson(row),
         row.published = {}, \A j \in Live : Distinct(row, account[j])
  PROVE  AccountsInv'
<1> USE DEF AccountsInv
<1> DEFINE new == created + 1
<1>1. /\ new \in Ids /\ new \notin Live /\ row # None /\ row \in Row
      /\ created \in Nat /\ Live \subseteq Ids
  BY NoneIsNull, OwnersAssumption DEF RowAdded, TypeOK, Ids, FreshIds, Live, Sound
<1>2. /\ account'[new] = row
      /\ \A j \in Ids \ {new} : account'[j] = account[j]
      /\ Live' = Live \cup {new}
  BY <1>1 DEF RowAdded, TypeOK, Live
<1>3. \A s \in session' : \/ s \in session
                          \/ s.id = new /\ s.who \in PersonsOf(row) /\ s \in Session
  BY <1>1, PersonsType DEF RowAdded, SessionsFor, Session
<1>4. TypeOK'
  <2>1. session' \subseteq Session
    BY <1>3 DEF TypeOK
  <2>2. account' \in [Ids -> Row \cup {None}]
    BY <1>1 DEF TypeOK, RowAdded
  <2>3. created' \in 0..MaxAccounts /\ organizers' \subseteq Ids
    BY <1>1, OwnersAssumption DEF TypeOK, RowAdded
  <2> QED BY <2>1, <2>2, <2>3 DEF TypeOK, RowAdded
<1>5. SoundTable'
  <2>1. \A j \in Live' : Sound(account'[j])
    BY <1>1, <1>2 DEF SoundTable
  <2> QED BY <2>1 DEF SoundTable
<1>6. FreshIds'
  <2>1. \A j \in Ids : account'[j] # None => j <= created'
    BY <1>1, <1>2 DEF FreshIds, RowAdded, Ids
  <2>2. \A r \in Reqs : req'[r] # None => req'[r].id <= created'
    BY <1>1 DEF FreshIds, RowAdded, TypeOK, Session, Ids
  <2>3. organizers' \subseteq 1..created'
    <3>1. organizers' \subseteq 1..created \cup {created + 1} /\ created' = created + 1
      BY DEF FreshIds, RowAdded
    <3> QED BY <1>1, <3>1
  <2> QED BY <2>1, <2>2, <2>3 DEF FreshIds
<1>7. Held'
  <2>1. \A j \in Live' : OnePerson(account'[j])
    BY <1>1, <1>2 DEF Held
  <2>2. \A s \in session' : s.id \in Live' /\ s.who \in PersonsOf(account'[s.id])
    BY <1>1, <1>2, <1>3 DEF Held
  <2>3. ASSUME NEW r \in Reqs, req'[r] # None, req'[r].id \in Live'
        PROVE  req'[r].who \in PersonsOf(account'[req'[r].id])
    <3>1. req'[r] = req[r] /\ req[r].id # new
      BY <1>1, <2>3 DEF RowAdded, FreshIds
    <3>2. req[r].who \in PersonsOf(account[req[r].id])
      BY <1>2, <2>3, <3>1 DEF Held
    <3> QED BY <1>1, <1>2, <2>3, <3>1, <3>2
  <2> QED BY <2>1, <2>2, <2>3 DEF Held
<1>8. ApartByLogins'
  <2> SUFFICES ASSUME NEW j \in Live', NEW k \in Live', j # k
               PROVE  Distinct(account'[j], account'[k])
    BY DEF ApartByLogins
  <2>1. CASE j = new
    BY <1>1, <1>2, <2>1
  <2>2. CASE k = new
    <3>1. Distinct(row, account[j]) /\ account'[j] = account[j] /\ account'[k] = row
      BY <1>1, <1>2, <2>2
    <3> QED BY <3>1 DEF Distinct
  <2>3. CASE j # new /\ k # new
    BY <1>1, <1>2, <2>3 DEF ApartByLogins
  <2> QED BY <2>1, <2>2, <2>3
<1>9. EveryoneCanGetIn'
  BY <1>1, <1>2 DEF EveryoneCanGetIn, RowAdded
<1>10. ShownByConsent'
  BY <1>1, <1>2 DEF ShownByConsent, RowAdded
<1>11. AliasesLead'
  BY <1>2, AliasesStay DEF RowAdded
<1> QED BY <1>4, <1>5, <1>6, <1>7, <1>8, <1>9, <1>10, <1>11

-------------------------------------------------------------------------------
(* The edits the handlers make of a row *)

LEMMA EmailAfterPersons ==
  ASSUME NEW table, NEW id, Sound(table[id]), NEW remote \in Remotes, NEW c \in Claim(remote)
  PROVE  LET new == EmailAfter(table, c, id)
         IN /\ PersonsOf(table[id]) \subseteq PersonsOf(new)
            /\ PersonsOf(new) \subseteq PersonsOf(table[id]) \cup {Owner[remote]}
<1> DEFINE row == table[id]
           new == EmailAfter(table, c, id)
<1>1. /\ Sound(row) /\ Sound(new) /\ new.ids = row.ids
      /\ row.verified => new.verified /\ new.mailbox = row.mailbox
      /\ new.verified /\ ~row.verified => c.vouched /\ new.mailbox = c.mailbox
  BY EmailAfterIs DEF SameButEmail
<1>2. c.vouched => Owner[c.mailbox] = Owner[remote]
  BY DEF Claim
<1>3. row \in Row /\ new \in Row
  BY <1>1 DEF Sound
<1> HIDE DEF row, new
<1>4. ASSUME NEW w \in PersonsOf(row) PROVE w \in PersonsOf(new)
  BY <1>1, <1>3, <1>4, PersonsAre
<1>5. ASSUME NEW w \in PersonsOf(new) PROVE w \in PersonsOf(row) \cup {Owner[remote]}
  <2>1. CASE \E p \in Providers : new.ids[p] # None /\ w = Owner[new.ids[p]]
    BY <1>1, <1>3, <2>1, PersonsAre
  <2>2. CASE new.verified /\ w = Owner[new.mailbox]
    <3>1. CASE row.verified
      BY <1>1, <1>3, <2>2, <3>1, PersonsAre
    <3>2. CASE ~row.verified
      BY <1>1, <1>2, <2>2, <3>2
    <3> QED BY <3>1, <3>2
  <2> QED BY <1>3, <1>5, <2>1, <2>2, PersonsAre
<1> QED BY <1>4, <1>5 DEF row, new

LEMMA ProvenNowPersons ==
  ASSUME NEW row, Sound(row), NEW mailbox \in Mailboxes
  PROVE  LET new == ProvenNow(row, mailbox)
         IN /\ Owner[mailbox] \in PersonsOf(new)
            /\ PersonsOf(new) \subseteq PersonsOf(row) \cup {Owner[mailbox]}
<1> DEFINE new == ProvenNow(row, mailbox)
<1>1. /\ Sound(row) /\ Sound(new) /\ new.ids = row.ids
      /\ new.verified /\ new.mailbox = mailbox
  BY ProvenNowIs DEF SameButEmail
<1>2. row \in Row /\ new \in Row
  BY <1>1 DEF Sound
<1> HIDE DEF new
<1>3. Owner[mailbox] \in PersonsOf(new)
  BY <1>1, <1>2, PersonsAre
<1>4. ASSUME NEW w \in PersonsOf(new) PROVE w \in PersonsOf(row) \cup {Owner[mailbox]}
  BY <1>1, <1>2, <1>4, PersonsAre
<1> QED BY <1>3, <1>4 DEF new

\* A provider's user linked where its column is free or has that user already.
LEMMA LinkIs ==
  ASSUME NEW row, Sound(row), NEW remote \in Remotes,
         row.ids[ProviderOf[remote]] \in {None, remote}
  PROVE  LET new == Link(row, remote)
         IN /\ Sound(new)
            /\ new.ids = [row.ids EXCEPT ![ProviderOf[remote]] = remote]
            /\ new.mailbox = row.mailbox /\ new.verified = row.verified
            /\ new.reminderOff = row.reminderOff /\ new.published = row.published
            /\ \A f \in Fields : Shown(row, f) # None => Shown(new, f) = Shown(row, f)
            /\ PersonsOf(row) \subseteq PersonsOf(new)
            /\ PersonsOf(new) \subseteq PersonsOf(row) \cup {Owner[remote]}
            /\ Owner[remote] \in PersonsOf(new)
<1> DEFINE new == Link(row, remote)
           p == ProviderOf[remote]
<1>1. p \in Providers /\ remote # None
  BY OwnersAssumption
<1>2. /\ new.ids = [row.ids EXCEPT ![p] = remote]
      /\ new.mailbox = row.mailbox /\ new.verified = row.verified
      /\ new.reminderOff = row.reminderOff /\ new.published = row.published
      /\ new \in Row /\ row \in Row /\ row.ids \in [Providers -> Remotes \cup {None}]
  BY <1>1 DEF Link, Sound, Row
<1> HIDE DEF new
<1>3. /\ new.ids[p] = remote
      /\ \A q \in Providers \ {p} : new.ids[q] = row.ids[q]
  BY <1>1, <1>2
<1> HIDE DEF p
<1>4. Sound(new)
  BY <1>1, <1>2, <1>3 DEF Sound, p
<1>5. \A f \in Fields : Shown(row, f) # None => Shown(new, f) = Shown(row, f)
  BY <1>1, <1>2, <1>3, OwnersAssumption DEF Shown, p
<1>6. \A q \in Providers : row.ids[q] # None => new.ids[q] = row.ids[q]
  BY <1>3 DEF p
<1>7. ASSUME NEW w \in PersonsOf(row) PROVE w \in PersonsOf(new)
  BY <1>2, <1>6, <1>7, PersonsAre
<1>8. ASSUME NEW w \in PersonsOf(new) PROVE w \in PersonsOf(row) \cup {Owner[remote]}
  BY <1>2, <1>3, <1>8, PersonsAre
<1>9. Owner[remote] \in PersonsOf(new)
  BY <1>1, <1>2, <1>3, PersonsAre
<1> QED BY <1>2, <1>4, <1>5, <1>7, <1>8, <1>9 DEF new, p

\* What is published of a row whose address fields alone went to others was
\* chosen, as far as it was.
LEMMA SameShown ==
  ASSUME AccountsInv, NEW i \in Live, NEW new, SameButEmail(account[i], new)
  PROVE  /\ \A f \in new.published : Shown(new, f) = Shown(account[i], f)
         /\ \A f \in new.published : Shown(new, f) \in consent[i]
         /\ \A f \in account[i].published : Shown(account[i], f) # None
<1>1. \A f \in account[i].published : Shown(account[i], f) \in consent[i]
  BY DEF AccountsInv, ShownByConsent
<1>2. \A f \in new.published : Shown(new, f) = Shown(account[i], f)
  BY DEF SameButEmail, Shown
<1>3. None \notin consent[i]
  BY OwnersAssumption DEF AccountsInv, TypeOK, Live
<1> QED BY <1>1, <1>2, <1>3 DEF SameButEmail

LEMMA LiveRow ==
  ASSUME AccountsInv, NEW i \in Live
  PROVE  /\ i \in Ids /\ account[i] # None /\ account[i] \in Row /\ Sound(account[i])
         /\ OnePerson(account[i])
         /\ \A f \in account[i].published :
              f \in Fields /\ Shown(account[i], f) \in consent[i] /\ Shown(account[i], f) # None
         /\ consent[i] \in SUBSET (Mailboxes \cup Remotes)
<1>1. i \in Ids /\ account[i] # None /\ account[i] \in Row /\ Sound(account[i])
  BY DEF AccountsInv, SoundTable, Sound, Live
<1>2. OnePerson(account[i])
  BY DEF AccountsInv, Held
<1>3. \A f \in account[i].published : f \in Fields /\ Shown(account[i], f) \in consent[i]
  BY <1>1 DEF AccountsInv, ShownByConsent, Row
<1>4. consent[i] \in SUBSET (Mailboxes \cup Remotes)
  BY <1>1 DEF AccountsInv, TypeOK
<1> QED BY <1>1, <1>2, <1>3, <1>4, OwnersAssumption

\* The account a request acts on belongs to the person who sent it.
LEMMA ActingIs ==
  ASSUME AccountsInv, NEW r \in Reqs, Acting(r)
  PROVE  /\ req[r].id \in Live /\ req[r] \in Session
         /\ PersonsOf(account[req[r].id]) = {req[r].who}
<1>1. req[r].id \in Live /\ req[r] # None /\ req[r] \in Session
  BY DEF Acting, AccountsInv, TypeOK
<1>2. req[r].who \in PersonsOf(account[req[r].id]) /\ OnePerson(account[req[r].id])
  BY <1>1 DEF AccountsInv, Held
<1> QED BY <1>1, <1>2 DEF OnePerson

\* A row written alone, with the choice of what it shows left as it is.
LEMMA EditKeepsInv ==
  ASSUME AccountsInv, NEW i \in Live, NEW row, Fits(i, row, {}),
         account' = [account EXCEPT ![i] = row],
         session' \subseteq SessionsFor(i, row, {}),
         req' \in [Reqs -> Session \cup {None}], \A r \in Reqs : req'[r] \in {req[r], None},
         \A f \in row.published : Shown(row, f) \in consent[i],
         UNCHANGED <<created, organizers, alias, mergedInto, consent>>
  PROVE  AccountsInv'
<1>1. account' = [j \in Ids |-> IF j = i THEN row ELSE IF j \in {} THEN None ELSE account[j]]
  BY LiveRow DEF AccountsInv, TypeOK
<1>2. RowChange(i, row, {})
  BY <1>1 DEF RowChange
<1>3. Consented(i, row, {})
  BY DEF Consented, AccountsInv, TypeOK
<1> QED BY <1>2, <1>3, RowChangeKeepsInv

-------------------------------------------------------------------------------
(* Steps that leave the table alone *)

\* A request answered, or authenticated by a session that is there; sessions
\* may end.
LEMMA QuietKeepsInv ==
  ASSUME AccountsInv, session' \subseteq session,
         req' \in [Reqs -> Session \cup {None}],
         \A r \in Reqs : req'[r] \in {req[r], None} \cup session,
         UNCHANGED <<account, created, organizers, alias, mergedInto, consent>>
  PROVE  AccountsInv'
<1> USE DEF AccountsInv
<1>1. Live' = Live
  BY DEF Live
<1>2. TypeOK'
  BY DEF TypeOK
<1>3. SoundTable' /\ ApartByLogins' /\ EveryoneCanGetIn' /\ ShownByConsent'
  BY <1>1 DEF SoundTable, ApartByLogins, EveryoneCanGetIn, ShownByConsent
<1>4. \A s \in session : s.id <= created
  BY DEF Held, FreshIds, Live
<1>5. FreshIds'
  BY <1>4 DEF FreshIds
<1>6. Held'
  BY <1>1 DEF Held
<1>7. AliasesLead'
  BY <1>1, AliasesStay
<1> QED BY <1>2, <1>3, <1>5, <1>6, <1>7

LEMMA ReqTyped ==
  ASSUME AccountsInv, NEW r \in Reqs, NEW x \in Session \cup {None},
         req' = [req EXCEPT ![r] = x]
  PROVE  /\ req' \in [Reqs -> Session \cup {None}]
         /\ \A q \in Reqs : req'[q] \in {req[q], x}
BY DEF AccountsInv, TypeOK

LEMMA AnsweredIs ==
  ASSUME AccountsInv, NEW r \in Reqs, Answered(r)
  PROVE  /\ req' \in [Reqs -> Session \cup {None}]
         /\ \A q \in Reqs : req'[q] \in {req[q], None}
BY ReqTyped DEF Answered

LEMMA RefusedKeepsInv ==
  ASSUME AccountsInv, NEW r \in Reqs, Refused(r) PROVE AccountsInv'
BY QuietKeepsInv, AnsweredIs DEF Refused

LEMMA AuthenticateKeepsInv ==
  ASSUME AccountsInv, NEW r \in Reqs, Authenticate(r) PROVE AccountsInv'
<1>1. PICK s \in session : req' = [req EXCEPT ![r] = s]
  BY DEF Authenticate
<1>2. s \in Session
  BY DEF AccountsInv, TypeOK
<1> QED BY <1>1, <1>2, ReqTyped, QuietKeepsInv DEF Authenticate

LEMMA EndSessionKeepsInv ==
  ASSUME AccountsInv, EndSession PROVE AccountsInv'
<1>1. req' \in [Reqs -> Session \cup {None}]
  BY DEF AccountsInv, TypeOK, EndSession
<1> QED BY <1>1, QuietKeepsInv DEF EndSession

\* An address an owner removed stays removed.
RemovedKept ==
  \A i \in Live : RemovedItsEmail(account[i]) /\ account'[i] # None
                   => account'[i].mailbox = None

LEMMA EditKeepsRemoved ==
  ASSUME AccountsInv, NEW i \in Live, NEW row, account' = [account EXCEPT ![i] = row],
         RemovedItsEmail(account[i]) => row.mailbox = None
  PROVE  RemovedKept
<1>1. /\ account \in [Ids -> Row \cup {None}] /\ i \in Ids /\ Live \subseteq Ids
  BY DEF AccountsInv, TypeOK, Live
<1> QED BY <1>1 DEF RemovedKept, RemovedItsEmail

LEMMA SameTableKeepsRemoved ==
  ASSUME AccountsInv, UNCHANGED account PROVE RemovedKept
BY DEF RemovedKept, RemovedItsEmail

LEMMA AddedRowKeepsRemoved ==
  ASSUME AccountsInv, NEW row, created < MaxAccounts,
         account' = [account EXCEPT ![created + 1] = row]
  PROVE  RemovedKept
<1>1. /\ account \in [Ids -> Row \cup {None}] /\ Live \subseteq Ids
      /\ \A i \in Live : i # created + 1
  BY DEF AccountsInv, TypeOK, FreshIds, Live, Ids
<1> QED BY <1>1 DEF RemovedKept, RemovedItsEmail

-------------------------------------------------------------------------------
(* The account's own settings *)

\* An owner's edit that leaves a way in keeps the one person the logins are of.
LEMMA OwnEditFits ==
  ASSUME AccountsInv, NEW r \in Reqs, Acting(r), NEW row, Sound(row), HasWayIn(row),
         \A p \in Providers : row.ids[p] \in {account[req[r].id].ids[p], None},
         row.verified => /\ account[req[r].id].verified
                         /\ row.mailbox = account[req[r].id].mailbox
  PROVE  Fits(req[r].id, row, {})
<1> DEFINE me == req[r].id
<1>1. me \in Live /\ Sound(account[me]) /\ account[me] \in Row /\ row \in Row
  BY ActingIs, LiveRow DEF Sound
<1>2. PersonsOf(account[me]) = {req[r].who}
  BY ActingIs
<1> HIDE DEF me
<1>3. PersonsOf(row) \subseteq PersonsOf(account[me])
  <2> SUFFICES ASSUME NEW w \in PersonsOf(row) PROVE w \in PersonsOf(account[me])
    OBVIOUS
  <2> QED BY <1>1, PersonsAre DEF me
<1>4. PersonsOf(row) = {req[r].who}
  BY <1>1, <1>2, <1>3, WayInIsSomeones
<1>5. ASSUME NEW j \in Live \ {me} PROVE Distinct(row, account[j])
  <2>1. Distinct(account[me], account[j])
    BY <1>1, <1>5 DEF AccountsInv, ApartByLogins
  <2> QED BY <2>1 DEF Distinct, me
<1> QED BY <1>2, <1>4, <1>5 DEF Fits, OnePerson, me

LEMMA DisconnectKeepsInv ==
  ASSUME AccountsInv, NEW r \in Reqs, Disconnect(r) PROVE AccountsInv'
<1> DEFINE me == req[r].id
<1>1. Acting(r) /\ me \in Live
  BY ActingIs DEF Disconnect
<1>2. PICK p \in Providers :
        LET without == [account[me] EXCEPT !.ids[p] = None, !.published = @ \ {p}]
        IN IF ~DisconnectedStaysOpen(without) THEN Refused(r)
           ELSE /\ account' = [account EXCEPT ![me] = without]
                /\ Answered(r)
                /\ UNCHANGED <<created, organizers, session, alias, mergedInto, consent>>
  BY DEF Disconnect
<1> DEFINE row == account[me]
           without == [row EXCEPT !.ids[p] = None, !.published = @ \ {p}]
<1>3. CASE ~DisconnectedStaysOpen(without)
  BY <1>2, <1>3, RefusedKeepsInv
<1>4. CASE DisconnectedStaysOpen(without)
  <2>1. Sound(row) /\ row \in Row
    BY <1>1, LiveRow
  <2>2. /\ without.mailbox = row.mailbox /\ without.verified = row.verified
        /\ without.published = row.published \ {p}
        /\ without.ids = [row.ids EXCEPT ![p] = None]
        /\ without \in Row
    BY <2>1 DEF Row
  <2>3. \A q \in Providers : without.ids[q] = IF q = p THEN None ELSE row.ids[q]
    BY <2>1, <2>2 DEF Row
  <2>4. Sound(without)
    BY <2>1, <2>2, <2>3 DEF Sound
  <2>5. \A f \in without.published : Shown(without, f) \in consent[me]
    <3>1. \A f \in without.published : /\ f \in row.published /\ f # p /\ f \in Fields
                                       /\ Shown(row, f) \in consent[me]
      BY <1>1, <2>2, LiveRow
    <3> QED BY <2>2, <2>3, <3>1, OwnersAssumption DEF Shown
  <2>6. Fits(me, without, {})
    <3> HIDE DEF without
    <3> QED BY <1>1, <1>4, <2>2, <2>3, <2>4, OwnEditFits DEF DisconnectedStaysOpen
  <2>7. session' \subseteq SessionsFor(me, without, {})
    BY <1>2, <1>4 DEF SessionsFor
  <2> HIDE DEF without
  <2> QED BY <1>1, <1>2, <1>4, <2>5, <2>6, <2>7, AnsweredIs, EditKeepsInv DEF without
<1> QED BY <1>3, <1>4

LEMMA PatchSettingsKeepsInv ==
  ASSUME AccountsInv, NEW r \in Reqs, PatchSettings(r) PROVE AccountsInv' /\ RemovedKept
<1> DEFINE me == req[r].id
           row == account[me]
<1>1. Acting(r) /\ me \in Live /\ Sound(row) /\ row \in Row
  BY ActingIs, LiveRow DEF PatchSettings
<1>2. PICK removes \in BOOLEAN, fields \in (SUBSET Fields) \cup {None},
           off \in BOOLEAN \cup {None} :
        LET applied == removes /\ row.mailbox # None
            emailed == IF applied THEN WithEmail(row, NoEmail) ELSE row
            allowed == IF fields # None THEN Presentable(emailed, fields)
                       ELSE IF removes THEN Presentable(emailed, row.published)
                       ELSE row.published
        IN IF applied /\ LocksOut(row, NoEmail)
             THEN Refused(r)
             ELSE /\ account' = [account EXCEPT ![me] =
                       [emailed EXCEPT !.published = allowed,
                          !.reminderOff = IF off # None THEN off
                                          ELSE IF applied THEN TRUE ELSE @]]
                  /\ consent' = IF fields = None THEN consent
                       ELSE [consent EXCEPT ![me] = {Shown(emailed, f) : f \in allowed}]
                  /\ Answered(r)
                  /\ UNCHANGED <<created, organizers, session, alias, mergedInto>>
  BY DEF PatchSettings
<1> DEFINE applied == removes /\ row.mailbox # None
           emailed == IF applied THEN WithEmail(row, NoEmail) ELSE row
           allowed == IF fields # None THEN Presentable(emailed, fields)
                      ELSE IF removes THEN Presentable(emailed, row.published)
                      ELSE row.published
           new == [emailed EXCEPT !.published = allowed,
                     !.reminderOff = IF off # None THEN off
                                     ELSE IF applied THEN TRUE ELSE @]
<1>3. CASE applied /\ LocksOut(row, NoEmail)
  BY <1>2, <1>3, RefusedKeepsInv, SameTableKeepsRemoved DEF Refused
<1>4. CASE ~(applied /\ LocksOut(row, NoEmail))
  <2>1. /\ account' = [account EXCEPT ![me] = new]
        /\ consent' = IF fields = None THEN consent
                      ELSE [consent EXCEPT ![me] = {Shown(emailed, f) : f \in allowed}]
        /\ Answered(r)
        /\ UNCHANGED <<created, organizers, session, alias, mergedInto>>
    BY <1>2, <1>4
  <2>2. /\ Sound(emailed) /\ emailed.ids = row.ids /\ emailed.published = row.published
        /\ emailed.reminderOff = row.reminderOff
        /\ emailed.verified => row.verified /\ emailed.mailbox = row.mailbox
        /\ ~applied => emailed = row
        /\ applied => emailed.mailbox = None
    <3>1. NoEmail \in EmailFields /\ ~NoEmail.verified /\ NoEmail.mailbox = None
      BY DEF NoEmail, EmailFields
    <3> QED BY <1>1, <3>1, WithEmailIs
  <2>3. HasWayIn(emailed)
    <3>1. HasWayIn(row)
      BY <1>1, ActingIs, WayInIsSomeones
    <3> QED BY <1>4, <3>1, <2>2 DEF LocksOut
  <2>4. allowed \subseteq Fields
    BY <1>1 DEF Presentable, Row
  <2>5. /\ new.ids = emailed.ids /\ new.mailbox = emailed.mailbox
        /\ new.verified = emailed.verified /\ new.published = allowed
        /\ new \in Row
    <3>1. emailed \in Row
      BY <2>2 DEF Sound
    <3> HIDE DEF emailed, allowed, applied
    <3> QED BY <2>4, <3>1 DEF Row
  <2> HIDE DEF new
  <2>6. Sound(new) /\ HasWayIn(new)
    <3> HIDE DEF emailed, allowed
    <3>1. Sound(new)
      BY <2>2, <2>5 DEF Sound
    <3>2. HasWayIn(new)
      BY <2>3, <2>5 DEF HasWayIn, Linked
    <3> QED BY <3>1, <3>2
  <2>7. \A f : Shown(new, f) = Shown(emailed, f)
    BY <2>5 DEF Shown
  <2>8. Fits(me, new, {})
    BY <1>1, <2>2, <2>5, <2>6, OwnEditFits
  <2>9. session' \subseteq SessionsFor(me, new, {})
    BY <2>1 DEF SessionsFor
  <2>10. \A f \in allowed : Shown(emailed, f) \in Mailboxes \cup Remotes \cup {None}
    BY <2>2, <2>4, OwnersAssumption DEF Shown, Sound, Row
  <2>11. ASSUME fields = None PROVE AccountsInv'
    <3>1. allowed \subseteq row.published
      BY <2>11 DEF Presentable
    <3>2. \A f \in allowed : Shown(emailed, f) = Shown(row, f)
      <4>1. CASE ~applied
        BY <2>2, <4>1
      <4>2. CASE applied
        <5>1. \A f \in allowed : Shown(emailed, f) # None
          BY <2>11, <4>2 DEF Presentable
        <5>2. \A f \in allowed : f # "email"
          BY <2>2, <4>2, <5>1 DEF Shown
        <5> QED BY <2>2, <5>2 DEF Shown
      <4> QED BY <4>1, <4>2
    <3>3. \A f \in new.published : Shown(new, f) \in consent[me]
      BY <1>1, <2>5, <2>7, <3>1, <3>2, LiveRow
    <3>4. UNCHANGED <<created, organizers, alias, mergedInto, consent>>
      BY <2>1, <2>11
    <3> QED BY <1>1, <2>1, <2>8, <2>9, <3>3, <3>4, AnsweredIs, EditKeepsInv
  <2>12. ASSUME fields # None PROVE AccountsInv'
    <3>1. \A f \in allowed : Shown(emailed, f) # None
      BY <2>12 DEF Presentable
    <3>2. /\ consent' = [consent EXCEPT ![me] = {Shown(emailed, f) : f \in allowed}]
          /\ consent \in [Ids -> SUBSET (Mailboxes \cup Remotes)]
      BY <2>1, <2>12 DEF AccountsInv, TypeOK
    <3>3. {Shown(emailed, f) : f \in allowed} \subseteq Mailboxes \cup Remotes
      BY <2>10, <3>1
    <3> HIDE DEF allowed, emailed
    <3>4. /\ consent' \in [Ids -> SUBSET (Mailboxes \cup Remotes)]
          /\ \A j \in Ids \ {me} : consent'[j] = consent[j]
          /\ consent'[me] = {Shown(emailed, f) : f \in allowed}
      BY <1>1, <3>2, <3>3 DEF Live
    <3>5. Consented(me, new, {})
      BY <2>1, <2>5, <2>7, <3>4 DEF Consented, AccountsInv, TypeOK, Live
    <3>6. RowChange(me, new, {})
      <4>1. account' = [j \in Ids |-> IF j = me THEN new
                                      ELSE IF j \in {} THEN None ELSE account[j]]
        BY <2>1 DEF AccountsInv, TypeOK, Live
      <4> QED BY <2>1, <2>9, <4>1, AnsweredIs DEF RowChange
    <3> QED BY <1>1, <2>8, <3>5, <3>6, RowChangeKeepsInv
  <2>13. RemovedKept
    <3>1. RemovedItsEmail(row) => new.mailbox = None
      BY <2>2, <2>5 DEF RemovedItsEmail
    <3> QED BY <1>1, <2>1, <3>1, EditKeepsRemoved
  <2> QED BY <2>11, <2>12, <2>13
<1> QED BY <1>3, <1>4

LEMMA DeleteKeepsInv ==
  ASSUME AccountsInv, NEW r \in Reqs, Delete(r) PROVE AccountsInv'
<1> USE DEF AccountsInv
<1> DEFINE me == req[r].id
<1>1. me \in Live /\ me \in Ids
  BY ActingIs DEF Delete, Live
<1>2. /\ account' = [account EXCEPT ![me] = None]
      /\ session' = {s \in session : s.id # me}
      /\ alias' = [i \in Ids |-> IF alias[i] = me THEN None ELSE alias[i]]
      /\ consent' = [consent EXCEPT ![me] = {}]
      /\ Answered(r)
      /\ UNCHANGED <<created, organizers, mergedInto>>
  BY DEF Delete, SessionsWithout
<1> HIDE DEF me
<1>3. /\ Live' = Live \ {me}
      /\ \A j \in Live' : account'[j] = account[j] /\ consent'[j] = consent[j]
  BY <1>1, <1>2 DEF TypeOK, Live
<1>4. /\ req' \in [Reqs -> Session \cup {None}]
      /\ \A q \in Reqs : req'[q] \in {req[q], None}
  BY <1>2, AnsweredIs
<1>5. TypeOK'
  <2>1. alias' \in [Ids -> Ids \cup {None}]
    BY <1>2 DEF TypeOK
  <2>2. /\ account' \in [Ids -> Row \cup {None}]
        /\ consent' \in [Ids -> SUBSET (Mailboxes \cup Remotes)]
    BY <1>1, <1>2 DEF TypeOK
  <2> QED BY <1>2, <1>4, <2>1, <2>2 DEF TypeOK
<1>6. SoundTable' /\ ApartByLogins' /\ ShownByConsent'
  BY <1>3 DEF SoundTable, ApartByLogins, ShownByConsent
<1>7. EveryoneCanGetIn'
  BY <1>2, <1>3 DEF EveryoneCanGetIn
<1>8. FreshIds'
  <2>1. \A j \in Ids : account'[j] # None => account[j] # None
    BY <1>1, <1>2 DEF TypeOK
  <2> QED BY <1>2, <1>4, <2>1 DEF FreshIds
<1>9. Held'
  BY <1>2, <1>3, <1>4 DEF Held
<1>10. AliasesLead'
  BY <1>1, <1>2, <1>3, AliasesCascade
<1> QED BY <1>5, <1>6, <1>7, <1>8, <1>9, <1>10

-------------------------------------------------------------------------------
(* Other writers of the table *)

\* A request in flight and the sessions are none of theirs.
LEMMA ReqKept ==
  ASSUME AccountsInv, req' = req
  PROVE  req' \in [Reqs -> Session \cup {None}] /\ \A q \in Reqs : req'[q] \in {req[q], None}
BY DEF AccountsInv, TypeOK

LEMMA FillEmailKeepsInv ==
  ASSUME AccountsInv, NEW id \in Ids, NEW mailbox \in Mailboxes, FillEmail(id, mailbox)
  PROVE  AccountsInv'
<1> DEFINE row == account[id]
           new == [row EXCEPT !.mailbox = mailbox]
<1>1. /\ id \in Live /\ Sound(row) /\ row \in Row /\ row.mailbox = None
      /\ OnePerson(row)
  BY LiveRow DEF FillEmail
<1>2. /\ account' = [account EXCEPT ![id] = new]
      /\ UNCHANGED <<created, organizers, session, alias, req, mergedInto, consent>>
  BY DEF FillEmail
<1>3. /\ new.ids = row.ids /\ new.verified = row.verified /\ new.mailbox = mailbox
      /\ new.published = row.published /\ new \in Row /\ ~row.verified
  BY <1>1 DEF Row, Sound
<1> HIDE DEF new
<1>4. Sound(new)
  BY <1>1, <1>3 DEF Sound
<1>5. PersonsOf(new) = PersonsOf(row)
  BY <1>3 DEF PersonsOf, Linked
<1>6. \A f \in new.published : Shown(new, f) \in consent[id]
  <2>1. \A f \in row.published : Shown(row, f) # None /\ Shown(row, f) \in consent[id]
    BY <1>1, LiveRow
  <2> QED BY <1>1, <1>3, <2>1 DEF Shown
<1>7. Fits(id, new, {})
  <2>1. ASSUME NEW j \in Live \ {id} PROVE Distinct(new, account[j])
    <3>1. Distinct(row, account[j])
      BY <1>1, <2>1 DEF AccountsInv, ApartByLogins
    <3> QED BY <1>3, <3>1 DEF Distinct
  <2> QED BY <1>1, <1>4, <1>5, <2>1 DEF Fits, OnePerson
<1>8. session' \subseteq SessionsFor(id, new, {})
  BY <1>2 DEF SessionsFor
<1> QED BY <1>1, <1>2, <1>6, <1>7, <1>8, ReqKept, EditKeepsInv

LEMMA AdminSetsEmailKeepsInv ==
  ASSUME AccountsInv, NEW id \in Ids, NEW mailbox \in Mailboxes \cup {None},
         AdminSetsEmail(id, mailbox)
  PROVE  AccountsInv'
<1> DEFINE row == account[id]
           next == NextEmail(EmailOf(row), mailbox, FALSE, FALSE)
           emailed == WithEmail(row, next)
           new == [emailed EXCEPT !.published = @ \ {"email"}]
<1>1. id \in Live /\ Sound(row) /\ row \in Row /\ OnePerson(row)
  BY LiveRow DEF AdminSetsEmail
<1>2. /\ account' = [account EXCEPT ![id] = new]
      /\ ~LocksOut(row, next)
      /\ UNCHANGED <<created, organizers, session, alias, req, mergedInto, consent>>
  <2>1. account' = [account EXCEPT ![id] = new]
    BY DEF AdminSetsEmail
  <2>2. ~LocksOut(row, next)
    BY DEF AdminSetsEmail
  <2> QED BY <2>1, <2>2 DEF AdminSetsEmail
<1>3. /\ next \in EmailFields
      /\ next.verified => next.mailbox # None
      /\ next.verified => row.verified /\ next.mailbox = row.mailbox
  <2>1. /\ EmailOf(row) \in EmailFields
        /\ EmailOf(row).mailbox = row.mailbox /\ EmailOf(row).verified = row.verified
        /\ row.verified => row.mailbox # None
    BY <1>1, EmailOfIs DEF Sound
  <2> QED BY <2>1 DEF NextEmail, NoEmail, EmailFields
<1> HIDE DEF next
<1>4. /\ Sound(emailed) /\ emailed.ids = row.ids /\ emailed.published = row.published
      /\ emailed.verified = next.verified /\ emailed.mailbox = next.mailbox
  BY <1>1, <1>3, WithEmailIs
<1>5. HasWayIn(row) => HasWayIn(emailed)
  BY <1>2 DEF LocksOut
<1> HIDE DEF emailed
<1>6. /\ new.ids = row.ids /\ new.verified = next.verified /\ new.mailbox = next.mailbox
      /\ new.published = row.published \ {"email"} /\ new \in Row
  BY <1>4 DEF Sound, Row
<1> HIDE DEF new
<1>7. Sound(new) /\ (HasWayIn(row) => HasWayIn(new))
  BY <1>4, <1>5, <1>6 DEF Sound, HasWayIn, Linked
<1>8. PersonsOf(new) \subseteq PersonsOf(row)
  <2> SUFFICES ASSUME NEW w \in PersonsOf(new) PROVE w \in PersonsOf(row)
    OBVIOUS
  <2> QED BY <1>1, <1>3, <1>6, PersonsAre
<1>9. PersonsOf(row) = PersonsOf(new)
  <2>1. (\E w : w \in PersonsOf(row)) => \E w : w \in PersonsOf(new)
    BY <1>1, <1>6, <1>7, WayInIsSomeones
  <2> QED BY <1>1, <1>8, <2>1 DEF OnePerson
<1>10. \A f \in new.published : Shown(new, f) \in consent[id]
  <2>1. \A f \in row.published : Shown(row, f) \in consent[id]
    BY <1>1, LiveRow
  <2> QED BY <1>6, <2>1 DEF Shown
<1>11. Fits(id, new, {})
  <2>1. ASSUME NEW j \in Live \ {id} PROVE Distinct(new, account[j])
    <3>1. Distinct(row, account[j])
      BY <1>1, <2>1 DEF AccountsInv, ApartByLogins
    <3> QED BY <1>3, <1>6, <3>1 DEF Distinct
  <2> QED BY <1>1, <1>7, <1>9, <2>1 DEF Fits, OnePerson
<1>12. session' \subseteq SessionsFor(id, new, {})
  BY <1>2 DEF SessionsFor
<1> QED BY <1>1, <1>2, <1>10, <1>11, <1>12, ReqKept, EditKeepsInv

\* A new row, with at most one provider's user and a proven address of the
\* same person.
NewRow(ids, mailbox, verified) ==
  [ids |-> ids, mailbox |-> mailbox, verified |-> verified, reminderOff |-> FALSE,
   published |-> {}, born |-> created + 1]

LEMMA NewRowIs ==
  ASSUME AccountsInv, NEW ids, ids \in [Providers -> Remotes \cup {None}],
         \A p \in Providers : ids[p] # None => ProviderOf[ids[p]] = p,
         NEW mailbox, mailbox \in Mailboxes \cup {None}, NEW verified, verified \in BOOLEAN,
         verified => mailbox # None
  PROVE  /\ Sound(NewRow(ids, mailbox, verified))
         /\ NewRow(ids, mailbox, verified) \in Row
<1>1. created + 1 \in Nat
  BY DEF AccountsInv, TypeOK
<1> QED BY <1>1 DEF NewRow, Sound, Row

LEMMA AddOrganizerKeepsInv ==
  ASSUME AccountsInv, AddOrganizer PROVE AccountsInv'
<1> DEFINE row == NewRow(NoIds, None, FALSE)
<1>1. \A p \in Providers : NoIds[p] = None
  BY DEF NoIds
<1>2. NoIds \in [Providers -> Remotes \cup {None}]
  BY DEF NoIds
<1>3. /\ row.ids = NoIds /\ row.mailbox = None /\ ~row.verified
      /\ row.published = {} /\ Sound(row) /\ row \in Row
  <2>1. Sound(row) /\ row \in Row
    BY <1>1, <1>2, NewRowIs
  <2> QED BY <2>1 DEF NewRow
<1>4. account' = [account EXCEPT ![created + 1] = row]
  BY DEF AddOrganizer, NewRow
<1> HIDE DEF row
<1>5. OnePerson(row) /\ \A j \in Live : Distinct(row, account[j])
  BY <1>1, <1>3, PersonsAre DEF OnePerson, Distinct
<1>6. RowAdded(row)
  BY <1>4 DEF AddOrganizer, RowAdded, SessionsFor
<1> QED BY <1>3, <1>5, <1>6, AddedRowKeepsInv

-------------------------------------------------------------------------------
(* Logging in *)

\* Whoever has the proof of a mailbox and no other login there is its owner.
LEMMA VerifiedIs ==
  ASSUME AccountsInv, NEW mailbox \in Mailboxes \cup {None}, NEW except, NEW i \in Ids
  PROVE  i \in VerifiedOn(account, mailbox, except) <=>
           /\ i # except /\ i \in Live /\ mailbox # None
           /\ account[i].verified /\ account[i].mailbox = mailbox
BY DEF VerifiedOn, Live

LEMMA LoginWithEmailKeepsInv ==
  ASSUME AccountsInv, NEW mailbox \in Mailboxes, LoginWithEmail(mailbox)
  PROVE  AccountsInv'
<1>0. mailbox # None /\ 0 \notin Ids
  BY OwnersAssumption DEF Ids
<1>1. CASE \E i \in VerifiedOn(account, mailbox, 0) :
             /\ session' = session \cup {[who |-> Owner[mailbox], id |-> i]}
             /\ UNCHANGED <<account, created>>
  <2>1. PICK i \in VerifiedOn(account, mailbox, 0) :
          /\ session' = session \cup {[who |-> Owner[mailbox], id |-> i]}
          /\ UNCHANGED <<account, created>>
    BY <1>1
  <2>2. /\ i \in Ids /\ i \in Live /\ account[i].verified /\ account[i].mailbox = mailbox
        /\ account[i] \in Row /\ Sound(account[i]) /\ OnePerson(account[i])
    BY VerifiedIs, LiveRow DEF VerifiedOn
  <2>3. Owner[mailbox] \in PersonsOf(account[i])
    BY <2>2, PersonsAre
  <2>4. session' \subseteq SessionsFor(i, account[i], {})
    BY <2>1, <2>3 DEF SessionsFor
  <2>5. Fits(i, account[i], {})
    BY <2>2 DEF Fits, AccountsInv, ApartByLogins
  <2>6. account' = [account EXCEPT ![i] = account[i]]
    BY <2>1, <2>2 DEF AccountsInv, TypeOK
  <2> QED BY <2>1, <2>2, <2>4, <2>5, <2>6, LiveRow, ReqKept, EditKeepsInv
             DEF LoginWithEmail
<1>2. CASE VerifiedOn(account, mailbox, 0) = {} /\
           Insert(NewRow(NoIds, mailbox, TRUE), Owner[mailbox])
  <2> DEFINE row == NewRow(NoIds, mailbox, TRUE)
  <2>1. \A p \in Providers : NoIds[p] = None
    BY DEF NoIds
  <2>2. NoIds \in [Providers -> Remotes \cup {None}]
    BY DEF NoIds
  <2>3. /\ row.ids = NoIds /\ row.mailbox = mailbox /\ row.verified
        /\ row.published = {} /\ Sound(row) /\ row \in Row
    <3>1. Sound(row) /\ row \in Row
      BY <1>0, <2>1, <2>2, NewRowIs
    <3> QED BY <3>1 DEF NewRow
  <2>4. Insert(row, Owner[mailbox])
    BY <1>2
  <2> HIDE DEF row
  <2>5. OnePerson(row) /\ Owner[mailbox] \in PersonsOf(row)
    BY <2>1, <2>3, PersonsAre DEF OnePerson
  <2>6. HasWayIn(row)
    BY <2>3 DEF HasWayIn
  <2>7. ASSUME NEW j \in Live PROVE Distinct(row, account[j])
    <3>1. j \notin VerifiedOn(account, mailbox, 0) /\ j \in Ids
      BY <1>2, <2>7 DEF Live
    <3>2. ~(account[j].verified /\ account[j].mailbox = mailbox)
      BY <1>0, <2>7, <3>1, VerifiedIs
    <3> QED BY <2>1, <2>3, <3>2 DEF Distinct
  <2>8. RowAdded(row)
    BY <2>4, <2>5, <2>6 DEF LoginWithEmail, Insert, RowAdded, SessionsFor
  <2> QED BY <2>3, <2>5, <2>7, <2>8, AddedRowKeepsInv
<1> QED BY <1>1, <1>2 DEF LoginWithEmail, NewRow

LEMMA LoginKeepsInv ==
  ASSUME AccountsInv, NEW remote \in Remotes, Login(remote) PROVE AccountsInv' /\ RemovedKept
<1> DEFINE who == Owner[remote]
           p == ProviderOf[remote]
<1>0. p \in Providers /\ remote # None /\ 0 \notin Ids
  BY OwnersAssumption DEF Ids
<1>1. PICK c \in Claim(remote) :
        LET candidate == IF c.vouched THEN VerifiedOn(account, c.mailbox, 0) ELSE {}
            matched == {i \in candidate : account[i].ids[p] = None}
        IN \/ \E i \in LinkedTo(remote) :
                /\ account' = [account EXCEPT ![i] = EmailAfter(account, c, i)]
                /\ session' = session \cup {[who |-> who, id |-> i]}
                /\ UNCHANGED created
           \/ /\ LinkedTo(remote) = {}
              /\ \E i \in matched :
                   /\ account' = [account EXCEPT ![i] = Link(@, remote)]
                   /\ session' = session \cup {[who |-> who, id |-> i]}
                   /\ UNCHANGED created
           \/ /\ LinkedTo(remote) = {} /\ matched = {}
              /\ LET e == NextEmail(NoEmail, c.mailbox, c.vouched /\ candidate = {}, FALSE)
                 IN Insert([ids |-> [NoIds EXCEPT ![p] = remote],
                            mailbox |-> e.mailbox, verified |-> e.verified,
                            reminderOff |-> FALSE, published |-> {},
                            born |-> created + 1], who)
  BY DEF Login
<1>2. UNCHANGED <<organizers, alias, req, mergedInto, consent>>
  BY DEF Login
<1>3. /\ c.mailbox \in Mailboxes \cup {None} /\ c.vouched \in BOOLEAN
      /\ c.vouched => c.mailbox # None /\ Owner[c.mailbox] = who
  BY DEF Claim
<1> DEFINE candidate == IF c.vouched THEN VerifiedOn(account, c.mailbox, 0) ELSE {}
           matched == {i \in candidate : account[i].ids[p] = None}
<1>4. CASE \E i \in LinkedTo(remote) :
             /\ account' = [account EXCEPT ![i] = EmailAfter(account, c, i)]
             /\ session' = session \cup {[who |-> who, id |-> i]}
             /\ UNCHANGED created
  <2>1. PICK i \in LinkedTo(remote) :
          /\ account' = [account EXCEPT ![i] = EmailAfter(account, c, i)]
          /\ session' = session \cup {[who |-> who, id |-> i]}
          /\ UNCHANGED created
    BY <1>4
  <2> DEFINE row == account[i]
             new == EmailAfter(account, c, i)
  <2>2. /\ i \in Live /\ i \in Ids /\ Sound(row) /\ row \in Row /\ OnePerson(row)
        /\ row.ids[p] = remote
    BY LiveRow DEF LinkedTo
  <2>3. /\ Sound(new) /\ SameButEmail(row, new)
        /\ row.verified => new.verified /\ new.mailbox = row.mailbox
        /\ new.verified /\ ~row.verified =>
             /\ c.vouched /\ new.mailbox = c.mailbox
             /\ VerifiedOn(account, c.mailbox, i) = {}
        /\ RemovedItsEmail(row) => new = row
    BY <2>2, EmailAfterIs, ZenonT(30)
  <2>4. PersonsOf(row) = {who}
    <3>1. who \in PersonsOf(row)
      BY <1>0, <2>2, PersonsAre
    <3> QED BY <2>2, <3>1 DEF OnePerson
  <2>5. PersonsOf(row) \subseteq PersonsOf(new) /\ PersonsOf(new) \subseteq {who}
    BY <2>2, <2>4, EmailAfterPersons
  <2> HIDE DEF new
  <2>6. ASSUME NEW j \in Live \ {i} PROVE Distinct(new, account[j])
    <3>1. Distinct(row, account[j])
      BY <2>2, <2>6 DEF AccountsInv, ApartByLogins
    <3>2. new.verified /\ ~row.verified
            => ~(account[j].verified /\ account[j].mailbox = new.mailbox)
      BY <1>3, <2>3, <2>6, VerifiedIs DEF Live
    <3> QED BY <2>3, <3>1, <3>2 DEF Distinct, SameButEmail
  <2>7. Fits(i, new, {})
    BY <2>3, <2>4, <2>5, <2>6 DEF Fits, OnePerson
  <2>8. session' \subseteq SessionsFor(i, new, {})
    BY <2>1, <2>4, <2>5 DEF SessionsFor
  <2>9. \A f \in new.published : Shown(new, f) \in consent[i]
    BY <2>2, <2>3, SameShown
  <2>10. RemovedKept
    BY <2>1, <2>2, <2>3, EditKeepsRemoved DEF new, RemovedItsEmail
  <2> QED BY <1>2, <2>1, <2>2, <2>7, <2>8, <2>9, <2>10, ReqKept, EditKeepsInv DEF new
<1>5. CASE /\ LinkedTo(remote) = {}
           /\ \E i \in matched :
                /\ account' = [account EXCEPT ![i] = Link(@, remote)]
                /\ session' = session \cup {[who |-> who, id |-> i]}
                /\ UNCHANGED created
  <2>1. PICK i \in matched :
          /\ account' = [account EXCEPT ![i] = Link(@, remote)]
          /\ session' = session \cup {[who |-> who, id |-> i]}
          /\ UNCHANGED created
    BY <1>5
  <2> DEFINE row == account[i]
             new == Link(row, remote)
  <2>2. /\ i \in Live /\ i \in Ids /\ Sound(row) /\ row \in Row /\ OnePerson(row)
        /\ row.ids[p] = None /\ row.verified /\ row.mailbox = c.mailbox /\ c.vouched
    BY <1>3, VerifiedIs, LiveRow DEF VerifiedOn
  <2>3. /\ Sound(new)
        /\ new.ids = [row.ids EXCEPT ![p] = remote]
        /\ new.mailbox = row.mailbox /\ new.verified = row.verified
        /\ new.published = row.published
        /\ \A f \in Fields : Shown(row, f) # None => Shown(new, f) = Shown(row, f)
        /\ PersonsOf(row) \subseteq PersonsOf(new)
        /\ PersonsOf(new) \subseteq PersonsOf(row) \cup {who}
        /\ who \in PersonsOf(new)
    BY <2>2, LinkIs, ZenonT(30)
  <2>4. PersonsOf(row) = {who}
    <3>1. who \in PersonsOf(row)
      BY <1>3, <2>2, PersonsAre
    <3> QED BY <2>2, <3>1 DEF OnePerson
  <2>5. account' = [account EXCEPT ![i] = new]
    BY <2>1
  <2> HIDE DEF new
  <2>6. ASSUME NEW j \in Live \ {i} PROVE Distinct(new, account[j])
    <3>1. Distinct(row, account[j])
      BY <2>2, <2>6 DEF AccountsInv, ApartByLogins
    <3>2. account[j].ids[p] # remote
      BY <1>5, <2>6 DEF LinkedTo
    <3>3. row.ids \in [Providers -> Remotes \cup {None}]
      BY <2>2 DEF Row
    <3>4. \A q \in Providers : new.ids[q] = IF q = p THEN remote ELSE row.ids[q]
      BY <2>3, <3>3
    <3> QED BY <2>3, <3>1, <3>2, <3>4 DEF Distinct
  <2>7. Fits(i, new, {})
    BY <2>3, <2>4, <2>6 DEF Fits, OnePerson
  <2>8. session' \subseteq SessionsFor(i, new, {})
    BY <2>1, <2>3 DEF SessionsFor
  <2>9. \A f \in new.published : Shown(new, f) \in consent[i]
    BY <2>2, <2>3, LiveRow
  <2>10. RemovedKept
    BY <2>2, <2>5, EditKeepsRemoved DEF RemovedItsEmail, Sound
  <2> QED BY <1>2, <2>1, <2>2, <2>5, <2>7, <2>8, <2>9, <2>10, ReqKept, EditKeepsInv
<1>6. CASE /\ LinkedTo(remote) = {} /\ matched = {}
           /\ LET e == NextEmail(NoEmail, c.mailbox, c.vouched /\ candidate = {}, FALSE)
              IN Insert([ids |-> [NoIds EXCEPT ![p] = remote],
                         mailbox |-> e.mailbox, verified |-> e.verified,
                         reminderOff |-> FALSE, published |-> {},
                         born |-> created + 1], who)
  <2> DEFINE e == NextEmail(NoEmail, c.mailbox, c.vouched /\ candidate = {}, FALSE)
             ids == [NoIds EXCEPT ![p] = remote]
             row == NewRow(ids, e.mailbox, e.verified)
  <2>1. Insert(row, who)
    BY <1>6 DEF NewRow
  <2>2. /\ e.mailbox \in Mailboxes \cup {None} /\ e.verified \in BOOLEAN
        /\ e.verified => /\ e.mailbox # None /\ e.mailbox = c.mailbox /\ c.vouched
                         /\ candidate = {}
    <3> HIDE DEF candidate
    <3> QED BY <1>3 DEF NextEmail, NoEmail
  <2>3. ids \in [Providers -> Remotes \cup {None}]
    BY <1>0 DEF NoIds
  <2>4. \A q \in Providers : ids[q] = IF q = p THEN remote ELSE None
    BY <1>0 DEF NoIds
  <2> HIDE DEF e, ids
  <2>5. Sound(row) /\ row \in Row
    BY <2>2, <2>3, <2>4, NewRowIs
  <2>6. /\ row.ids = ids /\ row.mailbox = e.mailbox /\ row.verified = e.verified
        /\ row.published = {}
    BY DEF NewRow
  <2> HIDE DEF row
  <2>7. OnePerson(row) /\ who \in PersonsOf(row)
    <3>1. \A w : w \in PersonsOf(row) <=>
            \/ \E q \in Providers : row.ids[q] # None /\ w = Owner[row.ids[q]]
            \/ row.verified /\ w = Owner[row.mailbox]
      BY <2>5, PersonsAre
    <3> QED BY <1>0, <1>3, <2>2, <2>4, <2>6, <3>1 DEF OnePerson
  <2>8. HasWayIn(row)
    BY <2>5, <2>7, WayInIsSomeones
  <2>9. ASSUME NEW j \in Live PROVE Distinct(row, account[j])
    <3>1. account[j].ids[p] # remote
      BY <1>6, <2>9 DEF LinkedTo
    <3>2. row.verified => ~(account[j].verified /\ account[j].mailbox = row.mailbox)
      <4>1. row.verified => VerifiedOn(account, c.mailbox, 0) = {} /\ c.mailbox # None
        BY <1>3, <2>2, <2>6
      <4>2. j \in Ids /\ j # 0
        BY <1>0, <2>9 DEF Live
      <4> QED BY <1>3, <2>2, <2>6, <2>9, <4>1, <4>2, VerifiedIs
    <3> QED BY <2>4, <2>6, <3>1, <3>2 DEF Distinct
  <2>10. RowAdded(row)
    BY <1>2, <2>1, <2>7, <2>8 DEF Insert, RowAdded, SessionsFor
  <2> QED BY <2>5, <2>6, <2>7, <2>9, <2>10, AddedRowKeepsInv, AddedRowKeepsRemoved DEF RowAdded
<1> QED BY <1>1, <1>4, <1>5, <1>6

-------------------------------------------------------------------------------
(* Merges *)

\* What the histories and the aliases become.
LEMMA MergeMovesIs ==
  ASSUME AccountsInv, NEW m, m.target \in Live, m.source \in Live, m.target # m.source,
         MergeMoves(m)
  PROVE  /\ alias' \in [Ids -> Ids \cup {None}] /\ mergedInto' \in [Ids -> Ids \cup {None}]
         /\ consent' \in [Ids -> SUBSET (Mailboxes \cup Remotes)]
         /\ \A j \in Ids \ {m.source, m.target} : consent'[j] = consent[j]
         /\ consent'[m.target] = consent[m.target] \cup consent[m.source]
<1>1. m.target \in Ids /\ m.source \in Ids
  BY DEF Live
<1>2. /\ alias \in [Ids -> Ids \cup {None}] /\ mergedInto \in [Ids -> Ids \cup {None}]
      /\ consent \in [Ids -> SUBSET (Mailboxes \cup Remotes)]
  BY DEF AccountsInv, TypeOK
<1>3. alias' \in [Ids -> Ids \cup {None}] /\ mergedInto' \in [Ids -> Ids \cup {None}]
  BY <1>1, <1>2 DEF MergeMoves
<1>4. consent' = [consent EXCEPT ![m.target] = @ \cup consent[m.source], ![m.source] = {}]
  BY DEF MergeMoves
<1> QED BY <1>1, <1>2, <1>3, <1>4

\* The table when row `row` has taken the place of the target's.
AfterMerge(m, row) ==
  account' = [j \in Ids |-> IF j = m.target THEN row
                            ELSE IF j \in {m.source} THEN None ELSE account[j]]

LEMMA MergeKeepsRemoved ==
  ASSUME AccountsInv, NEW m, m.target \in Live, m.source \in Live, m.target # m.source,
         NEW row, AfterMerge(m, row),
         RemovedItsEmail(account[m.target]) => row.mailbox = None
  PROVE  RemovedKept
<1>1. Live \subseteq Ids
  BY DEF Live
<1> QED BY <1>1 DEF RemovedKept, RemovedItsEmail, AfterMerge

\* A merge of one person's accounts, the address of the merged row going to
\* one that no other account has proven.
LEMMA MergeKeepsInv ==
  ASSUME AccountsInv, NEW m, m.target \in Live, m.source \in Live, m.target # m.source,
         NEW extra, Brought(account[m.target], account[m.source], extra),
         NEW row, Sound(row), OnePerson(row),
         SameButEmail(MergedRow(account[m.target], account[m.source], extra), row),
         PersonsOf(account[m.target]) \subseteq PersonsOf(row),
         row.verified => \A j \in Live \ {m.target, m.source} :
                           account[j].verified => row.mailbox # account[j].mailbox,
         AfterMerge(m, row),
         session' \subseteq SessionsFor(m.target, row, {m.source}),
         req' \in [Reqs -> Session \cup {None}], \A r \in Reqs : req'[r] \in {req[r], None},
         MergeMoves(m), UNCHANGED <<created, organizers>>
  PROVE  AccountsInv'
<1> DEFINE target == account[m.target]
           source == account[m.source]
           merged == MergedRow(target, source, extra)
<1>1. /\ m.target \in Ids /\ m.source \in Ids
      /\ Sound(target) /\ Sound(source)
      /\ \A f \in target.published :
           Shown(target, f) # None /\ Shown(target, f) \in consent[m.target]
      /\ \A f \in source.published : Shown(source, f) \in consent[m.source]
  BY LiveRow
<1>2. /\ Sound(merged)
      /\ merged.ids = MergedIds(target, source)
      /\ \A f \in merged.published :
           \/ f \in target.published /\ Shown(merged, f) = Shown(target, f)
           \/ f \in source.published /\ Shown(merged, f) = Shown(source, f)
  BY <1>1, MergedRowIs
<1>3. /\ row.ids = merged.ids
      /\ row.published \subseteq merged.published
      /\ "email" \in row.published => row.mailbox = merged.mailbox
  BY DEF SameButEmail
<1> HIDE DEF merged
<1>4. \A f \in row.published : Shown(row, f) = Shown(merged, f)
  BY <1>3 DEF Shown
<1>5. Consented(m.target, row, {m.source})
  <2>1. \A f \in row.published : Shown(row, f) \in consent'[m.target]
    BY <1>1, <1>2, <1>3, <1>4, MergeMovesIs
  <2>2. MergeMoves([target |-> m.target, source |-> m.source])
    BY DEF MergeMoves
  <2>3. \E j \in {m.source} : /\ {m.source} = {j}
                             /\ MergeMoves([target |-> m.target, source |-> j])
    BY <2>2
  <2> QED BY <2>1, <2>3, MergeMovesIs DEF Consented, Live
<1>6. ASSUME NEW j \in Live \ {m.target, m.source} PROVE Distinct(row, account[j])
  <2>1. Distinct(target, account[j]) /\ Distinct(source, account[j])
    BY <1>6 DEF AccountsInv, ApartByLogins
  <2>2. \A p \in Providers : row.ids[p] \in {target.ids[p], source.ids[p]}
    BY <1>2, <1>3 DEF MergedIds
  <2> QED BY <1>6, <2>1, <2>2 DEF Distinct
<1>7. Fits(m.target, row, {m.source})
  BY <1>6 DEF Fits
<1>8. RowChange(m.target, row, {m.source})
  BY DEF AfterMerge, RowChange
<1> QED BY <1>5, <1>7, <1>8, RowChangeKeepsInv

\* An administrator merges accounts whose logins are one person's, if anyone's.
LEMMA FiniteImage ==
  ASSUME NEW S, IsFiniteSet(S), NEW f PROVE IsFiniteSet({f[x] : x \in S})
<1> DEFINE T == {f[x] : x \in S}
           g == [x \in S |-> f[x]]
<1>1. g \in Surjection(S, T)
  BY DEF Surjection
<1> QED BY <1>1, FS_Surjection

LEMMA PersonsFinite ==
  ASSUME NEW row \in Row PROVE IsFiniteSet(PersonsOf(row))
<1> DEFINE ids == row.ids
           linked == {ids[p] : p \in Providers}
           proven == IF row.verified THEN {row.mailbox} ELSE {}
<1>1. IsFiniteSet(linked)
  BY OwnersAssumption, FiniteImage
<1>2. IsFiniteSet(linked \ {None})
  BY <1>1, FS_Difference
<1>3. IsFiniteSet(proven)
  BY FS_Singleton, FS_EmptySet
<1>4. IsFiniteSet((linked \ {None}) \cup proven)
  BY <1>2, <1>3, FS_Union
<1> DEFINE all == (linked \ {None}) \cup proven
<1>5. PersonsOf(row) = {Owner[x] : x \in all}
  BY DEF PersonsOf, Linked
<1> HIDE DEF all
<1>6. IsFiniteSet({Owner[x] : x \in all})
  BY <1>4, FiniteImage DEF all
<1> QED BY <1>5, <1>6

LEMMA AtMostOne ==
  ASSUME NEW S, IsFiniteSet(S), Cardinality(S) <= 1, NEW x \in S, NEW y \in S
  PROVE  x = y
<1> SUFFICES ASSUME x # y PROVE FALSE
  OBVIOUS
<1>1. IsFiniteSet({x}) /\ Cardinality({x}) = 1
  BY FS_Singleton
<1>2. Cardinality({x} \cup {y}) = 2 /\ {x} \cup {y} \subseteq S
  <2>1. y \notin {x}
    OBVIOUS
  <2>2. Cardinality({x} \cup {y}) = Cardinality({x}) + 1
    BY <1>1, <2>1, FS_AddElement
  <2> QED BY <1>1, <2>2
<1>3. Cardinality({x} \cup {y}) <= Cardinality(S) /\ Cardinality(S) \in Nat
  BY <1>2, FS_Subset, FS_CardinalityType
<1> QED BY <1>2, <1>3

LEMMA AdminMergesKeepsInv ==
  ASSUME AccountsInv, NEW target \in Ids, NEW source \in Ids, NEW force \in BOOLEAN,
         AdminMerges(target, source, force)
  PROVE  AccountsInv' /\ RemovedKept
<1> DEFINE m == [target |-> target, source |-> source]
           new == MergedRow(account[target], account[source], <<>>)
           both == PersonsOf(account[target]) \cup PersonsOf(account[source])
<1>1. /\ target \in Live /\ source \in Live /\ target # source
      /\ Cardinality(both) <= 1
      /\ account' = Merged(m, <<>>)
      /\ session' = SessionsWithout(source)
      /\ MergeMoves(m)
      /\ UNCHANGED <<created, organizers, req>>
  <2>1. account' = Merged(m, <<>>) /\ MergeMoves(m)
    BY DEF AdminMerges
  <2>2. /\ target \in Live /\ source \in Live /\ target # source
        /\ Cardinality(both) <= 1
        /\ session' = SessionsWithout(source)
        /\ UNCHANGED <<created, organizers, req>>
    BY DEF AdminMerges
  <2> QED BY <2>1, <2>2
<1>2. /\ Sound(account[target]) /\ Sound(account[source])
      /\ account[target] \in Row /\ account[source] \in Row
      /\ \A f \in account[target].published : Shown(account[target], f) # None
  BY <1>1, LiveRow
<1>3. Brought(account[target], account[source], <<>>)
  BY DEF Brought
<1>4. /\ Sound(new) /\ new.ids = MergedIds(account[target], account[source])
      /\ new.verified =>
           \/ account[target].verified /\ new.mailbox = account[target].mailbox
           \/ account[source].verified /\ new.mailbox = account[source].mailbox
      /\ account[target].verified => new.verified /\ new.mailbox = account[target].mailbox
      /\ RemovedItsEmail(account[target]) => new.mailbox = None
  BY <1>2, <1>3, MergedRowIs DEF RemovedItsEmail
<1>5. AfterMerge(m, new)
  <2>1. account \in [Ids -> Row \cup {None}] /\ target \in Ids /\ source \in Ids
    BY DEF AccountsInv, TypeOK
  <2>2. account' = [account EXCEPT ![target] = new, ![source] = None]
    BY <1>1 DEF Merged
  <2> HIDE DEF new
  <2> QED BY <1>1, <2>1, <2>2 DEF AfterMerge
<1> HIDE DEF new
<1>6. PersonsOf(account[target]) \subseteq PersonsOf(new) /\ PersonsOf(new) \subseteq both
  BY <1>2, <1>4, MergedPersons
<1>7. OnePerson(new)
  <2>1. IsFiniteSet(both)
    BY <1>2, PersonsFinite, FS_Union
  <2>2. \A v, w \in both : v = w
    <3> HIDE DEF both
    <3> QED BY <1>1, <2>1, AtMostOne
  <2> QED BY <1>6, <2>2 DEF OnePerson
<1>8. SameButEmail(MergedRow(account[m.target], account[m.source], <<>>), new)
  BY DEF SameButEmail, new
<1>9. ASSUME new.verified, NEW j \in Live \ {target, source}, account[j].verified
      PROVE  new.mailbox # account[j].mailbox
  <2>1. Distinct(account[target], account[j]) /\ Distinct(account[source], account[j])
    BY <1>1, <1>9 DEF AccountsInv, ApartByLogins
  <2> QED BY <1>4, <1>9, <2>1 DEF Distinct
<1>10. session' \subseteq SessionsFor(target, new, {source})
  BY <1>1 DEF SessionsFor, SessionsWithout
<1>11. m.target = target /\ m.source = source
  OBVIOUS
<1> HIDE DEF m
<1>12. RemovedKept
  BY <1>1, <1>4, <1>5, <1>11, MergeKeepsRemoved
<1> QED BY <1>1, <1>3, <1>4, <1>5, <1>6, <1>7, <1>8, <1>9, <1>10, <1>11, <1>12,
          ReqKept, MergeKeepsInv

LEMMA OlderFirstIs ==
  ASSUME NEW table, NEW a, NEW b
  PROVE  LET m == OlderFirst(table, a, b)
         IN \/ m.target = a /\ m.source = b
            \/ m.target = b /\ m.source = a
BY DEF OlderFirst

\* The table of a merge, and with the merged row written again.
LEMMA MergedTable ==
  ASSUME AccountsInv, NEW m, m.target \in Live, m.source \in Live, m.target # m.source,
         NEW extra
  PROVE  /\ Merged(m, extra)[m.target]
              = MergedRow(account[m.target], account[m.source], extra)
         /\ \A j \in Ids \ {m.target, m.source} : Merged(m, extra)[j] = account[j]
         /\ \A row : account' = [Merged(m, extra) EXCEPT ![m.target] = row]
                      => AfterMerge(m, row)
<1> DEFINE merged == MergedRow(account[m.target], account[m.source], extra)
           table == Merged(m, extra)
<1>1. /\ account \in [Ids -> Row \cup {None}] /\ m.target \in Ids /\ m.source \in Ids
      /\ m.target # m.source
  BY DEF AccountsInv, TypeOK, Live
<1>2. table = [account EXCEPT ![m.target] = merged, ![m.source] = None]
  BY DEF Merged
<1> HIDE DEF merged, table
<1>3. /\ DOMAIN table = Ids /\ table[m.target] = merged /\ table[m.source] = None
      /\ \A j \in Ids \ {m.target, m.source} : table[j] = account[j]
      /\ table = [j \in Ids |-> table[j]]
  BY <1>1, <1>2
<1>4. ASSUME NEW row, account' = [table EXCEPT ![m.target] = row]
      PROVE  AfterMerge(m, row)
  <2>1. account' = [j \in Ids |-> IF j = m.target THEN row ELSE table[j]]
    BY <1>1, <1>3, <1>4
  <2> QED BY <1>1, <1>3, <2>1 DEF AfterMerge
<1> QED BY <1>3, <1>4 DEF merged, table

\* A merge that brings along the logins of both accounts.
JoinsLogins ==
  \E i, j \in Live : \E row : /\ i # j /\ ~Conflict(account[i], account[j])
                             /\ Sound(row)
                             /\ AfterMerge([target |-> i, source |-> j], row)
                             /\ row.ids = MergedIds(account[i], account[j])

LEMMA JoinsLoginsIs ==
  ASSUME NEW m, m.target \in Live, m.source \in Live, m.target # m.source,
         ~Conflict(account[m.target], account[m.source]),
         NEW row, Sound(row), AfterMerge(m, row),
         row.ids = MergedIds(account[m.target], account[m.source])
  PROVE  JoinsLogins
<1>1. AfterMerge([target |-> m.target, source |-> m.source], row)
  BY DEF AfterMerge
<1> QED BY <1>1 DEF JoinsLogins

\* The session the owner of `me` may get on the account that stays.
OwnersSession(r, m) ==
  session' = SessionsWithout(m.source) \cup
               IF m.target = req[r].id THEN {} ELSE {[who |-> req[r].who, id |-> m.target]}

\* An owner joins another account of theirs to the one they use.
LEMMA OwnMergeKeepsInv ==
  ASSUME AccountsInv, NEW r \in Reqs, Acting(r), NEW other \in Live, other # req[r].id,
         PersonsOf(account[other]) = {req[r].who},
         NEW m, m = OlderFirst(account, req[r].id, other),
         NEW extra, Brought(account[m.target], account[m.source], extra),
         NEW row, Sound(row), PersonsOf(row) = {req[r].who},
         SameButEmail(MergedRow(account[m.target], account[m.source], extra), row),
         row.verified => \A j \in Live \ {req[r].id, other} :
                           account[j].verified => row.mailbox # account[j].mailbox,
         AfterMerge(m, row),
         OwnersSession(r, m), Answered(r), MergeMoves(m), UNCHANGED <<created, organizers>>
  PROVE  AccountsInv'
<1> DEFINE me == req[r].id
<1>1. me \in Live /\ PersonsOf(account[me]) = {req[r].who}
  BY ActingIs
<1>2. \/ m.target = me /\ m.source = other
      \/ m.target = other /\ m.source = me
  BY OlderFirstIs
<1>3. /\ m.target \in Live /\ m.source \in Live /\ m.target # m.source
      /\ {m.target, m.source} = {me, other}
      /\ PersonsOf(account[m.target]) = {req[r].who}
  BY <1>1, <1>2
<1>4. session' \subseteq SessionsFor(m.target, row, {m.source})
  BY DEF OwnersSession, SessionsFor, SessionsWithout
<1>5. OnePerson(row)
  BY DEF OnePerson
<1> QED BY <1>3, <1>4, <1>5, AnsweredIs, MergeKeepsInv

LEMMA SetEmailKeepsInv ==
  ASSUME AccountsInv, NEW r \in Reqs, SetEmail(r)
  PROVE  AccountsInv' /\ (JoinsLogins \/ UNCHANGED mergedInto)
<1> DEFINE me == req[r].id
<1>1. /\ Acting(r) /\ me \in Live /\ Sound(account[me]) /\ account[me] \in Row
      /\ PersonsOf(account[me]) = {req[r].who}
  BY ActingIs, LiveRow DEF SetEmail
<1>2. PICK mailbox \in Mailboxes :
        /\ Owner[mailbox] = req[r].who
        /\ LET others == VerifiedOn(account, mailbox, me)
           IN \/ /\ others = {}
                 /\ account' = [account EXCEPT ![me] = ProvenNow(@, mailbox)]
                 /\ Answered(r)
                 /\ UNCHANGED <<created, organizers, session, alias, mergedInto, consent>>
              \/ \E other \in others :
                     LET m == OlderFirst(account, me, other)
                     IN IF Conflict(account[m.target], account[m.source])
                          THEN Refused(r)
                          ELSE /\ account' = [Merged(m, <<>>) EXCEPT ![m.target] =
                                                ProvenNow(@, mailbox)]
                               /\ OwnersSession(r, m)
                               /\ MergeMoves(m)
                               /\ Answered(r)
                               /\ UNCHANGED <<created, organizers>>
  BY DEF SetEmail, OwnersSession
<1>3. mailbox # None
  BY OwnersAssumption
<1> HIDE DEF me
<1>4. CASE /\ VerifiedOn(account, mailbox, me) = {}
           /\ account' = [account EXCEPT ![me] = ProvenNow(@, mailbox)]
           /\ Answered(r)
           /\ UNCHANGED <<created, organizers, session, alias, mergedInto, consent>>
  <2> DEFINE new == ProvenNow(account[me], mailbox)
  <2>1. account' = [account EXCEPT ![me] = new]
    BY <1>4
  <2>2. /\ Sound(new) /\ SameButEmail(account[me], new)
        /\ new.verified /\ new.mailbox = mailbox
    BY <1>1, ProvenNowIs
  <2>3. PersonsOf(new) = {req[r].who}
    BY <1>1, <1>2, ProvenNowPersons
  <2> HIDE DEF new
  <2>4. ASSUME NEW j \in Live \ {me} PROVE Distinct(new, account[j])
    <3>1. Distinct(account[me], account[j])
      BY <1>1, <2>4 DEF AccountsInv, ApartByLogins
    <3>2. ~(account[j].verified /\ account[j].mailbox = mailbox)
      BY <1>3, <1>4, <2>4, VerifiedIs DEF Live
    <3> QED BY <2>2, <3>1, <3>2 DEF Distinct, SameButEmail
  <2>5. Fits(me, new, {})
    BY <1>1, <2>2, <2>3, <2>4 DEF Fits, OnePerson
  <2>6. session' \subseteq SessionsFor(me, new, {})
    BY <1>4 DEF SessionsFor
  <2>7. \A f \in new.published : Shown(new, f) \in consent[me]
    BY <1>1, <2>2, SameShown
  <2> QED BY <1>1, <1>4, <2>1, <2>5, <2>6, <2>7, AnsweredIs, EditKeepsInv
<1>5. ASSUME NEW other \in VerifiedOn(account, mailbox, me),
             LET m == OlderFirst(account, me, other)
             IN /\ ~Conflict(account[m.target], account[m.source])
                /\ account' = [Merged(m, <<>>) EXCEPT ![m.target] = ProvenNow(@, mailbox)]
                /\ OwnersSession(r, m) /\ MergeMoves(m) /\ Answered(r)
                /\ UNCHANGED <<created, organizers>>
      PROVE  AccountsInv' /\ (JoinsLogins \/ UNCHANGED mergedInto)
  <2> DEFINE m == OlderFirst(account, me, other)
  <2>1. /\ other \in Live /\ other # me /\ other \in Ids
        /\ account[other].verified /\ account[other].mailbox = mailbox
        /\ Sound(account[other]) /\ account[other] \in Row /\ OnePerson(account[other])
    BY <1>3, <1>5, VerifiedIs, LiveRow DEF VerifiedOn
  <2>2. PersonsOf(account[other]) = {req[r].who}
    <3>1. Owner[mailbox] \in PersonsOf(account[other])
      BY <2>1, PersonsAre
    <3> QED BY <1>2, <2>1, <3>1 DEF OnePerson
  <2>3. /\ m.target \in {me, other} /\ m.source \in {me, other} /\ m.target # m.source
    BY <2>1, OlderFirstIs
  <2>4. /\ m.target \in Live /\ m.source \in Live /\ m.target \in Ids /\ m.source \in Ids
        /\ Sound(account[m.target]) /\ Sound(account[m.source])
        /\ PersonsOf(account[m.target]) = {req[r].who}
        /\ PersonsOf(account[m.source]) = {req[r].who}
        /\ \A f \in account[m.target].published : Shown(account[m.target], f) # None
    BY <1>1, <2>1, <2>2, <2>3, LiveRow DEF Live
  <2>5. /\ ~Conflict(account[m.target], account[m.source])
        /\ account' = [Merged(m, <<>>) EXCEPT ![m.target] = ProvenNow(@, mailbox)]
        /\ OwnersSession(r, m) /\ MergeMoves(m) /\ Answered(r)
        /\ UNCHANGED <<created, organizers>>
    BY <1>5
  <2> HIDE DEF m
  <2> DEFINE merged == MergedRow(account[m.target], account[m.source], <<>>)
             new == ProvenNow(merged, mailbox)
  <2>6. Brought(account[m.target], account[m.source], <<>>)
    BY DEF Brought
  <2>7. /\ Sound(merged) /\ merged.ids = MergedIds(account[m.target], account[m.source])
        /\ merged.verified =>
             \/ account[m.target].verified /\ merged.mailbox = account[m.target].mailbox
             \/ account[m.source].verified /\ merged.mailbox = account[m.source].mailbox
        /\ account[m.target].verified =>
             merged.verified /\ merged.mailbox = account[m.target].mailbox
    BY <2>4, <2>6, MergedRowIs
  <2>8. PersonsOf(merged) = {req[r].who}
    BY <2>4, <2>7, MergedPersons
  <2>9. AfterMerge(m, new)
    <3>1. Merged(m, <<>>)[m.target] = merged
      BY <2>3, <2>4, MergedTable
    <3> HIDE DEF merged
    <3>2. account' = [Merged(m, <<>>) EXCEPT ![m.target] = new]
      BY <2>5, <3>1
    <3> HIDE DEF new
    <3> QED BY <2>3, <2>4, <3>2, MergedTable
  <2> HIDE DEF merged
  <2>10. /\ Sound(new) /\ SameButEmail(merged, new)
         /\ new.verified /\ new.mailbox = mailbox
    BY <2>7, ProvenNowIs
  <2>11. PersonsOf(new) = {req[r].who}
    BY <1>2, <2>7, <2>8, ProvenNowPersons
  <2> HIDE DEF new
  <2>12. \A j \in Live \ {me, other} : account[j].verified => new.mailbox # account[j].mailbox
    BY <2>1, <2>10 DEF AccountsInv, ApartByLogins, Distinct
  <2>13. SameButEmail(MergedRow(account[m.target], account[m.source], <<>>), new)
    BY <2>10 DEF merged
  <2>14. JoinsLogins
    BY <2>3, <2>4, <2>5, <2>7, <2>9, <2>10, JoinsLoginsIs DEF SameButEmail
  <2>15. AccountsInv'
    BY <1>1, <2>1, <2>2, <2>5, <2>6, <2>9, <2>10, <2>11, <2>12, <2>13, OwnMergeKeepsInv
       DEF m, me
  <2> QED BY <2>14, <2>15
<1> QED BY <1>2, <1>4, <1>5, RefusedKeepsInv DEF Refused

\* Connecting `remote`, its provider claiming `c`.
ConnectsAs(r, remote, c) ==
  /\ Owner[remote] = req[r].who
  /\ LET mine == account[req[r].id].ids[ProviderOf[remote]]
         others == LinkedTo(remote) \ {req[r].id}
     IN \/ mine \notin {None, remote} /\ Refused(r)
        \/ /\ mine \in {None, remote} /\ others = {}
           /\ account' = [account EXCEPT ![req[r].id] =
                            Link(EmailAfter(account, c, req[r].id), remote)]
           /\ Answered(r)
           /\ UNCHANGED <<created, organizers, session, alias, mergedInto, consent>>
        \/ /\ mine \in {None, remote}
           /\ \E other \in others :
                LET m == OlderFirst(account, req[r].id, other)
                    extra == [p \in {ProviderOf[remote]} |-> remote]
                IN IF Conflict(account[m.target], account[m.source])
                     THEN Refused(r)
                     ELSE /\ account' = [Merged(m, extra) EXCEPT ![m.target] =
                                           EmailAfter(Merged(m, extra), c, m.target)]
                          /\ OwnersSession(r, m)
                          /\ MergeMoves(m)
                          /\ Answered(r)
                          /\ UNCHANGED <<created, organizers>>

LEMMA ConnectKeepsInv ==
  ASSUME AccountsInv, NEW r \in Reqs, Connect(r)
  PROVE  AccountsInv' /\ (JoinsLogins \/ UNCHANGED mergedInto) /\ RemovedKept
<1> DEFINE me == req[r].id
           who == req[r].who
<1>1. /\ Acting(r) /\ me \in Live /\ Sound(account[me]) /\ account[me] \in Row
      /\ PersonsOf(account[me]) = {who}
      /\ \A f \in account[me].published : f \in Fields /\ Shown(account[me], f) # None
  BY ActingIs, LiveRow DEF Connect
<1>2. PICK remote \in Remotes : \E c \in Claim(remote) : ConnectsAs(r, remote, c)
  BY DEF Connect, ConnectsAs, OwnersSession
<1>3. PICK c \in Claim(remote) : ConnectsAs(r, remote, c)
  BY <1>2
<1> DEFINE p == ProviderOf[remote]
           mine == account[me].ids[p]
           others == LinkedTo(remote) \ {me}
<1>4. Owner[remote] = who
  BY <1>3 DEF ConnectsAs
<1>5. /\ p \in Providers /\ remote # None
      /\ c.mailbox \in Mailboxes \cup {None} /\ (c.vouched => c.mailbox # None)
  BY OwnersAssumption DEF Claim
<1> HIDE DEF me, who, p
<1>6. CASE /\ mine \in {None, remote} /\ others = {}
           /\ account' = [account EXCEPT ![me] = Link(EmailAfter(account, c, me), remote)]
           /\ Answered(r)
           /\ UNCHANGED <<created, organizers, session, alias, mergedInto, consent>>
  <2> DEFINE row == account[me]
             emailed == EmailAfter(account, c, me)
             new == Link(emailed, remote)
  <2>1. /\ Sound(emailed) /\ SameButEmail(row, emailed)
        /\ row.verified => emailed.verified /\ emailed.mailbox = row.mailbox
        /\ emailed.verified /\ ~row.verified =>
             /\ c.vouched /\ emailed.mailbox = c.mailbox
             /\ VerifiedOn(account, c.mailbox, me) = {}
        /\ RemovedItsEmail(row) => emailed = row
    BY <1>1, EmailAfterIs
  <2>2. PersonsOf(row) \subseteq PersonsOf(emailed) /\ PersonsOf(emailed) \subseteq {who}
    BY <1>1, <1>4, EmailAfterPersons
  <2>3. account' = [account EXCEPT ![me] = new]
    BY <1>6
  <2> HIDE DEF emailed
  <2>4. /\ Sound(new)
        /\ new.ids = [row.ids EXCEPT ![p] = remote]
        /\ new.mailbox = emailed.mailbox /\ new.verified = emailed.verified
        /\ new.published = emailed.published
        /\ \A f \in Fields : Shown(emailed, f) # None => Shown(new, f) = Shown(emailed, f)
        /\ PersonsOf(emailed) \subseteq PersonsOf(new)
        /\ PersonsOf(new) \subseteq PersonsOf(emailed) \cup {who}
    <3>1. emailed.ids = row.ids /\ emailed.ids[p] \in {None, remote}
      BY <1>6, <2>1 DEF SameButEmail
    <3> QED BY <1>4, <2>1, <3>1, LinkIs DEF p
  <2> HIDE DEF new
  <2>5. PersonsOf(new) = {who}
    BY <1>1, <2>2, <2>4
  <2>6. ASSUME NEW j \in Live \ {me} PROVE Distinct(new, account[j])
    <3>1. Distinct(row, account[j])
      BY <1>1, <2>6 DEF AccountsInv, ApartByLogins
    <3>2. account[j].ids[p] # remote
      BY <1>6, <2>6 DEF LinkedTo, p
    <3>3. ASSUME new.verified, ~row.verified, account[j].verified
          PROVE  account[j].mailbox # new.mailbox
      <4>1. /\ c.mailbox # None /\ new.mailbox = c.mailbox
            /\ j \notin VerifiedOn(account, c.mailbox, me)
        BY <1>5, <2>1, <2>4, <3>3
      <4>2. j \in Ids
        BY DEF Live
      <4> QED BY <1>5, <2>6, <3>3, <4>1, <4>2, VerifiedIs
    <3>4. row.ids \in [Providers -> Remotes \cup {None}]
      BY <1>1 DEF Row
    <3>5. \A q \in Providers : new.ids[q] = IF q = p THEN remote ELSE row.ids[q]
      BY <2>4, <3>4
    <3> QED BY <2>1, <2>4, <3>1, <3>2, <3>3, <3>5 DEF Distinct
  <2>7. Fits(me, new, {})
    BY <1>1, <2>4, <2>5, <2>6 DEF Fits, OnePerson
  <2>8. session' \subseteq SessionsFor(me, new, {})
    BY <1>6 DEF SessionsFor
  <2>9. \A f \in new.published : Shown(new, f) \in consent[me]
    <3>1. \A f \in emailed.published : /\ Shown(emailed, f) \in consent[me]
                                       /\ Shown(emailed, f) # None /\ f \in Fields
      <4>1. \A f \in emailed.published : f \in row.published /\ Shown(emailed, f) = Shown(row, f)
        BY <1>1, <2>1, SameShown DEF SameButEmail
      <4>2. \A f \in emailed.published : Shown(emailed, f) \in consent[me]
        BY <1>1, <2>1, SameShown
      <4> QED BY <1>1, <4>1, <4>2
    <3> QED BY <2>4, <3>1
  <2>10. RemovedKept
    BY <1>1, <2>1, <2>3, <2>4, EditKeepsRemoved DEF RemovedItsEmail
  <2> QED BY <1>1, <1>6, <2>3, <2>7, <2>8, <2>9, <2>10, AnsweredIs, EditKeepsInv
<1>7. ASSUME NEW other \in others, mine \in {None, remote},
             LET m == OlderFirst(account, me, other)
                 extra == [q \in {p} |-> remote]
             IN /\ ~Conflict(account[m.target], account[m.source])
                /\ account' = [Merged(m, extra) EXCEPT ![m.target] =
                                 EmailAfter(Merged(m, extra), c, m.target)]
                /\ OwnersSession(r, m) /\ MergeMoves(m) /\ Answered(r)
                /\ UNCHANGED <<created, organizers>>
      PROVE  AccountsInv' /\ (JoinsLogins \/ UNCHANGED mergedInto) /\ RemovedKept
  <2> DEFINE m == OlderFirst(account, me, other)
             extra == [q \in {p} |-> remote]
  <2>1. /\ other \in Live /\ other # me /\ account[other].ids[p] = remote
        /\ Sound(account[other]) /\ account[other] \in Row /\ OnePerson(account[other])
    BY <1>7, LiveRow DEF LinkedTo, p
  <2>2. PersonsOf(account[other]) = {who}
    <3>1. who \in PersonsOf(account[other])
      BY <1>4, <1>5, <2>1, PersonsAre
    <3> QED BY <2>1, <3>1 DEF OnePerson
  <2>3. \/ m.target = me /\ m.source = other
        \/ m.target = other /\ m.source = me
    BY OlderFirstIs
  <2>4. /\ m.target \in Live /\ m.source \in Live /\ m.target # m.source
        /\ Sound(account[m.target]) /\ Sound(account[m.source])
        /\ PersonsOf(account[m.target]) = {who} /\ PersonsOf(account[m.source]) = {who}
        /\ \A f \in account[m.target].published : Shown(account[m.target], f) # None
    BY <1>1, <2>1, <2>2, <2>3, LiveRow
  <2>5. /\ ~Conflict(account[m.target], account[m.source])
        /\ account' = [Merged(m, extra) EXCEPT ![m.target] =
                         EmailAfter(Merged(m, extra), c, m.target)]
        /\ OwnersSession(r, m) /\ MergeMoves(m) /\ Answered(r)
        /\ UNCHANGED <<created, organizers>>
    BY <1>7
  <2> HIDE DEF m
  <2>6. Brought(account[m.target], account[m.source], extra)
    <3>1. DOMAIN extra = {p} /\ extra[p] = remote
      OBVIOUS
    <3> HIDE DEF extra
    <3> QED BY <1>7, <2>1, <2>3, <3>1 DEF Brought
  <2> HIDE DEF extra
  <2> DEFINE merged == MergedRow(account[m.target], account[m.source], extra)
             new == EmailAfter(Merged(m, extra), c, m.target)
  <2>7. /\ Sound(merged) /\ merged.ids = MergedIds(account[m.target], account[m.source])
        /\ merged.verified =>
             \/ account[m.target].verified /\ merged.mailbox = account[m.target].mailbox
             \/ account[m.source].verified /\ merged.mailbox = account[m.source].mailbox
        /\ account[m.target].verified =>
             merged.verified /\ merged.mailbox = account[m.target].mailbox
        /\ RemovedItsEmail(account[m.target]) => RemovedItsEmail(merged)
    BY <2>4, <2>6, MergedRowIs
  <2>8. PersonsOf(merged) = {who}
    BY <2>4, <2>7, MergedPersons
  <2>9. /\ Merged(m, extra)[m.target] = merged
        /\ \A j \in Ids \ {m.target, m.source} : Merged(m, extra)[j] = account[j]
        /\ AfterMerge(m, new)
    <3>1. account' = [Merged(m, extra) EXCEPT ![m.target] = new]
      BY <2>5
    <3> HIDE DEF new
    <3> QED BY <2>4, <3>1, MergedTable
  <2> HIDE DEF merged
  <2>10. /\ Sound(new) /\ SameButEmail(merged, new)
         /\ merged.verified => new.verified /\ new.mailbox = merged.mailbox
         /\ new.verified /\ ~merged.verified =>
              /\ c.vouched /\ new.mailbox = c.mailbox
              /\ VerifiedOn(Merged(m, extra), c.mailbox, m.target) = {}
         /\ RemovedItsEmail(merged) => new = merged
    <3> DEFINE table == Merged(m, extra)
    <3>1. Sound(table[m.target]) /\ table[m.target] = merged
      BY <2>7, <2>9
    <3> HIDE DEF table
    <3>2. LET after == EmailAfter(table, c, m.target)
          IN /\ Sound(after) /\ SameButEmail(table[m.target], after)
             /\ table[m.target].verified =>
                  after.verified /\ after.mailbox = table[m.target].mailbox
             /\ after.verified /\ ~table[m.target].verified =>
                  /\ c.vouched /\ after.mailbox = c.mailbox
                  /\ VerifiedOn(table, c.mailbox, m.target) = {}
             /\ RemovedItsEmail(table[m.target]) => after = table[m.target]
      BY <3>1, EmailAfterIs
    <3> QED BY <3>1, <3>2 DEF table
  <2>11. PersonsOf(new) = {who}
    <3>1. /\ PersonsOf(merged) \subseteq PersonsOf(new)
          /\ PersonsOf(new) \subseteq PersonsOf(merged) \cup {who}
      BY <1>4, <2>7, <2>9, EmailAfterPersons
    <3> QED BY <2>8, <3>1
  <2> HIDE DEF new
  <2>12. ASSUME new.verified, NEW j \in Live \ {me, other}, account[j].verified
         PROVE  new.mailbox # account[j].mailbox
    <3>1. Distinct(account[m.target], account[j]) /\ Distinct(account[m.source], account[j])
      BY <2>3, <2>4, <2>12 DEF AccountsInv, ApartByLogins
    <3>2. CASE merged.verified
      BY <2>7, <2>10, <2>12, <3>1, <3>2 DEF Distinct
    <3>3. CASE ~merged.verified
      <4>1. Merged(m, extra)[j] = account[j] /\ j \in Ids /\ j # m.target /\ account[j] # None
        BY <2>3, <2>9, <2>12 DEF Live
      <4>2. j \notin VerifiedOn(Merged(m, extra), c.mailbox, m.target)
        BY <2>10, <2>12, <3>3
      <4> QED BY <1>5, <2>10, <2>12, <3>3, <4>1, <4>2 DEF VerifiedOn
    <3> QED BY <3>2, <3>3
  <2>13. SameButEmail(MergedRow(account[m.target], account[m.source], extra), new)
    BY <2>10 DEF merged
  <2>14. JoinsLogins
    BY <2>4, <2>5, <2>7, <2>9, <2>10, JoinsLoginsIs DEF SameButEmail
  <2>15. AccountsInv'
    BY <1>1, <2>1, <2>2, <2>5, <2>6, <2>9, <2>10, <2>11, <2>12, <2>13, OwnMergeKeepsInv
       DEF m, me, who
  <2>16. RemovedKept
    BY <2>4, <2>7, <2>9, <2>10, MergeKeepsRemoved DEF RemovedItsEmail
  <2> QED BY <2>14, <2>15, <2>16
<1> QED BY <1>3, <1>6, <1>7, RefusedKeepsInv, SameTableKeepsRemoved DEF p, me, ConnectsAs, Refused

-------------------------------------------------------------------------------
(* The theorems *)

LEMMA AccountsInvInit == Init => AccountsInv
<1> SUFFICES ASSUME Init PROVE AccountsInv
  OBVIOUS
<1>1. Live = {}
  BY DEF Init, Live
<1>2. TypeOK
  BY OwnersAssumption DEF Init, TypeOK
<1>3. FreshIds
  BY DEF Init, FreshIds
<1>4. AliasesLead
  <2> DEFINE own == [i \in Ids |-> i]
  <2>1. own \in [Ids -> Ids] /\ \A i \in Ids : own[i] = i
    OBVIOUS
  <2> HIDE DEF own
  <2>2. LeadTo(own)
    BY <2>1 DEF Init, LeadTo
  <2> QED BY <2>1, <2>2 DEF AliasesLead
<1> QED BY <1>1, <1>2, <1>3, <1>4 DEF AccountsInv, Init, SoundTable, Held, ApartByLogins,
                                EveryoneCanGetIn, ShownByConsent

\* The requests' own edits and answers keep what was removed.
LEMMA OwnStepsKeepRemoved ==
  ASSUME AccountsInv, NEW r \in Reqs,
         Authenticate(r) \/ AccountGone(r) \/ PatchSettings(r) \/ Disconnect(r) \/ Delete(r)
  PROVE  RemovedKept /\ UNCHANGED mergedInto
<1>1. CASE Authenticate(r) \/ AccountGone(r)
  BY <1>1, SameTableKeepsRemoved DEF Authenticate, AccountGone, Refused
<1>2. CASE PatchSettings(r)
  BY <1>2, PatchSettingsKeepsInv DEF PatchSettings, Refused
<1>3. CASE Disconnect(r)
  <2> DEFINE me == req[r].id
  <2>1. /\ me \in Live /\ account[me] \in Row
        /\ \/ Refused(r)
           \/ \E row : /\ account' = [account EXCEPT ![me] = row]
                       /\ account[me].mailbox = None => row.mailbox = None
                       /\ UNCHANGED mergedInto
    BY <1>3, ActingIs, LiveRow DEF Disconnect, Row
  <2> HIDE DEF me
  <2> QED BY <2>1, EditKeepsRemoved, SameTableKeepsRemoved DEF Refused, RemovedItsEmail
<1>4. CASE Delete(r)
  <2>1. /\ \A i \in Live : account'[i] \in {account[i], None}
        /\ UNCHANGED mergedInto
    BY <1>4 DEF Delete, AccountsInv, TypeOK, Live
  <2> QED BY <2>1 DEF RemovedKept, RemovedItsEmail
<1> QED BY <1>1, <1>2, <1>3, <1>4

LEMMA OtherStepsKeepRemoved ==
  ASSUME AccountsInv,
         \/ \E mailbox \in Mailboxes : LoginWithEmail(mailbox)
         \/ EndSession \/ AddOrganizer
         \/ \E id \in Ids : \E mailbox \in Mailboxes : FillEmail(id, mailbox)
  PROVE  RemovedKept /\ UNCHANGED mergedInto
<1>1. CASE \E mailbox \in Mailboxes : LoginWithEmail(mailbox)
  BY <1>1, SameTableKeepsRemoved, AddedRowKeepsRemoved DEF LoginWithEmail, Insert
<1>2. CASE EndSession
  BY <1>2, SameTableKeepsRemoved DEF EndSession
<1>3. CASE AddOrganizer
  BY <1>3, AddedRowKeepsRemoved DEF AddOrganizer
<1>4. CASE \E id \in Ids : \E mailbox \in Mailboxes : FillEmail(id, mailbox)
  <2>1. PICK id \in Ids, mailbox \in Mailboxes : FillEmail(id, mailbox)
    BY <1>4
  <2> DEFINE row == [account[id] EXCEPT !.mailbox = mailbox]
  <2>2. /\ id \in Live /\ account' = [account EXCEPT ![id] = row]
        /\ ~RemovedItsEmail(account[id]) /\ UNCHANGED mergedInto
    BY <2>1 DEF FillEmail, RemovedItsEmail
  <2> HIDE DEF row
  <2> QED BY <2>2, EditKeepsRemoved
<1> QED BY <1>1, <1>2, <1>3, <1>4

LEMMA AccountsInvStep == ASSUME AccountsInv, [Next]_vars PROVE AccountsInv'
<1>1. CASE UNCHANGED vars
  <2>1. req' \in [Reqs -> Session \cup {None}]
    BY <1>1 DEF vars, AccountsInv, TypeOK
  <2> QED BY <1>1, <2>1, QuietKeepsInv DEF vars
<1>2. ASSUME NEW r \in Reqs,
             Authenticate(r) \/ AccountGone(r) \/ Connect(r) \/ SetEmail(r)
               \/ PatchSettings(r) \/ Disconnect(r) \/ Delete(r)
      PROVE  AccountsInv'
  BY <1>2, AuthenticateKeepsInv, RefusedKeepsInv, ConnectKeepsInv, SetEmailKeepsInv,
     PatchSettingsKeepsInv, DisconnectKeepsInv, DeleteKeepsInv DEF AccountGone
<1>3. CASE \E remote \in Remotes : Login(remote)
  BY <1>3, LoginKeepsInv
<1>4. CASE \E mailbox \in Mailboxes : LoginWithEmail(mailbox)
  BY <1>4, LoginWithEmailKeepsInv
<1>5. CASE EndSession \/ AddOrganizer
  BY <1>5, EndSessionKeepsInv, AddOrganizerKeepsInv
<1>6. CASE \E id \in Ids : \E mailbox \in Mailboxes \cup {None} : AdminSetsEmail(id, mailbox)
  BY <1>6, AdminSetsEmailKeepsInv
<1>7. CASE \E target, source \in Ids : \E force \in BOOLEAN : AdminMerges(target, source, force)
  BY <1>7, AdminMergesKeepsInv
<1>8. CASE \E id \in Ids : \E mailbox \in Mailboxes : FillEmail(id, mailbox)
  BY <1>8, FillEmailKeepsInv
<1> QED BY <1>1, <1>2, <1>3, <1>4, <1>5, <1>6, <1>7, <1>8 DEF Next

LEMMA AlwaysAccountsInv == Spec => []AccountsInv
<1>1. AccountsInv /\ [Next]_vars => AccountsInv'
  BY AccountsInvStep
<1> QED BY AccountsInvInit, <1>1, PTL DEF Spec

\* Every variable keeps its type.
THEOREM TypeCorrect == Spec => []TypeOK
<1>1. AccountsInv => TypeOK
  BY DEF AccountsInv
<1> QED BY <1>1, AlwaysAccountsInv, PTL

\* Nobody gets into another's account, and no login opens two: the logins, the
\* sessions and the requests of an account are always of the same person.
THEOREM OnePersonEach == Spec => []OnePersonPerAccount
<1>1. AccountsInv => OwnLogins
  <2> SUFFICES ASSUME AccountsInv, NEW i \in Live
               PROVE  Cardinality(PersonsOf(account[i])
                        \cup {s.who : s \in {t \in session : t.id = i}}) <= 1
    BY DEF OwnLogins
  <2> DEFINE persons == PersonsOf(account[i])
             holders == persons \cup {s.who : s \in {t \in session : t.id = i}}
  <2>1. holders = persons
    BY DEF AccountsInv, Held
  <2>2. \A v, w \in persons : v = w
    BY LiveRow DEF OnePerson
  <2> HIDE DEF persons
  <2>3. persons = {} \/ \E w : persons = {w}
    BY <2>2
  <2>4. Cardinality(persons) \in {0, 1}
    BY <2>3, FS_EmptySet, FS_Singleton
  <2>5. Cardinality(holders) \in {0, 1}
    BY <2>1, <2>4
  <2> HIDE DEF holders
  <2>6. Cardinality(holders) <= 1
    BY <2>5
  <2> QED BY <2>6 DEF holders, persons
<1>2. AccountsInv => LoginsAreUnique
  <2> SUFFICES ASSUME AccountsInv, NEW i \in Live, NEW j \in Live, i # j
               PROVE  /\ Linked(account[i]) \cap Linked(account[j]) = {}
                      /\ account[i].verified /\ account[j].verified
                           => account[i].mailbox # account[j].mailbox
    BY DEF LoginsAreUnique
  <2>1. Distinct(account[i], account[j]) /\ Sound(account[i]) /\ Sound(account[j])
    BY LiveRow DEF AccountsInv, ApartByLogins
  <2>2. ASSUME NEW x \in Linked(account[i]), x \in Linked(account[j]) PROVE FALSE
    <3>1. PICK p \in Providers : x = account[i].ids[p] /\ x # None
      BY DEF Linked
    <3>2. PICK q \in Providers : x = account[j].ids[q]
      BY <2>2 DEF Linked
    <3>3. p = q
      BY <2>1, <3>1, <3>2 DEF Sound
    <3> QED BY <2>1, <3>1, <3>2, <3>3 DEF Distinct
  <2> QED BY <2>1, <2>2 DEF Distinct
<1> QED BY <1>1, <1>2, AlwaysAccountsInv, PTL DEF OnePersonPerAccount

\* Nobody loses the last way into their account.
THEOREM WaysInRemain == Spec => []EveryoneCanGetIn
<1>1. AccountsInv => EveryoneCanGetIn
  BY DEF AccountsInv
<1> QED BY <1>1, AlwaysAccountsInv, PTL

\* A profile shows only what its owners chose to show last.
THEOREM ConsentIsKept == Spec => []ShownByConsent
<1>1. AccountsInv => ShownByConsent
  BY DEF AccountsInv
<1> QED BY <1>1, AlwaysAccountsInv, PTL

\* "one hop resolves all" (userMerge.ts): after any merges and deletions the alias
\* of an id leads to the account its data went to, or to none when that is gone.
THEOREM AliasesStayResolved == Spec => []AliasesResolve
<1>1. AccountsInv => AliasesResolve
  <2> SUFFICES ASSUME AliasesLead PROVE AliasesResolve
    BY DEF AccountsInv
  <2>1. PICK survivor \in [Ids -> Ids] : LeadTo(survivor)
    BY DEF AliasesLead
  <2> QED BY <2>1 DEF LeadTo, AliasesResolve
<1> QED BY <1>1, AlwaysAccountsInv, PTL

\* A merge that an owner's request brings about drops no login: ids that differ
\* make it fail, and the merged row has those of both.
LEMMA JoiningKeepsLogins ==
  ASSUME AccountsInv, JoinsLogins
  PROVE  UNION {Linked(account[i]) : i \in Live}
           \subseteq UNION {Linked(account'[i]) : i \in {j \in Ids : account'[j] # None}}
<1>1. PICK i \in Live, j \in Live : \E row :
             /\ i # j /\ ~Conflict(account[i], account[j]) /\ Sound(row)
             /\ AfterMerge([target |-> i, source |-> j], row)
             /\ row.ids = MergedIds(account[i], account[j])
  BY DEF JoinsLogins
<1>2. PICK row : /\ i # j /\ ~Conflict(account[i], account[j]) /\ Sound(row)
                 /\ account' = [k \in Ids |-> IF k = i THEN row
                                              ELSE IF k \in {j} THEN None ELSE account[k]]
                 /\ row.ids = MergedIds(account[i], account[j])
  BY <1>1 DEF AfterMerge
<1>3. i \in Ids /\ Live \subseteq Ids
  BY DEF Live
<1>4. ASSUME NEW k \in Live, NEW x \in Linked(account[k])
      PROVE  \E l \in {h \in Ids : account'[h] # None} : x \in Linked(account'[l])
  <2>1. CASE k \notin {i, j}
    BY <1>2, <1>3, <1>4, <2>1 DEF Live
  <2>2. CASE k \in {i, j}
    <3>1. PICK p \in Providers : x = account[k].ids[p] /\ x # None
      BY <1>4 DEF Linked
    <3>2. row.ids[p] = x
      BY <1>2, <2>2, <3>1 DEF MergedIds, Conflict
    <3>3. x \in Linked(row) /\ account'[i] = row
      BY <1>2, <1>3, <3>1, <3>2 DEF Linked
    <3>4. row # None
      BY <1>2, NoneIsNull DEF Sound
    <3> QED BY <1>3, <3>3, <3>4
  <2> QED BY <2>1, <2>2
<1> QED BY <1>4

THEOREM OwnMergesKeepLogins == Spec => OwnMergeKeepsLogins
<1>1. ASSUME AccountsInv, [Next]_vars, mergedInto' # mergedInto, req' # req
      PROVE  JoinsLogins
  <2>1. CASE \E r \in Reqs : Connect(r) \/ SetEmail(r)
    BY <1>1, <2>1, ConnectKeepsInv, SetEmailKeepsInv
  <2>2. CASE \E r \in Reqs : \/ Authenticate(r) \/ AccountGone(r) \/ PatchSettings(r)
                             \/ Disconnect(r) \/ Delete(r)
    BY <1>1, <2>2, OwnStepsKeepRemoved
  <2>3. ASSUME \/ \E remote \in Remotes : Login(remote)
               \/ \E mailbox \in Mailboxes : LoginWithEmail(mailbox)
               \/ EndSession \/ AddOrganizer \/ UNCHANGED vars
               \/ \E id \in Ids : \E mailbox \in Mailboxes \cup {None} : AdminSetsEmail(id, mailbox)
               \/ \E target, source \in Ids : \E force \in BOOLEAN :
                    AdminMerges(target, source, force)
               \/ \E id \in Ids : \E mailbox \in Mailboxes : FillEmail(id, mailbox)
        PROVE  req' = req
    BY <2>3 DEF Login, LoginWithEmail, EndSession, AddOrganizer, vars, AdminSetsEmail,
                AdminMerges, FillEmail
  <2> QED BY <1>1, <2>1, <2>2, <2>3 DEF Next
<1>2. AccountsInv /\ [Next]_vars =>
        [mergedInto' # mergedInto /\ req' # req =>
           UNION {Linked(account[i]) : i \in Live}
             \subseteq UNION {Linked(account'[i]) : i \in {j \in Ids : account'[j] # None}}]_vars
  BY <1>1, JoiningKeepsLogins
<1> QED BY <1>2, AlwaysAccountsInv, PTL DEF Spec, OwnMergeKeepsLogins

\* An address its owner removed comes back only when the owner proves one, or
\* an administrator writes one.
THEOREM RemovedStaysAway == Spec => RemovedEmailStaysAway
<1>1. ASSUME AccountsInv, Next
      PROVE  \/ RemovedKept
             \/ \E r \in Reqs : SetEmail(r)
             \/ \E id \in Ids : \E mailbox \in Mailboxes \cup {None} : AdminSetsEmail(id, mailbox)
  BY <1>1, OwnStepsKeepRemoved, OtherStepsKeepRemoved, ConnectKeepsInv, LoginKeepsInv,
     AdminMergesKeepsInv DEF Next
<1>2. ASSUME AccountsInv, NEW id \in Ids, NEW mailbox \in Mailboxes \cup {None},
             AdminSetsEmail(id, mailbox),
             NEW i \in Live, RemovedItsEmail(account[i]),
             account'[i] # None, account'[i].mailbox # None
      PROVE  i = id /\ mailbox \in Mailboxes
  <2>1. account' = [account EXCEPT ![id] =
                      [WithEmail(account[id],
                          NextEmail(EmailOf(account[id]), mailbox, FALSE, FALSE))
                         EXCEPT !.published = @ \ {"email"}]]
    BY <1>2 DEF AdminSetsEmail
  <2>2. id \in Live /\ account[id] \in Row
    BY <1>2, LiveRow DEF AdminSetsEmail
  <2>3. i = id
    BY <1>2, <2>1 DEF RemovedItsEmail, Live, AccountsInv, TypeOK
  <2>4. mailbox # None
    <3> SUFFICES ASSUME mailbox = None PROVE FALSE
      OBVIOUS
    <3>1. account'[id].mailbox = None
      BY <1>2, <2>1, <2>2 DEF AccountsInv, TypeOK, NextEmail, NoEmail, WithEmail, Row
    <3> QED BY <1>2, <2>3, <3>1
  <2> QED BY <2>3, <2>4
<1>3. ASSUME AccountsInv, [Next]_vars
      PROVE  [\A i \in Live :
                /\ RemovedItsEmail(account[i])
                /\ account'[i] # None /\ account'[i].mailbox # None
                => \/ \E r \in Reqs : SetEmail(r)
                   \/ \E mailbox \in Mailboxes : AdminSetsEmail(i, mailbox)]_vars
  BY <1>1, <1>2, <1>3 DEF RemovedKept
<1> QED BY <1>3, AlwaysAccountsInv, PTL DEF Spec, RemovedEmailStaysAway

===============================================================================
