# Freemap backend: specification, model checking and proofs

TLA+ models of the Node.js backend of freemap.sk (`src/`): its accounts, logins
and tokens, email codes, purchases and paid downloads, live tracking, cached map
tiles, saved maps, events and the photo gallery, the import of Wikimedia photos
and the harvest of events. TLC checks the models on small instances; TLAPS proves
their most important safety properties for every value of their constants.

The code serves everything from one process with a MariaDB pool. There are no
threads, so the unit of interleaving is the stretch between two `await`s, or a
whole transaction where the rows it decides by are locked. What is hard in this
program is therefore

* requests that overlap between statements, each right by itself;
* rows read before an `await` and used after it, above all `ctx.state.user`
  while another request merges or deletes that account;
* state in memory that a restart empties while the tables stay;
* reports of others that come twice, late or out of order (Rovas, Polar), and
  work that goes on after its request was answered (map downloads);
* things that must be given back on every path: slots, blocked credits.

## 1. Inventory

| Part | State | Operations | Hard behaviour | What makes it correct |
|---|---|---|---|---|
| Email codes (`emailCodes.ts`) | table `emailCode`; in memory `sendsByIp`, `guessesByAddress`, `CODE_KEY` | `sendEmailCode`, `checkEmailCode`, hourly `cleanup` | sends and checks that overlap statement by statement, failing statements, slow mails, restart | a code is spent once; caps on guesses and sends hold in races; the requester's last code works |
| Accounts (`loginProcessor.ts`, `userMerge.ts`, `patchUserHandler.ts`, ...) | tables `user`, `auth`, `userAlias` | login by provider or email, connect, disconnect, confirm an address, settings, deletion, administrator's edits and merges | stale `ctx.state.user`; merges at any time; addresses providers claim | one person per account; nobody is locked out; a profile shows only what its owner published; aliases resolve |
| App tokens, roles, map apps (`appTokens.ts`, `roles.ts`, `mapApps/`) | `appToken`, `locusInstall`, `user.roles` | tokens made, edited, deleted; roles given, taken, merged; install links; the token map apps share | a role taken away while a request holds the old row; apps that ask at once | a token's role scopes live briefly and go with the role; one token for all apps; a link works once |
| Money (`purchase*`, `polar*`, `downloadMapHandler.ts`) | `purchaseToken`, `purchaseIntent`, `purchase`, `blockedCredit`, `user.credits`, `user.premiumExpiration`, `user.polarCustomerId` | Rovas checkout and reports, Polar order and webhook, start, end and failure of a download, cleanup | repeated and reordered reports, overlapping webhooks, restarts, merges in the middle; tiles that settle in any order | a payment is granted once and not lost; credits balance; a note of blocked credit does not stay; a paid file is whole |
| Device tracking (`deviceTracking.ts`, `ws.ts`, `rpcHandlers/`) | `trackingDevice`, `trackingPoint`, `trackingAccessToken`; in memory `trackRegister` | five ways to report a point, CRUD of devices and tokens, subscribe, unsubscribe, close | a point is told before its transaction commits; history and live points race | retention; a watcher misses nothing; a deleted token is told of no further report |
| WMS tiles (`wmsTileHandler.ts`) | files of the cache; in memory `gates`, `renders`, `unreachable` | GET of a tile, `sweep` | shared renders, waiters that leave, slots handed over, renders that give way, retries | no slot lost; a tile rendered once at a time; everybody answered |
| WMS proxy, catalog (`wmsProxyHandler.ts`, `mapCatalog.ts`) | in memory: cache of capabilities with its size, downloads under way, hosts and documents left alone | capabilities, feature info | expired entries, eviction, overlapping downloads, failing hosts | the counters are true; nothing is older than a day |
| Saved maps (`routers/maps/`) | `map`, `mapWriteAccess` | CRUD with `If-Unmodified-Since` | concurrent editors; resolution of a second | no guarded edit overwrites what its client did not know |
| Events (`routers/events/`) | `event`, `eventParticipant`, covers on disk | CRUD, linked map, cover, participation, harvested sources | a check by a snapshot before the write; files written before and removed after | a linked map is the owner's; files and rows match |
| Gallery (`routers/gallery/`) | `picture`, `pictureLicenseHistory`, comments, ratings, files | upload, edit, licence of all, delete, comment, rate; listings of own pictures and Commons photos | a row and its file; edits of one beside edits of all; two tables merged under limits | no row without file; the log has every change; a listing has exactly the first that fit |
| Wikimedia import (`wikimedia/`, `systemd/`) | `wikimediaPicture` and its staging tables; systemd units | a job of hours over four dumps, swap by RENAME, reports by mail | cut-off dumps, retries within a budget, a crash between steps; chunks cut anywhere | a table is published only whole; a report is true; a run ends by itself |
| Harvest of events (`scripts/harvest-events.mjs`) | the events of a source | read, mark duplicates, post, delete, exit code | any request fails, also after it took effect; the rest of the world changes | what is still listed is not deleted; green means synced |
| OAuth exchanges, provider tokens | `auth*`, `stravaAuth`, ... | code exchange, refresh | parallel refresh | the stored token is the valid one |
| Elevation, geoip, GPX, OSM traces, Garmin, Strava, profiles | little or none | one-shot | - | - |

How they meet: the login processor and `PUT /auth/email` call
`mergeUserAccounts`, which repoints the rows of every other part; email codes
prove the address both of them act on; purchases and downloads meet in
`user.credits`; subscriptions and reports of tracking meet in `trackRegister`;
an event links a saved map, and both, like pictures, are owned by accounts that
merge and go; the WMS tiles take the back-off and the names of layers of the WMS
proxy; the listings read the table the import swaps in.

## 2. Modules

| Module | Models | Runs |
|---|---|---|
| `EmailCodes` | `emailCodes.ts` | `EmailCodesGuesses`, `EmailCodesSends`, `EmailCodesSlowMail` |
| `EmailCodesProofs` | theorems about it | - |
| `Accounts` | accounts, sessions, aliases | `Accounts` |
| `AccountsProofs` | theorems about it | - |
| `AppTokens` | app tokens, roles, install links of map apps | `Accounts` |
| `AppTokensProofs` | theorems about it | - |
| `Wallets` | credits, premium, Polar customer of an account, and a merge of them | - |
| `Purchases` | Rovas and Polar, over `Wallets` | - |
| `MapDownloads` | paid downloads, over `Wallets` | - |
| `Billing` | composes `Purchases`, `MapDownloads` with merges, deletion, restart | `Billing`, `RovasRepeats`, `RefundLost`, `PolarLost` |
| `TilePackage` | the file a paid download makes | `Billing` |
| `BillingProofs` | theorems about `Billing` and `TilePackage` | - |
| `Tracking` | live tracking | `Tracking` |
| `TrackingProofs` | theorems about it | - |
| `Gate` | `class Gate` | - |
| `WmsTiles` | shared renders, over `Gate` | `WmsTiles` |
| `WmsProxy` | capabilities, feature info, hosts left alone | `WmsTiles` |
| `WmsTilesProofs` | theorems about `WmsTiles` and `WmsProxy` | - |
| `Owners` | accounts that own content, and requests on a user row read before | - |
| `SavedMaps`, `Events` | saved maps; events over them | - |
| `Gallery` | pictures, licences, comments, ratings | - |
| `Content` | composes these with merges, deletions, restarts | `Content` |
| `ContentProofs` | theorems about `Content` and `Listings` | - |
| `Listings` | ordered, radius and box listings | `Content` |
| `Publication` | abstract: a table replaced whole | - |
| `WikimediaImport` | the import; implements `Publication` | `Wikimedia` |
| `SqlDump` | the reader of dumps | `Wikimedia` |
| `Harvest` | the harvest of a calendar | `Wikimedia` |
| `ImportsProofs` | theorems about `WikimediaImport`, `Harvest` and `SqlDump` | - |

`MC*` modules hold the instances for TLC. Where an instance of several modules
would reach too many states although they share nothing, `part`, chosen in the
initial state, says which of them a behaviour is about; each part is then an
instance of its own, and a property of a part is true in the others by itself or
by its premise. `PROJECT.json` maps every definition to its lines.

### EmailCodes

A request is a process with a control state (`spc` for sends, `cpc` for checks)
named after the statement it stands before. `code` is the table, one possible
row per send; `ipSlots` and `guessSlots` are the two limiters as sets of slots,
so that what `takeSlot` gives back is the slot itself. Time is a counter of
ticks; the windows are constants, so that a small instance puts their borders
next to each other. `SendTime` bounds how long a send may take: the code has no
such bound (`mailer.ts:24`), which is what `EmailCodesSlowMail` shows. Whether
the digits a user enters are those of a row is a choice of the environment,
limited to rows whose hash was keyed by this process. A statement may fail
(`DbFaults`) at every point, and a restart ends every request.

### Accounts

Every handler reads the rows it changes `FOR UPDATE` in one transaction that is
retried when it loses a race, so it is one step; what stays outside is the
account a request was authenticated as, kept in `req` from `Authenticate` on.
Every mailbox and every user of a provider has an `Owner`, a person; a session
remembers in `who` which person opened it. That makes "nobody gets into
another's account" a statement about states. `UNIQUE` indexes are left out on
purpose: that logins stay unique has to follow from the handlers. Providers
differ in whether they prove an address (`Proving`); one that does not may claim
any address at all.

### Wallets, Purchases, MapDownloads, Billing

`Wallets` has the columns of money, what a purchase adds and what a merge does.
`Purchases` has each Rovas token with the `story` Rovas will tell of it, one of
those the handler knows; a report is repeated until it is seen answered, and
with `Reordering` earlier ones are repeated too. A Polar order is paid and then
reported by overlapping webhook requests, each in two steps: the account is
resolved, then the transaction records and grants. `MapDownloads` has one
control state per job and the `blockedCredit` rows. `Billing` adds what
crosses: merges, deletion, restart. The history variables `bought` (the account
the credits of a payment went to) and `paid` (the maps that kept their price)
make `CreditsBalance` a ledger of each account: what it and the accounts merged
into it began with, plus what was bought for them, minus the maps they were
charged for.

`MergesDuring` says what a merge may overtake. With the empty set the balance
and the delivery of orders hold; with `"download"` or `"order"` they do not
(`RefundLost`, `PolarLost`). The split keeps each passing run meaningful: it
holds under exactly the assumption the violated run drops.

### Tracking

A report is a transaction in five steps (insert and prune, read the tokens,
tell, commit, or fail). `Locked(d)` is the lock on the device's row; whoever
writes the device, its points or its tokens waits for it. Only the ID of a point
matters, and which points are too old for `maxAge` is any subset, because the
device gives the time. A subscription is four steps: found, registered, read,
sent. Between the last two the handler awaits the history
(`trackingSubscribeHandler.ts:102`), so the rows that were read are kept in `sub`
and sent whatever was deleted meanwhile: `RevokedLinksAreSilent` allows that, and
nothing else after a deletion. `seen`, `missable` and `left` are history variables of what a client
was sent, what it may miss, and whether it gave up. A restart is, to the tables,
the closing of every socket and the failure of every report. Left out: the
subscription's own limits, the check of the owner (taken to be passed), formats.

### Gate, WmsTiles

`Gate` has the count of slots and the two queues; entering, leaving a queue and
handing over a slot are operators, because the class is always called in the
middle of a handler. `WmsTiles` has requests (`req`), renders (`render`) and the
map from tile to render (`current`). `"handed"` is the time between a slot's
handover and the continuation of `enter`; only microtasks run there, and the
model lets anything happen, which covers them. `started` in the code is the set
of control states `Started`. A request has at most one render to start, which
has its name. Left out: several layers of a request, several hosts (gates do not
meet), capabilities, composition.

### AppTokens

A request is the user row its authentication read (`user`, `manager`) and
whether it came with a session or an app token; making, editing and deleting are
one transaction each and so one step, on that old row. Of roles and scopes only
`userManager`, the scopes that need it (`RoleScopes`), those of the tiles and the
rest are told apart. `granted` notes, for each token, by which account and after how many
losses of the role its role scope was last written, which is what makes "granting it
again won't revive them" a statement about states. A visit of a map app is a
transaction of three steps: it takes the link, locks the user's row, and writes
or finds the token; `holder` is that lock. An edit names other scopes, or keeps
those of a map app's token with a new note or expiration (`EditedScopes`). A request authenticated before the
role was taken away may write a token after it: `RoleTokensStay` compares with
the role as that request knew it, because the handlers do (`patchAppTokenHandler.ts:105`).

### Owners, SavedMaps, Events, Gallery, Content

`Owners` has the accounts and, for each client, the user a request was
authenticated as and where its handler is (`doing`). `SavedMaps` has a map's
editions, each with its second and the edition its client knew (`base`); a PATCH
holds the row from its first statement, so it is one step, and a POST writes the
map and its writers apart. `Events` has the POST and PATCH in two steps, the
check by a snapshot and the write; the PATCH holds the event's row between them
(`LockedEvents`). A cover is two files of a new name, written before the row and
the old ones unlinked after the commit; `strays` are those whose loss the code
accepts (a restart, an unlink that failed, a commit whose answer was lost).
`Gallery` has pictures with their file and licence log, the edit of all of one's
pictures in two steps with the rows locked between (`LockedGalleries`), and
comments and ratings on pictures and on Commons photos. A merge moves what
`userMerge.ts:33-54` lists; comments and ratings on Commons photos are not in it
and cascade with the row (`WithMoved`). `Content` composes these with merges and
deletions, a transaction and a step each, and restarts.

### Listings

A state is a catalog, a query and the answer. Each arm of a query is cut to its
limit before the two tables are merged, as in the code. `Top` is ORDER BY with
LIMIT: rows of which neither comes before the other may be in either order, and at
the limit either may be the one that is left out, so an answer is any of a set. `ListsTheTop` and
`ListsTheBox` compare with the plain definition: all that fit, in order, the
first of them. A rating is in twelfths so that the Bayesian mean is an integer:
exact for up to two ratings of a photo, as in the run, while with more some that differ
tie here. By distance both arms first cut to one prefilter box
(`getPicturesHandler.ts:394`); it is left out, taken to hold all that is near, which it
does not across the antimeridian. `CRC32` is a constant function, because only its order matters.

### TilePackage

The promises of the tiles (`tile`), those in the race (`active`), what was stored
and the file. A promise goes on when nobody races it any more, which is why it
may store into a closed file.

### WmsProxy

The cache is a sequence in the order of the last use, with the counter of bytes
beside it; downloads and feature infos are counted apart, and who waits for a
download goes on when it ends. What `MCWmsTiles` does not do is compose it with
`WmsTiles`: the back-off and the names of layers are inputs there.

### Publication, WikimediaImport, SqlDump

`Publication` is what the gallery relies on: the table is replaced in one step,
by the photos of four dumps that were each read whole, never by older ones.
`WikimediaImport` implements it with `shown` as the live table (`Gallery`, property
`PublishedWhole`). `phase` is how far the run is, `pass` the state of each dump's
pass with its attempt, version and hour of its beginning; a pass that is interrupted has
read any part of its dump and committed any part of that. Time is in hours;
`Download` and `Build` bound an attempt and the build, and `TimeoutAssumption` is
the derivation that the comment beside `RETRY_BUDGET_MS` makes. The bitsets are
sets of IDs below `Capacity` and of hashed titles, which may collide. A run ends
by its own report, by a death that the systemd backstop reports, or by the start
timeout. `SqlDump` reads characters in chunks that end anywhere: `scan` and `buf`
are what `streamDumpRows` keeps between two chunks, `ParseChar` is one turn of the
loops of `parseValues`. `Contents` are the rows of each INSERT, and `Dump` is what
mysqldump makes of them, behind another table with an INSERT of its own. A
character goes by its name, and so do the words a statement begins with.

### Harvest

`run` is the state of one run of the script; everybody else changes the calendar,
the table and hand-entered events meanwhile (`touched`). Any request may fail, and
a write also after it took effect. `table` has the events that have not begun, as
`GET /events/sources` lists no others (`sourceHandler.ts:56`), and what the calendar
lists is taken to be of that kind when it is posted.

## 3. Runs

All runs with `pass` finish with no error; each property of theirs has a mutant
of the code, listed in `PROJECT.json`, that breaks it.

| Run | Bounds | Shows |
|---|---|---|
| `EmailCodesGuesses` | any four of 2 sends and 3 checks, 1 mailbox and so 1 topic, 2 addresses, 2 attempts, 3 guesses, 1 restart, faults | a code is spent once (`SpentOnce`); a code is compared at most `MaxAttempts` times and a mailbox's codes are guessed at most `MaxGuesses` times a day (`GuessingIsCapped`); what is accepted is due (`AcceptedIsDue`) |
| `EmailCodesSends` | 3 sends, 2 mailboxes, 2 addresses, 2 sends an hour for each, faults; 7 ticks, resend 3, ttl 4, hour 7, sends of at most 1 tick | spacing and caps of sends, and that a failed one uses up no slot (`SendSpacing`, `HourCaps`), one live code per requester (`OneLivePerRequester`), and it is the last one (`LatestCodeLives`) |
| `EmailCodesSlowMail` | 2 sends, a send may take longer than the resend gap | violation of `LatestCodeLives` |
| `Accounts` | persons: 2 persons, 3 accounts, 2 mailboxes, 2 users of a provider, 2 sessions, 1 request in flight; consent: 1 person, 2 accounts and an organizer's, two fields of the profile; roles: 2 users, 2 requests, 1 token, clock to 2, a role lost once; apps: 2 visits, 1 link, 2 tokens | `OnePersonPerAccount`, `EveryoneCanGetIn`, `AliasesResolve`, `OwnMergeKeepsLogins`, `RemovedEmailStaysAway`; `ShownByConsent`; `RoleTokensAreShortLived`, `RoleTokensStay`; `MapAppsGetOneToken` |
| `Billing` | billing: 2 accounts, 1 token, 1 order, 2 webhook requests, 1 job; package: 4 tiles, 2 at a time, 1 retry | `GrantedExactlyOnce`, `CreditsBalance`, and `NotesAreSettled` under fairness; `PackageIsWhole` |
| `RovasRepeats` | 1 token, reports repeated out of order | violation of `GrantedOnce` |
| `RefundLost` | a merge overtakes a download | violation of `CreditsBalance` |
| `PolarLost` | a merge overtakes an order | violation of `AnsweredIsGranted` |
| `Tracking` | 1 device, 1 access token, 2 reports, 2 subscriptions, 2 sockets, keep 1 point | `Retention`, `WatchersMissNothingElse`, `RevokedLinksAreSilent` |
| `WmsTiles` | tiles: 3 requests, 2 tiles, 1 slot, 1 waiting, 1 retry; proxy: 2 documents on 2 hosts of which one fits, 2 clients, 2 ticks, a day of 1 | `SlotsAreHeld`, `RendersAreShared`, and `EveryoneIsAnswered` under fairness; `CacheIsSound` |
| `Content` | maps: 1 map, 3 editions, 2 seconds; events: 1 event, 1 map, 1 key; covers: 2 uploads; pictures: 2 pictures, 2 licences, 2 changes; reactions: 1 picture and 1 Commons photo; each with 3 accounts of which one goes and 2 clients; listing: catalogs of up to three photos of each source, arms and answers of 2, boxes of 2 pages, all small queries | `GuardedEditsLoseNothing`, `LinkedMapsAreOwners`, `FilesMatchRows`, `LicencesAreTraced`, `KeptByMerge`; `ListingsAreExact` |
| `Wikimedia` | import: 3 pages, 2 photos, 2 versions of each dump, batches of 2, 2 attempts, 2 runs; reader: 2 rows of 1 to 3 fields, in one INSERT and in two, with every pair of special characters, chunks of up to 4; harvest: 2 events, 1 change by others | `PublishedWhole`, `ReportsAreTrue`, `RunsEndThemselves`, and `EveryRunEnds` under fairness; `RowsAreRead`; `GreenMeansSynced`, `OnlyGoneIsDeleted` |

Why the bounds are enough. The properties of email codes relate two codes, or
one code and two entries; a third send, or a third check, is the one that tips a
cap of two. Statements fail in both runs, restarts are in the run of the guesses
only; the theorems on the sends cover them. The guesses are of a single topic, so
that a code accepted is of the topic it was entered for (`AcceptedIsDue`) rests on
the theorem, and what the run shows of it is the process and the time. Two
persons and three accounts give a chain of merges and somebody to take an
account from. Of payments and jobs, each is independent but for the account;
two webhook requests are what overlaps. A device that keeps one point and gets
two is over its limit; two watchers of one key are what a careless unsubscribe
mixes up. In the gate one render holds the slot, one waits, and a third is
turned away or takes another's place. Of two documents only one fits in the
proxy's cache, so every second answer evicts. A third edition is the one that
can overwrite a second which its client never saw; a third account is the
moderator, or the writer a merge has to carry over. Two uploads of one cover
overlap; a picture edited beside one of all has two licences to change between.
Each arm of a listing has up to three photos of its source and keeps two, so every arm
is cut on its own, the two are cut again when they are merged, and a box keeps two of three
pages; among the photos are ties, missing keys and IDs of either sign. In the import two pages share
a bit of the titles' bitset, one page is no photo, a batch of two leaves a gap
in the range, a second version adds and drops pages, and a second run meets what
the first left behind; the hours add up to one less than the timeout, so an hour
more anywhere reaches it. In a dump every pair of special characters is cut at every
place. In the harvest the share of a quarter needs two events to refuse.

The deadlock check is off where the system may stop: every request, report or
job of the instance is done, and nothing more is to come.

Fairness is assumed in three modules. In `Billing` a download that runs goes on
to its end (every step of it has a result, or the process dies and the job is
dead), days pass, and `cleanup` runs hourly (`database.ts:667`). In `WmsTiles`
a fetch ends within 30 s (`wmsProxyHandler.ts:455`), the queue of users has a
timer of 60 s, callbacks run; the prerender's renders have no timer and depend on
the slots others give back, which is what makes `EveryoneIsAnswered` say
something. In `WikimediaImport` the process goes on or time passes, and systemd runs the
backstop; a fault, an interruption or a death never has to happen, and nobody has to start
another run. No fairness is assumed of clients.

## 4. Findings

Four runs show where the program differs from what it says of itself.

1. `EmailCodesSlowMail`: two overlapping sends of one requester void each
   other's code, although "the requester's own resend leaves one live code"
   (`emailCodes.ts:367`). A mail that takes over a minute is enough.
   `EmailCodesSends`, whose mails settle well within the gap, finds the property
   true.
2. `RovasRepeats`: "grant access (idempotently)"
   (`purchaseValidateHandler.ts:176`) depends on the order of the reports: a
   repeated `order-placed` reopens a confirmed intent.
3. `RefundLost`: "Your credits have been refunded." (`downloadMapHandler.ts:47`)
   is not true of an account merged into another while the job ran.
4. `PolarLost`: the lookup by customer that "matters after an account merge"
   (`polarWebhookHandler.ts:114`) finds nobody for a one-time order.

## 5. Proofs

`EmailCodesProofs` proves, for any number of sends, checks, mailboxes, accounts,
addresses and restarts and any sizes of the windows:

* `TypeCorrect`: `Spec => []TypeOK`.
* `CodesAreSpentOnce`: `Spec => []SpentOnce`. `SpentOnce` is not inductive: the
  step that breaks it would be a second check that spends a code already spent.
  The invariant adds `RowsInserted` (only a send past its insert has a row) and
  `SpentForGood` (the code of a check that passed is expired or gone, and no
  send can put it back, since its own send is past the insert). Expiry is the
  only fact that has to survive time, and time only grows.
* `SendsAreSpaced`: `Spec => []SendSpacing`. The invariant speaks of approvals
  rather than mails (`SpacedApprovals`): of any two sends still in the table
  that were let out, the later to be approved counted the earlier's row, because
  every row is inserted before any is counted.
* `OneLiveCode`: `Spec => []OneLivePerRequester`, with the same invariant.
  `RowsOnlyFade` says what every step but the sends' own does to rows: they go,
  expire or gain attempts. One lemma carries the invariant over all such steps.
* `AcceptedCodesAreDue`: `Spec => []AcceptedIsDue`. By `DueInv`, what a check
  compared is the code of a send that was inserted, of the check's topic and of
  this process; a code that was accepted is brought to its expiry (`CutShort`).
* `AttemptsAreCapped`: `Spec => []AttemptCap`. By `TriesInv`, the comparisons made
  with a code and those a check has yet to make are no more than the attempts its
  row has counted: the row pays before the digits are looked at.
* `GuessesAreCapped`: `Spec => []GuessingIsCapped`. By `GuessInv` each guess at a
  mailbox holds a slot of its own, and of the slots taken within a window of any
  moment, not only of now, there are never more than the limit.
* `HoursAreCapped`: `Spec => []HourCaps`. Counted from the approval
  (`ApprovedCap`) and not from the mail; a request of an address holds a slot from
  its start unless it fails, and every slot is one of these (`IpInv`).
* `LatestCodeWorks`: `Spec => []LatestCodeLives` if `QuickSends`: two sends settle
  within the gap between them. The code has no such bound, and
  `EmailCodesSlowMail` is the instance without it; the theorem says that this is
  all that is missing. `LatestInv` names, for every code that is void before its
  time, the later send of its requester that voided it.

`AccountsProofs` proves every property of `Accounts`, for any
persons, accounts, mailboxes, providers, sessions and requests:

* `TypeCorrect`, `OnePersonEach`, `WaysInRemain`, `ConsentIsKept`:
  `Spec => []` of `TypeOK`, `OnePersonPerAccount`, `EveryoneCanGetIn` and
  `ShownByConsent`; `OwnMergesKeepLogins` and `RemovedStaysAway`, the action
  properties `OwnMergeKeepsLogins` and `RemovedEmailStaysAway`.
* `AliasesStayResolved`: `Spec => []AliasesResolve`, through chains of merges of any
  length. Instead of following a chain, the property and the invariant say that
  there is a function from each ID to the one its merges end at, consistent with
  every single merge; each step is shown to leave or to give such a function. A
  merge sends to its target whatever led to its source (`AliasesFollow`), a
  deletion takes the aliases to it along (`AliasesCascade`), and a new account
  never gets an ID that an alias knows, because those are in use (`AliasesStay`).

One invariant serves all of them, `AccountsInv`. `Held` says that all logins of an
account, its sessions and the requests in flight for it are one person's: that is
what a login, a connected provider or a confirmed address could break. `FreshIds`
is needed because requests outlive accounts: an ID that is given out again would
hand a stranger's account to a request that was authenticated before. That no two
accounts share a login (`ApartByLogins`) follows from the handlers, not from an
index. The rest is the soundness of the table (`SoundTable`) and the properties.

`TrackingProofs` proves every property of `Tracking`, for any number of devices,
tokens, reports, subscriptions and sockets and any limits:

* `TypeCorrect`: `Spec => []TypeOK`, with the foreign keys.
* `PointsAreRetained`: `Spec => []Retention`. The prune decides which IDs go two
  steps before the commit, so the invariant says of every report under way that
  the points as they are, with its own and without those pruned, are within the
  limit (`ReportsLeaveRoom`). That stays so because no other report of the
  device (`OneAtATime`) and no change of it (`ReportsHold`) runs beside it. The
  lemma `PruneLeavesRoom` is about `pruneTrackPoints` alone: of any finite set
  of IDs it leaves at most the limit; its proof looks at the oldest ID left.
* `WatchersAreServed`: `Spec => []WatchersMissNothingElse`. The invariant follows
  a point from the telling to the commit: a watcher stays registered while it
  has not left (`StaysRegistered`), and has been sent, or may miss, what was told
  and not yet committed (`HasTold`); while a history is
  awaited, what was stored since it was read was told meanwhile (`HasRead`).
* `RevokedLinksStaySilent`: `Spec => RevokedLinksAreSilent`, an action property.
  The tokens a report has read exist as long as it lasts (`ReadLinksStay`), and
  a history is read under a key that exists or is empty (`GoneKeepNothing`). What
  is sent to the holders of a token that is gone is at most what was read before.

`AppTokensProofs` proves every property of `AppTokens`, for any accounts,
managers, requests, visits, links, number of tokens and lifetimes that are
`Parameters`:

* `TypeCorrect`: `TokensSpec => []TokensTypeOK`. What is needed beyond the types is the lock:
  a visit that writes holds the row of an account that exists (`Locks`), and
  merges, deletions and edits of that account wait for it. Otherwise a map app
  could leave a token without an owner.
* `RoleTokensLiveBriefly`, `RoleTokensStayPut`: `TokensSpec => []RoleTokensAreShortLived`
  and `TokensSpec => []RoleTokensStay`. Both are inductive once it is known what a step
  does to a token that has a role scope after it (`RoleTokensChange`): it is the
  same token on the same account with the role not taken, or a request has just
  written it, within its life and with a grant of now.
* `MapAppsGetOne`: `TokensSpec => []MapAppsGetOneToken`. An unedited derived token has
  to be found by the next app, so the invariant says that it is named, without
  expiration and its account's own, and that while a visit is about to make one
  there is none (`Derived`). The second half survives because whoever else makes
  one for the account would hold the same lock. For the links, a link is with at
  most one visit, which has not handed anything out yet (`LinksHeld`).

`BillingProofs` proves the safety properties of `Billing`, for any accounts,
payments, jobs, webhook requests, prices and times:

* `TypeCorrect`: `Spec => []TypeOK`, without any hypothesis.
* `NothingGrantedTwice`: `Spec => []GrantedOnce`, if reports come in order
  (`Reordering = FALSE`). A token that was granted has no row in `purchaseToken`,
  a confirmed intent, and no report to come that would reopen it; an order that
  was granted is recorded (`OrdersGrantOnce`).
* `PaymentsGrantOnce`: `Spec => []GrantedExactlyOnce`, if besides no merge
  overtakes an order. A paid order that was answered is granted, because the
  account it names had an account when it was looked up and still has, or is
  deleted (`OpenOrdersStay`).
* `CreditsAddUp`: `Spec => []CreditsBalance`, if reports come in order, no merge
  overtakes a download and no job runs for over a day. `LedgerInv` says besides
  that a note of blocked credit is with the account of its buyer (`NotesFit`) and
  that credits went to nobody before they were granted (`BoughtIsGranted`).

The hypotheses are those that the violated runs drop one by one, and the TODO at
`database.ts:633`. `BillingInv`, which needs none of them, says where things are:
`Home` of an account is where its rows are after merges, and what a handler or
a job remembers is brought there by the aliases (`AliasesLead`, `RowsAreOwned`,
`CustomersAtHome`, `BuyersKnown`). For the balance, a merge is the union of
disjoint sets of accounts, payments and maps, and every other step moves at most
one element in or out of one of them.

It also proves, for any number of tiles, promises at a time and tries,

* `PackagesAreWhole`: `PackageSpec => []PackageIsWhole`. Nothing in the code
  counts what is stored: the file is closed when the race is empty. So the
  invariant (`PackageInv`) has to say that every tile that was asked for and is
  not done is in the race, that the race is not empty while tiles are left to
  ask for, and that a tile is done exactly when it was stored or is known to be
  absent.

`WmsTilesProofs` proves the safety properties of `WmsTiles` over `Gate`, for any
requests, tiles, numbers of slots and limits of the queues:

* `TypeCorrect`: `Spec => []TypeOK`.
* `SlotsStayHeld`: `Spec => []SlotsAreHeld`. The count of slots is the number of
  renders that hold one. That needs the two queues to have exactly the renders that say they
  wait in them, each once (`QueuesFit`); otherwise a slot could be handed to a
  render that has left.
* `RendersStayShared`: `Spec => []RendersAreShared`. The map of renders has
  those that run and were not given up, each at its tile (`MapFits`), and one given up
  but still running was handed a slot at that moment.

Of `WmsProxy` it proves, for any clients, hosts, documents of any sizes that fit
and any bounds:

* `CacheStaysSound`: `ProxySpec => []CacheIsSound`. A document is in the cache once
  and expires a day after it came (`CacheFits`); without the first the
  counter would drift at each eviction, without the second a hit could hand
  out an older answer. The bytes are those of a set, of the documents that are in
  the cache, so that no sum over a sequence is needed: an eviction cuts the cache
  in two, and the bytes of the two parts add up because they are disjoint.

`ContentProofs` proves the properties of `Content`, that is of `SavedMaps`,
`Events`, `Gallery` and what is between them, for any accounts, requests, maps,
events, covers, pictures, licences and any order of merges, deletions and
restarts:

* `TypeCorrect`: `Spec => []TypeOK`.
* `GuardedEditsAreSafe`: `Spec => []GuardedEditsLoseNothing`. Editions are in the
  order of their seconds and a guarded one knows one before it (`Ordered`), and
  what a client has seen is an edition that exists (`MapsInv`).
* `LinksStayOwners`: `Spec => []LinkedMapsAreOwners`. Between the check and the
  write the map may go and its owner may be merged or deleted; `ChecksHold` says
  that the check is still true then, or that a foreign key refuses the write.
* `FilesAreTheRows`: `Spec => []FilesMatchRows`. A name of a cover is with one
  upload, with one event, or given up (`HasOnePlace`), and the ID of a picture is
  with its upload, its row, or who unlinks it (`HasItsFile`). What files there are
  follows from the place.
* `LicencesStayTraced`: `Spec => []LicencesAreTraced`. A log ends with the
  licence of its picture and never says the same twice (`IsTraced`). The edit of
  all is the step that could repeat one: it writes what it read a step before, so
  the invariant says that it holds the rows of its owner alone and that what it
  read is still what differs (`LocksHold`).
* `MergesKeepAll`: `Spec => KeptByMerge`, an action property: an alias is only
  set by a merge (`AliasesLead`), and that moves everything it should.

Of `Listings` it proves, for any photos, aliases, queries and limits:

* `ListingsStayExact`: `ListingSpec => []ListingsAreExact`. Its core is about finite sets
  alone (`MergedTops`): two sets cut to the limit and merged give what one query
  over their union could, provided that the order the arms and the merge share is
  one in which what is not comparable ties (`IsOrder`). That the keys of the code make such an
  order is `ArmOrderIsOrder` and `NearerIsOrder`; the mutant that merges by a
  page's negative ID breaks the former. A row that an arm leaves out has the limit's number
  of rows none of which comes after it, and one of those would have to be left out of the answer
  for the row to be missed there (`LeftOutOfMerge`). `RatedSuffice`: an unrated
  page has exactly the prior mean, so a range beyond it is answered in full from the
  ratings. Differences of a box add up because each is taken between rounded latitudes,
  never rounded itself (`BoxIsListed`).

`ImportsProofs` proves the safety properties of `WikimediaImport`, `Harvest` and
`SqlDump`. Of the import, for any dumps
and versions of them, pages, collisions of titles, batches, attempts and durations:

* `TypeCorrect`: `Spec => []TypeOK`, with the order of the passes (`Order`) and
  what has to be there to build the table (`Ready`).
* `ReportsStayTrue`: `Spec => []ReportsAreTrue`. `Told` says what has been mailed
  at each phase of a run.
* `RunsFitTheTimeout`: `Spec => []RunsEndThemselves`. The invariant `InTime`
  bounds the clock by how far the run is: an attempt begins by `LatestStart` or is
  the first of its pass, and ends within `Download`; the build follows and takes
  `Build`. The sum stays below the timeout by `TimeoutAssumption`, which is the
  derivation in the comment beside `RETRY_BUDGET_MS`.
* `Published`: `Spec => PublishedWhole`, that is `Spec => Gallery!Spec`: every step
  is a step of `Publication` or a stutter. The invariant follows the data: a dump
  read is none older than the last one published (`Fresh`), each staging table whose
  pass is done has exactly the rows of one version that the bitsets let through
  (`StagedWhole`), and the new table has them below the range that is next
  (`Filled`). What the batches left out is decided by the smallest ID at or above
  the range, a least element taken from `WellFoundedInduction`.

Of the harvest, for any calendar, events, changes by others and failures:

* `GreenRunsAreSynced`: `HarvestSpec => []GreenMeansSynced`.
* `ListedEventsStay`: `HarvestSpec => OnlyGoneIsDeleted`, an action property.

Their invariant `Harvested` says, of every event nobody else touched, that what
the run read still holds (`ReadHolds`, `MarkedHolds`), and that as long as no
request failed it is as it should be once the run is through with it
(`WorkHolds`). A failure only has to be remembered until the exit code (`RunEnds`).

Of the reader, for any rows of any strings, any chunks and any number of fields
wanted:

* `DumpsAreRead`: `ReaderSpec => []RowsAreRead`. The invariant `ReaderInv` looks
  ahead: from the state kept between two chunks, a scan through all that is still to
  come ends with the rows that are due. A chunk keeps it because scanning one text
  after another is scanning both together (`ScanOn`), so nothing depends on where
  the cut is; what was read is a beginning of what is due because a scan only adds
  rows (`ScanGrows`). That it holds at first is the correctness of the format, built
  up from characters: `Passes` says that the scan sees no end of a statement in a text,
  which holds of an escape and a string and so of every row; and the parser takes a
  written character back to itself (`EscapedParsed`), a field to its value or past it
  (`FieldParsed`, `FieldSkipped`), a row to its first fields (`RowParsed`) and
  an INSERT to those of its rows (`ValuesParsed`). The scan and the parser are recursive
  functions of the position in the text; `Going` says that such a function is there
  and determined, and the induction over positions and over pieces is `Counting`, from
  the well-founded order of `WellFoundedInduction`.

Assumptions. The theorems rest on those the modules declare, all of them
evaluated by TLC in the runs. Two kinds there are: of numbers, that times, limits
and sizes are naturals, positive where the code divides or counts by them, and in
the order the code's own constants are in (`WindowsAssumption` of `EmailCodes`,
`ParametersAssumption` of `AppTokens`, `TrackingAssumption`, `ImportAssumption` and
`TimeoutAssumption` of the import, `GateAssumption`, `WmsTilesAssumption`,
`UsersAssumption`, `PurchasesAssumption`, `DownloadsAssumption`,
`BillingAssumption`, `PackageAssumption`, `OwnersAssumption` of `Accounts` and of
`Owners`, `MapsAssumption`, `EventsAssumption`, `GalleryAssumption`,
`ProxyAssumption`, `QueriesAssumption` and `PhotosAssumption`, which also says
that an ID is one photo's and that a table is finite; `CharactersAssumption` and
`ContentsAssumption` of `SqlDump` name the characters the format uses and say that
a dump is made of rows with a field); and that the
value which stands for a missing row is none of the rows (`NullsAssumption` and
`NoneIsNoRow` of `EmailCodes`, `NoneIsNull` of `Accounts`, `NoRowAssumption` of
`Tracking`, `NoTableAssumption` of the import, `WalletAssumption`,
`PurchaseRowsAssumption`, `ContentAssumption`). Hypotheses a theorem has besides
are in its statement and named above: `QuickSends` for the last code, and
`Reordering`, `MergesDuring` and `LongDownloads` for the money.

Only model-checked. Every safety and action property of the passing runs is a
theorem. The liveness properties `EveryRunEnds`, `EveryoneIsAnswered` and
`NotesAreSettled` are TLC's: fairness and `ENABLED` are out of the prover's reach.
No module with a theorem has a RECURSIVE operator, since the prover loses its
SMT backend there; what recursion the proofs need is in recursive functions.

## 6. Not modelled, and why

* OAuth exchanges, mails, rendering, numeric elevation, formats and validation
  of input: their results are inputs of the models. What a provider answers is the
  claim of `Login` and `Connect`.
* Migrations and start-up: they run once before the server listens.
* Provider tokens: which of two refresh tokens Strava still honours when two
  requests refresh at once is not to be had from the source.
* Subscriptions of Polar: modelled only by the customer they leave. Two checkouts
  at once make two subscriptions (`polarCheckoutHandler.ts:126`); a Rovas payment
  confirmed after its intent expired is refused (`purchaseTokenHandler.ts:151`).
  Both follow from the code alone and no interleaving changes them.
* A job of a paid download that runs for over a day is refunded twice
  (`database.ts:633`, a TODO there): `LongDownloads = FALSE` keeps it out.
  A connection to the tile server that is refused ends the process
  (`downloadMapHandler.ts`: the session has no listener for `error`), which is
  the death of a job in `MapDownloads`.
* A point told to subscribers and rolled back afterwards stays with them
  (`deviceTracking.ts:145`), and a socket that closes while its subscription
  awaits its authorisation stays in the register until it is written to
  (`trackingSubscribeHandler.ts:57`): the tables are not touched by either.
* The prefilter box of the listings by distance, and events of a source that have
  begun: sections `Listings` and `Harvest` above say what is taken for granted.
* Two parts of one cache: `WmsTiles` and `WmsProxy` are not composed.
* The prerender, the catalog's check and the pages of harvested sources: scripts
  run by hand, or parsing of other sites' pages. Pages are cached for 14 days by
  one source; the model reads a page when the list says something else of it.
* Two imports of Wikimedia at once, which systemd prevents; a RENAME that took
  effect and whose answer was lost; a page renamed between two dumps.
* Tags and statistics of the gallery, the lists of events, profiles: reads.

Where the models follow the code and a comment says something else, without
a run of its own: a merge drops the source's comments and ratings on Commons photos
(`userMerge.ts:33-54`, `database.ts:289-308`), although "the target keeps the
consolidated data" (`mergeUsersHandler.ts:144`).

## 7. Plan

Done: everything of section 2, and the proofs of every safety and action property
of section 3. What is left, in this order:

1. Polar's subscription events in `Purchases`.
2. `WmsTiles` over `WmsProxy`, with the shared back-off.

## 8. Running

    tlc -config Tracking.cfg MCTracking.tla
    tlapm EmailCodesProofs.tla

and so on for the other runs and the other modules with proofs. With two workers a
passing run takes from half a minute to about three minutes, a run with a violation seconds.
