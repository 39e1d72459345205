-------------------------------- MODULE Gallery --------------------------------
(***************************************************************************)
(* The photo gallery (routers/gallery): pictures with their files and the  *)
(* log of their licences, and the comments and ratings on them and on the  *)
(* photos of Wikimedia Commons. An upload writes the file before the rows; *)
(* a deletion removes it after its commit. Setting the licence of all of   *)
(* one's pictures reads those that differ, under locks, before it writes.  *)
(***************************************************************************)
EXTENDS Owners, SequencesExt

CONSTANTS
  Pictures,    \* ids
  Pages,       \* photos on Commons
  Licences,
  Subscribers, \* users with premium access
  MaxChanges   \* bound on the changes of a picture's licence

PictureRow == [owner: Users, licence: Licences, premium: BOOLEAN]
LicenceRow == [licence: Licences, at: 0..MaxTime]
GalleryWork ==
  [kind: {"upload"}, picture: Pictures, licence: Licences, premium: BOOLEAN,
   createdAt: 0..MaxTime]
  \cup [kind: {"licences"}, licence: Licences, pictures: SUBSET Pictures]
  \cup [kind: {"unlink"}, pictures: SUBSET Pictures]

ASSUME GalleryAssumption == None \notin Licences \cup BOOLEAN /\ None \notin PictureRow

VARIABLES
  picture,      \* the picture table
  picturesMade, \* ids in use or used
  pictureFiles, \* pictures whose file is on the disk
  licenceLog,   \* the pictureLicenseHistory rows of each picture
  comments,     \* who commented on what: the two comment tables
  ratings       \* who rated what: the two rating tables

galleryVars == <<picture, picturesMade, pictureFiles, licenceLog, comments, ratings>>

Photos == Pictures \cup Pages
GalleryInit ==
  /\ picture = [p \in Pictures |-> None] /\ picturesMade = {} /\ pictureFiles = {}
  /\ licenceLog = [p \in Pictures |-> <<>>]
  /\ comments = [x \in Photos |-> {}] /\ ratings = [x \in Photos |-> {}]

LogEntry(licence) == [licence |-> licence, at |-> now]
PicturesOf(u) == {p \in Pictures : picture[p] # None /\ picture[p].owner = u}

\* (mutation) the pictures read without FOR UPDATE
NoLocks == {}

\* SELECT ... FOR UPDATE by owner locks that owner's pictures, those to come too.
LockedGalleries == {Caller(r) : r \in {q \in Requests : Doing(q, "licences")}}
IsLocked(p) == picture[p].owner \in LockedGalleries
-------------------------------------------------------------------------------
Upload(r, p, licence, premium) ==
  /\ Begins(r) /\ p \notin picturesMade
  /\ picturesMade' = picturesMade \cup {p} /\ pictureFiles' = pictureFiles \cup {p}
  /\ GoesOn(r, [kind |-> "upload", picture |-> p, licence |-> licence, premium |-> premium,
                createdAt |-> now])
  /\ UNCHANGED <<picture, licenceLog, comments, ratings>>

\* Without the account there is no row, and the file stays.
InsertPicture(r) ==
  /\ Doing(r, "upload") /\ Caller(r) \notin LockedGalleries
  /\ LET p == Work(r).picture  licence == Work(r).licence
     IN IF Caller(r) \in alive
        THEN /\ picture' = [picture EXCEPT ![p] =
                  [owner |-> Caller(r), licence |-> licence, premium |-> Work(r).premium]]
             /\ licenceLog' = [licenceLog EXCEPT ![p] =
                  <<[licence |-> licence, at |-> Work(r).createdAt]>>]
        ELSE UNCHANGED <<picture, licenceLog>>
  /\ Answered(r)
  /\ UNCHANGED <<picturesMade, pictureFiles, comments, ratings>>

\* PUT: `licence` None and `premium` None leave them as they are.
PutPicture(r, p, licence, premium) ==
  /\ Begins(r) /\ picture[p] # None /\ ~IsLocked(p)
  /\ IsOwnerOrRole(r, picture[p].owner)
  /\ Len(licenceLog[p]) < MaxChanges
  /\ picture' = [picture EXCEPT
       ![p].licence = IF licence = None THEN @ ELSE licence,
       ![p].premium = IF premium = None THEN @ ELSE premium]
  /\ licenceLog' = IF licence \in {None, picture[p].licence} THEN licenceLog
                   ELSE [licenceLog EXCEPT ![p] = Append(@, LogEntry(licence))]
  /\ Answered(r)
  /\ UNCHANGED <<picturesMade, pictureFiles, comments, ratings>>

\* setAllLicense reads the pictures to change, and locks them.
OpenSetAll(r, licence) ==
  /\ Begins(r) /\ Caller(r) \notin LockedGalleries
  /\ LET changed == {p \in PicturesOf(Caller(r)) : picture[p].licence # licence}
     IN IF changed = {} THEN Answered(r)
        ELSE /\ \A p \in changed : Len(licenceLog[p]) < MaxChanges
             /\ GoesOn(r, [kind |-> "licences", licence |-> licence, pictures |-> changed])
  /\ UNCHANGED galleryVars

WriteSetAll(r) ==
  /\ Doing(r, "licences")
  /\ LET licence == Work(r).licence
     IN /\ picture' = [p \in Pictures |-> IF p \in PicturesOf(Caller(r))
                                          THEN [picture[p] EXCEPT !.licence = licence] ELSE picture[p]]
        /\ licenceLog' = [p \in Pictures |-> IF p \in Work(r).pictures
                                             THEN Append(licenceLog[p], LogEntry(licence))
                                             ELSE licenceLog[p]]
  /\ Answered(r)
  /\ UNCHANGED <<picturesMade, pictureFiles, comments, ratings>>

SetAllPremium(r, premium) ==
  /\ Begins(r) /\ Caller(r) \notin LockedGalleries
  /\ picture' = [p \in Pictures |-> IF p \in PicturesOf(Caller(r))
                                    THEN [picture[p] EXCEPT !.premium = premium] ELSE picture[p]]
  /\ Answered(r)
  /\ UNCHANGED <<picturesMade, pictureFiles, licenceLog, comments, ratings>>

\* The file is unlinked once the row is gone.
DeletePicture(r, p) ==
  /\ Begins(r) /\ picture[p] # None /\ ~IsLocked(p)
  /\ IsOwnerOrRole(r, picture[p].owner)
  /\ picture' = [picture EXCEPT ![p] = None] /\ licenceLog' = [licenceLog EXCEPT ![p] = <<>>]
  /\ comments' = [comments EXCEPT ![p] = {}] /\ ratings' = [ratings EXCEPT ![p] = {}]
  /\ GoesOn(r, [kind |-> "unlink", pictures |-> {p}])
  /\ UNCHANGED <<picturesMade, pictureFiles>>

Unlink(r) ==
  /\ Doing(r, "unlink")
  /\ pictureFiles' = pictureFiles \ Work(r).pictures
  /\ Answered(r)
  /\ UNCHANGED <<picture, picturesMade, licenceLog, comments, ratings>>

\* A premium picture is its owner's and the subscribers' to speak of.
MayReact(r, x) ==
  x \in Pictures => /\ picture[x] # None /\ ~IsLocked(x)
                    /\ picture[x].premium => Caller(r) \in Subscribers \cup {picture[x].owner}

\* The foreign key keeps an account that is gone from saying anything.
WithCaller(users, r) == IF Caller(r) \in alive THEN users \cup {Caller(r)} ELSE users

Comment(r, x) ==
  /\ Begins(r) /\ MayReact(r, x)
  /\ comments' = [comments EXCEPT ![x] = WithCaller(@, r)]
  /\ Answered(r)
  /\ UNCHANGED <<picture, picturesMade, pictureFiles, licenceLog, ratings>>

Rate(r, x) ==
  /\ Begins(r) /\ MayReact(r, x)
  /\ ratings' = [ratings EXCEPT ![x] = WithCaller(@, r)]
  /\ Answered(r)
  /\ UNCHANGED <<picture, picturesMade, pictureFiles, licenceLog, comments>>

\* The merge moves what hangs on pictures; on Commons' photos it goes with the account.
WithMoved(table, source, target) ==
  [x \in Photos |-> IF x \in Pictures THEN Renamed(table[x], source, target)
                    ELSE table[x] \ {source}]

MergeGallery(source, target) ==
  /\ {source, target} \cap LockedGalleries = {}
  /\ picture' = Repointed(picture, source, target)
  /\ comments' = WithMoved(comments, source, target)
  /\ ratings' = WithMoved(ratings, source, target)
  /\ UNCHANGED <<picturesMade, pictureFiles, licenceLog>>

\* A deleted account takes its pictures along; `pictureFiles` of theirs go after.
DeleteGalleryOf(u) ==
  LET gone == PicturesOf(u)
      without(table) == [x \in Photos |-> IF x \in gone THEN {} ELSE table[x] \ {u}]
  IN /\ u \notin LockedGalleries
     /\ picture' = WithoutOwner(picture, u)
     /\ licenceLog' = [p \in Pictures |-> IF p \in gone THEN <<>> ELSE licenceLog[p]]
     /\ comments' = without(comments) /\ ratings' = without(ratings)
     /\ pictureFiles' = pictureFiles \ gone
     /\ UNCHANGED picturesMade
-------------------------------------------------------------------------------
\* "Append-only log of each picture's license ... the latest row is the current
\* license and its changedAt is the 'licensed since' shown" (database.ts:247):
\* whoever edits one picture or all, merges or deletes meanwhile, the last row has
\* the picture's licence, each row a change, and none is later than the last.
LicencesAreTraced ==
  \A p \in Pictures : picture[p] # None =>
    LET log == licenceLog[p]
    IN /\ log # <<>> /\ Last(log).licence = picture[p].licence
       /\ \A i \in 2..Len(log) : /\ log[i].licence # log[i - 1].licence
                                 /\ log[i].at >= log[i - 1].at

\* A picture's file is there as long as its row.
PicturesHaveFiles == \A p \in Pictures : picture[p] # None => p \in pictureFiles
===============================================================================
