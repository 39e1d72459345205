SPECIFICATION MCSpec
CONSTANTS
  ann = ann
  bob = bob
  eve = eve
  t1 = t1
  o1 = o1
  h1 = h1
  h2 = h2
  j1 = j1
  j2 = j2
  None = None
  Users = {ann, bob}
  Tokens = {t1}
  Orders = {o1}
  Handlers = {h1, h2}
  Jobs = {j1}
  Amount = 2
  Price = 1
  Total = 4
  CONCURRENCY = 2
  Tries = 1
  InitialCredits = 1
  Customers = {bob}
  Subscribers = {bob}
  Reordering = FALSE
  Parts = {"billing", "package"}
  LongDownloads = FALSE
  MergesDuring = {}
INVARIANTS GrantedExactlyOnce CreditsBalance PackageIsWhole
PROPERTIES NotesAreSettled
CHECK_DEADLOCK FALSE
