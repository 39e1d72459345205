SPECIFICATION MCSpec
CONSTANTS
  ann = ann
  bob = bob
  eve = eve
  t1 = t1
  o1 = o1
  h1 = h1
  h2 = h2
  j1 = j1
  j2 = j2
  None = None
  Users = {ann, bob}
  Tokens = {t1}
  Orders = {}
  Handlers = {}
  Jobs = {}
  Amount = 2
  Price = 1
  Total = 4
  CONCURRENCY = 2
  Tries = 1
  InitialCredits = 1
  Customers = {ann, bob}
  Subscribers = {bob}
  Reordering = TRUE
  Parts = {"billing"}
  LongDownloads = FALSE
  MergesDuring = {}
INVARIANT GrantedOnce
CHECK_DEADLOCK FALSE
