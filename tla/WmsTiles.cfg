SPECIFICATION MCSpec
CONSTANTS
  Reqs = {q1, q2, q3}
  Renders = {q1, q2, q3}
  Tiles = {t1, t2}
  Max = 1
  MaxWaiting = 1
  Retries = 1
  None = None
  Clients = {browser, tile}
  TileClients = {tile}
  Documents = {1, 2}
  Host <- MCHost
  Size <- MCSize
  MaxCache = 2
  MAX_PER_KIND = 1
  Day = 1
  HostRest = 1
  DocumentRest = 1
  MaxTime = 2
  NoAge = NoAge
INVARIANTS SlotsAreHeld RendersAreShared CacheIsSound
PROPERTIES EveryoneIsAnswered
CHECK_DEADLOCK FALSE
