SPECIFICATION MCSpec
CONSTANTS
  Users = {u1, u2, u3}
  Moderators = {u3}
  Requests = {r1, r2}
  MaxTime = 1
  Maps = {1}
  MaxEdits = 3
  Events = {e1}
  Keys = {k1}
  Covers = {c1, c2}
  Pictures = {1, 2}
  Pages = {w1}
  Licences = {l1, l2}
  Subscribers = {u3}
  MaxChanges = 2
  None = None
  Catalogs <- MCCatalogs
  Queries <- MCQueries
  Alias <- MCAlias
  Crc <- MCCrc
  Limit = 2
  BoxLimit = 2
  Unset = Unset
INVARIANTS GuardedEditsLoseNothing LinkedMapsAreOwners FilesMatchRows LicencesAreTraced ListingsAreExact
PROPERTIES KeptByMerge
SYMMETRY Symmetry
CHECK_DEADLOCK FALSE
