CONSTANTS
  ann = ann  bob = bob
  annMail = annMail  bobMail = bobMail
  annHub = annHub  annHub2 = annHub2
  Owner <- MCOwner
  ProviderOf <- MCProviderOf
  None = None
  Providers = {"github"}
  Proving = {"github"}
  Reqs = {r1}
  Persons = {ann, bob}
  Mailboxes = {annMail, bobMail}
  Remotes = {annHub, annHub2}
  Fields = {"email", "github"}
  MaxAccounts = 3
  MaxOrganizers = 1
  Users = {u1, u2}
  Managers = {u1}
  Requests = {q1, q2}
  Visits = {v1, v2}
  Links = {n1}
  MaxTokens = 2
  MaxLife = 1
  LinkLife = 1
  MaxTime = 2
  MaxTaken = 1
  NULL = NULL
SPECIFICATION MCSpec
INVARIANTS OnePersonPerAccount EveryoneCanGetIn AliasesResolve ShownByConsent RoleTokensAreShortLived RoleTokensStay MapAppsGetOneToken
PROPERTIES OwnMergeKeepsLogins RemovedEmailStaysAway
CHECK_DEADLOCK FALSE
