SPECIFICATION Spec
CONSTANTS
  Sends = {s1, s2}
  Checks = {}
  Mailboxes = {m1}
  Users = {}
  Ips = {ip1}
  NoUser = NoUser
  None = None
  MaxPerIp = 2
  MaxPerAddress = 2
  MaxAttempts = 1
  MaxGuesses = 3
  MinResend = 3
  Ttl = 4
  Hour = 7
  Day = 7
  SendTime = 9
  MaxTime = 7
  MaxRestarts = 0
  DbFaults = FALSE
SYMMETRY RequestSymmetry
INVARIANT LatestCodeLives
CHECK_DEADLOCK FALSE
