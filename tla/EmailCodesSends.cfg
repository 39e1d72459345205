SPECIFICATION MCSpec
CONSTANTS
  Sends = {s1, s2, s3}
  Checks = {}
  Mailboxes = {m1, m2}
  Users = {}
  Ips = {ip1, ip2}
  NoUser = NoUser
  None = None
  MaxPerIp = 2
  MaxPerAddress = 2
  MaxAttempts = 1
  MaxGuesses = 3
  MinResend = 3
  Ttl = 4
  Hour = 7
  Day = 7
  SendTime = 1
  MaxTime = 7
  MaxRestarts = 0
  DbFaults = TRUE
SYMMETRY RequestSymmetry
INVARIANTS SendSpacing HourCaps OneLivePerRequester LatestCodeLives
CHECK_DEADLOCK FALSE
