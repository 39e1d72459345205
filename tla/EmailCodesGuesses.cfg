SPECIFICATION MCSpec
CONSTANTS
  Sends = {s1, s2}
  Checks = {c1, c2, c3}
  Mailboxes = {m1}
  Users = {}
  Ips = {ip1, ip2}
  NoUser = NoUser
  None = None
  MaxPerIp = 2
  MaxPerAddress = 2
  MaxAttempts = 2
  MaxGuesses = 3
  MinResend = 0
  Ttl = 1
  Hour = 1
  Day = 1
  SendTime = 3
  MaxTime = 1
  MaxRestarts = 1
  DbFaults = TRUE
SYMMETRY RequestSymmetry
INVARIANTS SpentOnce GuessingIsCapped AcceptedIsDue
CHECK_DEADLOCK FALSE
