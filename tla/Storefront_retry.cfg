SPECIFICATION Spec
CONSTANTS
  r1 = r1
  r2 = r2
  r3 = r3
  c1 = c1
  c2 = c2
  u1 = u1
  a1 = a1
  Runs = {r1, r2}
  NoRun = NoRun
  Connections = {c1}
  Users = {u1}
  Owner <- OneOwner
  Accounts = {a1}
  NoAccount = NoAccount
  FailureThreshold = 3
  MaxTick = 1
  MaxDay = 1
  MaxEpoch = 1
  Triggers = {"cron", "manual"}
  MaxFaults = 0
SYMMETRY Symmetry
CHECK_DEADLOCK FALSE
INVARIANT FailureCanBeRetried
