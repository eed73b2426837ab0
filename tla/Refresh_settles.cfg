SPECIFICATION FairPress
CONSTANTS
  r1 = r1
  r2 = r2
  c1 = c1
  u1 = u1
  a1 = a1
  Runs = {r1, r2}
  NoRun = NoRun
  Connections = {c1}
  Users = {u1}
  Owner <- OneOwner
  Accounts = {a1}
  NoAccount = NoAccount
  Selected = c1
  FailureThreshold = 3
  MaxTick = 0
  MaxDay = 0
  MaxEpoch = 1
  Triggers = {"cron", "manual"}
  MaxFaults = 1
CHECK_DEADLOCK FALSE
PROPERTY PressIsAnswered
PROPERTY LeaseLetGo
