SPECIFICATION Spec
CONSTANTS
  Servers = {a, b}
  Seeds = {a}
  Ops = {o, p}
  Roles = {"primary", "secondary", "other", "error"}
  Retries = 2
  ReadSecondary = FALSE
  SetName = "none"
  MaxEvents = 3
  None = None
INVARIANTS TypeOK AnsweredOnce TargetIsMaster
CONSTRAINT TwoAsk
SYMMETRY OpsAlike
CHECK_DEADLOCK FALSE
