SPECIFICATION OpsSpec
CONSTANTS
  e1 = e1  e2 = e2  c1 = c1  c2 = c2  g1 = g1  g2 = g2  small = small  s1 = s1
  None = None  NoConfig = NoConfig
  Exps = {e1, e2}  Reps = 2  Config <- MCConfig  Callers = {c1, c2}  Loops = {g1, g2}
  MaxCalls = 3  MaxFaults = 1  MaxCrashes = 1
  Sweeps = {s1}  Params <- MCParams  Regimes <- MCRegimes  Outcomes <- MCOutcomes
  NoSweep = NoSweep  NoExp = NoExp  OtherExp = OtherExp
  EmptyValue = EmptyValue  Unparsable = Unparsable
  SweepMaxConfigs = 4  P99Max = 2  DeliveryMin = 1
  MaxSweepCalls = 3  MaxSweepFaults = 1
CONSTRAINT Few
INVARIANTS
  StoreTruthful
  StopSticks
  RowIsOwn
  ReportSound
PROPERTIES
  KeepsCompleted
  RunEnds
  SweepEnds
CHECK_DEADLOCK FALSE
