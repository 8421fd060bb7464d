CONSTANTS
  Parts = {"Sinks", "Core", "1", "2", "x", "", "Destination", "Filter"}
  Names = {"1", "2"}
  Values = {"a", "b", "Console", "wrong"}
  Wrong = {"wrong"}
  Inputs <- MCInputs
  Stores <- MCStores
  Reloads <- MCReloads
  MaxCalls = 2
  t1 = t1
  t2 = t2
  Threads = {t1, t2}
SPECIFICATION FairSetupSpec
INVARIANTS
  ValuesThatCount
  HandlesWhole
  ConsoleRemembered
PROPERTIES
  SettingsReachSink
  SinkFound
  SinkCallsReturn
CHECK_DEADLOCK FALSE
