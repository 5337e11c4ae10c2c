SPECIFICATION Spec
CONSTANTS
  AppNames = {a1, a2}
  Keys = {1, 2, 3, 4, 5}
  Jobs = {j1, j2}
  NoApp = NoApp
  AppsLimit = 1
  MeterLimit = 2
  TrialDays = 1
  GraceDays = 1
  MonthDays = 2
  Workloads = {{"install", "renew", "payment_failed"}, {"meter", "renew", "payment_failed", "overview"}, {"install", "rotate", "uninstall"}, {"install", "rotate", "publish"}, {"install", "uninstall", "publish"}}
  Quantities = {1}
  MaxTime = 2
  MaxEvents = 2
  NoAccount = NoAccount
  NoDate = NoDate
  NoRow = NoRow
SYMMETRY Symmetry
INVARIANTS TypeOK UsageBounded NoServiceAfterGrace OvershootBounded
PROPERTIES RotationRevokes
