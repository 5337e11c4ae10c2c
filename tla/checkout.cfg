SPECIFICATION Spec
CONSTANTS
  t1 = t1
  t2 = t2
  o1 = o1
  o2 = o2
  pa = pa
  pb = pb
  Products = {pa, pb}
  TopLimit = 1
  Limits = {0, 1}
  Tenants = {t1, t2}
  Orders = {o1, o2}
  None = None
  RawDays = 0
  RollupDays = 1
  BucketLimit = 1
  FrontKinds = {"session_started"}
  Workloads <- MCWorkloads
  MaxEvents = 4
  MaxFrontEvents = 3
  MaxDays = 3
  MaxStatusChanges = 2
  MaxFailures = 1
  Carts <- MCCarts
  Offers <- MCOffers
  TaxPercent = 10
CHECK_DEADLOCK FALSE
INVARIANTS TypeOK ReportsAreTrue ChargesMatchSales
PROPERTIES TotalsKept EventsAreProcessed
