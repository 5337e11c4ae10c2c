SPECIFICATION Spec
CONSTANTS
  ThemeCalls = {h1, h2, h3}
  Slugs = {s1, s2}
  None = None
  Rows = {1, 2}
  Readers = {q1}
  MaxWrites = 3
  Channels = {c1, c2}
  ChannelCalls = {r1, r2, r3}
  Items = {i1, i2}
  SyncCalls = {y1, y2, y3}
  Workloads <- MCWorkloads
CHECK_DEADLOCK FALSE
INVARIANTS TypeOK OneThemeShown TimelineIsTrue RowsAsAnswered
PROPERTIES EditIsShown
