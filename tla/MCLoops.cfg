SPECIFICATION FairSpec
CONSTANTS
  None = None
  a1 = a1
  i1 = i1
  i2 = i2
  q1 = q1
  q2 = q2
  r1 = r1
  r2 = r2
PROPERTY PoolsFollow
PROPERTY SomeoneLeads
PROPERTY KilledEnds
PROPERTY StreamsEnd
PROPERTY RecordsEnd
PROPERTY UnservedIsNoticed
CHECK_DEADLOCK FALSE
