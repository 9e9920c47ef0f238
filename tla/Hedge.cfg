SPECIFICATION FairSpec
CONSTANTS
  Requests = {p1, p2}
  Workers = {p2}
  FundTxs = {joint}
  Joint = joint
  None = None
  MaxKills = 1
INVARIANTS TypeOK FundingIsReal
PROPERTY RecordedIsSettled
CHECK_DEADLOCK FALSE
