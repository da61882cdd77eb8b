SPECIFICATION SyncFairSpec
CONSTANTS
  j1 = j1
  j2 = j2
  k1 = k1
  k2 = k2
  p1 = p1
  Job = {j1, j2}
  Builder = {k1, k2}
  Page = {p1}
  MaxData = 3
INVARIANTS SlotHonest FailureShown RefreshNotLost
PROPERTIES SummaryNeverOlder RefreshDone SlotFreed
