SPECIFICATION FairSpec
CONSTANTS
  Proc = {"forever", "once"}
  Snapshots <- MCSnapshots
  NoSnapshot <- None
  Delta = 8
  Window = 1
  Attempts = 2
  MaxPending = 1
INVARIANTS TypeOK RecordMatchesDiscord OneRecommendationOnFile
PROPERTIES ConfidenceAlertsSpaced ChangeReachesDiscord
