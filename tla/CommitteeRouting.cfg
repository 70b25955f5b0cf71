SPECIFICATION FairSpec
CONSTANTS
  Provider <- MCProvider
  Configured <- MCConfigured
  Enabled <- MCProvider
  Supported <- MCProvider
  Models <- MCModels
  DeepProvider = "opencode"
  HttpRetries = 1
  ResetAge = 2
  Reliable = {"opencode"}
  NoProvider = "none"
  AIProviders <- MCProvider
  FallbackAdjustment <- MCAdjustment
  Preferred = "groq"
  Ballots <- OneBallot
  Contexts <- LastLong
  Desks <- OneDesk
INVARIANTS CycleLocked
PROPERTIES CircuitRespected FallbackOnlyAfterExhaustion
PROPERTIES DeliberationEnds AIRecovers
