SPECIFICATION Spec
CONSTANTS
  AIProviders = {"groq"}
  FallbackAdjustment <- MCAdjustment
  ConfidenceCap = 35
  Markets <- MCMarkets
  Macros <- MCMacros
  Flows <- MCFlows
  Wires <- MCWires
  Answers <- MCAnswers
INVARIANTS OnlyLongActions GraveRiskBlocks ActsOnData PhysicalWaitsInOutage
INVARIANTS ShockIsDeep FallbackBounded BacktestOnlyWaits
