SPECIFICATION Spec
CONSTANTS
  Articles <- Pool
  Batches <- MCBatches
  Templates <- MCTemplates
  CommonWords <- MCCommonWords
  MaxCluster = 7
  ExactTier <- MCExactTier
  ListedTiers <- MCListedTiers
INVARIANTS EventsAreStories ConfirmedByTwo EveryNarrativeActive OlderCopiesIgnored
