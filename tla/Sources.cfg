SPECIFICATION FairSpec
CONSTANTS
  CooldownTicks = 1
  Series = {"DFII10", "PAYEMS"}
  Feed = {"google_rss", "finnhub"}
  Keyless = {"finnhub"}
  FeedTTL = 1
  TTL <- MCTTL
  Length <- MCLength
  MaxTook = 1
INVARIANTS DataWithinTTL PriceIsCurrent SuccessIsFresh OutageNeverSilences
PROPERTIES GDELTSpaced CollectionEnds
