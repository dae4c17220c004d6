SPECIFICATION FairSpec
CONSTANTS
  Networks <- SomeNetworks
  MaxRuns = 2
  MaxSingles = 1
INVARIANTS
  OneDeployment
  PublishedIsComplete
PROPERTIES
  FreshRunsSucceed
