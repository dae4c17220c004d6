SPECIFICATION SetSpec
CONSTANTS
  Values <- FiveMarkets
PROPERTIES
  ImplementsSet
