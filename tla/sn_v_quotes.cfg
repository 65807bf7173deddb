SPECIFICATION Spec
CONSTANTS
  Configs <- MCQuoteConfigs
  Preexisting = {{}}
  Faults = {}
  MaxRecord = 6
  MaxInput = 6
INVARIANTS
  QuotesEscapeInPairs
