SPECIFICATION MuSpec
CONSTANTS
  W = 4
  MaxOps = 2
  Earlier <- MCEarlier
  StrayWord <- MCStray
INVARIANTS
  ResultCorrect
  PartialQuotient
  PartialProduct
PROPERTY Finishes
