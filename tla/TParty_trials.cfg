SPECIFICATION Spec
CONSTANTS
  a = a
  Items <- OneItem
  Inputs <- Larger
  Trials = 2
  BaseOts = FALSE
PROPERTY ImplementsPsi
