SPECIFICATION FairSpec
\* AllFinish tells the end of the trials from a deadlock.
CHECK_DEADLOCK FALSE
CONSTANTS
  a = a
  Items <- OneItem
  Inputs <- Small
  Trials = 1
  BaseOts = TRUE
INVARIANT TypeOK
INVARIANT NoCrash
INVARIANT ThreadsDisjoint
INVARIANT KindsMatch
PROPERTY CorrectionsDelivered
PROPERTY ImplementsPsi
PROPERTY AllFinish
