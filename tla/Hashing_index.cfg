SPECIFICATION Spec
\* A call ends; Ends tells that from a deadlock.
CHECK_DEADLOCK FALSE
CONSTANTS
  mN = 4
  numHashes <- MCNumHashes
  batchSize = 2
  TryLimit = 4
  Cases <- MCCases
INVARIANT SamePolynomial
