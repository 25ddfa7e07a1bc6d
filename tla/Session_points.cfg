SPECIFICATION Spec
\* The programs end.
CHECK_DEADLOCK FALSE
CONSTANTS
  blkSize = 2
  superBlkSize = 2
  commStepSize = 2
  statSecParam = 1
  byteSize = 2
  choiceBuffSize = 2
  stepSize = 2
  baseOtCount = 2
  gOtExtBaseOtCount = 2
  hashStep = 2
  maskBatch = 3
  pointStep = 2
  outputStep = 2
  Cases <- MCPointCases
  Program <- MCPointPrograms
  Openings <- MCOpenings
  LentCases <- MCLentCases
  PointCases <- MCPointCases
  SharedCases <- MCSharedCases
INVARIANTS FilledBeforeUse
