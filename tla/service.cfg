SPECIFICATION FairSpec
CONSTANTS
  MaxStarts = 3

  
PROPERTY
  StartMeansListening
  StopTakesEffect
CHECK_DEADLOCK FALSE
