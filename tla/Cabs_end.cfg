SPECIFICATION FairSpec
CONSTANTS
  N = 1
  Passengers = {0, 1}
  K = 1
  Wait = 1
  NPay = 2
PROPERTY
  MainEnds
