SPECIFICATION FairSpec
CONSTANTS
  N = 1
  Passengers = {0, 1, 2}
  K = 2
  Wait = 1
  NPay = 3
INVARIANTS
  PaymentsSound
  BookingExclusive
PROPERTY
  AllThrough
