SPECIFICATION FairSpec
CONSTANTS
  Fd = {0, 1, 3}
  Flag = {}
  Interest <- MCInterest
INVARIANTS TypeOK MaxFdExact BitsCounted
PROPERTIES ImplementsLoop RunEnds EventsHandedOut
