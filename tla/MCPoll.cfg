\* No socket is destroyed while events are pending.
SPECIFICATION FairSpec
CONSTANTS
  Fd = {0, 1, 2}
  Flag = {"rdnorm"}
  Interest <- MCInterest
  Destroys = "none"
INVARIANTS TypeOK IndicesConsistent EventsCounted
PROPERTIES ImplementsLoop RunEnds EventsHandedOut
