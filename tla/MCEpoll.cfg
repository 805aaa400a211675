\* Three sockets, and room for two events.
SPECIFICATION FairSpec
CONSTANTS
  Fd = {0, 1, 2}
  Flag = {"rdnorm", "hup"}
  MaxEvents = 2
  Interest <- MCInterest
INVARIANTS TypeOK ListedHaveHandlers
PROPERTIES ImplementsLoop EventsHandedOut
