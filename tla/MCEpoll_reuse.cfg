SPECIFICATION Spec
CONSTANTS
  Fd = {0, 1}
  Flag = {"readable"}
  MaxEvents = 2
  Interest <- MCInterest
INVARIANT EventsFindTheirSocket
