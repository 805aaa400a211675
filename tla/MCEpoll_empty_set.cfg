SPECIFICATION Spec
CONSTANTS
  Fd = {0, 1}
  Flag = {"readable", "hup"}
  MaxEvents = 2
  Interest <- MCInterest
INVARIANT NoEmptyEventSet
