SPECIFICATION Spec
CONSTANTS
  Fd = {0, 1}
  Flag = {"readable"}
  Interest <- MCInterest
  Destroys = "own"
INVARIANT ScanInBounds
