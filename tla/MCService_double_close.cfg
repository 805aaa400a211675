\* The handler may throw after a socket of its own has taken the descriptor
\* over, as echo::accept() does when query_ptr() fails.
SPECIFICATION Spec
CONSTANTS
  Fd = {3, 4}
  MaxData = 3
  BufferSize = 2
  DaytimeLength = 2
  MaxBacklog = 1
  TakenOver = {FALSE, TRUE}
INVARIANT GuardClosesOnce
