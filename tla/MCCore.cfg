\* Two timeouts of the program, so that a task can be due while another is
\* run; tasks for the current second, for the next one, and one further
\* ahead than the demultiplexer can wait.
SPECIFICATION FairSpec
CONSTANTS
  Query = {q1, q2}
  Socket = {s1}
  Timeout = {t1, t2}
  Dns = dns
  Delay = {0, 1, 3}
  MaxTimeout = 2
  MaxPass = 3
INVARIANTS TypeOK SleepsInTime QueriesAttended
PROPERTIES  Empties
