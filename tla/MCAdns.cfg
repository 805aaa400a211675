\* Room for one descriptor at first, three descriptors and two queries.
SPECIFICATION FairSpec
CONSTANTS
  Query = {q1, q2}
  NoQuery = NoQuery
  Fd = {1, 2, 3}
  EventFlag = {"readable", "writable", "pridata"}
  Wants <- MCWants
  Recommended = 1
INVARIANTS TypeOK HandlersMatch
PROPERTIES ImplementsResolver RunCovers QueryAnswered Quiesces
