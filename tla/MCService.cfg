\* Two descriptors, so that they are reused and run out while a third
\* connection waits; a peer sends more than fits into the buffer.
SPECIFICATION FairSpec
CONSTANTS
  Fd = {3, 4}
  MaxData = 3
  BufferSize = 2
  DaytimeLength = 2
  MaxBacklog = 1
  TakenOver = {FALSE}
INVARIANTS TypeOK DescriptorsOwned CallsAreSafe EchoFaithful
PROPERTIES ConnectionsEnd
