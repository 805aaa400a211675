-------------------------------- MODULE Poll --------------------------------
(***************************************************************************)
(* The demultiplexer based on poll(2), include/ioxx/detail/poll.hpp: a     *)
(* vector of pollfd records, the map from native sockets to their indices  *)
(* in it, and the scan with which pop_event() looks for events.  Positions *)
(* count from 1.                                                           *)
(***************************************************************************)
EXTENDS Sequences, FiniteSets, EventFlags

VARIABLES
  pfd,          \* poll::_pfd
  indices,      \* poll::_indices, a function on the registered sockets
  nEvents,      \* poll::_n_events
  current       \* poll::_current

pollVars == <<pfd, indices, nEvents, current>>

PollFd == [fd : Fd, events : SUBSET EventFlag, revents : SUBSET Flag]

PollInit ==
  /\ pfd = <<>>
  /\ indices = <<>>
  /\ nEvents = 0
  /\ current = 0

(* poll::socket::socket(): push_back, then request(). *)
PollAdd(fd, ev) ==
  /\ pfd' = Append(pfd, [fd |-> fd, events |-> ev, revents |-> {}])
  /\ indices' = [f \in DOMAIN indices \cup {fd} |->
                   IF f = fd THEN Len(pfd) + 1 ELSE indices[f]]
  /\ UNCHANGED <<nEvents, current>>

(* Mutant: the last record is modified. *)
PollRequestLast(fd, ev) ==
  /\ pfd' = [pfd EXCEPT ![Len(pfd)].events = ev]
  /\ UNCHANGED <<indices, nEvents, current>>

(* poll::socket::request() *)
PollRequest(fd, ev) ==
  /\ pfd' = [pfd EXCEPT ![indices[fd]].events = ev]
  /\ UNCHANGED <<indices, nEvents, current>>

(* Mutant: the index of the record that was moved is not updated. *)
PollRemoveNoReindex(fd) ==
  LET last == Len(pfd)
      i    == indices[fd]
  IN  /\ pfd' = [k \in 1..(last - 1) |-> IF k = i THEN pfd[last] ELSE pfd[k]]
      /\ indices' = [f \in DOMAIN indices \ {fd} |-> indices[f]]
      /\ UNCHANGED <<nEvents, current>>

(* Mutant: the record is erased and the ones behind it move up, but the    *)
(* indices are set as if the last one had been moved.                      *)
PollRemoveShift(fd) ==
  LET last == Len(pfd)
      i    == indices[fd]
  IN  /\ pfd' = [k \in 1..(last - 1) |-> IF k < i THEN pfd[k] ELSE pfd[k + 1]]
      /\ indices' = [f \in DOMAIN indices \ {fd} |->
                       IF f = pfd[last].fd THEN i ELSE indices[f]]
      /\ UNCHANGED <<nEvents, current>>

(* poll::socket::~socket(): the last record takes the place of the one     *)
(* removed, wherever pop_event() has got to.                               *)
PollRemove(fd) ==
  LET last == Len(pfd)
      i    == indices[fd]
  IN  /\ pfd' = [k \in 1..(last - 1) |-> IF k = i THEN pfd[last] ELSE pfd[k]]
      /\ indices' = [f \in DOMAIN indices \ {fd} |->
                       IF f = pfd[last].fd THEN i ELSE indices[f]]
      /\ UNCHANGED <<nEvents, current>>

(* The next position at which pop_event() finds an event. *)
IsNext(k) ==
  /\ k \in (current + 1)..Len(pfd)
  /\ pfd[k].revents # {}
  /\ \A j \in (current + 1)..(k - 1) : pfd[j].revents = {}

(* Mutant: the scan does not count the events it hands out. *)
PollPopUncounted(fd, flags) ==
  /\ nEvents # 0
  /\ \E k \in 1..Len(pfd) :
       /\ IsNext(k)
       /\ fd = pfd[k].fd /\ flags = pfd[k].revents
       /\ current' = k
  /\ UNCHANGED <<pfd, indices, nEvents>>

(* Mutant: the scan does not get past an event. *)
PollPopPeek(fd, flags) ==
  /\ nEvents # 0
  /\ \E k \in 1..Len(pfd) :
       IsNext(k) /\ fd = pfd[k].fd /\ flags = pfd[k].revents
  /\ UNCHANGED pollVars

(* poll::pop_event() returns true. *)
PollPop(fd, flags) ==
  /\ nEvents # 0
  /\ \E k \in 1..Len(pfd) :
       /\ IsNext(k)
       /\ fd = pfd[k].fd /\ flags = pfd[k].revents
       /\ current' = k
  /\ nEvents' = nEvents - 1
  /\ UNCHANGED <<pfd, indices>>

(* pop_event() looks for an event that is not there: _pfd is read beyond   *)
(* its end.                                                                *)
PollOverrun ==
  /\ nEvents # 0
  /\ ~\E k \in 1..Len(pfd) : IsNext(k)

(* Mutant: the last event is left in the vector. *)
PollEmptyButOne == nEvents <= 1 /\ UNCHANGED pollVars

(* pop_event() returns false. *)
PollEmpty == nEvents = 0 /\ UNCHANGED pollVars

(* poll(2) sets the revents of every record and returns how many of them   *)
(* are not zero.                                                           *)
PollWait ==
  \E ready \in SUBSET (1..Len(pfd)) :
    \E r \in [ready -> SUBSET Flag] :
      /\ \A k \in ready : r[k] \in Reports(pfd[k].events)
      /\ pfd' = [k \in 1..Len(pfd) |->
                  [pfd[k] EXCEPT !.revents = IF k \in ready THEN r[k] ELSE {}]]
      /\ nEvents' = Cardinality(ready)
      /\ current' = 0
      /\ UNCHANGED indices

(* poll(2) was interrupted: nothing is assigned. *)
PollInterrupted == UNCHANGED pollVars
=============================================================================
