------------------------------- MODULE Select -------------------------------
(***************************************************************************)
(* The demultiplexer based on select(2), include/ioxx/detail/select.hpp:   *)
(* three descriptor sets that say what is asked for, three that select(2)  *)
(* returned, and the scan over them.  The three sets are kept together as  *)
(* the event set of every descriptor.                                      *)
(***************************************************************************)
EXTENDS EventFlags, FiniteSets

VARIABLES
  req,          \* _req_read_fds, _req_write_fds, _req_except_fds
  recv,         \* _recv_read_fds, _recv_write_fds, _recv_except_fds
  maxFd,        \* _max_fd
  nEvents,      \* _n_events: bits of recv that are still to be found
  current       \* _current

selectVars == <<req, recv, maxFd, nEvents, current>>

NoFds == [fd \in Fd |-> {}]

(* The constructor leaves the recv sets uninitialised; they are not read   *)
(* before select(2) has set them, since no event is counted until then.    *)
SelectInit ==
  /\ req = NoFds
  /\ recv = NoFds
  /\ maxFd = -1
  /\ nEvents = 0
  /\ current = 0

(* The descriptors in the sets r. *)
InSet(r) == {fd \in Fd : r[fd] # {}}

(* Mutant: the loop stops at descriptor 0 without looking at it. *)
SearchDownToZero(r, m) ==
  LET down[n \in -1..m] ==
        IF n > 0 /\ n \notin InSet(r) THEN down[n - 1] ELSE n
  IN  down[m]

(* The loop of request() that starts from _max_fd = m: descend until one   *)
(* of the three sets has the descriptor, or to -1.  It passes descriptors  *)
(* that no socket has.                                                     *)
SearchDown(r, m) ==
  LET down[n \in -1..m] ==
        IF n >= 0 /\ n \notin InSet(r) THEN down[n - 1] ELSE n
  IN  down[m]

(* The number of bits of r from descriptor lo on. *)
Bits(r, lo) ==
  Cardinality({b \in Fd \X EventFlag : b[1] >= lo /\ b[2] \in r[b[1]]})

(* select::socket::request(), which is also what the constructor and, with *)
(* no_events, the destructor call.  The search for the next lower          *)
(* descriptor starts at the one whose request is withdrawn.                *)
SelectRequest(fd, ev) ==
  LET r == [req EXCEPT ![fd] = ev]
  IN  /\ req' = r
      /\ maxFd' = IF ev # {} THEN IF fd > maxFd THEN fd ELSE maxFd
                  ELSE IF fd = maxFd THEN SearchDown(r, maxFd) ELSE maxFd
      /\ UNCHANGED <<recv, nEvents, current>>

(* The next descriptor at which pop_event() finds an event. *)
IsNext(fd) ==
  /\ fd >= current
  /\ recv[fd] # {}
  /\ \A f \in InSet(recv) : f < fd => f < current

(* Mutant: one event is counted for each descriptor, not one for each bit. *)
SelectPopOncePerFd(fd, ev) ==
  /\ nEvents # 0
  /\ IsNext(fd)
  /\ ev = recv[fd]
  /\ current' = fd + 1
  /\ nEvents' = nEvents - 1
  /\ UNCHANGED <<req, recv, maxFd>>

(* Mutant: the descriptor is counted as well as its bits. *)
SelectPopOverCounted(fd, ev) ==
  /\ nEvents # 0
  /\ IsNext(fd)
  /\ ev = recv[fd]
  /\ current' = fd + 1
  /\ nEvents' = nEvents - Cardinality(ev) - 1
  /\ UNCHANGED <<req, recv, maxFd>>

(* Mutant: the scan does not get past an event. *)
SelectPopPeek(fd, ev) ==
  /\ nEvents # 0
  /\ IsNext(fd)
  /\ ev = recv[fd]
  /\ UNCHANGED selectVars

(* select::pop_event() returns true. *)
SelectPop(fd, ev) ==
  /\ nEvents # 0
  /\ IsNext(fd)
  /\ ev = recv[fd]
  /\ current' = fd + 1
  /\ nEvents' = nEvents - Cardinality(ev)
  /\ UNCHANGED <<req, recv, maxFd>>

(* Mutant: the last event is left in the sets. *)
SelectEmptyButOne == nEvents <= 1 /\ UNCHANGED selectVars

(* pop_event() returns false. *)
SelectEmpty == nEvents = 0 /\ UNCHANGED selectVars

(* select(2) returns a subset of what is asked for about the descriptors   *)
(* up to _max_fd, and the number of bits in it.                            *)
SelectWait ==
  /\ maxFd # -1
  /\ recv' \in [Fd -> SUBSET EventFlag]
  /\ \A fd \in Fd : recv'[fd] \subseteq IF fd <= maxFd THEN req[fd] ELSE {}
  /\ nEvents' = Bits(recv', 0)
  /\ current' = 0
  /\ UNCHANGED <<req, maxFd>>

(* There is nothing to ask for: select(2) only sleeps. *)
SelectSleep ==
  /\ maxFd = -1
  /\ UNCHANGED selectVars

(* select(2) was interrupted: the sets to be returned have been set to     *)
(* what is asked for, and no event is counted.                             *)
SelectInterrupted ==
  /\ maxFd # -1
  /\ recv' = req
  /\ UNCHANGED <<req, maxFd, nEvents, current>>
=============================================================================
