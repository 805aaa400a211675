------------------------------- MODULE Epoll --------------------------------
(***************************************************************************)
(* The demultiplexer based on epoll(7), include/ioxx/detail/epoll.hpp: the *)
(* kernel's interest list, and the array of events that epoll_wait(2)      *)
(* filled and pop_event() hands out one by one.                            *)
(***************************************************************************)
EXTENDS Sequences, EventFlags

CONSTANT
  MaxEvents     \* length of epoll::_events; 128 in the code

ASSUME MaxEventsAssumption == MaxEvents \in Nat \ {0}

VARIABLES
  listed,       \* the sockets in the interest list
  interest,     \* the events each of them asks for
  events        \* what _events holds from _current on; its length is
                \* _n_events

epollVars == <<listed, interest, events>>

KernelEvent == [fd : Fd, flags : SUBSET Flag]

EpollInit ==
  /\ listed = {}
  /\ interest = [fd \in Fd |-> {}]
  /\ events = <<>>

(* epoll::socket::socket() and epoll::socket::request(): EPOLL_CTL_ADD and *)
(* EPOLL_CTL_MOD.                                                          *)
EpollRequest(fd, ev) ==
  /\ listed' = listed \cup {fd}
  /\ interest' = [interest EXCEPT ![fd] = ev]
  /\ UNCHANGED events

(* Mutant: a socket that is not closed on destruction stays in the list. *)
EpollRemoveNothing(fd) == UNCHANGED epollVars

(* epoll::socket::~socket(): EPOLL_CTL_DEL, or the close(2) that follows.  *)
(* The events that have been read already stay.                            *)
EpollRemove(fd) ==
  /\ listed' = listed \ {fd}
  /\ interest' = [interest EXCEPT ![fd] = {}]
  /\ UNCHANGED events

(* epoll::pop_event() returns true. *)
EpollPop(fd, flags) ==
  /\ events # <<>>
  /\ [fd |-> fd, flags |-> flags] = Head(events)
  /\ events' = Tail(events)
  /\ UNCHANGED <<listed, interest>>

(* Mutant: the last event is left in the array. *)
EpollEmptyButOne == Len(events) <= 1 /\ UNCHANGED epollVars

(* pop_event() returns false. *)
EpollEmpty == events = <<>> /\ UNCHANGED epollVars

(* Mutant: the length given to epoll_wait(2) is one too large. *)
EpollWaitOverrun ==
  /\ \E n \in 0..(MaxEvents + 1) :
       \E q \in [1..n -> KernelEvent] :
          /\ \A i \in 1..n : /\ q[i].fd \in listed
                             /\ q[i].flags \in Reports(interest[q[i].fd])
          /\ \A i, j \in 1..n : q[i].fd = q[j].fd => i = j
          /\ events' = q
  /\ UNCHANGED <<listed, interest>>

(* epoll_wait(2) returns up to MaxEvents events of the listed sockets,     *)
(* in any order and at most one of each socket.                            *)
EpollWait ==
  /\ \E n \in 0..MaxEvents :
       \E q \in [1..n -> KernelEvent] :
          /\ \A i \in 1..n : /\ q[i].fd \in listed
                             /\ q[i].flags \in Reports(interest[q[i].fd])
          /\ \A i, j \in 1..n : q[i].fd = q[j].fd => i = j
          /\ events' = q
  /\ UNCHANGED <<listed, interest>>

(* epoll_wait(2) was interrupted: nothing is assigned. *)
EpollInterrupted == UNCHANGED epollVars
=============================================================================
