--------------------------- MODULE EpollDispatch ----------------------------
(***************************************************************************)
(* dispatch< ..., detail::epoll >: the dispatcher on top of epoll(7), the  *)
(* default on Linux.                                                       *)
(***************************************************************************)
EXTENDS Dispatch, Epoll

CONSTANT Interest       \* the event sets that the program asks for

ASSUME InterestAssumption == Interest \subseteq SUBSET EventFlag

vars == <<dispatchVars, epollVars>>

Init == DispatchInit /\ EpollInit

IsPending(fd) == \E i \in 1..Len(events) : events[i].fd = fd

Create(fd, h, ev) == Register(fd, h) /\ EpollRequest(fd, ev)

Modify(fd, h, ev) == SetHandler(fd, h) /\ EpollRequest(fd, ev)

Destroy(fd) == Unregister(fd, IsPending(fd)) /\ EpollRemove(fd)

Enter == RunEnter /\ UNCHANGED epollVars

RunStep ==
  \E fd \in Fd, flags \in SUBSET Flag :
     EpollPop(fd, flags) /\ Deliver(fd, EventSet(flags))

Return == RunReturn /\ EpollEmpty

Resume == HandlerReturn /\ UNCHANGED epollVars

Throw == HandlerThrow /\ UNCHANGED epollVars

Wait == WaitReturn /\ EpollWait

WaitInterrupted == WaitReturn /\ EpollInterrupted

Next ==
  \/ \E fd \in Fd, h \in Handler, ev \in Interest :
       Create(fd, h, ev) \/ Modify(fd, h, ev)
  \/ \E fd \in Fd : Destroy(fd)
  \/ Enter \/ RunStep \/ Resume \/ Throw \/ Return
  \/ Wait \/ WaitInterrupted

Spec == Init /\ [][Next]_vars

(* The main loop calls run() and then wait(); handlers return or throw,    *)
(* and epoll_wait(2) is given a timeout.                                   *)
FairSpec ==
  /\ Spec
  /\ WF_vars(Enter)
  /\ WF_vars(RunStep)
  /\ WF_vars(Resume \/ Throw)
  /\ WF_vars(Return)
  /\ WF_vars(Wait)

-----------------------------------------------------------------------------
(* Properties *)

TypeOK ==
  /\ handlers \in [Fd -> Handler \cup {"absent"}]
  /\ pc \in {"idle", "run", "handler", "ran"}
  /\ cur \in [fd : Fd, ev : SUBSET EventFlag] \cup {NoEvent}
  /\ stale \subseteq Fd
  /\ listed \subseteq Fd
  /\ interest \in [Fd -> SUBSET EventFlag]
  /\ events \in Seq(KernelEvent)
  /\ Len(events) <= MaxEvents

(* The kernel's interest list and dispatch::_handlers agree, so that every *)
(* event was reported for a socket that exists or was destroyed since.     *)
ListedHaveHandlers ==
  /\ listed = Sockets
  /\ \A i \in 1..Len(events) : events[i].fd \in Sockets \cup stale

(* Both pop_event() and run() assert ev != no_events.  Violated: hangups   *)
(* and errors are reported though nothing was asked for, and masked out.   *)
NoEmptyEventSet ==
  pc = "run" /\ events # <<>> => EventSet(Head(events).flags) # {}

(* An event never reaches another socket than the one it was reported for. *)
(* Violated: run() looks the handler up by descriptor, which a handler of  *)
(* the same batch may have closed and a new socket been given.             *)
EventsFindTheirSocket ==
  \A fd \in Fd : IsPending(fd) /\ fd \in stale => fd \notin Sockets

(* An event that epoll_wait(2) reported does not stay in the array for     *)
(* ever: run() hands it out though handlers keep throwing out of it and    *)
(* sockets are created and destroyed meanwhile.                            *)
EventsHandedOut == \A fd \in Fd : IsPending(fd) ~> ~IsPending(fd)

Loop == INSTANCE EventLoop
          WITH pending <- {[fd |-> events[i].fd,
                            ev |-> EventSet(events[i].flags)] :
                             i \in 1..Len(events)}

(* Each reported event is handed out exactly once, before the next wait,   *)
(* and contains only what its socket asked for.                            *)
ImplementsLoop == Loop!Spec
=============================================================================
