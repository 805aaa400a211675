---------------------------- MODULE PollDispatch ----------------------------
(***************************************************************************)
(* dispatch< ..., detail::poll<> >: the dispatcher on top of poll(2).      *)
(***************************************************************************)
EXTENDS Dispatch, Poll

CONSTANTS
  Interest,     \* the event sets that the program asks for
  Destroys      \* which sockets are destroyed while events are pending:
                \* "none", "own" (a handler destroys its own socket, as
                \* the echo and daytime servers do) or "any"

ASSUME PollDispatchAssumption ==
  /\ Interest \subseteq SUBSET EventFlag
  /\ Destroys \in {"none", "own", "any"}

vars == <<dispatchVars, pollVars>>

Init == DispatchInit /\ PollInit

(* The positions whose events pop_event() has not handed out. *)
Unread == {k \in 1..Len(pfd) : k > current /\ pfd[k].revents # {}}

Pending ==
  IF nEvents = 0
  THEN {}
  ELSE {[fd |-> pfd[k].fd, ev |-> EventSet(pfd[k].revents)] : k \in Unread}

Create(fd, h, ev) == Register(fd, h) /\ PollAdd(fd, ev)

Modify(fd, h, ev) == SetHandler(fd, h) /\ PollRequest(fd, ev)

Destroy(fd) ==
  /\ nEvents # 0 => CASE Destroys = "none" -> FALSE
                      [] Destroys = "own"  -> cur.fd = fd
                      [] Destroys = "any"  -> TRUE
  /\ Unregister(fd, FALSE)
  /\ PollRemove(fd)

Enter == RunEnter /\ UNCHANGED pollVars

(* Nothing can be said of the program once it has read beyond the vector.  *)
RunStep ==
  IF PollOverrun
  THEN /\ pc = "run"
       /\ pc' = "undefined"
       /\ UNCHANGED <<handlers, cur, stale, pollVars>>
  ELSE \E fd \in Fd, flags \in SUBSET Flag :
         PollPop(fd, flags) /\ Deliver(fd, EventSet(flags))

Return == RunReturn /\ PollEmpty

Resume == HandlerReturn /\ UNCHANGED pollVars

Throw == HandlerThrow /\ UNCHANGED pollVars

Wait == WaitReturn /\ PollWait

WaitInterrupted == WaitReturn /\ PollInterrupted

Next ==
  \/ \E fd \in Fd, h \in Handler, ev \in Interest :
       Create(fd, h, ev) \/ Modify(fd, h, ev)
  \/ \E fd \in Fd : Destroy(fd)
  \/ Enter \/ RunStep \/ Resume \/ Throw \/ Return
  \/ Wait \/ WaitInterrupted

Spec == Init /\ [][Next]_vars

(* The main loop calls run() and then wait(); handlers return or throw,    *)
(* and poll(2) is given a timeout.                                         *)
FairSpec ==
  /\ Spec
  /\ WF_vars(Enter)
  /\ WF_vars(RunStep)
  /\ WF_vars(Resume \/ Throw)
  /\ WF_vars(Return)
  /\ WF_vars(Wait)

-----------------------------------------------------------------------------
(* Properties *)

TypeOK ==
  /\ handlers \in [Fd -> Handler \cup {"absent"}]
  /\ pc \in {"idle", "run", "handler", "ran", "undefined"}
  /\ cur \in [fd : Fd, ev : SUBSET EventFlag] \cup {NoEvent}
  /\ stale \subseteq Fd
  /\ pfd \in Seq(PollFd)
  /\ indices \in [Sockets -> 1..Len(pfd)]
  /\ nEvents \in Nat
  /\ current \in Nat

(* What check_consistency() and ~socket() assert: the map and the vector   *)
(* describe the same sockets, whatever was destroyed, in whatever order.   *)
IndicesConsistent ==
  /\ \A fd \in Sockets : pfd[indices[fd]].fd = fd
  /\ \A k \in 1..Len(pfd) :
       pfd[k].fd \in Sockets /\ indices[pfd[k].fd] = k

(* _n_events is the number of events still to be found, so that the scan   *)
(* of pop_event() neither stops early nor runs past the end.  Holds as     *)
(* long as no socket is destroyed while events are pending.                *)
EventsCounted == nEvents = Cardinality(Unread)

(* pop_event() stays within the vector.  Violated when a handler destroys  *)
(* a socket: ~socket() moves a record behind the scan's position, or       *)
(* removes one whose event has been counted.                               *)
ScanInBounds == pc # "undefined"

(* An event that poll(2) reported does not stay in the vector for ever:    *)
(* run() hands it out though handlers keep throwing out of it and sockets  *)
(* are modified meanwhile.                                                 *)
EventsHandedOut ==
  \A fd \in Fd : (\E e \in Pending : e.fd = fd) ~>
                 (\A e \in Pending : e.fd # fd)

(* run() comes to an end: it returns, or an exception leaves it. *)
RunEnds == pc = "run" ~> pc \in {"ran", "idle"}

Loop == INSTANCE EventLoop
          WITH pending <- Pending,
               interest <- [fd \in Fd |-> IF fd \in Sockets
                                         THEN pfd[indices[fd]].events
                                         ELSE {}]

(* Each reported event is handed out exactly once, before the next wait,   *)
(* and contains only what its socket asked for; as long as no socket is    *)
(* destroyed while events are pending.                                     *)
ImplementsLoop == Loop!Spec
=============================================================================
