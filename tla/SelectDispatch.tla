--------------------------- MODULE SelectDispatch ---------------------------
(***************************************************************************)
(* dispatch< ..., detail::select >: the dispatcher on top of select(2).    *)
(***************************************************************************)
EXTENDS Dispatch, Select

CONSTANT Interest       \* the event sets that the program asks for

ASSUME InterestAssumption == Interest \subseteq SUBSET EventFlag

vars == <<dispatchVars, selectVars>>

Init == DispatchInit /\ SelectInit

(* The descriptors whose events pop_event() has not handed out. *)
Unread == {fd \in InSet(recv) : nEvents # 0 /\ fd >= current}

Create(fd, h, ev) == Register(fd, h) /\ SelectRequest(fd, ev)

Modify(fd, h, ev) == SetHandler(fd, h) /\ SelectRequest(fd, ev)

(* Mutant: the requests outlive their socket. *)
DestroyKeepsRequest(fd) ==
  Unregister(fd, fd \in Unread) /\ UNCHANGED selectVars

Destroy(fd) == Unregister(fd, fd \in Unread) /\ SelectRequest(fd, {})

Enter == RunEnter /\ UNCHANGED selectVars

RunStep ==
  \E fd \in Fd : SelectPop(fd, recv[fd]) /\ Deliver(fd, recv[fd])

Return == RunReturn /\ SelectEmpty

Resume == HandlerReturn /\ UNCHANGED selectVars

Throw == HandlerThrow /\ UNCHANGED selectVars

Wait == WaitReturn /\ SelectWait

WaitSleep == WaitReturn /\ SelectSleep

WaitInterrupted == WaitReturn /\ SelectInterrupted

Next ==
  \/ \E fd \in Fd, h \in Handler, ev \in Interest :
       Create(fd, h, ev) \/ Modify(fd, h, ev)
  \/ \E fd \in Fd : Destroy(fd)
  \/ Enter \/ RunStep \/ Resume \/ Throw \/ Return
  \/ Wait \/ WaitSleep \/ WaitInterrupted

Spec == Init /\ [][Next]_vars

(* The main loop calls run() and then wait(); handlers return or throw,    *)
(* and select(2) is given a timeout.                                       *)
FairSpec ==
  /\ Spec
  /\ WF_vars(Enter)
  /\ WF_vars(RunStep)
  /\ WF_vars(Resume \/ Throw)
  /\ WF_vars(Return)
  /\ WF_vars(Wait \/ WaitSleep)

-----------------------------------------------------------------------------
(* Properties *)

TypeOK ==
  /\ handlers \in [Fd -> Handler \cup {"absent"}]
  /\ pc \in {"idle", "run", "handler", "ran"}
  /\ cur \in [fd : Fd, ev : SUBSET EventFlag] \cup {NoEvent}
  /\ stale \subseteq Fd
  /\ req \in [Fd -> SUBSET EventFlag]
  /\ recv \in [Fd -> SUBSET EventFlag]
  /\ maxFd \in Fd \cup {-1}
  /\ nEvents \in Nat
  /\ current \in Nat

(* _max_fd is the largest descriptor anything is asked for, however        *)
(* requests come and go: select(2) is asked about every socket, and sleeps *)
(* without one only when there is none.                                    *)
MaxFdExact ==
  /\ maxFd \in InSet(req) \cup {-1}
  /\ \A fd \in InSet(req) : fd <= maxFd

(* _n_events is the number of bits the scan will still find, even after    *)
(* their sockets have been destroyed: the scan neither stops early nor     *)
(* runs over the end of the sets.                                          *)
BitsCounted == nEvents # 0 => nEvents = Bits(recv, current)

(* An event that select(2) reported does not stay in the sets for ever:    *)
(* run() hands it out though handlers keep throwing out of it and sockets  *)
(* are created and destroyed meanwhile.                                    *)
EventsHandedOut == \A fd \in Fd : fd \in Unread ~> fd \notin Unread

(* run() comes to an end: it returns, or an exception leaves it. *)
RunEnds == pc = "run" ~> pc \in {"ran", "idle"}

Loop == INSTANCE EventLoop
          WITH pending <- {[fd |-> fd, ev |-> recv[fd]] : fd \in Unread},
               interest <- req

(* Each reported event is handed out exactly once, before the next wait,   *)
(* and contains only what its socket asked for.                            *)
ImplementsLoop == Loop!Spec
=============================================================================
