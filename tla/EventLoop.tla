----------------------------- MODULE EventLoop ------------------------------
(***************************************************************************)
(* What a dispatcher promises, whichever demultiplexer it is built on: a   *)
(* wait yields at most one event per registered socket, of the kinds the   *)
(* socket asked for; run() takes the events in any order, calls the        *)
(* handler of each or ignores it when the socket is gone, and returns only *)
(* when none is left.  An event is handed out once; it may be forgotten    *)
(* only together with its socket.                                          *)
(***************************************************************************)
EXTENDS Integers

CONSTANTS Fd, EventFlag

VARIABLES
  handlers,     \* "absent", "empty" or "bound", for every socket
  interest,     \* the events each socket asks for
  pending,      \* events that have been waited for and not handed out
  pc,           \* "idle", "run", "handler" or "ran"
  cur           \* the event whose handler is running

vars == <<handlers, interest, pending, pc, cur>>

NoEvent == [fd |-> -1, ev |-> {}]

Init ==
  /\ handlers = [fd \in Fd |-> "absent"]
  /\ interest = [fd \in Fd |-> {}]
  /\ pending = {}
  /\ pc = "idle"
  /\ cur = NoEvent

UserCode == pc \in {"idle", "handler", "ran"}

Create(fd) ==
  /\ UserCode
  /\ handlers[fd] = "absent"
  /\ \E h \in {"empty", "bound"}, ev \in SUBSET EventFlag :
        /\ handlers' = [handlers EXCEPT ![fd] = h]
        /\ interest' = [interest EXCEPT ![fd] = ev]
  /\ UNCHANGED <<pending, pc, cur>>

Modify(fd) ==
  /\ UserCode
  /\ handlers[fd] # "absent"
  /\ \E h \in {"empty", "bound"}, ev \in SUBSET EventFlag :
        /\ handlers' = [handlers EXCEPT ![fd] = h]
        /\ interest' = [interest EXCEPT ![fd] = ev]
  /\ UNCHANGED <<pending, pc, cur>>

Destroy(fd) ==
  /\ UserCode
  /\ handlers[fd] # "absent"
  /\ handlers' = [handlers EXCEPT ![fd] = "absent"]
  /\ interest' = [interest EXCEPT ![fd] = {}]
  /\ \/ pending' = pending
     \/ pending' = {e \in pending : e.fd # fd}
  /\ UNCHANGED <<pc, cur>>

RunEnter ==
  /\ pc = "idle"
  /\ pc' = "run"
  /\ UNCHANGED <<handlers, interest, pending, cur>>

Deliver(e) ==
  /\ pc = "run"
  /\ pending' = pending \ {e}
  /\ \/ /\ handlers[e.fd] = "bound"
        /\ pc' = "handler"
        /\ cur' = e
     \/ /\ handlers[e.fd] = "empty"
        /\ pc' = "idle"
        /\ UNCHANGED cur
     \/ /\ handlers[e.fd] = "absent"
        /\ UNCHANGED <<pc, cur>>
  /\ UNCHANGED <<handlers, interest>>

HandlerEnd ==
  /\ pc = "handler"
  /\ pc' \in {"run", "idle"}
  /\ cur' = NoEvent
  /\ UNCHANGED <<handlers, interest, pending>>

RunReturn ==
  /\ pc = "run"
  /\ pending = {}
  /\ pc' = "ran"
  /\ UNCHANGED <<handlers, interest, pending, cur>>

Wait ==
  /\ pc = "ran"
  /\ pending = {}
  /\ pc' = "idle"
  /\ \A e \in pending' : /\ handlers[e.fd] # "absent"
                         /\ e.ev \subseteq interest[e.fd]
  /\ \A e, f \in pending' : e.fd = f.fd => e = f
  /\ UNCHANGED <<handlers, interest, cur>>

Next ==
  \/ \E fd \in Fd : Create(fd) \/ Modify(fd) \/ Destroy(fd)
  \/ \E e \in pending : Deliver(e)
  \/ RunEnter \/ HandlerEnd \/ RunReturn \/ Wait

Spec == Init /\ [][Next]_vars
=============================================================================
