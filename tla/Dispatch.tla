------------------------------ MODULE Dispatch ------------------------------
(***************************************************************************)
(* The i/o event dispatcher, include/ioxx/dispatch.hpp: the map from       *)
(* native sockets to handlers, and the run() loop that pops events and     *)
(* calls handlers.  It is a template over the demultiplexer it inherits    *)
(* from; each action below is dispatch's share of an operation and is      *)
(* conjoined with the demultiplexer's share in EpollDispatch, PollDispatch *)
(* and SelectDispatch.                                                     *)
(*                                                                         *)
(* Everything happens in one thread.  Handlers are arbitrary user code     *)
(* that may create, modify and destroy any socket, its own included,       *)
(* before it returns or throws; so are the scheduled tasks and DNS         *)
(* callbacks that run between run() and wait().  The descriptor of a       *)
(* destroyed socket is free and is reused by the next one created.         *)
(*                                                                         *)
(* Assertions are compiled out: the actions do what the code does when an  *)
(* assertion does not hold, and the assertions are stated as properties.   *)
(***************************************************************************)
EXTENDS EventFlags

VARIABLES
  handlers,     \* dispatch::_handlers: "absent", an "empty" boost::function,
                \* or a "bound" one
  pc,           \* "idle": before run(), "run": at the head of its loop,
                \* "handler": in a handler, "ran": between run() and wait(),
                \* "undefined": after undefined behaviour
  cur,          \* the event whose handler is running
  stale         \* the sockets that were destroyed while an event of theirs
                \* was waiting to be delivered; no guard reads it

dispatchVars == <<handlers, pc, cur, stale>>

NoEvent == [fd |-> -1, ev |-> {}]

Handler == {"empty", "bound"}

DispatchInit ==
  /\ handlers = [fd \in Fd |-> "absent"]
  /\ pc = "idle"
  /\ cur = NoEvent
  /\ stale = {}

UserCode == pc \in {"idle", "handler", "ran"}

Sockets == {fd \in Fd : handlers[fd] # "absent"}

-----------------------------------------------------------------------------
(* dispatch::socket *)

(* socket::socket() *)
Register(fd, h) ==
  /\ UserCode
  /\ fd \notin Sockets
  /\ handlers' = [handlers EXCEPT ![fd] = h]
  /\ UNCHANGED <<pc, cur, stale>>

(* socket::~socket(), and close(2). *)
Unregister(fd, pending) ==
  /\ UserCode
  /\ fd \in Sockets
  /\ handlers' = [handlers EXCEPT ![fd] = "absent"]
  /\ stale' = IF pending THEN stale \cup {fd} ELSE stale
  /\ UNCHANGED <<pc, cur>>

(* socket::modify(); with the handler the socket has, socket::request(). *)
SetHandler(fd, h) ==
  /\ UserCode
  /\ fd \in Sockets
  /\ handlers' = [handlers EXCEPT ![fd] = h]
  /\ UNCHANGED <<pc, cur, stale>>

-----------------------------------------------------------------------------
(* dispatch::run() and dispatch::wait() *)

RunEnter ==
  /\ pc = "idle"
  /\ pc' = "run"
  /\ UNCHANGED <<handlers, cur, stale>>

(* Where run() goes on with an event: it ignores events of sockets that    *)
(* have no handler, and calling an empty function throws                   *)
(* boost::bad_function_call.                                               *)
AfterLookup == [absent |-> "run", empty |-> "idle", bound |-> "handler"]

(* One round of the loop, for the event that pop_event() returned. *)
Deliver(fd, ev) ==
  /\ pc = "run"
  /\ pc' = AfterLookup[handlers[fd]]
  /\ cur' = IF handlers[fd] = "bound" THEN [fd |-> fd, ev |-> ev] ELSE NoEvent
  /\ stale' = stale \ {fd}
  /\ UNCHANGED handlers

HandlerReturn ==
  /\ pc = "handler"
  /\ pc' = "run"
  /\ cur' = NoEvent
  /\ UNCHANGED <<handlers, stale>>

(* An exception leaves run() through the handler; the main loop starts     *)
(* over with run().                                                        *)
HandlerThrow ==
  /\ pc = "handler"
  /\ pc' = "idle"
  /\ cur' = NoEvent
  /\ UNCHANGED <<handlers, stale>>

(* pop_event() has no more events. *)
RunReturn ==
  /\ pc = "run"
  /\ pc' = "ran"
  /\ UNCHANGED <<handlers, cur, stale>>

WaitReturn ==
  /\ pc = "ran"
  /\ pc' = "idle"
  /\ stale' = {}
  /\ UNCHANGED <<handlers, cur>>
=============================================================================
