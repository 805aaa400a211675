------------------------------ MODULE Resolver ------------------------------
(***************************************************************************)
(* What the DNS resolver promises to the core that it is a part of, with   *)
(* no adns library, no descriptors and no merge: it holds a set of open    *)
(* queries; answers are delivered by the handler of its sockets, by the    *)
(* task of its timeout and by run(), callbacks may submit queries, and     *)
(* every call may throw; run() returns either with no query, no socket and *)
(* no timeout, or with the timeout armed.  Adns implements this            *)
(* specification.                                                          *)
(***************************************************************************)
CONSTANT Query

VARIABLES
  queries,      \* the open queries
  polled,       \* the dispatcher polls sockets on behalf of the resolver
  armed,        \* the resolver's timeout has a task
  pc,           \* "idle" before run() and "ran" after it, "run" or "merge"
                \* inside; delivering responses, or in a "callback"
  ret           \* what is gone on with when the responses are "deliver"ed

vars == <<queries, polled, armed, pc, ret>>

Init ==
  /\ queries = {}
  /\ polled = FALSE /\ armed = FALSE
  /\ pc = "idle" /\ ret = "idle"

(* Queries are submitted by callbacks, handlers and tasks. *)
Submit(q) ==
  /\ pc \in {"idle", "ran", "callback"}
  /\ q \notin queries
  /\ queries' = queries \cup {q}
  /\ UNCHANGED <<polled, armed, pc, ret>>

(* One of the resolver's sockets has an event. *)
ProcessFd ==
  /\ pc = "idle" /\ polled
  /\ pc' = "deliver" /\ ret' = "idle"
  /\ UNCHANGED <<queries, polled, armed>>

(* The task of the timeout is called. *)
FireTimeout ==
  /\ pc \in {"idle", "ran"} /\ armed
  /\ armed' = FALSE
  /\ pc' = "deliver" /\ ret' = pc
  /\ UNCHANGED <<queries, polled>>

(* A query is closed, then its callback is called. *)
Collect(q) ==
  /\ pc = "deliver"
  /\ q \in queries
  /\ queries' = queries \ {q}
  /\ pc' = "callback"
  /\ UNCHANGED <<polled, armed, ret>>

CallbackReturn ==
  /\ pc = "callback"
  /\ pc' = "deliver"
  /\ UNCHANGED <<queries, polled, armed, ret>>

(* No answer is left; without a query, the sockets are given up. *)
DeliverEnd ==
  /\ pc = "deliver"
  /\ polled' = (polled /\ queries # {})
  /\ pc' = ret /\ ret' = "idle"
  /\ UNCHANGED <<queries, armed>>

Throw ==
  /\ pc \in {"deliver", "callback", "run", "merge"}
  /\ pc' = "idle" /\ ret' = "idle"
  /\ UNCHANGED <<queries, polled, armed>>

RunNone ==
  /\ pc = "idle" /\ queries = {}
  /\ armed' = FALSE /\ polled' = FALSE
  /\ pc' = "ran"
  /\ UNCHANGED <<queries, ret>>

RunEnter ==
  /\ pc = "idle" /\ queries # {}
  /\ armed' = FALSE
  /\ pc' = "run"
  /\ UNCHANGED <<queries, polled, ret>>

(* Queries have timed out: run() delivers responses and starts over. *)
RunNow ==
  /\ pc = "run"
  /\ pc' = "deliver" /\ ret' = "run"
  /\ UNCHANGED <<queries, polled, armed>>

RunLater ==
  /\ pc = "run"
  /\ armed' = TRUE
  /\ pc' = "merge"
  /\ UNCHANGED <<queries, polled, ret>>

(* Sockets are registered and given up. *)
Merge ==
  /\ pc = "merge"
  /\ polled' \in BOOLEAN
  /\ UNCHANGED <<queries, armed, pc, ret>>

RunReturn ==
  /\ pc = "merge"
  /\ polled' \in {polled, FALSE}
  /\ pc' = "ran"
  /\ UNCHANGED <<queries, armed, ret>>

Wait ==
  /\ pc = "ran"
  /\ pc' = "idle"
  /\ UNCHANGED <<queries, polled, armed, ret>>

Next ==
  \/ \E q \in Query : Submit(q) \/ Collect(q)
  \/ ProcessFd \/ FireTimeout
  \/ CallbackReturn \/ DeliverEnd \/ Throw
  \/ RunNone \/ RunEnter \/ RunNow \/ RunLater \/ Merge \/ RunReturn
  \/ Wait

Spec == Init /\ [][Next]_vars
=============================================================================
