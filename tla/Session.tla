------------------------------ MODULE Session -------------------------------
(***************************************************************************)
(* The sessions of the example services, test/echo.hpp and                 *)
(* test/daytime.hpp: an object that owns a socket and a timeout and lives  *)
(* as long as somebody refers to it.  References are held by whoever will  *)
(* call it: the DNS query, the socket's handler, the timeout's task, and   *)
(* the caller on the stack if it has taken a copy of the function, which   *)
(* the schedule and the resolver do and the dispatcher does not.  A        *)
(* session that shuts itself down from its handler is destroyed before     *)
(* shutdown() returns.                                                     *)
(*                                                                         *)
(* A session is named by its socket's descriptor.                          *)
(***************************************************************************)
EXTENDS SystemSocket

CONSTANTS BufferSize, DaytimeLength     \* what _buf holds

ASSUME SessionAssumption ==
  BufferSize \in Nat \ {0} /\ DaytimeLength \in Nat \ {0}

VARIABLES
  sess,         \* the sessions
  pc,           \* where the program is; "start", "run", "rearm", "shutdown"
                \* "reset" and "return" are places in a session's methods
  cur,          \* the session that is running, or NoFd
  ret           \* where its caller goes on, or None

control == <<pc, cur, ret>>

NoFd == -1
None == "none"

Kind == {"echo", "daytime"}

Holder == {"query", "handler", "task", "stack"}

MaxBuffer == IF BufferSize > DaytimeLength THEN BufferSize ELSE DaytimeLength

SessionRecord ==
  [kind : Kind,
   refs : SUBSET Holder,                        \* shared_ptrs to it
   sock : BOOLEAN,                              \* _sock is not null
   interest : {"none", "readable", "writable"}, \* events _sock asks for
   buf : 0..MaxBuffer,                          \* _data_end - _data_begin
   done : 0..MaxData \cup 0..DaytimeLength]     \* how much was written

NoSession == [kind |-> "echo", refs |-> {}, sock |-> FALSE,
              interest |-> "none", buf |-> 0, done |-> 0]

SessionInit == sess = [fd \in Fd |-> NoSession]

SessionTypeOK == sess \in [Fd -> SessionRecord]

-----------------------------------------------------------------------------
(* accept(): the session is constructed, its socket registered with no     *)
(* handler for no events, and the query submitted; from then on only the   *)
(* query refers to it.                                                     *)
NewSession(k) ==
  [kind |-> k, refs |-> {"query"}, sock |-> TRUE, interest |-> "none",
   buf |-> IF k = "daytime" THEN DaytimeLength ELSE 0, done |-> 0]

(* The session after its holder h has dropped its reference: it is         *)
(* destroyed with the last one.                                            *)
Without(h, s) ==
  IF s.refs \ {h} = {} THEN NoSession ELSE [s EXCEPT !.refs = @ \ {h}]

(* Enter a method of fd's session, with a copy of the function that h held.*)
Enter(fd, h, place) ==
  /\ h \in sess[fd].refs
  /\ sess' = [sess EXCEPT ![fd].refs = (@ \ {h}) \cup {"stack"}]
  /\ pc' = place /\ cur' = fd /\ ret' = pc

(* The query is answered.  Whatever the answer's status, handlePTR() calls *)
(* start(), which logs the name, the empty name, or that there is none.    *)
Answer(fd) ==
  /\ pc \in {"dispatch", "tasks"}
  /\ Enter(fd, "query", "start")
  /\ UNCHANGED socketVars

(* Mutant: start() does not schedule a timeout. *)
StartUntimed ==
  /\ pc = "start"
  /\ sess' = [sess EXCEPT ![cur].interest = IF sess[cur].kind = "echo"
                                            THEN "readable" ELSE "writable",
                          ![cur].refs = @ \cup {"handler"}]
  /\ pc' = "return"
  /\ UNCHANGED <<socketVars, cur, ret>>

(* start(): modify(), then the timeout. *)
Start ==
  /\ pc = "start"
  /\ sess' = [sess EXCEPT ![cur].interest = IF sess[cur].kind = "echo"
                                            THEN "readable" ELSE "writable",
                          ![cur].refs = @ \cup {"handler"}]
  /\ pc' = "rearm"
  /\ UNCHANGED <<socketVars, cur, ret>>

(* modify() throws: the copy of the callback was the last reference, and   *)
(* the exception leaves core::run().                                       *)
StartThrow ==
  /\ pc = "start"
  /\ sess' = [sess EXCEPT ![cur] = Without("stack", @)]
  /\ Close(cur)
  /\ pc' = "main" /\ cur' = NoFd /\ ret' = None

(* _timeout.in(): replaces the task, if there is one. *)
Rearm ==
  /\ pc = "rearm"
  /\ sess' = [sess EXCEPT ![cur].refs = @ \cup {"task"}]
  /\ pc' = "return"
  /\ UNCHANGED <<socketVars, cur, ret>>

-----------------------------------------------------------------------------
(* echo::run() and daytime::run().  An event is the one asked for, since   *)
(* nobody but run() changes the request once there is a handler; or it is  *)
(* none, after a hangup, which run() does not expect.                      *)

(* Where run() goes without an event: echo::run() only restarts the        *)
(* timeout, and daytime::run() writes whatever the event, its assertion    *)
(* being compiled out.                                                     *)
RunWithout(fd) == IF sess[fd].kind = "echo" THEN "rearm" ELSE "run"

(* end of input, or an error: shut down, with nothing else changed. *)
GiveUp(r) ==
  /\ r \in {0, Throw}
  /\ pc' = "shutdown"
  /\ UNCHANGED <<sess, conn>>

(* The call would block: the buffer and the request are left alone. *)
TryLater(r) ==
  /\ r = -EAGAIN
  /\ pc' = "rearm"
  /\ UNCHANGED <<sess, conn>>

(* The session with buf and done as given, once request(ev) has returned   *)
(* or thrown.                                                              *)
Requesting(ev, buf, done) ==
  \E ok \in BOOLEAN :
    /\ sess' = [sess EXCEPT ![cur].buf = buf, ![cur].done = done,
                            ![cur].interest = IF ok THEN ev ELSE @]
    /\ pc' = IF ok THEN "rearm" ELSE "shutdown"

(* Mutant: one byte more is read than fits. *)
EchoReadPastEnd ==
  /\ pc = "run"
  /\ sess[cur].kind = "echo" /\ sess[cur].interest = "readable"
  /\ \E r \in Read(cur, BufferSize + 1) :
        \/ GiveUp(r) \/ TryLater(r)
        \/ /\ r > 0
           /\ conn' = [conn EXCEPT ![cur].inbox = @ - r]
           /\ Requesting("writable", r, sess[cur].done)
  /\ UNCHANGED <<open, cur, ret>>

(* The buffer is empty: fill it, and ask to write if there is something.   *)
EchoRead ==
  /\ pc = "run"
  /\ sess[cur].kind = "echo" /\ sess[cur].interest = "readable"
  /\ \E r \in Read(cur, BufferSize) :
        \/ GiveUp(r) \/ TryLater(r)
        \/ /\ r > 0
           /\ conn' = [conn EXCEPT ![cur].inbox = @ - r]
           /\ Requesting("writable", r, sess[cur].done)
  /\ UNCHANGED <<open, cur, ret>>

(* Mutant: a short write is taken for a complete one. *)
EchoWriteShort ==
  /\ pc = "run"
  /\ sess[cur].kind = "echo" /\ sess[cur].interest = "writable"
  /\ \E r \in Write(cur, sess[cur].buf) :
        \/ GiveUp(r) \/ TryLater(r)
        \/ /\ r > 0
           /\ Requesting("readable", 0, sess[cur].done + r)
           /\ UNCHANGED conn
  /\ UNCHANGED <<open, cur, ret>>

(* What is left of the buffer stays requested; when nothing is, reading    *)
(* goes on.                                                                *)
EchoWrite ==
  /\ pc = "run"
  /\ sess[cur].kind = "echo" /\ sess[cur].interest = "writable"
  /\ \E r \in Write(cur, sess[cur].buf) :
        \/ GiveUp(r) \/ TryLater(r)
        \/ /\ r = sess[cur].buf
           /\ Requesting("readable", 0, sess[cur].done + r)
           /\ UNCHANGED conn
        \/ /\ r \in 1..(sess[cur].buf - 1)
           /\ sess' = [sess EXCEPT ![cur].buf = @ - r, ![cur].done = @ + r]
           /\ pc' = "rearm"
           /\ UNCHANGED conn
  /\ UNCHANGED <<open, cur, ret>>

(* The session ends when the date is sent, or as soon as nothing is.       *)
DaytimeRun ==
  /\ pc = "run"
  /\ sess[cur].kind = "daytime"
  /\ \E r \in Write(cur, sess[cur].buf) :
        \/ /\ r \in {0, Throw, -EAGAIN}
           /\ pc' = "shutdown"
           /\ UNCHANGED sess
        \/ /\ r > 0
           /\ sess' = [sess EXCEPT ![cur].buf = @ - r, ![cur].done = @ + r]
           /\ pc' = IF r = sess[cur].buf THEN "shutdown" ELSE "rearm"
  /\ UNCHANGED <<socketVars, cur, ret>>

-----------------------------------------------------------------------------
(* shutdown() *)

(* The task of the timeout. *)
Fire(fd) ==
  /\ pc = "tasks"
  /\ Enter(fd, "task", "shutdown")
  /\ UNCHANGED socketVars

(* _timeout.cancel() *)
Shutdown ==
  /\ pc = "shutdown"
  /\ sess' = [sess EXCEPT ![cur] = Without("task", @)]
  /\ pc' = "reset"
  /\ UNCHANGED <<socketVars, cur, ret>>

(* Mutant: the caller goes on, as it does without the "return". *)
ResetGoesOn ==
  /\ pc = "reset"
  /\ sess' = [sess EXCEPT ![cur] =
       Without("handler", [@ EXCEPT !.sock = FALSE, !.interest = "none"])]
  /\ Close(cur)
  /\ pc' = "rearm"
  /\ UNCHANGED <<cur, ret>>

(* _sock.reset(): the socket's handler is erased and with it, perhaps, the *)
(* session destroyed; the descriptor is closed.                            *)
Reset ==
  /\ pc = "reset"
  /\ sess' = [sess EXCEPT ![cur] =
       Without("handler", [@ EXCEPT !.sock = FALSE, !.interest = "none"])]
  /\ Close(cur)
  /\ pc' = "return"
  /\ UNCHANGED <<cur, ret>>

(* The method returns and its caller drops its copy, if it has one. *)
Return ==
  /\ pc = "return"
  /\ sess' = [sess EXCEPT ![cur] = Without("stack", @)]
  /\ pc' = ret /\ cur' = NoFd /\ ret' = None
  /\ UNCHANGED socketVars

Method ==
  \/ Start \/ StartThrow \/ Rearm
  \/ EchoRead \/ EchoWrite \/ DaytimeRun
  \/ Shutdown \/ Reset \/ Return
=============================================================================
