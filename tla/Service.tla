------------------------------ MODULE Service -------------------------------
(***************************************************************************)
(* The example program test/inetd.cpp: acceptors for the echo and daytime  *)
(* services, their sessions, and the main loop.  inetd is left by the      *)
(* first exception that leaves core::run(), and everything is destroyed;   *)
(* the loop here catches it and goes on, which the library permits.        *)
(*                                                                         *)
(* The core is seen through what its parts promise: the dispatcher hands   *)
(* out every event of a wait once (EventLoop), the schedule runs the task  *)
(* of a timeout unless it is cancelled (TimerService), and the resolver    *)
(* answers every query, from a handler or from a task (Resolver).  Events  *)
(* may be spurious, and as with epoll they may be hangups, which nobody    *)
(* asks for: those come as the empty set of events, also for a socket that *)
(* has no handler yet (EpollDispatch!NoEmptyEventSet).                     *)
(***************************************************************************)
EXTENDS Acceptor

VARIABLE
  pending       \* sessions with an event that has not been handed out

vars == <<socketVars, sess, control, acceptorVars, pending>>

Init ==
  /\ SocketInit
  /\ SessionInit
  /\ AcceptorInit
  /\ pc = "main" /\ cur = NoFd /\ ret = None
  /\ pending = {}

TypeOK ==
  /\ SocketTypeOK
  /\ SessionTypeOK
  /\ AcceptorTypeOK
  /\ pc \in {"main", "dispatch", "tasks", "wait",
             "accept", "accepted", "unwind", "terminated",
             "start", "run", "rearm", "shutdown", "reset", "return"}
  /\ cur \in Fd \cup {NoFd}
  /\ ret \in {"dispatch", "tasks", None}
  /\ pending \subseteq Fd

-----------------------------------------------------------------------------
(* The core *)

RunEnter ==
  /\ pc = "main"
  /\ pc' = "dispatch"
  /\ UNCHANGED <<socketVars, sess, cur, ret, acceptorVars, pending>>

(* dispatch::run(): call the handler, with the event it asked for or with  *)
(* none.  An empty boost::function throws, and the event of a socket that  *)
(* is gone is ignored.                                                     *)
Event(fd) ==
  /\ pc = "dispatch"
  /\ fd \in pending
  /\ pending' = pending \ {fd}
  /\ \/ /\ "handler" \in sess[fd].refs
        /\ pc' \in {"run", RunWithout(fd)}
        /\ cur' = fd /\ ret' = "dispatch"
     \/ /\ "handler" \notin sess[fd].refs
        /\ pc' = IF sess[fd].sock THEN "main" ELSE "dispatch"
        /\ UNCHANGED <<cur, ret>>
  /\ UNCHANGED <<socketVars, sess, acceptorVars>>

DispatchReturn ==
  /\ pc = "dispatch"
  /\ pending = {} /\ ~ready
  /\ pc' = "tasks"
  /\ UNCHANGED <<socketVars, sess, cur, ret, acceptorVars, pending>>

(* schedule::run() and dns::run() return. *)
RunReturn ==
  /\ pc = "tasks"
  /\ pc' = "wait"
  /\ UNCHANGED <<socketVars, sess, cur, ret, acceptorVars, pending>>

(* core::wait(): any socket may have an event, whatever it asked for. *)
Wait ==
  /\ pc = "wait"
  /\ pending' \in SUBSET {fd \in Fd : sess[fd].sock}
  /\ ready' \in BOOLEAN
  /\ pc' = "main"
  /\ UNCHANGED <<socketVars, sess, cur, ret, backlog>>

SessionStep ==
  /\ \/ \E fd \in Fd : Answer(fd) \/ Fire(fd)
     \/ Method
  /\ UNCHANGED <<acceptorVars, pending>>

AcceptorStep ==
  /\ \/ pc = "accept" /\ Connect
     \/ AcceptorRun
  /\ UNCHANGED pending

(* The program sees of its peers only what system calls tell it, so that   *)
(* it makes no difference if they act just before those: a peer that       *)
(* connects before accept(2), one of a session before that reads or        *)
(* writes.  What the peer of a daytime session sends is never read.        *)
PeerStep ==
  /\ pc = "run"
  /\ \/ sess[cur].kind = "echo" /\ (PeerSend(cur) \/ PeerClose(cur))
     \/ PeerReset(cur)
  /\ UNCHANGED <<sess, control, acceptorVars, pending>>

Loop ==
  \/ RunEnter \/ DispatchReturn \/ RunReturn \/ Wait
  \/ \E fd \in Fd : Event(fd)

Next == Loop \/ SessionStep \/ AcceptorStep \/ PeerStep

Spec == Init /\ [][Next]_vars

Quiet == UNCHANGED <<acceptorVars, pending>>

(* The main loop goes on, methods go on, and every query is answered: by   *)
(* QueryAnswered of Adns it is unless answers were left behind by an       *)
(* exception in a program that neither sleeps nor queries any more.  A     *)
(* session to which nothing happens for longer than its timeout has its    *)
(* task run (DeadlinesReached of Core), and no peer keeps it busy for      *)
(* ever: a peer sends a bounded amount, and whoever hangs up makes the     *)
(* socket readable and writable as well, which ends the session.           *)
FairSpec ==
  /\ Spec
  /\ WF_vars(Loop)
  /\ WF_vars(Method /\ Quiet)
  /\ WF_vars(AcceptorRun /\ UNCHANGED pending)
  /\ \A fd \in Fd : SF_vars(Answer(fd) /\ Quiet) /\ SF_vars(Fire(fd) /\ Quiet)

-----------------------------------------------------------------------------
(* Properties *)

(* Every open descriptor has an owner that will close it, and every owner  *)
(* an open descriptor: the session whose socket it is, or the guard in     *)
(* acceptor::run() until the handler has returned.  No descriptor leaks    *)
(* and none is closed twice, though numbers are reused and calls fail.     *)
DescriptorsOwned ==
  /\ open = {fd \in Fd : sess[fd].sock}
            \cup {fd \in {cur} : pc \in {"accepted", "unwind"}}
  /\ pc = "accepted" => ~sess[cur].sock

(* A handler that throws has its socket closed by the guard, once          *)
(* (acceptor.hpp:32).  Violated if a socket object had taken it over.      *)
GuardClosesOnce == pc = "unwind" => cur \in open

(* Methods run on a session that is alive and has its socket: one that     *)
(* shuts the session down does not touch it again, and neither a late      *)
(* answer, a task nor an event of an earlier user of the descriptor calls  *)
(* a session that is shut down.  When the socket is gone, nobody but a     *)
(* caller on the stack refers to the session: none is kept alive by the    *)
(* references that its own timeout and socket hold to it.                  *)
CallsAreSafe ==
  /\ pc \in {"start", "run", "rearm", "shutdown", "reset"} =>
       sess[cur].refs # {} /\ sess[cur].sock
  /\ \A fd \in Fd : ~sess[fd].sock => sess[fd].refs \subseteq {"stack"}

(* An echo session returns what it has read and nothing else, whatever the *)
(* sizes of reads and writes; and run() is called to read only when its    *)
(* buffer is empty and to write only when it is not, which it asserts.     *)
EchoFaithful ==
  /\ \A fd \in Fd :
       sess[fd].sock /\ sess[fd].kind = "echo" =>
         conn[fd].sent = conn[fd].inbox + sess[fd].buf + sess[fd].done
  /\ pc = "run" => (sess[cur].interest = "readable" <=> sess[cur].buf = 0)

(* Every connection that is accepted is closed in the end: peers that stay *)
(* silent or never read, hangups before there is a handler, failing        *)
(* queries, exceptions out of acceptors and handlers, and an exhausted     *)
(* descriptor table do not keep a session for ever.                        *)
ConnectionsEnd == \A fd \in Fd : fd \in open ~> fd \notin open
=============================================================================
