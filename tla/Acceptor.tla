------------------------------ MODULE Acceptor ------------------------------
(***************************************************************************)
(* Listening sockets, include/ioxx/acceptor.hpp.  run() accepts until      *)
(* there is nothing left to accept; a scope guard owns the new descriptor  *)
(* until the handler has returned.  Acceptors differ only in the handler   *)
(* they call, so that one stands for those of all services; it is          *)
(* constructed before the main loop starts, and outlives it.               *)
(***************************************************************************)
EXTENDS Session

CONSTANTS
  MaxBacklog,   \* bound: connections that wait to be accepted
  TakenOver     \* whether a handler that throws has given the descriptor
                \* to a socket object, which closes it: a set of Booleans

ASSUME AcceptorAssumption ==
  /\ MaxBacklog \in Nat \ {0}
  /\ TakenOver \subseteq BOOLEAN /\ TakenOver # {}

VARIABLES
  backlog,      \* external: how many connections wait
  ready         \* there is an event that has not been handed out

acceptorVars == <<backlog, ready>>

(* External: nobody waits yet.  How acceptor() creates, configures, binds  *)
(* and registers the socket is not modelled; if any of that throws, there  *)
(* is no acceptor and the program does not reach its main loop.            *)
AcceptorInit ==
  /\ backlog = 0
  /\ ready = FALSE

AcceptorTypeOK ==
  /\ backlog \in 0..MaxBacklog
  /\ ready \in BOOLEAN

(* A peer connects. *)
Connect ==
  /\ backlog < MaxBacklog
  /\ backlog' = backlog + 1
  /\ UNCHANGED <<socketVars, sess, control, ready>>

-----------------------------------------------------------------------------
(* run() *)

(* dispatch::run() hands out the event. *)
RunEvent ==
  /\ pc = "dispatch"
  /\ ready
  /\ ready' = FALSE
  /\ pc' = "accept"
  /\ UNCHANGED <<socketVars, sess, cur, ret, backlog>>

(* A new descriptor, and its scope guard. *)
AcceptNew ==
  /\ pc = "accept"
  /\ \E fd \in Accept(backlog) :
        /\ fd >= 0
        /\ open' = open \cup {fd}
        /\ cur' = fd
  /\ backlog' = backlog - 1
  /\ pc' = "accepted"
  /\ UNCHANGED <<conn, sess, ret, ready>>

(* accept(2) would block. *)
AcceptDone ==
  /\ pc = "accept"
  /\ -EAGAIN \in Accept(backlog)
  /\ pc' = "dispatch"
  /\ UNCHANGED <<socketVars, sess, cur, ret, acceptorVars>>

(* accept(2) fails, perhaps because the peer has gone: the exception       *)
(* leaves core::run().                                                     *)
AcceptThrow ==
  /\ pc = "accept"
  /\ Throw \in Accept(backlog)
  /\ \/ UNCHANGED backlog
     \/ backlog > 0 /\ backlog' = backlog - 1
  /\ pc' = "main"
  /\ UNCHANGED <<socketVars, sess, cur, ret, ready>>

(* Mutant: the guard is not told to leave the descriptor open. *)
HandleGuarded ==
  /\ pc = "accepted"
  /\ 0 \in Configure
  /\ \E k \in Kind : sess' = [sess EXCEPT ![cur] = NewSession(k)]
  /\ Close(cur)
  /\ pc' = "accept" /\ cur' = NoFd
  /\ UNCHANGED <<ret, acceptorVars>>

(* The handler returns: the session owns the descriptor, and the guard     *)
(* lets it go.                                                             *)
Handle ==
  /\ pc = "accepted"
  /\ 0 \in Configure
  /\ \E k \in Kind : sess' = [sess EXCEPT ![cur] = NewSession(k)]
  /\ pc' = "accept" /\ cur' = NoFd
  /\ UNCHANGED <<socketVars, ret, acceptorVars>>

(* The new socket cannot be configured, or the handler throws, perhaps     *)
(* after a socket of its own has taken the descriptor over: that one is    *)
(* destroyed first.  The guard is next.                                    *)
HandleThrow ==
  /\ pc = "accepted"
  /\ Throw \in Configure
  /\ \E taken \in TakenOver :
        IF taken THEN Close(cur) ELSE UNCHANGED socketVars
  /\ pc' = "unwind"
  /\ UNCHANGED <<sess, cur, ret, acceptorVars>>

(* The guard closes the descriptor.  If it is closed already, ~guard       *)
(* throws while an exception is on its way, which terminates the program.  *)
GuardClose ==
  /\ pc = "unwind"
  /\ pc' = IF cur \in open THEN "main" ELSE "terminated"
  /\ Close(cur)
  /\ cur' = NoFd
  /\ UNCHANGED <<sess, ret, acceptorVars>>

AcceptorRun ==
  \/ RunEvent
  \/ AcceptNew \/ AcceptDone \/ AcceptThrow
  \/ Handle \/ HandleThrow \/ GuardClose
=============================================================================
