----------------------------- MODULE EventFlags -----------------------------
(***************************************************************************)
(* The event_set of a demux::socket and the flags of poll(2) and epoll(7)  *)
(* it is made from.  The enumerators readable, writable and pridata are    *)
(* the flags POLLIN, POLLOUT and POLLPRI themselves and share their names  *)
(* here; no_events is the empty set.                                       *)
(***************************************************************************)

EXTENDS Integers

CONSTANTS
  Fd,           \* native sockets
  Flag          \* the flags the kernel uses in its reports

EventFlag == {"readable", "writable", "pridata"}

(* POLLRDNORM, POLLRDBAND, POLLWRNORM: "weird, redundant extensions". *)
Alias == [rdnorm |-> "readable", rdband |-> "pridata", wrnorm |-> "writable"]

(* POLLERR and POLLHUP are reported whether they were asked for or not. *)
Unasked == {"err", "hup"}

ASSUME FlagAssumption ==
  /\ Fd \subseteq Nat
  /\ Flag \subseteq EventFlag \cup DOMAIN Alias \cup Unasked

(* Mutant: an error is handed to the socket as if it could be written to.  *)
EventSetOfErrors(flags) ==
  (flags \cup {Alias[f] : f \in flags \cap DOMAIN Alias}
         \cup {"writable" : f \in flags \cap Unasked}) \cap EventFlag

(* pop_event()'s conversion of the flags the kernel reported. *)
EventSet(flags) ==
  (flags \cup {Alias[f] : f \in flags \cap DOMAIN Alias}) \cap EventFlag

(* What the kernel may report about a socket that asked for ev. *)
Reports(ev) ==
  {flags \in SUBSET Flag :
     /\ flags # {}
     /\ \A f \in flags : \/ f \in ev
                         \/ f \in DOMAIN Alias /\ Alias[f] \in ev
                         \/ f \in Unasked}
=============================================================================
