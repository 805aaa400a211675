-------------------------------- MODULE Adns --------------------------------
(***************************************************************************)
(* The asynchronous DNS resolver, include/ioxx/detail/adns.hpp: open       *)
(* queries and their callbacks, the sockets registered in the dispatcher   *)
(* on behalf of the adns library, and the timeout it wants.                *)
(*                                                                         *)
(* The adns library is external.  Of it the model keeps which queries it   *)
(* is working on, has an answer for, or has to time out, and which         *)
(* descriptors it wants to be polled; any call of it may change the        *)
(* latter.  Query ids are its pointers: one is free again as soon as the   *)
(* answer has been collected, while the callback is still running.         *)
(*                                                                         *)
(* Of the main loop the model keeps its order: handlers and tasks          *)
(* ("idle"), run(), the tasks of the second schedule::run() ("ran"), wait. *)
(* Callbacks are arbitrary user code that may submit queries and throw.    *)
(* The timeout and the sockets are those of Schedule and of the            *)
(* dispatchers, seen through TimerService and EventLoop.                   *)
(***************************************************************************)
EXTENDS Integers, FiniteSets

CONSTANTS
  Query,        \* adns_query ids
  NoQuery,
  Fd,           \* descriptors the adns library may use
  EventFlag,    \* POLLIN, POLLOUT and POLLPRI, the same in an event_set
  Wants,        \* what the adns library may ask to be polled: the events of
                \* every descriptor, {} for those it does not want
  Recommended   \* ADNS_POLLFDS_RECOMMENDED

ASSUME AdnsAssumption ==
  /\ NoQuery \notin Query
  /\ IsFiniteSet(Fd)
  /\ Fd \subseteq Nat
  /\ Wants \subseteq [Fd -> SUBSET EventFlag]
  /\ Wants # {}
  /\ Recommended \in Nat \ {0}

VARIABLES
  inFlight,     \* external: queries that adns is working on
  answered,     \* external: queries whose answer has not been collected
  expired,      \* external: queries in flight that have waited long enough
  wanted,       \* external: the events adns wants of every descriptor
  queries,      \* adns::_queries
  registered,   \* adns::_registered_sockets: the events requested of each
  armed,        \* a task of adns::_timeout is queued
  slept,        \* the last wait() went on for as long as adns asked, and
                \* run() has not been called since
  size,         \* adns::_pfds.size()
  nfds,         \* run(): nfds
  req,          \* run(): descriptors in [req, req_end)
  reg,          \* run(): descriptors in [reg, reg_end)
  pc,           \* "idle", "ran", or in run() "before" adns_beforepoll() or in
                \* the "merge"; in "deliver"_responses(), or in a "callback"
  ret,          \* where deliver_responses() returns to
  cur           \* deliver_responses(): qid, while its callback is running

adnsLib == <<inFlight, answered, expired, wanted>>
polling == <<size, nfds, req, reg>>
vars == <<adnsLib, queries, registered, armed, slept, polling, pc, ret, cur>>

NoSockets == [fd \in Fd |-> {}]

(* The descriptors that appear in w. *)
InUse(w) == {fd \in Fd : w[fd] # {}}

(* Both the array and the set are walked in ascending order. *)
Least(S) == CHOOSE m \in S : \A n \in S : m <= n

TypeOK ==
  /\ inFlight \subseteq Query
  /\ answered \subseteq Query
  /\ expired \subseteq inFlight
  /\ wanted \in [Fd -> SUBSET EventFlag]
  /\ queries \subseteq Query
  /\ registered \in [Fd -> SUBSET EventFlag]
  /\ armed \in BOOLEAN
  /\ slept \in BOOLEAN
  /\ size \in Nat
  /\ nfds \in 0..size
  /\ req \subseteq Fd
  /\ reg \subseteq Fd
  /\ pc \in {"idle", "ran", "before", "merge", "deliver", "callback"}
  /\ ret \in {"idle", "before"}
  /\ cur \in Query \cup {NoQuery}

Init ==
  /\ inFlight = {} /\ answered = {} /\ expired = {}
  /\ wanted \in Wants
  /\ queries = {}
  /\ registered = NoSockets
  /\ armed = FALSE /\ slept = FALSE
  /\ size = Recommended /\ nfds = 0
  /\ req = {} /\ reg = {}
  /\ pc = "idle" /\ ret = "idle" /\ cur = NoQuery

-----------------------------------------------------------------------------
(* The adns library *)

(* adns_submit(): q is sent, or fails at once and is answered. *)
Accept(q) ==
  /\ q \notin inFlight \cup answered
  /\ \/ inFlight' = inFlight \cup {q} /\ UNCHANGED answered
     \/ answered' = answered \cup {q} /\ UNCHANGED inFlight
  /\ wanted' \in Wants
  /\ UNCHANGED expired

(* adns_processreadable() and its siblings: any queries are answered. *)
ProcessSocket ==
  /\ \E S \in SUBSET inFlight :
        /\ answered' = answered \cup S
        /\ inFlight' = inFlight \ S
        /\ expired' = expired \ S
  /\ wanted' \in Wants

(* adns_processtimeouts(): queries that have waited long enough fail or    *)
(* are sent again.                                                         *)
ProcessTimeouts ==
  /\ \E S \in SUBSET expired :
        /\ answered' = answered \cup S
        /\ inFlight' = inFlight \ S
  /\ expired' = {}
  /\ wanted' \in Wants

-----------------------------------------------------------------------------
(* Queries and handlers *)

UserCode == pc \in {"idle", "ran", "callback"}

(* submit(): keep the callback of the query that adns has accepted. *)
Submit(q) ==
  /\ Accept(q)
  /\ queries' = queries \cup {q}

(* query_a(), query_a_no_cname(), query_mx(), query_ptr(). *)
NewQuery(q) ==
  /\ UserCode
  /\ Submit(q)
  /\ UNCHANGED <<registered, armed, slept, polling, pc, ret, cur>>

(* process_fd(), the handler of every registered socket.  It throws when a *)
(* call of the library fails, perhaps after another one has succeeded.     *)
ProcessFd ==
  /\ pc = "idle"
  /\ InUse(registered) # {}
  /\ ProcessSocket
  /\ pc' \in {"deliver", "idle"} /\ ret' = "idle"
  /\ UNCHANGED <<queries, registered, armed, slept, polling, cur>>

(* The time that run() armed the timeout for has come.  It is at least a   *)
(* second away when run() returns, and the clock is read by wait() only.   *)
TimeoutDue == armed /\ slept

(* process_timeout(), as the task of _timeout: schedule::run() calls it    *)
(* before run() cancels the timeout.                                       *)
FireTimeout ==
  /\ pc = "idle"
  /\ TimeoutDue
  /\ armed' = FALSE
  /\ ProcessTimeouts
  /\ pc' = "deliver" /\ ret' = "idle"
  /\ UNCHANGED <<queries, registered, slept, polling, cur>>

-----------------------------------------------------------------------------
(* deliver_responses() *)

(* adns_check() returns an answer; the callback is called once its entry   *)
(* has been erased.                                                        *)
Collect(q) ==
  /\ pc = "deliver"
  /\ q \in answered
  /\ answered' = answered \ {q}
  /\ queries' = queries \ {q}
  /\ pc' = "callback" /\ cur' = q
  /\ UNCHANGED <<inFlight, expired, wanted, registered, armed, slept, polling, ret>>

(* adns_check() returns EAGAIN. *)
CheckAgain ==
  /\ pc = "deliver"
  /\ answered = {} /\ inFlight # {}
  /\ pc' = ret /\ ret' = "idle"
  /\ UNCHANGED <<adnsLib, queries, registered, armed, slept, polling, cur>>

(* adns_check() returns ESRCH. *)
CheckNone ==
  /\ pc = "deliver"
  /\ answered = {} /\ inFlight = {}
  /\ registered' = NoSockets
  /\ pc' = ret /\ ret' = "idle"
  /\ UNCHANGED <<adnsLib, queries, armed, slept, polling, cur>>

(* Mutant: the entry is erased after the callback has returned. *)
CallbackReturnErases ==
  /\ pc = "callback"
  /\ pc' = "deliver" /\ cur' = NoQuery
  /\ queries' = queries \ {cur}
  /\ UNCHANGED <<adnsLib, registered, armed, slept, polling, ret>>

CallbackReturn ==
  /\ pc = "callback"
  /\ pc' = "deliver" /\ cur' = NoQuery
  /\ UNCHANGED <<adnsLib, queries, registered, armed, slept, polling, ret>>

(* A callback throws, or adns_check() fails: the exception leaves          *)
(* deliver_responses() and its callers, and the main loop starts over.     *)
DeliverThrow ==
  /\ pc \in {"deliver", "callback"}
  /\ pc' = "idle" /\ ret' = "idle" /\ cur' = NoQuery
  /\ nfds' = 0
  /\ UNCHANGED <<adnsLib, queries, registered, armed, slept, size, req, reg>>

-----------------------------------------------------------------------------
(* run() *)

(* Mutant: the sockets stay registered. *)
RunNoneKeeps ==
  /\ pc = "idle" /\ ~TimeoutDue
  /\ queries = {}
  /\ armed' = FALSE /\ slept' = FALSE
  /\ pc' = "ran"
  /\ UNCHANGED <<adnsLib, queries, registered, polling, ret, cur>>

(* There is no query: nothing has to be polled. *)
RunNone ==
  /\ pc = "idle" /\ ~TimeoutDue
  /\ queries = {}
  /\ armed' = FALSE /\ slept' = FALSE
  /\ registered' = NoSockets
  /\ pc' = "ran"
  /\ UNCHANGED <<adnsLib, queries, polling, ret, cur>>

RunEnter ==
  /\ pc = "idle" /\ ~TimeoutDue
  /\ queries # {}
  /\ armed' = FALSE /\ slept' = FALSE
  /\ nfds' = size
  /\ pc' = "before"
  /\ UNCHANGED <<adnsLib, queries, registered, size, req, reg, ret, cur>>

Needed == Cardinality(InUse(wanted))

(* Mutant: the array is not reallocated. *)
BeforeRangeNoResize ==
  /\ pc = "before"
  /\ Needed > nfds
  /\ nfds' = Needed
  /\ UNCHANGED <<adnsLib, queries, registered, armed, slept, size, req, reg, pc, ret, cur>>

(* adns_beforepoll() returns ERANGE, and how many it needs. *)
BeforeRange ==
  /\ pc = "before"
  /\ Needed > nfds
  /\ nfds' = Needed
  /\ size' = Needed
  /\ UNCHANGED <<adnsLib, queries, registered, armed, slept, req, reg, pc, ret, cur>>

(* Mutant: what has timed out is left for the timeout's task to process. *)
BeforeNowWaits ==
  /\ pc = "before"
  /\ Needed <= nfds
  /\ expired # {}
  /\ nfds' = Needed
  /\ armed' = TRUE
  /\ req' = InUse(wanted) /\ reg' = InUse(registered)
  /\ pc' = "merge"
  /\ UNCHANGED <<adnsLib, queries, registered, slept, size, ret, cur>>

(* adns_beforepoll() returns the timeout 0: process_timeout(), then ask    *)
(* again.                                                                  *)
BeforeNow ==
  /\ pc = "before"
  /\ Needed <= nfds
  /\ expired # {}
  /\ nfds' = Needed
  /\ ProcessTimeouts
  /\ pc' = "deliver" /\ ret' = "before"
  /\ UNCHANGED <<queries, registered, armed, slept, size, req, reg, cur>>

(* Mutant: the timeout is not armed. *)
BeforeLaterUnarmed ==
  /\ pc = "before"
  /\ Needed <= nfds
  /\ expired = {}
  /\ nfds' = Needed
  /\ req' = InUse(wanted) /\ reg' = InUse(registered)
  /\ pc' = "merge"
  /\ UNCHANGED <<adnsLib, queries, registered, armed, slept, size, ret, cur>>

(* adns_beforepoll() returns a later timeout.  It returns none when the    *)
(* last query has just been answered; -1 milliseconds are rounded up to    *)
(* one second.                                                             *)
BeforeLater ==
  /\ pc = "before"
  /\ Needed <= nfds
  /\ expired = {}
  /\ nfds' = Needed
  /\ armed' = TRUE
  /\ req' = InUse(wanted) /\ reg' = InUse(registered)
  /\ pc' = "merge"
  /\ UNCHANGED <<adnsLib, queries, registered, slept, size, ret, cur>>

RegisterFd(fd) == registered' = [registered EXCEPT ![fd] = wanted[fd]]

(* The next requested descriptor is new. *)
MergeAdd ==
  /\ pc = "merge"
  /\ req # {}
  /\ reg # {} => Least(req) < Least(reg)
  /\ RegisterFd(Least(req))
  /\ req' = req \ {Least(req)}
  /\ UNCHANGED <<adnsLib, queries, armed, slept, size, nfds, reg, pc, ret, cur>>

(* Mutant: the events requested earlier are kept. *)
MergeModifyNothing ==
  /\ pc = "merge"
  /\ req # {} /\ reg # {}
  /\ Least(req) = Least(reg)
  /\ req' = req \ {Least(req)}
  /\ reg' = reg \ {Least(reg)}
  /\ UNCHANGED <<adnsLib, queries, registered, armed, slept, size, nfds, pc, ret, cur>>

(* It is registered: request(). *)
MergeModify ==
  /\ pc = "merge"
  /\ req # {} /\ reg # {}
  /\ Least(req) = Least(reg)
  /\ registered' = [registered EXCEPT ![Least(req)] = wanted[Least(req)]]
  /\ req' = req \ {Least(req)}
  /\ reg' = reg \ {Least(reg)}
  /\ UNCHANGED <<adnsLib, queries, armed, slept, size, nfds, pc, ret, cur>>

(* Mutant: the iterator is advanced and the socket not erased. *)
MergeEraseKeeps ==
  /\ pc = "merge"
  /\ req # {} /\ reg # {}
  /\ Least(req) > Least(reg)
  /\ reg' = reg \ {Least(reg)}
  /\ UNCHANGED <<adnsLib, queries, registered, armed, slept, size, nfds, req, pc, ret, cur>>

(* The next registered descriptor is no longer requested. *)
MergeErase ==
  /\ pc = "merge"
  /\ req # {} /\ reg # {}
  /\ Least(req) > Least(reg)
  /\ registered' = [registered EXCEPT ![Least(reg)] = {}]
  /\ reg' = reg \ {Least(reg)}
  /\ UNCHANGED <<adnsLib, queries, armed, slept, size, nfds, req, pc, ret, cur>>

(* No more descriptors are requested: erase [reg, reg_end) and return. *)
MergeDone ==
  /\ pc = "merge"
  /\ req = {}
  /\ registered' = [fd \in Fd |-> IF fd \in reg THEN {} ELSE registered[fd]]
  /\ reg' = {} /\ nfds' = 0
  /\ pc' = "ran"
  /\ UNCHANGED <<adnsLib, queries, armed, slept, size, req, ret, cur>>

(* adns_beforepoll() fails, or the demultiplexer does not take a socket.   *)
RunThrow ==
  /\ pc \in {"before", "merge"}
  /\ pc' = "idle"
  /\ req' = {} /\ reg' = {} /\ nfds' = 0
  /\ UNCHANGED <<adnsLib, queries, registered, armed, slept, size, ret, cur>>

(* core::wait(), after which any of the queries in flight may have waited  *)
(* long enough.  It ends early when other sockets have events or other     *)
(* tasks are due.                                                          *)
Wait ==
  /\ pc = "ran"
  /\ pc' = "idle"
  /\ \E S \in SUBSET inFlight : expired' = expired \cup S
  /\ slept' \in BOOLEAN
  /\ UNCHANGED <<inFlight, answered, wanted, queries, registered, armed,
                 polling, ret, cur>>

-----------------------------------------------------------------------------
Run ==
  \/ RunNone \/ RunEnter
  \/ BeforeRange \/ BeforeNow \/ BeforeLater
  \/ MergeAdd \/ MergeModify \/ MergeErase \/ MergeDone

Deliver ==
  \/ \E q \in Query : Collect(q)
  \/ CheckAgain \/ CheckNone

Next ==
  \/ \E q \in Query : NewQuery(q)
  \/ ProcessFd \/ FireTimeout
  \/ Deliver \/ CallbackReturn \/ DeliverThrow
  \/ Run \/ RunThrow
  \/ Wait

Spec == Init /\ [][Next]_vars

(* The adns library gives q up. *)
TimesOut(q) == (FireTimeout \/ BeforeNow) /\ q \in answered' \ answered

(* The main loop calls schedule::run() and run(), after dispatch::run()    *)
(* has returned, and wait(); calls of run() do not fail for ever.          *)
(* Callbacks return or throw, and do not for ever submit queries that fail *)
(* at once.  adns_check() does not fail for ever and hands out answers in  *)
(* the order they arrived, and adns gives a query up after a bounded       *)
(* number of timeouts.  Nothing is assumed of the name servers, nor that   *)
(* the program is ever idle: run() starts the timeout anew each time, and  *)
(* a program whose waits all end early never has it fire.                  *)
FairSpec ==
  /\ Spec
  /\ WF_vars(Run) /\ <>[][~RunThrow]_vars
  /\ SF_vars(FireTimeout \/ RunNone \/ RunEnter)
  /\ WF_vars(pc = "callback" /\ (CallbackReturn \/ DeliverThrow))
  /\ WF_vars(CheckAgain \/ CheckNone)
  /\ []<>(pc \notin {"deliver", "callback"})
  /\ WF_vars(Wait)
  /\ \A q \in Query :
        /\ SF_vars(Wait /\ q \in expired')
        /\ SF_vars(TimesOut(q))
        /\ SF_vars(Collect(q))

-----------------------------------------------------------------------------
(* Properties *)

(* What check_consistency() and deliver_responses() assert, and its        *)
(* converse: adns has a query exactly if a callback is waiting for it.     *)
(* Callbacks submit queries that are given the id they are called for.     *)
HandlersMatch == queries = inFlight \cup answered

(* Where run() has got to in the merge: the descriptors that are neither   *)
(* in [req, req_end) nor in [reg, reg_end) are settled.                    *)
MergeSettled ==
  pc = "merge" =>
    /\ req \subseteq InUse(wanted)
    /\ \A fd \in Fd \ (req \cup reg) : registered[fd] = wanted[fd]
    /\ \A fd \in reg \ req : wanted[fd] = {}

(* When run() returns from the merge, the dispatcher polls exactly what    *)
(* adns wants and the timeout is armed, however the sockets wanted and     *)
(* those registered before overlap, after earlier calls that threw half    *)
(* way, and whatever was answered meanwhile.                               *)
RunCovers ==
  [][pc = "merge" /\ pc' = "ran" =>
       registered' = wanted' /\ armed']_vars

(* Every query's callback is called, though other callbacks throw, calls   *)
(* of run() fail and queries are submitted after run(), as long as now and *)
(* then adns works on some query, however busy the program is (run()       *)
(* itself processes what has timed out, and delivers every answer left     *)
(* behind with it), or the program waits as long as adns asked.  A program *)
(* that is never idle and submits no more queries may well starve an       *)
(* answer that a throwing callback left behind.                            *)
QueryAnswered ==
  \A q \in Query :
    []<>(slept \/ inFlight # {}) => (q \in queries ~> q \notin queries)

(* Without queries, the resolver gives up its sockets and its timeout, so  *)
(* that core::empty() may become true and the main loop end.               *)
Quiesces ==
  queries = {} ~> queries # {} \/ (registered = NoSockets /\ ~armed)

Res == INSTANCE Resolver
         WITH polled <- registered # NoSockets,
              pc <- IF pc = "before" THEN "run" ELSE pc,
              ret <- IF ret = "before" THEN "run" ELSE ret

(* The queries, sockets and timeout of the adns library and the merge of   *)
(* its descriptors are a resolver as core::run() needs one: run() returns  *)
(* with nothing open, polled or armed, or else with the timeout armed,     *)
(* whatever callbacks submit and wherever an exception left it before.     *)
ImplementsResolver == Res!Spec
=============================================================================
