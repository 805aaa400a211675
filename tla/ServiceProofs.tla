--------------------------- MODULE ServiceProofs ----------------------------
(***************************************************************************)
(* Proofs about the example services: who closes a descriptor, that nobody *)
(* calls a session that is gone, and that echo returns what it was sent,   *)
(* for any number of descriptors, any sizes of buffers and any amount of   *)
(* data.                                                                   *)
(***************************************************************************)
EXTENDS Service, TLAPS

InMethod == pc \in {"start", "run", "rearm", "shutdown", "reset", "return"}

(* A session that shuts down has perhaps emptied its buffer without having *)
(* changed its request.                                                    *)
Ending(fd) == pc \in {"shutdown", "reset"} /\ fd = cur

(* Who refers to a session in which state of its socket.                   *)
Referred(s) ==
  /\ s.refs = {} => s = NoSession
  /\ "handler" \in s.refs <=> s.interest # "none"
  /\ "task" \in s.refs => "handler" \in s.refs
  /\ "query" \in s.refs => s.refs = {"query"} /\ s.sock
  /\ ~s.sock => s.refs \subseteq {"stack"}

References == \A fd \in Fd : Referred(sess[fd])

(* The caller on the stack refers to the session that runs, and to no      *)
(* other; a session that was just set up has nobody else.                  *)
OnStack ==
  \A fd \in Fd :
    /\ "stack" \in sess[fd].refs => InMethod /\ pc # "run" /\ fd = cur
    /\ sess[fd].sock /\ sess[fd].refs \subseteq {"stack"} =>
         pc = "start" /\ fd = cur

(* What each place in a method finds.                                      *)
Control ==
  /\ InMethod => cur \in Fd /\ ret \in {"dispatch", "tasks"}
  /\ pc = "start" => /\ sess[cur].refs = {"stack"} /\ sess[cur].sock
  /\ pc \in {"run", "rearm", "shutdown", "reset"} =>
       "handler" \in sess[cur].refs
  /\ pc = "reset" => "task" \notin sess[cur].refs
  /\ pc \in {"accepted", "unwind"} => cur \in Fd /\ ~sess[cur].sock

(* The bytes of a connection are in the kernel's buffer, in the session's, *)
(* or have been sent back; the request is for what the buffer needs next.  *)
Counted(fd) ==
  /\ ~sess[fd].sock => conn[fd] = NoConn
  /\ sess[fd].sock /\ sess[fd].kind = "echo" =>
       /\ conn[fd].sent = conn[fd].inbox + sess[fd].buf + sess[fd].done
       /\ ~Ending(fd) => (sess[fd].buf > 0 <=> sess[fd].interest = "writable")
  /\ sess[fd].sock /\ sess[fd].kind = "daytime" =>
       /\ sess[fd].buf + sess[fd].done = DaytimeLength
       /\ ~Ending(fd) => sess[fd].buf > 0
       /\ sess[fd].interest # "readable"

Bytes == \A fd \in Fd : Counted(fd)

(* No handler of the acceptor throws after a socket object of its own has  *)
(* taken the descriptor over.                                              *)
NoneTakenOver == TakenOver = {FALSE}

(* A session's descriptor is open, however handlers of the acceptor fail;  *)
(* and nothing else is if they do not take descriptors over.               *)
Owners ==
  /\ \A fd \in Fd : sess[fd].sock => fd \in open
  /\ pc = "accepted" => cur \in open
  /\ NoneTakenOver =>
       /\ \A fd \in open :
            sess[fd].sock \/ (pc \in {"accepted", "unwind"} /\ fd = cur)
       /\ pc = "unwind" => cur \in open

ServiceInv ==
  TypeOK /\ References /\ OnStack /\ Control /\ Bytes /\ Owners

-----------------------------------------------------------------------------
(* What the calls return. *)

(* A read that succeeds gets no more than fits and than has arrived.       *)
LEMMA ReadResult ==
  ASSUME NEW fd \in Fd, SocketTypeOK, NEW size \in Nat,
         NEW r \in Read(fd, size), r > 0
  PROVE  r \in 1..size /\ r <= conn[fd].inbox
BY DEF Read, ThrowErrnoIf, NotEwouldBlock, Smaller, Throw, EINTR, EAGAIN,
       ECONNRESET, SocketTypeOK, Conn

(* A write that succeeds sends no more than it was given.                  *)
LEMMA WriteResult ==
  ASSUME NEW fd \in Fd, NEW len \in Nat, NEW r \in Write(fd, len), r > 0
  PROVE  r \in 1..len
BY DEF Write, ThrowErrnoIf, NotEwouldBlock, Throw, EINTR, EAGAIN, ECONNRESET

(* accept() that succeeds yields a descriptor that was not in use.         *)
LEMMA AcceptResult ==
  ASSUME NEW n \in Nat, NEW fd \in Accept(n), fd >= 0
  PROVE  n > 0 /\ fd \in Fd \ open
BY SocketAssumption
   DEF Accept, ThrowErrnoIf, NotEwouldBlock, Throw, EINTR, EAGAIN, EMFILE,
       ECONNABORTED

(* The state of a descriptor without a session.                            *)
LEMMA NoSessionType == NoSession \in SessionRecord
BY SocketAssumption, SessionAssumption
   DEF SessionRecord, NoSession, Kind, Holder, MaxBuffer

(* The session of which a holder lets go. *)
LEMMA WithoutEffect ==
  ASSUME NEW h \in Holder, NEW s \in SessionRecord
  PROVE  /\ Without(h, s) \in SessionRecord
         /\ \/ s.refs \subseteq {h} /\ Without(h, s) = NoSession
            \/ /\ ~(s.refs \subseteq {h})
               /\ Without(h, s).refs = s.refs \ {h}
               /\ Without(h, s).kind = s.kind
               /\ Without(h, s).sock <=> s.sock
               /\ Without(h, s).interest = s.interest
               /\ Without(h, s).buf = s.buf
               /\ Without(h, s).done = s.done
BY NoSessionType DEF Without, SessionRecord

(* The query lets go of the session, and the caller holds it instead.      *)
LEMMA AnswerStep ==
  ASSUME ServiceInv, NEW fd \in Fd, Answer(fd),
         UNCHANGED <<acceptorVars, pending>>
  PROVE  ServiceInv'
<1> USE SocketAssumption, SessionAssumption DEF ServiceInv
<1>1. fd \in Fd /\ sess[fd] \in SessionRecord /\ Referred(sess[fd])
  BY DEF Answer, Enter, TypeOK, SessionTypeOK, Control, InMethod, References
<1>2. \A x \in Fd : x # fd => sess'[x] = sess[x]
  BY <1>1 DEF Answer, Enter, TypeOK, SessionTypeOK
<1>3. /\ sess'[fd].kind = sess[fd].kind
      /\ sess'[fd].refs = {"stack"}
      /\ sess'[fd].sock <=> sess[fd].sock
      /\ sess'[fd].interest = sess[fd].interest
      /\ sess'[fd].buf = sess[fd].buf
      /\ sess'[fd].done = sess[fd].done
  BY <1>1
  DEF Answer, Enter, TypeOK, SessionTypeOK, SessionRecord, Holder, Control,
      InMethod, Referred
<1>4. TypeOK'
  <2>1. sess'[fd] \in SessionRecord
    BY <1>1, <1>3
    DEF Answer, Enter, TypeOK, SessionTypeOK, SessionRecord, Holder, Control,
        InMethod, Kind
  <2>2. SessionTypeOK'
    BY <1>1, <1>2, <2>1 DEF Answer, Enter, TypeOK, SessionTypeOK
  <2>3. SocketTypeOK'
    BY <1>1 DEF Answer, Enter, socketVars, TypeOK, SocketTypeOK, Conn, NoConn
  <2> QED
    BY <1>1, <2>2, <2>3
    DEF Answer, Enter, acceptorVars, TypeOK, AcceptorTypeOK, Control, InMethod
<1>5. References'
  <2>1. Referred(sess'[fd])
    BY <1>1, <1>3 DEF Answer, Enter, Control, Referred, NoSession
  <2> QED
    BY <1>2, <2>1 DEF References
<1>6. OnStack'
  BY <1>1, <1>2, <1>3
  DEF Answer, Enter, OnStack, Control, InMethod, Referred, NoSession
<1>7. Control'
  BY <1>1, <1>2, <1>3
  DEF Answer, Enter, Control, InMethod, Referred, OnStack, NoSession
<1>8. Bytes'
  BY <1>1, <1>2, <1>3
  DEF Answer, Enter, socketVars, Bytes, Counted, Ending, Control, InMethod,
      Referred,
      NoSession, NoConn, SessionRecord, Kind, TypeOK, SocketTypeOK, Conn
<1>9. Owners'
  BY <1>1, <1>2, <1>3
  DEF Answer, Enter, socketVars, Owners, Control, InMethod, Referred,
      NoSession, TypeOK, SocketTypeOK
<1> QED BY <1>4, <1>5, <1>6, <1>7, <1>8, <1>9

(* The schedule lets go of the session, and the caller holds it instead.   *)
LEMMA FireStep ==
  ASSUME ServiceInv, NEW fd \in Fd, Fire(fd),
         UNCHANGED <<acceptorVars, pending>>
  PROVE  ServiceInv'
<1> USE SocketAssumption, SessionAssumption DEF ServiceInv
<1>1. fd \in Fd /\ sess[fd] \in SessionRecord /\ Referred(sess[fd])
  BY DEF Fire, Enter, TypeOK, SessionTypeOK, Control, InMethod, References
<1>2. \A x \in Fd : x # fd => sess'[x] = sess[x]
  BY <1>1 DEF Fire, Enter, TypeOK, SessionTypeOK
<1>3. /\ sess'[fd].kind = sess[fd].kind
      /\ sess'[fd].refs = (sess[fd].refs \ {"task"}) \cup {"stack"}
      /\ sess'[fd].sock <=> sess[fd].sock
      /\ sess'[fd].interest = sess[fd].interest
      /\ sess'[fd].buf = sess[fd].buf
      /\ sess'[fd].done = sess[fd].done
  BY <1>1
  DEF Fire, Enter, TypeOK, SessionTypeOK, SessionRecord, Holder, Control,
      InMethod
<1>4. TypeOK'
  <2>1. sess'[fd] \in SessionRecord
    BY <1>1, <1>3
    DEF Fire, Enter, TypeOK, SessionTypeOK, SessionRecord, Holder, Control,
        InMethod, Kind
  <2>2. SessionTypeOK'
    BY <1>1, <1>2, <2>1 DEF Fire, Enter, TypeOK, SessionTypeOK
  <2>3. SocketTypeOK'
    BY <1>1 DEF Fire, Enter, socketVars, TypeOK, SocketTypeOK, Conn, NoConn
  <2> QED
    BY <1>1, <2>2, <2>3
    DEF Fire, Enter, acceptorVars, TypeOK, AcceptorTypeOK, Control, InMethod
<1>5. References'
  <2>1. Referred(sess'[fd])
    BY <1>1, <1>3 DEF Fire, Enter, Control, Referred, NoSession
  <2> QED
    BY <1>2, <2>1 DEF References
<1>6. OnStack'
  BY <1>1, <1>2, <1>3
  DEF Fire, Enter, OnStack, Control, InMethod, Referred, NoSession
<1>7. Control'
  BY <1>1, <1>2, <1>3
  DEF Fire, Enter, Control, InMethod, Referred, OnStack, NoSession
<1>8. Bytes'
  BY <1>1, <1>2, <1>3
  DEF Fire, Enter, socketVars, Bytes, Counted, Ending, Control, InMethod,
      Referred,
      NoSession, NoConn, SessionRecord, Kind, TypeOK, SocketTypeOK, Conn
<1>9. Owners'
  BY <1>1, <1>2, <1>3
  DEF Fire, Enter, socketVars, Owners, Control, InMethod, Referred,
      NoSession, TypeOK, SocketTypeOK
<1> QED BY <1>4, <1>5, <1>6, <1>7, <1>8, <1>9

(* The handler is set together with the request for the first event.       *)
LEMMA StartStep ==
  ASSUME ServiceInv, Start, UNCHANGED <<acceptorVars, pending>>
  PROVE  ServiceInv'
<1> USE SocketAssumption, SessionAssumption DEF ServiceInv
<1>1. cur \in Fd /\ sess[cur] \in SessionRecord /\ Referred(sess[cur])
  BY DEF Start, TypeOK, SessionTypeOK, Control, InMethod, References
<1>2. \A x \in Fd : x # cur => sess'[x] = sess[x]
  BY <1>1 DEF Start, TypeOK, SessionTypeOK
<1>3. /\ sess'[cur].kind = sess[cur].kind
      /\ sess'[cur].refs = {"stack", "handler"}
      /\ sess'[cur].sock <=> sess[cur].sock
      /\ sess'[cur].interest \in {"readable", "writable"}
      /\ sess'[cur].interest = "readable" <=> sess[cur].kind = "echo"
      /\ sess'[cur].buf = sess[cur].buf
      /\ sess'[cur].done = sess[cur].done
  BY <1>1
  DEF Start, TypeOK, SessionTypeOK, SessionRecord, Holder, Control, InMethod
<1>4. TypeOK'
  <2>1. sess'[cur] \in SessionRecord
    BY <1>1, <1>3
    DEF Start, TypeOK, SessionTypeOK, SessionRecord, Holder, Control, InMethod,
        Kind
  <2>2. SessionTypeOK'
    BY <1>1, <1>2, <2>1 DEF Start, TypeOK, SessionTypeOK
  <2>3. SocketTypeOK'
    BY <1>1 DEF Start, socketVars, TypeOK, SocketTypeOK, Conn, NoConn
  <2> QED
    BY <1>1, <2>2, <2>3
    DEF Start, acceptorVars, TypeOK, AcceptorTypeOK, Control, InMethod
<1>5. References'
  <2>1. Referred(sess'[cur])
    BY <1>1, <1>3 DEF Start, Control, Referred, NoSession
  <2> QED
    BY <1>2, <2>1 DEF References
<1>6. OnStack'
  BY <1>1, <1>2, <1>3
  DEF Start, OnStack, Control, InMethod, Referred, NoSession
<1>7. Control'
  BY <1>1, <1>2, <1>3
  DEF Start, Control, InMethod, Referred, OnStack, NoSession
<1>8. Bytes'
  <2>1. sess[cur].interest = "none" /\ sess[cur].kind \in Kind
    BY <1>1 DEF Start, Control, Referred, SessionRecord
  <2> SUFFICES ASSUME NEW x \in Fd PROVE Counted(x)'
    BY DEF Bytes
  <2>2. CASE x = cur
    <3>1. Counted(x) /\ ~Ending(x) /\ conn'[x] = conn[x] /\ ~Ending(x)'
      BY DEF Start, socketVars, Bytes, Ending
    <3>2. CASE sess[x].kind = "echo"
      BY <1>3, <2>1, <2>2, <3>1, <3>2 DEF Counted
    <3>3. CASE sess[x].kind = "daytime"
      BY <1>3, <2>1, <2>2, <3>1, <3>3 DEF Counted
    <3> QED
      BY <2>1, <2>2, <3>2, <3>3 DEF Kind
  <2>3. CASE x # cur
    BY <1>2, <2>3 DEF Start, socketVars, Bytes, Counted, Ending
  <2> QED
    BY <2>2, <2>3
<1>9. Owners'
  BY <1>1, <1>2, <1>3
  DEF Start, socketVars, Owners, Control, InMethod, Referred,
      NoSession, TypeOK, SocketTypeOK
<1> QED BY <1>4, <1>5, <1>6, <1>7, <1>8, <1>9

(* Nobody but the caller refers to a session that is being set up.         *)
LEMMA StartThrowStep ==
  ASSUME ServiceInv, StartThrow, UNCHANGED <<acceptorVars, pending>>
  PROVE  ServiceInv'
<1> USE SocketAssumption, SessionAssumption DEF ServiceInv
<1>1. cur \in Fd /\ sess[cur] \in SessionRecord /\ Referred(sess[cur])
  BY DEF StartThrow, Close, TypeOK, SessionTypeOK, Control, InMethod,
         References
<1>2. \A x \in Fd : x # cur => sess'[x] = sess[x]
  BY <1>1 DEF StartThrow, Close, TypeOK, SessionTypeOK
<1>3. sess'[cur] = NoSession
  BY <1>1, WithoutEffect
  DEF StartThrow, Close, TypeOK, SessionTypeOK, SessionRecord, Holder, Control,
      InMethod
<1>4. TypeOK'
  <2>1. sess'[cur] \in SessionRecord
    BY <1>1, <1>3, WithoutEffect
    DEF StartThrow, Close, TypeOK, SessionTypeOK, SessionRecord, Holder,
        Control, InMethod, Kind
  <2>2. SessionTypeOK'
    BY <1>1, <1>2, <2>1 DEF StartThrow, Close, TypeOK, SessionTypeOK
  <2>3. SocketTypeOK'
    BY <1>1
    DEF StartThrow, Close, socketVars, TypeOK, SocketTypeOK, Conn, NoConn
  <2> QED
    BY <1>1, <2>2, <2>3
    DEF StartThrow, Close, acceptorVars, TypeOK, AcceptorTypeOK, Control,
        InMethod
<1>5. References'
  <2>1. Referred(sess'[cur])
    BY <1>1, <1>3 DEF StartThrow, Close, Control, Referred, NoSession
  <2> QED
    BY <1>2, <2>1 DEF References
<1>6. OnStack'
  BY <1>1, <1>2, <1>3
  DEF StartThrow, Close, OnStack, Control, InMethod, Referred, NoSession
<1>7. Control'
  BY <1>1, <1>2, <1>3
  DEF StartThrow, Close, Control, InMethod, Referred, OnStack, NoSession
<1>8. Bytes'
  BY <1>1, <1>2, <1>3
  DEF StartThrow, Close, socketVars, Bytes, Counted, Ending, Control, InMethod,
      Referred,
      NoSession, NoConn, SessionRecord, Kind, TypeOK, SocketTypeOK, Conn
<1>9. Owners'
  BY <1>1, <1>2, <1>3
  DEF StartThrow, Close, socketVars, Owners, Control, InMethod, Referred,
      NoSession, TypeOK, SocketTypeOK
<1> QED BY <1>4, <1>5, <1>6, <1>7, <1>8, <1>9

(* The task refers to a session that has a handler.                        *)
LEMMA RearmStep ==
  ASSUME ServiceInv, Rearm, UNCHANGED <<acceptorVars, pending>>
  PROVE  ServiceInv'
<1> USE SocketAssumption, SessionAssumption DEF ServiceInv
<1>1. cur \in Fd /\ sess[cur] \in SessionRecord /\ Referred(sess[cur])
  BY DEF Rearm, TypeOK, SessionTypeOK, Control, InMethod, References
<1>2. \A x \in Fd : x # cur => sess'[x] = sess[x]
  BY <1>1 DEF Rearm, TypeOK, SessionTypeOK
<1>3. /\ sess'[cur].kind = sess[cur].kind
      /\ sess'[cur].refs = sess[cur].refs \cup {"task"}
      /\ sess'[cur].sock <=> sess[cur].sock
      /\ sess'[cur].interest = sess[cur].interest
      /\ sess'[cur].buf = sess[cur].buf
      /\ sess'[cur].done = sess[cur].done
  BY <1>1
  DEF Rearm, TypeOK, SessionTypeOK, SessionRecord, Holder, Control, InMethod
<1>4. TypeOK'
  <2>1. sess'[cur] \in SessionRecord
    BY <1>1, <1>3
    DEF Rearm, TypeOK, SessionTypeOK, SessionRecord, Holder, Control, InMethod,
        Kind
  <2>2. SessionTypeOK'
    BY <1>1, <1>2, <2>1 DEF Rearm, TypeOK, SessionTypeOK
  <2>3. SocketTypeOK'
    BY <1>1 DEF Rearm, socketVars, TypeOK, SocketTypeOK, Conn, NoConn
  <2> QED
    BY <1>1, <2>2, <2>3
    DEF Rearm, acceptorVars, TypeOK, AcceptorTypeOK, Control, InMethod
<1>5. References'
  <2>1. Referred(sess'[cur])
    BY <1>1, <1>3 DEF Rearm, Control, Referred, NoSession
  <2> QED
    BY <1>2, <2>1 DEF References
<1>6. OnStack'
  BY <1>1, <1>2, <1>3
  DEF Rearm, OnStack, Control, InMethod, Referred, NoSession
<1>7. Control'
  BY <1>1, <1>2, <1>3
  DEF Rearm, Control, InMethod, Referred, OnStack, NoSession
<1>8. Bytes'
  BY <1>1, <1>2, <1>3
  DEF Rearm, socketVars, Bytes, Counted, Ending, Control, InMethod, Referred,
      NoSession, NoConn, SessionRecord, Kind, TypeOK, SocketTypeOK, Conn
<1>9. Owners'
  BY <1>1, <1>2, <1>3
  DEF Rearm, socketVars, Owners, Control, InMethod, Referred,
      NoSession, TypeOK, SocketTypeOK
<1> QED BY <1>4, <1>5, <1>6, <1>7, <1>8, <1>9

(* The handler still refers to a session whose timeout is cancelled.       *)
LEMMA ShutdownStep ==
  ASSUME ServiceInv, Shutdown, UNCHANGED <<acceptorVars, pending>>
  PROVE  ServiceInv'
<1> USE SocketAssumption, SessionAssumption DEF ServiceInv
<1>1. cur \in Fd /\ sess[cur] \in SessionRecord /\ Referred(sess[cur])
  BY DEF Shutdown, TypeOK, SessionTypeOK, Control, InMethod, References
<1>2. \A x \in Fd : x # cur => sess'[x] = sess[x]
  BY <1>1 DEF Shutdown, TypeOK, SessionTypeOK
<1>3. /\ sess'[cur].kind = sess[cur].kind
      /\ sess'[cur].refs = sess[cur].refs \ {"task"}
      /\ sess'[cur].sock <=> sess[cur].sock
      /\ sess'[cur].interest = sess[cur].interest
      /\ sess'[cur].buf = sess[cur].buf
      /\ sess'[cur].done = sess[cur].done
  BY <1>1, WithoutEffect
  DEF Shutdown, TypeOK, SessionTypeOK, SessionRecord, Holder, Control, InMethod
<1>4. TypeOK'
  <2>1. sess'[cur] \in SessionRecord
    BY <1>1, <1>3, WithoutEffect
    DEF Shutdown, TypeOK, SessionTypeOK, SessionRecord, Holder, Control,
        InMethod, Kind
  <2>2. SessionTypeOK'
    BY <1>1, <1>2, <2>1 DEF Shutdown, TypeOK, SessionTypeOK
  <2>3. SocketTypeOK'
    BY <1>1 DEF Shutdown, socketVars, TypeOK, SocketTypeOK, Conn, NoConn
  <2> QED
    BY <1>1, <2>2, <2>3
    DEF Shutdown, acceptorVars, TypeOK, AcceptorTypeOK, Control, InMethod
<1>5. References'
  <2>1. Referred(sess'[cur])
    BY <1>1, <1>3 DEF Shutdown, Control, Referred, NoSession
  <2> QED
    BY <1>2, <2>1 DEF References
<1>6. OnStack'
  BY <1>1, <1>2, <1>3
  DEF Shutdown, OnStack, Control, InMethod, Referred, NoSession
<1>7. Control'
  BY <1>1, <1>2, <1>3
  DEF Shutdown, Control, InMethod, Referred, OnStack, NoSession
<1>8. Bytes'
  BY <1>1, <1>2, <1>3
  DEF Shutdown, socketVars, Bytes, Counted, Ending, Control, InMethod,
      Referred,
      NoSession, NoConn, SessionRecord, Kind, TypeOK, SocketTypeOK, Conn
<1>9. Owners'
  BY <1>1, <1>2, <1>3
  DEF Shutdown, socketVars, Owners, Control, InMethod, Referred,
      NoSession, TypeOK, SocketTypeOK
<1> QED BY <1>4, <1>5, <1>6, <1>7, <1>8, <1>9

(* The session is left by its handler, with nobody or the caller to hold   *)
(* it.                                                                     *)
LEMMA ResetStep ==
  ASSUME ServiceInv, Reset, UNCHANGED <<acceptorVars, pending>>
  PROVE  ServiceInv'
<1> USE SocketAssumption, SessionAssumption DEF ServiceInv
<1>1. cur \in Fd /\ sess[cur] \in SessionRecord /\ Referred(sess[cur])
  BY DEF Reset, Close, TypeOK, SessionTypeOK, Control, InMethod, References
<1>2. \A x \in Fd : x # cur => sess'[x] = sess[x]
  BY <1>1 DEF Reset, Close, TypeOK, SessionTypeOK
<1> DEFINE closed == [sess[cur] EXCEPT !.sock = FALSE, !.interest = "none"]
<1>closed. /\ closed \in SessionRecord
      /\ closed.kind = sess[cur].kind
      /\ closed.refs = sess[cur].refs
      /\ ~closed.sock
      /\ closed.interest = "none"
      /\ closed.buf = sess[cur].buf
      /\ closed.done = sess[cur].done
  BY <1>1 DEF SessionRecord
<1>left. sess'[cur] = Without("handler", closed)
  BY <1>1 DEF Reset, TypeOK, SessionTypeOK
<1> HIDE DEF closed
<1>3. \/ sess'[cur] = NoSession
      \/ /\ sess'[cur].kind = sess[cur].kind
         /\ sess'[cur].refs = {"stack"}
         /\ sess'[cur].sock <=> FALSE
         /\ sess'[cur].interest = "none"
         /\ sess'[cur].buf = sess[cur].buf
         /\ sess'[cur].done = sess[cur].done
  BY <1>1, <1>closed, <1>left, WithoutEffect
  DEF Reset, Close, TypeOK, SessionTypeOK, SessionRecord, Holder, Control,
      InMethod, Referred
<1>none. ~sess'[cur].sock /\ sess'[cur].refs \subseteq {"stack"}
  BY <1>3 DEF NoSession
<1>conn. conn'[cur] = NoConn /\ \A x \in Fd : x # cur => conn'[x] = conn[x]
  BY <1>1 DEF Reset, Close, TypeOK, SocketTypeOK
<1>4. TypeOK'
  <2>1. sess'[cur] \in SessionRecord
    BY <1>1, <1>3, <1>closed, <1>left, WithoutEffect
    DEF Reset, Close, TypeOK, SessionTypeOK, SessionRecord, Holder, Control,
        InMethod, Kind
  <2>2. SessionTypeOK'
    BY <1>1, <1>2, <2>1 DEF Reset, Close, TypeOK, SessionTypeOK
  <2>3. SocketTypeOK'
    BY <1>1 DEF Reset, Close, socketVars, TypeOK, SocketTypeOK, Conn, NoConn
  <2> QED
    BY <1>1, <2>2, <2>3
    DEF Reset, Close, acceptorVars, TypeOK, AcceptorTypeOK, Control, InMethod
<1>5. References'
  <2>1. Referred(sess'[cur])
    BY <1>1, <1>3 DEF Reset, Close, Control, Referred, NoSession
  <2> QED
    BY <1>2, <2>1 DEF References
<1>6. OnStack'
  BY <1>1, <1>2, <1>none DEF Reset, OnStack, InMethod
<1>7. Control'
  BY <1>1, <1>2, <1>3
  DEF Reset, Close, Control, InMethod, Referred, OnStack, NoSession
<1>8. Bytes'
  <2> SUFFICES ASSUME NEW x \in Fd PROVE Counted(x)'
    BY DEF Bytes
  <2>2. CASE x = cur
    BY <1>none, <1>conn, <2>2 DEF Counted
  <2>3. CASE x # cur
    BY <1>2, <1>conn, <2>3 DEF Reset, Bytes, Counted, Ending
  <2> QED
    BY <2>2, <2>3
<1>9. Owners'
  BY <1>1, <1>2, <1>none DEF Reset, Close, Owners, TypeOK, SocketTypeOK
<1> QED BY <1>4, <1>5, <1>6, <1>7, <1>8, <1>9

(* A session that only its caller holds has no socket any more.            *)
LEMMA ReturnStep ==
  ASSUME ServiceInv, Return, UNCHANGED <<acceptorVars, pending>>
  PROVE  ServiceInv'
<1> USE SocketAssumption, SessionAssumption DEF ServiceInv
<1>1. cur \in Fd /\ sess[cur] \in SessionRecord /\ Referred(sess[cur])
  BY DEF Return, TypeOK, SessionTypeOK, Control, InMethod, References
<1>2. \A x \in Fd : x # cur => sess'[x] = sess[x]
  BY <1>1 DEF Return, TypeOK, SessionTypeOK
<1>3. \/ sess'[cur] = NoSession /\ sess[cur].refs \subseteq {"stack"}
      \/ /\ ~(sess[cur].refs \subseteq {"stack"})
         /\ sess'[cur].kind = sess[cur].kind
         /\ sess'[cur].refs = sess[cur].refs \ {"stack"}
         /\ sess'[cur].sock <=> sess[cur].sock
         /\ sess'[cur].interest = sess[cur].interest
         /\ sess'[cur].buf = sess[cur].buf
         /\ sess'[cur].done = sess[cur].done
  BY <1>1, WithoutEffect
  DEF Return, TypeOK, SessionTypeOK, SessionRecord, Holder, Control, InMethod
<1>kept. sess[cur].refs \subseteq {"stack"} => ~sess[cur].sock
  BY <1>1 DEF Return, OnStack
<1>4. TypeOK'
  <2>1. sess'[cur] \in SessionRecord
    BY <1>1, <1>3, WithoutEffect
    DEF Return, TypeOK, SessionTypeOK, SessionRecord, Holder, Control,
        InMethod, Kind
  <2>2. SessionTypeOK'
    BY <1>1, <1>2, <2>1 DEF Return, TypeOK, SessionTypeOK
  <2>3. SocketTypeOK'
    BY <1>1 DEF Return, socketVars, TypeOK, SocketTypeOK, Conn, NoConn
  <2> QED
    BY <1>1, <2>2, <2>3
    DEF Return, acceptorVars, TypeOK, AcceptorTypeOK, Control, InMethod
<1>5. References'
  <2>1. Referred(sess'[cur])
    BY <1>1, <1>3 DEF Return, Control, Referred, NoSession
  <2> QED
    BY <1>2, <2>1 DEF References
<1>6. OnStack'
  BY <1>1, <1>2, <1>3
  DEF Return, OnStack, Control, InMethod, Referred, NoSession
<1>7. Control'
  BY <1>1, <1>2, <1>3
  DEF Return, Control, InMethod, Referred, OnStack, NoSession
<1>8. Bytes'
  <2> SUFFICES ASSUME NEW x \in Fd PROVE Counted(x)'
    BY DEF Bytes
  <2>1. Counted(x) /\ ~Ending(x) /\ conn'[x] = conn[x] /\ ~Ending(x)'
    BY <1>1 DEF Return, socketVars, Bytes, Ending, Control, InMethod
  <2>2. CASE x = cur
    BY <1>3, <1>kept, <2>1, <2>2 DEF Counted, NoSession
  <2>3. CASE x # cur
    BY <1>2, <2>1, <2>3 DEF Counted
  <2> QED
    BY <2>2, <2>3
<1>9. Owners'
  <2>1. \A x \in Fd : sess'[x].sock <=> sess[x].sock
    BY <1>2, <1>3, <1>kept DEF NoSession
  <2>2. pc' \notin {"accepted", "unwind"} /\ pc \notin {"accepted", "unwind"}
    BY DEF Return, Control, InMethod
  <2>3. open' = open /\ open \subseteq Fd
    BY DEF Return, socketVars, TypeOK, SocketTypeOK
  <2>4. \A x \in Fd : sess'[x].sock => x \in open'
    BY <2>1, <2>3 DEF Owners
  <2>5. ASSUME NoneTakenOver, NEW x \in open' PROVE sess'[x].sock
    BY <2>1, <2>2, <2>3, <2>5 DEF Owners
  <2> QED
    BY <2>2, <2>4, <2>5 DEF Owners, NoneTakenOver
<1> QED BY <1>4, <1>5, <1>6, <1>7, <1>8, <1>9

(* The running session after request() has returned or thrown.             *)
LEMMA RequestingEffect ==
  ASSUME SessionTypeOK, cur \in Fd, NEW ev \in {"readable", "writable"},
         NEW b \in 0..MaxBuffer,
         NEW d \in 0..MaxData \cup 0..DaytimeLength,
         Requesting(ev, b, d)
  PROVE  /\ SessionTypeOK'
         /\ \A x \in Fd : x # cur => sess'[x] = sess[x]
         /\ sess'[cur].kind = sess[cur].kind
         /\ sess'[cur].refs = sess[cur].refs
         /\ sess'[cur].sock <=> sess[cur].sock
         /\ sess'[cur].buf = b
         /\ sess'[cur].done = d
         /\ \/ pc' = "rearm" /\ sess'[cur].interest = ev
            \/ pc' = "shutdown" /\ sess'[cur].interest = sess[cur].interest
<1>1. PICK ok \in BOOLEAN :
        /\ sess' = [sess EXCEPT ![cur].buf = b, ![cur].done = d,
                                ![cur].interest = IF ok THEN ev ELSE @]
        /\ pc' = IF ok THEN "rearm" ELSE "shutdown"
  BY DEF Requesting
<1> DEFINE f == [sess EXCEPT ![cur].buf = b, ![cur].done = d]
<1>2. /\ f \in [Fd -> SessionRecord]
      /\ \A x \in Fd : x # cur => f[x] = sess[x]
      /\ f[cur].kind = sess[cur].kind
      /\ f[cur].refs = sess[cur].refs
      /\ f[cur].sock <=> sess[cur].sock
      /\ f[cur].interest = sess[cur].interest
      /\ f[cur].buf = b
      /\ f[cur].done = d
  BY DEF SessionTypeOK, SessionRecord
<1>3. CASE ok
  <2>1. sess' = [f EXCEPT ![cur].interest = ev]
    BY <1>1, <1>3
  <2> HIDE DEF f
  <2>2. SessionTypeOK'
    BY <1>2, <2>1 DEF SessionTypeOK, SessionRecord
  <2>3. /\ \A x \in Fd : x # cur => sess'[x] = f[x]
        /\ sess'[cur].kind = f[cur].kind
        /\ sess'[cur].refs = f[cur].refs
        /\ sess'[cur].sock <=> f[cur].sock
        /\ sess'[cur].interest = ev
        /\ sess'[cur].buf = f[cur].buf
        /\ sess'[cur].done = f[cur].done
    BY <1>2, <2>1 DEF SessionRecord
  <2> QED
    BY <1>1, <1>2, <1>3, <2>2, <2>3
<1>4. CASE ~ok
  <2>1. sess' = f
    BY <1>1, <1>4 DEF SessionTypeOK, SessionRecord
  <2> HIDE DEF f
  <2> QED
    BY <1>1, <1>2, <1>4, <2>1 DEF SessionTypeOK
<1> QED
  BY <1>3, <1>4

(* The running session after r bytes of its buffer were written.           *)
LEMMA WrittenEffect ==
  ASSUME SessionTypeOK, cur \in Fd, NEW r \in 1..sess[cur].buf,
         sess[cur].done + r \in 0..MaxData \cup 0..DaytimeLength,
         sess' = [sess EXCEPT ![cur].buf = @ - r, ![cur].done = @ + r]
  PROVE  /\ SessionTypeOK'
         /\ \A x \in Fd : x # cur => sess'[x] = sess[x]
         /\ sess'[cur].kind = sess[cur].kind
         /\ sess'[cur].refs = sess[cur].refs
         /\ sess'[cur].sock <=> sess[cur].sock
         /\ sess'[cur].interest = sess[cur].interest
         /\ sess'[cur].buf = sess[cur].buf - r
         /\ sess'[cur].done = sess[cur].done + r
<1>1. /\ sess[cur].buf - r \in 0..MaxBuffer
      /\ sess[cur].done + r \in 0..MaxData \cup 0..DaytimeLength
  BY SocketAssumption, SessionAssumption
     DEF SessionTypeOK, SessionRecord, MaxBuffer
<1> QED
  BY <1>1 DEF SessionTypeOK, SessionRecord

(* What run() finds.                                                       *)
LEMMA RunFacts ==
  ASSUME ServiceInv, pc = "run"
  PROVE  /\ cur \in Fd /\ sess[cur] \in SessionRecord /\ conn[cur] \in Conn
         /\ Referred(sess[cur])
         /\ "handler" \in sess[cur].refs /\ "stack" \notin sess[cur].refs
         /\ sess[cur].sock /\ sess[cur].interest # "none"
         /\ Counted(cur) /\ ~Ending(cur)
BY DEF ServiceInv, TypeOK, SessionTypeOK, SocketTypeOK, Control, InMethod,
       References, Referred, OnStack, Bytes, Ending

(* A call of run() that keeps the session and its account of bytes keeps   *)
(* the invariant.                                                          *)
LEMMA RunKeeps ==
  ASSUME ServiceInv, pc = "run", pc' \in {"rearm", "shutdown"},
         UNCHANGED <<open, cur, ret, acceptorVars, pending>>,
         SessionTypeOK', SocketTypeOK',
         \A x \in Fd : x # cur => sess'[x] = sess[x] /\ conn'[x] = conn[x],
         sess'[cur].refs = sess[cur].refs,
         sess'[cur].sock <=> sess[cur].sock,
         sess'[cur].interest # "none",
         Counted(cur)'
  PROVE  ServiceInv'
<1> USE RunFacts DEF ServiceInv
<1>1. TypeOK'
  BY DEF TypeOK, acceptorVars, AcceptorTypeOK
<1>2. References'
  BY DEF References, Referred
<1>3. OnStack'
  BY DEF OnStack, InMethod
<1>4. Control'
  BY DEF Control, InMethod
<1>5. Bytes'
  BY DEF Bytes, Counted, Ending
<1>6. Owners'
  BY DEF Owners, TypeOK, SocketTypeOK
<1> QED
  BY <1>1, <1>2, <1>3, <1>4, <1>5, <1>6

(* The call changes neither the session nor the connection.                *)
LEMMA RunUnchanged ==
  ASSUME ServiceInv, pc = "run", pc' \in {"rearm", "shutdown"},
         UNCHANGED <<sess, open, conn, cur, ret, acceptorVars, pending>>
  PROVE  ServiceInv'
<1>1. SessionTypeOK' /\ SocketTypeOK'
  BY DEF ServiceInv, TypeOK, SessionTypeOK, SocketTypeOK
<1>2. Counted(cur)'
  BY RunFacts DEF Counted
<1> QED
  BY <1>1, <1>2, RunFacts, RunKeeps

(* What is read moves from the kernel into an empty buffer.                *)
LEMMA EchoReadStep ==
  ASSUME ServiceInv, EchoRead, UNCHANGED <<acceptorVars, pending>>
  PROVE  ServiceInv'
<1> USE RunFacts, SocketAssumption, SessionAssumption
<1>1. PICK r \in Read(cur, BufferSize) :
        \/ GiveUp(r) \/ TryLater(r)
        \/ /\ r > 0
           /\ conn' = [conn EXCEPT ![cur].inbox = @ - r]
           /\ Requesting("writable", r, sess[cur].done)
  BY DEF EchoRead
<1>2. CASE GiveUp(r) \/ TryLater(r)
  BY <1>2, RunUnchanged DEF EchoRead, GiveUp, TryLater
<1>3. CASE /\ r > 0
           /\ conn' = [conn EXCEPT ![cur].inbox = @ - r]
           /\ Requesting("writable", r, sess[cur].done)
  <2>1. SocketTypeOK /\ SessionTypeOK /\ pc = "run"
    BY DEF ServiceInv, TypeOK, EchoRead
  <2>2. r \in 1..BufferSize /\ r <= conn[cur].inbox /\ r \in 0..MaxBuffer
    BY <1>3, <2>1, ReadResult DEF MaxBuffer
  <2>3. sess[cur].done \in 0..MaxData \cup 0..DaytimeLength
    BY <2>1 DEF SessionRecord
  <2>4. /\ SocketTypeOK'
        /\ conn'[cur].sent = conn[cur].sent
        /\ conn'[cur].inbox = conn[cur].inbox - r
        /\ \A x \in Fd : x # cur => conn'[x] = conn[x]
    <3>1. conn[cur].inbox - r \in 0..MaxData
      BY <2>1, <2>2 DEF Conn
    <3> QED
      BY <1>3, <2>1, <3>1 DEF EchoRead, SocketTypeOK, Conn
  <2>5. sess[cur].kind = "echo" /\ sess[cur].interest = "readable"
    BY DEF EchoRead
  <2>6. sess[cur].buf = 0
    BY <2>1, <2>5 DEF Counted, SessionRecord
  <2>7. Counted(cur)'
    BY <1>3, <2>1, <2>2, <2>3, <2>4, <2>5, <2>6, RequestingEffect
    DEF EchoRead, Counted, Ending, SessionRecord, Conn
  <2> QED
    BY <1>3, <2>1, <2>2, <2>3, <2>4, <2>5, <2>7, RequestingEffect, RunKeeps
    DEF EchoRead
<1> QED
  BY <1>1, <1>2, <1>3

(* What is written leaves the buffer; reading goes on when it is empty.    *)
LEMMA EchoWriteStep ==
  ASSUME ServiceInv, EchoWrite, UNCHANGED <<acceptorVars, pending>>
  PROVE  ServiceInv'
<1> USE RunFacts, SocketAssumption, SessionAssumption
<1>1. PICK r \in Write(cur, sess[cur].buf) :
        \/ GiveUp(r) \/ TryLater(r)
        \/ /\ r = sess[cur].buf
           /\ Requesting("readable", 0, sess[cur].done + r)
           /\ UNCHANGED conn
        \/ /\ r \in 1..(sess[cur].buf - 1)
           /\ sess' = [sess EXCEPT ![cur].buf = @ - r, ![cur].done = @ + r]
           /\ pc' = "rearm"
           /\ UNCHANGED conn
  BY DEF EchoWrite
<1>2. /\ SocketTypeOK /\ SessionTypeOK /\ pc = "run"
      /\ sess[cur].kind = "echo" /\ sess[cur].interest = "writable"
  BY DEF ServiceInv, TypeOK, EchoWrite
<1>3. /\ sess[cur].buf \in Nat \ {0}
      /\ sess[cur].done + sess[cur].buf <= MaxData
      /\ sess[cur].done \in Nat
      /\ conn[cur].sent = conn[cur].inbox + sess[cur].buf + sess[cur].done
  BY <1>2 DEF Counted, SessionRecord, Conn
<1>4. CASE GiveUp(r) \/ TryLater(r)
  BY <1>2, <1>4, RunUnchanged DEF EchoWrite, GiveUp, TryLater
<1>5. CASE /\ r = sess[cur].buf
           /\ Requesting("readable", 0, sess[cur].done + r)
           /\ UNCHANGED conn
  <2>1. sess[cur].done + r \in 0..MaxData /\ 0 \in 0..MaxBuffer
    BY <1>3, <1>5 DEF MaxBuffer
  <2>2. SocketTypeOK'
    BY <1>2, <1>5 DEF EchoWrite, SocketTypeOK
  <2>3. Counted(cur)'
    BY <1>2, <1>3, <1>5, <2>1, RequestingEffect
    DEF EchoWrite, Counted, Ending, Conn
  <2> QED
    BY <1>2, <1>5, <2>1, <2>2, <2>3, RequestingEffect, RunKeeps DEF EchoWrite
<1>6. CASE /\ r \in 1..(sess[cur].buf - 1)
           /\ sess' = [sess EXCEPT ![cur].buf = @ - r, ![cur].done = @ + r]
           /\ pc' = "rearm"
           /\ UNCHANGED conn
  <2>1. sess[cur].done + r \in 0..MaxData /\ r \in 1..sess[cur].buf
    BY <1>3, <1>6
  <2>2. SocketTypeOK'
    BY <1>2, <1>6 DEF EchoWrite, SocketTypeOK
  <2>3. Counted(cur)'
    <3>1. /\ sess'[cur].kind = "echo" /\ sess'[cur].interest = "writable"
          /\ sess'[cur].buf = sess[cur].buf - r
          /\ sess'[cur].done = sess[cur].done + r
          /\ sess'[cur].sock
          /\ cur' = cur /\ conn' = conn
      BY <1>2, <1>6, <2>1, WrittenEffect DEF EchoWrite
    <3> QED
      BY <1>2, <1>3, <1>6, <3>1 DEF Counted, Conn
  <2> QED
    BY <1>2, <1>6, <2>1, <2>2, <2>3, WrittenEffect, RunKeeps DEF EchoWrite
<1> QED
  BY <1>1, <1>4, <1>5, <1>6

(* A session with nothing left to send ends.                               *)
LEMMA DaytimeRunStep ==
  ASSUME ServiceInv, DaytimeRun, UNCHANGED <<acceptorVars, pending>>
  PROVE  ServiceInv'
<1> USE RunFacts, SocketAssumption, SessionAssumption
<1>1. PICK r \in Write(cur, sess[cur].buf) :
        \/ /\ r \in {0, Throw, -EAGAIN}
           /\ pc' = "shutdown"
           /\ UNCHANGED sess
        \/ /\ r > 0
           /\ sess' = [sess EXCEPT ![cur].buf = @ - r, ![cur].done = @ + r]
           /\ pc' = IF r = sess[cur].buf THEN "shutdown" ELSE "rearm"
  BY DEF DaytimeRun
<1>2. /\ SocketTypeOK /\ SessionTypeOK /\ pc = "run"
      /\ sess[cur].kind = "daytime"
  BY DEF ServiceInv, TypeOK, DaytimeRun
<1>3. /\ sess[cur].buf \in Nat \ {0} /\ sess[cur].done \in Nat
      /\ sess[cur].buf + sess[cur].done = DaytimeLength
      /\ sess[cur].interest # "readable"
  BY <1>2 DEF Counted, SessionRecord
<1>4. CASE pc' = "shutdown" /\ UNCHANGED sess
  BY <1>2, <1>4, RunUnchanged DEF DaytimeRun, socketVars
<1>5. CASE /\ r > 0
           /\ sess' = [sess EXCEPT ![cur].buf = @ - r, ![cur].done = @ + r]
           /\ pc' = IF r = sess[cur].buf THEN "shutdown" ELSE "rearm"
  <2>1. r \in 1..sess[cur].buf
    BY <1>2, <1>3, <1>5, WriteResult
  <2>2. sess[cur].done + r \in 0..DaytimeLength
    BY <1>3, <2>1
  <2>3. SocketTypeOK'
    BY <1>2 DEF DaytimeRun, socketVars, SocketTypeOK
  <2>4. Counted(cur)'
    <3>1. /\ sess'[cur].kind = "daytime" /\ sess'[cur].interest # "readable"
          /\ sess'[cur].buf = sess[cur].buf - r
          /\ sess'[cur].done = sess[cur].done + r
          /\ sess'[cur].sock
          /\ cur' = cur
      BY <1>2, <1>3, <1>5, <2>1, <2>2, WrittenEffect DEF DaytimeRun
    <3> QED
      BY <1>3, <1>5, <2>1, <3>1 DEF Counted, Ending
  <2>5. pc' \in {"rearm", "shutdown"}
    BY <1>5
  <2> QED
    BY <1>2, <1>5, <2>1, <2>2, <2>3, <2>4, <2>5, WrittenEffect, RunKeeps
    DEF DaytimeRun, socketVars
<1> QED
  BY <1>1, <1>4, <1>5

-----------------------------------------------------------------------------
(* The peers, the acceptor and the loop. *)

(* What a peer sends is on its way.                                        *)
LEMMA PeerKeeps ==
  ASSUME ServiceInv, PeerStep
  PROVE  ServiceInv'
<1> USE RunFacts, SocketAssumption
<1>1. /\ pc = "run" /\ SocketTypeOK
      /\ UNCHANGED <<open, sess, control, acceptorVars, pending>>
      /\ \/ sess[cur].kind = "echo" /\ PeerSend(cur)
         \/ PeerClose(cur) \/ PeerReset(cur)
  BY DEF ServiceInv, TypeOK, PeerStep, PeerSend, PeerClose, PeerReset
<1>2. /\ SocketTypeOK'
      /\ \A x \in Fd : x # cur => conn'[x] = conn[x]
      /\ \/ /\ sess[cur].kind = "echo"
            /\ conn'[cur].sent = conn[cur].sent + 1
            /\ conn'[cur].inbox = conn[cur].inbox + 1
         \/ /\ conn'[cur].sent = conn[cur].sent
            /\ conn'[cur].inbox = conn[cur].inbox
  <2>1. CASE sess[cur].kind = "echo" /\ PeerSend(cur)
    <3>1. /\ conn[cur].sent + 1 \in 0..MaxData
          /\ conn[cur].inbox + 1 \in 0..MaxData
      BY <1>1, <2>1 DEF PeerSend, Conn, Counted, SessionRecord
    <3> QED
      BY <1>1, <2>1, <3>1 DEF PeerSend, SocketTypeOK, Conn
  <2>2. CASE PeerClose(cur)
    BY <1>1, <2>2 DEF PeerClose, SocketTypeOK, Conn
  <2>3. CASE PeerReset(cur)
    BY <1>1, <2>3 DEF PeerReset, SocketTypeOK, Conn
  <2> QED
    BY <1>1, <2>1, <2>2, <2>3
<1>3. Bytes'
  <2> SUFFICES ASSUME NEW x \in Fd PROVE Counted(x)'
    BY DEF Bytes
  <2>1. Counted(x) /\ (Ending(x)' <=> Ending(x)) /\ sess' = sess
    BY <1>1 DEF ServiceInv, Bytes, Ending, control
  <2>2. CASE x = cur
    BY <1>1, <1>2, <2>1, <2>2 DEF Counted, Conn, SessionRecord
  <2>3. CASE x # cur
    BY <1>2, <2>1, <2>3 DEF Counted
  <2> QED
    BY <2>2, <2>3
<1>4. TypeOK'
  BY <1>1, <1>2
  DEF ServiceInv, TypeOK, SessionTypeOK, AcceptorTypeOK, acceptorVars, control
<1>5. References' /\ OnStack' /\ Control'
  BY <1>1 DEF ServiceInv, References, OnStack, Control, InMethod, control
<1>6. Owners'
  BY <1>1 DEF ServiceInv, Owners, control
<1> QED
  BY <1>3, <1>4, <1>5, <1>6 DEF ServiceInv

(* A step that changes no session or connection, and opens or closes only  *)
(* what no session owns.                                                   *)
LEMMA AcceptorKeeps ==
  ASSUME ServiceInv, UNCHANGED <<sess, conn, ret, pending>>,
         TypeOK', Owners',
         ~InMethod, pc' \in {"main", "dispatch", "accept", "accepted",
                             "unwind", "terminated"},
         pc' \in {"accepted", "unwind"} => cur' \in Fd /\ ~sess[cur'].sock
  PROVE  ServiceInv'
<1> USE DEF ServiceInv, InMethod
<1>1. References'
  BY DEF References
<1>2. OnStack'
  BY DEF OnStack
<1>3. Control'
  BY DEF Control
<1>4. Bytes'
  BY DEF Bytes, Counted, Ending
<1> QED
  BY <1>1, <1>2, <1>3, <1>4

(* A new descriptor has no session.                                        *)
LEMMA AcceptNewStep ==
  ASSUME ServiceInv, AcceptNew, UNCHANGED pending
  PROVE  ServiceInv'
<1>1. PICK fd \in Accept(backlog) :
        fd >= 0 /\ open' = open \cup {fd} /\ cur' = fd
  BY DEF AcceptNew
<1>2. TypeOK /\ backlog \in Nat /\ pc = "accept"
  BY AcceptorAssumption DEF ServiceInv, TypeOK, AcceptorTypeOK, AcceptNew
<1>3. backlog > 0 /\ fd \in Fd /\ fd \notin open
  BY <1>1, <1>2, AcceptResult
<1>4. TypeOK'
  BY <1>1, <1>2, <1>3, AcceptorAssumption
  DEF AcceptNew, TypeOK, SocketTypeOK, SessionTypeOK, AcceptorTypeOK
<1>5. ~sess[fd].sock
  BY <1>3 DEF ServiceInv, Owners
<1>6. Owners'
  BY <1>1, <1>2, <1>3 DEF ServiceInv, Owners, AcceptNew, TypeOK, SocketTypeOK
<1> QED
  BY <1>1, <1>2, <1>3, <1>4, <1>5, <1>6, AcceptorKeeps DEF AcceptNew, InMethod

(* A new session starts with an empty account.                             *)
LEMMA HandleStep ==
  ASSUME ServiceInv, Handle, UNCHANGED pending
  PROVE  ServiceInv'
<1> USE SocketAssumption, SessionAssumption DEF ServiceInv
<1>1. PICK k \in Kind : sess' = [sess EXCEPT ![cur] = NewSession(k)]
  BY DEF Handle
<1>2. pc = "accepted" /\ cur \in Fd /\ ~sess[cur].sock /\ pc' = "accept"
  BY DEF Handle, Control
<1>3. sess'[cur] = NewSession(k) /\ \A x \in Fd : x # cur => sess'[x] = sess[x]
  BY <1>1, <1>2 DEF TypeOK, SessionTypeOK
<1>4. NewSession(k) \in SessionRecord
  BY DEF NewSession, SessionRecord, Holder, Kind, MaxBuffer
<1>5. TypeOK'
  <2>1. SessionTypeOK'
    BY <1>1, <1>2, <1>4 DEF TypeOK, SessionTypeOK
  <2> QED
    BY <2>1 DEF Handle, TypeOK, SocketTypeOK, AcceptorTypeOK, socketVars,
                acceptorVars
<1>new. /\ sess'[cur].refs = {"query"} /\ sess'[cur].sock
        /\ sess'[cur].interest = "none"
  BY <1>3 DEF NewSession
<1>6. References'
  <2>1. Referred(sess'[cur])
    BY <1>new DEF Referred
  <2> QED
    BY <1>3, <2>1 DEF References
<1>7. OnStack'
  BY <1>2, <1>3, <1>new DEF OnStack, InMethod
<1>8. Control'
  BY <1>2 DEF Control, InMethod
<1>9. Bytes'
  <2> SUFFICES ASSUME NEW x \in Fd PROVE Counted(x)'
    BY DEF Bytes
  <2>1. Counted(x) /\ ~Ending(x) /\ conn'[x] = conn[x] /\ ~Ending(x)'
    BY <1>2 DEF Handle, socketVars, Bytes, Ending
  <2>2. CASE x = cur
    BY <1>2, <1>3, <2>1, <2>2 DEF Counted, NewSession, NoConn, Kind
  <2>3. CASE x # cur
    BY <1>3, <2>1, <2>3 DEF Counted
  <2> QED
    BY <2>2, <2>3
<1>10. Owners'
  <2>1. open' = open /\ open \subseteq Fd
    BY DEF Handle, socketVars, TypeOK, SocketTypeOK
  <2>2. sess'[cur].sock
    BY <1>3 DEF NewSession
  <2> QED
    BY <1>2, <1>3, <2>1, <2>2 DEF Owners
<1> QED
  BY <1>5, <1>6, <1>7, <1>8, <1>9, <1>10

(* The descriptor stays open unless a socket has taken it over.            *)
LEMMA HandleThrowStep ==
  ASSUME ServiceInv, HandleThrow, UNCHANGED pending
  PROVE  ServiceInv'
<1>1. /\ pc = "accepted" /\ cur \in Fd /\ ~sess[cur].sock
      /\ pc' = "unwind" /\ cur' = cur /\ TypeOK
      /\ conn[cur] = NoConn
  BY DEF ServiceInv, HandleThrow, Control, Bytes, Counted
<1>2. UNCHANGED conn
  BY <1>1 DEF HandleThrow, Close, socketVars, TypeOK, SocketTypeOK
<1>3. \/ open' = open
      \/ ~NoneTakenOver /\ open' = open \ {cur}
  <2>1. PICK taken \in TakenOver :
          IF taken THEN Close(cur) ELSE UNCHANGED socketVars
    BY DEF HandleThrow
  <2>2. CASE taken
    BY <2>1, <2>2 DEF NoneTakenOver, Close
  <2>3. CASE ~taken
    BY <2>1, <2>3 DEF socketVars
  <2> QED
    BY <2>2, <2>3
<1>4. TypeOK'
  BY <1>1, <1>2, <1>3
  DEF HandleThrow, TypeOK, SocketTypeOK, SessionTypeOK, AcceptorTypeOK,
      acceptorVars
<1>5. Owners'
  <2>1. sess' = sess
    BY DEF HandleThrow
  <2>2. CASE open' = open
    BY <1>1, <2>1, <2>2 DEF ServiceInv, Owners
  <2>3. CASE ~NoneTakenOver /\ open' = open \ {cur}
    BY <1>1, <2>1, <2>3 DEF ServiceInv, Owners
  <2> QED
    BY <1>3, <2>2, <2>3
<1> QED
  BY <1>1, <1>2, <1>4, <1>5, AcceptorKeeps DEF HandleThrow, InMethod

(* The guard closes what no session owns.                                  *)
LEMMA GuardCloseStep ==
  ASSUME ServiceInv, GuardClose, UNCHANGED pending
  PROVE  ServiceInv'
<1>1. /\ pc = "unwind" /\ cur \in Fd /\ ~sess[cur].sock
      /\ pc' \in {"main", "terminated"} /\ TypeOK
      /\ conn[cur] = NoConn /\ open' = open \ {cur}
  BY DEF ServiceInv, GuardClose, Close, Control, Bytes, Counted
<1>2. UNCHANGED conn
  BY <1>1 DEF GuardClose, Close, TypeOK, SocketTypeOK
<1>3. TypeOK'
  BY <1>1, <1>2
  DEF GuardClose, TypeOK, SocketTypeOK, SessionTypeOK, AcceptorTypeOK,
      acceptorVars
<1>4. Owners'
  <2>1. sess' = sess /\ open \subseteq Fd
    BY <1>1 DEF GuardClose, TypeOK, SocketTypeOK
  <2> QED
    BY <1>1, <2>1 DEF ServiceInv, Owners
<1> QED
  BY <1>1, <1>2, <1>3, <1>4, AcceptorKeeps DEF GuardClose, InMethod

(* The steps of the acceptor that neither open nor close a descriptor.     *)
LEMMA AcceptorRest ==
  ASSUME ServiceInv, UNCHANGED pending,
         (pc = "accept" /\ Connect) \/ RunEvent \/ AcceptDone \/ AcceptThrow
  PROVE  ServiceInv'
<1>1. /\ UNCHANGED <<open, conn, sess, cur, ret>>
      /\ pc \in {"accept", "dispatch"}
      /\ pc' \in {"accept", "dispatch", "main"}
  BY DEF Connect, RunEvent, AcceptDone, AcceptThrow, socketVars, control
<1>2. AcceptorTypeOK'
  <2>1. backlog \in 0..MaxBacklog /\ ready \in BOOLEAN
    BY DEF ServiceInv, TypeOK, AcceptorTypeOK
  <2>2. backlog' \in 0..MaxBacklog
    BY <2>1, AcceptorAssumption
    DEF Connect, RunEvent, AcceptDone, AcceptThrow, acceptorVars
  <2>3. ready' = ready \/ ready' = FALSE
    BY DEF Connect, RunEvent, AcceptDone, AcceptThrow, acceptorVars
  <2> QED
    BY <2>1, <2>2, <2>3 DEF AcceptorTypeOK
<1>3. TypeOK'
  BY <1>1, <1>2 DEF ServiceInv, TypeOK, SocketTypeOK, SessionTypeOK
<1>4. Owners'
  BY <1>1 DEF ServiceInv, Owners
<1> QED
  BY <1>1, <1>3, <1>4, AcceptorKeeps DEF InMethod

(* An event is handed to a session that has a handler, and its run() is    *)
(* called, with that event or with none.                                   *)
LEMMA LoopStep ==
  ASSUME ServiceInv, Loop
  PROVE  ServiceInv'
<1> USE DEF ServiceInv
<1>1. /\ UNCHANGED <<open, conn, sess>>
      /\ ~InMethod /\ pc \notin {"accepted", "unwind"}
      /\ pc' \in {"dispatch", "tasks", "wait", "main", "run", "rearm"}
  BY DEF Loop, RunEnter, DispatchReturn, RunReturn, Wait, Event, RunWithout,
         InMethod, socketVars
<1>2. pc' \in {"run", "rearm"} => cur' \in Fd /\ ret' = "dispatch"
                     /\ "handler" \in sess[cur'].refs
  BY DEF Loop, RunEnter, DispatchReturn, RunReturn, Wait, Event, RunWithout
<1>3. cur' \in Fd \cup {NoFd} /\ ret' \in {"dispatch", "tasks", None}
  BY <1>2 DEF Loop, RunEnter, DispatchReturn, RunReturn, Wait, Event, TypeOK
<1>4. AcceptorTypeOK'
  <2>1. backlog' = backlog
    BY DEF Loop, RunEnter, DispatchReturn, RunReturn, Wait, Event,
           acceptorVars
  <2>2. ready' = ready \/ ready' \in BOOLEAN
    BY DEF Loop, RunEnter, DispatchReturn, RunReturn, Wait, Event,
           acceptorVars
  <2> QED
    BY <2>1, <2>2 DEF TypeOK, AcceptorTypeOK
<1>5. pending' \subseteq Fd
  BY DEF Loop, RunEnter, DispatchReturn, RunReturn, Wait, Event, TypeOK
<1>6. TypeOK'
  BY <1>1, <1>3, <1>4, <1>5 DEF TypeOK, SocketTypeOK, SessionTypeOK
<1>7. References'
  BY <1>1 DEF References
<1>8. OnStack'
  BY <1>1 DEF OnStack, InMethod
<1>9. Control'
  BY <1>1, <1>2 DEF Control, InMethod
<1>10. Bytes'
  BY <1>1 DEF Bytes, Counted, Ending, InMethod
<1>11. Owners'
  BY <1>1 DEF Owners
<1> QED
  BY <1>6, <1>7, <1>8, <1>9, <1>10, <1>11

-----------------------------------------------------------------------------
(* The invariant holds initially.                                          *)
LEMMA ServiceInit == Init => ServiceInv
<1> SUFFICES ASSUME Init PROVE ServiceInv
  OBVIOUS
<1> USE DEF Init, SocketInit, SessionInit, AcceptorInit
<1>1. TypeOK
  <2>1. SocketTypeOK
    BY SocketAssumption DEF SocketTypeOK, Conn, NoConn
  <2>2. SessionTypeOK
    BY NoSessionType DEF SessionTypeOK
  <2>3. backlog \in 0..MaxBacklog
    BY AcceptorAssumption
  <2>4. AcceptorTypeOK
    BY <2>3 DEF AcceptorTypeOK
  <2> QED
    BY <2>1, <2>2, <2>4 DEF TypeOK, None
<1>2. References /\ OnStack
  BY DEF References, Referred, OnStack, NoSession
<1>3. Control
  BY DEF Control, InMethod
<1>4. Bytes
  BY DEF Bytes, Counted, NoSession
<1>5. Owners
  BY DEF Owners, NoSession
<1> QED
  BY <1>1, <1>2, <1>3, <1>4, <1>5 DEF ServiceInv

(* The invariant is inductive.                                             *)
LEMMA ServiceNext == ServiceInv /\ [Next]_vars => ServiceInv'
<1> SUFFICES ASSUME ServiceInv, [Next]_vars PROVE ServiceInv'
  OBVIOUS
<1>1. CASE Loop
  BY <1>1, LoopStep
<1>2. CASE SessionStep
  BY <1>2, AnswerStep, FireStep, StartStep, StartThrowStep, RearmStep,
     EchoReadStep, EchoWriteStep, DaytimeRunStep, ShutdownStep, ResetStep,
     ReturnStep
  DEF SessionStep, Method
<1>3. CASE AcceptorStep
  BY <1>3, AcceptNewStep, HandleStep, HandleThrowStep, GuardCloseStep,
     AcceptorRest
  DEF AcceptorStep, AcceptorRun
<1>4. CASE PeerStep
  BY <1>4, PeerKeeps
<1>5. CASE UNCHANGED vars
  BY <1>5
  DEF vars, socketVars, control, acceptorVars, ServiceInv, TypeOK,
      SocketTypeOK, SessionTypeOK, AcceptorTypeOK, References, OnStack,
      Control, InMethod, Bytes, Counted, Ending, Owners
<1> QED
  BY <1>1, <1>2, <1>3, <1>4, <1>5 DEF Next

(* The invariant holds throughout.                                         *)
LEMMA ServiceInductive == Spec => []ServiceInv
BY ServiceInit, ServiceNext, PTL DEF Spec

(* Types of the services' state: buffers are never filled beyond what they *)
(* hold, counts of bytes stay within what was sent.                        *)
THEOREM ServiceTypes == Spec => []TypeOK
<1>1. ServiceInv => TypeOK
  BY DEF ServiceInv
<1> QED
  BY <1>1, ServiceInductive, PTL

(* Every open descriptor has exactly one owner, if handlers that throw     *)
(* leave the descriptor to the guard in acceptor::run().                   *)
THEOREM OwnersSafe ==
  ASSUME TakenOver = {FALSE}
  PROVE  Spec => []DescriptorsOwned
<1>1. ServiceInv => DescriptorsOwned
  <2> SUFFICES ASSUME ServiceInv PROVE DescriptorsOwned
    OBVIOUS
  <2>1. /\ \A fd \in Fd : sess[fd].sock => fd \in open
        /\ \A fd \in open :
             sess[fd].sock \/ (pc \in {"accepted", "unwind"} /\ fd = cur)
        /\ pc \in {"accepted", "unwind"} => cur \in open
    BY DEF ServiceInv, Owners, NoneTakenOver
  <2>2. open \subseteq Fd /\ (pc = "accepted" => ~sess[cur].sock)
    BY DEF ServiceInv, TypeOK, SocketTypeOK, Control
  <2> QED
    BY <2>1, <2>2 DEF DescriptorsOwned
<1> QED
  BY <1>1, ServiceInductive, PTL

(* Under the same condition the guard never closes a descriptor that is    *)
(* closed already: taking it over is the only way in which a handler that  *)
(* throws has it closed twice.                                             *)
THEOREM GuardSafe ==
  ASSUME TakenOver = {FALSE}
  PROVE  Spec => []GuardClosesOnce
<1>1. ServiceInv => GuardClosesOnce
  BY DEF ServiceInv, Owners, NoneTakenOver, GuardClosesOnce
<1> QED
  BY <1>1, ServiceInductive, PTL

(* Methods run on sessions that are alive and have their socket, though    *)
(* events, hangups included, come at any time and for any socket; and a    *)
(* session whose socket is gone is referred to by nobody but its caller.   *)
THEOREM CallsSafe == Spec => []CallsAreSafe
<1>1. ServiceInv => CallsAreSafe
  <2> SUFFICES ASSUME ServiceInv PROVE CallsAreSafe
    OBVIOUS
  <2>1. ASSUME pc \in {"start", "run", "rearm", "shutdown", "reset"}
        PROVE  sess[cur].refs # {} /\ sess[cur].sock
    BY <2>1 DEF ServiceInv, Control, InMethod, References, Referred
  <2>2. \A fd \in Fd : ~sess[fd].sock => sess[fd].refs \subseteq {"stack"}
    BY DEF ServiceInv, References, Referred
  <2> QED
    BY <2>1, <2>2 DEF CallsAreSafe
<1> QED
  BY <1>1, ServiceInductive, PTL

(* An echo session returns what it has read, and run() reads exactly when  *)
(* the buffer is empty, whatever the sizes of buffers, reads and writes.   *)
THEOREM EchoSafe == Spec => []EchoFaithful
<1>1. ServiceInv => EchoFaithful
  <2> SUFFICES ASSUME ServiceInv PROVE EchoFaithful
    OBVIOUS
  <2>1. ASSUME pc = "run"
        PROVE  sess[cur].interest = "readable" <=> sess[cur].buf = 0
    BY <2>1, RunFacts DEF Counted, SessionRecord, Kind
  <2> QED
    BY <2>1 DEF ServiceInv, Bytes, Counted, EchoFaithful
<1> QED
  BY <1>1, ServiceInductive, PTL
=============================================================================
