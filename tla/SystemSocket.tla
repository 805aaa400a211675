---------------------------- MODULE SystemSocket ----------------------------
(***************************************************************************)
(* Sockets as the library sees them, include/ioxx/socket.hpp, and the      *)
(* wrapper of every system call, throw_errno_if() of error.hpp.            *)
(*                                                                         *)
(* A system call returns a number, or minus the errno it fails with.  What *)
(* it may return depends on the kernel's side of the socket, which is      *)
(* external: the descriptors in use, and for each of them what its peer    *)
(* has sent and whether the peer is still there.  Bytes are counted.       *)
(***************************************************************************)
EXTENDS Integers

CONSTANTS
  Fd,           \* descriptors that accept(2) may return
  MaxData       \* bound: how much a peer sends on a connection

ASSUME SocketAssumption == Fd \subseteq Nat /\ MaxData \in Nat

VARIABLES
  open,         \* external: the descriptors that are open
  conn          \* external: the connection of every descriptor

socketVars == <<open, conn>>

(* Connections: how much the peer has sent, how much of that has not been  *)
(* read, and whether the peer is there, has closed, or has reset.          *)
Conn == [sent : 0..MaxData, inbox : 0..MaxData,
         peer : {"there", "closed", "reset"}]

NoConn == [sent |-> 0, inbox |-> 0, peer |-> "there"]

SocketInit ==
  /\ open = {}
  /\ conn = [fd \in Fd |-> NoConn]

SocketTypeOK ==
  /\ open \subseteq Fd
  /\ conn \in [Fd -> Conn]

-----------------------------------------------------------------------------
(* Errors *)

EINTR == 4
EAGAIN == 11
EINVAL == 22
EMFILE == 24
ECONNABORTED == 103
ECONNRESET == 104

(* What a wrapper yields when it is left by a system_error. *)
Throw == -1000

(* The predicates are the sets of results they call failures: that of      *)
(* system_socket::not_ewould_block, and that of throw_errno_if_minus1().   *)
NotEwouldBlock == {r \in Int : r < 0 /\ r # -EAGAIN}

Minus1 == {r \in Int : r < 0}

(* throw_errno_if(): failures are thrown and other results returned.  A    *)
(* call that a signal interrupts is repeated, so that the results are      *)
(* those of the last call; -EINTR is one of them when the call and its     *)
(* five repetitions are all interrupted.                                   *)
ThrowErrnoIf(failures, results) ==
  {IF r \in failures THEN Throw ELSE r : r \in results}

-----------------------------------------------------------------------------
(* Calls *)

Smaller(m, n) == IF m < n THEN m ELSE n

(* read(): what has arrived, up to size; 0 is the end of input, and        *)
(* -EAGAIN leaves the buffer empty.                                        *)
Read(fd, size) ==
  ThrowErrnoIf(NotEwouldBlock,
    {-EINTR} \cup
    (IF conn[fd].peer = "reset" THEN {-ECONNRESET}
     ELSE IF conn[fd].inbox > 0 THEN 1..Smaller(size, conn[fd].inbox)
     ELSE IF conn[fd].peer = "closed" THEN {0} ELSE {-EAGAIN}))

(* write() and send_to(), of len bytes.  Callers are prepared for 0. *)
Write(fd, len) ==
  ThrowErrnoIf(NotEwouldBlock,
    {-EINTR} \cup
    (IF conn[fd].peer = "reset" THEN {-ECONNRESET} ELSE {-EAGAIN} \cup 0..len))

(* accept(), with n connections waiting. *)
Accept(n) ==
  ThrowErrnoIf(NotEwouldBlock,
    {-EINTR} \cup
    (IF n = 0 THEN {-EAGAIN}
     ELSE {-ECONNABORTED} \cup (IF open = Fd THEN {-EMFILE} ELSE Fd \ open)))

(* set_nonblocking(), set_linger_timeout(); reuse_bind_address(), bind(),  *)
(* listen() and create().                                                  *)
Configure == ThrowErrnoIf(Minus1, {0, -EINVAL})

(* ~system_socket() of an owner of fd, which is open.  Accepted sockets do *)
(* not linger, so that close(2) does not block and is not interrupted.     *)
Close(fd) ==
  /\ open' = open \ {fd}
  /\ conn' = [conn EXCEPT ![fd] = NoConn]

-----------------------------------------------------------------------------
(* Peers *)

PeerSend(fd) ==
  /\ fd \in open /\ conn[fd].peer = "there" /\ conn[fd].sent < MaxData
  /\ conn' = [conn EXCEPT ![fd].sent = @ + 1, ![fd].inbox = @ + 1]
  /\ UNCHANGED open

PeerClose(fd) ==
  /\ fd \in open /\ conn[fd].peer = "there"
  /\ conn' = [conn EXCEPT ![fd].peer = "closed"]
  /\ UNCHANGED open

PeerReset(fd) ==
  /\ fd \in open /\ conn[fd].peer # "reset"
  /\ conn' = [conn EXCEPT ![fd].peer = "reset"]
  /\ UNCHANGED open
=============================================================================
