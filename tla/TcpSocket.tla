------------------------------ MODULE TcpSocket ------------------------------
(***************************************************************************)
(* External: one established TCP socket of the kernel with its             *)
(* edge-triggered epoll registration, and the client at the other end, as  *)
(* far as the system calls of nsock.cpp and npoll.cpp depend on them.      *)
(* Bytes are numbered in the order the client sends them, so the receive   *)
(* queue is the interval copied+1 .. arrived.                              *)
(***************************************************************************)
EXTENDS Integers, Sequences

CONSTANTS
  MaxBytes,         \* bound: bytes the client sends
  TxSpace           \* size of the kernel's send queue

ASSUME SocketAssumption == MaxBytes \in Nat /\ TxSpace \in Nat \ {0}

Errors == {"none", "ECONNRESET", "EPIPE"}

VARIABLES
  fdOpen,           \* the process holds the descriptor
  arrived,          \* bytes the client sent so far
  copied,           \* bytes recv() has taken out of the receive queue
  fin,              \* the client has sent its FIN
  reset,            \* the client has reset the connection
  soError,          \* the pending socket error (sk_err)
  txq,              \* bytes send() accepted that the client has not read
  wire,             \* history: every byte send() accepted, in order
  noSpace,          \* a writer found the send queue full (SOCK_NOSPACE)
  watched,          \* registered with epoll (EPOLLET|EPOLLIN|EPOLLOUT)
  armed             \* on epoll's ready list

socketVars == <<fdOpen, arrived, copied, fin, reset, soError, txq, wire,
                noSpace, watched, armed>>

SocketTypeOK ==
  /\ fdOpen \in BOOLEAN /\ fin \in BOOLEAN /\ reset \in BOOLEAN
  /\ noSpace \in BOOLEAN /\ watched \in BOOLEAN /\ armed \in BOOLEAN
  /\ arrived \in 0 .. MaxBytes
  /\ copied \in 0 .. arrived
  /\ soError \in Errors
  /\ txq \in Seq(1 .. MaxBytes)
  /\ Len(txq) <= TxSpace
  /\ wire \in Seq(1 .. MaxBytes)

(* The handshake is done: the connection waits in the listen backlog.      *)
SocketInit ==
  /\ fdOpen = TRUE
  /\ arrived = 0
  /\ copied = 0
  /\ fin = FALSE
  /\ reset = FALSE
  /\ soError = "none"
  /\ txq = <<>>
  /\ wire = <<>>
  /\ noSpace = FALSE
  /\ watched = FALSE
  /\ armed = FALSE

(* The events epoll_wait would report now.                                 *)
ErrEvent == soError # "none"
InEvent == copied < arrived \/ fin \/ reset
OutEvent == Len(txq) < TxSpace \/ reset

-----------------------------------------------------------------------------
(* The client.  Each arrival is an edge: it puts a watched descriptor on   *)
(* the ready list.                                                         *)

Edge == armed' = (armed \/ watched)

ClientSends ==
  /\ fdOpen /\ ~fin /\ ~reset
  /\ arrived < MaxBytes
  /\ arrived' = arrived + 1
  /\ Edge
  /\ UNCHANGED <<fdOpen, copied, fin, reset, soError, txq, wire, noSpace,
                 watched>>

ClientFinishes ==
  /\ fdOpen /\ ~fin /\ ~reset
  /\ fin' = TRUE
  /\ Edge
  /\ UNCHANGED <<fdOpen, arrived, copied, reset, soError, txq, wire, noSpace,
                 watched>>

(* A reset drops what was still to be sent; what had arrived stays         *)
(* readable.  After the client's FIN the kernel records EPIPE.             *)
ClientResets ==
  /\ fdOpen /\ ~reset
  /\ reset' = TRUE
  /\ soError' = IF fin THEN "EPIPE" ELSE "ECONNRESET"
  /\ txq' = <<>>
  /\ Edge
  /\ UNCHANGED <<fdOpen, arrived, copied, fin, wire, noSpace, watched>>

(* Reading is an edge for the writer only if a write found no space.       *)
ClientReads ==
  /\ fdOpen
  /\ txq # <<>>
  /\ txq' = Tail(txq)
  /\ noSpace' = FALSE
  /\ armed' = (armed \/ (watched /\ noSpace))
  /\ UNCHANGED <<fdOpen, arrived, copied, fin, reset, soError, wire, watched>>

Client == ClientSends \/ ClientFinishes \/ ClientResets \/ ClientReads

-----------------------------------------------------------------------------
(* The outcomes of the system calls on the open descriptor.  None of them  *)
(* says what happens to the rest of the socket.                            *)

(* recv(): data first, then the pending error, then end of stream.         *)
RecvHasData == copied < arrived
RecvHasError == copied = arrived /\ soError # "none"
RecvAtEnd == copied = arrived /\ soError = "none" /\ (fin \/ reset)
RecvWouldBlock == copied = arrived /\ soError = "none" /\ ~fin /\ ~reset

(* send(): a pending ECONNRESET is answered once; any other write to a     *)
(* reset connection raises SIGPIPE, since the flags are 0 and the program  *)
(* leaves the signal at its default.                                       *)
SendHasError == soError = "ECONNRESET"
SendRaisesSigpipe == reset /\ soError # "ECONNRESET"
SendWouldBlock == ~reset /\ Len(txq) = TxSpace
SendHasSpace == ~reset /\ Len(txq) < TxSpace

=============================================================================
