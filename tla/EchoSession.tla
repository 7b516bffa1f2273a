----------------------------- MODULE EchoSession -----------------------------
(***************************************************************************)
(* One connection of echoServer from accept to close: the NSock object     *)
(* (nsock.cpp), the callbacks ConnServer installs on it (echoServer.cpp),  *)
(* and the calls into it of the event loop, which is taken to go on: what  *)
(* the process's exit does is EchoServer's.  The server is one thread; a step   *)
(* runs from one system call to the next, because the client and the       *)
(* kernel move in between.  pc names the function that runs:               *)
(*                                                                         *)
(*   "listen"   the connection is in the backlog, onAcceptCb has not run   *)
(*   "loop"     in waitForEvents                                           *)
(*   "recv"     at the top of recvFromSocket's loop                        *)
(*   "send"     at the top of NSock::send's loop, called by onSocketRecv   *)
(*   "write"    at the top of writeToSocket's loop                         *)
(*   "aborted"  an assert failed     "killed"  the process got SIGPIPE     *)
(***************************************************************************)
EXTENDS TcpSocket, RingFifo, Functions

CONSTANT RecvBufSize        \* sizeof(recvBuf); Size is the send buffer's

ASSUME RecvBufAssumption == RecvBufSize \in Nat \ {0}

NoFd == -1
ConnFd == 4

VARIABLES
  pc,
  recvCaller,       \* who called recvFromSocket: onConnect, poll, onDrain
  writeCaller,      \* who called writeToSocket: send, poll
  pollOut,          \* EPOLLOUT was in the revents being handled
  written,          \* local of send
  sockfd, onRecv, onError, onDrain,     \* fields of NSock; TRUE: not null
  recvBuf, recvOffset, recvLen,         \* the receive buffer
  queue, start,     \* sendBuffer: its bytes, and its dataStart
  stat,             \* the SockStat counters the connection moves
  inConnections,    \* the socket is in mConnections
  refused,          \* history: epoll_ctl did not accept the descriptor
  mRecvPaused,
  lost              \* history: bytes taken out of sendBuffer, never sent

callVars == <<recvCaller, writeCaller, pollOut, written>>
hookVars == <<onRecv, onError, onDrain, mRecvPaused>>
recvVars == <<recvBuf, recvOffset, recvLen>>
sendVars == <<queue, start, lost>>
ownVars == <<sockfd, inConnections, refused>>
serverVars == <<pc, callVars, hookVars, recvVars, sendVars, ownVars, stat>>
vars == <<socketVars, serverVars>>

Stats == [recvBytes : Nat, sendBytes : Nat, recvErrorNr : Nat, sysErrorNr : Nat]

Init ==
  /\ SocketInit
  /\ pc = "listen"
  /\ recvCaller = "onConnect" /\ writeCaller = "send"
  /\ pollOut = FALSE /\ written = 0
  /\ sockfd = NoFd /\ inConnections = FALSE /\ refused = FALSE
  /\ onRecv = FALSE /\ onError = FALSE /\ onDrain = FALSE
  /\ mRecvPaused = FALSE
  /\ recvBuf = [i \in 0 .. RecvBufSize - 1 |-> 0]
  /\ recvOffset = 0 /\ recvLen = 0
  /\ queue = <<>> /\ start = 0 /\ lost = {}
  /\ stat = [recvBytes |-> 0, sendBytes |-> 0, recvErrorNr |-> 0,
             sysErrorNr |-> 0]

-----------------------------------------------------------------------------
(* Control that several steps share.                                       *)

(* end(): nothing on a closed NSock; else the descriptor leaves epoll and  *)
(* is closed.                                                              *)
EndIf(called) ==
  /\ sockfd' = IF called THEN NoFd ELSE sockfd
  /\ fdOpen' = (fdOpen /\ ~called)
  /\ watched' = (watched /\ ~called)
  /\ refused' = refused

(* Faulty variant: the error callback forgets mConnections.                *)
OnErrorKeepsOwner ==
  /\ EndIf(onError)
  /\ UNCHANGED inConnections

(* onError, if it is set, is ConnServer's: it erases the socket from       *)
(* mConnections and ends it.                                               *)
OnError ==
  /\ EndIf(onError)
  /\ inConnections' = (inConnections /\ ~onError)

HandleError ==
  /\ OnError
  /\ armed' = (armed /\ ~onError)

(* The process ends and the kernel closes its descriptors.                 *)
Die(how) ==
  /\ pc' = how
  /\ fdOpen' = FALSE
  /\ watched' = FALSE
  /\ armed' = FALSE

(* recvFromSocket returns: onConnect goes on to set the other callbacks,   *)
(* the poll callback to its EPOLLOUT branch, onSocketDrain to the loop.    *)
ReturnFromRecv ==
  /\ onError' = (onError \/ recvCaller = "onConnect")
  /\ onDrain' = (onDrain \/ recvCaller = "onConnect")
  /\ pc' = IF recvCaller = "poll" /\ pollOut THEN "write" ELSE "loop"
  /\ writeCaller' = "poll"
  /\ UNCHANGED <<recvCaller, pollOut>>

(* writeToSocket returns.  send ignores the result; the poll callback      *)
(* calls onSocketDrain when drained, which re-arms a paused receive.       *)
ReturnFromWrite(drained) ==
  LET rearm == writeCaller = "poll" /\ drained /\ onDrain /\ mRecvPaused IN
  /\ pc' = IF writeCaller = "send" THEN "send"
           ELSE IF rearm THEN "recv" ELSE "loop"
  /\ recvCaller' = IF rearm THEN "onDrain" ELSE recvCaller
  /\ mRecvPaused' = (mRecvPaused /\ ~rearm)
  /\ onRecv' = (onRecv \/ rearm)
  /\ UNCHANGED <<writeCaller, pollOut, written, onError, onDrain>>

-----------------------------------------------------------------------------
(* onAcceptCb with connection set up: monitorSocket adds the descriptor    *)
(* to epoll, which reports what is ready already, or refuses it, of which  *)
(* npollAddFd says nothing; onConnect then calls setRecvFn, and so         *)
(* recvFromSocket, before it sets the error callback.                      *)
Accept(accepted) ==
  /\ pc = "listen"
  /\ pc' = "recv"
  /\ recvCaller' = "onConnect"
  /\ sockfd' = ConnFd
  /\ watched' = accepted /\ refused' = ~accepted
  /\ armed' = (accepted /\ (ErrEvent \/ InEvent \/ OutEvent))
  /\ inConnections' = TRUE
  /\ onRecv' = TRUE
  /\ UNCHANGED <<fdOpen, arrived, copied, fin, reset, soError, txq, wire,
                 noSpace, writeCaller, pollOut, written, onError, onDrain,
                 mRecvPaused, recvVars, sendVars, stat>>

(* getsockname or setnonblocking failed: the descriptor is closed again.   *)
AcceptFails ==
  /\ pc = "listen"
  /\ pc' = "loop"
  /\ fdOpen' = FALSE
  /\ UNCHANGED <<arrived, copied, fin, reset, soError, txq, wire, noSpace,
                 watched, armed, callVars, hookVars, recvVars, sendVars,
                 ownVars, stat>>

(* The serverLoop that accepted it ends.  mConnections is cleared, which   *)
(* destroys, and so ends, a socket whose callback epoll does not hold; one *)
(* that it holds lives on.  With the listening socket goes what waits in   *)
(* its backlog.                                                            *)
LoopEnds ==
  /\ pc = "listen" \/ (pc = "loop" /\ inConnections)
  /\ pc' = "loop"
  /\ inConnections' = FALSE
  /\ sockfd' = IF watched THEN sockfd ELSE NoFd
  /\ fdOpen' = watched
  /\ UNCHANGED <<arrived, copied, fin, reset, soError, txq, wire, noSpace,
                 watched, armed, callVars, hookVars, recvVars, sendVars,
                 refused, stat>>

(* waitForEvents gets an event for the descriptor and runs the callback of *)
(* monitorSocket with the events as they are now.                          *)
PollError ==
  /\ pc = "loop" /\ armed
  /\ ErrEvent
  /\ stat' = [stat EXCEPT !.sysErrorNr = @ + 1]
  /\ OnError
  /\ armed' = FALSE
  /\ UNCHANGED <<arrived, copied, fin, reset, soError, txq, wire, noSpace,
                 pc, callVars, hookVars, recvVars, sendVars>>

(* Faulty variant: EPOLLIN is looked at only without EPOLLOUT.             *)
PollInLast ==
  /\ pc = "loop" /\ armed
  /\ ~ErrEvent /\ InEvent
  /\ armed' = FALSE
  /\ pc' = IF OutEvent THEN "write" ELSE "recv"
  /\ recvCaller' = "poll"
  /\ writeCaller' = "poll"
  /\ pollOut' = FALSE
  /\ noSpace' = (noSpace \/ ~OutEvent)
  /\ UNCHANGED <<fdOpen, arrived, copied, fin, reset, soError, txq, wire,
                 watched, written, hookVars, recvVars, sendVars, ownVars, stat>>

(* Input: recvFromSocket first, then writeToSocket if EPOLLOUT is set too. *)
PollIn ==
  /\ pc = "loop" /\ armed
  /\ ~ErrEvent /\ InEvent
  /\ armed' = FALSE
  /\ pc' = "recv"
  /\ recvCaller' = "poll"
  /\ pollOut' = OutEvent
  /\ noSpace' = (noSpace \/ ~OutEvent)
  /\ UNCHANGED <<fdOpen, arrived, copied, fin, reset, soError, txq, wire,
                 watched, writeCaller, written, hookVars, recvVars, sendVars,
                 ownVars, stat>>

(* Faulty variant: writeToSocket is left to send.                          *)
PollOutIgnored ==
  /\ pc = "loop" /\ armed
  /\ ~ErrEvent /\ ~InEvent /\ OutEvent
  /\ armed' = FALSE
  /\ UNCHANGED <<fdOpen, arrived, copied, fin, reset, soError, txq, wire,
                 noSpace, watched, serverVars>>

PollOut ==
  /\ pc = "loop" /\ armed
  /\ ~ErrEvent /\ ~InEvent /\ OutEvent
  /\ armed' = FALSE
  /\ pc' = "write"
  /\ writeCaller' = "poll"
  /\ UNCHANGED <<fdOpen, arrived, copied, fin, reset, soError, txq, wire,
                 noSpace, watched, recvCaller, pollOut, written, hookVars,
                 recvVars, sendVars, ownVars, stat>>

(* What armed the descriptor was handled meanwhile: epoll drops it from    *)
(* the ready list, and asking for EPOLLOUT in vain marks the socket.       *)
PollNothing ==
  /\ pc = "loop" /\ armed
  /\ ~ErrEvent /\ ~InEvent /\ ~OutEvent
  /\ armed' = FALSE
  /\ noSpace' = TRUE
  /\ UNCHANGED <<fdOpen, arrived, copied, fin, reset, soError, txq, wire,
                 watched, serverVars>>

-----------------------------------------------------------------------------
(* recvFromSocket.                                                         *)

RecvIdle == pc = "recv" /\ onRecv /\ recvLen = 0

(* recvBuf holds data: onRecv is called, which is onSocketRecv, and that   *)
(* calls send on the same bytes.                                           *)
Deliver ==
  /\ pc = "recv" /\ onRecv /\ recvLen > 0
  /\ recvOffset + recvLen < RecvBufSize
  /\ pc' = "send"
  /\ written' = 0
  /\ UNCHANGED <<socketVars, recvCaller, writeCaller, pollOut, hookVars,
                 recvVars, sendVars, ownVars, stat>>

(* assert(recvOffset + recvLen < sizeof(recvBuf)) fails.                   *)
DeliverAborts ==
  /\ pc = "recv" /\ onRecv /\ recvLen > 0
  /\ recvOffset + recvLen >= RecvBufSize
  /\ Die("aborted")
  /\ UNCHANGED <<arrived, copied, fin, reset, soError, txq, wire, noSpace,
                 callVars, hookVars, recvVars, sendVars, ownVars, stat>>

RecvData ==
  /\ RecvIdle /\ sockfd # NoFd
  /\ RecvHasData
  /\ LET len == Least(RecvBufSize, arrived - copied) IN
       /\ recvBuf' = [i \in 0 .. RecvBufSize - 1 |->
                        IF i < len THEN copied + i + 1 ELSE recvBuf[i]]
       /\ recvLen' = len
       /\ copied' = copied + len
       /\ stat' = [stat EXCEPT !.recvBytes = @ + len]
  /\ UNCHANGED <<fdOpen, arrived, fin, reset, soError, txq, wire, noSpace,
                 watched, armed, pc, callVars, hookVars, recvOffset, sendVars,
                 ownVars>>

(* The receive is paused, or recv answers EAGAIN.                          *)
RecvStops ==
  /\ pc = "recv"
  /\ onRecv => recvLen = 0 /\ sockfd # NoFd /\ RecvWouldBlock
  /\ ReturnFromRecv
  /\ UNCHANGED <<socketVars, written, onRecv, mRecvPaused, recvVars, sendVars, ownVars,
                 stat>>

(* recv answers another error: the socket's, or EBADF once it is closed.   *)
RecvFails ==
  /\ RecvIdle
  /\ sockfd = NoFd \/ RecvHasError
  /\ stat' = [stat EXCEPT !.recvErrorNr = @ + 1]
  /\ soError' = IF sockfd = NoFd THEN soError ELSE "none"
  /\ HandleError
  /\ ReturnFromRecv
  /\ UNCHANGED <<arrived, copied, fin, reset, txq, wire, noSpace, written,
                 onRecv, mRecvPaused, recvVars, sendVars>>

(* Faulty variant: the end of the stream is taken for "nothing to read".   *)
RecvEndsUnnoticed ==
  /\ RecvIdle /\ sockfd # NoFd
  /\ RecvAtEnd
  /\ ReturnFromRecv
  /\ UNCHANGED <<socketVars, written, onRecv, mRecvPaused, recvVars, sendVars,
                 ownVars, stat>>

(* recv answers 0: the peer closed.                                        *)
RecvEnds ==
  /\ RecvIdle /\ sockfd # NoFd
  /\ RecvAtEnd
  /\ HandleError
  /\ ReturnFromRecv
  /\ UNCHANGED <<arrived, copied, fin, reset, soError, txq, wire, noSpace,
                 written, onRecv, mRecvPaused, recvVars, sendVars, stat>>

-----------------------------------------------------------------------------
(* NSock::send, called by onSocketRecv with the unread part of recvBuf.    *)

Unsent == [i \in 1 .. recvLen - written |->
             recvBuf[recvOffset + written + i - 1]]

(* Faulty variants: send does not try to write what it queued; send takes  *)
(* everything for queued, whatever put answered.                           *)
SendPutUnwritten ==
  /\ pc = "send"
  /\ Accepts(queue, Unsent) > 0
  /\ queue' = Enqueue(queue, Unsent)
  /\ written' = written + Accepts(queue, Unsent)
  /\ UNCHANGED <<socketVars, pc, recvCaller, writeCaller, pollOut, hookVars,
                 recvVars, start, lost, ownVars, stat>>

SendPutWhole ==
  /\ pc = "send"
  /\ Accepts(queue, Unsent) > 0
  /\ queue' = Enqueue(queue, Unsent)
  /\ written' = recvLen
  /\ pc' = "write"
  /\ writeCaller' = "send"
  /\ UNCHANGED <<socketVars, recvCaller, pollOut, hookVars, recvVars, start,
                 lost, ownVars, stat>>

(* One round of send's loop: put what fits, then writeToSocket.            *)
SendPut ==
  /\ pc = "send"
  /\ Accepts(queue, Unsent) > 0
  /\ queue' = Enqueue(queue, Unsent)
  /\ written' = written + Accepts(queue, Unsent)
  /\ pc' = "write"
  /\ writeCaller' = "send"
  /\ UNCHANGED <<socketVars, recvCaller, pollOut, hookVars, recvVars, start,
                 lost, ownVars, stat>>

(* send returns: everything is queued, or put took nothing.  In the second *)
(* case onSocketRecv pauses the receive.  recvFromSocket then drops what   *)
(* was consumed, and goes on only if that was everything.                  *)
SendReturns ==
  /\ pc = "send"
  /\ Accepts(queue, Unsent) = 0
  /\ LET short == written < recvLen IN
       /\ onRecv' = (onRecv /\ ~short)
       /\ mRecvPaused' = (mRecvPaused \/ short)
       /\ recvLen' = recvLen - written
       /\ recvOffset' = IF short THEN (recvOffset + written) % RecvBufSize ELSE 0
       /\ IF short THEN ReturnFromRecv
          ELSE /\ pc' = "recv"
               /\ UNCHANGED <<recvCaller, writeCaller, pollOut, onError, onDrain>>
  /\ written' = 0
  /\ UNCHANGED <<socketVars, recvBuf, sendVars, ownVars, stat>>

-----------------------------------------------------------------------------
(* writeToSocket.  get takes the run out of sendBuffer before send() is    *)
(* tried, so whatever send() does not take is gone.                        *)

Run == Prefix(queue, RunLength(queue, start))

(* Faulty variant: the oldest byte may sit one past the last slot.         *)
TakeRunUnwrapped ==
  /\ queue' = Rest(queue, Len(Run))
  /\ start' = start + Len(Run)

TakeRun ==
  /\ queue' = Rest(queue, Len(Run))
  /\ start' = Advance(start, Len(Run))

WriteDrained ==
  /\ pc = "write"
  /\ queue = <<>>
  /\ ReturnFromWrite(TRUE)
  /\ UNCHANGED <<socketVars, recvVars, sendVars, ownVars, stat>>

WriteSome ==
  /\ pc = "write" /\ queue # <<>> /\ sockfd # NoFd
  /\ SendHasSpace
  /\ LET sent == Least(TxSpace - Len(txq), Len(Run)) IN
       /\ txq' = txq \o Prefix(Run, sent)
       /\ wire' = wire \o Prefix(Run, sent)
       /\ lost' = lost \cup {Run[i] : i \in sent + 1 .. Len(Run)}
       /\ noSpace' = (noSpace \/ sent < Len(Run))
       /\ stat' = [stat EXCEPT !.sendBytes = @ + sent]
  /\ TakeRun
  /\ UNCHANGED <<fdOpen, arrived, copied, fin, reset, soError, watched, armed,
                 pc, callVars, hookVars, recvVars, ownVars>>

(* Faulty variant: the run is queued again with put.                       *)
WriteStopsRequeues ==
  /\ pc = "write" /\ queue # <<>> /\ sockfd # NoFd
  /\ SendWouldBlock
  /\ noSpace' = TRUE
  /\ queue' = Rest(queue, Len(Run)) \o Run
  /\ start' = Advance(start, Len(Run))
  /\ ReturnFromWrite(FALSE)
  /\ UNCHANGED <<fdOpen, arrived, copied, fin, reset, soError, txq, wire,
                 watched, armed, recvVars, lost, ownVars, stat>>

(* send() answers EAGAIN.                                                  *)
WriteStops ==
  /\ pc = "write" /\ queue # <<>> /\ sockfd # NoFd
  /\ SendWouldBlock
  /\ noSpace' = TRUE
  /\ lost' = lost \cup {Run[i] : i \in 1 .. Len(Run)}
  /\ TakeRun
  /\ ReturnFromWrite(FALSE)
  /\ UNCHANGED <<fdOpen, arrived, copied, fin, reset, soError, txq, wire,
                 watched, armed, recvVars, ownVars, stat>>

(* Faulty variant: every failure of send() is taken for a full socket.      *)
WriteFailsUnnoticed ==
  /\ pc = "write" /\ queue # <<>>
  /\ sockfd = NoFd \/ SendHasError
  /\ soError' = IF sockfd = NoFd THEN soError ELSE "none"
  /\ lost' = lost \cup {Run[i] : i \in 1 .. Len(Run)}
  /\ TakeRun
  /\ ReturnFromWrite(FALSE)
  /\ UNCHANGED <<fdOpen, arrived, copied, fin, reset, txq, wire, noSpace,
                 watched, armed, recvVars, ownVars, stat>>

(* send() answers another error: ECONNRESET, or EBADF once closed.         *)
WriteFails ==
  /\ pc = "write" /\ queue # <<>>
  /\ sockfd = NoFd \/ SendHasError
  /\ soError' = IF sockfd = NoFd THEN soError ELSE "none"
  /\ lost' = lost \cup {Run[i] : i \in 1 .. Len(Run)}
  /\ TakeRun
  /\ HandleError
  /\ ReturnFromWrite(FALSE)
  /\ UNCHANGED <<arrived, copied, fin, reset, txq, wire, noSpace, recvVars,
                 stat>>

WriteKills ==
  /\ pc = "write" /\ queue # <<>> /\ sockfd # NoFd
  /\ SendRaisesSigpipe
  /\ lost' = lost \cup {Run[i] : i \in 1 .. Len(Run)}
  /\ TakeRun
  /\ Die("killed")
  /\ UNCHANGED <<arrived, copied, fin, reset, soError, txq, wire, noSpace,
                 callVars, hookVars, recvVars, ownVars, stat>>

-----------------------------------------------------------------------------
Server ==
  \/ (\E accepted \in BOOLEAN : Accept(accepted)) \/ AcceptFails
  \/ PollError \/ PollIn \/ PollOut \/ PollNothing
  \/ Deliver \/ DeliverAborts \/ RecvData \/ RecvStops \/ RecvFails \/ RecvEnds
  \/ SendPut \/ SendReturns
  \/ WriteDrained \/ WriteSome \/ WriteStops \/ WriteFails \/ WriteKills

Next ==
  \/ Server \/ LoopEnds
  \/ Client /\ UNCHANGED serverVars

Spec == Init /\ [][Next]_vars

(* The one thread of the server keeps running while it has something to do.*)
FairSpec == Spec /\ WF_vars(Server)

(* The client, moreover, keeps reading what it was sent.                   *)
ReadingSpec == FairSpec /\ WF_vars(ClientReads /\ UNCHANGED serverVars)

-----------------------------------------------------------------------------
(* The shape of the state.                                                 *)
TypeOK ==
  /\ SocketTypeOK
  /\ pc \in {"listen", "loop", "recv", "send", "write", "aborted", "killed"}
  /\ recvCaller \in {"onConnect", "poll", "onDrain"}
  /\ writeCaller \in {"send", "poll"}
  /\ pollOut \in BOOLEAN /\ inConnections \in BOOLEAN /\ refused \in BOOLEAN
  /\ onRecv \in BOOLEAN /\ onError \in BOOLEAN /\ onDrain \in BOOLEAN
  /\ mRecvPaused \in BOOLEAN
  /\ sockfd \in {NoFd, ConnFd}
  /\ recvBuf \in [0 .. RecvBufSize - 1 -> 0 .. MaxBytes]
  /\ recvLen \in 0 .. RecvBufSize
  /\ recvOffset \in 0 .. RecvBufSize - recvLen
  /\ written \in 0 .. recvLen
  /\ queue \in Seq(1 .. MaxBytes)
  /\ Len(queue) <= Size
  /\ start \in 0 .. Size - 1
  /\ lost \subseteq 1 .. MaxBytes
  /\ stat \in Stats

(* The bytes of the connection that are still on their way to the client,  *)
(* in the order the code will handle them: what send() accepted, the send  *)
(* buffer, and the part of the receive buffer send has not queued yet.     *)
Pipeline == wire \o queue \o Unsent

(* The bytes of the receive buffer, which are those send is given.         *)
Chunk == {recvBuf[i] : i \in recvOffset .. recvOffset + recvLen - 1}

Increasing(s) == \A i, j \in 1 .. Len(s) : i < j => s[i] < s[j]

(* Echoed bytes reach the socket in the order the client sent them and     *)
(* never twice, whatever writeToSocket loses on the way; the aliasing of   *)
(* recvBuf by the running send and the wrap of sendBuffer never mix them.  *)
EchoInOrder == Increasing(Pipeline)

(* Every byte recv() returned is at exactly one place: accepted by send(), *)
(* in sendBuffer, in recvBuf, or dropped by writeToSocket; and those still *)
(* on their way are in order, so that none is there twice.                 *)
EveryByteAccounted ==
  /\ EchoInOrder
  /\ Range(Pipeline) \cup lost = 1 .. copied
  /\ Range(Pipeline) \cap lost = {}

(* The throttle of onSocketRecv is dead code: get() removes a run before   *)
(* ::send is tried, so put always finds room, send never returns less than *)
(* it was given, and the server never pauses a receive.                    *)
NeverPaused ==
  /\ ~mRecvPaused
  /\ pc = "send" => Len(queue) < Size

(* Between two polls the records of a connection agree: NSock holds the    *)
(* descriptor while it is open, epoll watches it unless it refused it, and *)
(* mConnections or epoll's callback owns it.  So no descriptor leaks and   *)
(* no owner keeps a closed socket.                                         *)
OwnershipConsistent ==
  pc = "loop" =>
    /\ fdOpen = (sockfd # NoFd)
    /\ watched = (fdOpen /\ ~refused)
    /\ inConnections => fdOpen
    /\ fdOpen => inConnections \/ watched

(* What stays in sendBuffer when send returns is the rest of the very      *)
(* bytes send was given, of which writeToSocket has lost some before it:   *)
(* nothing that could still have arrived whole waits there, for end() to   *)
(* drop or for a drain that nobody awaits.                                 *)
OnlyRestOfLossStays ==
  /\ pc \in {"loop", "recv"} /\ queue # <<>> => Head(queue) - 1 \in lost
  /\ pc = "send" /\ written = recvLen /\ queue # <<>> =>
       Head(queue) - 1 \in lost \cap Chunk

(* test.js: the concatenation of what the client receives is a prefix of   *)
(* what it sent.                                                           *)
EchoIsPrefix == \A i \in 1 .. Len(wire) : wire[i] = i

(* recvFromSocket's assert on what recv() put into recvBuf.                *)
RecvBufAssert ==
  pc = "recv" /\ onRecv /\ recvLen > 0 => recvOffset + recvLen < RecvBufSize

(* Bytes can only vanish where ::send did not take a whole run: as long as *)
(* that has not happened the echo is exact, whatever the sizes of the      *)
(* buffers, the wraps and the order of reads and writes.                   *)
EchoExactUnlessLost == lost = {} => EchoIsPrefix

(* SIGPIPE.  A reset that meets the connection after setErrorFn is first   *)
(* answered as an error, which closes the socket, so that no later ::send  *)
(* reaches it.  Only a client that sent its FIN before the reset, or whose *)
(* reset falls into onConnect, takes the whole server down.                *)
SigpipeNeedsFin == pc = "killed" => fin \/ ~onError

(* What the client may rely on.                                            *)
Abstract == INSTANCE LossyEcho WITH open <- fdOpen, taken <- copied,
                                    echoed <- wire

(* The connection is such an echo: it is sent bytes already received, in   *)
(* order, none twice, none once the descriptor is closed, although the     *)
(* socket can be closed deep inside the calls that go on using it.         *)
EchoesInOrder == Abstract!Spec

(* Epoll announces an edge once.  When the loop waits and a connection it  *)
(* watches is not on epoll's ready list, nothing is left that only an      *)
(* event would move: no input, no end of stream, no error, and nothing in  *)
(* sendBuffer but what a full socket keeps there, whose next space is      *)
(* going to be announced because a write has asked for it.                 *)
NoEdgeMissed ==
  pc = "loop" /\ fdOpen /\ ~refused /\ ~armed =>
    /\ copied = arrived /\ ~fin /\ ~reset
    /\ queue # <<>> => noSpace /\ txq # <<>>

(* The connection as the event loop knows it.                              *)
Phase ==
  IF pc \in {"aborted", "killed"} THEN "dead"
  ELSE IF ~fdOpen THEN "gone"
  ELSE IF pc = "listen" THEN "queued"
  ELSE IF watched THEN "open" ELSE "unwatched"

(* The callback of its own event runs; onConnect is not such a callback.   *)
Handling ==
  /\ fdOpen
  /\ \/ pc \in {"recv", "send"} /\ recvCaller # "onConnect"
     \/ pc = "write" /\ (writeCaller = "poll" \/ recvCaller # "onConnect")

Part == INSTANCE Connection WITH
          phase <- Phase, hung <- fdOpen /\ (fin \/ reset),
          handling <- Handling

(* The callbacks keep their part towards the loop: one that returns with   *)
(* the socket open has seen every hang-up, or leaves it on the ready list; *)
(* one that closes it does so only because the client has gone.            *)
KeepsItsPart == Part!Spec

(* The receive loop misses no edge: what has arrived is read, or the       *)
(* connection goes down, unless epoll refused it.                          *)
BytesAreRead ==
  \A k \in 1 .. MaxBytes :
    (arrived >= k) ~> (copied >= k \/ ~fdOpen \/ refused)

(* A client that closes or resets is noticed and its descriptor released,  *)
(* even when that happens before onConnect has set the error callback; but *)
(* not if epoll refused it.                                                *)
PeerCloseNoticed == (fin \/ reset) ~> (~fdOpen \/ refused)

(* What a full socket left in sendBuffer is tried again once the client    *)
(* reads: no edge for EPOLLOUT of a watched connection is missed.          *)
BufferFlushed == (queue # <<>>) ~> (queue = <<>> \/ ~fdOpen \/ refused)

=============================================================================
