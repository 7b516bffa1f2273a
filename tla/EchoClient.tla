------------------------------ MODULE EchoClient ------------------------------
(***************************************************************************)
(* The program echoClient: one connected NSock and stdin in one event      *)
(* loop.  Stdin's lines are numbered in the order they are written; a line *)
(* goes to inpQ and from there to NSock::send, which queues all of it.     *)
(* Whether ::send takes all of it is another matter: what it does not take *)
(* is lost (EchoSession), and the line cut.  The server may close or reset *)
(* between any two steps.                                                  *)
(***************************************************************************)
EXTENDS NPoll, Sequences, Functions

CONSTANT MaxLines   \* bound: lines begun on stdin

Socket == "socket"
CmdServer == "stdin"

ASSUME MaxLinesAssumption == MaxLines \in Nat

VARIABLES
  pc,               \* "connect", "monitor", "loop", "onStdin"; "done", "dead"
  exit,             \* local of echoLoop
  sockfd,
  inpQ,
  serverState,      \* "open", "closed" (FIN) or "reset"
  armed,            \* the socket is on epoll's ready list (edge-triggered)
  written,          \* lines of stdin begun so far
  waiting,          \* those ended and not read yet
  tail,             \* the last line has no newline yet
  stdinClosed,
  broken,           \* epoll reports EPOLLERR for stdin
  refused,          \* history: the owners epoll_ctl refused
  handed,           \* history: the lines given to NSock::send
  cut,              \* those of which ::send did not take every byte
  dropped           \* those given to a socket that was closed

peerVars == <<serverState, armed>>
stdinVars == <<written, waiting, tail, stdinClosed, broken>>
lineVars == <<inpQ, handed, cut, dropped>>
vars == <<files, npollVars, pc, exit, sockfd, peerVars, stdinVars, lineVars,
          refused>>

Running == pc \in {"connect", "monitor", "loop", "onStdin"}

Init ==
  /\ NPollInit
  /\ pc = "connect" /\ exit = FALSE /\ sockfd = NoFd
  /\ inpQ = <<>> /\ handed = <<>> /\ cut = {} /\ dropped = {}
  /\ serverState = "open" /\ armed = FALSE
  /\ written = 0 /\ waiting = <<>> /\ tail = FALSE
  /\ stdinClosed = FALSE /\ broken = FALSE
  /\ refused = {}

-----------------------------------------------------------------------------
(* The server, the network, and the writer of stdin.                       *)

Watched == sockfd # NoFd /\ sockfd \in interest

ServerActs ==
  /\ Running /\ Watched
  /\ serverState = "open" /\ ~armed
  /\ armed' = TRUE
  /\ UNCHANGED <<files, npollVars, pc, exit, sockfd, serverState, stdinVars,
                 lineVars, refused>>

ServerHangsUp ==
  /\ Running /\ sockfd # NoFd
  /\ \/ serverState = "open" /\ serverState' \in {"closed", "reset"}
     \/ serverState = "closed" /\ serverState' = "reset"
  /\ armed' = (armed \/ Watched)
  /\ UNCHANGED <<files, npollVars, pc, exit, sockfd, stdinVars, lineVars,
                 refused>>

WriterBegins ==
  /\ Running
  /\ ~stdinClosed /\ ~tail /\ written < MaxLines
  /\ tail' = TRUE
  /\ written' = written + 1
  /\ UNCHANGED <<files, npollVars, pc, exit, sockfd, peerVars, waiting,
                 stdinClosed, broken, lineVars, refused>>

WriterEndsLine ==
  /\ Running
  /\ tail /\ ~stdinClosed
  /\ tail' = FALSE
  /\ waiting' = Append(waiting, written)
  /\ UNCHANGED <<files, npollVars, pc, exit, sockfd, peerVars, written,
                 stdinClosed, broken, lineVars, refused>>

WriterCloses ==
  /\ Running /\ ~stdinClosed
  /\ stdinClosed' = TRUE
  /\ UNCHANGED <<files, npollVars, pc, exit, sockfd, peerVars, written, waiting,
                 tail, broken, lineVars, refused>>

StdinBreaks ==
  /\ Running /\ ~broken
  /\ broken' = TRUE
  /\ UNCHANGED <<files, npollVars, pc, exit, sockfd, peerVars, written, waiting,
                 tail, stdinClosed, lineVars, refused>>

-----------------------------------------------------------------------------
(* Faulty variant: the answer of connect() is not looked at.               *)
ConnectUnchecked(accepted) ==
  /\ pc = "connect"
  /\ AddFd(NoFd, Socket, accepted)
  /\ pc' = "monitor"
  /\ UNCHANGED <<files, batch, exit, sockfd, peerVars, stdinVars, lineVars,
                 refused>>

(* echoLoop up to the loop.  NSock::connect (NSockOpen) gives a socket,    *)
(* watched or not, or null, which the assert ends, or throws.              *)
Connect(accepted) ==
  /\ pc = "connect" /\ Free # {}
  /\ sockfd' = Lowest
  /\ files' = [files EXCEPT ![Lowest] = Socket]
  /\ AddFd(Lowest, Socket, accepted)
  /\ armed' = accepted
  /\ refused' = IF accepted THEN refused ELSE refused \cup {Socket}
  /\ pc' = "monitor"
  /\ UNCHANGED <<batch, exit, serverState, stdinVars, lineVars>>

ConnectFails ==
  /\ pc = "connect"
  /\ pc' = "dead"
  /\ UNCHANGED <<files, npollVars, exit, sockfd, peerVars, stdinVars, lineVars,
                 refused>>

MonitorStdin(accepted) ==
  /\ pc = "monitor"
  /\ AddFd(Stdin, CmdServer, accepted)
  /\ refused' = IF accepted THEN refused ELSE refused \cup {CmdServer}
  /\ pc' = "loop"
  /\ UNCHANGED <<files, batch, exit, sockfd, peerVars, stdinVars, lineVars>>

(* Stdin is level-triggered, but what getline has read ahead into stdio's  *)
(* buffer is not announced (CommandServer): only its end or an error is    *)
(* sure to be.  The socket has space to send from the start.               *)
StdinEvents(ready) ==
  IF ready /\ Stdin \in interest THEN {[fd |-> Stdin, file |-> CmdServer]} ELSE {}

SocketEvents ==
  IF armed THEN {[fd |-> fd, file |-> files[fd]] : fd \in interest \ {Stdin}}
  ELSE {}

Wait ==
  /\ pc = "loop" /\ ~exit
  /\ \E ready \in BOOLEAN :
       /\ stdinClosed \/ broken => ready
       /\ ready => waiting # <<>> \/ tail \/ stdinClosed \/ broken
       /\ WaitForEvents(StdinEvents(ready) \cup SocketEvents)
  /\ armed' = (armed /\ \A e \in batch' : e.fd = Stdin)
  /\ UNCHANGED <<files, interest, fdMap, pc, exit, sockfd, serverState,
                 stdinVars, lineVars, refused>>

(* sock->end() if it is called: nothing on a socket that is closed.        *)
End(called) ==
  IF called /\ sockfd # NoFd
  THEN EndFds({sockfd}) /\ sockfd' = NoFd /\ armed' = FALSE
  ELSE UNCHANGED <<files, fdMap, interest, sockfd, armed>>

-----------------------------------------------------------------------------
(* Faulty variant: the end of the stream is taken for "nothing to read".   *)
SocketEventUnseen(e) ==
  /\ Dispatches(e, Socket)
  /\ UNCHANGED <<files, interest, fdMap, pc, exit, sockfd, peerVars, stdinVars,
                 lineVars, refused>>

(* The socket's callback.  A hang-up is met by recv or send: the socket is *)
(* ended; one after epoll_wait returned perhaps only at its own event.     *)
SocketEvent(e) ==
  /\ Dispatches(e, Socket)
  /\ \E noticed \in BOOLEAN :
       /\ noticed => serverState # "open"
       /\ ~noticed => serverState = "open" \/ armed
       /\ End(noticed)
  /\ UNCHANGED <<pc, exit, serverState, stdinVars, lineVars, refused>>

(* The assert on recvBuf, or SIGPIPE.                                      *)
SocketKills(e) ==
  /\ Dispatches(e, Socket)
  /\ pc' = "dead"
  /\ UNCHANGED <<files, interest, fdMap, exit, sockfd, peerVars, stdinVars,
                 lineVars, refused>>

(* A read of stdin.  With half a line it waits inside getline.             *)
StdinLine(e) ==
  /\ Dispatches(e, CmdServer)
  /\ waiting # <<>>
  /\ inpQ' = Append(inpQ, Head(waiting))
  /\ waiting' = Tail(waiting)
  /\ pc' = "onStdin"
  /\ UNCHANGED <<files, interest, fdMap, exit, sockfd, peerVars, written, tail,
                 stdinClosed, broken, handed, cut, dropped, refused>>

(* Faulty variants: the end is taken for "nothing to read"; the hang-up    *)
(* is taken for the end, whatever still waits.                             *)
StdinEndsUnseen(e) ==
  /\ Dispatches(e, CmdServer)
  /\ waiting = <<>> /\ stdinClosed
  /\ UNCHANGED <<files, fdMap, interest, pc, exit, sockfd, peerVars, stdinVars,
                 lineVars, refused>>

(* stopMonitoring: stdin is removed from the loop, the socket ended, and   *)
(* the loop told to end.                                                   *)
StopMonitoring ==
  /\ exit' = TRUE
  /\ LET ended == {sockfd} \ {NoFd} IN
       /\ fdMap' = Without(ended \cup {Stdin})
       /\ interest' = interest \ (ended \cup {Stdin})
       /\ files' = [fd \in Fds |-> IF fd \in ended THEN NoFile ELSE files[fd]]
  /\ sockfd' = NoFd /\ armed' = FALSE
  /\ UNCHANGED <<pc, serverState, stdinVars, lineVars, refused>>

StdinHangup(e) ==
  /\ Dispatches(e, CmdServer)
  /\ stdinClosed
  /\ StopMonitoring

(* The end of stdin: a last text without its newline is dropped.           *)
StdinEnds(e) ==
  /\ Dispatches(e, CmdServer)
  /\ waiting = <<>> /\ stdinClosed
  /\ StopMonitoring

(* EPOLLERR: nothing more is read.                                         *)
StdinError(e) ==
  /\ Dispatches(e, CmdServer)
  /\ broken
  /\ StopMonitoring

UnknownEvent(e) ==
  /\ DispatchesUnknown(e)
  /\ pc' = "dead"
  /\ UNCHANGED <<files, interest, fdMap, exit, sockfd, peerVars, stdinVars,
                 lineVars, refused>>

Handle ==
  /\ pc = "loop"
  /\ \E e \in batch :
       \/ SocketEvent(e) \/ SocketKills(e)
       \/ StdinLine(e) \/ StdinEnds(e) \/ StdinError(e) \/ UnknownEvent(e)

-----------------------------------------------------------------------------
(* onStdin.                                                                *)

(* Faulty variant: the line stays in the queue.                            *)
SendLineUnpopped ==
  /\ pc = "onStdin" /\ inpQ # <<>>
  /\ handed' = Append(handed, Head(inpQ))
  /\ UNCHANGED <<files, npollVars, pc, exit, sockfd, peerVars, stdinVars, inpQ,
                 cut, dropped, refused>>

(* NSock::send queues the whole line and answers so, whether the socket is *)
(* open or not.  ::send may not take all of it: for want of space, which   *)
(* only cuts the line, or since it meets a reset, which ends the socket.   *)
SendLine ==
  /\ pc = "onStdin" /\ inpQ # <<>>
  /\ inpQ' = Tail(inpQ)
  /\ handed' = Append(handed, Head(inpQ))
  /\ \E taken, failed \in BOOLEAN :
       /\ failed => ~taken /\ serverState = "reset"
       /\ cut' = IF taken \/ sockfd = NoFd THEN cut ELSE cut \cup {Head(inpQ)}
       /\ dropped' = IF sockfd = NoFd THEN dropped \cup {Head(inpQ)} ELSE dropped
       /\ End(failed)
  /\ UNCHANGED <<batch, pc, exit, serverState, stdinVars, refused>>

(* ::send on a connection that was reset before raises SIGPIPE.            *)
SendKills ==
  /\ pc = "onStdin" /\ inpQ # <<>>
  /\ sockfd # NoFd /\ serverState = "reset"
  /\ pc' = "dead"
  /\ UNCHANGED <<files, npollVars, exit, sockfd, peerVars, stdinVars, lineVars,
                 refused>>

OnStdinReturns ==
  /\ pc = "onStdin" /\ inpQ = <<>>
  /\ pc' = "loop"
  /\ UNCHANGED <<files, npollVars, exit, sockfd, peerVars, stdinVars, lineVars,
                 refused>>

LoopEnds ==
  /\ pc = "loop" /\ batch = {} /\ exit
  /\ pc' = "done"
  /\ UNCHANGED <<files, npollVars, exit, sockfd, peerVars, stdinVars, lineVars,
                 refused>>

-----------------------------------------------------------------------------
Program ==
  \/ ConnectFails
  \/ \E accepted \in BOOLEAN : Connect(accepted) \/ MonitorStdin(accepted)
  \/ Wait \/ Handle \/ SendLine \/ SendKills \/ OnStdinReturns \/ LoopEnds

Next ==
  \/ Program
  \/ ServerActs \/ ServerHangsUp
  \/ WriterBegins \/ WriterEndsLine \/ WriterCloses \/ StdinBreaks

Spec == Init /\ [][Next]_vars

(* The one thread keeps running, and a writer that has begun a line ends   *)
(* it: until then the thread waits inside getline.                         *)
FairSpec == Spec /\ WF_vars(Program) /\ WF_vars(WriterEndsLine)

-----------------------------------------------------------------------------
(* The shape of the state.                                                 *)
TypeOK ==
  /\ files \in [Fds -> {Socket, NoFile}]
  /\ interest \subseteq Fds \cup {Stdin}
  /\ DOMAIN fdMap \subseteq Fds \cup {Stdin}
  /\ Range(fdMap) \subseteq {Socket, CmdServer}
  /\ batch \subseteq [fd : Fds \cup {Stdin}, file : {Socket, NoFile, CmdServer}]
  /\ pc \in {"connect", "monitor", "loop", "onStdin", "done", "dead"}
  /\ exit \in BOOLEAN /\ armed \in BOOLEAN
  /\ sockfd \in Fds \cup {NoFd}
  /\ serverState \in {"open", "closed", "reset"}
  /\ written \in 0 .. MaxLines
  /\ waiting \in Seq(1 .. MaxLines) /\ inpQ \in Seq(1 .. MaxLines)
  /\ handed \in Seq(1 .. MaxLines)
  /\ cut \subseteq 1 .. MaxLines /\ dropped \subseteq 1 .. MaxLines
  /\ tail \in BOOLEAN /\ stdinClosed \in BOOLEAN /\ broken \in BOOLEAN
  /\ refused \subseteq {Socket, CmdServer}

(* The lines that have their newline.                                      *)
Ended == IF tail THEN written - 1 ELSE written

(* Each line of stdin is given to NSock::send once and in order, while the *)
(* socket is open and once it is closed; and none stays in inpQ when the   *)
(* loop goes on, which matters because nothing would come back for it.     *)
InputInOrder ==
  /\ handed \o inpQ \o waiting = [i \in 1 .. Ended |-> i]
  /\ pc = "loop" => inpQ = <<>>

(* The lines ::send took, every byte of them, before the socket was ended. *)
Sent == {l \in Range(handed) : l \notin cut /\ l \notin dropped}

(* A line is lost in three ways only, although the hang-up of stdin is     *)
(* reported while lines still wait: ::send had no space for part of it, or *)
(* the server had gone, or stdin broke.  What is then left of it in        *)
(* sendBuffer for end() to drop is the rest of a line cut before           *)
(* (EchoSession's OnlyRestOfLossStays); a last text without its newline is *)
(* not a line.                                                             *)
EndLosesNoLine ==
  /\ dropped # {} => serverState # "open"
  /\ pc = "done" /\ ~broken => 1 .. Ended = Sent \cup cut \cup dropped

(* Every event of a batch finds its callback: "epoll_wait returned unknown *)
(* fd" is not reached.                                                     *)
NoUnknownEvent == \A e \in batch : e.fd \in DOMAIN fdMap

(* The close of stdin ends the client, whatever the server does.           *)
EofEndsClient == stdinClosed ~> ~Running \/ CmdServer \in refused

(* The client notices that the server is gone and releases its descriptor, *)
(* even if it is never going to write.                                     *)
ServerEndNoticed ==
  serverState # "open" ~> sockfd = NoFd \/ ~Running \/ Socket \in refused

=============================================================================
