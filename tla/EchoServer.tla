------------------------------ MODULE EchoServer ------------------------------
(***************************************************************************)
(* The program echoServer: ConnServer with its listening socket, several   *)
(* connections and stdin in one event loop, which main runs twice.  A step *)
(* is one callback; what happens on one connection inside its callback is  *)
(* EchoSession, how lines pass through stdio's buffer is CommandServer.    *)
(***************************************************************************)
EXTENDS NPoll, Sequences, Functions

CONSTANT Clients

Listener == "listener"

(* The command server of the first serverLoop, and of the second.          *)
CmdServer == <<"stdin 1", "stdin 2">>

ASSUME ClientsAssumption ==
  Clients \cap {Listener, NoFile, "stdin", "stdin 1", "stdin 2"} = {}

VARIABLES
  pc,               \* "start", "monitor", "loop"; "exit", "dead", "crashed"
  round,            \* which call of serverLoop runs
  exit,             \* its local flag
  mListenSock,      \* the descriptor of the listening NSock; NoFd: null
  mConnections,
  refused,          \* history: the owners epoll_ctl refused
  came,             \* the clients that have connected
  backlog,          \* those not accepted yet, in their order
  hung,             \* those whose client closed or reset it
  armed,            \* connections on epoll's ready list (edge-triggered)
  typed,            \* what waits on stdin
  stdinClosed

clientVars == <<came, backlog, hung, armed>>
stdinVars == <<typed, stdinClosed>>
loopVars == <<pc, round, exit>>
ownVars == <<mListenSock, mConnections, refused>>
vars == <<files, npollVars, loopVars, ownVars, clientVars, stdinVars>>

Texts == {"get-stats", "other"}
Inputs == Texts \cup {"blank", "half a line", "nothing"}

Running == pc \in {"start", "monitor", "loop"}

Init ==
  /\ NPollInit
  /\ pc = "start" /\ round = 1 /\ exit = FALSE
  /\ mListenSock = NoFd /\ mConnections = {} /\ refused = {}
  /\ came = {} /\ backlog = <<>> /\ hung = {} /\ armed = {}
  /\ typed = "nothing" /\ stdinClosed = FALSE

Held(c) == \E fd \in Fds : files[fd] = c
Watched(c) == \E fd \in interest \ {Stdin} : files[fd] = c

-----------------------------------------------------------------------------
(* The clients, the network, and the writer of stdin.                      *)

ClientConnects(c) ==
  /\ Running /\ Held(Listener)
  /\ c \notin came
  /\ came' = came \cup {c}
  /\ backlog' = Append(backlog, c)
  /\ UNCHANGED <<files, npollVars, loopVars, ownVars, hung, armed, stdinVars>>

(* Data arrives, or there is space to send again.  After a hang-up that    *)
(* makes no difference: the event that reports it ends the connection.     *)
ClientActs(c) ==
  /\ Running
  /\ Watched(c) /\ c \notin hung \cup armed
  /\ armed' = armed \cup {c}
  /\ UNCHANGED <<files, npollVars, loopVars, ownVars, came, backlog, hung,
                 stdinVars>>

ClientHangsUp(c) ==
  /\ Running
  /\ Held(c) \/ c \in Range(backlog)
  /\ c \notin hung
  /\ hung' = hung \cup {c}
  /\ armed' = IF Watched(c) THEN armed \cup {c} ELSE armed
  /\ UNCHANGED <<files, npollVars, loopVars, ownVars, came, backlog, stdinVars>>

WriterBegins ==
  /\ Running
  /\ typed = "nothing" /\ ~stdinClosed
  /\ typed' \in Inputs \ {"nothing"}
  /\ UNCHANGED <<files, npollVars, loopVars, ownVars, clientVars, stdinClosed>>

(* The close of stdin ends a line, too.                                    *)
WriterEndsLine ==
  /\ Running
  /\ typed = "half a line"
  /\ typed' \in Texts
  /\ stdinClosed' \in BOOLEAN
  /\ UNCHANGED <<files, npollVars, loopVars, ownVars, clientVars>>

WriterCloses ==
  /\ Running
  /\ typed # "half a line" /\ ~stdinClosed
  /\ stdinClosed' = TRUE
  /\ UNCHANGED <<files, npollVars, loopVars, ownVars, clientVars, typed>>

-----------------------------------------------------------------------------
(* createConnServer: NSock::listen (NSockOpen) gives a listening socket,   *)
(* watched or not, or null, or throws.                                     *)
Listen(accepted) ==
  /\ pc = "start" /\ Free # {}
  /\ files' = [files EXCEPT ![Lowest] = Listener]
  /\ AddFd(Lowest, Listener, accepted)
  /\ refused' = IF accepted THEN refused ELSE refused \cup {Listener}
  /\ mListenSock' = Lowest
  /\ pc' = "monitor"
  /\ UNCHANGED <<batch, round, exit, mConnections, clientVars, stdinVars>>

ListenFails ==
  /\ pc = "start"
  /\ pc' \in {"monitor", "dead"}
  /\ UNCHANGED <<files, npollVars, round, exit, ownVars, clientVars, stdinVars>>

(* Faulty variant: stdin is monitored once in the life of the process.     *)
MonitorStdinOnce(accepted) ==
  /\ pc = "monitor"
  /\ IF round = 1 THEN AddFd(Stdin, CmdServer[round], accepted)
     ELSE UNCHANGED <<fdMap, interest>>
  /\ refused' = IF accepted THEN refused ELSE refused \cup {CmdServer[round]}
  /\ exit' = FALSE
  /\ pc' = "loop"
  /\ UNCHANGED <<files, batch, round, mListenSock, mConnections, clientVars,
                 stdinVars>>

(* serverLoop, up to npollLoop.                                            *)
MonitorStdin(accepted) ==
  /\ pc = "monitor"
  /\ AddFd(Stdin, CmdServer[round], accepted)
  /\ refused' = IF accepted THEN refused ELSE refused \cup {CmdServer[round]}
  /\ exit' = FALSE
  /\ pc' = "loop"
  /\ UNCHANGED <<files, batch, round, mListenSock, mConnections, clientVars,
                 stdinVars>>

(* What epoll has to report: the listening socket and stdin as long as     *)
(* something waits there, a connection once.                               *)
IsReady(fd) ==
  IF fd = Stdin THEN typed # "nothing" \/ stdinClosed
  ELSE IF files[fd] = Listener THEN backlog # <<>>
  ELSE files[fd] \in armed

Event(fd) ==
  [fd |-> fd, file |-> IF fd = Stdin THEN "stdin" ELSE files[fd]]

Events == {Event(fd) : fd \in {f \in interest : IsReady(f)}}

Wait ==
  /\ pc = "loop" /\ ~exit
  /\ WaitForEvents(Events)
  /\ armed' = armed \ {e.file : e \in batch'}
  /\ UNCHANGED <<files, interest, fdMap, loopVars, ownVars, came, backlog, hung,
                 stdinVars>>

-----------------------------------------------------------------------------
(* onAcceptCb: one connection is taken from the backlog for each event.    *)

(* Faulty variant: the answer of accept is not looked at.                  *)
AcceptRefusedUnseen(e) ==
  /\ Dispatches(e, Listener)
  /\ backlog # <<>> /\ Free = {}
  /\ AddFd(NoFd, Head(backlog), TRUE)
  /\ UNCHANGED <<files, loopVars, ownVars, clientVars, stdinVars>>

(* accept fails: the process has no descriptor left.                       *)
AcceptRefused(e) ==
  /\ Dispatches(e, Listener)
  /\ backlog # <<>> => Free = {}
  /\ UNCHANGED <<files, interest, fdMap, loopVars, ownVars, clientVars,
                 stdinVars>>

(* Faulty variant: the early return forgets the descriptor.                *)
AcceptFailsOpen(e) ==
  /\ Dispatches(e, Listener)
  /\ backlog # <<>> /\ Free # {}
  /\ backlog' = Tail(backlog)
  /\ files' = [files EXCEPT ![Lowest] = Head(backlog)]
  /\ UNCHANGED <<interest, fdMap, loopVars, ownVars, came, hung, armed,
                 stdinVars>>

(* getsockname or setnonblocking fails: the descriptor is closed again.    *)
AcceptFails(e) ==
  /\ Dispatches(e, Listener)
  /\ backlog # <<>> /\ Free # {}
  /\ backlog' = Tail(backlog)
  /\ hung' = hung \ {Head(backlog)}
  /\ UNCHANGED <<files, interest, fdMap, loopVars, ownVars, came, armed,
                 stdinVars>>

(* The new connection is watched unless epoll refuses it, which is not     *)
(* noticed, and onConnect adds it to mConnections.  A watched one has      *)
(* space to send, and so is ready at once.                                 *)
Accept(e, accepted) ==
  /\ Dispatches(e, Listener)
  /\ backlog # <<>> /\ Free # {}
  /\ backlog' = Tail(backlog)
  /\ LET c == Head(backlog) IN
       /\ files' = [files EXCEPT ![Lowest] = c]
       /\ AddFd(Lowest, c, accepted)
       /\ refused' = IF accepted THEN refused ELSE refused \cup {c}
       /\ armed' = IF accepted THEN armed \cup {c} ELSE armed
       /\ mConnections' = mConnections \cup {c}
  /\ UNCHANGED <<loopVars, mListenSock, came, hung, stdinVars>>

-----------------------------------------------------------------------------
(* The callback of a connection.                                           *)

(* Faulty variant: the error callback forgets to end the socket.           *)
ConnForgotten(e, c) ==
  /\ Dispatches(e, c)
  /\ c \in hung
  /\ mConnections' = mConnections \ {c}
  /\ UNCHANGED <<files, interest, fdMap, loopVars, mListenSock, refused,
                 clientVars, stdinVars>>

(* The hang-up is met by recv, or perhaps by a send: onSocketError.        *)
ConnEnds(e, c) ==
  /\ Dispatches(e, c)
  /\ c \in hung
  /\ EndFds({e.fd})
  /\ armed' = armed \ {c} /\ hung' = hung \ {c}
  /\ mConnections' = mConnections \ {c}
  /\ UNCHANGED <<loopVars, mListenSock, refused, came, backlog, stdinVars>>

(* Data is echoed.  A client that hung up after epoll_wait returned may go *)
(* unnoticed until its next event.                                         *)
ConnServed(e, c) ==
  /\ Dispatches(e, c)
  /\ c \in hung => c \in armed
  /\ UNCHANGED <<files, interest, fdMap, loopVars, ownVars, clientVars,
                 stdinVars>>

(* The process is gone, and with it what it had open.                      *)
Die(how) ==
  /\ pc' = how
  /\ files' = [fd \in Fds |-> NoFile]
  /\ fdMap' = [fd \in {} |-> NoFile]
  /\ interest' = {} /\ batch' = {} /\ armed' = {} /\ hung' = {}
  /\ backlog' = <<>>
  /\ mConnections' = {} /\ mListenSock' = NoFd
  /\ UNCHANGED <<round, exit, refused, came, stdinVars>>

(* The assert on recvBuf, or SIGPIPE.                                      *)
ConnKills(e, c) ==
  /\ Found(e, c)
  /\ Die("dead")

(* The same in onConnect, which reads what the client sent before.         *)
AcceptKills(e) ==
  /\ Found(e, Listener)
  /\ backlog # <<>> /\ Free # {}
  /\ Die("dead")

-----------------------------------------------------------------------------
(* onStdinReadable.  On half a line it waits, inside getline.              *)

(* Faulty variant: the end of stdin closes the listening socket at once.   *)
StopMonitoringAndListening ==
  /\ exit' = TRUE
  /\ IF mListenSock = NoFd THEN UNCHANGED files
     ELSE files' = [files EXCEPT ![mListenSock] = NoFile]
  /\ fdMap' = Without({Stdin, mListenSock})
  /\ interest' = interest \ {Stdin, mListenSock}

(* stopMonitoring, with the callback of serverLoop.                        *)
StopMonitoring ==
  /\ exit' = TRUE
  /\ RemoveFd(Stdin)
  /\ UNCHANGED files

StdinRequest(e) ==
  /\ Dispatches(e, CmdServer[round])
  /\ typed \in Texts
  /\ typed = "get-stats" => mListenSock # NoFd
  /\ typed' = "nothing"
  /\ UNCHANGED <<files, interest, fdMap, loopVars, ownVars, clientVars,
                 stdinClosed>>

(* getConnStats goes through mListenSock, which is null.                   *)
StatsCrash(e) ==
  /\ Found(e, CmdServer[round])
  /\ typed = "get-stats" /\ mListenSock = NoFd
  /\ Die("crashed")

(* The empty line, and the end of the input.                               *)
StdinEnds(e) ==
  /\ Dispatches(e, CmdServer[round])
  /\ typed \in {"blank", "nothing"}
  /\ typed' = "nothing"
  /\ StopMonitoring
  /\ UNCHANGED <<pc, round, ownVars, clientVars, stdinClosed>>

-----------------------------------------------------------------------------
(* The connections whose last owner is mConnections: the callback in fdMap *)
(* owns the others.                                                        *)
Unwatched == {fd \in Fds : files[fd] \in mConnections \ Range(fdMap)}

(* Faulty variant: the listening socket is forgotten, not ended.           *)
LoopEndsListening ==
  /\ pc = "loop" /\ batch = {} /\ exit
  /\ mConnections' = {}
  /\ mListenSock' = NoFd
  /\ EndFds(Unwatched)
  /\ IF round = 1 THEN pc' = "monitor" /\ round' = 2
     ELSE pc' = "exit" /\ round' = round
  /\ UNCHANGED <<batch, exit, refused, clientVars, stdinVars>>

(* Faulty variant: every connection of mConnections is ended.              *)
LoopEndsConnections ==
  /\ pc = "loop" /\ batch = {} /\ exit
  /\ EndFds({fd \in Fds : files[fd] \in mConnections \cup {Listener}})
  /\ hung' = hung \ mConnections /\ armed' = armed \ mConnections
  /\ mConnections' = {} /\ mListenSock' = NoFd /\ backlog' = <<>>
  /\ IF round = 1 THEN pc' = "monitor" /\ round' = 2
     ELSE pc' = "exit" /\ round' = round
  /\ UNCHANGED <<batch, exit, refused, came, stdinVars>>

(* The rest of serverLoop.  Closing the listening socket resets what waits *)
(* in its backlog.  createConnServer returns, and main calls serverLoop    *)
(* once more.                                                              *)
LoopEnds ==
  /\ pc = "loop" /\ batch = {} /\ exit
  /\ mConnections' = {}
  /\ mListenSock' = NoFd
  /\ EndFds(Unwatched \cup ({mListenSock} \ {NoFd}))
  /\ backlog' = <<>>
  /\ hung' = {c \in hung : Watched(c)}
  /\ IF round = 1 THEN pc' = "monitor" /\ round' = 2
     ELSE pc' = "exit" /\ round' = round
  /\ UNCHANGED <<batch, exit, refused, came, armed, stdinVars>>

-----------------------------------------------------------------------------
ConnEvent(e) ==
  \E c \in Clients : ConnEnds(e, c) \/ ConnServed(e, c) \/ ConnKills(e, c)

ListenerEvent(e) ==
  \/ AcceptRefused(e) \/ AcceptFails(e) \/ AcceptKills(e)
  \/ \E accepted \in BOOLEAN : Accept(e, accepted)

Handle ==
  /\ pc = "loop"
  /\ \E e \in batch :
       \/ ListenerEvent(e) \/ ConnEvent(e)
       \/ StdinRequest(e) \/ StatsCrash(e) \/ StdinEnds(e)

Server ==
  \/ ListenFails
  \/ \E accepted \in BOOLEAN : Listen(accepted) \/ MonitorStdin(accepted)
  \/ Wait \/ Handle \/ LoopEnds

Outside ==
  \/ \E c \in Clients : ClientConnects(c) \/ ClientActs(c) \/ ClientHangsUp(c)
  \/ WriterBegins \/ WriterEndsLine \/ WriterCloses

Next == Server \/ Outside

Spec == Init /\ [][Next]_vars

(* The one thread keeps running, and a writer that has begun a line ends   *)
(* it: until then the thread waits inside getline.                         *)
FairSpec == Spec /\ WF_vars(Server) /\ WF_vars(WriterEndsLine)

-----------------------------------------------------------------------------
(* The shape of the state.                                                 *)
TypeOK ==
  /\ files \in [Fds -> Clients \cup {Listener, NoFile}]
  /\ interest \subseteq Fds \cup {Stdin}
  /\ DOMAIN fdMap \subseteq Fds \cup {Stdin}
  /\ Range(fdMap) \subseteq Clients \cup {Listener} \cup Range(CmdServer)
  /\ batch \subseteq [fd : Fds \cup {Stdin},
                      file : Clients \cup {Listener, NoFile, "stdin"}]
  /\ pc \in {"start", "monitor", "loop", "exit", "dead", "crashed"}
  /\ round \in {1, 2} /\ exit \in BOOLEAN
  /\ mListenSock \in Fds \cup {NoFd}
  /\ mConnections \subseteq Clients
  /\ refused \subseteq Clients \cup {Listener} \cup Range(CmdServer)
  /\ came \subseteq Clients /\ hung \subseteq came /\ armed \subseteq came
  /\ backlog \in Seq(Clients)
  /\ typed \in Inputs /\ stdinClosed \in BOOLEAN

(* Every open socket has an owner that will close it: the listening one is *)
(* mListenSock, a connection is in mConnections or in the callback that    *)
(* epoll may still call; and mConnections has only open ones.  So none     *)
(* leaks, even when epoll refused it or the first loop has ended.          *)
SocketsHaveOwners ==
  /\ \A fd \in Fds : files[fd] = Listener <=> mListenSock = fd
  /\ \A fd \in Fds : files[fd] \in Clients =>
       \/ files[fd] \in mConnections
       \/ fd \in DOMAIN fdMap
  /\ \A c \in mConnections : Held(c)

(* After the first serverLoop nothing of it is left but connections that   *)
(* epoll still watches: no listening socket, nobody in its backlog, and no *)
(* callback of a command server that is gone.                              *)
LoopLeavesNothing ==
  round = 2 \/ pc = "exit" =>
    /\ ~Held(Listener) /\ backlog = <<>>
    /\ Range(fdMap) \subseteq Clients \cup {CmdServer[2]}
    /\ pc \in {"monitor", "exit"} => Stdin \notin DOMAIN fdMap

(* CommandServer's promise: a request gets its response.                   *)
StatsAnswered == pc # "crashed"

(* One client's connection, as the loop has it.                            *)
Phase(c) ==
  IF pc \in {"dead", "crashed"} THEN "dead"
  ELSE IF c \notin came THEN "away"
  ELSE IF c \in Range(backlog) THEN "queued"
  ELSE IF Watched(c) THEN "open"
  ELSE IF Held(c) THEN "unwatched" ELSE "gone"

Part(c) == INSTANCE Connection WITH
             phase <- Phase(c), hung <- c \in hung, armed <- c \in armed,
             handling <- \E e \in batch : e.file = c

(* Each connection is dealt with as if it were alone: it is closed only by *)
(* its own callback after its own hang-up, none of its events is lost or   *)
(* given to another, though batches, descriptors and the process are       *)
(* shared; and no client is accepted twice.                                *)
EachOnItsOwn ==
  /\ \A c \in Clients : Part(c)!Init
  /\ [][\A c \in Clients : [Part(c)!Next]_(Part(c)!vars)]_vars

(* The backlog is emptied again and again, though each event accepts one   *)
(* client and the other sockets and stdin may be busy, as long as          *)
(* descriptors come free.                                                  *)
BacklogEmptied ==
  []<>(Free # {}) =>
    []<>(backlog = <<>> \/ ~Running \/ Listener \in refused)

(* The end of each client is noticed and its descriptor closed, in         *)
(* whichever loop, unless epoll never watched it.                          *)
HangupsReleased ==
  []<>(~Running \/ \A c \in hung : Held(c) => c \in refused)

(* The close of stdin ends the first loop, then the second, then main.     *)
StdinEndsServer ==
  stdinClosed ~> ~Running \/ refused \cap Range(CmdServer) # {}

=============================================================================
