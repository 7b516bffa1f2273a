-------------------------- MODULE EchoClientProofs --------------------------
(***************************************************************************)
(* The safety of EchoClient, for every number of lines and every set of    *)
(* descriptors: the table of callbacks is current although events may be   *)
(* stale, stdin's lines are handed to NSock::send once and in order, and   *)
(* the end of the client loses none of them.                               *)
(***************************************************************************)
EXTENDS EchoClient, NPollProofs, SequenceTheorems

(* The one socket is the one of sockfd; the table has stdin and it, or one *)
(* of them, or nothing.                                                    *)
TableInv ==
  /\ interest = DOMAIN fdMap
  /\ \A fd \in DOMAIN fdMap :
       \/ fd = Stdin /\ fdMap[fd] = CmdServer
       \/ fd = sockfd /\ fd \in Fds /\ fdMap[fd] = Socket
  /\ sockfd \in Fds \cup {NoFd}
  /\ files = [fd \in Fds |-> IF fd = sockfd THEN Socket ELSE NoFile]

(* What has not begun before the loop, and what is over when it is told to *)
(* end: stdin has been read up to its end then, or has failed.             *)
FlowInv ==
  /\ pc = "connect" =>
       sockfd = NoFd /\ DOMAIN fdMap = {} /\ serverState = "open"
  /\ pc \in {"connect", "monitor"} =>
       batch = {} /\ ~exit /\ Stdin \notin DOMAIN fdMap
  /\ pc \notin {"onStdin", "dead"} => inpQ = <<>>
  /\ exit => /\ Stdin \notin DOMAIN fdMap /\ pc # "onStdin"
             /\ (stdinClosed /\ waiting = <<>>) \/ broken
  /\ pc = "done" => exit

(* As long as lines are read, only the server's end closes the socket.     *)
GoneInv ==
  /\ pc \in {"monitor", "loop", "onStdin"} /\ sockfd = NoFd /\ ~exit =>
       serverState # "open"
  /\ dropped # {} => sockfd = NoFd /\ serverState # "open"
  /\ pc = "connect" => dropped = {}

Inv == TableInv /\ FlowInv /\ GoneInv

-----------------------------------------------------------------------------
LEMMA Descriptors == Stdin \notin Fds /\ NoFd \notin Fds /\ Stdin # NoFd
  BY FdsAssumption DEF Stdin, NoFd

LEMMA Names == Socket # CmdServer /\ Socket # NoFile /\ CmdServer # NoFile
  BY DEF Socket, CmdServer, NoFile

LEMMA InitInv == Init => Inv
<1> SUFFICES ASSUME Init
             PROVE  Inv
  OBVIOUS
<1> USE DEF Init, NPollInit
<1>1. TableInv
  BY Descriptors DEF TableInv
<1>2. FlowInv /\ GoneInv
  BY DEF FlowInv, GoneInv
<1> QED
  BY <1>1, <1>2 DEF Inv

(* Whose callback runs for a descriptor.                                   *)
LEMMA WhoseEvent ==
  ASSUME Inv, NEW e, NEW owner \in {Socket, CmdServer}, Dispatches(e, owner)
  PROVE  /\ e \in batch /\ batch' = batch \ {e} /\ e.fd \in DOMAIN fdMap
         /\ owner = CmdServer => e.fd = Stdin /\ ~exit
         /\ owner = Socket => e.fd = sockfd /\ sockfd \in Fds
<1>1. /\ e \in batch /\ batch' = batch \ {e}
      /\ e.fd \in DOMAIN fdMap /\ fdMap[e.fd] = owner
  BY DEF Dispatches, Found
<1> QED
  BY <1>1, Names DEF Inv, TableInv, FlowInv

(* Descriptors leave the table, sockfd's socket is closed.                 *)
LEMMA LeaveTable ==
  ASSUME TableInv, NEW S, S \subseteq Fds \cup {Stdin},
         sockfd # NoFd => sockfd \in S,
         fdMap' = Without(S), interest' = interest \ S, sockfd' = NoFd,
         files' = [fd \in Fds |-> IF fd \in S THEN NoFile ELSE files[fd]]
  PROVE  TableInv' /\ DOMAIN fdMap' = DOMAIN fdMap \ S
<1>1. /\ DOMAIN fdMap' = DOMAIN fdMap \ S
      /\ \A fd \in DOMAIN fdMap \ S : fdMap'[fd] = fdMap[fd]
  BY DEF Without, TableInv
<1>2. files' = [fd \in Fds |-> NoFile]
  <2>1. \A fd \in Fds : fd \notin S => files[fd] = NoFile
    BY Descriptors DEF TableInv
  <2> QED
    BY <2>1
<1>3. \A fd \in DOMAIN fdMap' : fd = Stdin /\ fdMap'[fd] = CmdServer
  BY <1>1, Descriptors DEF TableInv
<1>4. interest' = DOMAIN fdMap'
  BY <1>1 DEF TableInv
<1> QED
  BY <1>1, <1>2, <1>3, <1>4, Descriptors DEF TableInv

LEMMA EndsSocket ==
  ASSUME TableInv, NEW called \in BOOLEAN, End(called)
  PROVE  /\ TableInv'
         /\ IF called /\ sockfd # NoFd
            THEN /\ DOMAIN fdMap' = DOMAIN fdMap \ {sockfd}
                 /\ sockfd' = NoFd /\ armed' = FALSE
            ELSE UNCHANGED <<files, fdMap, interest, sockfd, armed>>
<1>1. CASE called /\ sockfd # NoFd
  <2>1. EndFds({sockfd}) /\ sockfd' = NoFd /\ armed' = FALSE /\ sockfd \in Fds
    BY <1>1 DEF End, TableInv
  <2> QED
    BY <1>1, <2>1, LeaveTable DEF EndFds
<1>2. CASE ~(called /\ sockfd # NoFd)
  BY <1>2 DEF End, TableInv
<1> QED
  BY <1>1, <1>2

LEMMA StdinEndsAll ==
  ASSUME Inv, NEW e, StdinEnds(e) \/ StdinError(e)
  PROVE  /\ TableInv' /\ sockfd' = NoFd /\ Stdin \notin DOMAIN fdMap'
         /\ e.fd = Stdin /\ batch' = batch \ {e}
<1> DEFINE ended == {sockfd} \ {NoFd}
           S == ended \cup {Stdin}
<1>1. /\ fdMap' = Without(S) /\ interest' = interest \ S /\ sockfd' = NoFd
      /\ files' = [fd \in Fds |-> IF fd \in ended THEN NoFile ELSE files[fd]]
  BY DEF StdinEnds, StdinError, StopMonitoring
<1>2. files' = [fd \in Fds |-> IF fd \in S THEN NoFile ELSE files[fd]]
  BY <1>1, Descriptors
<1>3. S \subseteq Fds \cup {Stdin} /\ (sockfd # NoFd => sockfd \in S) /\ Stdin \in S
  BY DEF Inv, TableInv
<1> HIDE DEF S
<1>4. TableInv' /\ DOMAIN fdMap' = DOMAIN fdMap \ S
  BY <1>1, <1>2, <1>3, LeaveTable DEF Inv
<1>5. e.fd = Stdin /\ batch' = batch \ {e}
  BY WhoseEvent DEF StdinEnds, StdinError
<1> QED
  BY <1>1, <1>3, <1>4, <1>5

(* connect opens the socket; the loop then has stdin, too.                 *)
LEMMA ConnectOpens ==
  ASSUME Inv, NEW accepted \in BOOLEAN, Connect(accepted)
  PROVE  /\ TableInv' /\ sockfd' \in Fds
         /\ DOMAIN fdMap' = IF accepted THEN {sockfd'} ELSE {}
<1> DEFINE l == Lowest
<1>1. /\ pc = "connect" /\ Free # {} /\ sockfd' = l
      /\ files' = [files EXCEPT ![l] = Socket] /\ AddFd(l, Socket, accepted)
      /\ batch' = batch
  BY DEF Connect
<1>2. sockfd = NoFd /\ DOMAIN fdMap = {} /\ batch = {}
  BY <1>1 DEF Inv, FlowInv
<1>3. PollInv
  BY <1>2 DEF Inv, TableInv, PollInv, TableIsCurrent, NoStaleEvent
<1>4. l \in Fds
  BY <1>1, <1>3, LowestIsFresh
<1>5. /\ PollInv' /\ files'[l] = Socket
      /\ \A fd \in Fds \ {l} : files'[fd] = files[fd]
      /\ DOMAIN fdMap' = DOMAIN fdMap \cup (IF accepted THEN {l} ELSE {})
      /\ accepted => fdMap'[l] = Socket
  BY <1>1, <1>3, Names, OpenKeeps
<1> HIDE DEF l
<1>6. \A fd \in Fds : files[fd] = NoFile
  BY <1>2, Descriptors DEF Inv, TableInv
<1>7. TableInv'
  BY <1>1, <1>2, <1>4, <1>5, <1>6 DEF PollInv, TableIsCurrent, TableInv
<1> QED
  BY <1>1, <1>2, <1>4, <1>5, <1>7

LEMMA StdinMonitored ==
  ASSUME Inv, NEW accepted \in BOOLEAN, MonitorStdin(accepted)
  PROVE  /\ TableInv' /\ UNCHANGED <<files, sockfd>>
         /\ DOMAIN fdMap' = DOMAIN fdMap \cup (IF accepted THEN {Stdin} ELSE {})
<1>1. /\ pc = "monitor" /\ AddFd(Stdin, CmdServer, accepted)
      /\ UNCHANGED <<files, sockfd>>
  BY DEF MonitorStdin
<1>2. Stdin \notin DOMAIN fdMap /\ interest = DOMAIN fdMap
  BY <1>1 DEF Inv, FlowInv, TableInv
<1>3. /\ DOMAIN fdMap' = IF accepted THEN DOMAIN fdMap \cup {Stdin} ELSE DOMAIN fdMap
      /\ \A f \in DOMAIN fdMap : fdMap'[f] = fdMap[f]
      /\ accepted => fdMap'[Stdin] = CmdServer
      /\ interest' = DOMAIN fdMap'
  BY <1>1, <1>2, AddFdValue
<1>4. TableInv'
  BY <1>1, <1>2, <1>3 DEF Inv, TableInv
<1> QED
  BY <1>1, <1>3, <1>4

-----------------------------------------------------------------------------
(* What the server and the writer of stdin do.                             *)
Outside ==
  \/ ServerActs \/ ServerHangsUp
  \/ WriterBegins \/ WriterEndsLine \/ WriterCloses \/ StdinBreaks

LEMMA OutsideKeeps ==
  ASSUME Inv, Outside \/ UNCHANGED vars
  PROVE  Inv'
<1>1. /\ UNCHANGED <<files, interest, fdMap, batch, pc, exit, sockfd, inpQ, dropped>>
      /\ serverState # "open" => serverState' # "open"
      /\ pc = "connect" => serverState' = serverState
      /\ stdinClosed => stdinClosed' /\ waiting' = waiting
      /\ broken => broken'
  BY DEF Outside, ServerActs, ServerHangsUp, WriterBegins, WriterEndsLine,
     WriterCloses, StdinBreaks, npollVars, stdinVars, lineVars, peerVars, vars, Inv, FlowInv
<1> QED
  BY <1>1 DEF Inv, TableInv, FlowInv, GoneInv

LEMMA StartKeeps ==
  ASSUME Inv,
         \/ ConnectFails
         \/ \E accepted \in BOOLEAN : Connect(accepted) \/ MonitorStdin(accepted)
  PROVE  Inv'
<1>1. CASE ConnectFails
  BY <1>1 DEF ConnectFails, npollVars, peerVars, stdinVars, lineVars, Inv,
     TableInv, FlowInv, GoneInv
<1>2. ASSUME NEW accepted \in BOOLEAN, Connect(accepted)
      PROVE  Inv'
  <2>1. /\ TableInv' /\ sockfd' # NoFd /\ Stdin \notin DOMAIN fdMap'
    BY <1>2, ConnectOpens, Descriptors
  <2>2. /\ pc = "connect" /\ pc' = "monitor"
        /\ UNCHANGED <<batch, exit, inpQ, dropped, stdinClosed, broken, waiting>>
    BY <1>2 DEF Connect, stdinVars, lineVars
  <2> QED
    BY <2>1, <2>2 DEF Inv, FlowInv, GoneInv
<1>3. ASSUME NEW accepted \in BOOLEAN, MonitorStdin(accepted)
      PROVE  Inv'
  <2>1. TableInv'
    BY <1>3, StdinMonitored
  <2>2. /\ pc = "monitor" /\ pc' = "loop"
        /\ UNCHANGED <<sockfd, exit, inpQ, dropped, serverState, waiting>>
    BY <1>3 DEF MonitorStdin, stdinVars, lineVars, peerVars
  <2> QED
    BY <2>1, <2>2 DEF Inv, FlowInv, GoneInv
<1> QED
  BY <1>1, <1>2, <1>3

LEMMA HandleKeeps ==
  ASSUME Inv, Handle
  PROVE  Inv'
<1>1. PICK e \in batch :
        \/ SocketEvent(e) \/ SocketKills(e)
        \/ StdinLine(e) \/ StdinEnds(e) \/ StdinError(e) \/ UnknownEvent(e)
  BY DEF Handle
<1>2. pc = "loop"
  BY DEF Handle
<1>3. CASE SocketEvent(e)
  <2>1. PICK noticed \in BOOLEAN :
          /\ noticed => serverState # "open"
          /\ End(noticed)
    BY <1>3 DEF SocketEvent
  <2>2. UNCHANGED <<pc, exit, serverState, waiting, stdinClosed, broken, inpQ,
                  dropped>>
    BY <1>3 DEF SocketEvent, stdinVars, lineVars
  <2>3. TableInv' /\ DOMAIN fdMap' \subseteq DOMAIN fdMap
        /\ (sockfd = NoFd => sockfd' = NoFd)
        /\ (sockfd' = NoFd => sockfd = NoFd \/ serverState # "open")
    BY <2>1, EndsSocket DEF Inv
  <2> QED
    BY <1>2, <2>2, <2>3 DEF Inv, FlowInv, GoneInv
<1>4. CASE SocketKills(e) \/ UnknownEvent(e)
  <2>1. /\ UNCHANGED <<files, interest, fdMap, sockfd, exit, serverState, waiting,
                       stdinClosed, broken, inpQ, dropped>>
        /\ pc' = "dead"
    BY <1>4 DEF SocketKills, UnknownEvent, peerVars, stdinVars, lineVars
  <2> QED
    BY <2>1 DEF Inv, TableInv, FlowInv, GoneInv
<1>5. CASE StdinLine(e)
  <2>1. /\ UNCHANGED <<files, interest, fdMap, sockfd, exit, serverState,
                       stdinClosed, broken, dropped>>
        /\ pc' = "onStdin" /\ Dispatches(e, CmdServer)
    BY <1>5 DEF StdinLine, peerVars
  <2>2. ~exit
    BY <2>1, WhoseEvent
  <2> QED
    BY <1>2, <2>1, <2>2 DEF Inv, TableInv, FlowInv, GoneInv
<1>6. CASE StdinEnds(e) \/ StdinError(e)
  <2>1. /\ UNCHANGED <<pc, serverState, waiting, stdinClosed, broken, inpQ, dropped>>
        /\ exit' = TRUE
        /\ (waiting = <<>> /\ stdinClosed) \/ broken
    BY <1>6 DEF StdinEnds, StdinError, StopMonitoring, stdinVars, lineVars
  <2>2. TableInv' /\ sockfd' = NoFd /\ Stdin \notin DOMAIN fdMap'
    BY <1>6, StdinEndsAll
  <2> QED
    BY <1>2, <2>1, <2>2 DEF Inv, FlowInv, GoneInv
<1> QED
  BY <1>1, <1>3, <1>4, <1>5, <1>6

LEMMA SendLineKeeps ==
  ASSUME Inv, SendLine
  PROVE  Inv'
<1>1. PICK failed \in BOOLEAN : (failed => serverState = "reset") /\ End(failed)
  BY DEF SendLine
<1>2. /\ pc = "onStdin" /\ UNCHANGED <<batch, pc, exit, serverState, stdinVars>>
      /\ sockfd # NoFd => dropped' = dropped
  BY DEF SendLine
<1>3. /\ TableInv' /\ DOMAIN fdMap' \subseteq DOMAIN fdMap
      /\ sockfd = NoFd => sockfd' = NoFd
      /\ sockfd' = NoFd => sockfd = NoFd \/ serverState # "open"
  BY <1>1, EndsSocket DEF Inv
<1>4. ~exit
  BY <1>2 DEF Inv, FlowInv
<1> QED
  BY <1>2, <1>3, <1>4 DEF Inv, FlowInv, GoneInv, stdinVars

LEMMA NextKeeps ==
  ASSUME Inv, [Next]_vars
  PROVE  Inv'
<1>1. CASE Wait
  BY <1>1 DEF Wait, stdinVars, lineVars, Inv, TableInv, FlowInv, GoneInv
<1>2. CASE SendKills \/ OnStdinReturns \/ LoopEnds
  BY <1>2 DEF SendKills, OnStdinReturns, LoopEnds, npollVars, peerVars, stdinVars,
     lineVars, Inv, TableInv, FlowInv, GoneInv
<1> QED
  BY <1>1, <1>2, OutsideKeeps, StartKeeps, HandleKeeps, SendLineKeeps
     DEF Next, Program, Outside

THEOREM Invariance == Spec => []Inv
<1>1. Init => Inv
  BY InitInv
<1>2. Inv /\ [Next]_vars => Inv'
  BY NextKeeps
<1> QED
  BY <1>1, <1>2, PTL DEF Spec

(* The table of callbacks and epoll's set agree with the one socket: the   *)
(* entry goes with it, whoever ends it and in which callback, although an  *)
(* event of the batch may still carry its descriptor.                      *)
THEOREM Current == Spec => []TableIsCurrent
<1>1. Inv => TableIsCurrent
  BY Names DEF Inv, TableInv, TableIsCurrent
<1> QED
  BY <1>1, Invariance, PTL

-----------------------------------------------------------------------------
(* What the sequence operators keep, and how a line moves along.           *)
LEMMA Appended ==
  ASSUME NEW S, NEW s \in Seq(S), NEW e \in S
  PROVE  Append(s, e) \in Seq(S)
  OBVIOUS

LEMMA Parted ==
  ASSUME NEW S, NEW s \in Seq(S), s # <<>>
  PROVE  Head(s) \in S /\ Tail(s) \in Seq(S)
  OBVIOUS

LEMMA MoveHead ==
  ASSUME NEW S, NEW a \in Seq(S), NEW b \in Seq(S), b # <<>>
  PROVE  Append(a, Head(b)) \o Tail(b) = a \o b
<1>1. Head(b) \in S /\ Tail(b) \in Seq(S) /\ <<Head(b)>> \in Seq(S)
  BY HeadTailProperties
<1>2. Append(a, Head(b)) = a \o <<Head(b)>>
  BY <1>1, AppendIsConcat
<1>3. <<Head(b)>> \o Tail(b) = b
  <2>1. Len(b) \in Nat \ {0} /\ b[1] = Head(b)
    BY EmptySeq
  <2>2. SubSeq(b, 1, Len(b)) = <<b[1]>> \o SubSeq(b, 2, Len(b))
    BY <2>1, SubSeqRecursiveFirst
  <2> QED
    BY <2>1, <2>2, SubSeqFull, TailIsSubSeq
<1> QED
  BY <1>1, <1>2, <1>3, ConcatAssociative

(* Appending to the last of two sequences appends to both.                 *)
LEMMA AppendToBoth ==
  ASSUME NEW S, NEW a \in Seq(S), NEW b \in Seq(S), NEW e \in S
  PROVE  a \o Append(b, e) = Append(a \o b, e)
<1>1. a \o b \in Seq(S) /\ <<e>> \in Seq(S)
  BY ConcatProperties
<1>2. Append(b, e) = b \o <<e>> /\ Append(a \o b, e) = (a \o b) \o <<e>>
  BY <1>1, AppendIsConcat
<1> QED
  BY <1>1, <1>2, ConcatAssociative

-----------------------------------------------------------------------------
(* The types: the lines, and the rest.                                     *)
Line == 1 .. MaxLines

Lines ==
  /\ written \in 0 .. MaxLines /\ (tail => written # 0)
  /\ waiting \in Seq(Line) /\ inpQ \in Seq(Line)
  /\ handed \in Seq(Line)
  /\ cut \subseteq Line /\ dropped \subseteq Line

Flags ==
  /\ tail \in BOOLEAN /\ stdinClosed \in BOOLEAN /\ broken \in BOOLEAN
  /\ exit \in BOOLEAN /\ armed \in BOOLEAN
  /\ pc \in {"connect", "monitor", "loop", "onStdin", "done", "dead"}
  /\ serverState \in {"open", "closed", "reset"}
  /\ refused \subseteq {Socket, CmdServer}

Batches ==
  batch \subseteq [fd : Fds \cup {Stdin}, file : {Socket, NoFile, CmdServer}]

Types == Lines /\ Flags /\ Batches

(* The table's types are TableInv's.                                       *)
LEMMA TableTypes ==
  ASSUME Types, TableInv
  PROVE  TypeOK
<1>1. files \in [Fds -> {Socket, NoFile}]
  BY DEF TableInv
<1>2. /\ DOMAIN fdMap \subseteq Fds \cup {Stdin}
      /\ Range(fdMap) \subseteq {Socket, CmdServer}
      /\ interest \subseteq Fds \cup {Stdin} /\ sockfd \in Fds \cup {NoFd}
  BY DEF TableInv, Range
<1> QED
  BY <1>1, <1>2 DEF TypeOK, Types, Lines, Flags, Batches, Line

LEMMA LinesKeep ==
  ASSUME Lines, Flags, [Next]_vars
  PROVE  Lines'
<1>1. CASE WriterBegins
  BY <1>1, MaxLinesAssumption DEF WriterBegins, Lines, lineVars
<1>2. CASE WriterEndsLine
  <2>1. /\ tail /\ tail' = FALSE
        /\ waiting' = Append(waiting, written)
        /\ UNCHANGED <<written, inpQ, handed, cut, dropped>>
    BY <1>2 DEF WriterEndsLine, lineVars
  <2>2. written \in Line
    BY <2>1, MaxLinesAssumption DEF Lines, Line
  <2>3. waiting' \in Seq(Line)
    BY <2>1, <2>2, Appended DEF Lines
  <2> QED
    BY <2>1, <2>2, <2>3 DEF Lines
<1>3. ASSUME NEW e, StdinLine(e)
      PROVE  Lines'
  <2>1. /\ waiting # <<>> /\ inpQ' = Append(inpQ, Head(waiting))
        /\ waiting' = Tail(waiting)
        /\ UNCHANGED <<written, tail, handed, cut, dropped>>
    BY <1>3 DEF StdinLine
  <2>2. Head(waiting) \in Line /\ waiting' \in Seq(Line)
    BY <2>1, Parted DEF Lines
  <2>3. inpQ' \in Seq(Line)
    BY <2>1, <2>2, Appended DEF Lines
  <2> QED
    BY <2>1, <2>2, <2>3 DEF Lines
<1>4. CASE SendLine
  <2>1. /\ inpQ # <<>> /\ inpQ' = Tail(inpQ)
        /\ handed' = Append(handed, Head(inpQ))
        /\ cut' \subseteq cut \cup {Head(inpQ)}
        /\ dropped' \subseteq dropped \cup {Head(inpQ)}
        /\ UNCHANGED <<written, tail, waiting>>
    BY <1>4 DEF SendLine, stdinVars
  <2>2. Head(inpQ) \in Line /\ inpQ' \in Seq(Line)
    BY <2>1, Parted DEF Lines
  <2>3. handed' \in Seq(Line)
    BY <2>1, <2>2, Appended DEF Lines
  <2> QED
    BY <2>1, <2>2, <2>3 DEF Lines
<1>5. CASE UNCHANGED <<written, tail, waiting, inpQ, handed, cut, dropped>>
  BY <1>5 DEF Lines
<1>6. ASSUME ServerActs \/ ServerHangsUp \/ WriterCloses \/ StdinBreaks \/ ConnectFails
             \/ (\E accepted \in BOOLEAN : Connect(accepted) \/ MonitorStdin(accepted))
             \/ Wait \/ SendKills \/ OnStdinReturns \/ LoopEnds
      PROVE  UNCHANGED <<written, tail, waiting, inpQ, handed, cut, dropped>>
  BY <1>6 DEF ServerActs, ServerHangsUp, WriterCloses, StdinBreaks, ConnectFails, Connect,
     MonitorStdin, Wait, SendKills, OnStdinReturns, LoopEnds, stdinVars, lineVars
<1>7. ASSUME NEW e, SocketEvent(e) \/ SocketKills(e) \/ StdinEnds(e) \/ StdinError(e) \/ UnknownEvent(e)
      PROVE  UNCHANGED <<written, tail, waiting, inpQ, handed, cut, dropped>>
  BY <1>7 DEF SocketEvent, SocketKills, StdinEnds, StdinError, StopMonitoring,
     UnknownEvent, stdinVars, lineVars
<1>8. CASE UNCHANGED vars
  BY <1>8, <1>5 DEF vars, stdinVars, lineVars
<1> QED
  BY <1>1, <1>2, <1>3, <1>4, <1>5, <1>6, <1>7, <1>8 DEF Next, Program, Handle

LEMMA FlagsKeep ==
  ASSUME Inv, Flags, Batches, [Next]_vars
  PROVE  Flags' /\ Batches'
<1> USE DEF Flags
<1>1. CASE Outside \/ UNCHANGED vars
  BY <1>1 DEF Outside, ServerActs, ServerHangsUp, WriterBegins, WriterEndsLine,
     WriterCloses, StdinBreaks, npollVars, stdinVars, lineVars, peerVars, vars, Batches
<1>2. CASE \/ ConnectFails
           \/ \E accepted \in BOOLEAN : Connect(accepted) \/ MonitorStdin(accepted)
  BY <1>2 DEF ConnectFails, Connect, MonitorStdin, npollVars, stdinVars, lineVars,
     peerVars, Batches
<1>3. CASE Wait
  <2>1. PICK ready \in BOOLEAN : batch' \subseteq StdinEvents(ready) \cup SocketEvents
    BY <1>3 DEF Wait, WaitForEvents
  <2>2. StdinEvents(ready) \cup SocketEvents
          \subseteq [fd : Fds \cup {Stdin}, file : {Socket, NoFile, CmdServer}]
    BY DEF StdinEvents, SocketEvents, Inv, TableInv
  <2> QED
    BY <1>3, <2>1, <2>2 DEF Wait, stdinVars, lineVars, Batches
<1>4. CASE SendKills \/ OnStdinReturns \/ LoopEnds
  BY <1>4 DEF SendKills, OnStdinReturns, LoopEnds, npollVars, stdinVars, lineVars,
     peerVars, Batches
<1>5. CASE SendLine
  <2>1. armed' \in BOOLEAN
    BY <1>5 DEF SendLine, End
  <2> QED
    BY <1>5, <2>1 DEF SendLine, stdinVars, Batches
<1>6. CASE Handle
  <2>1. PICK e \in batch :
          \/ SocketEvent(e) \/ SocketKills(e)
          \/ StdinLine(e) \/ StdinEnds(e) \/ StdinError(e) \/ UnknownEvent(e)
    BY <1>6 DEF Handle
  <2>2. batch' \subseteq batch
    BY <2>1 DEF SocketEvent, SocketKills, StdinLine, StdinEnds, StdinError,
       StopMonitoring, UnknownEvent,
       Dispatches, DispatchesUnknown
  <2>3. armed' \in BOOLEAN
    BY <2>1 DEF SocketEvent, SocketKills, StdinLine, StdinEnds, StdinError,
       StopMonitoring, UnknownEvent,
       peerVars, End
  <2>4. Flags'
    BY <1>6, <2>1, <2>3 DEF Handle, SocketEvent, SocketKills, StdinLine, StdinEnds,
       StdinError, StopMonitoring, UnknownEvent, stdinVars, lineVars, peerVars
  <2> QED
    BY <2>2, <2>4 DEF Batches
<1> QED
  BY <1>1, <1>2, <1>3, <1>4, <1>5, <1>6 DEF Next, Program, Outside

LEMMA InitTypes == Init => Types
<1> SUFFICES ASSUME Init
             PROVE  Types
  OBVIOUS
<1> USE DEF Init, NPollInit
<1>1. <<>> \in Seq(Line) /\ 0 \in 0 .. MaxLines
  BY MaxLinesAssumption
<1>2. Lines
  BY <1>1 DEF Lines
<1>3. Flags /\ Batches
  BY DEF Flags, Batches
<1> QED
  BY <1>2, <1>3 DEF Types

THEOREM TypesHold == Spec => []Types
<1>1. Init => Types
  BY InitTypes
<1>2. Inv /\ Types /\ [Next]_vars => Types'
  BY LinesKeep, FlagsKeep DEF Types
<1> QED
  BY <1>1, <1>2, Invariance, PTL DEF Spec

(* The variables keep their types.                                         *)
THEOREM Typing == Spec => []TypeOK
<1>1. Inv /\ Types => TypeOK
  BY TableTypes DEF Inv
<1> QED
  BY <1>1, Invariance, TypesHold, PTL

-----------------------------------------------------------------------------
(* InputInOrder: every line is in one of three places, in its order.       *)
Numbers(n) == [i \in 1 .. n |-> i]
Taken == handed \o inpQ
Order == Taken \o waiting = Numbers(Ended)

LEMMA NextNumber ==
  ASSUME NEW n \in Nat \ {0}
  PROVE  Append(Numbers(n - 1), n) = Numbers(n)
<1>1. Numbers(n - 1) \in Seq(Nat) /\ Len(Numbers(n - 1)) = n - 1
  BY DEF Numbers
<1> QED
  BY <1>1 DEF Numbers

LEMMA OrderKept ==
  ASSUME Lines, Flags, Order, [Next]_vars
  PROVE  Order'
<1>1. /\ handed \in Seq(Line) /\ inpQ \in Seq(Line) /\ waiting \in Seq(Line)
      /\ Taken \in Seq(Line)
  BY ConcatProperties DEF Lines, Taken
<1>2. CASE WriterEndsLine
  <2>1. /\ tail /\ ~tail' /\ waiting' = Append(waiting, written)
        /\ UNCHANGED <<written, inpQ, handed>>
    BY <1>2 DEF WriterEndsLine, lineVars
  <2>2. written \in Nat \ {0} /\ written \in Line
    BY <2>1, MaxLinesAssumption DEF Lines, Line
  <2>3. Taken \o waiting' = Append(Taken \o waiting, written)
    BY <1>1, <2>1, <2>2, AppendToBoth
  <2>4. Append(Numbers(written - 1), written) = Numbers(written)
    BY <2>2, NextNumber
  <2> QED
    BY <2>1, <2>3, <2>4 DEF Order, Taken, Ended
<1>3. ASSUME NEW e, StdinLine(e)
      PROVE  Order'
  <2>1. /\ waiting # <<>> /\ inpQ' = Append(inpQ, Head(waiting))
        /\ waiting' = Tail(waiting)
        /\ UNCHANGED <<written, tail, handed>>
    BY <1>3 DEF StdinLine
  <2>2. Head(waiting) \in Line
    BY <1>1, <2>1, Parted
  <2>3. Taken' = Append(Taken, Head(waiting))
    BY <1>1, <2>1, <2>2, AppendToBoth DEF Taken
  <2>4. Append(Taken, Head(waiting)) \o Tail(waiting) = Taken \o waiting
    BY <1>1, <2>1, MoveHead
  <2> QED
    BY <2>1, <2>3, <2>4 DEF Order, Ended
<1>4. CASE SendLine
  <2>1. /\ inpQ # <<>> /\ inpQ' = Tail(inpQ)
        /\ handed' = Append(handed, Head(inpQ))
        /\ UNCHANGED <<written, tail, waiting>>
    BY <1>4 DEF SendLine, stdinVars
  <2>2. Taken' = Taken
    BY <1>1, <2>1, MoveHead DEF Taken
  <2> QED
    BY <2>1, <2>2 DEF Order, Ended
<1>5. CASE WriterBegins
  <2>1. /\ ~tail /\ tail' /\ written' = written + 1
        /\ UNCHANGED <<waiting, inpQ, handed>>
    BY <1>5 DEF WriterBegins, lineVars
  <2>2. Ended' = Ended
    BY <2>1 DEF Ended, Lines
  <2> QED
    BY <2>1, <2>2 DEF Order, Taken
<1>6. CASE UNCHANGED <<written, tail, waiting, inpQ, handed>>
  BY <1>6 DEF Order, Taken, Ended
<1>7. ASSUME ServerActs \/ ServerHangsUp \/ WriterCloses \/ StdinBreaks \/ ConnectFails
             \/ (\E accepted \in BOOLEAN : Connect(accepted) \/ MonitorStdin(accepted))
             \/ Wait \/ SendKills \/ OnStdinReturns \/ LoopEnds \/ UNCHANGED vars
      PROVE  UNCHANGED <<written, tail, waiting, inpQ, handed>>
  BY <1>7 DEF ServerActs, ServerHangsUp, WriterCloses, StdinBreaks, ConnectFails,
     Connect, MonitorStdin, Wait, SendKills, OnStdinReturns, LoopEnds, stdinVars,
     lineVars, vars
<1>8. ASSUME NEW e, SocketEvent(e) \/ SocketKills(e) \/ StdinEnds(e) \/ StdinError(e)
                    \/ UnknownEvent(e)
      PROVE  UNCHANGED <<written, tail, waiting, inpQ, handed>>
  BY <1>8 DEF SocketEvent, SocketKills, StdinEnds, StdinError, StopMonitoring,
     UnknownEvent, stdinVars, lineVars
<1> QED
  BY <1>2, <1>3, <1>4, <1>5, <1>6, <1>7, <1>8 DEF Next, Program, Handle

LEMMA OrderInit == Init => Order
<1> SUFFICES ASSUME Init
             PROVE  Order
  OBVIOUS
<1>1. handed = <<>> /\ inpQ = <<>> /\ waiting = <<>> /\ Ended = 0
  BY DEF Init, Ended
<1>2. Taken \o waiting = <<>>
  BY <1>1 DEF Taken
<1>3. Numbers(0) = <<>>
  BY DEF Numbers
<1> QED
  BY <1>1, <1>2, <1>3 DEF Order

THEOREM OrderHolds == Spec => []Order
<1>1. Init => Order
  BY OrderInit
<1>2. Types /\ Order /\ [Next]_vars => Order'
  BY OrderKept DEF Types
<1> QED
  BY <1>1, <1>2, TypesHold, PTL DEF Spec

(* Each line of stdin is given to NSock::send once and in order, whatever  *)
(* the server does in between, and none is left in inpQ when the loop goes *)
(* on.                                                                     *)
THEOREM InOrder == Spec => []InputInOrder
<1>1. Inv /\ Order => InputInOrder
  BY DEF Inv, FlowInv, Order, Taken, Numbers, InputInOrder
<1> QED
  BY <1>1, Invariance, OrderHolds, PTL

-----------------------------------------------------------------------------
(* EndLosesNoLine: what is lost was given to NSock::send before.           *)
Given == cut \cup dropped \subseteq Range(handed)

LEMMA GivenKept ==
  ASSUME Lines, Given, [Next]_vars
  PROVE  Given'
<1>1. CASE SendLine
  <2>1. /\ inpQ # <<>> /\ handed' = Append(handed, Head(inpQ))
        /\ cut' \subseteq cut \cup {Head(inpQ)}
        /\ dropped' \subseteq dropped \cup {Head(inpQ)}
    BY <1>1 DEF SendLine
  <2>2. handed \in Seq(Line) /\ Head(inpQ) \in Line
    BY <2>1, Parted DEF Lines
  <2>3. /\ DOMAIN handed = 1 .. Len(handed) /\ Len(handed) \in Nat
        /\ DOMAIN handed' = 1 .. Len(handed) + 1
        /\ \A i \in 1 .. Len(handed) : handed'[i] = handed[i]
        /\ handed'[Len(handed) + 1] = Head(inpQ)
    BY <2>1, <2>2
  <2>4. Range(handed) \cup {Head(inpQ)} \subseteq Range(handed')
    <3>1. Len(handed) + 1 \in DOMAIN handed' /\ DOMAIN handed \subseteq DOMAIN handed'
      BY <2>3
    <3> QED
      BY <2>3, <3>1 DEF Range
  <2> QED
    BY <2>1, <2>4 DEF Given
<1>2. CASE UNCHANGED <<handed, cut, dropped>>
  BY <1>2 DEF Given
<1>3. ASSUME \/ Outside \/ ConnectFails
             \/ \E accepted \in BOOLEAN : Connect(accepted) \/ MonitorStdin(accepted)
             \/ Wait \/ SendKills \/ OnStdinReturns \/ LoopEnds \/ UNCHANGED vars
      PROVE  UNCHANGED <<handed, cut, dropped>>
  BY <1>3 DEF Outside, ServerActs, ServerHangsUp, WriterBegins, WriterEndsLine,
     WriterCloses, StdinBreaks, ConnectFails, Connect, MonitorStdin, Wait, SendKills,
     OnStdinReturns, LoopEnds, lineVars, vars
<1>4. ASSUME Handle
      PROVE  UNCHANGED <<handed, cut, dropped>>
  BY <1>4 DEF Handle, SocketEvent, SocketKills, StdinLine, StdinEnds, StdinError,
     StopMonitoring, UnknownEvent, lineVars
<1> QED
  BY <1>1, <1>2, <1>3, <1>4 DEF Next, Program, Outside

THEOREM GivenHolds == Spec => []Given
<1>1. Init => Given
  BY DEF Init, Given
<1>2. Types /\ Given /\ [Next]_vars => Given'
  BY GivenKept DEF Types
<1> QED
  BY <1>1, <1>2, TypesHold, PTL DEF Spec

(* When the client is done and stdin has not failed, every line of stdin   *)
(* has been given to NSock::send, and those that ::send did not take whole *)
(* are the ones it had no space for and the ones the server's end came     *)
(* before.                                                                 *)
THEOREM NoLineLost == Spec => []EndLosesNoLine
<1>1. ASSUME Inv, Types, Order, Given
      PROVE  EndLosesNoLine
  <2>1. dropped # {} => serverState # "open"
    BY <1>1 DEF Inv, GoneInv
  <2> SUFFICES ASSUME pc = "done", ~broken
               PROVE  1 .. Ended = Sent \cup cut \cup dropped
    BY <2>1 DEF EndLosesNoLine
  <2>2. inpQ = <<>> /\ waiting = <<>>
    BY <1>1 DEF Inv, FlowInv
  <2>3. handed = Numbers(Ended)
    <3>1. handed \in Seq(Line)
      BY <1>1 DEF Types, Lines
    <3> QED
      BY <1>1, <2>2, <3>1, ConcatEmptySeq DEF Order, Taken
  <2>4. Range(handed) = 1 .. Ended
    BY <2>3 DEF Range, Numbers
  <2> QED
    BY <1>1, <2>4 DEF Sent, Given
<1> QED
  BY <1>1, Invariance, TypesHold, OrderHolds, GivenHolds, PTL

=============================================================================
