-------------------------- MODULE EchoServerProofs --------------------------
(***************************************************************************)
(* The safety of EchoServer, for every set of clients and of descriptors:  *)
(* the table of callbacks is current, no event of a batch is stale, every  *)
(* socket has an owner, the first loop leaves nothing but connections, and *)
(* each client's part of every step is a step of its own Connection.       *)
(***************************************************************************)
EXTENDS EchoServer, NPollProofs

(* stdin is in the table only while the loop of the current command server *)
(* runs, and an event for it is one event.                                 *)
StdinInv ==
  /\ Stdin \in DOMAIN fdMap =>
       fdMap[Stdin] = CmdServer[round] /\ pc = "loop" /\ ~exit
  /\ \A e \in batch : e.fd = Stdin => e.file = "stdin"
  /\ batch # {} => pc = "loop"

(* A client has one connection: it waits in the backlog at most once, or   *)
(* has one descriptor.                                                     *)
OneDescriptor ==
  /\ \A f, g \in Fds : files[f] \in Clients /\ files[f] = files[g] => f = g
  /\ \A f \in Fds : files[f] \in Clients => files[f] \in came

OneConnection ==
  /\ \A f \in Fds : files[f] \in Clients => files[f] \notin Range(backlog)
  /\ Range(backlog) \subseteq came
  /\ \A i, j \in 1 .. Len(backlog) : backlog[i] = backlog[j] => i = j

(* The listening socket is the first loop's, and nobody comes before it.   *)
RoundInv ==
  /\ pc = "start" => mListenSock = NoFd /\ round = 1 /\ came = {}
  /\ pc = "exit" => round = 2
  /\ round = 2 => mListenSock = NoFd /\ backlog = <<>>

Inv ==
  /\ TypeOK
  /\ PollInv
  /\ StdinInv
  /\ OneDescriptor /\ OneConnection
  /\ SocketsHaveOwners
  /\ RoundInv

-----------------------------------------------------------------------------
(* The names of the owners are different.                                  *)
LEMMA Owners ==
  /\ \A r \in {1, 2} : /\ CmdServer[r] \in Range(CmdServer)
                       /\ CmdServer[r] \notin Clients \cup {Listener, NoFile}
  /\ Listener \notin Clients \cup {NoFile} /\ NoFile \notin Clients
  /\ NoFd \notin Fds /\ Stdin \notin Fds
<1>1. CmdServer[1] = "stdin 1" /\ CmdServer[2] = "stdin 2"
  BY DEF CmdServer
<1>2. CmdServer[1] \in Range(CmdServer) /\ CmdServer[2] \in Range(CmdServer)
  <2>1. 1 \in DOMAIN CmdServer /\ 2 \in DOMAIN CmdServer
    BY DEF CmdServer
  <2> QED
    BY <2>1 DEF Range
<1>3. \A r \in {1, 2} : CmdServer[r] \notin Clients \cup {Listener, NoFile}
  BY <1>1, ClientsAssumption DEF Listener, NoFile
<1>4. Listener \notin Clients \cup {NoFile} /\ NoFile \notin Clients
  BY ClientsAssumption DEF Listener, NoFile
<1>5. NoFd \notin Fds /\ Stdin \notin Fds
  BY FdsAssumption DEF NoFd, Stdin
<1> QED
  BY <1>2, <1>3, <1>4, <1>5

LEMMA InitInv == Init => Inv
<1> SUFFICES ASSUME Init
             PROVE  Inv
  OBVIOUS
<1> USE DEF Init
<1>1. PollInv
  BY InitPoll
<1>2. /\ files = [fd \in Fds |-> NoFile] /\ interest = {}
      /\ DOMAIN fdMap = {} /\ Range(fdMap) = {} /\ batch = {}
  BY DEF NPollInit, Range
<1>3. NoFile \notin Clients /\ NoFile # Listener /\ NoFd \notin Fds
  BY Owners
<1>4. TypeOK
  <2>1. /\ files \in [Fds -> Clients \cup {Listener, NoFile}]
        /\ interest \subseteq Fds \cup {Stdin}
        /\ DOMAIN fdMap \subseteq Fds \cup {Stdin}
        /\ Range(fdMap) \subseteq Clients \cup {Listener} \cup Range(CmdServer)
        /\ batch \subseteq [fd : Fds \cup {Stdin},
                            file : Clients \cup {Listener, NoFile, "stdin"}]
    BY <1>2
  <2>2. backlog \in Seq(Clients)
    OBVIOUS
  <2> QED
    BY <2>1, <2>2 DEF TypeOK, Inputs
<1>5. StdinInv
  BY <1>2 DEF StdinInv
<1>6. OneDescriptor
  BY <1>2, <1>3 DEF OneDescriptor
<1>7. OneConnection
  BY <1>2, <1>3 DEF OneConnection, Range
<1>8. SocketsHaveOwners /\ RoundInv
  BY <1>2, <1>3 DEF SocketsHaveOwners, RoundInv
<1> QED
  BY <1>1, <1>4, <1>5, <1>6, <1>7, <1>8 DEF Inv

(* Whose event it is tells the descriptor.                                 *)
LEMMA WhoseEvent ==
  ASSUME Inv, NEW e, NEW owner, Found(e, owner)
  PROVE  /\ e \in batch /\ e.fd \in DOMAIN fdMap /\ pc = "loop"
         /\ owner = CmdServer[round] => e.fd = Stdin
         /\ owner \in Clients \cup {Listener} =>
              e.fd \in Fds /\ e.fd # Stdin /\ files[e.fd] = owner
<1>1. e \in batch /\ e.fd \in DOMAIN fdMap /\ fdMap[e.fd] = owner
  BY DEF Found
<1>2. e.fd = Stdin => owner = CmdServer[round]
  BY <1>1 DEF Inv, StdinInv
<1>3. e.fd # Stdin => e.fd \in Fds /\ files[e.fd] = owner
  BY <1>1 DEF Inv, PollInv, TableIsCurrent
<1>4. \A fd \in Fds : files[fd] \in Clients \cup {Listener, NoFile}
  BY DEF Inv, TypeOK
<1>5. pc = "loop"
  BY <1>1 DEF Inv, StdinInv
<1> QED
  BY <1>1, <1>2, <1>3, <1>4, <1>5, Owners DEF Inv, TypeOK

(* When it is taken, the others are for other descriptors.                 *)
LEMMA EventTaken ==
  ASSUME Inv, NEW e, NEW owner, Dispatches(e, owner)
  PROVE  /\ Found(e, owner)
         /\ batch' \subseteq batch /\ \A other \in batch' : other.fd # e.fd
<1>1. Found(e, owner) /\ e \in batch /\ batch' = batch \ {e}
  BY DEF Dispatches, Found
<1>2. \A other \in batch : \E fd, file : other = [fd |-> fd, file |-> file]
  BY DEF Inv, TypeOK
<1>3. PollInv /\ \A other \in batch : other.fd = Stdin => other.file = "stdin"
  BY DEF Inv, StdinInv
<1> QED
  BY <1>1, <1>2, <1>3, OthersWait

-----------------------------------------------------------------------------
(* A step that opens and closes nothing and adds nobody to the backlog.    *)
LEMMA Quiet ==
  ASSUME Inv, TypeOK', UNCHANGED <<files, interest, fdMap, came, backlog>>,
         UNCHANGED <<mListenSock, mConnections, round, exit>>,
         batch' \subseteq batch,
         pc' = pc \/ (pc = "start" /\ pc' \in {"monitor", "dead"})
  PROVE  Inv'
<1>1. PollInv'
  BY DEF Inv, PollInv, TableIsCurrent, NoStaleEvent
<1>2. StdinInv'
  BY DEF Inv, StdinInv
<1>3. OneDescriptor' /\ OneConnection'
  BY DEF Inv, OneDescriptor, OneConnection
<1>4. SocketsHaveOwners'
  BY DEF Inv, SocketsHaveOwners, Held
<1>5. RoundInv'
  BY DEF Inv, RoundInv
<1> QED
  BY <1>1, <1>2, <1>3, <1>4, <1>5 DEF Inv

LEMMA ClientHeldHasCome ==
  ASSUME Inv, NEW c \in Clients, Held(c) \/ Watched(c) \/ c \in Range(backlog)
  PROVE  c \in came
<1>1. \A fd \in interest \ {Stdin} : fd \in Fds
  BY DEF Inv, PollInv, TableIsCurrent
<1> QED
  BY <1>1 DEF Inv, OneDescriptor, OneConnection, Held, Watched

LEMMA ClientActsKeeps ==
  ASSUME Inv, NEW c \in Clients, ClientActs(c) \/ ClientHangsUp(c)
  PROVE  Inv'
<1>1. c \in came
  BY ClientHeldHasCome DEF ClientActs, ClientHangsUp
<1>2. TypeOK'
  BY <1>1 DEF Inv, TypeOK, ClientActs, ClientHangsUp, npollVars, loopVars,
     ownVars, stdinVars
<1> QED
  BY <1>2, Quiet
     DEF ClientActs, ClientHangsUp, npollVars, loopVars, ownVars, stdinVars

LEMMA WriterKeeps ==
  ASSUME Inv, WriterBegins \/ WriterEndsLine \/ WriterCloses
  PROVE  Inv'
<1>1. TypeOK'
  BY DEF Inv, TypeOK, WriterBegins, WriterEndsLine, WriterCloses, npollVars,
     loopVars, ownVars, clientVars, Inputs
<1> QED
  BY <1>1, Quiet DEF WriterBegins, WriterEndsLine, WriterCloses, npollVars,
     loopVars, ownVars, clientVars

LEMMA ListenFailsKeeps ==
  ASSUME Inv, ListenFails
  PROVE  Inv'
<1>1. TypeOK'
  BY DEF Inv, TypeOK, ListenFails, npollVars, ownVars, clientVars, stdinVars
<1> QED
  BY <1>1, Quiet DEF ListenFails, npollVars, ownVars, clientVars, stdinVars

(* The callbacks that open and close nothing.                              *)
LEMMA CallbackKeeps ==
  ASSUME Inv, NEW e,
         \/ AcceptRefused(e)
         \/ \E c \in Clients : ConnServed(e, c)
         \/ StdinRequest(e)
  PROVE  Inv'
<1>1. batch' \subseteq batch
  BY DEF AcceptRefused, ConnServed, StdinRequest, Dispatches
<1>2. /\ UNCHANGED <<files, interest, fdMap, came, backlog>>
      /\ UNCHANGED <<mListenSock, mConnections, round, exit, pc>>
  BY DEF AcceptRefused, ConnServed, StdinRequest, loopVars, ownVars, clientVars
<1>3. /\ UNCHANGED <<refused, hung, armed, stdinClosed>>
      /\ typed' \in Inputs
  BY DEF Inv, TypeOK, Inputs, AcceptRefused, ConnServed, StdinRequest, ownVars,
     clientVars, stdinVars
<1>4. TypeOK'
  BY <1>1, <1>2, <1>3 DEF Inv, TypeOK
<1> QED
  BY <1>1, <1>2, <1>4, Quiet

LEMMA DieKeeps ==
  ASSUME Inv, NEW how \in {"dead", "crashed"}, Die(how)
  PROVE  Inv'
<1>1. /\ files' = [fd \in Fds |-> NoFile] /\ interest' = {}
      /\ DOMAIN fdMap' = {} /\ Range(fdMap') = {} /\ batch' = {}
      /\ backlog' = <<>> /\ mConnections' = {} /\ mListenSock' = NoFd
      /\ pc' = how /\ UNCHANGED <<round, came>>
  BY DEF Die, Range
<1>2. TypeOK'
  BY <1>1 DEF Inv, TypeOK, Die, stdinVars
<1>3. PollInv'
  BY <1>1 DEF PollInv, TableIsCurrent, NoStaleEvent
<1>4. StdinInv' /\ RoundInv'
  BY <1>1 DEF Inv, StdinInv, RoundInv
<1>5. OneDescriptor' /\ OneConnection'
  BY <1>1, Owners DEF OneDescriptor, OneConnection, Range
<1>6. SocketsHaveOwners'
  BY <1>1, Owners DEF SocketsHaveOwners
<1> QED
  BY <1>2, <1>3, <1>4, <1>5, <1>6 DEF Inv

-----------------------------------------------------------------------------
(* The steps that change the backlog alone.                                *)

LEMMA ClientConnectsKeeps ==
  ASSUME Inv, NEW c \in Clients, ClientConnects(c)
  PROVE  Inv'
<1>1. /\ c \notin came /\ came' = came \cup {c} /\ backlog' = Append(backlog, c)
      /\ UNCHANGED <<files, interest, fdMap, batch, pc, round, exit>>
      /\ UNCHANGED <<mListenSock, mConnections, refused, hung, armed, typed,
                     stdinClosed>>
  BY DEF ClientConnects, npollVars, loopVars, ownVars, stdinVars
<1>2. backlog \in Seq(Clients) /\ came \subseteq Clients
      /\ hung \subseteq came /\ armed \subseteq came
  BY DEF Inv, TypeOK
<1>3. TypeOK'
  <2>1. backlog' \in Seq(Clients) /\ came' \subseteq Clients
        /\ hung' \subseteq came' /\ armed' \subseteq came'
    BY <1>1, <1>2
  <2> QED
    BY <1>1, <2>1 DEF Inv, TypeOK
<1>4. PollInv' /\ StdinInv' /\ SocketsHaveOwners'
  BY <1>1 DEF Inv, PollInv, TableIsCurrent, NoStaleEvent, StdinInv,
     SocketsHaveOwners, Held
<1>5. OneDescriptor'
  BY <1>1 DEF Inv, OneDescriptor
<1>6. /\ Len(backlog') = Len(backlog) + 1 /\ Len(backlog) \in Nat
      /\ \A i \in 1 .. Len(backlog) : backlog'[i] = backlog[i]
      /\ backlog'[Len(backlog')] = c
      /\ DOMAIN backlog = 1 .. Len(backlog)
      /\ DOMAIN backlog' = 1 .. Len(backlog')
  BY <1>1, <1>2
<1>7. \A i \in 1 .. Len(backlog) : backlog[i] \in came
  BY <1>6 DEF Inv, OneConnection, Range
<1>8. OneConnection'
  <2>1. \A i \in 1 .. Len(backlog') :
          \/ i \in 1 .. Len(backlog) /\ backlog'[i] = backlog[i]
          \/ i = Len(backlog') /\ backlog'[i] = c
    BY <1>6
  <2>2. Range(backlog') \subseteq Range(backlog) \cup {c}
    BY <1>6, <2>1 DEF Range
  <2>3. Range(backlog') \subseteq came'
    BY <1>1, <2>2 DEF Inv, OneConnection
  <2>4. \A f \in Fds : files'[f] \in Clients => files'[f] \notin Range(backlog')
    BY <1>1, <2>2 DEF Inv, OneDescriptor, OneConnection
  <2>5. \A i, j \in 1 .. Len(backlog') : backlog'[i] = backlog'[j] => i = j
    BY <1>1, <1>7, <2>1 DEF Inv, OneConnection
  <2> QED
    BY <2>3, <2>4, <2>5 DEF OneConnection
<1>9. RoundInv'
  <2>1. mListenSock # NoFd
    BY Owners DEF ClientConnects, Held, Inv, SocketsHaveOwners
  <2> QED
    BY <1>1, <2>1 DEF Inv, RoundInv
<1> QED
  BY <1>3, <1>4, <1>5, <1>8, <1>9 DEF Inv

(* What is left of the backlog when its first client has been taken.       *)
LEMMA TakeFirst ==
  ASSUME Inv, backlog # <<>>, backlog' = Tail(backlog)
  PROVE  /\ Head(backlog) \in Clients /\ Head(backlog) \in came
         /\ \A f \in Fds : files[f] # Head(backlog)
         /\ backlog' \in Seq(Clients)
         /\ Range(backlog') \subseteq Range(backlog) \ {Head(backlog)}
         /\ \A i, j \in 1 .. Len(backlog') : backlog'[i] = backlog'[j] => i = j
         /\ round = 1
<1>1. backlog \in Seq(Clients)
  BY DEF Inv, TypeOK
<1>2. /\ Len(backlog) \in Nat /\ Len(backlog) >= 1
      /\ DOMAIN backlog = 1 .. Len(backlog)
      /\ backlog[1] = Head(backlog) /\ Head(backlog) \in Clients
      /\ backlog' \in Seq(Clients)
      /\ Len(backlog') = Len(backlog) - 1
      /\ DOMAIN backlog' = 1 .. Len(backlog')
      /\ \A i \in 1 .. Len(backlog') : backlog'[i] = backlog[i + 1]
  BY <1>1
<1>3. Head(backlog) \in Range(backlog)
  BY <1>2 DEF Range
<1>4. \A i, j \in 1 .. Len(backlog) : backlog[i] = backlog[j] => i = j
  BY DEF Inv, OneConnection
<1>5. \A i \in 1 .. Len(backlog') :
        backlog'[i] \in Range(backlog) /\ backlog'[i] # Head(backlog)
  <2> SUFFICES ASSUME NEW i \in 1 .. Len(backlog')
               PROVE  backlog'[i] \in Range(backlog) /\ backlog'[i] # Head(backlog)
    OBVIOUS
  <2>1. i + 1 \in 1 .. Len(backlog) /\ i + 1 # 1 /\ 1 \in 1 .. Len(backlog)
    BY <1>2
  <2> QED
    BY <1>2, <1>4, <2>1 DEF Range
<1>6. Range(backlog') \subseteq Range(backlog) \ {Head(backlog)}
  BY <1>2, <1>5 DEF Range
<1>7. \A i, j \in 1 .. Len(backlog') : backlog'[i] = backlog'[j] => i = j
  BY <1>2, <1>4
<1>8. Head(backlog) \in came /\ \A f \in Fds : files[f] # Head(backlog)
  BY <1>2, <1>3 DEF Inv, OneConnection
<1>9. round = 1
  BY DEF Inv, TypeOK, RoundInv
<1> QED
  BY <1>2, <1>6, <1>7, <1>8, <1>9

LEMMA AcceptFailsKeeps ==
  ASSUME Inv, NEW e, AcceptFails(e)
  PROVE  Inv'
<1>1. backlog # <<>> /\ backlog' = Tail(backlog)
  BY DEF AcceptFails
<1>2. /\ UNCHANGED <<files, interest, fdMap, pc, round, exit, came, armed>>
      /\ UNCHANGED <<mListenSock, mConnections, refused, typed, stdinClosed>>
      /\ batch' \subseteq batch /\ hung' \subseteq hung
  BY DEF AcceptFails, Dispatches, loopVars, ownVars, stdinVars
<1>3. TypeOK'
  BY <1>1, <1>2, TakeFirst DEF Inv, TypeOK
<1>4. PollInv' /\ StdinInv' /\ SocketsHaveOwners'
  BY <1>2 DEF Inv, PollInv, TableIsCurrent, NoStaleEvent, StdinInv,
     SocketsHaveOwners, Held
<1>5. OneDescriptor'
  BY <1>2 DEF Inv, OneDescriptor
<1>6. OneConnection'
  BY <1>1, <1>2, TakeFirst DEF Inv, OneConnection
<1>7. RoundInv'
  BY <1>1, <1>2, TakeFirst DEF Inv, RoundInv
<1> QED
  BY <1>3, <1>4, <1>5, <1>6, <1>7 DEF Inv

-----------------------------------------------------------------------------
(* The steps that add to the table.                                        *)

(* A new socket of owner, watched if epoll accepts it.                     *)
LEMMA Opens ==
  ASSUME Inv, Free # {}, NEW owner \in Clients \cup {Listener},
         NEW accepted \in BOOLEAN, AddFd(Lowest, owner, accepted),
         files' = [files EXCEPT ![Lowest] = owner], batch' \subseteq batch
  PROVE  /\ PollInv'
         /\ files' \in [Fds -> Clients \cup {Listener, NoFile}]
         /\ interest' \subseteq Fds \cup {Stdin}
         /\ DOMAIN fdMap' \subseteq Fds \cup {Stdin}
         /\ Range(fdMap') \subseteq Clients \cup {Listener} \cup Range(CmdServer)
         /\ \A fd \in DOMAIN fdMap :
              fd \in DOMAIN fdMap' /\ fdMap'[fd] = fdMap[fd]
         /\ Stdin \in DOMAIN fdMap' => Stdin \in DOMAIN fdMap
         /\ Lowest \in Fds /\ files[Lowest] = NoFile /\ files'[Lowest] = owner
         /\ \A fd \in Fds \ {Lowest} : files'[fd] = files[fd]
<1>1. PollInv /\ owner # NoFile
  BY Owners DEF Inv
<1>2. /\ PollInv'
      /\ files'[Lowest] = owner
      /\ \A fd \in Fds \ {Lowest} : files'[fd] = files[fd]
      /\ DOMAIN fdMap' = DOMAIN fdMap \cup (IF accepted THEN {Lowest} ELSE {})
      /\ \A fd \in DOMAIN fdMap : fdMap'[fd] = fdMap[fd]
      /\ accepted => fdMap'[Lowest] = owner
  BY <1>1, OpenKeeps
<1>3. Lowest \in Fds /\ files[Lowest] = NoFile /\ Lowest # Stdin
  BY <1>1, LowestIsFresh
<1> HIDE DEF Lowest
<1>4. files' \in [Fds -> Clients \cup {Listener, NoFile}]
  BY DEF Inv, TypeOK
<1>5. DOMAIN fdMap' \subseteq Fds \cup {Stdin}
  BY <1>2, <1>3 DEF Inv, TypeOK
<1>6. interest' = DOMAIN fdMap'
  BY <1>2 DEF PollInv, TableIsCurrent
<1>7. Range(fdMap') \subseteq Range(fdMap) \cup {owner}
  BY <1>2 DEF Range
<1>8. Range(fdMap') \subseteq Clients \cup {Listener} \cup Range(CmdServer)
  BY <1>7 DEF Inv, TypeOK
<1> QED
  BY <1>2, <1>3, <1>4, <1>5, <1>6, <1>8

LEMMA ListenKeeps ==
  ASSUME Inv, NEW accepted \in BOOLEAN, Listen(accepted)
  PROVE  Inv'
<1> DEFINE l == Lowest
<1>1. /\ pc = "start" /\ Free # {} /\ pc' = "monitor" /\ mListenSock' = l
      /\ AddFd(l, Listener, accepted)
      /\ files' = [files EXCEPT ![l] = Listener]
      /\ UNCHANGED <<batch, round, exit, mConnections, came, backlog, hung, armed,
                     typed, stdinClosed>>
      /\ refused' = IF accepted THEN refused ELSE refused \cup {Listener}
  BY DEF Listen, clientVars, stdinVars
<1>2. /\ PollInv'
      /\ files' \in [Fds -> Clients \cup {Listener, NoFile}]
      /\ interest' \subseteq Fds \cup {Stdin}
      /\ DOMAIN fdMap' \subseteq Fds \cup {Stdin}
      /\ Range(fdMap') \subseteq Clients \cup {Listener} \cup Range(CmdServer)
      /\ \A fd \in DOMAIN fdMap : fd \in DOMAIN fdMap' /\ fdMap'[fd] = fdMap[fd]
      /\ Stdin \in DOMAIN fdMap' => Stdin \in DOMAIN fdMap
      /\ l \in Fds /\ files[l] = NoFile /\ files'[l] = Listener
      /\ \A fd \in Fds \ {l} : files'[fd] = files[fd]
  BY <1>1, Opens
<1> HIDE DEF l
<1>3. TypeOK'
  <2>1. refused' \subseteq Clients \cup {Listener} \cup Range(CmdServer)
    BY <1>1 DEF Inv, TypeOK
  <2> QED
    BY <1>1, <1>2, <2>1 DEF Inv, TypeOK
<1>4. mListenSock = NoFd /\ round = 1 /\ Stdin \notin DOMAIN fdMap /\ batch = {}
  BY <1>1 DEF Inv, RoundInv, StdinInv
<1>5. StdinInv' /\ RoundInv'
  BY <1>1, <1>2, <1>4 DEF StdinInv, RoundInv
<1>6. \A fd \in Fds : files[fd] # Listener
  BY <1>4, Owners DEF Inv, SocketsHaveOwners
<1>7. OneDescriptor' /\ OneConnection'
  BY <1>1, <1>2, Owners DEF Inv, OneDescriptor, OneConnection
<1>8. SocketsHaveOwners'
  <2>1. \A fd \in Fds : files'[fd] = Listener <=> mListenSock' = fd
    BY <1>1, <1>2, <1>6
  <2>2. \A fd \in Fds : files'[fd] \in Clients =>
          files'[fd] \in mConnections' \/ fd \in DOMAIN fdMap'
    BY <1>1, <1>2, Owners DEF Inv, SocketsHaveOwners
  <2>3. \A c \in mConnections' : Held(c)'
    <3> SUFFICES ASSUME NEW c \in mConnections
                 PROVE  \E fd \in Fds : files'[fd] = c
      BY <1>1 DEF Held
    <3>1. PICK fd \in Fds : files[fd] = c
      BY DEF Inv, SocketsHaveOwners, Held
    <3>2. c # NoFile
      BY Owners DEF Inv, TypeOK
    <3> QED
      BY <1>2, <3>1, <3>2
  <2> QED
    BY <2>1, <2>2, <2>3 DEF SocketsHaveOwners
<1> QED
  BY <1>2, <1>3, <1>5, <1>7, <1>8 DEF Inv

LEMMA AcceptKeeps ==
  ASSUME Inv, NEW e, NEW accepted \in BOOLEAN, Accept(e, accepted)
  PROVE  Inv'
<1> DEFINE l == Lowest
           c == Head(backlog)
<1>1. /\ backlog # <<>> /\ backlog' = Tail(backlog) /\ Free # {}
      /\ AddFd(l, c, accepted)
      /\ files' = [files EXCEPT ![l] = c]
      /\ batch' \subseteq batch /\ mConnections' = mConnections \cup {c}
      /\ UNCHANGED <<pc, round, exit, mListenSock, came, hung, typed, stdinClosed>>
      /\ refused' = IF accepted THEN refused ELSE refused \cup {c}
      /\ armed' = IF accepted THEN armed \cup {c} ELSE armed
  BY DEF Accept, Dispatches, loopVars, stdinVars
<1>2. /\ c \in Clients /\ c \in came
      /\ \A f \in Fds : files[f] # c
      /\ backlog' \in Seq(Clients)
      /\ Range(backlog') \subseteq Range(backlog) \ {c}
      /\ \A i, j \in 1 .. Len(backlog') : backlog'[i] = backlog'[j] => i = j
      /\ round = 1
  BY <1>1, TakeFirst
<1>3. /\ PollInv'
      /\ files' \in [Fds -> Clients \cup {Listener, NoFile}]
      /\ interest' \subseteq Fds \cup {Stdin}
      /\ DOMAIN fdMap' \subseteq Fds \cup {Stdin}
      /\ Range(fdMap') \subseteq Clients \cup {Listener} \cup Range(CmdServer)
      /\ \A fd \in DOMAIN fdMap : fd \in DOMAIN fdMap' /\ fdMap'[fd] = fdMap[fd]
      /\ Stdin \in DOMAIN fdMap' => Stdin \in DOMAIN fdMap
      /\ l \in Fds /\ files[l] = NoFile /\ files'[l] = c
      /\ \A fd \in Fds \ {l} : files'[fd] = files[fd]
  BY <1>1, <1>2, Opens
<1> HIDE DEF l, c
<1>4. TypeOK'
  <2>1. /\ refused' \subseteq Clients \cup {Listener} \cup Range(CmdServer)
        /\ armed' \subseteq came /\ mConnections' \subseteq Clients
    BY <1>1, <1>2 DEF Inv, TypeOK
  <2> QED
    BY <1>1, <1>2, <1>3, <2>1 DEF Inv, TypeOK
<1>5. StdinInv'
  <2>1. /\ Stdin \in DOMAIN fdMap =>
            fdMap[Stdin] = CmdServer[round] /\ pc = "loop" /\ ~exit
        /\ \A other \in batch : other.fd = Stdin => other.file = "stdin"
        /\ batch # {} => pc = "loop"
    BY DEF Inv, StdinInv
  <2> QED
    BY <1>1, <1>3, <2>1 DEF StdinInv
<1>6. RoundInv'
  BY <1>1, <1>2 DEF Inv, RoundInv
<1>7. OneDescriptor'
  <2>1. \A f \in Fds : files'[f] \in Clients => files'[f] \in came'
    BY <1>1, <1>2, <1>3 DEF Inv, OneDescriptor
  <2>2. \A f, g \in Fds : files'[f] \in Clients /\ files'[f] = files'[g] => f = g
    BY <1>2, <1>3 DEF Inv, OneDescriptor
  <2> QED
    BY <2>1, <2>2 DEF OneDescriptor
<1>8. OneConnection'
  BY <1>1, <1>2, <1>3 DEF Inv, OneConnection
<1>9. SocketsHaveOwners'
  <2>1. \A fd \in Fds : files'[fd] = Listener <=> mListenSock' = fd
    BY <1>1, <1>2, <1>3, Owners DEF Inv, SocketsHaveOwners
  <2>2. \A fd \in Fds : files'[fd] \in Clients =>
          files'[fd] \in mConnections' \/ fd \in DOMAIN fdMap'
    BY <1>1, <1>3 DEF Inv, SocketsHaveOwners
  <2>3. \A d \in mConnections' : Held(d)'
    <3> SUFFICES ASSUME NEW d \in mConnections \cup {c}
                 PROVE  \E fd \in Fds : files'[fd] = d
      BY <1>1 DEF Held
    <3>1. CASE d = c
      BY <1>3, <3>1
    <3>2. CASE d \in mConnections
      <4>1. PICK fd \in Fds : files[fd] = d
        BY <3>2 DEF Inv, SocketsHaveOwners, Held
      <4>2. d # NoFile
        BY <3>2, Owners DEF Inv, TypeOK
      <4> QED
        BY <1>3, <4>1, <4>2
    <3> QED
      BY <3>1, <3>2
  <2> QED
    BY <2>1, <2>2, <2>3 DEF SocketsHaveOwners
<1> QED
  BY <1>3, <1>4, <1>5, <1>6, <1>7, <1>8, <1>9 DEF Inv

LEMMA MonitorStdinKeeps ==
  ASSUME Inv, NEW accepted \in BOOLEAN, MonitorStdin(accepted)
  PROVE  Inv'
<1> DEFINE owner == CmdServer[round]
<1>1. /\ pc = "monitor" /\ pc' = "loop" /\ exit' = FALSE
      /\ AddFd(Stdin, owner, accepted)
      /\ UNCHANGED <<files, batch, round, mListenSock, mConnections>>
      /\ UNCHANGED <<came, backlog, hung, armed, typed, stdinClosed>>
      /\ refused' = IF accepted THEN refused ELSE refused \cup {owner}
  BY DEF MonitorStdin, clientVars, stdinVars
<1>2. owner \in Range(CmdServer) /\ owner # NoFile
  BY Owners DEF Inv, TypeOK
<1>3. Stdin \notin DOMAIN fdMap /\ batch = {} /\ PollInv
  BY <1>1 DEF Inv, StdinInv
<1> HIDE DEF owner
<1>4. /\ PollInv'
      /\ DOMAIN fdMap' = DOMAIN fdMap \cup (IF accepted THEN {Stdin} ELSE {})
      /\ \A fd \in DOMAIN fdMap : fdMap'[fd] = fdMap[fd]
      /\ accepted => fdMap'[Stdin] = owner
  BY <1>1, <1>2, <1>3, AddStdinKeeps
<1>5. TypeOK'
  <2>1. DOMAIN fdMap' \subseteq Fds \cup {Stdin}
    BY <1>4 DEF Inv, TypeOK
  <2>2. interest' \subseteq Fds \cup {Stdin}
    BY <1>4, <2>1 DEF PollInv, TableIsCurrent
  <2>3. Range(fdMap') \subseteq Range(fdMap) \cup {owner}
    BY <1>4 DEF Range
  <2>4. /\ Range(fdMap') \subseteq Clients \cup {Listener} \cup Range(CmdServer)
        /\ refused' \subseteq Clients \cup {Listener} \cup Range(CmdServer)
    BY <1>1, <1>2, <2>3 DEF Inv, TypeOK
  <2> QED
    BY <1>1, <2>1, <2>2, <2>4 DEF Inv, TypeOK
<1>6. StdinInv'
  BY <1>1, <1>3, <1>4 DEF StdinInv, owner
<1>7. RoundInv'
  BY <1>1 DEF Inv, RoundInv
<1>8. OneDescriptor' /\ OneConnection'
  BY <1>1 DEF Inv, OneDescriptor, OneConnection
<1>9. SocketsHaveOwners'
  BY <1>1, <1>4 DEF Inv, SocketsHaveOwners, Held
<1> QED
  BY <1>4, <1>5, <1>6, <1>7, <1>8, <1>9 DEF Inv

LEMMA WaitsKeep ==
  ASSUME Inv, Wait
  PROVE  Inv'
<1>1. /\ pc = "loop" /\ WaitForEvents(Events)
      /\ UNCHANGED <<files, interest, fdMap, pc, round, exit, came, backlog, hung>>
      /\ UNCHANGED <<mListenSock, mConnections, refused, typed, stdinClosed>>
      /\ armed' \subseteq armed
  BY DEF Wait, loopVars, ownVars, stdinVars
<1>2. \A e \in Events : \E fd \in interest :
        e = [fd |-> fd, file |-> IF fd = Stdin THEN "stdin" ELSE files[fd]]
  BY DEF Events, Event
<1>3. \A e \in Events : e.fd \in interest /\ (e.fd # Stdin => files[e.fd] = e.file)
  BY <1>2
<1>4. PollInv' /\ batch' \subseteq Events
  BY <1>1, <1>3, WaitKeeps DEF Inv
<1>5. TypeOK'
  <2>1. \A fd \in interest \ {Stdin} :
          fd \in Fds /\ files[fd] \in Clients \cup {Listener, NoFile}
    BY DEF Inv, TypeOK
  <2>2. Events \subseteq [fd : Fds \cup {Stdin},
                          file : Clients \cup {Listener, NoFile, "stdin"}]
    BY <1>2, <2>1
  <2> QED
    BY <1>1, <1>4, <2>2 DEF Inv, TypeOK
<1>6. StdinInv'
  BY <1>1, <1>2, <1>4 DEF Inv, StdinInv
<1>7. RoundInv'
  BY <1>1 DEF Inv, RoundInv
<1>8. OneDescriptor' /\ OneConnection'
  BY <1>1 DEF Inv, OneDescriptor, OneConnection
<1>9. SocketsHaveOwners'
  BY <1>1 DEF Inv, SocketsHaveOwners, Held
<1> QED
  BY <1>4, <1>5, <1>6, <1>7, <1>8, <1>9 DEF Inv

-----------------------------------------------------------------------------
(* The steps that take from the table.                                     *)

(* The types of what is left when descriptors have been closed.            *)
LEMMA Closes ==
  ASSUME Inv, NEW S, EndFds(S),
         batch' \subseteq batch, \A e \in batch' : e.fd \notin S
  PROVE  /\ PollInv'
         /\ files' \in [Fds -> Clients \cup {Listener, NoFile}]
         /\ interest' \subseteq Fds \cup {Stdin}
         /\ DOMAIN fdMap' \subseteq Fds \cup {Stdin}
         /\ Range(fdMap') \subseteq Clients \cup {Listener} \cup Range(CmdServer)
         /\ \A fd \in Fds : files'[fd] = IF fd \in S THEN NoFile ELSE files[fd]
         /\ DOMAIN fdMap' = DOMAIN fdMap \ S
         /\ \A fd \in DOMAIN fdMap \ S : fdMap'[fd] = fdMap[fd]
<1>1. /\ PollInv'
      /\ \A fd \in Fds : files'[fd] = IF fd \in S THEN NoFile ELSE files[fd]
      /\ DOMAIN fdMap' = DOMAIN fdMap \ S
      /\ \A fd \in DOMAIN fdMap \ S : fdMap'[fd] = fdMap[fd]
  BY EndFdsKeeps DEF Inv
<1>2. files' \in [Fds -> Clients \cup {Listener, NoFile}]
  BY DEF Inv, TypeOK, EndFds
<1>3. DOMAIN fdMap' \subseteq Fds \cup {Stdin} /\ interest' = DOMAIN fdMap'
  BY <1>1 DEF Inv, TypeOK, PollInv, TableIsCurrent
<1>4. Range(fdMap') \subseteq Range(fdMap)
  BY <1>1 DEF Range
<1> QED
  BY <1>1, <1>2, <1>3, <1>4 DEF Inv, TypeOK

LEMMA ConnEndsKeeps ==
  ASSUME Inv, NEW e, NEW c \in Clients, ConnEnds(e, c)
  PROVE  Inv'
<1> DEFINE fd == e.fd
           S == {fd}
<1>1. /\ EndFds(S) /\ mConnections' = mConnections \ {c}
      /\ armed' \subseteq armed /\ hung' \subseteq hung
      /\ UNCHANGED <<pc, round, exit, mListenSock, refused, came, backlog, typed,
                     stdinClosed>>
  BY DEF ConnEnds, loopVars, stdinVars
<1>2. Dispatches(e, c)
  BY DEF ConnEnds
<1>3. Found(e, c) /\ batch' \subseteq batch /\ \A other \in batch' : other.fd # fd
  BY <1>2, EventTaken
<1>4. fd \in Fds /\ fd # Stdin /\ files[fd] = c
  BY <1>3, WhoseEvent
<1>5. \A other \in batch' : other.fd \notin S
  BY <1>3
<1>6. S = {fd}
  OBVIOUS
<1> HIDE DEF fd, S
<1>7. /\ PollInv'
      /\ files' \in [Fds -> Clients \cup {Listener, NoFile}]
      /\ interest' \subseteq Fds \cup {Stdin}
      /\ DOMAIN fdMap' \subseteq Fds \cup {Stdin}
      /\ Range(fdMap') \subseteq Clients \cup {Listener} \cup Range(CmdServer)
      /\ \A f \in Fds : files'[f] = IF f \in S THEN NoFile ELSE files[f]
      /\ DOMAIN fdMap' = DOMAIN fdMap \ S
      /\ \A f \in DOMAIN fdMap \ S : fdMap'[f] = fdMap[f]
  BY <1>1, <1>3, <1>5, Closes
<1>8. TypeOK'
  <2>1. batch' \subseteq [fd : Fds \cup {Stdin},
                          file : Clients \cup {Listener, NoFile, "stdin"}]
    BY <1>3 DEF Inv, TypeOK
  <2> QED
    BY <1>1, <1>7, <2>1 DEF Inv, TypeOK
<1>9. StdinInv'
  BY <1>1, <1>3, <1>4, <1>6, <1>7 DEF Inv, StdinInv
<1>10. RoundInv'
  BY <1>1 DEF Inv, RoundInv
<1>11. OneDescriptor' /\ OneConnection'
  BY <1>1, <1>7, Owners DEF Inv, OneDescriptor, OneConnection
<1>12. \A f \in Fds : files[f] = c => f = fd
  BY <1>4 DEF Inv, OneDescriptor
<1>13. SocketsHaveOwners'
  <2>1. \A f \in Fds : files'[f] = Listener <=> mListenSock' = f
    BY <1>1, <1>4, <1>6, <1>7, Owners DEF Inv, SocketsHaveOwners
  <2>2. \A f \in Fds : files'[f] \in Clients =>
          files'[f] \in mConnections' \/ f \in DOMAIN fdMap'
    <3> SUFFICES ASSUME NEW f \in Fds, files'[f] \in Clients
                 PROVE  files'[f] \in mConnections' \/ f \in DOMAIN fdMap'
      OBVIOUS
    <3>1. f # fd /\ files'[f] = files[f]
      BY <1>6, <1>7, Owners
    <3>2. files[f] # c
      BY <1>12, <3>1
    <3>3. files[f] \in mConnections \/ f \in DOMAIN fdMap
      BY <3>1 DEF Inv, SocketsHaveOwners
    <3> QED
      BY <1>1, <1>6, <1>7, <3>1, <3>2, <3>3
  <2>3. \A d \in mConnections' : Held(d)'
    <3> SUFFICES ASSUME NEW d \in mConnections \ {c}
                 PROVE  \E f \in Fds : files'[f] = d
      BY <1>1 DEF Held
    <3>1. PICK f \in Fds : files[f] = d
      BY DEF Inv, SocketsHaveOwners, Held
    <3> QED
      BY <1>4, <1>6, <1>7, <3>1
  <2> QED
    BY <2>1, <2>2, <2>3 DEF SocketsHaveOwners
<1> QED
  BY <1>7, <1>8, <1>9, <1>10, <1>11, <1>13 DEF Inv

LEMMA StdinEndsKeeps ==
  ASSUME Inv, NEW e, StdinEnds(e)
  PROVE  Inv'
<1>1. /\ RemoveFd(Stdin) /\ typed' = "nothing"
      /\ UNCHANGED <<files, pc, round, mListenSock, mConnections, refused>>
      /\ UNCHANGED <<came, backlog, hung, armed, stdinClosed>>
      /\ exit' = TRUE
  BY DEF StdinEnds, StopMonitoring, ownVars, clientVars
<1>2. Dispatches(e, CmdServer[round])
  BY DEF StdinEnds
<1>3. /\ Found(e, CmdServer[round])
      /\ batch' \subseteq batch /\ \A other \in batch' : other.fd # e.fd
  BY <1>2, EventTaken
<1>4. e.fd = Stdin
  BY <1>3, WhoseEvent
<1>5. PollInv /\ \A other \in batch' : other.fd # Stdin
  BY <1>3, <1>4 DEF Inv
<1>6. /\ PollInv'
      /\ DOMAIN fdMap' = DOMAIN fdMap \ {Stdin}
      /\ \A fd \in DOMAIN fdMap \ {Stdin} : fdMap'[fd] = fdMap[fd]
  BY <1>1, <1>3, <1>5, RemoveStdinKeeps
<1>7. TypeOK'
  <2>1. DOMAIN fdMap' \subseteq Fds \cup {Stdin} /\ interest' = DOMAIN fdMap'
    BY <1>6 DEF Inv, TypeOK, PollInv, TableIsCurrent
  <2>2. Range(fdMap') \subseteq Range(fdMap)
    BY <1>6 DEF Range
  <2> QED
    BY <1>1, <1>3, <2>1, <2>2 DEF Inv, TypeOK, Inputs
<1>8. StdinInv'
  BY <1>1, <1>3, <1>6 DEF Inv, StdinInv
<1>9. RoundInv'
  BY <1>1 DEF Inv, RoundInv
<1>10. OneDescriptor' /\ OneConnection'
  BY <1>1 DEF Inv, OneDescriptor, OneConnection
<1>11. SocketsHaveOwners'
  BY <1>1, <1>6, Owners DEF Inv, SocketsHaveOwners, Held
<1> QED
  BY <1>6, <1>7, <1>8, <1>9, <1>10, <1>11 DEF Inv

LEMMA LoopEndsKeeps ==
  ASSUME Inv, LoopEnds
  PROVE  Inv'
<1> DEFINE S == Unwatched \cup ({mListenSock} \ {NoFd})
<1>1. /\ pc = "loop" /\ batch = {} /\ exit /\ EndFds(S)
      /\ mConnections' = {} /\ mListenSock' = NoFd /\ backlog' = <<>>
      /\ hung' \subseteq hung
      /\ pc' \in {"monitor", "exit"} /\ round' = 2
      /\ UNCHANGED <<batch, exit, refused, came, armed, typed, stdinClosed>>
  BY DEF LoopEnds, stdinVars, Inv, TypeOK
<1>2. S \subseteq Fds
  BY DEF Unwatched, Inv, TypeOK
<1>3. mListenSock \in Fds => mListenSock \in S
  BY Owners
<1>4. \A f \in Fds \ S : ~(files[f] \in mConnections \ Range(fdMap))
  BY DEF Unwatched
<1> HIDE DEF S
<1>5. /\ PollInv'
      /\ files' \in [Fds -> Clients \cup {Listener, NoFile}]
      /\ interest' \subseteq Fds \cup {Stdin}
      /\ DOMAIN fdMap' \subseteq Fds \cup {Stdin}
      /\ Range(fdMap') \subseteq Clients \cup {Listener} \cup Range(CmdServer)
      /\ \A f \in Fds : files'[f] = IF f \in S THEN NoFile ELSE files[f]
      /\ DOMAIN fdMap' = DOMAIN fdMap \ S
      /\ \A f \in DOMAIN fdMap \ S : fdMap'[f] = fdMap[f]
  BY <1>1, Closes
<1>6. TypeOK'
  BY <1>1, <1>5 DEF Inv, TypeOK
<1>7. Stdin \notin DOMAIN fdMap'
  BY <1>1, <1>5 DEF Inv, StdinInv
<1>8. StdinInv' /\ RoundInv'
  BY <1>1, <1>7 DEF StdinInv, RoundInv
<1>9. OneDescriptor'
  BY <1>1, <1>5, Owners DEF Inv, OneDescriptor
<1>10. OneConnection'
  BY <1>1 DEF OneConnection, Range
<1>11. SocketsHaveOwners'
  <2>1. \A f \in Fds : files'[f] # Listener
    BY <1>3, <1>5, Owners DEF Inv, SocketsHaveOwners
  <2>2. \A f \in Fds : files'[f] \in Clients => f \in DOMAIN fdMap'
    <3> SUFFICES ASSUME NEW f \in Fds, files'[f] \in Clients
                 PROVE  f \in DOMAIN fdMap
      BY <1>5, Owners
    <3>1. f \notin S /\ files[f] \in Clients
      BY <1>5, Owners
    <3>2. CASE files[f] \in Range(fdMap)
      <4>1. PICK g \in DOMAIN fdMap : fdMap[g] = files[f]
        BY <3>2 DEF Range
      <4>2. g # Stdin
        BY <1>1, <4>1 DEF Inv, StdinInv
      <4>3. g \in Fds /\ files[g] = files[f]
        BY <4>1, <4>2 DEF Inv, PollInv, TableIsCurrent
      <4>4. g = f
        BY <3>1, <4>3 DEF Inv, OneDescriptor
      <4> QED
        BY <4>4
    <3>3. CASE files[f] \notin Range(fdMap)
      BY <1>4, <3>1, <3>3 DEF Inv, SocketsHaveOwners
    <3> QED
      BY <3>2, <3>3
  <2> QED
    BY <1>1, <2>1, <2>2, Owners DEF SocketsHaveOwners
<1> QED
  BY <1>5, <1>6, <1>8, <1>9, <1>10, <1>11 DEF Inv

-----------------------------------------------------------------------------
LEMMA HandleKeeps ==
  ASSUME Inv, Handle
  PROVE  Inv'
<1>1. PICK e \in batch :
        \/ ListenerEvent(e) \/ ConnEvent(e)
        \/ StdinRequest(e) \/ StatsCrash(e) \/ StdinEnds(e)
  BY DEF Handle
<1>2. CASE AcceptRefused(e) \/ StdinRequest(e)
           \/ \E c \in Clients : ConnServed(e, c)
  BY <1>2, CallbackKeeps
<1>3. CASE AcceptFails(e)
  BY <1>3, AcceptFailsKeeps
<1>4. CASE \E accepted \in BOOLEAN : Accept(e, accepted)
  BY <1>4, AcceptKeeps
<1>5. CASE \E c \in Clients : ConnEnds(e, c)
  BY <1>5, ConnEndsKeeps
<1>6. CASE StatsCrash(e) \/ AcceptKills(e) \/ \E c \in Clients : ConnKills(e, c)
  BY <1>6, DieKeeps DEF StatsCrash, AcceptKills, ConnKills
<1>7. CASE StdinEnds(e)
  BY <1>7, StdinEndsKeeps
<1> QED
  BY <1>1, <1>2, <1>3, <1>4, <1>5, <1>6, <1>7 DEF ListenerEvent, ConnEvent

LEMMA NextKeeps ==
  ASSUME Inv, [Next]_vars
  PROVE  Inv'
<1>1. CASE \E c \in Clients : ClientConnects(c)
  BY <1>1, ClientConnectsKeeps
<1>2. CASE \E c \in Clients : ClientActs(c) \/ ClientHangsUp(c)
  BY <1>2, ClientActsKeeps
<1>3. CASE WriterBegins \/ WriterEndsLine \/ WriterCloses
  BY <1>3, WriterKeeps
<1>4. CASE ListenFails
  BY <1>4, ListenFailsKeeps
<1>5. CASE \E accepted \in BOOLEAN : Listen(accepted)
  BY <1>5, ListenKeeps
<1>6. CASE \E accepted \in BOOLEAN : MonitorStdin(accepted)
  BY <1>6, MonitorStdinKeeps
<1>7. CASE Wait
  BY <1>7, WaitsKeep
<1>8. CASE Handle
  BY <1>8, HandleKeeps
<1>9. CASE LoopEnds
  BY <1>9, LoopEndsKeeps
<1>10. CASE UNCHANGED vars
  <2>1. UNCHANGED <<files, interest, fdMap, batch, pc, round, exit, mListenSock,
                    mConnections, refused, came, backlog, hung, armed, typed,
                    stdinClosed>>
    BY <1>10 DEF vars, npollVars, loopVars, ownVars, clientVars, stdinVars
  <2>2. TypeOK'
    BY <2>1 DEF Inv, TypeOK
  <2> QED
    BY <2>1, <2>2, Quiet
<1> QED
  BY <1>1, <1>2, <1>3, <1>4, <1>5, <1>6, <1>7, <1>8, <1>9, <1>10
     DEF Next, Server, Outside

THEOREM Invariance == Spec => []Inv
<1>1. Init => Inv
  BY InitInv
<1>2. Inv /\ [Next]_vars => Inv'
  BY NextKeeps
<1> QED
  BY <1>1, <1>2, PTL DEF Spec

(* The variables keep their types.                                         *)
THEOREM Typing == Spec => []TypeOK
<1>1. Inv => TypeOK
  BY DEF Inv
<1> QED
  BY <1>1, Invariance, PTL

(* The table of callbacks and epoll's set agree with the open sockets: no  *)
(* callback survives its socket, although connections are opened and       *)
(* closed in the middle of a batch.                                        *)
THEOREM Current == Spec => []TableIsCurrent
<1>1. Inv => TableIsCurrent
  BY DEF Inv, PollInv
<1> QED
  BY <1>1, Invariance, PTL

(* What waits in a batch is for a descriptor that has not been closed, nor *)
(* closed and given out again, whatever the callbacks before it did: each  *)
(* closes none but its own.                                                *)
THEOREM Fresh == Spec => []NoStaleEvent
<1>1. Inv => NoStaleEvent
  BY DEF Inv, PollInv
<1> QED
  BY <1>1, Invariance, PTL

(* Every open socket has an owner that will close it.                      *)
THEOREM Owned == Spec => []SocketsHaveOwners
<1>1. Inv => SocketsHaveOwners
  BY DEF Inv
<1> QED
  BY <1>1, Invariance, PTL

(* The first serverLoop leaves nothing but connections.                    *)
THEOREM FirstLoopEnds == Spec => []LoopLeavesNothing
<1>1. Inv => LoopLeavesNothing
  <2> SUFFICES ASSUME Inv, round = 2 \/ pc = "exit"
               PROVE  /\ ~Held(Listener) /\ backlog = <<>>
                      /\ Range(fdMap) \subseteq Clients \cup {CmdServer[2]}
                      /\ pc \in {"monitor", "exit"} => Stdin \notin DOMAIN fdMap
    BY DEF LoopLeavesNothing
  <2>1. round = 2 /\ mListenSock = NoFd /\ backlog = <<>>
    BY DEF Inv, RoundInv
  <2>2. ~Held(Listener)
    BY <2>1, Owners DEF Inv, SocketsHaveOwners, Held
  <2>3. \A fd \in DOMAIN fdMap : fdMap[fd] \in Clients \cup {CmdServer[2]}
    <3> SUFFICES ASSUME NEW fd \in DOMAIN fdMap
                 PROVE  fdMap[fd] \in Clients \cup {CmdServer[2]}
      OBVIOUS
    <3>1. CASE fd = Stdin
      BY <2>1, <3>1 DEF Inv, StdinInv
    <3>2. CASE fd # Stdin
      <4>1. fd \in Fds /\ files[fd] = fdMap[fd] /\ fdMap[fd] # NoFile
        BY <3>2 DEF Inv, PollInv, TableIsCurrent
      <4> QED
        BY <2>2, <4>1 DEF Inv, TypeOK, Held
    <3> QED
      BY <3>1, <3>2
  <2>4. Range(fdMap) \subseteq Clients \cup {CmdServer[2]}
    BY <2>3 DEF Range
  <2>5. pc \in {"monitor", "exit"} => Stdin \notin DOMAIN fdMap
    BY DEF Inv, StdinInv
  <2> QED
    BY <2>1, <2>2, <2>4, <2>5
<1> QED
  BY <1>1, Invariance, PTL

-----------------------------------------------------------------------------
(* EachOnItsOwn: Spec refines one Connection for each client.              *)

Over == pc \in {"dead", "crashed"}
Queued(c) == c \in Range(backlog)
Handled(c) == \E e \in batch : e.file = c

(* A connection that is not there has no hang-up and no event.             *)
Sane(c) ==
  /\ c \in hung => Phase(c) \in {"queued", "open", "unwatched"}
  /\ c \in armed => Phase(c) = "open"
  /\ Handled(c) => Phase(c) = "open"

LEMMA InitSane ==
  ASSUME NEW c \in Clients, Part(c)!Init
  PROVE  Sane(c)
  BY DEF Part!Init, Sane, Handled

LEMMA SaneStep ==
  ASSUME NEW c \in Clients, Sane(c), [Part(c)!Next]_(Part(c)!vars)
  PROVE  Sane(c)'
  BY DEF Part!Next, Part!vars, Part!Come, Part!HangUp, Part!Act, Part!Accept,
     Part!Abandon, Part!Take, Part!Idle, Part!Serve, Part!End, Part!Die, Sane,
     Handled

(* What c's connection does not see.                                       *)
LEMMA Unseen ==
  ASSUME NEW c \in Clients, Over' <=> Over, c \in came' <=> c \in came,
         Queued(c)' <=> Queued(c), Watched(c)' <=> Watched(c),
         Held(c)' <=> Held(c), c \in hung' <=> c \in hung,
         c \in armed' <=> c \in armed, Handled(c)' <=> Handled(c)
  PROVE  UNCHANGED Part(c)!vars
<1>1. Phase(c)' = Phase(c)
  BY DEF Phase, Over, Queued
<1> QED
  BY <1>1 DEF Part!vars, Handled

(* The connection of a client is in the backlog or has one descriptor.     *)
LEMMA View ==
  ASSUME Inv, NEW c \in Clients
  PROVE  /\ Watched(c) <=> \E fd \in Fds : fd \in DOMAIN fdMap /\ files[fd] = c
         /\ Watched(c) => Held(c)
         /\ Held(c) => c \in came /\ ~Queued(c)
         /\ Queued(c) => c \in came
         /\ \A fd \in Fds : files[fd] = c => (Watched(c) <=> fd \in DOMAIN fdMap)
<1>1. interest = DOMAIN fdMap
      /\ \A fd \in DOMAIN fdMap \ {Stdin} : fd \in Fds /\ files[fd] = fdMap[fd]
  BY DEF Inv, PollInv, TableIsCurrent
<1>2. Watched(c) <=> \E fd \in Fds : fd \in DOMAIN fdMap /\ files[fd] = c
  BY <1>1, Owners DEF Watched
<1>3. Held(c) => c \in came /\ ~Queued(c)
  BY DEF Inv, OneDescriptor, OneConnection, Held, Queued
<1>4. Queued(c) => c \in came
  BY DEF Inv, OneConnection, Queued
<1>5. \A f, g \in Fds : files[f] = c /\ files[g] = c => f = g
  BY DEF Inv, OneDescriptor
<1> QED
  BY <1>2, <1>3, <1>4, <1>5 DEF Held

(* A step that leaves the descriptor of c alone.                           *)
LEMMA Kept ==
  ASSUME Inv, Inv', NEW c \in Clients,
         \A fd \in Fds : files'[fd] = c <=> files[fd] = c,
         \A fd \in Fds : files[fd] = c =>
           (fd \in DOMAIN fdMap' <=> fd \in DOMAIN fdMap)
  PROVE  (Held(c)' <=> Held(c)) /\ (Watched(c)' <=> Watched(c))
<1>1. Held(c)' <=> Held(c)
  BY DEF Held
<1>2. Watched(c)' <=> \E fd \in Fds : fd \in DOMAIN fdMap' /\ files'[fd] = c
  <2>1. /\ interest' = DOMAIN fdMap'
        /\ \A fd \in DOMAIN fdMap' \ {Stdin} : fd \in Fds
    BY DEF Inv, PollInv, TableIsCurrent
  <2> QED
    BY <2>1, Owners DEF Watched
<1>3. Watched(c) <=> \E fd \in Fds : fd \in DOMAIN fdMap /\ files[fd] = c
  BY View
<1> QED
  BY <1>1, <1>2, <1>3

(* An event that is taken is its owner's, and no other of his waits.       *)
LEMMA TakenFrom ==
  ASSUME Inv, NEW e, NEW owner \in Clients \cup {Listener, CmdServer[round]},
         Dispatches(e, owner), NEW c \in Clients
  PROVE  Handled(c)' <=> (Handled(c) /\ owner # c)
<1>1. /\ Found(e, owner) /\ e \in batch /\ batch' = batch \ {e}
      /\ \A other \in batch' : other.fd # e.fd
  BY EventTaken DEF Dispatches, Found
<1>2. CASE owner = CmdServer[round]
  <2>1. e.file = "stdin"
    BY <1>1, <1>2, WhoseEvent DEF Inv, StdinInv
  <2>2. e.file # c /\ owner # c
    BY <1>2, <2>1, Owners, ClientsAssumption DEF Inv, TypeOK
  <2> QED
    BY <1>1, <2>2 DEF Handled
<1>3. CASE owner \in Clients \cup {Listener}
  <2>1. e.fd \in Fds /\ e.fd # Stdin /\ files[e.fd] = owner
    BY <1>1, <1>3, WhoseEvent
  <2>2. e.file = owner
    BY <1>1, <2>1 DEF Inv, PollInv, NoStaleEvent
  <2>3. ASSUME NEW other \in batch', owner = c
        PROVE  other.file # c
    <3> SUFFICES ASSUME other.file = c PROVE FALSE
      OBVIOUS
    <3>1. other \in batch /\ other.fd # e.fd
      BY <1>1
    <3>2. other.fd # Stdin
      BY <3>1, ClientsAssumption DEF Inv, StdinInv
    <3>3. other.fd \in Fds /\ files[other.fd] = c
      BY <3>1, <3>2 DEF Inv, PollInv, NoStaleEvent, TableIsCurrent
    <3> QED
      BY <2>1, <2>3, <3>1, <3>3 DEF Inv, OneDescriptor
  <2>4. CASE owner = c
    BY <1>1, <2>3, <2>4 DEF Handled
  <2>5. CASE owner # c
    BY <1>1, <2>2, <2>5 DEF Handled
  <2> QED
    BY <2>4, <2>5
<1> QED
  BY <1>2, <1>3

(* The clients, stdin, and the steps outside the loop.                     *)
LEMMA OutsidePart ==
  ASSUME Inv, Inv', NEW c \in Clients, Sane(c), Outside
  PROVE  [Part(c)!Next]_(Part(c)!vars)
<1>1. CASE WriterBegins \/ WriterEndsLine \/ WriterCloses
  <2>1. UNCHANGED <<files, interest, fdMap, batch, pc, came, backlog, hung, armed>>
    BY <1>1 DEF WriterBegins, WriterEndsLine, WriterCloses, npollVars, loopVars,
       clientVars
  <2> QED
    BY <2>1, Unseen DEF Over, Queued, Watched, Held, Handled
<1>2. ASSUME NEW d \in Clients, ClientConnects(d)
      PROVE  [Part(c)!Next]_(Part(c)!vars)
  <2>1. /\ pc \notin {"dead", "crashed"} /\ d \notin came
        /\ came' = came \cup {d} /\ backlog' = Append(backlog, d)
        /\ UNCHANGED <<files, interest, fdMap, batch, pc, hung, armed>>
    BY <1>2 DEF ClientConnects, npollVars, loopVars, Running
  <2>2. backlog \in Seq(Clients)
    BY DEF Inv, TypeOK
  <2>3. Queued(c)' <=> (Queued(c) \/ c = d)
    <3>1. /\ Len(backlog') = Len(backlog) + 1 /\ Len(backlog) \in Nat
          /\ DOMAIN backlog = 1 .. Len(backlog)
          /\ DOMAIN backlog' = 1 .. Len(backlog')
          /\ \A i \in 1 .. Len(backlog) : backlog'[i] = backlog[i]
          /\ backlog'[Len(backlog) + 1] = d
      BY <2>1, <2>2
    <3> QED
      BY <3>1 DEF Queued, Range
  <2>4. /\ (Held(c)' <=> Held(c)) /\ (Watched(c)' <=> Watched(c))
        /\ (Handled(c)' <=> Handled(c)) /\ (Over' <=> Over)
    BY <2>1 DEF Held, Watched, Handled, Over
  <2>5. CASE c = d
    <3>1. Phase(c) = "away" /\ Phase(c)' = "queued"
      BY <2>1, <2>3, <2>5 DEF Phase, Queued
    <3> QED
      BY <2>1, <2>4, <3>1 DEF Part!Next, Part!Come, Handled
  <2>6. CASE c # d
    BY <2>1, <2>3, <2>4, <2>6, Unseen
  <2> QED
    BY <2>5, <2>6
<1>3. ASSUME NEW d \in Clients, ClientActs(d)
      PROVE  [Part(c)!Next]_(Part(c)!vars)
  <2>1. /\ pc \notin {"dead", "crashed"} /\ Watched(d) /\ armed' = armed \cup {d}
        /\ UNCHANGED <<files, interest, fdMap, batch, pc, came, backlog, hung>>
    BY <1>3 DEF ClientActs, npollVars, loopVars, Running
  <2>2. /\ (Held(c)' <=> Held(c)) /\ (Watched(c)' <=> Watched(c))
        /\ (Handled(c)' <=> Handled(c)) /\ (Over' <=> Over) /\ (Queued(c)' <=> Queued(c))
    BY <2>1 DEF Held, Watched, Handled, Over, Queued
  <2>3. CASE c = d
    <3>1. Phase(c) = "open" /\ Phase(c)' = "open"
      BY <2>1, <2>2, <2>3, View DEF Phase, Queued
    <3> QED
      BY <2>1, <2>2, <2>3, <3>1 DEF Part!Next, Part!Act, Handled
  <2>4. CASE c # d
    BY <2>1, <2>2, <2>4, Unseen
  <2> QED
    BY <2>3, <2>4
<1>4. ASSUME NEW d \in Clients, ClientHangsUp(d)
      PROVE  [Part(c)!Next]_(Part(c)!vars)
  <2>1. /\ pc \notin {"dead", "crashed"} /\ (Held(d) \/ Queued(d))
        /\ d \notin hung /\ hung' = hung \cup {d}
        /\ armed' = IF Watched(d) THEN armed \cup {d} ELSE armed
        /\ UNCHANGED <<files, interest, fdMap, batch, pc, came, backlog>>
    BY <1>4 DEF ClientHangsUp, npollVars, loopVars, Running, Queued
  <2>2. /\ (Held(c)' <=> Held(c)) /\ (Watched(c)' <=> Watched(c))
        /\ (Handled(c)' <=> Handled(c)) /\ (Over' <=> Over) /\ (Queued(c)' <=> Queued(c))
    BY <2>1 DEF Held, Watched, Handled, Over, Queued
  <2>3. CASE c = d
    <3>1. /\ Phase(c) \in {"queued", "open", "unwatched"} /\ Phase(c)' = Phase(c)
          /\ Phase(c) = "open" <=> Watched(c)
      BY <2>1, <2>2, <2>3, View DEF Phase, Queued
    <3> QED
      BY <2>1, <2>2, <2>3, <3>1 DEF Part!Next, Part!HangUp, Handled
  <2>4. CASE c # d
    BY <2>1, <2>2, <2>4, Unseen
  <2> QED
    BY <2>3, <2>4
<1> QED
  BY <1>1, <1>2, <1>3, <1>4 DEF Outside

(* The steps of main and serverLoop before npollLoop.                      *)
LEMMA StartPart ==
  ASSUME Inv, Inv', NEW c \in Clients, Sane(c),
         \/ ListenFails
         \/ \E accepted \in BOOLEAN : Listen(accepted) \/ MonitorStdin(accepted)
  PROVE  [Part(c)!Next]_(Part(c)!vars)
<1>1. CASE ListenFails
  <2>1. /\ pc = "start" /\ pc' \in {"monitor", "dead"}
        /\ UNCHANGED <<files, interest, fdMap, batch, came, backlog, hung, armed>>
    BY <1>1 DEF ListenFails, npollVars, clientVars
  <2>2. /\ (Held(c)' <=> Held(c)) /\ (Watched(c)' <=> Watched(c))
        /\ (Handled(c)' <=> Handled(c)) /\ (Queued(c)' <=> Queued(c))
    BY <2>1 DEF Held, Watched, Handled, Queued
  <2>3. c \notin hung /\ c \notin armed /\ ~Handled(c)
    BY <2>1 DEF Inv, RoundInv, TypeOK, StdinInv, Handled
  <2>4. CASE pc' = "dead"
    BY <2>1, <2>2, <2>3, <2>4 DEF Part!Next, Part!Die, Phase, Handled
  <2>5. CASE pc' = "monitor"
    BY <2>1, <2>2, <2>5, Unseen DEF Over
  <2> QED
    BY <2>1, <2>4, <2>5
<1>2. ASSUME NEW accepted \in BOOLEAN, Listen(accepted)
      PROVE  [Part(c)!Next]_(Part(c)!vars)
  <2>1. /\ pc = "start" /\ pc' = "monitor" /\ Free # {}
        /\ AddFd(Lowest, Listener, accepted)
        /\ files' = [files EXCEPT ![Lowest] = Listener]
        /\ UNCHANGED <<batch, came, backlog, hung, armed>>
    BY <1>2 DEF Listen, clientVars
  <2>2. /\ PollInv /\ Listener # NoFile /\ batch' \subseteq batch
    BY <2>1, Owners DEF Inv
  <2>3. /\ files'[Lowest] = Listener
        /\ \A fd \in Fds \ {Lowest} : files'[fd] = files[fd]
        /\ DOMAIN fdMap' = DOMAIN fdMap \cup (IF accepted THEN {Lowest} ELSE {})
    BY <2>1, <2>2, OpenKeeps
  <2>4. files[Lowest] = NoFile
    BY <2>1, <2>2, LowestIsFresh
  <2>5. (Held(c)' <=> Held(c)) /\ (Watched(c)' <=> Watched(c))
    <3> HIDE DEF Lowest
    <3>1. \A fd \in Fds : files'[fd] = c <=> files[fd] = c
      BY <2>3, <2>4, Owners
    <3>2. \A fd \in Fds : files[fd] = c =>
            (fd \in DOMAIN fdMap' <=> fd \in DOMAIN fdMap)
      BY <2>3, <2>4, Owners
    <3> QED
      BY <3>1, <3>2, Kept
  <2> QED
    BY <2>1, <2>5, Unseen DEF Over, Queued, Handled
<1>3. ASSUME NEW accepted \in BOOLEAN, MonitorStdin(accepted)
      PROVE  [Part(c)!Next]_(Part(c)!vars)
  <2>1. /\ pc = "monitor" /\ pc' = "loop"
        /\ AddFd(Stdin, CmdServer[round], accepted)
        /\ UNCHANGED <<files, batch, came, backlog, hung, armed>>
    BY <1>3 DEF MonitorStdin, clientVars
  <2>2. /\ (Held(c)' <=> Held(c)) /\ (Watched(c)' <=> Watched(c))
    BY <2>1 DEF Held, Watched, AddFd
  <2> QED
    BY <2>1, <2>2, Unseen DEF Over, Queued, Handled
<1> QED
  BY <1>1, <1>2, <1>3

(* epoll_wait reports a connection that is on the ready list, and takes it *)
(* off: once.                                                              *)
LEMMA WaitPart ==
  ASSUME Inv, Inv', NEW c \in Clients, Sane(c), Wait
  PROVE  [Part(c)!Next]_(Part(c)!vars)
<1>1. /\ pc = "loop" /\ batch = {} /\ batch' \subseteq Events
      /\ armed' = armed \ {e.file : e \in batch'}
      /\ UNCHANGED <<files, interest, fdMap, pc, came, backlog, hung>>
  BY DEF Wait, WaitForEvents, loopVars
<1>2. /\ (Held(c)' <=> Held(c)) /\ (Watched(c)' <=> Watched(c))
      /\ (Over' <=> Over) /\ (Queued(c)' <=> Queued(c)) /\ ~Handled(c)
  BY <1>1 DEF Held, Watched, Over, Queued, Handled
<1>3. c \in armed' <=> (c \in armed /\ ~Handled(c)')
  BY <1>1 DEF Handled
<1>4. CASE Handled(c)'
  <2>1. PICK e \in Events : e.file = c
    BY <1>1, <1>4 DEF Handled
  <2>2. PICK fd \in interest : IsReady(fd) /\ e = Event(fd)
    BY <2>1 DEF Events
  <2>3. fd # Stdin /\ files[fd] = c
    BY <2>1, <2>2, ClientsAssumption DEF Event
  <2>4. c \in armed
    BY <2>2, <2>3, Owners DEF IsReady
  <2>5. Phase(c) = "open" /\ Phase(c)' = "open"
    BY <1>1, <1>2, <2>4 DEF Sane, Phase, Over, Queued
  <2>6. c \notin armed' /\ Handled(c)' /\ ~Handled(c)
    BY <1>2, <1>3, <1>4
  <2>7. Part(c)!Take
    BY <1>1, <2>4, <2>5, <2>6 DEF Part!Take, Handled
  <2> QED
    BY <2>7 DEF Part!Next
<1>5. CASE ~Handled(c)'
  BY <1>1, <1>2, <1>3, <1>5, Unseen
<1> QED
  BY <1>4, <1>5

(* The process goes down.                                                  *)
LEMMA DiePart ==
  ASSUME NEW c \in Clients, NEW how \in {"dead", "crashed"}, Die(how)
  PROVE  Part(c)!Next
  BY DEF Die, Part!Next, Part!Die, Phase

(* A callback that leaves the sockets and the backlog alone is seen by the *)
(* connection it is of.                                                    *)
LEMMA CallbackPart ==
  ASSUME Inv, Inv', NEW c \in Clients, Sane(c), NEW e,
         NEW owner \in Clients \cup {Listener, CmdServer[round]},
         Dispatches(e, owner), c # owner,
         UNCHANGED <<files, interest, pc, came, backlog, hung, armed>>
  PROVE  UNCHANGED Part(c)!vars
<1>1. Handled(c)' <=> Handled(c)
  BY TakenFrom
<1> QED
  BY <1>1, Unseen DEF Held, Watched, Over, Queued

(* The backlog without its first client.                                   *)
LEMMA FirstLeaves ==
  ASSUME Inv, backlog # <<>>, backlog' = Tail(backlog), NEW c \in Clients
  PROVE  /\ Queued(c)' <=> (Queued(c) /\ c # Head(backlog))
         /\ c = Head(backlog) => Queued(c)
<1>1. backlog \in Seq(Clients)
  BY DEF Inv, TypeOK
<1>2. /\ Len(backlog) \in Nat /\ Len(backlog) >= 1
      /\ DOMAIN backlog = 1 .. Len(backlog)
      /\ backlog[1] = Head(backlog)
      /\ Len(backlog') = Len(backlog) - 1
      /\ DOMAIN backlog' = 1 .. Len(backlog')
      /\ \A i \in 1 .. Len(backlog') : backlog'[i] = backlog[i + 1]
  BY <1>1
<1>3. c = Head(backlog) => Queued(c)
  BY <1>2 DEF Queued, Range
<1>4. Queued(c)' => Queued(c) /\ c # Head(backlog)
  BY TakeFirst DEF Queued
<1>5. ASSUME Queued(c), c # Head(backlog)
      PROVE  Queued(c)'
  <2>1. PICK i \in 1 .. Len(backlog) : backlog[i] = c
    BY <1>2, <1>5 DEF Queued, Range
  <2>2. i - 1 \in 1 .. Len(backlog') /\ (i - 1) + 1 = i
    BY <1>2, <1>5, <2>1
  <2>3. backlog'[i - 1] = c
    BY <1>2, <2>1, <2>2
  <2> QED
    BY <1>2, <2>2, <2>3 DEF Queued, Range
<1> QED
  BY <1>3, <1>4, <1>5

(* A closed connection is not watched.                                     *)
LEMMA ClosedPhase ==
  ASSUME Inv', NEW c \in Clients, c \in came', ~Queued(c)', ~Held(c)', ~Over'
  PROVE  Phase(c)' = "gone" /\ ~Watched(c)'
<1>1. ~Watched(c)'
  BY Owners DEF Inv, TypeOK, Watched, Held
<1> QED
  BY <1>1 DEF Phase, Over, Queued

LEMMA AcceptFailsPart ==
  ASSUME Inv, Inv', NEW c \in Clients, Sane(c), NEW e, AcceptFails(e)
  PROVE  [Part(c)!Next]_(Part(c)!vars)
<1>1. /\ Dispatches(e, Listener) /\ backlog # <<>> /\ backlog' = Tail(backlog)
      /\ hung' = hung \ {Head(backlog)}
      /\ UNCHANGED <<files, interest, fdMap, pc, came, armed>>
  BY DEF AcceptFails, loopVars
<1>2. Handled(c)' <=> Handled(c)
  BY <1>1, TakenFrom, Owners
<1>3. /\ Queued(c)' <=> (Queued(c) /\ c # Head(backlog))
      /\ c = Head(backlog) => Queued(c)
  BY <1>1, FirstLeaves
<1>4. /\ (Held(c)' <=> Held(c)) /\ (Watched(c)' <=> Watched(c))
      /\ (Over' <=> Over)
  BY <1>1 DEF Held, Watched, Over
<1>5. CASE c = Head(backlog)
  <2>1. pc = "loop"
    BY <1>1, WhoseEvent DEF Dispatches
  <2>2. Queued(c) /\ ~Queued(c)' /\ ~Held(c)' /\ c \in came /\ ~Over'
    BY <1>1, <1>3, <1>4, <1>5, <2>1, View DEF Over
  <2>3. Phase(c) = "queued" /\ Phase(c)' = "gone"
    BY <1>1, <2>1, <2>2, ClosedPhase DEF Phase, Queued
  <2>4. Part(c)!Abandon
    BY <1>1, <1>2, <1>5, <2>3 DEF Part!Abandon, Handled
  <2> QED
    BY <2>4 DEF Part!Next
<1>6. CASE c # Head(backlog)
  BY <1>1, <1>2, <1>3, <1>4, <1>6, Unseen
<1> QED
  BY <1>5, <1>6

LEMMA AcceptPart ==
  ASSUME Inv, Inv', NEW c \in Clients, Sane(c), NEW e,
         NEW accepted \in BOOLEAN, Accept(e, accepted)
  PROVE  [Part(c)!Next]_(Part(c)!vars)
<1> DEFINE l == Lowest
           d == Head(backlog)
<1>1. /\ Dispatches(e, Listener) /\ backlog # <<>> /\ backlog' = Tail(backlog)
      /\ Free # {} /\ AddFd(l, d, accepted)
      /\ files' = [files EXCEPT ![l] = d]
      /\ armed' = IF accepted THEN armed \cup {d} ELSE armed
      /\ UNCHANGED <<pc, came, hung>>
  BY DEF Accept, loopVars
<1>2. /\ d \in Clients /\ d # NoFile /\ \A f \in Fds : files[f] # d
      /\ PollInv /\ batch' \subseteq batch
  BY <1>1, TakeFirst, EventTaken, Owners DEF Inv
<1>3. /\ files'[l] = d
      /\ \A fd \in Fds \ {l} : files'[fd] = files[fd]
      /\ DOMAIN fdMap' = DOMAIN fdMap \cup (IF accepted THEN {l} ELSE {})
  BY <1>1, <1>2, OpenKeeps
<1>4. l \in Fds /\ files[l] = NoFile /\ l # Stdin /\ l \notin DOMAIN fdMap
  BY <1>1, <1>2, LowestIsFresh
<1>5. Handled(c)' <=> Handled(c)
  BY <1>1, TakenFrom, Owners
<1>6. /\ Queued(c)' <=> (Queued(c) /\ c # d)
      /\ c = d => Queued(c)
  BY <1>1, FirstLeaves
<1>7. pc = "loop" /\ ~Over /\ ~Over'
  BY <1>1, WhoseEvent DEF Dispatches, Over
<1> HIDE DEF l, d
<1>8. CASE c = d
  <2>1. Queued(c) /\ ~Queued(c)' /\ c \in came
    BY <1>6, <1>8, View
  <2>2. Held(c)'
    BY <1>3, <1>4, <1>8 DEF Held
  <2>3. Watched(c)' <=> accepted
    <3>1. interest' = DOMAIN fdMap' /\ DOMAIN fdMap' \subseteq Fds \cup {Stdin}
      BY DEF Inv, PollInv, TableIsCurrent, TypeOK
    <3>2. \A fd \in Fds : files'[fd] = c => fd = l
      BY <1>2, <1>3, <1>8
    <3> QED
      BY <1>3, <1>4, <1>8, <3>1, <3>2 DEF Watched
  <2>4. Phase(c) = "queued" /\ Phase(c)' = IF accepted THEN "open" ELSE "unwatched"
    BY <1>1, <1>7, <2>1, <2>2, <2>3 DEF Phase, Over, Queued
  <2>5. Part(c)!Accept
    BY <1>1, <1>5, <1>8, <2>4 DEF Part!Accept, Handled
  <2> QED
    BY <2>5 DEF Part!Next
<1>9. CASE c # d
  <2>1. \A fd \in Fds : files'[fd] = c <=> files[fd] = c
    BY <1>3, <1>4, <1>9, Owners
  <2>2. \A fd \in Fds : files[fd] = c =>
          (fd \in DOMAIN fdMap' <=> fd \in DOMAIN fdMap)
    BY <1>3, <1>4, Owners
  <2>3. (Held(c)' <=> Held(c)) /\ (Watched(c)' <=> Watched(c))
    BY <2>1, <2>2, Kept
  <2>4. c \in armed' <=> c \in armed
    BY <1>1, <1>9 
  <2> QED
    BY <1>1, <1>5, <1>6, <1>7, <1>9, <2>3, <2>4, Unseen
<1> QED
  BY <1>8, <1>9

LEMMA ConnPart ==
  ASSUME Inv, Inv', NEW c \in Clients, Sane(c), NEW e, NEW d \in Clients,
         ConnEnds(e, d) \/ ConnServed(e, d)
  PROVE  [Part(c)!Next]_(Part(c)!vars)
<1>1. Dispatches(e, d) /\ UNCHANGED <<pc, came, backlog>>
  BY DEF ConnEnds, ConnServed, loopVars, clientVars
<1>2. /\ e.fd \in Fds /\ e.fd # Stdin /\ files[e.fd] = d
      /\ e \in batch /\ e.fd \in DOMAIN fdMap /\ pc = "loop"
  BY <1>1, WhoseEvent DEF Dispatches
<1>3. Handled(c)' <=> (Handled(c) /\ c # d)
  BY <1>1, TakenFrom
<1>4. CASE c = d
  <2>1. Handled(c)
    BY <1>2, <1>4 DEF Inv, PollInv, NoStaleEvent, Handled
  <2>2. Phase(c) = "open" /\ c \in came /\ ~Queued(c) /\ ~Over
    BY <1>2, <1>4, <2>1, View DEF Sane, Over, Held
  <2>3. CASE ConnEnds(e, d)
    <3>1. /\ c \in hung /\ EndFds({e.fd})
          /\ armed' = armed \ {c} /\ hung' = hung \ {c}
      BY <1>4, <2>3 DEF ConnEnds
    <3>2. ~Held(c)'
      <4>1. \A fd \in Fds : files'[fd] = IF fd \in {e.fd} THEN NoFile ELSE files[fd]
        BY <3>1 DEF EndFds
      <4>2. \A fd \in Fds : files[fd] = c => fd = e.fd
        BY <1>2, <1>4 DEF Inv, OneDescriptor
      <4> QED
        BY <4>1, <4>2, Owners DEF Held
    <3>3. Phase(c)' = "gone"
      BY <1>1, <2>2, <3>2, ClosedPhase DEF Over, Queued
    <3>4. Part(c)!End
      BY <1>3, <1>4, <2>1, <2>2, <3>1, <3>3 DEF Part!End, Handled
    <3> QED
      BY <3>4 DEF Part!Next
  <2>4. CASE ConnServed(e, d)
    <3>1. /\ c \in hung => c \in armed
          /\ UNCHANGED <<files, interest, hung, armed>>
      BY <1>4, <2>4 DEF ConnServed, clientVars
    <3>2. Phase(c)' = Phase(c)
      BY <1>1, <3>1 DEF Phase, Watched, Held
    <3>3. Part(c)!Serve
      BY <1>3, <1>4, <2>1, <2>2, <3>1, <3>2 DEF Part!Serve, Handled
    <3> QED
      BY <3>3 DEF Part!Next
  <2> QED
    BY <2>3, <2>4
<1>5. CASE c # d /\ ConnServed(e, d)
  BY <1>1, <1>5, CallbackPart DEF ConnServed, clientVars
<1>6. CASE c # d /\ ConnEnds(e, d)
  <2> DEFINE S == {e.fd}
  <2>1. /\ EndFds(S) /\ armed' = armed \ {d} /\ hung' = hung \ {d}
    BY <1>6 DEF ConnEnds
  <2>2. batch' \subseteq batch /\ \A other \in batch' : other.fd \notin S
    BY <1>1, EventTaken
  <2>3. \A fd \in Fds : fd \in S => files[fd] = d
    BY <1>2
  <2> HIDE DEF S
  <2>4. /\ \A fd \in Fds : files'[fd] = IF fd \in S THEN NoFile ELSE files[fd]
        /\ DOMAIN fdMap' = DOMAIN fdMap \ S
    BY <2>1, <2>2, Closes
  <2>5. \A fd \in Fds : files'[fd] = c <=> files[fd] = c
    BY <1>6, <2>3, <2>4, Owners
  <2>6. \A fd \in Fds : files[fd] = c =>
          (fd \in DOMAIN fdMap' <=> fd \in DOMAIN fdMap)
    BY <1>6, <2>3, <2>4
  <2>7. (Held(c)' <=> Held(c)) /\ (Watched(c)' <=> Watched(c))
    BY <2>5, <2>6, Kept
  <2>8. (c \in armed' <=> c \in armed) /\ (c \in hung' <=> c \in hung)
    BY <1>6, <2>1
  <2> QED
    BY <1>1, <1>3, <1>6, <2>7, <2>8, Unseen DEF Over, Queued
<1> QED
  BY <1>4, <1>5, <1>6

LEMMA StdinEndsPart ==
  ASSUME Inv, Inv', NEW c \in Clients, Sane(c), NEW e, StdinEnds(e)
  PROVE  [Part(c)!Next]_(Part(c)!vars)
<1>1. /\ Dispatches(e, CmdServer[round]) /\ RemoveFd(Stdin)
      /\ UNCHANGED <<files, pc, came, backlog, hung, armed>>
  BY DEF StdinEnds, StopMonitoring, clientVars
<1>2. c # CmdServer[round]
  BY Owners DEF Inv, TypeOK
<1>3. Handled(c)' <=> Handled(c)
  BY <1>1, <1>2, TakenFrom
<1>4. /\ batch' \subseteq batch /\ \A other \in batch' : other.fd # Stdin
  BY <1>1, EventTaken, WhoseEvent
<1>5. DOMAIN fdMap' = DOMAIN fdMap \ {Stdin}
  BY <1>1, <1>4, RemoveStdinKeeps DEF Inv
<1>6. \A fd \in Fds : files[fd] = c =>
        (fd \in DOMAIN fdMap' <=> fd \in DOMAIN fdMap)
  BY <1>5, Owners
<1>7. \A fd \in Fds : files'[fd] = c <=> files[fd] = c
  BY <1>1
<1>8. (Held(c)' <=> Held(c)) /\ (Watched(c)' <=> Watched(c))
  BY <1>6, <1>7, Kept
<1> QED
  BY <1>1, <1>3, <1>8, Unseen DEF Over, Queued

(* The end of serverLoop: what waits in the backlog, or was never watched, *)
(* is closed, and what epoll watches goes on.                              *)
LEMMA LoopEndsPart ==
  ASSUME Inv, Inv', NEW c \in Clients, Sane(c), LoopEnds
  PROVE  [Part(c)!Next]_(Part(c)!vars)
<1> DEFINE S == Unwatched \cup ({mListenSock} \ {NoFd})
<1>1. /\ pc = "loop" /\ pc' \in {"monitor", "exit"} /\ batch = {} /\ EndFds(S)
      /\ backlog' = <<>> /\ hung' = {d \in hung : Watched(d)}
      /\ UNCHANGED <<batch, came, armed>>
  BY DEF LoopEnds
<1>2. \A fd \in Fds : fd \in S <=>
        files[fd] \in mConnections \ Range(fdMap) \/ fd = mListenSock
  BY Owners DEF Unwatched
<1> HIDE DEF S
<1>3. /\ \A fd \in Fds : files'[fd] = IF fd \in S THEN NoFile ELSE files[fd]
      /\ DOMAIN fdMap' = DOMAIN fdMap \ S
  BY <1>1, Closes
<1>4. ~Over /\ ~Over' /\ ~Queued(c)' /\ ~Handled(c) /\ ~Handled(c)'
  BY <1>1 DEF Over, Queued, Handled, Range
<1>5. \A fd \in Fds : files[fd] = c => fd # mListenSock
  BY Owners DEF Inv, SocketsHaveOwners
<1>6. \A fd \in Fds : files[fd] = c => (c \in Range(fdMap) <=> fd \in DOMAIN fdMap)
  <2> SUFFICES ASSUME NEW fd \in Fds, files[fd] = c
               PROVE  c \in Range(fdMap) <=> fd \in DOMAIN fdMap
    OBVIOUS
  <2>1. ASSUME fd \in DOMAIN fdMap
        PROVE  c \in Range(fdMap)
    <3>1. fdMap[fd] = c
      BY <2>1, Owners DEF Inv, PollInv, TableIsCurrent
    <3> QED
      BY <2>1, <3>1 DEF Range
  <2>2. ASSUME c \in Range(fdMap)
        PROVE  fd \in DOMAIN fdMap
    <3>1. PICK g \in DOMAIN fdMap : fdMap[g] = c
      BY <2>2 DEF Range
    <3>2. g # Stdin
      BY <3>1, Owners DEF Inv, StdinInv, TypeOK
    <3>3. g \in Fds /\ files[g] = c
      BY <3>1, <3>2 DEF Inv, PollInv, TableIsCurrent
    <3>4. g = fd
      BY <3>3 DEF Inv, OneDescriptor
    <3> QED
      BY <3>4
  <2> QED
    BY <2>1, <2>2
<1>7. CASE Watched(c)
  <2>1. PICK fd \in Fds : fd \in DOMAIN fdMap /\ files[fd] = c
    BY <1>7, View
  <2>2. \A f \in Fds : files[f] = c => f \notin S
    BY <1>2, <1>5, <1>6, <1>7, View
  <2>3. \A f \in Fds : files'[f] = c <=> files[f] = c
    BY <1>3, <2>2, Owners
  <2>4. \A f \in Fds : files[f] = c => (f \in DOMAIN fdMap' <=> f \in DOMAIN fdMap)
    BY <1>3, <2>2
  <2>5. (Held(c)' <=> Held(c)) /\ (Watched(c)' <=> Watched(c))
    BY <2>3, <2>4, Kept
  <2>6. ~Queued(c)
    BY <1>7, View
  <2>7. c \in hung' <=> c \in hung
    BY <1>1, <1>7
  <2> QED
    BY <1>1, <1>4, <2>5, <2>6, <2>7, Unseen
<1>8. CASE ~Watched(c)
  <2>1. \A fd \in Fds : files[fd] = c => fd \in S
    <3> SUFFICES ASSUME NEW fd \in Fds, files[fd] = c
                 PROVE  fd \in S
      OBVIOUS
    <3>1. fd \notin DOMAIN fdMap
      BY <1>8, View
    <3>2. c \in mConnections
      BY <3>1 DEF Inv, SocketsHaveOwners
    <3> QED
      BY <1>2, <1>6, <3>1, <3>2
  <2>2. ~Held(c)'
    BY <1>3, <2>1, Owners DEF Held
  <2>3. ~Watched(c)'
    BY <2>2, Owners DEF Inv, TypeOK, Watched, Held
  <2>4. c \notin hung'
    BY <1>1, <1>8
  <2>5. CASE Queued(c) \/ Held(c)
    <3>1. Phase(c) \in {"queued", "unwatched"}
      BY <1>4, <1>8, <2>5, View DEF Phase, Over, Queued
    <3>2. c \in came
      BY <2>5, View
    <3>3. Phase(c)' = "gone"
      BY <1>1, <1>4, <2>2, <3>2, ClosedPhase
    <3>4. Part(c)!Abandon
      BY <1>1, <1>4, <2>4, <3>1, <3>3 DEF Part!Abandon, Handled
    <3> QED
      BY <3>4 DEF Part!Next
  <2>6. CASE ~Queued(c) /\ ~Held(c)
    <3>1. Phase(c) \in {"away", "gone"}
      BY <1>4, <1>8, <2>6 DEF Phase, Over, Queued
    <3>2. c \notin hung
      BY <3>1 DEF Sane
    <3> QED
      BY <1>1, <1>4, <1>8, <2>2, <2>3, <2>4, <2>6, <3>2, Unseen
  <2> QED
    BY <2>5, <2>6
<1> QED
  BY <1>7, <1>8

LEMMA HandlePart ==
  ASSUME Inv, Inv', NEW c \in Clients, Sane(c), Handle
  PROVE  [Part(c)!Next]_(Part(c)!vars)
<1>1. PICK e \in batch :
        \/ ListenerEvent(e) \/ ConnEvent(e)
        \/ StdinRequest(e) \/ StatsCrash(e) \/ StdinEnds(e)
  BY DEF Handle
<1>2. CASE AcceptRefused(e)
  <2>1. /\ Dispatches(e, Listener)
        /\ UNCHANGED <<files, interest, pc, came, backlog, hung, armed>>
    BY <1>2 DEF AcceptRefused, loopVars, clientVars
  <2> QED
    BY <2>1, CallbackPart, Owners
<1>3. CASE StdinRequest(e)
  <2>1. /\ Dispatches(e, CmdServer[round])
        /\ UNCHANGED <<files, interest, pc, came, backlog, hung, armed>>
    BY <1>3 DEF StdinRequest, loopVars, clientVars
  <2>2. c # CmdServer[round]
    BY Owners DEF Inv, TypeOK
  <2> QED
    BY <2>1, <2>2, CallbackPart
<1>4. CASE AcceptFails(e)
  BY <1>4, AcceptFailsPart
<1>5. CASE \E accepted \in BOOLEAN : Accept(e, accepted)
  BY <1>5, AcceptPart
<1>6. CASE \E d \in Clients : ConnEnds(e, d) \/ ConnServed(e, d)
  BY <1>6, ConnPart
<1>7. CASE StatsCrash(e) \/ AcceptKills(e) \/ \E d \in Clients : ConnKills(e, d)
  BY <1>7, DiePart DEF StatsCrash, AcceptKills, ConnKills
<1>8. CASE StdinEnds(e)
  BY <1>8, StdinEndsPart
<1> QED
  BY <1>1, <1>2, <1>3, <1>4, <1>5, <1>6, <1>7, <1>8 DEF ListenerEvent, ConnEvent

LEMMA PartStep ==
  ASSUME Inv, NEW c \in Clients, Sane(c), [Next]_vars
  PROVE  [Part(c)!Next]_(Part(c)!vars)
<1>1. Inv'
  BY NextKeeps
<1>2. CASE Outside
  BY <1>1, <1>2, OutsidePart
<1>3. CASE Server
  BY <1>1, <1>3, StartPart, WaitPart, HandlePart, LoopEndsPart DEF Server
<1>4. CASE UNCHANGED vars
  <2>1. UNCHANGED <<files, interest, fdMap, batch, pc, came, backlog, hung, armed>>
    BY <1>4 DEF vars, npollVars, loopVars, clientVars
  <2> QED
    BY <2>1, Unseen DEF Held, Watched, Over, Queued, Handled
<1> QED
  BY <1>2, <1>3, <1>4 DEF Next

LEMMA PartInit ==
  ASSUME Init, NEW c \in Clients
  PROVE  Part(c)!Init
<1>1. /\ pc = "start" /\ came = {} /\ hung = {} /\ armed = {} /\ batch = {}
  BY DEF Init, NPollInit
<1>2. Phase(c) = "away"
  BY <1>1 DEF Phase
<1> QED
  BY <1>1, <1>2 DEF Part!Init

(* The connection of each client behaves as if it were alone in the loop:  *)
(* echoServer refines one Connection for each client.                      *)
THEOREM Separate == Spec => EachOnItsOwn
<1> DEFINE AllSane == \A c \in Clients : Sane(c)
           AllStep == \A c \in Clients : [Part(c)!Next]_(Part(c)!vars)
           AllInit == \A c \in Clients : Part(c)!Init
<1>1. Init => AllInit /\ AllSane
  BY PartInit, InitSane
<1>2. Inv /\ AllSane /\ [Next]_vars => AllStep /\ AllSane'
  <2> SUFFICES ASSUME Inv, AllSane, [Next]_vars, NEW c \in Clients
               PROVE  [Part(c)!Next]_(Part(c)!vars) /\ Sane(c)'
    OBVIOUS
  <2>1. [Part(c)!Next]_(Part(c)!vars)
    BY PartStep
  <2> QED
    BY <2>1, SaneStep
<1>3. Spec => []Inv
  BY Invariance
<1> HIDE DEF AllSane, AllStep, AllInit
<1>4. Spec => AllInit /\ [][AllStep]_vars
  BY <1>1, <1>2, <1>3, PTL DEF Spec
<1> QED
  BY <1>4 DEF EachOnItsOwn, AllStep, AllInit

=============================================================================
