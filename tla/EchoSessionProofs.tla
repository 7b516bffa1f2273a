------------------------- MODULE EchoSessionProofs -------------------------
(***************************************************************************)
(* Proofs about EchoSession, for every size of the two buffers, of the     *)
(* kernel's queue and of the client's input: its types, the dead throttle, *)
(* the records of the connection, when SIGPIPE can come, that no edge of   *)
(* epoll is missed, and that the callbacks keep their part of Connection.  *)
(***************************************************************************)
EXTENDS EchoSession, TLAPS

USE DEF NoFd, ConnFd

(* The types in three parts: the flags are a matter of logic, the data of  *)
(* arithmetic and sequences.                                               *)
Flags ==
  /\ fdOpen \in BOOLEAN /\ fin \in BOOLEAN /\ reset \in BOOLEAN
  /\ noSpace \in BOOLEAN /\ watched \in BOOLEAN /\ armed \in BOOLEAN
  /\ pollOut \in BOOLEAN /\ inConnections \in BOOLEAN /\ refused \in BOOLEAN
  /\ onRecv \in BOOLEAN /\ onError \in BOOLEAN /\ onDrain \in BOOLEAN
  /\ mRecvPaused \in BOOLEAN

Control ==
  /\ pc \in {"listen", "loop", "recv", "send", "write", "aborted", "killed"}
  /\ recvCaller \in {"onConnect", "poll", "onDrain"}
  /\ writeCaller \in {"send", "poll"}
  /\ sockfd \in {NoFd, ConnFd}
  /\ soError \in Errors
  /\ stat \in Stats

Data ==
  /\ arrived \in 0 .. MaxBytes
  /\ copied \in 0 .. arrived
  /\ txq \in Seq(1 .. MaxBytes)
  /\ Len(txq) <= TxSpace
  /\ wire \in Seq(1 .. MaxBytes)
  /\ recvBuf \in [0 .. RecvBufSize - 1 -> 0 .. MaxBytes]
  /\ recvLen \in 0 .. RecvBufSize
  /\ recvOffset \in 0 .. RecvBufSize - recvLen
  /\ written \in 0 .. recvLen
  /\ queue \in Seq(1 .. MaxBytes)
  /\ Len(queue) <= Size
  /\ start \in 0 .. Size - 1
  /\ lost \subseteq 1 .. MaxBytes

(* Together they are the type invariant.                                   *)
LEMMA TypeParts == TypeOK <=> Flags /\ Control /\ Data
  BY DEF TypeOK, SocketTypeOK, Flags, Control, Data

(* What every step keeps, next to the types: the receive buffer holds the  *)
(* last bytes recv() copied, send's local is 0 outside send, and between   *)
(* two writes the send buffer has room, so the throttle never closes.      *)
LocalInv ==
  /\ recvOffset = 0
  /\ ~(pc = "send" \/ (pc = "write" /\ writeCaller = "send"))
       => written = 0 \/ pc \in {"aborted", "killed"}
  /\ recvLen <= copied
  /\ \A i \in 0 .. recvLen - 1 : recvBuf[i] = copied - recvLen + i + 1

RoomInv ==
  /\ ~mRecvPaused
  /\ pc # "write" /\ pc # "killed" => Len(queue) < Size

IInv == Flags /\ Control /\ Data /\ LocalInv /\ RoomInv

(* IInv holds at first, and each step of the client or the server, one     *)
(* lemma per action, keeps it.                                             *)
LEMMA InitInv == Init => IInv
<1> SUFFICES ASSUME Init PROVE IInv
  OBVIOUS
<1>1. SocketTypeOK
  <2>1. /\ fdOpen \in BOOLEAN /\ fin \in BOOLEAN /\ reset \in BOOLEAN
        /\ noSpace \in BOOLEAN /\ watched \in BOOLEAN /\ armed \in BOOLEAN
    BY DEF Init, SocketInit
  <2>2. /\ arrived = 0 /\ copied = 0 /\ soError = "none"
        /\ txq = <<>> /\ wire = <<>>
    BY DEF Init, SocketInit
  <2> QED
    BY <2>1, <2>2, SocketAssumption DEF SocketTypeOK, Errors
<1>2. recvBuf \in [0 .. RecvBufSize - 1 -> 0 .. MaxBytes]
  BY SocketAssumption DEF Init
<1>3. Control
  BY <1>1 DEF Init, Control, SocketTypeOK, Stats
<1>4. Flags
  BY <1>1 DEF Init, Flags, SocketTypeOK
<1>5. Data
  <2>1. /\ recvLen = 0 /\ recvOffset = 0 /\ written = 0
        /\ queue = <<>> /\ start = 0 /\ lost = {}
    BY DEF Init
  <2> QED
    BY <1>1, <1>2, <2>1, SizeAssumption, RecvBufAssumption
       DEF Data, SocketTypeOK
<1>6. LocalInv /\ RoomInv
  BY SizeAssumption DEF Init, SocketInit, LocalInv, RoomInv
<1> QED
  BY <1>3, <1>5, <1>6, <1>4 DEF IInv

LEMMA ClientInv ==
  ASSUME IInv, Client, UNCHANGED serverVars
  PROVE  IInv'
<1> USE DEF IInv, serverVars, callVars, hookVars, recvVars, sendVars, ownVars
<1>1. Flags'
  <2>1. /\ fdOpen' = fdOpen /\ watched' = watched /\ pollOut' = pollOut
        /\ inConnections' = inConnections /\ refused' = refused
        /\ onRecv' = onRecv /\ onError' = onError /\ onDrain' = onDrain
        /\ mRecvPaused' = mRecvPaused
    BY DEF Client, ClientSends, ClientFinishes, ClientResets, ClientReads
  <2>2. fin' \in BOOLEAN /\ reset' \in BOOLEAN /\ noSpace' \in BOOLEAN
    BY DEF Flags, Client, ClientSends, ClientFinishes, ClientResets,
       ClientReads
  <2>3. armed' \in BOOLEAN
    BY DEF Flags, Client, ClientSends, ClientFinishes, ClientResets,
       ClientReads, Edge
  <2> QED
    BY <2>1, <2>2, <2>3 DEF Flags
<1>2. Control'
  BY DEF Control, Errors, Client, ClientSends, ClientFinishes, ClientResets,
         ClientReads
<1>3. UNCHANGED <<copied, wire>>
  BY DEF Client, ClientSends, ClientFinishes, ClientResets, ClientReads
<1>4. arrived' \in copied .. MaxBytes
  BY SocketAssumption DEF Data, Client, ClientSends, ClientFinishes,
     ClientResets, ClientReads
<1>5. txq' \in Seq(1 .. MaxBytes) /\ Len(txq') <= Len(txq)
  <2>1. CASE ClientReads
    BY <2>1 DEF Data, ClientReads
  <2>2. CASE ClientResets
    BY <2>2 DEF Data, ClientResets
  <2>3. CASE ~ClientReads /\ ~ClientResets
    BY <2>3 DEF Data, Client, ClientSends, ClientFinishes
  <2> QED
    BY <2>1, <2>2, <2>3
<1>6. Data'
  BY <1>3, <1>4, <1>5, SocketAssumption DEF Data
<1>7. LocalInv' /\ RoomInv'
  BY <1>3 DEF LocalInv, RoomInv
<1> QED
  BY <1>1, <1>2, <1>6, <1>7

LEMMA AcceptInv ==
  ASSUME IInv, NEW accepted \in BOOLEAN, Accept(accepted)
  PROVE  IInv'
<1> USE DEF IInv
<1>1. Flags'
  BY DEF Flags, Accept, recvVars, sendVars
<1>2. Control'
  BY DEF Control, Errors, Stats, Accept, recvVars, sendVars
<1>3. Data'
  BY DEF Data, Accept, recvVars, sendVars
<1>4. LocalInv' /\ RoomInv'
  BY SizeAssumption DEF Data, Control, LocalInv, RoomInv, Accept, recvVars,
         sendVars
<1> QED
  BY <1>1, <1>2, <1>3, <1>4

LEMMA AcceptFailsInv ==
  ASSUME IInv, AcceptFails
  PROVE  IInv'
<1> USE DEF IInv
<1>1. Flags'
  BY DEF Flags, AcceptFails, callVars, hookVars, recvVars, sendVars, ownVars
<1>2. Control'
  BY DEF Control, Errors, Stats, AcceptFails, callVars, hookVars, recvVars,
         sendVars, ownVars
<1>3. Data'
  BY DEF Data, AcceptFails, callVars, hookVars, recvVars, sendVars, ownVars
<1>4. LocalInv' /\ RoomInv'
  BY SizeAssumption DEF Data, Control, LocalInv, RoomInv, AcceptFails,
         callVars, hookVars, recvVars, sendVars, ownVars
<1> QED
  BY <1>1, <1>2, <1>3, <1>4

LEMMA LoopEndsInv ==
  ASSUME IInv, LoopEnds
  PROVE  IInv'
<1> USE DEF IInv
<1>1. Flags'
  BY DEF Flags, LoopEnds, callVars, hookVars, recvVars, sendVars
<1>2. Control'
  BY DEF Control, Errors, Stats, LoopEnds, callVars, hookVars, recvVars,
         sendVars
<1>3. Data'
  BY DEF Data, LoopEnds, callVars, hookVars, recvVars, sendVars
<1>4. LocalInv' /\ RoomInv'
  BY SizeAssumption DEF Data, Control, LocalInv, RoomInv, LoopEnds, callVars,
         hookVars, recvVars, sendVars
<1> QED
  BY <1>1, <1>2, <1>3, <1>4

LEMMA PollErrorInv ==
  ASSUME IInv, PollError
  PROVE  IInv'
<1> USE DEF IInv
<1>1. Flags'
  BY DEF Flags, PollError, OnError, EndIf, callVars, hookVars, recvVars,
         sendVars
<1>2. Control'
  BY DEF Control, Errors, Stats, PollError, OnError, EndIf, callVars,
         hookVars, recvVars, sendVars
<1>3. Data'
  BY DEF Data, PollError, OnError, EndIf, callVars, hookVars, recvVars,
         sendVars
<1>4. LocalInv' /\ RoomInv'
  BY SizeAssumption DEF Data, Control, LocalInv, RoomInv, PollError, OnError,
         EndIf, callVars, hookVars, recvVars, sendVars
<1> QED
  BY <1>1, <1>2, <1>3, <1>4

LEMMA PollInInv ==
  ASSUME IInv, PollIn
  PROVE  IInv'
<1> USE DEF IInv
<1>1. Flags'
  BY DEF Flags, PollIn, hookVars, recvVars, sendVars, ownVars, OutEvent
<1>2. Control'
  BY DEF Control, Errors, Stats, PollIn, hookVars, recvVars, sendVars, ownVars
<1>3. Data'
  BY DEF Data, PollIn, hookVars, recvVars, sendVars, ownVars
<1>4. LocalInv' /\ RoomInv'
  BY SizeAssumption DEF Data, Control, LocalInv, RoomInv, PollIn, hookVars,
         recvVars, sendVars, ownVars
<1> QED
  BY <1>1, <1>2, <1>3, <1>4

LEMMA PollOutInv ==
  ASSUME IInv, PollOut
  PROVE  IInv'
<1> USE DEF IInv
<1>1. Flags'
  BY DEF Flags, PollOut, hookVars, recvVars, sendVars, ownVars
<1>2. Control'
  BY DEF Control, Errors, Stats, PollOut, hookVars, recvVars, sendVars,
         ownVars
<1>3. Data'
  BY DEF Data, PollOut, hookVars, recvVars, sendVars, ownVars
<1>4. LocalInv' /\ RoomInv'
  BY SizeAssumption DEF Data, Control, LocalInv, RoomInv, PollOut, hookVars,
         recvVars, sendVars, ownVars
<1> QED
  BY <1>1, <1>2, <1>3, <1>4

LEMMA PollNothingInv ==
  ASSUME IInv, PollNothing
  PROVE  IInv'
<1> USE DEF IInv
<1>1. Flags'
  BY DEF Flags, PollNothing, serverVars, callVars, hookVars, recvVars,
         sendVars, ownVars
<1>2. Control'
  BY DEF Control, Errors, Stats, PollNothing, serverVars, callVars, hookVars,
         recvVars, sendVars, ownVars
<1>3. Data'
  BY DEF Data, PollNothing, serverVars, callVars, hookVars, recvVars,
         sendVars, ownVars
<1>4. LocalInv' /\ RoomInv'
  BY SizeAssumption DEF Data, Control, LocalInv, RoomInv, PollNothing,
         serverVars, callVars, hookVars, recvVars, sendVars, ownVars
<1> QED
  BY <1>1, <1>2, <1>3, <1>4

LEMMA DeliverInv ==
  ASSUME IInv, Deliver
  PROVE  IInv'
<1> USE DEF IInv
<1>1. Flags'
  BY DEF Flags, Deliver, socketVars, hookVars, recvVars, sendVars, ownVars
<1>2. Control'
  BY DEF Control, Errors, Stats, Deliver, socketVars, hookVars, recvVars,
         sendVars, ownVars
<1>3. Data'
  BY DEF Data, Deliver, socketVars, hookVars, recvVars, sendVars, ownVars
<1>4. LocalInv' /\ RoomInv'
  BY SizeAssumption DEF Data, Control, LocalInv, RoomInv, Deliver, socketVars,
         hookVars, recvVars, sendVars, ownVars
<1> QED
  BY <1>1, <1>2, <1>3, <1>4

LEMMA DeliverAbortsInv ==
  ASSUME IInv, DeliverAborts
  PROVE  IInv'
<1> USE DEF IInv
<1>1. Flags'
  BY DEF Flags, DeliverAborts, Die, callVars, hookVars, recvVars, sendVars,
         ownVars
<1>2. Control'
  BY DEF Control, Errors, Stats, DeliverAborts, Die, callVars, hookVars,
         recvVars, sendVars, ownVars
<1>3. Data'
  BY DEF Data, DeliverAborts, Die, callVars, hookVars, recvVars, sendVars,
         ownVars
<1>4. LocalInv' /\ RoomInv'
  BY SizeAssumption DEF Data, Control, LocalInv, RoomInv, DeliverAborts, Die,
         callVars, hookVars, recvVars, sendVars, ownVars
<1> QED
  BY <1>1, <1>2, <1>3, <1>4

LEMMA RecvStopsInv ==
  ASSUME IInv, RecvStops
  PROVE  IInv'
<1> USE DEF IInv
<1>1. Flags'
  BY DEF Flags, RecvStops, ReturnFromRecv, socketVars, recvVars, sendVars,
         ownVars
<1>2. Control'
  BY DEF Control, Errors, Stats, RecvStops, ReturnFromRecv, socketVars,
         recvVars, sendVars, ownVars
<1>3. Data'
  BY DEF Data, RecvStops, ReturnFromRecv, socketVars, recvVars, sendVars,
         ownVars
<1>4. LocalInv' /\ RoomInv'
  BY SizeAssumption DEF Data, Control, LocalInv, RoomInv, RecvStops,
         ReturnFromRecv, socketVars, recvVars, sendVars, ownVars
<1> QED
  BY <1>1, <1>2, <1>3, <1>4

LEMMA RecvFailsInv ==
  ASSUME IInv, RecvFails
  PROVE  IInv'
<1> USE DEF IInv
<1>1. Flags'
  BY DEF Flags, RecvFails, ReturnFromRecv, HandleError, OnError, EndIf,
         RecvIdle, recvVars, sendVars
<1>2. Control'
  BY DEF Control, Errors, Stats, RecvFails, ReturnFromRecv, HandleError,
         OnError, EndIf, RecvIdle, recvVars, sendVars
<1>3. Data'
  BY DEF Data, RecvFails, ReturnFromRecv, HandleError, OnError, EndIf,
         RecvIdle, recvVars, sendVars
<1>4. LocalInv' /\ RoomInv'
  BY SizeAssumption DEF Data, Control, LocalInv, RoomInv, RecvFails,
         ReturnFromRecv, HandleError, OnError, EndIf, RecvIdle, recvVars,
         sendVars
<1> QED
  BY <1>1, <1>2, <1>3, <1>4

LEMMA RecvEndsInv ==
  ASSUME IInv, RecvEnds
  PROVE  IInv'
<1> USE DEF IInv
<1>1. Flags'
  BY DEF Flags, RecvEnds, ReturnFromRecv, HandleError, OnError, EndIf,
         RecvIdle, recvVars, sendVars
<1>2. Control'
  BY DEF Control, Errors, Stats, RecvEnds, ReturnFromRecv, HandleError,
         OnError, EndIf, RecvIdle, recvVars, sendVars
<1>3. Data'
  BY DEF Data, RecvEnds, ReturnFromRecv, HandleError, OnError, EndIf,
         RecvIdle, recvVars, sendVars
<1>4. LocalInv' /\ RoomInv'
  BY SizeAssumption DEF Data, Control, LocalInv, RoomInv, RecvEnds,
         ReturnFromRecv, HandleError, OnError, EndIf, RecvIdle, recvVars,
         sendVars
<1> QED
  BY <1>1, <1>2, <1>3, <1>4

(* A piece at the head of a sequence and what is left behind it.           *)
LEMMA PrefixOf ==
  ASSUME NEW S, NEW s \in Seq(S), NEW n \in 0 .. Len(s)
  PROVE  /\ SubSeq(s, 1, n) \in Seq(S)
         /\ Len(SubSeq(s, 1, n)) = n
         /\ \A i \in 1 .. n : SubSeq(s, 1, n)[i] = s[i] /\ s[i] \in S
  OBVIOUS

LEMMA RestOf ==
  ASSUME NEW S, NEW s \in Seq(S), NEW n \in 0 .. Len(s)
  PROVE  /\ SubSeq(s, n + 1, Len(s)) \in Seq(S)
         /\ Len(SubSeq(s, n + 1, Len(s))) = Len(s) - n
         /\ \A i \in 1 .. Len(s) - n :
              SubSeq(s, n + 1, Len(s))[i] = s[n + i]
  OBVIOUS

LEMMA RecvDataInv ==
  ASSUME IInv, RecvData
  PROVE  IInv'
<1> USE DEF IInv
<1> DEFINE len == Least(RecvBufSize, arrived - copied)
<1>1. Flags'
  BY DEF Flags, RecvData, hookVars, callVars, ownVars
<1>2. /\ pc = "recv" /\ pc' = "recv" /\ recvLen = 0
      /\ recvBuf' = [i \in 0 .. RecvBufSize - 1 |->
                       IF i < len THEN copied + i + 1 ELSE recvBuf[i]]
      /\ recvLen' = len
      /\ copied' = copied + len
      /\ stat' = [stat EXCEPT !.recvBytes = @ + len]
      /\ UNCHANGED <<arrived, txq, wire, recvOffset, written, writeCaller,
                     queue, start, lost, recvCaller, sockfd, soError,
                     mRecvPaused>>
  BY DEF RecvData, RecvIdle, callVars, hookVars, sendVars, ownVars
<1>3. len \in 0 .. RecvBufSize /\ copied + len <= arrived
  BY RecvBufAssumption, SocketAssumption DEF Data, Least
<1> HIDE DEF len
<1>4. Control'
  BY <1>2, <1>3 DEF Control, Stats
<1>5. ASSUME NEW i \in 0 .. RecvBufSize - 1
      PROVE  recvBuf'[i] \in 0 .. MaxBytes
  BY <1>2, <1>3, SocketAssumption DEF Data
<1>6. recvBuf' \in [0 .. RecvBufSize - 1 -> 0 .. MaxBytes]
  BY <1>2, <1>5
<1>7. Data'
  <2>1. written' = 0
    BY <1>2 DEF Data
  <2>2. /\ copied' \in 0 .. arrived' /\ recvLen' \in 0 .. RecvBufSize
        /\ recvOffset' \in 0 .. RecvBufSize - recvLen'
        /\ written' \in 0 .. recvLen'
    BY <1>2, <1>3, <2>1, SocketAssumption, RecvBufAssumption
       DEF Data, LocalInv
  <2> QED
    BY <1>2, <1>6, <2>2 DEF Data
<1>8. LocalInv' /\ RoomInv'
  BY <1>2, <1>3, RecvBufAssumption DEF Data, LocalInv, RoomInv
<1> QED
  BY <1>1, <1>4, <1>7, <1>8

(* The part of recvBuf that send still has to queue.                       *)
LEMMA UnsentValue ==
  ASSUME IInv
  PROVE  /\ Unsent \in Seq(1 .. MaxBytes)
         /\ Len(Unsent) = recvLen - written
         /\ \A i \in 1 .. recvLen - written :
              Unsent[i] = copied - (recvLen - written) + i
<1> USE DEF IInv
<1>1. /\ recvLen \in 0 .. RecvBufSize /\ written \in 0 .. recvLen
      /\ recvLen <= copied /\ copied \in 0 .. MaxBytes
      /\ RecvBufSize \in Nat /\ MaxBytes \in Nat
  BY SocketAssumption, RecvBufAssumption DEF Data, LocalInv
<1>2. ASSUME NEW i \in 1 .. recvLen - written
      PROVE  Unsent[i] = copied - (recvLen - written) + i
  <2>1. Unsent[i] = recvBuf[written + i - 1]
    BY <1>1 DEF Unsent, LocalInv
  <2>2. written + i - 1 \in 0 .. recvLen - 1
    BY <1>1
  <2>3. recvBuf[written + i - 1] = copied - recvLen + (written + i - 1) + 1
    BY <2>2 DEF LocalInv
  <2> QED
    BY <1>1, <2>1, <2>3
<1>3. Unsent \in [1 .. recvLen - written -> 1 .. MaxBytes]
  <2>1. ASSUME NEW i \in 1 .. recvLen - written
        PROVE  Unsent[i] \in 1 .. MaxBytes
    BY <1>1, <1>2
  <2> QED
    BY <2>1 DEF Unsent
<1>4. Unsent \in Seq(1 .. MaxBytes)
  BY <1>1, <1>3
<1>5. DOMAIN Unsent = 1 .. Len(Unsent) /\ Len(Unsent) \in Nat
  BY <1>4
<1> QED
  BY <1>1, <1>2, <1>3, <1>4, <1>5

(* One round of send's loop: what put takes, and that it takes something.  *)
LEMMA PutValue ==
  ASSUME IInv, SendPut
  PROVE  \E n \in 1 .. recvLen - written :
           /\ queue' = queue \o SubSeq(Unsent, 1, n)
           /\ written' = written + n
           /\ Len(queue) + n <= Size
<1> USE DEF IInv
<1> DEFINE n == Accepts(queue, Unsent)
<1>1. n \in 1 .. recvLen - written /\ Len(queue) + n <= Size
  <2>1. n > 0
    BY DEF SendPut
  <2>2. /\ recvLen - written \in Nat /\ Len(queue) \in 0 .. Size
        /\ Len(Unsent) = recvLen - written
    BY UnsentValue, SizeAssumption DEF Data
  <2> QED
    BY <2>1, <2>2, SizeAssumption DEF Accepts, Least
<1>2. queue' = queue \o SubSeq(Unsent, 1, n) /\ written' = written + n
  BY DEF SendPut, Enqueue, Prefix
<1> QED
  BY <1>1, <1>2

LEMMA SendPutInv ==
  ASSUME IInv, SendPut
  PROVE  IInv'
<1> USE DEF IInv
<1> PICK n \in 1 .. recvLen - written :
      /\ queue' = queue \o SubSeq(Unsent, 1, n)
      /\ written' = written + n
      /\ Len(queue) + n <= Size
  BY PutValue
<1>1. Flags'
  BY DEF Flags, SendPut, socketVars, hookVars, ownVars
<1>2. Control'
  BY DEF Control, SendPut, socketVars, ownVars
<1>3. queue' \in Seq(1 .. MaxBytes) /\ Len(queue') <= Size
  <2>1. /\ SubSeq(Unsent, 1, n) \in Seq(1 .. MaxBytes)
        /\ Len(SubSeq(Unsent, 1, n)) = n
    <3>1. n \in 0 .. Len(Unsent)
      BY UnsentValue, RecvBufAssumption DEF Data
    <3> QED
      BY <3>1, UnsentValue, PrefixOf
  <2> QED
    BY <2>1 DEF Data
<1>4. written' \in 0 .. recvLen
  BY DEF Data
<1>5. Data'
  BY <1>3, <1>4 DEF Data, SendPut, socketVars, recvVars
<1>6. LocalInv' /\ RoomInv'
  BY DEF LocalInv, RoomInv, SendPut, socketVars, recvVars, hookVars
<1> QED
  BY <1>1, <1>2, <1>5, <1>6

(* send never returns short: put takes nothing only when nothing is left.  *)
LEMMA NeverShort ==
  ASSUME IInv, SendReturns
  PROVE  written = recvLen
<1> USE DEF IInv
<1>1. Len(queue) < Size /\ Len(queue) \in Nat
  BY DEF Data, RoomInv, SendReturns
<1>2. Len(Unsent) = recvLen - written /\ recvLen - written \in Nat
  BY UnsentValue DEF Data
<1>3. Accepts(queue, Unsent) = 0
  BY DEF SendReturns
<1> QED
  BY <1>1, <1>2, <1>3, SizeAssumption DEF Accepts, Least, Data

LEMMA SendReturnsInv ==
  ASSUME IInv, SendReturns
  PROVE  IInv'
<1> USE DEF IInv
<1>1. written = recvLen
  BY NeverShort
<1>2. ~(written < recvLen)
  BY <1>1 DEF Data
<1>3. /\ pc = "send" /\ pc' = "recv" /\ written' = 0
      /\ recvLen' = recvLen - written /\ recvOffset' = 0
      /\ onRecv' = onRecv /\ mRecvPaused' = mRecvPaused
      /\ UNCHANGED <<recvCaller, writeCaller, pollOut, onError, onDrain>>
      /\ UNCHANGED <<socketVars, recvBuf, sendVars, ownVars, stat>>
  <2>1. onRecv \in BOOLEAN /\ mRecvPaused \in BOOLEAN
    BY DEF Flags
  <2> QED
    BY <1>2, <2>1 DEF SendReturns
<1>4. recvLen' = 0
  BY <1>1, <1>3 DEF Data
<1>5. Flags'
  BY <1>3 DEF Flags, socketVars, ownVars
<1>6. Control'
  BY <1>3 DEF Control, socketVars, ownVars
<1>7. Data'
  BY <1>3, <1>4, RecvBufAssumption DEF Data, socketVars, sendVars
<1>8. LocalInv' /\ RoomInv'
  BY <1>3, <1>4 DEF LocalInv, RoomInv, Data, socketVars, sendVars
<1> QED
  BY <1>5, <1>6, <1>7, <1>8

LEMMA WriteDrainedInv ==
  ASSUME IInv, WriteDrained
  PROVE  IInv'
<1> USE DEF IInv
<1>1. /\ pc = "write" /\ queue = <<>>
      /\ UNCHANGED <<written, writeCaller>>
      /\ UNCHANGED <<socketVars, recvVars, sendVars, ownVars, stat>>
  BY DEF WriteDrained, ReturnFromWrite
<1>2. mRecvPaused' = FALSE /\ onRecv' = onRecv
  <2>1. ~mRecvPaused /\ onRecv \in BOOLEAN
    BY DEF RoomInv, Flags
  <2> QED
    BY <2>1 DEF WriteDrained, ReturnFromWrite
<1>3. /\ pc' = IF writeCaller = "send" THEN "send" ELSE "loop"
      /\ recvCaller' = recvCaller
  BY DEF WriteDrained, ReturnFromWrite, RoomInv
<1>4. Flags'
  BY <1>1, <1>2 DEF Flags, socketVars, ownVars, WriteDrained, ReturnFromWrite
<1>5. Control'
  BY <1>1, <1>3 DEF Control, socketVars, ownVars
<1>6. Data'
  BY <1>1 DEF Data, socketVars, recvVars, sendVars
<1>7. LocalInv'
  BY <1>1, <1>3 DEF LocalInv, Control, socketVars, recvVars
<1>8. RoomInv'
  <2>1. Len(queue') = 0
    BY <1>1 DEF sendVars
  <2> QED
    BY <2>1, <1>2, SizeAssumption DEF RoomInv
<1> QED
  BY <1>4, <1>5, <1>6, <1>7, <1>8

(* Where writeToSocket goes when ::send did not take the run: the throttle *)
(* is never on, so onSocketDrain has nothing to re-arm.                    *)
LEMMA ReturnsStopped ==
  ASSUME IInv, ReturnFromWrite(FALSE)
  PROVE  /\ pc' = IF writeCaller = "send" THEN "send" ELSE "loop"
         /\ mRecvPaused' = FALSE
         /\ onRecv' = onRecv
         /\ UNCHANGED <<recvCaller, writeCaller, pollOut, written, onError,
                        onDrain>>
<1>1. ~mRecvPaused /\ onRecv \in BOOLEAN
  BY DEF IInv, RoomInv, Flags
<1> QED
  BY <1>1 DEF ReturnFromWrite

(* The run get hands out is not empty and lies at the head of the queue.   *)
LEMMA RunValue ==
  ASSUME IInv, queue # <<>>
  PROVE  /\ Len(Run) \in 1 .. Len(queue)
         /\ Run = SubSeq(queue, 1, Len(Run))
         /\ Run \in Seq(1 .. MaxBytes)
         /\ \A i \in 1 .. Len(Run) :
              Run[i] = queue[i] /\ queue[i] \in 1 .. MaxBytes
<1> DEFINE n == RunLength(queue, start)
<1>1. queue \in Seq(1 .. MaxBytes) /\ start \in 0 .. Size - 1
  BY DEF IInv, Data
<1>2. n \in 1 .. Len(queue)
  BY <1>1, SizeAssumption DEF RunLength, Least
<1>3. Run = SubSeq(queue, 1, n)
  BY DEF Run, Prefix
<1> HIDE DEF n
<1>4. n \in 0 .. Len(queue)
  BY <1>2
<1>5. /\ SubSeq(queue, 1, n) \in Seq(1 .. MaxBytes)
      /\ Len(SubSeq(queue, 1, n)) = n
      /\ \A i \in 1 .. n :
           SubSeq(queue, 1, n)[i] = queue[i] /\ queue[i] \in 1 .. MaxBytes
  BY <1>1, <1>4, PrefixOf
<1> QED
  BY <1>2, <1>3, <1>5

(* What get leaves in the buffer.                                          *)
LEMMA TakeRunValue ==
  ASSUME IInv, queue # <<>>, TakeRun
  PROVE  /\ queue' = SubSeq(queue, Len(Run) + 1, Len(queue))
         /\ queue' \in Seq(1 .. MaxBytes)
         /\ Len(queue') = Len(queue) - Len(Run)
         /\ Len(queue') < Size
         /\ \A j \in 1 .. Len(queue') : queue'[j] = queue[Len(Run) + j]
         /\ start' \in 0 .. Size - 1
<1>1. /\ queue \in Seq(1 .. MaxBytes) /\ start \in 0 .. Size - 1
      /\ Len(queue) <= Size
  BY DEF IInv, Data
<1>2. Len(Run) \in 1 .. Len(queue)
  BY RunValue
<1>3. queue' = SubSeq(queue, Len(Run) + 1, Len(queue))
  BY DEF TakeRun, Rest
<1>4. start' \in 0 .. Size - 1
  <2>1. start' = (start + Len(Run)) % Size
    BY DEF TakeRun, Advance
  <2> QED
    BY <1>1, <1>2, <2>1, SizeAssumption
<1>5. Len(Run) \in 0 .. Len(queue) /\ Len(queue) \in Nat
  BY <1>1, <1>2
<1> DEFINE n == Len(Run)
           r == SubSeq(queue, n + 1, Len(queue))
<1>6. n \in 0 .. Len(queue)
  BY <1>5
<1> HIDE DEF n
<1>7. /\ r \in Seq(1 .. MaxBytes)
      /\ Len(r) = Len(queue) - n
      /\ \A j \in 1 .. Len(queue) - n : r[j] = queue[n + j]
  BY <1>1, <1>6, RestOf
<1>8. queue' = r
  BY <1>3 DEF n
<1>9. Len(r) < Size
  BY <1>1, <1>2, <1>7, SizeAssumption DEF n
<1> HIDE DEF r
<1>10. /\ queue' \in Seq(1 .. MaxBytes) /\ Len(queue') = Len(queue) - n
       /\ Len(queue') < Size
       /\ \A j \in 1 .. Len(queue') : queue'[j] = queue[n + j]
  BY <1>7, <1>8, <1>9
<1> QED
  BY <1>3, <1>4, <1>10 DEF n

LEMMA WriteSomeInv ==
  ASSUME IInv, WriteSome
  PROVE  IInv'
<1> USE DEF IInv
<1> DEFINE sent == Least(TxSpace - Len(txq), Len(Run))
<1>1. /\ queue # <<>> /\ TakeRun
      /\ txq' = txq \o Prefix(Run, sent)
      /\ wire' = wire \o Prefix(Run, sent)
      /\ lost' = lost \cup {Run[i] : i \in sent + 1 .. Len(Run)}
      /\ stat' = [stat EXCEPT !.sendBytes = @ + sent]
      /\ UNCHANGED <<arrived, copied, soError, pc, callVars, hookVars,
                     recvVars, ownVars>>
  BY DEF WriteSome
<1>2. sent \in 0 .. Len(Run) /\ Len(txq) + sent <= TxSpace
  <2>1. Len(Run) \in Nat
    BY <1>1, RunValue DEF Data
  <2>2. Len(txq) \in Nat /\ TxSpace \in Nat /\ Len(txq) <= TxSpace
    BY SocketAssumption DEF Data
  <2> QED
    BY <2>1, <2>2 DEF Least
<1> HIDE DEF sent
<1>3. /\ Prefix(Run, sent) \in Seq(1 .. MaxBytes)
      /\ Len(Prefix(Run, sent)) = sent
  BY <1>1, <1>2, RunValue, PrefixOf DEF Prefix
<1>4. Flags'
  BY DEF Flags, WriteSome, callVars, hookVars, ownVars
<1>5. Control'
  <2>1. sent \in Nat
    BY <1>1, <1>2, RunValue
  <2>2. stat' \in Stats
    <3>1. stat \in Stats
      BY DEF Control
    <3>2. stat' = [stat EXCEPT !.sendBytes = @ + sent]
      BY <1>1
    <3> QED
      BY <2>1, <3>1, <3>2 DEF Stats
  <2> QED
    BY <1>1, <2>2 DEF Control, callVars, ownVars
<1>6. lost' \subseteq 1 .. MaxBytes
  <2>1. \A i \in sent + 1 .. Len(Run) : Run[i] \in 1 .. MaxBytes
    BY <1>1, <1>2, RunValue
  <2> QED
    BY <1>1, <2>1 DEF Data
<1>7. /\ txq' \in Seq(1 .. MaxBytes) /\ Len(txq') <= TxSpace
      /\ wire' \in Seq(1 .. MaxBytes)
  BY <1>1, <1>2, <1>3, SocketAssumption DEF Data
<1>8. Data'
  <2>1. /\ queue' \in Seq(1 .. MaxBytes) /\ Len(queue') <= Size
        /\ start' \in 0 .. Size - 1
    BY <1>1, TakeRunValue, SizeAssumption DEF Data
  <2> QED
    BY <1>1, <1>6, <1>7, <2>1 DEF Data, callVars, recvVars
<1>9. LocalInv' /\ RoomInv'
  BY <1>1, TakeRunValue DEF LocalInv, RoomInv, callVars, recvVars, hookVars
<1> QED
  BY <1>4, <1>5, <1>8, <1>9

(* The three ways a run is lost leave the same data behind.                *)
LEMMA RunLost ==
  ASSUME IInv, queue # <<>>, TakeRun,
         lost' = lost \cup {Run[i] : i \in 1 .. Len(Run)},
         UNCHANGED <<arrived, copied, txq, wire, recvVars, written>>
  PROVE  Data' /\ Len(queue') < Size
<1> USE DEF IInv
<1>1. lost' \subseteq 1 .. MaxBytes
  <2>1. \A i \in 1 .. Len(Run) : Run[i] \in 1 .. MaxBytes
    BY RunValue
  <2> QED
    BY <2>1 DEF Data
<1> QED
  BY <1>1, TakeRunValue, SizeAssumption DEF Data, recvVars

LEMMA WriteStopsInv ==
  ASSUME IInv, WriteStops
  PROVE  IInv'
<1> USE DEF IInv
<1>1. /\ queue # <<>> /\ TakeRun /\ ReturnFromWrite(FALSE) /\ pc = "write"
      /\ lost' = lost \cup {Run[i] : i \in 1 .. Len(Run)}
      /\ UNCHANGED <<fdOpen, arrived, copied, fin, reset, soError, txq, wire,
                     watched, armed, recvVars, ownVars, stat>>
  BY DEF WriteStops
<1>2. /\ pc' = IF writeCaller = "send" THEN "send" ELSE "loop"
      /\ mRecvPaused' = FALSE
      /\ onRecv' = onRecv
      /\ UNCHANGED <<recvCaller, writeCaller, pollOut, written, onError, onDrain>>
  BY <1>1, ReturnsStopped
<1>3. Flags'
  BY <1>1, <1>2 DEF Flags, WriteStops, ownVars
<1>4. Control'
  BY <1>1, <1>2 DEF Control, ownVars
<1>5. Data' /\ Len(queue') < Size
  BY <1>1, <1>2, RunLost
<1>6. LocalInv' /\ RoomInv'
  BY <1>1, <1>2, <1>5 DEF LocalInv, RoomInv, recvVars
<1> QED
  BY <1>3, <1>4, <1>5, <1>6

LEMMA WriteFailsInv ==
  ASSUME IInv, WriteFails
  PROVE  IInv'
<1> USE DEF IInv
<1>1. /\ queue # <<>> /\ TakeRun /\ ReturnFromWrite(FALSE) /\ pc = "write"
      /\ soError' \in {soError, "none"}
      /\ lost' = lost \cup {Run[i] : i \in 1 .. Len(Run)}
      /\ UNCHANGED <<arrived, copied, fin, reset, txq, wire, noSpace, recvVars,
                     stat>>
  BY DEF WriteFails
<1>2. /\ pc' = IF writeCaller = "send" THEN "send" ELSE "loop"
      /\ mRecvPaused' = FALSE
      /\ onRecv' = onRecv
      /\ UNCHANGED <<recvCaller, writeCaller, pollOut, written, onError, onDrain>>
  BY <1>1, ReturnsStopped
<1>3. Flags'
  BY <1>1, <1>2 DEF Flags, WriteFails, HandleError, OnError, EndIf
<1>4. Control'
  <2>1. sockfd' \in {NoFd, ConnFd}
    BY DEF Control, WriteFails, HandleError, OnError, EndIf
  <2> QED
    BY <1>1, <1>2, <2>1 DEF Control, Errors
<1>5. Data' /\ Len(queue') < Size
  BY <1>1, <1>2, RunLost
<1>6. LocalInv' /\ RoomInv'
  BY <1>1, <1>2, <1>5 DEF LocalInv, RoomInv, recvVars
<1> QED
  BY <1>3, <1>4, <1>5, <1>6

LEMMA WriteKillsInv ==
  ASSUME IInv, WriteKills
  PROVE  IInv'
<1> USE DEF IInv
<1>1. /\ queue # <<>> /\ TakeRun /\ pc' = "killed"
      /\ lost' = lost \cup {Run[i] : i \in 1 .. Len(Run)}
      /\ UNCHANGED <<arrived, copied, fin, reset, soError, txq, wire, noSpace,
                     callVars, hookVars, recvVars, ownVars, stat>>
  BY DEF WriteKills, Die
<1>2. Flags'
  BY DEF Flags, WriteKills, Die, callVars, hookVars, ownVars
<1>3. Control'
  BY <1>1 DEF Control, callVars, ownVars
<1>4. Data' /\ Len(queue') < Size
  BY <1>1, RunLost DEF callVars
<1>5. LocalInv' /\ RoomInv'
  BY <1>1, <1>4 DEF LocalInv, RoomInv, recvVars, hookVars
<1> QED
  BY <1>2, <1>3, <1>4, <1>5

-----------------------------------------------------------------------------
LEMMA StepInv ==
  ASSUME IInv, [Next]_vars
  PROVE  IInv'
<1>1. CASE Server
  BY <1>1, AcceptInv, AcceptFailsInv, PollErrorInv, PollInInv, PollOutInv,
     PollNothingInv, DeliverInv, DeliverAbortsInv, RecvDataInv, RecvStopsInv,
     RecvFailsInv, RecvEndsInv, SendPutInv, SendReturnsInv, WriteDrainedInv,
     WriteSomeInv, WriteStopsInv, WriteFailsInv, WriteKillsInv DEF Server
<1>2. CASE Client /\ UNCHANGED serverVars
  BY <1>2, ClientInv
<1>3. CASE LoopEnds
  BY <1>3, LoopEndsInv
<1>4. CASE UNCHANGED vars
  BY <1>4 DEF IInv, Flags, Control, Data, LocalInv, RoomInv, vars,
     socketVars, serverVars, callVars, hookVars, recvVars, sendVars, ownVars
<1> QED
  BY <1>1, <1>2, <1>3, <1>4 DEF Next

LEMMA SpecInv == Spec => []IInv
  BY InitInv, StepInv, PTL DEF Spec

(* The state of a connection keeps its types: the offsets stay inside      *)
(* recvBuf, sendBuffer is never overfull, the kernel's queue neither.      *)
THEOREM Typing == Spec => []TypeOK
<1>1. IInv => TypeOK
  BY TypeParts DEF IInv
<1> QED
  BY <1>1, SpecInv, PTL

(* The throttle of onSocketRecv is dead code, whatever the buffer sizes:   *)
(* the server never pauses a receive.                                      *)
THEOREM ThrottleIsDead == Spec => []NeverPaused
<1>1. IInv => NeverPaused
  BY DEF IInv, RoomInv, NeverPaused
<1> QED
  BY <1>1, SpecInv, PTL

-----------------------------------------------------------------------------
(* The records of the connection agree at every step, except that a        *)
(* connection in the backlog is open without an NSock, and a dead process  *)
(* has lost its descriptors with no callback run.                          *)
OwnerInv ==
  \/ pc \in {"aborted", "killed"} /\ ~watched
  \/ pc = "listen" /\ fdOpen /\ sockfd = NoFd /\ ~watched /\ ~inConnections
     /\ ~refused
  \/ /\ pc \in {"loop", "recv", "send", "write"}
     /\ fdOpen <=> sockfd = ConnFd
     /\ watched <=> (fdOpen /\ ~refused)
     /\ inConnections => fdOpen
     /\ fdOpen => inConnections \/ watched

(* The error callback, wherever in the event handlers it is called.        *)
LEMMA OnErrorOwner ==
  ASSUME Flags, sockfd \in {NoFd, ConnFd}, OwnerInv, OnError,
         pc \in {"loop", "recv", "send", "write"},
         pc' \in {"loop", "recv", "send", "write"}
  PROVE  OwnerInv'
<1>1. CASE onError
  <2>1. sockfd' = NoFd
    BY <1>1 DEF OnError, EndIf
  <2>2. ~fdOpen' /\ ~watched' /\ ~inConnections' /\ refused' = refused
    BY <1>1, Zenon DEF OnError, EndIf
  <2> QED
    BY <2>1, <2>2 DEF OwnerInv
<1>2. CASE ~onError
  <2>1. sockfd' = sockfd
    BY <1>2 DEF OnError, EndIf
  <2>2. /\ fdOpen' <=> fdOpen
        /\ watched' <=> watched
        /\ inConnections' <=> inConnections
        /\ refused' = refused
    BY <1>2, Zenon DEF OnError, EndIf
  <2> QED
    BY <2>1, <2>2 DEF OwnerInv
<1> QED
  BY <1>1, <1>2

LEMMA OwnerHolds ==
  ASSUME IInv, OwnerInv, [Next]_vars
  PROVE  OwnerInv'
<1> USE DEF OwnerInv
<1>1. Flags /\ sockfd \in {NoFd, ConnFd}
  BY DEF IInv, Control
<1>2. CASE (\E accepted \in BOOLEAN : Accept(accepted)) \/ AcceptFails
         \/ LoopEnds
  BY <1>1, <1>2 DEF Flags, Accept, AcceptFails, LoopEnds, ownVars
<1>3. CASE PollIn \/ PollOut \/ PollNothing
  BY <1>1, <1>3 DEF PollIn, PollOut, PollNothing, serverVars, ownVars
<1>4. CASE PollError
  <2>1. pc = "loop" /\ pc' = "loop" /\ OnError
    BY <1>4 DEF PollError
  <2> QED
    BY <1>1, <2>1, OnErrorOwner
<1>5. CASE Deliver \/ RecvData \/ RecvStops
  BY <1>1, <1>5 DEF Deliver, RecvData, RecvStops, RecvIdle, ReturnFromRecv,
         ownVars, socketVars
<1>6. CASE RecvFails
  <2>1. pc = "recv" /\ pc' \in {"loop", "write"} /\ OnError
    BY <1>6 DEF RecvFails, RecvIdle, HandleError, ReturnFromRecv
  <2> QED
    BY <1>1, <2>1, OnErrorOwner
<1>7. CASE RecvEnds
  <2>1. pc = "recv" /\ pc' \in {"loop", "write"} /\ OnError
    BY <1>7 DEF RecvEnds, RecvIdle, HandleError, ReturnFromRecv
  <2> QED
    BY <1>1, <2>1, OnErrorOwner
<1>8. CASE SendPut \/ SendReturns
  BY <1>1, <1>8 DEF SendPut, SendReturns, ReturnFromRecv, ownVars, socketVars
<1>9. CASE WriteDrained \/ WriteSome \/ WriteStops
  BY <1>1, <1>9 DEF WriteDrained, WriteSome, WriteStops, ReturnFromWrite,
         ownVars, socketVars
<1>10. CASE WriteFails
  <2>1. pc = "write" /\ pc' \in {"loop", "recv", "send"} /\ OnError
    BY <1>10 DEF WriteFails, HandleError, ReturnFromWrite
  <2> QED
    BY <1>1, <2>1, OnErrorOwner
<1>11. CASE DeliverAborts \/ WriteKills
  BY <1>11 DEF DeliverAborts, WriteKills, Die
<1>12. CASE Client /\ UNCHANGED serverVars
  BY <1>12 DEF Client, ClientSends, ClientFinishes, ClientResets, ClientReads,
         serverVars, ownVars
<1>13. CASE UNCHANGED vars
  BY <1>13 DEF vars, socketVars, serverVars, ownVars
<1> QED
  BY <1>2, <1>3, <1>4, <1>5, <1>6, <1>7, <1>8, <1>9, <1>10, <1>11, <1>12,
     <1>13 DEF Next, Server

(* Between two polls the records agree, whatever epoll_ctl answered and    *)
(* however errors interleave with the callbacks: an open connection is     *)
(* watched unless epoll refused it and always has an owner, so that no     *)
(* descriptor leaks; and no owner keeps a closed socket.                   *)
THEOREM Ownership == Spec => []OwnershipConsistent
<1>1. Init => OwnerInv
  BY DEF Init, SocketInit, OwnerInv
<1>2. IInv /\ OwnerInv /\ [Next]_vars => OwnerInv'
  BY OwnerHolds
<1>3. IInv /\ OwnerInv => OwnershipConsistent
  BY DEF IInv, Flags, Control, OwnerInv, OwnershipConsistent
<1> QED
  BY <1>1, <1>2, <1>3, SpecInv, PTL DEF Spec

-----------------------------------------------------------------------------
(* SIGPIPE.  An open connection that was reset, and not half-closed before, *)
(* either still has its ECONNRESET, or had it answered before setErrorFn:  *)
(* then there is nothing left to write and the next recv ends it.          *)
Spent == pc \in {"loop", "recv"} /\ recvLen = 0 /\ copied = arrived

HookInv ==
  /\ sockfd = ConnFd => onRecv
  /\ pc = "listen" => ~onError

PendingInv ==
  onError /\ ~fin /\ reset /\ sockfd = ConnFd /\ pc \notin {"aborted", "killed"}
    => soError = "ECONNRESET" \/ Spent

SigInv == HookInv /\ PendingInv /\ SigpipeNeedsFin

LEMMA OnErrorEnds ==
  ASSUME OnError, onError
  PROVE  sockfd' = NoFd
  BY DEF OnError, EndIf

LEMMA SigHolds ==
  ASSUME IInv, SigInv, [Next]_vars
  PROVE  SigInv'
<1> USE DEF SigInv, HookInv, PendingInv, SigpipeNeedsFin, Spent
<1>0. Flags /\ sockfd \in {NoFd, ConnFd}
  BY DEF IInv, Control
<1>1. CASE (\E accepted \in BOOLEAN : Accept(accepted)) \/ AcceptFails
         \/ LoopEnds
  BY <1>0, <1>1 DEF Flags, Accept, AcceptFails, LoopEnds, recvVars, hookVars,
     ownVars
<1>2. CASE PollError
  BY <1>0, <1>2, OnErrorEnds DEF Flags, PollError, OnError, EndIf, recvVars, hookVars
<1>3. CASE PollIn \/ PollOut \/ PollNothing
  BY <1>0, <1>3 DEF Flags, PollIn, PollOut, PollNothing, InEvent, recvVars, hookVars,
         ownVars, serverVars
<1>4. CASE Deliver
  BY <1>0, <1>4 DEF Flags, Deliver, recvVars, hookVars, ownVars, socketVars,
         IInv, LocalInv
<1>15. CASE RecvData
  <2>1. /\ copied \in Nat /\ arrived \in Nat /\ copied < arrived
        /\ pc = "recv" /\ pc' = pc
        /\ UNCHANGED <<onError, onRecv, fin, reset, sockfd, soError>>
    BY <1>15, SocketAssumption DEF RecvData, RecvIdle, RecvHasData, IInv, Data,
       hookVars, ownVars
  <2>2. ~(copied = arrived)
    BY <2>1
  <2> QED
    BY ONLY <1>0, <2>1, <2>2, SigInv DEF SigInv, HookInv, PendingInv,
       SigpipeNeedsFin, Spent
<1>5. CASE RecvStops
  BY <1>0, <1>5 DEF Flags, RecvStops, RecvWouldBlock, ReturnFromRecv, recvVars,
         ownVars, socketVars
<1>6. CASE RecvFails
  <2>1. /\ pc = "recv" /\ recvLen = 0 /\ OnError
        /\ UNCHANGED <<fin, reset, copied, arrived, recvLen, onRecv>>
        /\ onError' = (onError \/ recvCaller = "onConnect")
        /\ pc' = IF recvCaller = "poll" /\ pollOut THEN "write" ELSE "loop"
    BY <1>6 DEF RecvFails, RecvIdle, HandleError, ReturnFromRecv, recvVars
  <2>2. sockfd = NoFd \/ copied = arrived
    BY <1>6 DEF RecvFails, RecvHasError
  <2>3. ~onError => sockfd' = sockfd
    BY <2>1 DEF OnError, EndIf
  <2>4. sockfd' = ConnFd => ~onError /\ sockfd = ConnFd
    BY <1>0, <2>1, <2>3, OnErrorEnds
  <2>5. pc' # "listen" /\ pc' # "killed" /\ (recvCaller = "onConnect" => pc' = "loop")
    BY <2>1
  <2>6. sockfd = ConnFd => copied = arrived
    BY <2>2
  <2> QED
    BY ONLY <1>0, <2>1, <2>4, <2>5, <2>6, SigInv DEF SigInv, HookInv,
       PendingInv, SigpipeNeedsFin, Spent
<1>7. CASE RecvEnds
  BY <1>0, <1>7, OnErrorEnds DEF Flags, RecvEnds, RecvIdle, RecvAtEnd,
         HandleError, OnError, EndIf, ReturnFromRecv, recvVars
<1>8. CASE SendPut
  BY <1>0, <1>8 DEF Flags, SendPut, recvVars, hookVars, ownVars, socketVars
<1>9. CASE SendReturns
  <2>1. written = recvLen
    BY <1>9, NeverShort
  <2>2. /\ UNCHANGED <<onError, fin, reset, sockfd, soError>>
        /\ pc = "send" /\ pc' = "recv" /\ onRecv' = onRecv
    <3>1. /\ pc = "send" /\ pc' = "recv"
          /\ UNCHANGED <<onError, fin, reset, sockfd, soError>>
          /\ onRecv' = (onRecv /\ ~(written < recvLen))
      BY <1>9, <2>1, RecvBufAssumption DEF SendReturns, ownVars, socketVars,
         IInv, Data
    <3>2. ~(written < recvLen)
      BY <2>1, RecvBufAssumption DEF IInv, Data
    <3> QED
      BY ONLY <1>0, <3>1, <3>2 DEF Flags
  <2> QED
    BY <1>0, <2>2 DEF Flags
<1>10. CASE WriteDrained \/ WriteSome \/ WriteStops
  BY <1>0, <1>10 DEF Flags, WriteDrained, WriteSome, WriteStops, ReturnFromWrite,
         SendHasSpace, SendWouldBlock, ownVars, socketVars, hookVars, recvVars
<1>11. CASE WriteFails
  BY <1>0, <1>11, OnErrorEnds DEF Flags, WriteFails, HandleError, OnError, EndIf,
         ReturnFromWrite
<1>12. CASE DeliverAborts \/ WriteKills
  BY <1>0, <1>12 DEF Flags, DeliverAborts, WriteKills, SendRaisesSigpipe, Die,
         hookVars, ownVars
<1>13. CASE Client /\ UNCHANGED serverVars
  BY <1>0, <1>13 DEF Flags, Client, ClientSends, ClientFinishes, ClientResets,
         ClientReads, serverVars, hookVars, ownVars, recvVars
<1>14. CASE UNCHANGED vars
  BY <1>14 DEF vars, socketVars, serverVars, hookVars, ownVars, recvVars
<1> QED
  BY <1>1, <1>2, <1>3, <1>4, <1>5, <1>6, <1>7, <1>8, <1>9, <1>10, <1>11, <1>12,
     <1>13, <1>14, <1>15 DEF Next, Server

(* A client that resets the connection cannot end the server by SIGPIPE,   *)
(* unless it half-closed it before, or did so while onConnect still ran.   *)
THEOREM Sigpipe == Spec => []SigpipeNeedsFin
<1>1. Init => SigInv
  BY DEF Init, SocketInit, SigInv, HookInv, PendingInv, SigpipeNeedsFin
<1>2. IInv /\ SigInv /\ [Next]_vars => SigInv'
  BY SigHolds
<1>3. SigInv => SigpipeNeedsFin
  BY DEF SigInv
<1> QED
  BY <1>1, <1>2, <1>3, SpecInv, PTL DEF Spec

-----------------------------------------------------------------------------
(* Edges.  NoEdgeMissed speaks of the moments when the loop waits; these   *)
(* say what holds inside the callbacks, so that it holds there.            *)

(* What keeps the loop's one announcement per edge enough.                 *)

(* A closed descriptor is not on the ready list, the process that died has *)
(* closed it, and a pending error was put there by a reset.                *)
ReadyInv ==
  /\ pc \in {"aborted", "killed"} => ~fdOpen
  /\ armed => watched /\ fdOpen
  /\ soError # "none" => reset
  /\ pc = "listen" => txq = <<>> /\ ~armed

(* Until setErrorFn is called the connection is in onConnect and stays on  *)
(* the ready list, since the socket had space when epoll took it; one that *)
(* epoll refused sees no callback but onConnect.                           *)
InOnConnect == recvCaller = "onConnect" /\ (pc = "write" => writeCaller = "send")

ConnectInv ==
  fdOpen =>
    /\ pc = "loop" => onError
    /\ pc \in {"recv", "send", "write"} => (onError <=> ~InOnConnect)
    /\ pc \in {"recv", "send", "write"} /\ ~onError => armed \/ ~watched
    /\ pc \in {"recv", "send", "write"} /\ onError => watched

(* Out of the receive loop everything the client did is read or announced. *)
ReadInv ==
  watched /\ (pc = "loop" \/ (pc = "write" /\ writeCaller = "poll")) =>
    armed \/ ~InEvent

(* What stays in sendBuffer is going to be written by the running callback *)
(* or waits for space that a write has asked for.                          *)
WillWrite ==
  \/ pc = "write"
  \/ pc \in {"recv", "send"} /\ recvCaller = "poll" /\ pollOut

WriteInv ==
  watched /\ pc \in {"loop", "recv", "send", "write"} /\ queue # <<>> /\ ~WillWrite
    => armed \/ (noSpace /\ txq # <<>>)

EdgeInv == ReadyInv /\ ConnectInv /\ ReadInv /\ WriteInv

LEMMA ErrorHandled ==
  ASSUME HandleError
  PROVE  /\ onError => ~fdOpen' /\ ~armed' /\ ~watched'
         /\ ~onError => /\ fdOpen' <=> fdOpen
                        /\ armed' <=> armed
                        /\ watched' <=> watched
  BY Zenon DEF HandleError, OnError, EndIf

LEMMA EdgeHolds ==
  ASSUME IInv, OwnerInv, HookInv, EdgeInv, [Next]_vars
  PROVE  EdgeInv'
<1> USE DEF EdgeInv, ReadyInv, ConnectInv, InOnConnect, ReadInv, WillWrite,
        WriteInv, InEvent, OutEvent, ErrEvent
<1>0. Flags /\ sockfd \in {NoFd, ConnFd} /\ ~mRecvPaused
  BY DEF IInv, Control, RoomInv
<1>17. (watched => fdOpen) /\ (watched' => fdOpen')
  BY OwnerHolds DEF OwnerInv
<1> DEFINE full == Len(txq) >= TxSpace
<1>16. /\ full => txq # <<>>
       /\ txq = <<>> => ~full
       /\ Len(txq) < TxSpace <=> ~full
       /\ Len(txq) = TxSpace => full
  BY SocketAssumption DEF IInv, Data
<1> HIDE DEF full
<1>1. CASE (\E accepted \in BOOLEAN : Accept(accepted)) \/ AcceptFails
         \/ LoopEnds
  <2>1. ASSUME NEW accepted \in BOOLEAN, Accept(accepted)
        PROVE  EdgeInv'
    <3>1. armed' <=> accepted
      BY <1>16, <2>1 DEF Accept
    <3>2. /\ watched' = accepted /\ fdOpen /\ fdOpen' = fdOpen /\ ~onError
          /\ pc = "listen" /\ pc' = "recv" /\ recvCaller' = "onConnect"
          /\ UNCHANGED <<onError, soError, reset>>
      BY <1>0, <1>17, <2>1 DEF Accept, OwnerInv, HookInv
    <3> QED
      BY <1>0, <1>17, <2>1, <3>1, <3>2 DEF Flags
  <2>2. CASE AcceptFails
    BY <1>0, <1>17, <2>2 DEF Flags, AcceptFails, sendVars, OwnerInv
  <2>3. CASE LoopEnds
    BY <1>0, <1>17, <2>3 DEF Flags, LoopEnds, sendVars, callVars, hookVars, OwnerInv
  <2> QED
    BY <1>1, <2>1, <2>2, <2>3
<1>2. CASE PollError
  <2>1. /\ ~fdOpen' /\ ~armed' /\ ~watched'
        /\ UNCHANGED <<soError, reset>> /\ pc' # "listen"
    BY <1>0, <1>17, <1>2 DEF Flags, PollError, OnError, EndIf
  <2> QED
    BY <2>1
<1>3. CASE PollIn \/ PollOut \/ PollNothing
  BY <1>0, <1>17, <1>3, <1>16 DEF Flags, PollIn, PollOut, PollNothing, hookVars,
     sendVars, serverVars, callVars
<1>4. CASE Deliver \/ RecvData
  BY <1>0, <1>17, <1>4 DEF Flags, Deliver, RecvData, RecvIdle, hookVars, sendVars,
     socketVars, callVars
<1>5. CASE RecvStops
  <2>1. /\ pc = "recv" /\ UNCHANGED <<socketVars, sendVars>>
        /\ pc' = IF recvCaller = "poll" /\ pollOut THEN "write" ELSE "loop"
        /\ onError' <=> onError \/ recvCaller = "onConnect"
        /\ writeCaller' = "poll" /\ recvCaller' = recvCaller
    BY <1>5 DEF RecvStops, ReturnFromRecv
  <2>2. fdOpen => ~InEvent
    <3>1. fdOpen => copied = arrived /\ ~fin /\ ~reset
      BY <1>5 DEF RecvStops, RecvWouldBlock, OwnerInv, HookInv
    <3> QED
      BY <3>1, SocketAssumption DEF IInv, Data
  <2> QED
    BY <1>0, <1>17, <2>1, <2>2 DEF Flags, socketVars, sendVars
<1>6. CASE RecvFails
  BY <1>0, <1>17, <1>6, ErrorHandled DEF Flags, RecvFails, RecvIdle, ReturnFromRecv,
     sendVars
<1>7. CASE RecvEnds
  BY <1>0, <1>17, <1>7, ErrorHandled DEF Flags, RecvEnds, RecvIdle, ReturnFromRecv,
     sendVars
<1>8. CASE SendPut
  BY <1>0, <1>17, <1>8 DEF Flags, SendPut, hookVars, socketVars
<1>9. CASE SendReturns
  <2>1. /\ pc = "send" /\ pc' = "recv"
        /\ UNCHANGED <<socketVars, sendVars, recvCaller, pollOut, onError>>
    <3>1. ~(written < recvLen)
      BY <1>9, NeverShort, RecvBufAssumption DEF IInv, Data
    <3> QED
      BY <1>9, <3>1 DEF SendReturns
  <2> QED
    BY <1>0, <1>17, <2>1 DEF Flags, socketVars, sendVars
<1>10. CASE WriteDrained \/ WriteStops
  <2>1. /\ pc = "write"
        /\ pc' = IF writeCaller = "send" THEN "send" ELSE "loop"
        /\ UNCHANGED <<fdOpen, arrived, copied, fin, reset, soError, txq,
                       watched, armed, recvCaller, writeCaller, pollOut, onError>>
    BY <1>0, <1>17, <1>10 DEF WriteDrained, WriteStops, ReturnFromWrite, socketVars
  <2>2. queue' = <<>> \/ (noSpace' /\ full)
    BY <1>10, <1>16 DEF WriteDrained, WriteStops, SendWouldBlock, sendVars
  <2> QED
    BY <1>0, <1>17, <1>16, <2>1, <2>2 DEF Flags, IInv, Control
<1>11. CASE WriteSome
  BY <1>0, <1>17, <1>11 DEF Flags, WriteSome, callVars, hookVars
<1>12. CASE WriteFails
  BY <1>0, <1>17, <1>12, ErrorHandled DEF Flags, WriteFails, ReturnFromWrite
<1>13. CASE DeliverAborts \/ WriteKills
  BY <1>13 DEF DeliverAborts, WriteKills, Die
<1>14. CASE Client /\ UNCHANGED serverVars
  BY <1>0, <1>17, <1>14 DEF Flags, Client, ClientSends, ClientFinishes, ClientResets,
     ClientReads, Edge, serverVars, callVars, hookVars, sendVars, OwnerInv
<1>15. CASE UNCHANGED vars
  BY <1>15 DEF vars, socketVars, serverVars, callVars, hookVars, sendVars
<1> QED
  BY <1>1, <1>2, <1>3, <1>4, <1>5, <1>6, <1>7, <1>8, <1>9, <1>10, <1>11,
     <1>12, <1>13, <1>14, <1>15 DEF Next, Server

LEMMA LoopSpec == Spec => [](IInv /\ OwnerInv /\ SigInv /\ EdgeInv)
<1>1. Init => OwnerInv
  BY DEF Init, SocketInit, OwnerInv
<1>2. Init => SigInv
  BY DEF Init, SocketInit, SigInv, HookInv, PendingInv, SigpipeNeedsFin
<1>3. Init => EdgeInv
  BY DEF Init, SocketInit, EdgeInv, ReadyInv, ConnectInv, InOnConnect,
     ReadInv, WillWrite, WriteInv
<1>4. IInv /\ OwnerInv /\ [Next]_vars => OwnerInv'
  BY OwnerHolds
<1>5. IInv /\ SigInv /\ [Next]_vars => SigInv'
  BY SigHolds
<1>6. IInv /\ OwnerInv /\ SigInv /\ EdgeInv /\ [Next]_vars => EdgeInv'
  BY EdgeHolds DEF SigInv
<1> QED
  BY <1>1, <1>2, <1>3, <1>4, <1>5, <1>6, SpecInv, PTL DEF Spec

(* Epoll tells the server once of every edge of a descriptor it took, and  *)
(* the server never forgets one: waiting, with the connection off the      *)
(* ready list, it has read all that came, and sendBuffer is empty or waits *)
(* for space it asked for.  A connection that epoll refused is excepted.   *)
THEOREM Edges == Spec => []NoEdgeMissed
<1>1. IInv /\ OwnerInv /\ EdgeInv => NoEdgeMissed
  BY SocketAssumption DEF IInv, Data, OwnerInv, EdgeInv, ReadInv, WillWrite, WriteInv,
     InEvent, NoEdgeMissed
<1> QED
  BY <1>1, LoopSpec, PTL

-----------------------------------------------------------------------------
(* KeepsItsPart: Spec refines Connection.  What the loop sees in each      *)
(* state of the session.                                                   *)
Running == pc \in {"loop", "recv", "send", "write"}

LEMMA Seen ==
  /\ pc \in {"aborted", "killed"} => Phase = "dead"
  /\ fdOpen /\ pc = "listen" => Phase = "queued"
  /\ fdOpen /\ Running => Phase = IF watched THEN "open" ELSE "unwatched"
  /\ ~fdOpen /\ (Running \/ pc = "listen") => Phase = "gone"
  BY DEF Phase, Running

(* A step the loop does not see.                                           *)
LEMMA Unseen ==
  ASSUME armed \in BOOLEAN, armed' \in BOOLEAN,
         Phase' = Phase, armed' <=> armed, Handling' <=> Handling,
         (fdOpen /\ (fin \/ reset))' <=> (fdOpen /\ (fin \/ reset))
  PROVE  UNCHANGED Part!vars
  BY DEF Part!vars

(* The connection is closed: for the loop it is over.                      *)
LEMMA Closes ==
  ASSUME Flags, Running, fdOpen, watched, fin \/ reset, armed \/ Handling,
         ~fdOpen', ~armed', Flags', Running'
  PROVE  Part!End
  BY Seen DEF Part!End, Handling, Flags, Running, Phase

(* A callback returns to the loop with the connection open.                *)
LEMMA Returns ==
  ASSUME Flags, Flags', Running, fdOpen, watched, Handling, pc' = "loop",
         armed \/ ~InEvent, UNCHANGED <<fdOpen, fin, reset, watched, armed>>
  PROVE  Part!Serve
  BY Seen DEF Part!Serve, Handling, Flags, Running, Phase, InEvent

(* It is accepted, and either on the ready list at once or unwatched.      *)
LEMMA Accepted ==
  ASSUME Flags, Flags', fdOpen, pc = "listen", pc' = "recv",
         armed' <=> watched', ~armed,
         recvCaller' = "onConnect", UNCHANGED <<fdOpen, fin, reset>>
  PROVE  Part!Accept
  BY DEF Part!Accept, Handling, Flags, Phase

(* The client hangs up; or does something an open connection is told of.   *)
LEMMA HungUp ==
  ASSUME Flags, Flags', Phase \in {"queued", "open", "unwatched"},
         fdOpen, fdOpen',
         ~fin /\ ~reset, fin' \/ reset', armed' <=> (armed \/ Phase = "open"),
         Phase' = Phase, Handling' <=> Handling
  PROVE  Part!HangUp
  BY DEF Part!HangUp, Flags

LEMMA Acted ==
  ASSUME Flags, Flags', Phase = "open", fdOpen, fdOpen', armed',
         (fin \/ reset)' <=> (fin \/ reset),
         Phase' = Phase, Handling' <=> Handling
  PROVE  Part!Act
  BY DEF Part!Act, Flags

LEMMA PartStep ==
  ASSUME IInv, OwnerInv, HookInv, EdgeInv, [Next]_vars
  PROVE  [Part!Next]_(Part!vars)
<1> USE DEF EdgeInv, ReadyInv, ConnectInv, InOnConnect, ReadInv, InEvent,
        ErrEvent
<1>0. /\ Flags /\ Flags' /\ sockfd \in {NoFd, ConnFd} /\ ~mRecvPaused
      /\ pc \in {"listen", "loop", "recv", "send", "write", "aborted", "killed"}
  BY StepInv DEF IInv, Control, RoomInv
<1>1. ASSUME NEW accepted \in BOOLEAN, Accept(accepted)
      PROVE  [Part!Next]_(Part!vars)
  <2>1. armed' <=> watched'
    <3>1. Len(txq) < TxSpace
      BY <1>1, SocketAssumption DEF Accept
    <3> QED
      BY <1>1, <3>1 DEF Accept, OutEvent
  <2>2. /\ fdOpen /\ pc = "listen" /\ pc' = "recv" /\ ~armed
        /\ recvCaller' = "onConnect" /\ UNCHANGED <<fdOpen, fin, reset>>
    BY <1>0, <1>1 DEF Accept, OwnerInv
  <2> QED
    BY <1>0, <2>1, <2>2, Accepted DEF Part!Next
<1>2. CASE AcceptFails
  BY <1>0, <1>2, Seen DEF Part!Next, Part!Abandon, AcceptFails, Phase,
     Handling, Flags, OwnerInv
<1>16. CASE LoopEnds
  <2>1. ~Handling /\ ~Handling' /\ UNCHANGED <<fin, reset, watched, armed>>
    BY <1>16 DEF LoopEnds, Handling, callVars
  <2>2. CASE watched
    <3>1. pc = "loop" /\ pc' = "loop" /\ fdOpen /\ fdOpen'
      BY <1>16, <2>2 DEF LoopEnds, OwnerInv
    <3> QED
      BY <1>0, <2>1, <2>2, <3>1, Unseen DEF Flags, Phase
  <2>3. CASE ~watched
    <3>1. fdOpen /\ ~fdOpen' /\ pc \in {"listen", "loop"} /\ pc' = "loop"
      BY <1>0, <1>16, <2>3 DEF LoopEnds, OwnerInv, Flags
    <3>2. Phase \in {"queued", "unwatched"} /\ Phase' = "gone"
      BY <2>3, <3>1 DEF Phase
    <3>3. Handling' = Handling
      BY <2>1 DEF Handling
    <3>4. Part!Abandon
      BY <2>1, <3>1, <3>2, <3>3 DEF Part!Abandon
    <3> QED
      BY <3>4 DEF Part!Next
  <2> QED
    BY <2>2, <2>3
<1>3. CASE PollError
  <2>1. /\ ~fdOpen' /\ ~armed' /\ Running /\ Running' /\ fdOpen /\ reset
        /\ armed /\ watched
    BY <1>0, <1>3 DEF Flags, PollError, OnError, EndIf, Running
  <2> QED
    BY <1>0, <2>1, Closes DEF Part!Next
<1>4. CASE PollIn
  BY <1>0, <1>4, Seen DEF Part!Next, Part!Take, PollIn, Phase, Handling, Flags,
     Running
<1>5. CASE PollOut
  BY <1>0, <1>5, Seen DEF Part!Next, Part!Take, PollOut, Phase, Handling, Flags,
     Running
<1>6. CASE PollNothing
  BY <1>0, <1>6, Seen DEF Part!Next, Part!Idle, PollNothing, Phase, Handling,
     Flags, Running, serverVars, callVars
<1>7. CASE Deliver \/ RecvData \/ SendPut \/ WriteSome
  BY <1>0, <1>7, Unseen DEF Deliver, RecvData, RecvIdle, SendPut, WriteSome,
     Phase, Handling, Flags, socketVars, callVars
<1>8. CASE DeliverAborts \/ WriteKills
  BY <1>0, <1>8 DEF Part!Next, Part!Die, DeliverAborts, WriteKills, Die, Phase,
     Handling, Flags
<1>9. CASE RecvStops
  <2>1. /\ pc = "recv" /\ UNCHANGED <<fdOpen, fin, reset, watched, armed>>
        /\ pc' = IF recvCaller = "poll" /\ pollOut THEN "write" ELSE "loop"
        /\ writeCaller' = "poll" /\ recvCaller' = recvCaller
    BY <1>9 DEF RecvStops, ReturnFromRecv, socketVars
  <2>2. fdOpen => ~InEvent
    <3>1. fdOpen => copied = arrived /\ ~fin /\ ~reset
      BY <1>9 DEF RecvStops, RecvWouldBlock, OwnerInv, HookInv
    <3> QED
      BY <3>1, SocketAssumption DEF IInv, Data
  <2>3. CASE fdOpen /\ recvCaller # "onConnect" /\ pc' = "loop"
    <3>1. watched
      BY <1>0, <2>1, <2>3
    <3> QED
      BY <1>0, <2>1, <2>2, <2>3, <3>1, Returns DEF Part!Next, Handling, Running
  <2>4. CASE ~(fdOpen /\ recvCaller # "onConnect" /\ pc' = "loop")
    BY <1>0, <2>1, <2>4, Unseen DEF Flags, Phase, Handling
  <2> QED
    BY <2>3, <2>4
<1>10. CASE RecvFails \/ RecvEnds
  <2>1. /\ pc = "recv" /\ HandleError /\ UNCHANGED <<fin, reset>>
        /\ pc' = IF recvCaller = "poll" /\ pollOut THEN "write" ELSE "loop"
        /\ writeCaller' = "poll" /\ recvCaller' = recvCaller
        /\ sockfd = ConnFd => fin \/ reset
    BY <1>10 DEF RecvFails, RecvEnds, RecvIdle, ReturnFromRecv, RecvHasError,
       RecvAtEnd
  <2>2. CASE fdOpen /\ onError
    BY <1>0, <2>1, <2>2, ErrorHandled, Closes DEF Part!Next, Handling, Running,
       OwnerInv
  <2>3. CASE ~(fdOpen /\ onError)
    BY <1>0, <2>1, <2>3, ErrorHandled, Unseen DEF Flags, Phase, Handling
  <2> QED
    BY <2>2, <2>3
<1>11. CASE SendReturns
  <2>1. ~(written < recvLen)
    BY <1>11, NeverShort, RecvBufAssumption DEF IInv, Data
  <2>2. /\ pc = "send" /\ pc' = "recv"
        /\ UNCHANGED <<fdOpen, fin, reset, watched, armed, recvCaller>>
    BY <1>11, <2>1 DEF SendReturns, socketVars
  <2> QED
    BY <1>0, <2>2, Unseen DEF Flags, Phase, Handling
<1>12. CASE WriteDrained \/ WriteStops
  <2>1. /\ pc = "write"
        /\ pc' = IF writeCaller = "send" THEN "send" ELSE "loop"
        /\ UNCHANGED <<fdOpen, fin, reset, watched, armed, recvCaller,
                       writeCaller>>
    BY <1>0, <1>12 DEF WriteDrained, WriteStops, ReturnFromWrite, socketVars
  <2>2. CASE fdOpen /\ writeCaller = "poll"
    BY <1>0, <2>1, <2>2, Returns DEF Part!Next, Handling, Running
  <2>3. CASE ~(fdOpen /\ writeCaller = "poll")
    BY <1>0, <2>1, <2>3, Unseen DEF Flags, Phase, Handling, IInv, Control
  <2> QED
    BY <2>2, <2>3
<1>13. CASE WriteFails
  <2>1. /\ pc = "write" /\ HandleError /\ UNCHANGED <<fin, reset>>
        /\ pc' = IF writeCaller = "send" THEN "send" ELSE "loop"
        /\ UNCHANGED <<recvCaller, writeCaller>>
        /\ sockfd = ConnFd => reset
    BY <1>0, <1>13 DEF WriteFails, ReturnFromWrite, SendHasError
  <2>2. CASE fdOpen /\ onError
    BY <1>0, <2>1, <2>2, ErrorHandled, Closes DEF Part!Next, Handling, Running,
       OwnerInv, IInv, Control
  <2>3. CASE ~(fdOpen /\ onError)
    BY <1>0, <2>1, <2>3, ErrorHandled, Unseen DEF Flags, Phase, Handling
  <2> QED
    BY <2>2, <2>3
<1>14. CASE Client /\ UNCHANGED serverVars
  <2>1. fdOpen /\ fdOpen' /\ UNCHANGED <<pc, recvCaller, writeCaller>>
    BY <1>0, <1>14 DEF Client, ClientSends, ClientFinishes, ClientResets,
       ClientReads, serverVars, callVars
  <2>6. watched' = watched
    BY <1>14 DEF Client, ClientSends, ClientFinishes, ClientResets, ClientReads
  <2>2. Phase' = Phase /\ (Handling' <=> Handling)
    BY <2>1, <2>6 DEF Phase, Handling
  <2>3. /\ Phase \in {"queued", "open", "unwatched"}
        /\ watched <=> Phase = "open"
    BY <1>0, <2>1 DEF OwnerInv, Phase, Flags
  <2>4. CASE ClientSends \/ ClientReads
    <3>1. /\ UNCHANGED <<fin, reset>>
          /\ (armed' <=> armed) \/ (armed' /\ watched)
      BY <1>0, <2>4 DEF ClientSends, ClientReads, Edge, Flags
    <3>2. CASE armed' <=> armed
      BY <1>0, <2>1, <2>2, <3>1, <3>2, Unseen DEF Flags
    <3>3. CASE armed' /\ watched
      BY <1>0, <2>1, <2>2, <2>3, <3>1, <3>3, Acted DEF Part!Next
    <3> QED
      BY <3>1, <3>2, <3>3
  <2>5. CASE ClientFinishes \/ ClientResets
    <3>1. (fin' \/ reset') /\ (armed' <=> (armed \/ watched))
      BY <1>0, <2>5 DEF ClientFinishes, ClientResets, Edge, Flags
    <3>2. CASE ~fin /\ ~reset
      BY <1>0, <2>1, <2>2, <2>3, <3>1, <3>2, HungUp DEF Part!Next
    <3>3. CASE (fin \/ reset) /\ watched
      BY <1>0, <2>1, <2>2, <2>3, <3>1, <3>3, Acted DEF Part!Next
    <3>4. CASE (fin \/ reset) /\ ~watched
      BY <1>0, <2>1, <2>2, <3>1, <3>4, Unseen DEF Flags
    <3> QED
      BY <3>2, <3>3, <3>4
  <2> QED
    BY <1>14, <2>4, <2>5 DEF Client
<1>15. CASE UNCHANGED vars
  BY <1>0, <1>15, Unseen DEF vars, socketVars, serverVars, callVars, Phase,
     Handling, Flags
<1> QED
  BY <1>1, <1>2, <1>3, <1>4, <1>5, <1>6, <1>7, <1>8, <1>9, <1>10, <1>11,
     <1>12, <1>13, <1>14, <1>15, <1>16 DEF Next, Server

(* Whatever the sizes of the buffers and wherever errors meet the code,    *)
(* the callbacks keep their part: a watched connection is closed only      *)
(* after its client has gone, in its own callback, and one that stays open *)
(* has no unannounced hang-up; one that epoll refused only its loop ends.  *)
THEOREM Contract == Spec => KeepsItsPart
<1>1. Init => Part!Init
  <2> SUFFICES ASSUME Init PROVE Part!Init
    OBVIOUS
  <2>1. /\ fdOpen = TRUE /\ fin = FALSE /\ reset = FALSE /\ armed = FALSE
        /\ pc = "listen"
    BY DEF Init, SocketInit
  <2> QED
    BY <2>1 DEF Part!Init, Phase, Handling
<1>2. IInv /\ OwnerInv /\ SigInv /\ EdgeInv /\ [Next]_vars
      => [Part!Next]_(Part!vars)
  BY PartStep DEF SigInv
<1> QED
  BY <1>1, <1>2, LoopSpec, PTL DEF Spec, KeepsItsPart, Part!Spec

=============================================================================
