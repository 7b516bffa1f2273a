-------------------------- MODULE EchoOrderProofs --------------------------
(***************************************************************************)
(* Proofs that EchoSession neither reorders, repeats nor forgets a byte:   *)
(* what the client is sent, what waits and what was dropped partition what *)
(* it sent; so the connection is a LossyEcho, and exact as long as         *)
(* writeToSocket has lost nothing.  Built on the invariant of              *)
(* EchoSessionProofs.                                                      *)
(***************************************************************************)
EXTENDS EchoSessionProofs

(* How many bytes send has put into sendBuffer so far.                     *)
Handed == copied - (recvLen - written)

(* EchoInOrder without the concatenation of Pipeline.                      *)
OrderInv ==
  /\ \A i, j \in 1 .. Len(wire) : i < j => wire[i] < wire[j]
  /\ \A i, j \in 1 .. Len(queue) : i < j => queue[i] < queue[j]
  /\ \A i \in 1 .. Len(wire) : \A j \in 1 .. Len(queue) : wire[i] < queue[j]
  /\ \A i \in 1 .. Len(wire) : wire[i] <= Handed
  /\ \A j \in 1 .. Len(queue) : queue[j] <= Handed

(* EveryByteAccounted in the same way.                                     *)
PlaceInv ==
  /\ lost \subseteq 1 .. Handed
  /\ \A i \in 1 .. Len(wire) : wire[i] \notin lost
  /\ \A j \in 1 .. Len(queue) : queue[j] \notin lost
  /\ \A b \in 1 .. Handed :
       \/ b \in lost
       \/ \E i \in 1 .. Len(wire) : wire[i] = b
       \/ \E j \in 1 .. Len(queue) : queue[j] = b

(* What the lemmas below need to know of the numbers and sequences.        *)
LEMMA Shapes ==
  ASSUME IInv
  PROVE  /\ wire \in Seq(1 .. MaxBytes) /\ queue \in Seq(1 .. MaxBytes)
         /\ Len(wire) \in Nat /\ Len(queue) \in Nat
         /\ recvLen \in Nat /\ written \in 0 .. recvLen /\ copied \in Nat
         /\ Handed \in Nat
<1>1. /\ wire \in Seq(1 .. MaxBytes) /\ queue \in Seq(1 .. MaxBytes)
      /\ recvLen \in Nat /\ written \in 0 .. recvLen /\ copied \in Nat
      /\ recvLen <= copied
  BY SocketAssumption, RecvBufAssumption DEF IInv, Data, LocalInv
<1> QED
  BY <1>1 DEF Handed

(* The steps that move no byte between the places.                         *)
Settled == UNCHANGED <<wire, queue, lost, Handed>>

LEMMA SettledKeeps ==
  ASSUME OrderInv, PlaceInv, Settled
  PROVE  OrderInv' /\ PlaceInv'
<1>1. Len(wire') = Len(wire) /\ Len(queue') = Len(queue)
  BY DEF Settled
<1> QED
  BY <1>1 DEF Settled, OrderInv, PlaceInv

LEMMA SettledSteps ==
  ASSUME IInv, [Next]_vars
  PROVE  \/ Settled
         \/ SendPut \/ WriteSome \/ WriteStops \/ WriteFails \/ WriteKills
<1> USE DEF Settled, Handed
<1>1. CASE (\E accepted \in BOOLEAN : Accept(accepted)) \/ AcceptFails
         \/ LoopEnds
  BY <1>1 DEF Accept, AcceptFails, LoopEnds, callVars, recvVars, sendVars
<1>2. CASE PollError \/ PollIn \/ PollOut \/ PollNothing
  BY <1>2 DEF PollError, OnError, EndIf, PollIn, PollOut, PollNothing,
         callVars, recvVars, sendVars, serverVars
<1>3. CASE Deliver
  <2>1. written = 0
    BY <1>3 DEF Deliver, IInv, LocalInv, Control
  <2> QED
    BY <1>3, <2>1 DEF Deliver, socketVars, recvVars, sendVars
<1>4. CASE DeliverAborts
  BY <1>4 DEF DeliverAborts, callVars, recvVars, sendVars
<1>5. CASE RecvData
  <2>1. /\ written = 0 /\ recvLen = 0 /\ copied \in Nat
        /\ UNCHANGED <<wire, queue, lost, written>>
    BY <1>5, SocketAssumption
       DEF RecvData, RecvIdle, IInv, LocalInv, Control, Data, callVars, sendVars
  <2>2. PICK n \in Nat : recvLen' = n /\ copied' = copied + n
    <3> DEFINE n == Least(RecvBufSize, arrived - copied)
    <3>1. n \in Nat
      BY SocketAssumption, RecvBufAssumption DEF IInv, Data, Least
    <3>2. recvLen' = n /\ copied' = copied + n
      BY <1>5 DEF RecvData
    <3> QED
      BY <3>1, <3>2
  <2> QED
    BY <2>1, <2>2
<1>6. CASE RecvStops \/ RecvFails \/ RecvEnds
  BY <1>6 DEF RecvStops, RecvFails, RecvEnds, socketVars, recvVars, sendVars
<1>7. CASE SendReturns
  <2>1. /\ written = recvLen /\ written' = 0 /\ recvLen' = recvLen - written
        /\ UNCHANGED <<wire, queue, lost, copied>>
    BY <1>7, NeverShort DEF SendReturns, socketVars, sendVars
  <2>2. recvLen \in Nat /\ copied \in Nat
    BY Shapes
  <2> QED
    BY <2>1, <2>2
<1>8. CASE WriteDrained
  BY <1>8 DEF WriteDrained, ReturnFromWrite, socketVars, recvVars, sendVars
<1>9. CASE Client /\ UNCHANGED serverVars
  BY <1>9 DEF Client, ClientSends, ClientFinishes, ClientResets, ClientReads,
              serverVars, callVars, recvVars, sendVars
<1>10. CASE UNCHANGED vars
  BY <1>10 DEF vars, socketVars, serverVars, callVars, recvVars, sendVars
<1> QED
  BY <1>1, <1>2, <1>3, <1>4, <1>5, <1>6, <1>7, <1>8, <1>9, <1>10
     DEF Next, Server

LEMMA ByteIsNat ==
  ASSUME NEW s \in Seq(1 .. MaxBytes)
  PROVE  s \in Seq(Nat) /\ \A i \in 1 .. Len(s) : s[i] \in Nat \ {0}
<1>1. \A i \in 1 .. Len(s) : s[i] \in Nat \ {0}
  BY SocketAssumption
<1>2. Len(s) \in Nat /\ s \in [1 .. Len(s) -> Nat]
  BY <1>1
<1> QED
  BY <1>1, <1>2

LEMMA ConcatOf ==
  ASSUME NEW S, NEW s \in Seq(S), NEW t \in Seq(S)
  PROVE  /\ s \o t \in Seq(S)
         /\ Len(s \o t) = Len(s) + Len(t)
         /\ \A i \in 1 .. Len(s) : (s \o t)[i] = s[i]
         /\ \A i \in 1 .. Len(t) : (s \o t)[Len(s) + i] = t[i]
<1>1. Len(s) \in Nat /\ Len(t) \in Nat
  OBVIOUS
<1>2. ASSUME NEW i \in 1 .. Len(t)
      PROVE  (s \o t)[Len(s) + i] = t[i]
  <2>1. PICK k : k = Len(s) + i
    OBVIOUS
  <2>2. k \in 1 .. Len(s) + Len(t) /\ ~(k <= Len(s)) /\ k - Len(s) = i
    BY <1>1, <2>1
  <2>3. (s \o t)[k] = t[k - Len(s)]
    BY <2>2
  <2> QED
    BY <2>1, <2>2, <2>3
<1> QED
  BY <1>2

(* send moves the next n bytes of recvBuf to the end of sendBuffer.        *)
LEMMA PutMoves ==
  ASSUME IInv, SendPut
  PROVE  \E n \in 1 .. recvLen - written :
           /\ UNCHANGED <<wire, lost>> /\ Handed' = Handed + n
           /\ written' = written + n
           /\ Len(queue') = Len(queue) + n
           /\ \A j \in 1 .. Len(queue) : queue'[j] = queue[j]
           /\ \A i \in 1 .. n : queue'[Len(queue) + i] = Handed + i
<1> DEFINE h == Handed
           m == Len(queue)
<1>1. PICK n \in 1 .. recvLen - written :
        /\ queue' = queue \o SubSeq(Unsent, 1, n)
        /\ written' = written + n
  BY PutValue
<1>2. h \in Nat /\ m \in Nat /\ n \in Nat /\ queue \in Seq(1 .. MaxBytes)
  BY <1>1, Shapes
<1>3. UNCHANGED <<wire, lost>> /\ Handed' = h + n
  BY <1>1, <1>2, Shapes DEF SendPut, socketVars, recvVars, Handed
<1>4. /\ Len(queue') = m + n
      /\ \A j \in 1 .. m : queue'[j] = queue[j]
      /\ \A i \in 1 .. n : queue'[m + i] = h + i
  <2> DEFINE p == SubSeq(Unsent, 1, n)
  <2>1. /\ p \in Seq(1 .. MaxBytes) /\ Len(p) = n
        /\ \A i \in 1 .. n : p[i] = h + i
    <3>1. n \in 0 .. Len(Unsent)
      BY <1>1, UnsentValue, Shapes
    <3>2. /\ p \in Seq(1 .. MaxBytes) /\ Len(p) = n
          /\ \A i \in 1 .. n : p[i] = Unsent[i]
      BY <3>1, UnsentValue, PrefixOf
    <3>3. \A i \in 1 .. n : Unsent[i] = h + i
      <4>1. n <= recvLen - written
        BY <1>1, Shapes
      <4> QED
        BY <1>2, <4>1, UnsentValue, Shapes DEF Handed
    <3> QED
      BY <3>2, <3>3
  <2>2. queue' = queue \o p
    BY <1>1
  <2> HIDE DEF p, h
  <2> QED
    <3>1. /\ Len(queue \o p) = m + n
          /\ \A j \in 1 .. m : (queue \o p)[j] = queue[j]
          /\ \A i \in 1 .. n : (queue \o p)[m + i] = p[i]
      <4>1. queue \in Seq(1 .. MaxBytes) /\ p \in Seq(1 .. MaxBytes)
        BY <1>2, <2>1
      <4>2. /\ Len(queue \o p) = Len(queue) + Len(p)
            /\ \A j \in 1 .. Len(queue) : (queue \o p)[j] = queue[j]
            /\ \A i \in 1 .. Len(p) : (queue \o p)[Len(queue) + i] = p[i]
        BY <4>1, ConcatOf
      <4> QED
        BY <2>1, <4>2
    <3>2. \A i \in 1 .. n : queue'[m + i] = p[i]
      BY <2>1, <2>2, <3>1
    <3> QED
      BY <2>1, <2>2, <3>1, <3>2
<1> QED
  BY <1>1, <1>3, <1>4

LEMMA SendPutKeeps ==
  ASSUME IInv, OrderInv, PlaceInv, SendPut
  PROVE  OrderInv' /\ PlaceInv'
<1> DEFINE h == Handed
           m == Len(queue)
<1>1. PICK n \in 1 .. recvLen - written :
        /\ UNCHANGED <<wire, lost>> /\ Handed' = h + n
        /\ Len(queue') = m + n
        /\ \A j \in 1 .. m : queue'[j] = queue[j]
        /\ \A i \in 1 .. n : queue'[m + i] = h + i
  BY PutMoves
<1>2. h \in Nat /\ m \in Nat /\ n \in Nat /\ queue \in Seq(1 .. MaxBytes)
  BY <1>1, Shapes
<1>3. UNCHANGED <<wire, lost>> /\ Handed' = h + n
  BY <1>1
<1>4. /\ Len(queue') = m + n
      /\ \A j \in 1 .. m : queue'[j] = queue[j]
      /\ \A i \in 1 .. n : queue'[m + i] = h + i
  BY <1>1
<1> HIDE DEF h, m
<1>5. \A j \in 1 .. Len(queue') :
        \/ j \in 1 .. m /\ queue'[j] = queue[j]
        \/ j \in m + 1 .. m + n /\ queue'[j] = h + (j - m)
  <2> SUFFICES ASSUME NEW j \in 1 .. Len(queue'), j \notin 1 .. m
               PROVE  j \in m + 1 .. m + n /\ queue'[j] = h + (j - m)
    BY <1>4
  <2>1. PICK i \in 1 .. n : j = m + i
    <3>1. j - m \in 1 .. n /\ j = m + (j - m)
      BY <1>2, <1>4
    <3> QED
      BY <3>1
  <2> QED
    BY <1>2, <1>4, <2>1
<1>6. /\ \A i, j \in 1 .. m : i < j => queue[i] < queue[j]
      /\ \A j \in 1 .. m : queue[j] <= h /\ queue[j] \in Nat
      /\ \A i \in 1 .. Len(wire) : wire[i] <= h /\ wire[i] \in Nat
      /\ \A i \in 1 .. Len(wire) : \A j \in 1 .. m : wire[i] < queue[j]
  <2>1. /\ \A j \in 1 .. Len(queue) : queue[j] \in Nat
        /\ \A i \in 1 .. Len(wire) : wire[i] \in Nat
    BY Shapes, SocketAssumption, ByteIsNat
  <2> QED
    BY <2>1 DEF OrderInv, h, m
<1>7. OrderInv'
  <2>1. \A i, j \in 1 .. Len(queue') : i < j => queue'[i] < queue'[j]
    <3> SUFFICES ASSUME NEW i \in 1 .. Len(queue'), NEW j \in 1 .. Len(queue'),
                        i < j
                 PROVE  queue'[i] < queue'[j]
      OBVIOUS
    <3>1. CASE j \in 1 .. m
      BY <1>2, <1>4, <1>6, <3>1
    <3>2. CASE i \in 1 .. m /\ j \notin 1 .. m
      BY <1>2, <1>5, <1>6, <3>2
    <3>3. CASE i \notin 1 .. m
      BY <1>2, <1>5, <3>3
    <3> QED
      BY <1>2, <1>4, <3>1, <3>2, <3>3
  <2>2. \A i \in 1 .. Len(wire) : \A j \in 1 .. Len(queue') : wire[i] < queue'[j]
    BY <1>2, <1>5, <1>6
  <2>3. \A j \in 1 .. Len(queue') : queue'[j] <= h + n
    BY <1>2, <1>5, <1>6
  <2>4. \A i \in 1 .. Len(wire) : wire[i] <= h + n
    BY <1>2, <1>6
  <2> QED
    BY <1>3, <2>1, <2>2, <2>3, <2>4 DEF OrderInv
<1>8. PlaceInv'
  <2>1. /\ lost \subseteq 1 .. h
        /\ \A j \in 1 .. m : queue[j] \notin lost
        /\ \A b \in 1 .. h :
             \/ b \in lost
             \/ \E i \in 1 .. Len(wire) : wire[i] = b
             \/ \E j \in 1 .. m : queue[j] = b
    BY DEF PlaceInv, h, m
  <2>2. lost \subseteq 1 .. h + n
    BY <1>2, <2>1
  <2>3. \A j \in 1 .. Len(queue') : queue'[j] \notin lost
    BY <1>2, <1>5, <2>1
  <2>4. ASSUME NEW b \in 1 .. h + n
        PROVE  \/ b \in lost
               \/ \E i \in 1 .. Len(wire) : wire[i] = b
               \/ \E j \in 1 .. Len(queue') : queue'[j] = b
    <3>1. CASE b \in 1 .. h
      BY <1>2, <1>4, <2>1, <3>1
    <3>2. CASE b \notin 1 .. h
      <4>1. b - h \in 1 .. n /\ b = h + (b - h)
        BY <1>2, <3>2
      <4>2. queue'[m + (b - h)] = h + (b - h)
        BY <1>4, <4>1
      <4>3. m + (b - h) \in 1 .. Len(queue')
        BY <1>2, <1>4, <4>1
      <4> QED
        BY <4>1, <4>2, <4>3
    <3> QED
      BY <3>1, <3>2
  <2> QED
    BY <1>3, <2>2, <2>3, <2>4 DEF PlaceInv
<1> QED
  BY <1>7, <1>8

(* writeToSocket takes a run; send() accepts its first k bytes, the others *)
(* are lost.                                                               *)
LEMMA TakenKeeps ==
  ASSUME IInv, OrderInv, PlaceInv, queue # <<>>, TakeRun,
         NEW k \in 0 .. Len(Run),
         Len(wire') = Len(wire) + k,
         \A i \in 1 .. Len(wire) : wire'[i] = wire[i],
         \A i \in 1 .. k : wire'[Len(wire) + i] = Run[i],
         lost' = lost \cup {Run[i] : i \in k + 1 .. Len(Run)},
         Handed' = Handed
  PROVE  OrderInv' /\ PlaceInv'
<1> DEFINE h == Handed
           m == Len(queue)
           w == Len(wire)
           n == Len(Run)
<1>1. h \in Nat /\ m \in Nat /\ w \in Nat /\ n \in 1 .. m /\ k \in 0 .. n
  BY Shapes, RunValue
<1>2. /\ Len(queue') = m - n
      /\ \A j \in 1 .. m - n : queue'[j] = queue[n + j]
  BY TakeRunValue
<1>3. \A i \in 1 .. n : Run[i] = queue[i]
  BY RunValue
<1>4. /\ \A i, j \in 1 .. m : i < j => queue[i] < queue[j]
      /\ \A j \in 1 .. m : queue[j] <= h /\ queue[j] \in Nat \ {0}
      /\ \A i, j \in 1 .. w : i < j => wire[i] < wire[j]
      /\ \A i \in 1 .. w : wire[i] <= h /\ wire[i] \in Nat
      /\ \A i \in 1 .. w : \A j \in 1 .. m : wire[i] < queue[j]
  <2>1. /\ \A j \in 1 .. Len(queue) : queue[j] \in Nat \ {0}
        /\ \A i \in 1 .. Len(wire) : wire[i] \in Nat
    BY Shapes, SocketAssumption, ByteIsNat
  <2> QED
    BY <2>1 DEF OrderInv
<1>5. /\ lost \subseteq 1 .. h
      /\ \A i \in 1 .. w : wire[i] \notin lost
      /\ \A j \in 1 .. m : queue[j] \notin lost
      /\ \A b \in 1 .. h :
           \/ b \in lost
           \/ \E i \in 1 .. w : wire[i] = b
           \/ \E j \in 1 .. m : queue[j] = b
  BY DEF PlaceInv
<1>6. /\ Len(wire') = w + k
      /\ \A i \in 1 .. w : wire'[i] = wire[i]
      /\ \A i \in 1 .. k : wire'[w + i] = queue[i]
  BY <1>1, <1>3
<1>7. lost' = lost \cup {queue[i] : i \in k + 1 .. n}
  BY <1>1, <1>3
<1>8. Handed' = h
  OBVIOUS
<1> HIDE DEF h, m, w, n
<1>9. \A i \in w + 1 .. w + k :
        i - w \in 1 .. k /\ i - w \in 1 .. m /\ wire'[i] = queue[i - w]
  <2> SUFFICES ASSUME NEW i \in w + 1 .. w + k
               PROVE  /\ i - w \in 1 .. k /\ i - w \in 1 .. m
                      /\ wire'[i] = queue[i - w]
    OBVIOUS
  <2>1. PICK l \in 1 .. k : i = w + l
    <3>1. i - w \in 1 .. k /\ i = w + (i - w)
      BY <1>1
    <3> QED
      BY <3>1
  <2>2. i - w = l /\ l \in 1 .. m
    BY <1>1, <2>1
  <2> QED
    BY <1>6, <2>1, <2>2
<1>10. OrderInv'
  <2>1. ASSUME NEW i \in 1 .. w + k, NEW j \in 1 .. w + k, i < j
        PROVE  wire'[i] < wire'[j]
    <3>1. CASE j \in 1 .. w
      BY <1>1, <1>4, <1>6, <2>1, <3>1
    <3>2. CASE i \in 1 .. w /\ j \in w + 1 .. w + k
      <4>1. wire'[i] = wire[i] /\ wire'[j] = queue[j - w] /\ j - w \in 1 .. m
        BY <1>6, <1>9, <3>2
      <4> QED
        BY <1>4, <3>2, <4>1
    <3>3. CASE i \in w + 1 .. w + k /\ j \in w + 1 .. w + k
      <4>1. /\ wire'[i] = queue[i - w] /\ wire'[j] = queue[j - w]
            /\ i - w \in 1 .. m /\ j - w \in 1 .. m /\ i - w < j - w
        BY <1>1, <1>9, <2>1, <3>3
      <4> QED
        BY <1>4, <4>1
    <3> QED
      BY <1>1, <2>1, <3>1, <3>2, <3>3
  <2>2. ASSUME NEW i \in 1 .. m - n, NEW j \in 1 .. m - n, i < j
        PROVE  queue'[i] < queue'[j]
    <3>1. n + i \in 1 .. m /\ n + j \in 1 .. m /\ n + i < n + j
      BY <1>1, <2>2
    <3> QED
      BY <1>2, <1>4, <3>1
  <2>3. ASSUME NEW i \in 1 .. w + k, NEW j \in 1 .. m - n
        PROVE  wire'[i] < queue'[j]
    <3>1. n + j \in 1 .. m /\ queue'[j] = queue[n + j]
      BY <1>1, <1>2
    <3>2. CASE i \in 1 .. w
      BY <1>4, <1>6, <3>1, <3>2
    <3>3. CASE i \in w + 1 .. w + k
      <4>1. i - w \in 1 .. m /\ i - w < n + j /\ wire'[i] = queue[i - w]
        BY <1>1, <1>9, <3>3
      <4> QED
        BY <1>4, <3>1, <4>1
    <3> QED
      BY <1>1, <3>2, <3>3
  <2>4. ASSUME NEW i \in 1 .. w + k
        PROVE  wire'[i] <= h
    <3>1. CASE i \in 1 .. w
      BY <1>4, <1>6, <3>1
    <3>2. CASE i \in w + 1 .. w + k
      <4>1. i - w \in 1 .. m /\ wire'[i] = queue[i - w]
        BY <1>1, <1>9, <3>2
      <4> QED
        BY <1>4, <4>1
    <3> QED
      BY <1>1, <3>1, <3>2
  <2>5. ASSUME NEW j \in 1 .. m - n
        PROVE  queue'[j] <= h
    <3>1. n + j \in 1 .. m
      BY <1>1
    <3> QED
      BY <1>2, <1>4, <3>1
  <2> QED
    BY <1>2, <1>6, <1>8, <2>1, <2>2, <2>3, <2>4, <2>5 DEF OrderInv
<1>11. PlaceInv'
  <2>1. lost' \subseteq 1 .. h
    <3>1. \A i \in k + 1 .. n : queue[i] \in 1 .. h
      BY <1>1, <1>4
    <3> QED
      BY <1>5, <1>7, <3>1
  <2>2. ASSUME NEW i \in 1 .. w + k
        PROVE  wire'[i] \notin lost'
    <3>1. CASE i \in 1 .. w
      <4>1. \A l \in k + 1 .. n : wire[i] # queue[l]
        <5> SUFFICES ASSUME NEW l \in k + 1 .. n PROVE wire[i] # queue[l]
          OBVIOUS
        <5>1. l \in 1 .. m
          BY <1>1
        <5> QED
          BY <1>4, <3>1, <5>1
      <4> QED
        BY <1>5, <1>6, <1>7, <3>1, <4>1
    <3>2. CASE i \in w + 1 .. w + k
      <4>1. i - w \in 1 .. k /\ wire'[i] = queue[i - w]
        BY <1>1, <1>9, <3>2
      <4>2. \A l \in k + 1 .. n : queue[i - w] # queue[l]
        <5> SUFFICES ASSUME NEW l \in k + 1 .. n PROVE queue[i - w] # queue[l]
          OBVIOUS
        <5>1. l \in 1 .. m /\ i - w \in 1 .. m /\ i - w < l
          BY <1>1, <4>1
        <5> QED
          BY <1>4, <5>1
      <4>3. queue[i - w] \notin lost
        BY <1>1, <1>5, <4>1
      <4> QED
        BY <1>7, <4>1, <4>2, <4>3
    <3> QED
      BY <1>1, <3>1, <3>2
  <2>3. ASSUME NEW j \in 1 .. m - n
        PROVE  queue'[j] \notin lost'
    <3>1. n + j \in 1 .. m /\ queue'[j] = queue[n + j]
      BY <1>1, <1>2
    <3>2. \A l \in k + 1 .. n : queue[n + j] # queue[l]
      <4> SUFFICES ASSUME NEW l \in k + 1 .. n PROVE queue[n + j] # queue[l]
        OBVIOUS
      <4>1. l \in 1 .. m /\ l < n + j
        BY <1>1
      <4> QED
        BY <1>4, <3>1, <4>1
    <3> QED
      BY <1>5, <1>7, <3>1, <3>2
  <2>4. ASSUME NEW b \in 1 .. h
        PROVE  \/ b \in lost'
               \/ \E i \in 1 .. w + k : wire'[i] = b
               \/ \E j \in 1 .. m - n : queue'[j] = b
    <3>1. CASE b \in lost
      BY <1>7, <3>1
    <3>2. ASSUME NEW i \in 1 .. w, wire[i] = b
          PROVE  \E l \in 1 .. w + k : wire'[l] = b
      BY <1>1, <1>6, <3>2
    <3>3. ASSUME NEW j \in 1 .. m, queue[j] = b
          PROVE  \/ b \in lost'
                 \/ \E i \in 1 .. w + k : wire'[i] = b
                 \/ \E l \in 1 .. m - n : queue'[l] = b
      <4>1. CASE j \in 1 .. k
        <5>1. w + j \in 1 .. w + k /\ wire'[w + j] = b
          BY <1>1, <1>6, <3>3, <4>1
        <5> QED
          BY <5>1
      <4>2. CASE j \in k + 1 .. n
        BY <1>7, <3>3, <4>2
      <4>3. CASE j \in n + 1 .. m
        <5>1. j - n \in 1 .. m - n /\ n + (j - n) = j
          BY <1>1, <4>3
        <5>2. queue'[j - n] = b
          BY <1>2, <3>3, <5>1
        <5> QED
          BY <5>1, <5>2
      <4> QED
        BY <1>1, <4>1, <4>2, <4>3
    <3> QED
      BY <1>5, <3>1, <3>2, <3>3
  <2> QED
    BY <1>2, <1>6, <1>8, <2>1, <2>2, <2>3, <2>4 DEF PlaceInv
<1> QED
  BY <1>10, <1>11

(* The four steps of writeToSocket that take a run.                        *)
LEMMA WritesMove ==
  ASSUME IInv, WriteSome \/ WriteStops \/ WriteFails \/ WriteKills
  PROVE  /\ queue # <<>> /\ TakeRun /\ Handed' = Handed
         /\ \E k \in 0 .. Len(Run) :
              /\ Len(wire') = Len(wire) + k
              /\ \A i \in 1 .. Len(wire) : wire'[i] = wire[i]
              /\ \A i \in 1 .. k : wire'[Len(wire) + i] = Run[i]
              /\ lost' = lost \cup {Run[i] : i \in k + 1 .. Len(Run)}
              /\ IF k > 0 THEN WriteSome ELSE wire' = wire
<1>1. /\ queue # <<>> /\ TakeRun
      /\ Handed' = Handed
  BY DEF WriteSome, WriteStops, WriteFails, WriteKills, ReturnFromWrite,
         callVars, recvVars, Handed
<1>2. /\ Len(Run) \in Nat /\ Len(wire) \in Nat /\ wire \in Seq(1 .. MaxBytes)
      /\ Run \in Seq(1 .. MaxBytes)
  BY <1>1, RunValue, Shapes
<1>3. CASE WriteSome
  <2> DEFINE k == Least(TxSpace - Len(txq), Len(Run))
  <2>1. k \in 0 .. Len(Run) /\ k > 0
    <3>1. Len(txq) \in Nat /\ TxSpace \in Nat /\ Len(txq) < TxSpace
      BY <1>3, SocketAssumption DEF IInv, Data, WriteSome, SendHasSpace
    <3>2. Len(Run) > 0
      BY <1>1, <1>2, RunValue
    <3> QED
      BY <1>2, <3>1, <3>2 DEF Least
  <2>2. /\ wire' = wire \o SubSeq(Run, 1, k)
        /\ lost' = lost \cup {Run[i] : i \in k + 1 .. Len(Run)}
    BY <1>3 DEF WriteSome, Prefix
  <2> HIDE DEF k
  <2>3. /\ SubSeq(Run, 1, k) \in Seq(1 .. MaxBytes)
        /\ Len(SubSeq(Run, 1, k)) = k
        /\ \A i \in 1 .. k : SubSeq(Run, 1, k)[i] = Run[i]
    BY <1>2, <2>1, PrefixOf
  <2>4. /\ Len(wire \o SubSeq(Run, 1, k)) = Len(wire) + k
        /\ \A i \in 1 .. Len(wire) : (wire \o SubSeq(Run, 1, k))[i] = wire[i]
        /\ \A i \in 1 .. Len(SubSeq(Run, 1, k)) :
             (wire \o SubSeq(Run, 1, k))[Len(wire) + i] = SubSeq(Run, 1, k)[i]
    <3>1. /\ wire \in Seq(1 .. MaxBytes)
          /\ SubSeq(Run, 1, k) \in Seq(1 .. MaxBytes)
      BY <1>2, <2>3
    <3>2. Len(wire \o SubSeq(Run, 1, k))
            = Len(wire) + Len(SubSeq(Run, 1, k))
      BY <3>1, ConcatOf
    <3> QED
      BY <2>3, <3>1, <3>2, ConcatOf
  <2>5. \A i \in 1 .. k : wire'[Len(wire) + i] = Run[i]
    BY <2>2, <2>3, <2>4
  <2>6. /\ Len(wire') = Len(wire) + k
        /\ \A i \in 1 .. Len(wire) : wire'[i] = wire[i]
    BY <2>2, <2>4
  <2> QED
    BY <1>1, <1>3, <2>1, <2>2, <2>5, <2>6
<1>4. CASE WriteStops \/ WriteFails \/ WriteKills
  <2>1. /\ wire' = wire
        /\ lost' = lost \cup {Run[i] : i \in 0 + 1 .. Len(Run)}
    <3>1. /\ wire' = wire
          /\ lost' = lost \cup {Run[i] : i \in 1 .. Len(Run)}
      BY <1>4 DEF WriteStops, WriteFails, WriteKills
    <3>2. 0 + 1 = 1
      OBVIOUS
    <3> QED
      BY ONLY <3>1, <3>2, Zenon
  <2>2. 0 \in 0 .. Len(Run) /\ Len(wire') = Len(wire) + 0
    BY <1>2, <2>1
  <2>3. /\ \A i \in 1 .. Len(wire) : wire'[i] = wire[i]
        /\ \A i \in 1 .. 0 : wire'[Len(wire) + i] = Run[i]
    BY <2>1
  <2>4. ~(0 > 0)
    OBVIOUS
  <2> QED
    BY ONLY <1>1, <2>1, <2>2, <2>3, <2>4, Zenon
<1> QED
  BY <1>3, <1>4

LEMMA WritesKeep ==
  ASSUME IInv, OrderInv, PlaceInv,
         WriteSome \/ WriteStops \/ WriteFails \/ WriteKills
  PROVE  OrderInv' /\ PlaceInv'
  BY WritesMove, TakenKeeps

-----------------------------------------------------------------------------
LEMMA OrderSpec == Spec => [](IInv /\ OrderInv /\ PlaceInv)
<1>1. Init => IInv /\ OrderInv /\ PlaceInv
  <2> SUFFICES ASSUME Init PROVE IInv /\ OrderInv /\ PlaceInv
    OBVIOUS
  <2>1. /\ wire = <<>> /\ queue = <<>> /\ lost = {}
        /\ copied = 0 /\ recvLen = 0 /\ written = 0
    BY DEF Init, SocketInit
  <2> QED
    BY <2>1, InitInv DEF OrderInv, PlaceInv, Handed
<1>2. IInv /\ OrderInv /\ PlaceInv /\ [Next]_vars
        => (IInv /\ OrderInv /\ PlaceInv)'
  BY StepInv, SettledSteps, SettledKeeps, SendPutKeeps, WritesKeep
<1> QED
  BY <1>1, <1>2, PTL DEF Spec

LEMMA JoinIncreases ==
  ASSUME NEW s \in Seq(Nat), NEW t \in Seq(Nat), Increasing(s), Increasing(t),
         \A i \in 1 .. Len(s) : \A j \in 1 .. Len(t) : s[i] < t[j]
  PROVE  Increasing(s \o t)
<1> SUFFICES ASSUME NEW i \in 1 .. Len(s \o t), NEW j \in 1 .. Len(s \o t), i < j
             PROVE  (s \o t)[i] < (s \o t)[j]
  BY DEF Increasing
<1>1. /\ Len(s) \in Nat /\ Len(t) \in Nat /\ Len(s \o t) = Len(s) + Len(t)
  OBVIOUS
<1>2. \A l \in 1 .. Len(s \o t) :
        (s \o t)[l] = IF l <= Len(s) THEN s[l] ELSE t[l - Len(s)]
  OBVIOUS
<1>3. CASE j <= Len(s)
  BY <1>1, <1>2, <1>3 DEF Increasing
<1>4. CASE i <= Len(s) /\ ~(j <= Len(s))
  <2>1. i \in 1 .. Len(s) /\ j - Len(s) \in 1 .. Len(t)
    BY <1>1, <1>4
  <2> QED
    BY <1>2, <1>4, <2>1
<1>5. CASE ~(i <= Len(s))
  <2>1. /\ i - Len(s) \in 1 .. Len(t) /\ j - Len(s) \in 1 .. Len(t)
        /\ i - Len(s) < j - Len(s) /\ ~(j <= Len(s))
    BY <1>1, <1>5
  <2> QED
    BY <1>2, <1>5, <2>1 DEF Increasing
<1> QED
  BY <1>1, <1>3, <1>4, <1>5

LEMMA JoinRange ==
  ASSUME NEW s \in Seq(Nat), NEW t \in Seq(Nat)
  PROVE  Range(s \o t) = Range(s) \cup Range(t)
<1>1. /\ Len(s) \in Nat /\ Len(t) \in Nat
      /\ DOMAIN (s \o t) = 1 .. Len(s) + Len(t)
      /\ DOMAIN s = 1 .. Len(s) /\ DOMAIN t = 1 .. Len(t)
  OBVIOUS
<1>2. /\ \A i \in 1 .. Len(s) : (s \o t)[i] = s[i]
      /\ \A i \in 1 .. Len(t) : (s \o t)[Len(s) + i] = t[i]
  BY ConcatOf
<1>3. ASSUME NEW l \in 1 .. Len(s) + Len(t)
      PROVE  (s \o t)[l] \in Range(s) \cup Range(t)
  <2>1. CASE l \in 1 .. Len(s)
    BY <1>1, <1>2, <2>1 DEF Range
  <2>2. CASE l \notin 1 .. Len(s)
    <3>1. l - Len(s) \in 1 .. Len(t) /\ Len(s) + (l - Len(s)) = l
      BY <1>1, <2>2
    <3>2. (s \o t)[l] = t[l - Len(s)]
      BY <1>2, <3>1
    <3> QED
      BY <1>1, <3>1, <3>2 DEF Range
  <2> QED
    BY <2>1, <2>2
<1>4. Range(s) \subseteq Range(s \o t)
  BY <1>1, <1>2 DEF Range
<1>5. ASSUME NEW i \in 1 .. Len(t)
      PROVE  t[i] \in Range(s \o t)
  <2>1. Len(s) + i \in DOMAIN (s \o t)
    BY <1>1
  <2> QED
    BY <1>2, <2>1 DEF Range
<1> QED
  BY <1>1, <1>3, <1>4, <1>5 DEF Range

(* The bytes send has not queued are the last ones recv() returned.        *)
LEMMA Places ==
  ASSUME IInv
  PROVE  /\ wire \in Seq(Nat) /\ queue \in Seq(Nat) /\ Unsent \in Seq(Nat)
         /\ Pipeline = (wire \o queue) \o Unsent
         /\ Handed \in Nat /\ copied \in Nat /\ Handed <= copied
         /\ Len(Unsent) = copied - Handed
         /\ \A i \in 1 .. Len(Unsent) : Unsent[i] = Handed + i
<1>1. /\ wire \in Seq(1 .. MaxBytes) /\ queue \in Seq(1 .. MaxBytes)
      /\ Unsent \in Seq(1 .. MaxBytes)
  BY Shapes, UnsentValue
<1>3. /\ Len(Unsent) = recvLen - written
      /\ \A i \in 1 .. recvLen - written :
           Unsent[i] = copied - (recvLen - written) + i
  BY UnsentValue
<1>4. wire \in Seq(Nat) /\ queue \in Seq(Nat) /\ Unsent \in Seq(Nat)
  BY <1>1, ByteIsNat
<1>5. Handed = copied - (recvLen - written)
  BY DEF Handed
<1>6. /\ copied \in Nat /\ recvLen \in Nat /\ written \in 0 .. recvLen
      /\ Handed \in Nat
  BY Shapes
<1>7. recvLen - written = copied - Handed /\ Handed <= copied
  BY <1>5, <1>6
<1>8. Pipeline = (wire \o queue) \o Unsent
  BY DEF Pipeline
<1>9. \A i \in 1 .. Len(Unsent) : Unsent[i] = Handed + i
  BY <1>3, <1>5
<1> QED
  BY <1>3, <1>4, <1>6, <1>7, <1>8, <1>9

(* No step of the client, the kernel or the server reorders or repeats a   *)
(* byte, whatever the sizes of the two buffers and of the kernel's queue:  *)
(* what send() accepted, what sendBuffer holds and what recvBuf holds, one *)
(* after the other, are in the order the client sent them.                 *)
THEOREM InOrder == Spec => []EchoInOrder
<1>1. IInv /\ OrderInv => EchoInOrder
  <2> SUFFICES ASSUME IInv, OrderInv PROVE EchoInOrder
    OBVIOUS
  <2>1. Increasing(wire) /\ Increasing(queue) /\ Increasing(Unsent)
    BY Places DEF OrderInv, Increasing
  <2> DEFINE c == wire \o queue
  <2>2. c \in Seq(Nat) /\ Increasing(c)
    BY <2>1, Places, JoinIncreases DEF OrderInv
  <2>3. \A i \in 1 .. Len(c) : c[i] <= Handed
    <3>1. /\ Len(wire) \in Nat /\ Len(queue) \in Nat
          /\ Len(c) = Len(wire) + Len(queue)
          /\ \A i \in 1 .. Len(c) :
               c[i] = IF i <= Len(wire) THEN wire[i] ELSE queue[i - Len(wire)]
      BY Places
    <3> SUFFICES ASSUME NEW i \in 1 .. Len(c) PROVE c[i] <= Handed
      OBVIOUS
    <3>2. CASE i <= Len(wire)
      BY <3>1, <3>2 DEF OrderInv
    <3>3. CASE ~(i <= Len(wire))
      <4>1. i - Len(wire) \in 1 .. Len(queue)
        BY <3>1, <3>3
      <4> QED
        BY <3>1, <3>3, <4>1 DEF OrderInv
    <3> QED
      BY <3>2, <3>3
  <2> HIDE DEF c
  <2>4. \A i \in 1 .. Len(c) : \A j \in 1 .. Len(Unsent) : c[i] < Unsent[j]
    <3> SUFFICES ASSUME NEW i \in 1 .. Len(c), NEW j \in 1 .. Len(Unsent)
                 PROVE  c[i] < Unsent[j]
      OBVIOUS
    <3>1. c[i] \in Nat /\ c[i] <= Handed
      BY <2>2, <2>3
    <3>2. Unsent[j] = Handed + j /\ j \in Nat \ {0}
      BY Places
    <3>3. Handed \in Nat
      BY Places
    <3> QED
      BY <3>1, <3>2, <3>3
  <2>5. Increasing(c \o Unsent)
    BY <2>1, <2>2, <2>4, Places, JoinIncreases
  <2> QED
    BY <2>5, Places DEF EchoInOrder, c
<1> QED
  BY <1>1, OrderSpec, PTL

(* No byte is forgotten or duplicated: each one recv() returned was        *)
(* accepted by send(), waits in sendBuffer or recvBuf, or was dropped by   *)
(* writeToSocket, and only one of these.                                   *)
THEOREM Accounted == Spec => []EveryByteAccounted
<1>1. IInv /\ OrderInv /\ PlaceInv /\ EchoInOrder => EveryByteAccounted
  <2> SUFFICES ASSUME IInv, OrderInv, PlaceInv, EchoInOrder
               PROVE  EveryByteAccounted
    OBVIOUS
  <2>1. Range(Pipeline) = (Range(wire) \cup Range(queue)) \cup Range(Unsent)
    <3>1. wire \o queue \in Seq(Nat)
      BY Places
    <3> QED
      BY <3>1, Places, JoinRange
  <2>2. Range(Unsent) = Handed + 1 .. copied
    <3>1. DOMAIN Unsent = 1 .. copied - Handed
      BY Places
    <3>2. \A b \in Handed + 1 .. copied :
            b - Handed \in 1 .. copied - Handed /\ Unsent[b - Handed] = b
      <4> SUFFICES ASSUME NEW b \in Handed + 1 .. copied
                   PROVE  /\ b - Handed \in 1 .. copied - Handed
                          /\ Unsent[b - Handed] = b
        OBVIOUS
      <4>1. PICK i \in 1 .. Len(Unsent) : b = Handed + i
        <5>1. b - Handed \in 1 .. Len(Unsent) /\ b = Handed + (b - Handed)
          BY Places
        <5> QED
          BY <5>1
      <4>2. b - Handed = i
        BY <4>1, Places
      <4> QED
        BY <4>1, <4>2, Places
    <3>3. \A i \in 1 .. copied - Handed : Unsent[i] \in Handed + 1 .. copied
      BY Places
    <3> QED
      BY <3>1, <3>2, <3>3 DEF Range
  <2>3. /\ \A b \in 1 .. Handed :
             b \in lost \/ b \in Range(wire) \/ b \in Range(queue)
        /\ Range(wire) \cap lost = {} /\ Range(queue) \cap lost = {}
        /\ Range(wire) \subseteq 1 .. Handed
        /\ Range(queue) \subseteq 1 .. Handed
        /\ lost \subseteq 1 .. Handed
    <3>1. DOMAIN wire = 1 .. Len(wire) /\ DOMAIN queue = 1 .. Len(queue)
      BY Places
    <3>2. /\ \A i \in 1 .. Len(wire) : wire[i] \in Nat \ {0}
          /\ \A i \in 1 .. Len(queue) : queue[i] \in Nat \ {0}
      BY Shapes, ByteIsNat
    <3>3. /\ \A i \in 1 .. Len(wire) : wire[i] \in 1 .. Handed
          /\ \A i \in 1 .. Len(queue) : queue[i] \in 1 .. Handed
      <4>1. /\ \A i \in 1 .. Len(wire) : wire[i] <= Handed
            /\ \A i \in 1 .. Len(queue) : queue[i] <= Handed
        BY DEF OrderInv
      <4>2. Handed \in Nat
        BY Places
      <4> HIDE DEF Handed
      <4> QED
        BY <3>2, <4>1, <4>2
    <3> QED
      BY <3>1, <3>3 DEF PlaceInv, Range
  <2>4. (1 .. Handed) \cup (Handed + 1 .. copied) = 1 .. copied
    BY Places
  <2>5. \A b \in 1 .. Handed : b \notin Handed + 1 .. copied
    BY Places
  <2>6. Range(Pipeline) \cup lost = 1 .. copied
    BY <2>1, <2>2, <2>3, <2>4
  <2>7. Range(Pipeline) \cap lost = {}
    BY <2>1, <2>2, <2>3, <2>5
  <2> QED
    BY <2>6, <2>7 DEF EveryByteAccounted
<1> QED
  BY <1>1, OrderSpec, InOrder, PTL

-----------------------------------------------------------------------------
(* As long as nothing is lost, what was sent and what is queued are the    *)
(* first bytes send was given, without a gap.                              *)
ExactInv ==
  lost = {} =>
    /\ \A i \in 1 .. Len(wire) : wire[i] = i
    /\ \A j \in 1 .. Len(queue) : queue[j] = Len(wire) + j
    /\ Len(wire) + Len(queue) = Handed

LEMMA SettledExact ==
  ASSUME ExactInv, Settled
  PROVE  ExactInv'
  BY DEF Settled, ExactInv

LEMMA PutExact ==
  ASSUME IInv, ExactInv, SendPut
  PROVE  ExactInv'
<1> DEFINE h == Handed
           m == Len(queue)
           w == Len(wire)
<1>1. PICK n \in 1 .. recvLen - written :
        /\ UNCHANGED <<wire, lost>> /\ Handed' = h + n
        /\ Len(queue') = m + n
        /\ \A j \in 1 .. m : queue'[j] = queue[j]
        /\ \A i \in 1 .. n : queue'[m + i] = h + i
  BY PutMoves
<1>2. h \in Nat /\ m \in Nat /\ n \in Nat /\ w \in Nat
  BY <1>1, Shapes
<1> SUFFICES ASSUME lost = {} PROVE ExactInv'
  BY <1>1 DEF ExactInv
<1>3. /\ \A i \in 1 .. w : wire[i] = i
      /\ \A j \in 1 .. m : queue[j] = w + j
      /\ w + m = h
  BY DEF ExactInv
<1> HIDE DEF h, m, w
<1>4. \A j \in 1 .. m + n : queue'[j] = w + j
  <2> SUFFICES ASSUME NEW j \in 1 .. m + n, j \notin 1 .. m
               PROVE  queue'[j] = w + j
    BY <1>1, <1>3
  <2>1. PICK i \in 1 .. n : j = m + i
    <3>1. j - m \in 1 .. n /\ j = m + (j - m)
      BY <1>2
    <3> QED
      BY <3>1
  <2>2. queue'[m + i] = h + i
    BY <1>1
  <2> QED
    BY <1>2, <1>3, <2>1, <2>2
<1>5. Len(wire') = w /\ wire' = wire
  BY <1>1 DEF w
<1>6. w + (m + n) = h + n
  BY <1>2, <1>3
<1> QED
  BY <1>1, <1>3, <1>4, <1>5, <1>6 DEF ExactInv

(* A run that ::send did not take whole leaves a byte in lost.             *)
LEMMA WritesExact ==
  ASSUME IInv, ExactInv,
         WriteSome \/ WriteStops \/ WriteFails \/ WriteKills
  PROVE  ExactInv'
<1> DEFINE m == Len(queue)
           w == Len(wire)
           n == Len(Run)
<1> SUFFICES ASSUME lost' = {} PROVE ExactInv'
  BY DEF ExactInv
<1>1. queue # <<>> /\ TakeRun /\ Handed' = Handed
  BY WritesMove
<1>2. PICK k \in 0 .. Len(Run) :
        /\ Len(wire') = Len(wire) + k
        /\ \A i \in 1 .. Len(wire) : wire'[i] = wire[i]
        /\ \A i \in 1 .. k : wire'[Len(wire) + i] = Run[i]
        /\ lost' = lost \cup {Run[i] : i \in k + 1 .. Len(Run)}
  BY WritesMove
<1>3. m \in Nat /\ w \in Nat /\ n \in 1 .. m
  BY <1>1, Shapes, RunValue
<1>4. k = n
  <2>1. \A i \in k + 1 .. Len(Run) : Run[i] \in lost'
    BY <1>2
  <2>2. ~(n \in k + 1 .. Len(Run))
    BY <2>1
  <2> QED
    BY <1>2, <1>3, <2>2
<1>5. /\ \A i \in 1 .. w : wire[i] = i
      /\ \A j \in 1 .. m : queue[j] = w + j
      /\ w + m = Handed
  BY <1>2 DEF ExactInv
<1>6. /\ Len(queue') = m - n
      /\ \A j \in 1 .. m - n : queue'[j] = queue[n + j]
  BY <1>1, TakeRunValue
<1>7. \A i \in 1 .. n : Run[i] = queue[i]
  BY <1>1, RunValue
<1>8. /\ Len(wire') = w + n
      /\ \A i \in 1 .. w : wire'[i] = wire[i]
      /\ \A i \in 1 .. n : wire'[w + i] = Run[i]
  BY <1>2, <1>4
<1> HIDE DEF m, w, n
<1>9. \A i \in 1 .. w + n : wire'[i] = i
  <2> SUFFICES ASSUME NEW i \in 1 .. w + n, i \notin 1 .. w
               PROVE  wire'[i] = i
    BY <1>5, <1>8
  <2>1. PICK j \in 1 .. n : i = w + j
    <3>1. i - w \in 1 .. n /\ i = w + (i - w)
      BY <1>3
    <3> QED
      BY <3>1
  <2>2. wire'[w + j] = Run[j] /\ Run[j] = queue[j]
    BY <1>7, <1>8
  <2>3. queue[j] = w + j
    BY <1>3, <1>5
  <2> QED
    BY <2>1, <2>2, <2>3
<1>10. \A j \in 1 .. m - n : queue'[j] = (w + n) + j
  <2> SUFFICES ASSUME NEW j \in 1 .. m - n PROVE queue'[j] = (w + n) + j
    OBVIOUS
  <2>1. PICK l : l = n + j
    OBVIOUS
  <2>2. l \in 1 .. m /\ queue'[j] = queue[l]
    BY <1>3, <1>6, <2>1
  <2>3. queue[l] = w + l
    BY <1>5, <2>2
  <2> QED
    BY <1>3, <2>1, <2>2, <2>3
<1>11. (w + n) + (m - n) = Handed
  BY <1>3, <1>5
<1> QED
  BY <1>1, <1>6, <1>8, <1>9, <1>10, <1>11 DEF ExactInv

(* As long as ::send has taken every run whole, what the client is sent    *)
(* is exactly a prefix of what it sent, whatever the sizes of the buffers: *)
(* bytes vanish nowhere else.                                              *)
THEOREM Exact == Spec => []EchoExactUnlessLost
<1>1. Init => ExactInv
  <2> SUFFICES ASSUME Init PROVE ExactInv
    OBVIOUS
  <2>1. /\ wire = <<>> /\ queue = <<>>
        /\ copied = 0 /\ recvLen = 0 /\ written = 0
    BY DEF Init, SocketInit
  <2> QED
    BY <2>1 DEF ExactInv, Handed
<1>2. IInv /\ ExactInv /\ [Next]_vars => ExactInv'
  BY SettledSteps, SettledExact, PutExact, WritesExact
<1>3. ExactInv => EchoExactUnlessLost
  BY DEF ExactInv, EchoExactUnlessLost, EchoIsPrefix
<1> QED
  BY <1>1, <1>2, <1>3, SpecInv, PTL DEF Spec

-----------------------------------------------------------------------------
(* OnlyRestOfLossStays.  sendBuffer always holds the last bytes send was   *)
(* given; outside writeToSocket they are in one run, at the start of the   *)
(* memory, behind a lost byte.  A put into an empty buffer leaves at most  *)
(* two runs, one into such a rest a single one, which the next write       *)
(* takes whole.                                                            *)
LastInv == \A j \in 1 .. Len(queue) : queue[j] = Handed - Len(queue) + j

RestInv ==
  pc \notin {"write", "killed"} /\ queue # <<>> =>
    start = 0 /\ queue[1] - 1 \in lost

InSend == pc = "send" \/ (pc = "write" /\ writeCaller = "send")

SendInv ==
  /\ InSend => recvLen > 0
  /\ pc = "send" /\ written > 0 /\ queue # <<>> => Len(queue) < written
  /\ pc = "write" /\ writeCaller = "send" /\ queue # <<>> =>
       start = 0 \/ Len(queue) <= written

StayInv == LastInv /\ RestInv /\ SendInv

(* Where the steps go that leave sendBuffer as it is.                      *)
Goes ==
  \/ UNCHANGED <<pc, writeCaller, written, recvLen>>
  \/ /\ pc' \in {"loop", "recv", "aborted"} /\ pc # "killed"
     /\ pc = "write" => queue = <<>>
  \/ pc = "recv" /\ pc' = "send" /\ written' = 0 /\ recvLen' > 0
  \/ /\ pc = "write" /\ writeCaller = "send" /\ pc' = "send"
     /\ queue = <<>> /\ recvLen' = recvLen
  \/ pc' = "write" /\ writeCaller' = "poll"

LEMMA GoesSteps ==
  ASSUME IInv, [Next]_vars
  PROVE  \/ Settled /\ start' = start /\ Goes
         \/ SendPut \/ WriteSome \/ WriteStops \/ WriteFails \/ WriteKills
<1> SUFFICES ASSUME ~(SendPut \/ WriteSome \/ WriteStops \/ WriteFails
                       \/ WriteKills)
             PROVE  Settled /\ start' = start /\ Goes
  OBVIOUS
<1>0. Settled
  BY SettledSteps
<1> USE DEF Goes
<1>1. CASE (\E accepted \in BOOLEAN : Accept(accepted)) \/ AcceptFails
         \/ LoopEnds
  BY <1>0, <1>1 DEF Accept, AcceptFails, LoopEnds, sendVars
<1>2. CASE PollError \/ PollIn \/ PollOut \/ PollNothing
  BY <1>0, <1>2 DEF PollError, PollIn, PollOut, PollNothing, sendVars,
     serverVars
<1>3. CASE Deliver \/ DeliverAborts
  BY <1>0, <1>3 DEF Deliver, DeliverAborts, Die, sendVars, recvVars
<1>4. CASE RecvData
  BY <1>0, <1>4 DEF RecvData, RecvIdle, sendVars
<1>5. CASE RecvStops \/ RecvFails \/ RecvEnds
  BY <1>0, <1>5 DEF RecvStops, RecvFails, RecvEnds, RecvIdle, ReturnFromRecv,
     sendVars
<1>6. CASE SendReturns
  <2>1. ~(written < recvLen)
    BY <1>6, NeverShort, Shapes
  <2> QED
    BY <1>0, <1>6, <2>1 DEF SendReturns, sendVars
<1>7. CASE WriteDrained
  BY <1>0, <1>7 DEF WriteDrained, ReturnFromWrite, sendVars, recvVars, IInv,
     Control
<1>8. CASE Client /\ UNCHANGED serverVars
  BY <1>0, <1>8 DEF serverVars, callVars, recvVars, sendVars
<1>9. CASE UNCHANGED vars
  BY <1>0, <1>9 DEF vars, serverVars, callVars, recvVars, sendVars
<1> QED
  BY <1>1, <1>2, <1>3, <1>4, <1>5, <1>6, <1>7, <1>8, <1>9 DEF Next, Server

LEMMA GoesStays ==
  ASSUME IInv, StayInv, Settled, start' = start, Goes
  PROVE  StayInv'
<1>1. /\ queue' = queue /\ lost' = lost /\ Handed' = Handed
      /\ Len(queue') = Len(queue)
  BY DEF Settled
<1>2. LastInv'
  BY <1>1 DEF StayInv, LastInv
<1>3. RestInv'
  BY <1>1 DEF StayInv, RestInv, Goes
<1>4. SendInv'
  BY <1>1 DEF StayInv, SendInv, InSend, Goes
<1> QED
  BY <1>2, <1>3, <1>4 DEF StayInv

LEMMA PutStays ==
  ASSUME IInv, StayInv, SendPut
  PROVE  StayInv'
<1> DEFINE h == Handed
           m == Len(queue)
<1>1. PICK n \in 1 .. recvLen - written :
        /\ UNCHANGED <<wire, lost>> /\ Handed' = h + n
        /\ written' = written + n
        /\ Len(queue') = m + n
        /\ \A j \in 1 .. m : queue'[j] = queue[j]
        /\ \A i \in 1 .. n : queue'[m + i] = h + i
  BY PutMoves
<1>2. h \in Nat /\ m \in Nat /\ n \in Nat /\ n > 0
  BY <1>1, Shapes
<1>3. /\ pc = "send" /\ pc' = "write" /\ writeCaller' = "send"
      /\ start' = start /\ recvLen' = recvLen
  BY DEF SendPut, recvVars
<1>4. m = 0 \/ start = 0
  BY <1>3, Shapes DEF StayInv, RestInv
<1> HIDE DEF h, m
<1>5. \A j \in 1 .. m + n : queue'[j] = (h + n) - (m + n) + j
  <2>1. \A j \in 1 .. m : queue[j] = h - m + j
    BY DEF StayInv, LastInv, h, m
  <2> SUFFICES ASSUME NEW j \in 1 .. m + n
               PROVE  queue'[j] = (h + n) - (m + n) + j
    OBVIOUS
  <2>2. CASE j \in 1 .. m
    BY <1>1, <1>2, <2>1, <2>2
  <2>3. CASE j \notin 1 .. m
    <3>1. PICK i \in 1 .. n : j = m + i
      <4>1. j - m \in 1 .. n /\ j = m + (j - m)
        BY <1>2, <2>3
      <4> QED
        BY <4>1
    <3>2. queue'[m + i] = h + i
      BY <1>1
    <3> QED
      BY <1>2, <3>1, <3>2
  <2> QED
    BY <2>2, <2>3
<1>6. LastInv'
  BY <1>1, <1>5 DEF LastInv
<1>7. RestInv'
  BY <1>3 DEF RestInv
<1>8. SendInv'
  <2>1. recvLen > 0
    BY <1>3 DEF StayInv, SendInv, InSend
  <2>2. start = 0 \/ m + n <= written + n
    BY <1>2, <1>4, Shapes
  <2> QED
    BY <1>1, <1>3, <2>1, <2>2 DEF SendInv
<1> QED
  BY <1>6, <1>7, <1>8 DEF StayInv

(* What a taken run leaves: nothing if it began at the start of the        *)
(* memory, else what is now at the start of the memory.                    *)
LEMMA RunLeaves ==
  ASSUME IInv, queue # <<>>, TakeRun
  PROVE  /\ start = 0 => queue' = <<>>
         /\ queue' # <<>> => start' = 0
<1>1. /\ Len(queue) \in 1 .. Size /\ start \in 0 .. Size - 1
      /\ Len(Run) \in 1 .. Len(queue)
  BY RunValue, SizeAssumption DEF IInv, Data
<1>2. Len(Run) = Least(Len(queue), Size - start)
  <2> DEFINE n == RunLength(queue, start)
  <2>1. n \in 0 .. Len(queue) /\ queue \in Seq(1 .. MaxBytes)
    BY <1>1, SizeAssumption DEF RunLength, Least, IInv, Data
  <2>2. Len(SubSeq(queue, 1, n)) = n
    <3> HIDE DEF n
    <3> QED
      BY <2>1, PrefixOf
  <2> QED
    BY <2>2 DEF Run, Prefix, RunLength
<1>3. Len(queue') = Len(queue) - Len(Run) /\ queue' \in Seq(1 .. MaxBytes)
  BY TakeRunValue
<1>4. start = 0 => queue' = <<>>
  BY <1>1, <1>2, <1>3, SizeAssumption DEF Least
<1>5. ASSUME queue' # <<>>
      PROVE  start' = 0
  <2>1. Len(Run) = Size - start
    BY <1>1, <1>2, <1>3, <1>5, SizeAssumption DEF Least
  <2>2. start + Len(Run) = Size
    BY <1>1, <2>1, SizeAssumption
  <2>3. start' = Size % Size
    BY <2>2 DEF TakeRun, Advance
  <2> QED
    BY <2>3, SizeAssumption
<1> QED
  BY <1>4, <1>5

LEMMA WritesStay ==
  ASSUME IInv, StayInv, WriteSome \/ WriteStops \/ WriteFails \/ WriteKills
  PROVE  StayInv'
<1> DEFINE h == Handed
           m == Len(queue)
           n == Len(Run)
<1>1. queue # <<>> /\ TakeRun /\ Handed' = h
  BY WritesMove
<1>2. h \in Nat /\ m \in Nat /\ n \in 1 .. m /\ written \in Nat
  BY <1>1, Shapes, RunValue
<1>3. /\ Len(queue') = m - n
      /\ \A j \in 1 .. m - n : queue'[j] = queue[n + j]
  BY <1>1, TakeRunValue
<1>4. \A j \in 1 .. m : queue[j] = h - m + j
  BY DEF StayInv, LastInv
<1>5. /\ start = 0 => queue' = <<>>
      /\ queue' # <<>> => start' = 0
  BY <1>1, RunLeaves
<1>6. Run[n] = queue[n]
  BY <1>1, RunValue
<1>7. UNCHANGED <<writeCaller, written, recvLen>> /\ pc = "write"
  BY DEF WriteSome, WriteStops, WriteFails, WriteKills, ReturnFromWrite,
     callVars, recvVars
<1>8. \/ pc' = pc /\ WriteSome
      \/ /\ pc' = IF writeCaller = "send" THEN "send" ELSE "loop"
         /\ lost' = lost \cup {Run[i] : i \in 1 .. n}
      \/ pc' = "killed"
  <2>1. ~mRecvPaused
    BY DEF IInv, RoomInv
  <2> QED
    BY <2>1 DEF WriteSome, WriteStops, WriteFails, WriteKills,
       ReturnFromWrite, Die, callVars
<1> HIDE DEF h, m, n
<1>9. \A j \in 1 .. m - n : queue'[j] = h - (m - n) + j
  <2> SUFFICES ASSUME NEW j \in 1 .. m - n
               PROVE  queue'[j] = h - (m - n) + j
    OBVIOUS
  <2>1. PICK l : l = n + j
    OBVIOUS
  <2>2. l \in 1 .. m /\ queue'[j] = queue[l]
    BY <1>2, <1>3, <2>1
  <2> QED
    BY <1>2, <1>4, <2>1, <2>2
<1>10. LastInv'
  BY <1>1, <1>3, <1>9 DEF LastInv
<1>11. queue' # <<>> => Len(queue') > 0
  BY <1>1, TakeRunValue
<1>12. RestInv'
  <2> SUFFICES ASSUME pc' \notin {"write", "killed"}, queue' # <<>>
               PROVE  start' = 0 /\ queue'[1] - 1 \in lost'
    BY DEF RestInv
  <2>1. 1 \in 1 .. m - n
    BY <1>2, <1>3, <1>11
  <2>2. queue'[1] - 1 = Run[n]
    <3>1. queue'[1] = h - (m - n) + 1 /\ queue[n] = h - m + n
      BY <1>2, <1>4, <1>9, <2>1
    <3> QED
      BY <1>2, <1>6, <3>1
  <2>3. Run[n] \in lost'
    BY <1>2, <1>7, <1>8
  <2> QED
    BY <1>5, <2>2, <2>3
<1>13. SendInv'
  <2>1. InSend' => InSend
    BY <1>7, <1>8 DEF InSend
  <2>2. queue' # <<>> /\ writeCaller = "send" => m <= written
    BY <1>1, <1>5, <1>7 DEF StayInv, SendInv, m
  <2>3. m <= written => m - n < written
    BY <1>2
  <2>4. InSend => recvLen > 0
    BY DEF StayInv, SendInv
  <2> QED
    BY <1>2, <1>3, <1>7, <1>8, <2>1, <2>2, <2>3, <2>4 DEF SendInv, InSend
<1> QED
  BY <1>10, <1>12, <1>13 DEF StayInv

(* Whatever the sizes of the buffers, nothing that could still have        *)
(* arrived whole stays behind in sendBuffer when send returns: only the    *)
(* rest of the bytes it was given, of which some are lost already.         *)
THEOREM RestOfLoss == Spec => []OnlyRestOfLossStays
<1>1. Init => StayInv
  BY DEF Init, StayInv, LastInv, RestInv, SendInv, InSend
<1>2. IInv /\ StayInv /\ [Next]_vars => StayInv'
  BY GoesSteps, GoesStays, PutStays, WritesStay
<1>3. IInv /\ StayInv => OnlyRestOfLossStays
  <2> SUFFICES ASSUME IInv, StayInv PROVE OnlyRestOfLossStays
    OBVIOUS
  <2>1. queue \in Seq(1 .. MaxBytes) /\ Head(queue) = queue[1]
    BY Shapes
  <2>2. CASE pc \in {"loop", "recv"} /\ queue # <<>>
    BY <2>1, <2>2 DEF OnlyRestOfLossStays, StayInv, RestInv
  <2>3. CASE pc = "send" /\ written = recvLen /\ queue # <<>>
    <3>1. Head(queue) - 1 \in lost
      BY <2>1, <2>3 DEF StayInv, RestInv
    <3>2. recvLen \in Nat /\ copied \in Nat /\ Len(queue) \in 1 .. recvLen - 1
      <4>1. /\ recvLen \in Nat /\ copied \in Nat /\ Len(queue) \in Nat
            /\ recvLen > 0 /\ Len(queue) # 0
        BY <2>1, <2>3, Shapes DEF StayInv, SendInv, InSend
      <4>2. Len(queue) < recvLen
        BY <2>3, <4>1 DEF StayInv, SendInv
      <4> QED
        BY <4>1, <4>2
    <3>3. Head(queue) - 1 = copied - Len(queue)
      <4>1. Handed = copied
        BY <2>3, <3>2 DEF Handed
      <4>2. queue[1] = Handed - Len(queue) + 1
        BY <3>2 DEF StayInv, LastInv
      <4> QED
        BY <2>1, <3>2, <4>1, <4>2
    <3>4. PICK i : i = recvLen - Len(queue) - 1
      OBVIOUS
    <3>5. i \in 0 .. recvLen - 1 /\ recvOffset = 0
      BY <3>2, <3>4 DEF IInv, LocalInv
    <3>6. recvBuf[i] = copied - Len(queue)
      BY <3>2, <3>4, <3>5 DEF IInv, LocalInv
    <3>7. Head(queue) - 1 \in Chunk
      <4>1. i \in recvOffset .. recvOffset + recvLen - 1
        BY <3>2, <3>5
      <4> QED
        BY <3>3, <3>6, <4>1 DEF Chunk
    <3> QED
      BY <2>3, <3>1, <3>7 DEF OnlyRestOfLossStays
  <2> QED
    BY <2>2, <2>3 DEF OnlyRestOfLossStays
<1> QED
  BY <1>1, <1>2, <1>3, SpecInv, PTL DEF Spec

-----------------------------------------------------------------------------
(* EchoesInOrder: Spec refines LossyEcho.                                  *)

(* What a step may do to what the client sees.                             *)
LEMMA TakesOrWrites ==
  ASSUME IInv, [Next]_vars
  PROVE  \/ copied' = copied /\ wire' = wire
         \/ RecvData \/ WriteSome
<1>1. CASE (\E accepted \in BOOLEAN : Accept(accepted)) \/ AcceptFails
         \/ LoopEnds
  BY <1>1 DEF Accept, AcceptFails, LoopEnds
<1>2. CASE PollError \/ PollIn \/ PollOut \/ PollNothing
  BY <1>2 DEF PollError, PollIn, PollOut, PollNothing
<1>3. CASE Deliver \/ DeliverAborts \/ RecvStops \/ RecvFails \/ RecvEnds
  BY <1>3 DEF Deliver, DeliverAborts, RecvStops, RecvFails, RecvEnds, socketVars
<1>4. CASE SendPut \/ SendReturns \/ WriteDrained
  BY <1>4 DEF SendPut, SendReturns, WriteDrained, socketVars
<1>5. CASE WriteStops \/ WriteFails \/ WriteKills
  BY <1>5 DEF WriteStops, WriteFails, WriteKills
<1>6. CASE Client /\ UNCHANGED serverVars
  BY <1>6 DEF Client, ClientSends, ClientFinishes, ClientResets, ClientReads
<1>7. CASE UNCHANGED vars
  BY <1>7 DEF vars, socketVars
<1> QED
  BY <1>1, <1>2, <1>3, <1>4, <1>5, <1>6, <1>7 DEF Next, Server

(* No step opens the descriptor again.                                     *)
LEMMA StaysClosed ==
  ASSUME IInv, OwnerInv, [Next]_vars, fdOpen'
  PROVE  fdOpen
<1> USE Zenon DEF OnError, EndIf, HandleError, Die
<1>1. CASE (\E accepted \in BOOLEAN : Accept(accepted)) \/ AcceptFails
  BY <1>1 DEF Accept, AcceptFails
<1>9. CASE LoopEnds
  BY <1>9 DEF LoopEnds, OwnerInv
<1>2. CASE PollError \/ PollIn \/ PollOut \/ PollNothing
  BY <1>2 DEF PollError, PollIn, PollOut, PollNothing
<1>3. CASE Deliver \/ RecvData \/ RecvStops \/ RecvFails \/ RecvEnds
  BY <1>3 DEF Deliver, RecvData, RecvStops, RecvFails, RecvEnds, socketVars
<1>4. CASE SendPut \/ SendReturns \/ WriteDrained
  BY <1>4 DEF SendPut, SendReturns, WriteDrained, socketVars
<1>5. CASE WriteSome \/ WriteStops \/ WriteFails
  BY <1>5 DEF WriteSome, WriteStops, WriteFails
<1>6. CASE DeliverAborts \/ WriteKills
  BY <1>6 DEF DeliverAborts, WriteKills
<1>7. CASE Client /\ UNCHANGED serverVars
  BY <1>7 DEF Client, ClientSends, ClientFinishes, ClientResets, ClientReads
<1>8. CASE UNCHANGED vars
  BY <1>8 DEF vars, socketVars
<1> QED
  BY <1>1, <1>2, <1>3, <1>4, <1>5, <1>6, <1>7, <1>8, <1>9 DEF Next, Server

LEMMA RecvTakes ==
  ASSUME IInv, OwnerInv, RecvData
  PROVE  Abstract!Take
<1>1. sockfd = ConnFd /\ pc = "recv" /\ copied < arrived
  BY DEF RecvData, RecvIdle, RecvHasData, IInv, Control
<1>2. fdOpen
  BY <1>1 DEF OwnerInv
<1> DEFINE len == Least(RecvBufSize, arrived - copied)
<1>3. len \in Nat /\ len > 0
  BY <1>1, RecvBufAssumption, SocketAssumption DEF Least, IInv, Data
<1>4. copied' = copied + len /\ UNCHANGED <<fdOpen, wire>>
  BY DEF RecvData
<1> HIDE DEF len
<1>5. copied \in Nat
  BY Shapes
<1>6. copied' \in Nat /\ copied' > copied
  BY <1>3, <1>4, <1>5
<1> QED
  BY <1>2, <1>4, <1>6 DEF Abstract!Take

(* What the client has been sent was received before, and is in order.     *)
EchoedInv ==
  /\ \A i \in 1 .. Len(wire) : wire[i] \in 1 .. copied
  /\ \A i, j \in 1 .. Len(wire) : i < j => wire[i] < wire[j]

LEMMA Echoed ==
  ASSUME IInv, OrderInv
  PROVE  EchoedInv
<1>1. Handed \in Nat /\ copied \in Nat /\ Handed <= copied
  BY Places
<1>2. \A i \in 1 .. Len(wire) : wire[i] \in Nat \ {0}
  BY Shapes, ByteIsNat
<1>3. \A i \in 1 .. Len(wire) : wire[i] <= Handed
  BY DEF OrderInv
<1>4. \A i \in 1 .. Len(wire) : wire[i] \in 1 .. copied
  <2> HIDE DEF Handed
  <2> QED
    BY <1>1, <1>2, <1>3
<1> QED
  BY <1>4 DEF EchoedInv, OrderInv

LEMMA WriteEchoes ==
  ASSUME IInv, OwnerInv, WriteSome, EchoedInv'
  PROVE  Abstract!Echo \/ UNCHANGED Abstract!vars
<1>1. sockfd = ConnFd /\ pc = "write" /\ UNCHANGED <<fdOpen, copied>>
  BY DEF WriteSome, IInv, Control
<1>2. fdOpen
  BY <1>1 DEF OwnerInv
<1>3. PICK k \in 0 .. Len(Run) :
        /\ Len(wire') = Len(wire) + k
        /\ \A i \in 1 .. Len(wire) : wire'[i] = wire[i]
        /\ IF k > 0 THEN WriteSome ELSE wire' = wire
  BY WritesMove
<1>4. CASE k > 0
  <2>1. Len(wire) \in Nat /\ k \in Nat
    BY <1>3, Shapes
  <2>2. Len(wire') > Len(wire)
    BY <1>3, <1>4, <2>1
  <2>3. \A i \in 1 .. Len(wire') : wire'[i] \in 1 .. copied
    BY <1>1 DEF EchoedInv
  <2> QED
    BY <1>1, <1>2, <1>3, <2>2, <2>3 DEF Abstract!Echo, EchoedInv
<1>5. CASE ~(k > 0)
  BY <1>1, <1>3, <1>5 DEF Abstract!vars
<1> QED
  BY <1>4, <1>5

(* What the client is sent is in its own order, never twice, never before  *)
(* the server received it, and nothing once the descriptor is closed: the  *)
(* connection implements LossyEcho for every size of every buffer.         *)
THEOREM Refinement == Spec => EchoesInOrder
<1>1. Init => Abstract!Init
  BY DEF Init, SocketInit, Abstract!Init
<1>2. IInv /\ OwnerInv /\ [Next]_vars /\ EchoedInv'
      => [Abstract!Next]_(Abstract!vars)
  <2> SUFFICES ASSUME IInv, OwnerInv, [Next]_vars, EchoedInv'
               PROVE  [Abstract!Next]_(Abstract!vars)
    OBVIOUS
  <2>1. CASE RecvData
    BY <2>1, RecvTakes DEF Abstract!Next
  <2>2. CASE WriteSome
    BY <2>2, WriteEchoes DEF Abstract!Next
  <2>3. CASE copied' = copied /\ wire' = wire
    <3>1. fdOpen \in BOOLEAN
      BY DEF IInv, Flags
    <3>2. fdOpen' \in BOOLEAN
      BY StepInv DEF IInv, Flags
    <3>3. fdOpen' => fdOpen
      BY StaysClosed
    <3>4. fdOpen' = fdOpen \/ (fdOpen /\ fdOpen' = FALSE)
      BY ONLY <3>1, <3>2, <3>3
    <3> QED
      BY <2>3, <3>4 DEF Abstract!Next, Abstract!Close, Abstract!vars
  <2> QED
    BY <2>1, <2>2, <2>3, TakesOrWrites
<1>3. Init => OwnerInv
  BY DEF Init, SocketInit, OwnerInv
<1>4. IInv /\ OwnerInv /\ [Next]_vars => OwnerInv'
  BY OwnerHolds
<1>5. IInv /\ OrderInv => EchoedInv
  BY Echoed
<1> QED
  BY <1>1, <1>2, <1>3, <1>4, <1>5, OrderSpec, PTL
     DEF Spec, EchoesInOrder, Abstract!Spec

=============================================================================
