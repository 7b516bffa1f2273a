------------------------ MODULE CircularBufferProofs ------------------------
(***************************************************************************)
(* Proofs about CircularBuffer, for every Size, Byte and Chunks.           *)
(***************************************************************************)
EXTENDS CircularBuffer, TLAPS

(* A remainder is a slot.                                                  *)
LEMMA ModRange ==
  ASSUME NEW n \in Nat \ {0}, NEW a \in Nat
  PROVE  a % n \in 0 .. n - 1
  OBVIOUS

(* What every step keeps: the types and the bounds of a running put.       *)
IInv == TypeOK /\ PutStaysInBounds

LEMMA InitInv == Init => IInv
  BY SizeAssumption DEF Init, IInv, TypeOK, PutStaysInBounds, Slots

LEMMA PutCallInv ==
  ASSUME IInv, NEW bs \in Chunks, PutCall(bs)
  PROVE  IInv'
<1> bs \in Seq(Byte)
  BY ChunksAssumption
<1> Len(bs) \in Nat
  OBVIOUS
<1> QED
  BY SizeAssumption DEF IInv, TypeOK, PutStaysInBounds, PutCall, Least

LEMMA CopyPieceInv ==
  ASSUME IInv, NEW len \in Nat, len <= wlen, len <= Size - FreeStart,
         CopyPiece(len)
  PROVE  IInv'
<1>1. dataBuf' \in [Slots -> Byte]
  <2>1. FreeStart \in 0 .. Size - 1
    BY SizeAssumption, ModRange DEF IInv, TypeOK, FreeStart, Slot, Slots
  <2>2. ASSUME NEW k \in Slots, k \in FreeStart .. FreeStart + len - 1
        PROVE  buf[offset + (k - FreeStart) + 1] \in Byte
    <3>1. offset + (k - FreeStart) + 1 \in 1 .. Len(buf)
      BY <2>1, <2>2, SizeAssumption DEF IInv, TypeOK, PutStaysInBounds, Slots
    <3> QED
      BY <3>1 DEF IInv, TypeOK
  <2> QED
    BY <2>2 DEF IInv, TypeOK, CopyPiece, Copied
<1>2. QED
  BY <1>1, SizeAssumption DEF IInv, TypeOK, PutStaysInBounds, CopyPiece

LEMMA PutCopyInv ==
  ASSUME IInv, PutCopy
  PROVE  IInv'
<1>1. FreeStart \in 0 .. Size - 1
  BY SizeAssumption, ModRange DEF IInv, TypeOK, FreeStart, Slot, Slots
<1>2. Least(wlen, Size - FreeStart) \in Nat
  BY <1>1, SizeAssumption DEF IInv, TypeOK, Least
<1>3. /\ Least(wlen, Size - FreeStart) <= wlen
      /\ Least(wlen, Size - FreeStart) <= Size - FreeStart
  BY <1>1, SizeAssumption DEF IInv, TypeOK, Least
<1> QED
  BY <1>2, <1>3, CopyPieceInv DEF PutCopy

LEMMA PutReturnInv ==
  ASSUME IInv, PutReturn
  PROVE  IInv'
BY SizeAssumption DEF IInv, TypeOK, PutStaysInBounds, PutReturn

LEMMA GetInv ==
  ASSUME IInv, Get
  PROVE  IInv'
<1>1. /\ RunLen \in 0 .. dataLen
      /\ dataStart + RunLen \in 0 .. Size
  BY SizeAssumption DEF IInv, TypeOK, RunLen, Least, Slots
<1>2. dataStart' \in Slots
  BY <1>1, SizeAssumption, ModRange DEF IInv, TypeOK, Get, TakeRun, Slot, Slots
<1>3. got' \in Seq(Byte)
  <2>1. ASSUME NEW i \in 1 .. RunLen
        PROVE  dataBuf[dataStart + i - 1] \in Byte
    BY <1>1, SizeAssumption DEF IInv, TypeOK, Slots
  <2>2. got' \in [1 .. RunLen -> Byte]
    BY <2>1 DEF Get, TakeRun
  <2> QED
    BY <1>1, <2>2 DEF IInv, TypeOK
<1> QED
  BY <1>1, <1>2, <1>3, SizeAssumption
     DEF IInv, TypeOK, PutStaysInBounds, Get, TakeRun, putVars

LEMMA StepInv ==
  ASSUME IInv, [Next]_vars
  PROVE  IInv'
<1>1. ASSUME NEW bs \in Chunks, PutCall(bs)
      PROVE  IInv'
  BY <1>1, PutCallInv
<1>2. CASE PutCopy
  BY <1>2, PutCopyInv
<1>3. CASE PutReturn
  BY <1>3, PutReturnInv
<1>4. CASE Get
  BY <1>4, GetInv
<1>5. CASE UNCHANGED vars
  BY <1>5 DEF IInv, TypeOK, PutStaysInBounds, vars, putVars
<1> QED
  BY <1>1, <1>2, <1>3, <1>4, <1>5 DEF Next

LEMMA SpecInv == Spec => []IInv
  BY InitInv, StepInv, PTL DEF Spec

(* The variables of CircularBuffer keep their types: dataStart is a slot   *)
(* and dataLen never exceeds the memory.                                   *)
THEOREM Typing == Spec => []TypeOK
  BY SpecInv, PTL DEF IInv

(* put's assert holds and no iteration of its loop leaves the memory or    *)
(* reads past the caller's bytes.                                          *)
THEOREM Bounds == Spec => []PutStaysInBounds
  BY SpecInv, PTL DEF IInv

-----------------------------------------------------------------------------
LEMMA ModTwice ==
  ASSUME NEW n \in Nat \ {0}
  PROVE  n % n = 0 /\ (2 * n) % n = 0
  OBVIOUS

LEMMA SecondCopyStep ==
  ASSUME IInv, [Next]_vars, wlen' < wlen
  PROVE  wlen' = 0 \/ FreeStart' = 0
<1>1. CASE PutCopy
  <2> DEFINE at == dataStart + dataLen
  <2>1. at \in 0 .. 2 * Size - 1
    <3>1. dataLen < Size
      BY <1>1, SizeAssumption
         DEF IInv, TypeOK, PutStaysInBounds, PutCopy, CopyPiece
    <3> QED
      BY <3>1, SizeAssumption DEF IInv, TypeOK, Slots
  <2>2. FreeStart = IF at < Size THEN at ELSE at - Size
    <3>1. dataLen \in 0 .. Size - 1 /\ dataStart \in 0 .. Size - 1
      BY <1>1, SizeAssumption
         DEF IInv, TypeOK, PutStaysInBounds, PutCopy, CopyPiece, Slots
    <3> QED
      BY <3>1, SizeAssumption DEF FreeStart, Slot
  <2>3. CASE wlen <= Size - FreeStart
    BY <1>1, <2>1, <2>2, <2>3, SizeAssumption
       DEF IInv, TypeOK, PutCopy, CopyPiece, Least
  <2>4. CASE ~(wlen <= Size - FreeStart)
    <3>1. dataStart' + dataLen' = at + (Size - FreeStart)
      BY <1>1, <2>1, <2>2, <2>4, SizeAssumption
         DEF IInv, TypeOK, PutCopy, CopyPiece, Least, Slots
    <3>2. dataStart' + dataLen' \in {Size, 2 * Size}
      BY <2>1, <2>2, <3>1, SizeAssumption
    <3> QED
      BY <3>2, SizeAssumption, ModTwice DEF FreeStart, Slot
  <2> QED
    BY <2>3, <2>4
<1>2. ASSUME NEW bs \in Chunks, PutCall(bs)
      PROVE  FALSE
  <2>1. wlen = 0
    BY <1>2 DEF IInv, PutStaysInBounds, PutCall
  <2>2. wlen' \in Nat
    BY <1>2, PutCallInv DEF IInv, TypeOK
  <2> QED
    BY <2>1, <2>2
<1>3. wlen' # wlen
  BY DEF IInv, TypeOK
<1>4. ~PutReturn /\ ~Get /\ ~UNCHANGED vars
  BY <1>3 DEF PutReturn, Get, TakeRun, vars, putVars
<1> QED
  BY <1>1, <1>2, <1>4 DEF Next

(* put copies at most two pieces.                                          *)
THEOREM TwoCopies == Spec => SecondCopyStartsAtZero
<1>1. IInv /\ [Next]_vars =>
        [wlen' < wlen => wlen' = 0 \/ FreeStart' = 0]_vars
  BY SecondCopyStep
<1> QED
  BY <1>1, SpecInv, PTL DEF Spec, SecondCopyStartsAtZero

-----------------------------------------------------------------------------
(* What a running put has to remember for its return to be the abstract    *)
(* Put: it will copy what Put accepts, and behind the stored bytes lie the *)
(* bytes copied so far.                                                    *)
PutInv ==
  pc = "put" =>
    /\ offset + wlen = Least(Size - (dataLen - offset), Len(buf))
    /\ \A j \in 1 .. offset :
         dataBuf[Slot(dataLen - offset + j - 1)] = buf[j]

RInv == IInv /\ PutInv

LEMMA SlotValue ==
  ASSUME IInv, NEW i \in 0 .. Size - 1
  PROVE  /\ Slot(i) = IF dataStart + i < Size THEN dataStart + i
                      ELSE dataStart + i - Size
         /\ Slot(i) \in Slots
<1>1. dataStart \in 0 .. Size - 1
  BY DEF IInv, TypeOK, Slots
<1> QED
  BY <1>1, SizeAssumption DEF Slot, Slots

LEMMA StoredLength ==
  ASSUME IInv
  PROVE  /\ Stored \in Seq(Byte)
         /\ Len(Stored) = dataLen - offset
<1>1. dataLen - offset \in Nat
  BY DEF IInv, TypeOK, PutStaysInBounds
<1>2. ASSUME NEW i \in 1 .. dataLen - offset
      PROVE  dataBuf[Slot(i - 1)] \in Byte
  <2>1. i - 1 \in 0 .. Size - 1
    BY SizeAssumption DEF IInv, TypeOK
  <2> QED
    BY <2>1, SlotValue DEF IInv, TypeOK
<1>3. Stored \in [1 .. dataLen - offset -> Byte]
  BY <1>2 DEF Stored
<1>4. Stored \in Seq(Byte)
  BY <1>1, <1>3
<1>5. DOMAIN Stored = 1 .. Len(Stored) /\ Len(Stored) \in Nat
  BY <1>4
<1> QED
  BY <1>1, <1>3, <1>4, <1>5

(* A piece of the loop overwrites neither what is stored nor what the      *)
(* earlier iterations have copied.                                         *)
LEMMA CopyKeeps ==
  ASSUME IInv, NEW len \in 1 .. wlen, len <= Size - FreeStart,
         CopyPiece(len), NEW i \in 0 .. dataLen - 1
  PROVE  dataBuf'[Slot(i)'] = dataBuf[Slot(i)]
<1>1. dataLen + len <= Size
  BY SizeAssumption DEF IInv, TypeOK, PutStaysInBounds
<1>2. i \in 0 .. Size - 1 /\ dataLen \in 0 .. Size - 1
  BY <1>1, SizeAssumption DEF IInv, TypeOK
<1>3. /\ Slot(i) = IF dataStart + i < Size THEN dataStart + i
                   ELSE dataStart + i - Size
      /\ Slot(i) \in Slots
      /\ FreeStart = IF dataStart + dataLen < Size THEN dataStart + dataLen
                     ELSE dataStart + dataLen - Size
  BY <1>2, SlotValue DEF FreeStart
<1>4. ~(Slot(i) \in FreeStart .. FreeStart + len - 1)
  BY <1>1, <1>2, <1>3, SizeAssumption DEF IInv, TypeOK, Slots
<1>5. Slot(i)' = Slot(i)
  BY DEF CopyPiece, Slot
<1> QED
  BY <1>3, <1>4, <1>5 DEF CopyPiece, Copied

LEMMA CopyWrites ==
  ASSUME IInv, NEW len \in 1 .. wlen, len <= Size - FreeStart,
         CopyPiece(len), NEW j \in offset + 1 .. offset + len
  PROVE  dataBuf'[Slot(dataLen - offset + j - 1)'] = buf[j]
<1> DEFINE i == dataLen - offset + j - 1
<1>1. dataLen + len <= Size
  BY SizeAssumption DEF IInv, TypeOK, PutStaysInBounds
<1>2. i \in 0 .. Size - 1 /\ dataLen \in 0 .. Size - 1
  BY <1>1, SizeAssumption DEF IInv, TypeOK
<1>3. /\ Slot(i) = IF dataStart + i < Size THEN dataStart + i
                   ELSE dataStart + i - Size
      /\ Slot(i) \in Slots
      /\ FreeStart = IF dataStart + dataLen < Size THEN dataStart + dataLen
                     ELSE dataStart + dataLen - Size
  BY <1>2, SlotValue DEF FreeStart
<1>4. Slot(i) = FreeStart + (j - offset - 1)
  BY <1>1, <1>2, <1>3, SizeAssumption DEF IInv, TypeOK, Slots
<1>5. FreeStart \in Int /\ offset \in Int /\ j \in Int
  BY <1>2, <1>3, SizeAssumption DEF IInv, TypeOK, Slots
<1>6. /\ Slot(i) \in FreeStart .. FreeStart + len - 1
      /\ offset + (Slot(i) - FreeStart) + 1 = j
  BY <1>4, <1>5
<1>7. dataBuf'[Slot(i)] = buf[offset + (Slot(i) - FreeStart) + 1]
  BY <1>3, <1>6 DEF CopyPiece, Copied
<1>8. Slot(dataLen - offset + j - 1)' = Slot(i)
  BY <1>5 DEF CopyPiece, Slot, IInv, TypeOK
<1> QED
  BY <1>6, <1>7, <1>8

(* The piece an iteration of put copies is not empty.                      *)
LEMMA PieceLength ==
  ASSUME IInv, PutCopy
  PROVE  \E len \in 1 .. wlen : len <= Size - FreeStart /\ CopyPiece(len)
<1> DEFINE len == Least(wlen, Size - FreeStart)
<1>1. FreeStart \in 0 .. Size - 1
  BY SizeAssumption, ModRange DEF IInv, TypeOK, FreeStart, Slot, Slots
<1>2. wlen > 0 /\ wlen \in Nat
  BY DEF PutCopy, CopyPiece, IInv, TypeOK
<1>3. len \in 1 .. wlen /\ len <= Size - FreeStart
  BY <1>1, <1>2, SizeAssumption DEF Least
<1> QED
  BY <1>3 DEF PutCopy

LEMMA PutCallMaps ==
  ASSUME RInv, NEW bs \in Chunks, PutCall(bs)
  PROVE  PutInv' /\ Fifo!CallPut(bs)
<1>1. offset = 0 /\ offset' = 0
  BY DEF RInv, IInv, PutStaysInBounds, PutCall
<1>2. Stored' = Stored
  BY <1>1 DEF PutCall, Stored, Slot
<1>3. PutInv'
  <2>1. buf' = bs /\ dataLen' = dataLen /\ wlen' = Least(Size - dataLen, Len(bs))
    BY DEF PutCall
  <2>2. wlen' \in Nat /\ dataLen \in Nat
    BY PutCallInv DEF RInv, IInv, TypeOK
  <2> QED
    BY <1>1, <2>1, <2>2 DEF PutInv
<1> QED
  BY <1>2, <1>3 DEF PutCall, Fifo!CallPut

LEMMA PutCopyMaps ==
  ASSUME RInv, PutCopy
  PROVE  PutInv' /\ UNCHANGED Fifo!vars
<1> PICK len \in 1 .. wlen : len <= Size - FreeStart /\ CopyPiece(len)
  BY PieceLength DEF RInv
<1> IInv
  BY DEF RInv
<1>1. /\ pc = "put" /\ pc' = pc /\ buf' = buf /\ dataStart' = dataStart
      /\ dataLen' = dataLen + len
      /\ offset' = offset + len
      /\ wlen' = wlen - len
      /\ accepted' = accepted /\ got' = got
  BY DEF CopyPiece
<1>2. /\ dataLen \in Nat /\ offset \in Nat /\ wlen \in Nat /\ len \in Nat
      /\ offset <= dataLen
  BY DEF IInv, TypeOK, PutStaysInBounds
<1>3. dataLen' - offset' = dataLen - offset /\ offset' + wlen' = offset + wlen
  BY <1>1, <1>2
<1>4. Stored' = Stored
  <2>1. ASSUME NEW i \in 1 .. dataLen - offset
        PROVE  dataBuf'[Slot(i - 1)'] = dataBuf[Slot(i - 1)]
    <3>1. i - 1 \in 0 .. dataLen - 1
      BY <1>2
    <3> QED
      BY <3>1, CopyKeeps
  <2> QED
    BY <1>3, <2>1 DEF Stored
<1>5. ASSUME NEW j \in 1 .. offset'
      PROVE  dataBuf'[Slot(dataLen - offset + j - 1)'] = buf[j]
  <2>1. CASE j <= offset
    <3>1. dataLen - offset + j - 1 \in 0 .. dataLen - 1
      BY <1>1, <1>2, <2>1
    <3>2. dataBuf[Slot(dataLen - offset + j - 1)] = buf[j]
      BY <1>1, <1>2, <2>1 DEF RInv, PutInv
    <3>3. Slot(dataLen - offset + j - 1)' =
            (dataStart + (dataLen - offset + j - 1)) % Size
      BY <1>1, <1>3 DEF Slot
    <3>4. ASSUME NEW i \in 0 .. dataLen - 1
          PROVE  dataBuf'[(dataStart + i) % Size] = dataBuf[Slot(i)]
      BY <1>1, CopyKeeps DEF Slot
    <3> QED
      BY <3>1, <3>2, <3>3, <3>4
  <2>2. CASE ~(j <= offset)
    <3>1. j \in offset + 1 .. offset + len
      BY <1>1, <1>2, <2>2
    <3> QED
      BY <3>1, CopyWrites
  <2> QED
    BY <2>1, <2>2
<1>6. PutInv'
  BY <1>1, <1>3, <1>5 DEF RInv, PutInv
<1> QED
  BY <1>1, <1>4, <1>6 DEF Fifo!vars

(* put returns: the abstract queue gets the bytes that were copied.        *)
LEMMA PutReturnMaps ==
  ASSUME RInv, PutReturn
  PROVE  PutInv' /\ Fifo!Put
<1> IInv
  BY DEF RInv
<1>1. /\ pc = "put" /\ pc' = "idle" /\ wlen = 0
      /\ accepted' = offset /\ offset' = 0 /\ buf' = <<>>
      /\ UNCHANGED <<dataBuf, dataStart, dataLen, got>>
  BY DEF PutReturn
<1>2. /\ dataLen \in Nat /\ offset \in Nat /\ offset <= dataLen
      /\ offset <= Len(buf) /\ Len(buf) \in Nat /\ buf \in Seq(Byte)
  BY <1>1 DEF IInv, TypeOK, PutStaysInBounds
<1>3. Stored \in Seq(Byte) /\ Len(Stored) = dataLen - offset
  BY StoredLength
<1>4. offset = Fifo!Accepts(Stored, buf)
  BY <1>1, <1>2, <1>3
     DEF RInv, PutInv, Least, Fifo!Accepts, Fifo!Least
<1>5. Stored' = Stored \o SubSeq(buf, 1, offset)
  <2> DEFINE q == Stored \o SubSeq(buf, 1, offset)
  <2>1. SubSeq(buf, 1, offset) \in Seq(Byte) /\ Len(SubSeq(buf, 1, offset)) = offset
    BY <1>2
  <2>2. q \in Seq(Byte) /\ Len(q) = dataLen
    BY <1>2, <1>3, <2>1
  <2>3. Stored' = [i \in 1 .. dataLen |-> dataBuf[Slot(i - 1)]]
    BY <1>1, <1>2 DEF Stored, Slot
  <2>4. ASSUME NEW i \in 1 .. dataLen
        PROVE  q[i] = dataBuf[Slot(i - 1)]
    <3>1. CASE i <= dataLen - offset
      <4>1. q[i] = Stored[i]
        BY <1>2, <1>3, <2>1, <3>1
      <4> QED
        BY <1>2, <3>1, <4>1 DEF Stored
    <3>2. CASE ~(i <= dataLen - offset)
      <4> DEFINE j == i - (dataLen - offset)
      <4>1. j \in 1 .. offset
        BY <1>2, <3>2
      <4>2. q[i] = buf[j]
        BY <1>2, <1>3, <2>1, <3>2, <4>1
      <4>3. dataBuf[Slot(dataLen - offset + j - 1)] = buf[j]
        BY <1>1, <4>1 DEF RInv, PutInv
      <4>4. dataLen - offset + j - 1 = i - 1
        BY <1>2
      <4> QED
        BY <4>2, <4>3, <4>4
    <3> QED
      BY <3>1, <3>2
  <2>5. q = [i \in 1 .. dataLen |-> q[i]]
    BY <2>2
  <2> HIDE DEF q
  <2>6. Stored' = q
    BY <2>3, <2>4, <2>5
  <2> QED
    BY <2>6 DEF q
<1> QED
  BY <1>1, <1>4, <1>5
     DEF PutInv, Fifo!Put, Fifo!Enqueue, Fifo!Prefix

(* get is one abstract step: it hands out the contiguous run.              *)
LEMMA GetMaps ==
  ASSUME RInv, Get
  PROVE  PutInv' /\ Fifo!Get
<1> IInv
  BY DEF RInv
<1>1. /\ pc = "idle" /\ offset = 0
      /\ got' = [i \in 1 .. RunLen |-> dataBuf[dataStart + i - 1]]
      /\ dataStart' = Slot(RunLen)
      /\ dataLen' = dataLen - RunLen
      /\ UNCHANGED <<dataBuf, pc, buf, offset, wlen, accepted>>
  BY DEF Get, TakeRun, putVars, IInv, PutStaysInBounds
<1>2. /\ dataLen \in 0 .. Size /\ dataStart \in 0 .. Size - 1
      /\ RunLen \in 0 .. dataLen /\ dataStart + RunLen <= Size
  BY SizeAssumption DEF IInv, TypeOK, Slots, RunLen, Least
<1>3. Stored \in Seq(Byte) /\ Len(Stored) = dataLen
  BY <1>1, <1>2, StoredLength
<1>4. RunLen = Fifo!RunLength(Stored, dataStart)
  BY <1>3 DEF RunLen, Least, Fifo!RunLength, Fifo!Least
<1>5. ASSUME NEW i \in 1 .. dataLen
      PROVE  Stored[i] = dataBuf[Slot(i - 1)]
  BY <1>1, <1>2 DEF Stored
<1>6. got' = SubSeq(Stored, 1, RunLen)
  <2>1. SubSeq(Stored, 1, RunLen) = [i \in 1 .. RunLen |-> Stored[i]]
    BY <1>2, <1>3
  <2>2. ASSUME NEW i \in 1 .. RunLen
        PROVE  Stored[i] = dataBuf[dataStart + i - 1]
    <3>1. i \in 1 .. dataLen /\ i - 1 \in 0 .. Size - 1
      BY <1>2, SizeAssumption
    <3>2. dataStart + (i - 1) < Size
      BY <1>2, SizeAssumption
    <3>3. Slot(i - 1) = dataStart + (i - 1)
      BY <3>1, <3>2, SlotValue
    <3> QED
      BY <1>2, <1>5, <3>1, <3>3
  <2> QED
    BY <1>1, <2>1, <2>2
<1>7. Stored' = SubSeq(Stored, RunLen + 1, Len(Stored))
  <2>1. SubSeq(Stored, RunLen + 1, Len(Stored)) =
          [i \in 1 .. dataLen - RunLen |-> Stored[RunLen + i]]
    BY <1>2, <1>3
  <2>2. Stored' = [i \in 1 .. dataLen - RunLen |-> dataBuf[Slot(i - 1)']]
    BY <1>1, <1>2 DEF Stored
  <2>3. ASSUME NEW i \in 1 .. dataLen - RunLen
        PROVE  Stored[RunLen + i] = dataBuf[Slot(i - 1)']
    <3>1. PICK k \in 1 .. dataLen : k = RunLen + i
      BY <1>2
    <3>2. Stored[k] = dataBuf[Slot(k - 1)]
      BY <1>5
    <3>3. (dataStart + (k - 1)) % Size =
            (((dataStart + RunLen) % Size) + (i - 1)) % Size
      BY <1>2, <3>1, SizeAssumption
    <3>4. Slot(k - 1) = Slot(i - 1)'
      BY <1>1, <3>3 DEF Slot
    <3> QED
      BY <3>1, <3>2, <3>4
  <2> QED
    BY <2>1, <2>2, <2>3
<1>8. dataStart' = Fifo!Advance(dataStart, RunLen)
  BY <1>1 DEF Slot, Fifo!Advance
<1> QED
  BY <1>1, <1>4, <1>6, <1>7, <1>8
     DEF PutInv, Fifo!Get, Fifo!Prefix, Fifo!Rest

LEMMA InitMaps == Init => PutInv /\ Fifo!Init
<1> SUFFICES ASSUME Init PROVE PutInv /\ Fifo!Init
  OBVIOUS
<1>1. Stored \in Seq(Byte) /\ Len(Stored) = 0
  BY InitInv, StoredLength DEF Init
<1>2. Stored = <<>>
  BY <1>1
<1> QED
  BY <1>2 DEF Init, PutInv, Fifo!Init

LEMMA StepMaps ==
  ASSUME RInv, [Next]_vars
  PROVE  RInv' /\ [Fifo!Next]_(Fifo!vars)
<1>1. IInv'
  BY StepInv DEF RInv
<1>2. PutInv' /\ [Fifo!Next]_(Fifo!vars)
  <2>1. ASSUME NEW bs \in Chunks, PutCall(bs)
        PROVE  PutInv' /\ [Fifo!Next]_(Fifo!vars)
    BY <2>1, PutCallMaps DEF Fifo!Next
  <2>2. CASE PutCopy
    BY <2>2, PutCopyMaps
  <2>3. CASE PutReturn
    BY <2>3, PutReturnMaps DEF Fifo!Next
  <2>4. CASE Get
    BY <2>4, GetMaps DEF Fifo!Next
  <2>5. CASE UNCHANGED vars
    BY <2>5 DEF RInv, PutInv, vars, putVars, Stored, Slot, Fifo!vars
  <2> QED
    BY <2>1, <2>2, <2>3, <2>4, <2>5 DEF Next
<1> QED
  BY <1>1, <1>2 DEF RInv

(* The circular buffer implements the abstract queue of bytes: whatever    *)
(* the size, the wrap point and the sizes of the pieces, bytes come out as *)
(* they went in, in order, none lost and none invented.                    *)
THEOREM Refinement == Spec => FifoSpec
<1>1. Init => RInv /\ Fifo!Init
  BY InitInv, InitMaps DEF RInv
<1>2. RInv /\ [Next]_vars => RInv' /\ [Fifo!Next]_(Fifo!vars)
  BY StepMaps
<1> QED
  BY <1>1, <1>2, PTL DEF Spec, FifoSpec, Fifo!Spec

=============================================================================
