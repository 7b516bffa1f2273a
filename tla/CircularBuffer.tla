--------------------------- MODULE CircularBuffer ---------------------------
(***************************************************************************)
(* struct CircularBuffer of nsock.h on its memory: the put loop copies one *)
(* contiguous piece per iteration (PutCopy), get hands out the piece up to *)
(* the end of the memory and frees it at once.  The two calls of a buffer  *)
(* never overlap (one thread), so only put is split into steps.            *)
(***************************************************************************)
EXTENDS RingFifo

CONSTANTS
  Byte,             \* the values of a uint8_t the model tells apart
  Chunks            \* the arguments the callers pass to put

ASSUME ChunksAssumption == Chunks \subseteq Seq(Byte) /\ Byte # {}

Slots == 0 .. Size - 1

VARIABLES
  dataBuf,          \* the memory
  dataStart,        \* slot of the oldest byte
  dataLen,          \* number of stored bytes
  pc,               \* "idle", or "put" inside the loop of put
  buf,              \* put's argument
  offset,           \* put's local: bytes copied so far
  wlen,             \* put's local: bytes still to copy
  accepted,         \* what the last put returned
  got               \* the bytes the last get pointed at

putVars == <<pc, buf, offset, wlen, accepted>>
vars == <<dataBuf, dataStart, dataLen, got, putVars>>

(* The constructor leaves the memory uninitialised.                        *)
Init ==
  /\ dataBuf \in [Slots -> Byte]
  /\ dataStart = 0
  /\ dataLen = 0
  /\ pc = "idle"
  /\ buf = <<>>
  /\ offset = 0
  /\ wlen = 0
  /\ accepted = 0
  /\ got = <<>>

(* Faulty variant: the argument is not cut to the free space.              *)
PutCallUncut(bs) ==
  /\ pc = "idle"
  /\ pc' = "put"
  /\ buf' = bs
  /\ offset' = 0
  /\ wlen' = Len(bs)
  /\ UNCHANGED <<dataBuf, dataStart, dataLen, accepted, got>>

(* put is entered: the free space is read once, before the loop.           *)
PutCall(bs) ==
  /\ pc = "idle"
  /\ pc' = "put"
  /\ buf' = bs
  /\ offset' = 0
  /\ wlen' = Least(Size - dataLen, Len(bs))
  /\ UNCHANGED <<dataBuf, dataStart, dataLen, accepted, got>>

(* The slot of the stored byte number i, counted from 0; the first free    *)
(* slot.                                                                   *)
Slot(i) == (dataStart + i) % Size

FreeStart == Slot(dataLen)

(* The memory after memcpy(dataBuf + at, buf + from, len).                 *)
Copied(at, from, len) ==
  [k \in Slots |-> IF k \in at .. at + len - 1
                   THEN buf[from + (k - at) + 1]
                   ELSE dataBuf[k]]

(* One iteration of the loop that copies len bytes.                        *)
CopyPiece(len) ==
  /\ pc = "put"
  /\ wlen > 0
  /\ dataBuf' = Copied(FreeStart, offset, len)
  /\ dataLen' = dataLen + len
  /\ offset' = offset + len
  /\ wlen' = wlen - len
  /\ UNCHANGED <<dataStart, pc, buf, accepted, got>>

(* Faulty variant: the piece is not cut at the end of the memory, so its   *)
(* tail falls off.                                                         *)
PutCopyUncut == CopyPiece(wlen)

PutCopy == CopyPiece(Least(wlen, Size - FreeStart))

(* Faulty variant: the loop runs until the whole argument is stored.       *)
PutReturnWhole ==
  /\ pc = "put"
  /\ wlen = 0
  /\ offset = Len(buf)
  /\ pc' = "idle"
  /\ accepted' = offset
  /\ buf' = <<>>
  /\ offset' = 0
  /\ UNCHANGED <<dataBuf, dataStart, dataLen, wlen, got>>

PutReturn ==
  /\ pc = "put"
  /\ wlen = 0
  /\ pc' = "idle"
  /\ accepted' = offset
  /\ buf' = <<>>
  /\ offset' = 0
  /\ UNCHANGED <<dataBuf, dataStart, dataLen, wlen, got>>

(* get with the slot of the oldest byte moved to newStart.                 *)
TakeRun(rlen, newStart) ==
  /\ pc = "idle"
  /\ got' = [i \in 1 .. rlen |-> dataBuf[dataStart + i - 1]]
  /\ dataStart' = newStart
  /\ dataLen' = dataLen - rlen
  /\ UNCHANGED <<dataBuf, putVars>>

(* The run from the oldest byte to the end of the memory.                  *)
RunLen == Least(dataLen, Size - dataStart)

(* Faulty variant: the oldest byte may sit one past the last slot.         *)
GetUnwrapped == TakeRun(RunLen, dataStart + RunLen)

(* The empty buffer answers a null pointer and 0.                          *)
Get == TakeRun(RunLen, Slot(RunLen))

Next == (\E bs \in Chunks : PutCall(bs)) \/ PutCopy \/ PutReturn \/ Get

Spec == Init /\ [][Next]_vars

(* put is a loop of one thread: once entered it is not abandoned.          *)
FairSpec == Spec /\ WF_vars(PutCopy \/ PutReturn)

-----------------------------------------------------------------------------
(* The shape of the state.                                                 *)
TypeOK ==
  /\ dataBuf \in [Slots -> Byte]
  /\ dataStart \in Slots
  /\ dataLen \in 0 .. Size
  /\ pc \in {"idle", "put"}
  /\ buf \in Seq(Byte)
  /\ offset \in Nat
  /\ wlen \in Nat
  /\ accepted \in Nat
  /\ got \in Seq(Byte)

(* put's assert(dataLen <= dataBufSize), made inductive: what the loop has *)
(* still to copy always fits in the free space and in the argument, so no  *)
(* iteration overruns the memory or reads past buf.                        *)
PutStaysInBounds ==
  /\ dataLen + wlen <= Size
  /\ offset + wlen <= Len(buf)
  /\ offset <= dataLen
  /\ pc = "idle" => wlen = 0 /\ buf = <<>> /\ offset = 0

(* put copies at most two pieces: an iteration that leaves bytes to copy   *)
(* has stopped at the end of the memory, so the next starts at slot 0.     *)
SecondCopyStartsAtZero ==
  [][wlen' < wlen => wlen' = 0 \/ FreeStart' = 0]_vars

(* put's while (wlen) loop always ends: every iteration copies something.  *)
PutTerminates == (pc = "put") ~> (pc = "idle")

(* CircularBuffer implements ByteFifo: what get hands out is what put was  *)
(* given, in order.  The bytes a running put has copied belong to the      *)
(* abstract queue only when put returns.                                   *)
Stored == [i \in 1 .. dataLen - offset |-> dataBuf[Slot(i - 1)]]

Fifo == INSTANCE ByteFifo WITH queue <- Stored, start <- dataStart

FifoSpec == Fifo!Spec

=============================================================================
