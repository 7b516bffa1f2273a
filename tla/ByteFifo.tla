------------------------------ MODULE ByteFifo ------------------------------
(***************************************************************************)
(* The abstract specification of CircularBuffer: a bounded first-in        *)
(* first-out queue of bytes.  A put appends the longest prefix of its      *)
(* argument that fits and answers its length, all at once; a get answers a *)
(* contiguous run of the oldest bytes, empty only when nothing is stored,  *)
(* and removes it.  Callers see pc, buf, accepted and got.                 *)
(***************************************************************************)
EXTENDS RingFifo

CONSTANT Chunks     \* the byte sequences the callers pass to put

VARIABLES
  queue,            \* the stored bytes, oldest first
  start,            \* how far the next run is from the wrap point
  pc,               \* "put" from the call of put to its return, or "idle"
  buf,              \* put's argument
  accepted,         \* what the last put answered
  got               \* what the last get answered

vars == <<queue, start, pc, buf, accepted, got>>

Init ==
  /\ queue = <<>>
  /\ start = 0
  /\ pc = "idle"
  /\ buf = <<>>
  /\ accepted = 0
  /\ got = <<>>

CallPut(bs) ==
  /\ pc = "idle"
  /\ pc' = "put"
  /\ buf' = bs
  /\ UNCHANGED <<queue, start, accepted, got>>

Put ==
  /\ pc = "put"
  /\ pc' = "idle"
  /\ buf' = <<>>
  /\ queue' = Enqueue(queue, buf)
  /\ accepted' = Accepts(queue, buf)
  /\ UNCHANGED <<start, got>>

Get ==
  LET n == RunLength(queue, start) IN
  /\ pc = "idle"
  /\ got' = Prefix(queue, n)
  /\ queue' = Rest(queue, n)
  /\ start' = Advance(start, n)
  /\ UNCHANGED <<pc, buf, accepted>>

Next == (\E bs \in Chunks : CallPut(bs)) \/ Put \/ Get

Spec == Init /\ [][Next]_vars

=============================================================================
