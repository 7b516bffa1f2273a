------------------------------ MODULE RingFifo ------------------------------
(***************************************************************************)
(* What struct CircularBuffer (nsock.h) computes, said about the sequence  *)
(* of bytes it stores instead of about its memory: how many bytes put      *)
(* takes, and how many get hands out before the wrap point.  The module    *)
(* has no state; ByteFifo and EchoSession are built from its operators.    *)
(***************************************************************************)
EXTENDS Integers, Sequences

CONSTANT Size       \* dataBufSize

ASSUME SizeAssumption == Size \in Nat \ {0}

Least(a, b) == IF a <= b THEN a ELSE b

Prefix(s, n) == SubSeq(s, 1, n)

Rest(s, n) == SubSeq(s, n + 1, Len(s))

(* The number of bytes of bs that put accepts when q is stored.            *)
Accepts(q, bs) == Least(Size - Len(q), Len(bs))

(* The bytes stored after put.                                             *)
Enqueue(q, bs) == q \o Prefix(bs, Accepts(q, bs))

(* The number of bytes get hands out: it stops at the end of the memory.   *)
RunLength(q, start) == Least(Len(q), Size - start)

(* The slot of the oldest byte once n bytes are taken.                     *)
Advance(start, n) == (start + n) % Size

=============================================================================
