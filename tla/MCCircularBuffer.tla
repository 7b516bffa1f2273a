--------------------------- MODULE MCCircularBuffer ---------------------------
(* Bounds: three slots, two byte values, and every argument of up to four      *)
(* bytes (the empty one and one longer than the buffer included).             *)
EXTENDS CircularBuffer

MCByte == {0, 1}

MCChunks == UNION {[1 .. n -> MCByte] : n \in 0 .. 4}

=============================================================================
