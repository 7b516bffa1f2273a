------------------------------ MODULE LossyEcho ------------------------------
(***************************************************************************)
(* What a client of echoServer may rely on, whatever the network does: as  *)
(* long as the connection is open the server takes the client's bytes in,  *)
(* and sends back bytes it has taken, in the client's order, none twice.   *)
(* It does not promise to send all of them.  Bytes are numbered in the     *)
(* order the client sends them.                                            *)
(***************************************************************************)
EXTENDS Integers, Sequences

VARIABLES
  open,             \* the server holds the connection
  taken,            \* bytes the server has received
  echoed            \* the bytes it has sent back, in order

vars == <<open, taken, echoed>>

Init == open = TRUE /\ taken = 0 /\ echoed = <<>>

Take ==
  /\ open
  /\ taken' \in Nat /\ taken' > taken
  /\ UNCHANGED <<open, echoed>>

(* More bytes are sent behind those already sent.                          *)
Echo ==
  /\ open
  /\ Len(echoed') > Len(echoed)
  /\ \A i \in 1 .. Len(echoed) : echoed'[i] = echoed[i]
  /\ \A i \in 1 .. Len(echoed') : echoed'[i] \in 1 .. taken
  /\ \A i, j \in 1 .. Len(echoed') : i < j => echoed'[i] < echoed'[j]
  /\ UNCHANGED <<open, taken>>

Close == open /\ open' = FALSE /\ UNCHANGED <<taken, echoed>>

Next == Take \/ Echo \/ Close

Spec == Init /\ [][Next]_vars

=============================================================================
