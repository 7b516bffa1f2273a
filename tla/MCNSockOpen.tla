---------------------------- MODULE MCNSockOpen ----------------------------
(* Bounds: hosts with up to three addresses; two descriptors, so that one is *)
(* given out again for another purpose and a call may find none.             *)
EXTENDS NSockOpen
=============================================================================
