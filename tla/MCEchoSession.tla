---------------------------- MODULE MCEchoSession ----------------------------
(* Bounds: the sizes in the cfgs are a few bytes, chosen so that the send      *)
(* buffer wraps (a run of two or more after its start has moved), recv() may   *)
(* give more than the send buffer holds and so the loop of send goes round,    *)
(* the kernel's queue is smaller than a run, and the client sends more than    *)
(* the send buffer and the kernel's queue hold together.                       *)
EXTENDS EchoSession
=============================================================================
