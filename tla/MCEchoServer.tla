---------------------------- MODULE MCEchoServer ----------------------------
(* Bounds: three clients for two descriptors besides the listening socket's, *)
(* so that descriptors run out and are given out again within one batch.     *)
EXTENDS EchoServer
=============================================================================
