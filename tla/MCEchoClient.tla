---------------------------- MODULE MCEchoClient ----------------------------
(* Bounds: three lines, so that one is being sent while another waits and a  *)
(* third is written; one descriptor, since the socket is the only one.       *)
EXTENDS EchoClient
=============================================================================
