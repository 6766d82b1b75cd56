---------------------------- MODULE MCPrivateSend ----------------------------
(* Two clients and sessions of two.                                          *)
EXTENDS PrivateSend

CONSTANTS c1, c2
=============================================================================
