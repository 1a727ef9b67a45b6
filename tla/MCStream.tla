------------------------------ MODULE MCStream ------------------------------
(* Stream for TLC: two names are enough for a client and what is left of the *)
(* one before it.                                                            *)
EXTENDS Stream
=============================================================================
