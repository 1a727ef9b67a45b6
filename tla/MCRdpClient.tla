----------------------------- MODULE MCRdpClient -----------------------------
(* RdpClient for TLC: a session that is closed or has ended, and its           *)
(* successor, with the threads of both. Either name is used again when the     *)
(* session it was given to is gone, so that the runs go on for ever.           *)
EXTENDS RdpClient
==============================================================================
