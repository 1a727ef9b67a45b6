---------------------------- MODULE MCWindowsHost ----------------------------
(* WindowsHost for TLC: a client that is replaced by another while its       *)
(* session is set up or its sends fail, with one capture and one encoder at  *)
(* a time. MCWindowsHostEncoders.cfg has an encoder of each client.          *)
EXTENDS WindowsHost
==============================================================================
