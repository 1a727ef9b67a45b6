------------------------------ MODULE MCSession ------------------------------
(* Session for TLC. A command may name the geometry the user has anyway, or a *)
(* client's display; MCClientB is a client that also measured a second one.   *)
EXTENDS Session

MCSaved == [preset |-> "mine", presetB |-> "mine"]
MCRequests == {[preset |-> "mine", presetB |-> "none"],
               [preset |-> "client", presetB |-> "none"]}
MCClientB == MCRequests \cup {[preset |-> "client", presetB |-> "client"]}
=============================================================================
