-------------------------------- MODULE MCServ --------------------------------
(* Small instances of Serv for TLC. *)
EXTENDS Serv
=============================================================================
