--------------------------- MODULE MCClientDaemon ---------------------------
(* TLC instance of ClientDaemon.                                           *)
EXTENDS ClientDaemon
CONSTANTS r1, r2, r3
=============================================================================
