---------------------------- MODULE MCLockOrder ----------------------------
(* Two sessions of a client, two I/O threads, one worker.                   *)
EXTENDS LockOrder, TLC

CONSTANTS s1, s2, c1

MCSessions == {s1, s2}
MCClients == {c1}
MCClientOf == (s1 :> c1) @@ (s2 :> c1)
=============================================================================
