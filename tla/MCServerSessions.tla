-------------------------- MODULE MCServerSessions --------------------------
(* TLC instance of ServerSessions: one-chunk and two-chunk versions.       *)
EXTENDS ServerSessions, TLC

CONSTANTS s1, s2, f1, f2, v1, v2

(* The version the files start with has two chunks where the run is about  *)
(* two streams writing one file, and one chunk where it is about faults.   *)
TwoChunksFirst == (v1 :> 2) @@ (v2 :> 1)
SameSize == (v1 :> 1) @@ (v2 :> 1)
OneChunkFirst == (v1 :> 1) @@ (v2 :> 2)

(* The sessions, and the files, are interchangeable.                       *)
MCSymmetry == Permutations(Sessions) \cup Permutations(Files)
=============================================================================
