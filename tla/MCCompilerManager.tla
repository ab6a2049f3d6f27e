------------------------- MODULE MCCompilerManager -------------------------
(* TLC instance of CompilerManager.                                        *)
EXTENDS CompilerManager
CONSTANTS w1, w2, s1, s2, s3
=============================================================================
