----------------------- MODULE MCResourceAdvertising -----------------------
(* TLC instance of ResourceAdvertising.                                    *)
EXTENDS ResourceAdvertising
CONSTANTS a, b, r1, r2
=============================================================================
