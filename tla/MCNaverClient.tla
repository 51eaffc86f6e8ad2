----------------------------- MODULE MCNaverClient -----------------------------
(* NaverClient for TLC: a unit of 15 seconds, so that a timeout is 1, the     *)
(* slack 2 and both pauses, rounded up, 1.                                    *)
EXTENDS NaverClient, TLC

CONSTANTS t1, t2

Pauses == 0 :> 1 @@ 1 :> 1
=============================================================================
