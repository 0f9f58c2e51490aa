------------------------------ MODULE MCCritSec ------------------------------
(* Small instances of CritSec for TLC: three threads of three priorities. *)
EXTENDS CritSec, TLC

CONSTANTS t1, t2, t3, c1, c2

Priorities == t1 :> 0 @@ t2 :> 1 @@ t3 :> 2
=============================================================================
