----------------------------- MODULE MCRunQueue -----------------------------
(* Instances of RunQueue. *)
EXTENDS RunQueue

CONSTANTS t1, t2, t3

AllOther == [t \in Threads |-> "OTHER"]

\* t1 and t3 manage.  They meet at 40; 240 and 255 are of one group.
SomeFifo == [t \in Threads |-> IF t = t3 THEN "FIFO" ELSE "OTHER"]
Created == [t \in Threads |-> CASE t = Idle -> 255 [] t = t2 -> 240
                                [] OTHER -> 40]
Args == [t \in Threads |-> IF t = t2 THEN {40, 240} ELSE {}]
Mixed == [t \in Threads |->
           CASE t = t1 -> {"manage", "wait"}
             [] t = t2 -> {"sleep", "priority", "up"}
             [] t = t3 -> {"manage", "suspend", "lock", "exit"}
             [] OTHER  -> {}]

\* Three threads of one level that give up the processor in every way.
Equals == [t \in Threads |-> IF t = Idle THEN 255 ELSE 40]
NoArgs == [t \in Threads |-> {}]
Yielding == [t \in Threads |->
              CASE t = t1 -> {"manage"}
                [] t = Idle -> {}
                [] OTHER -> {"sleep"}]

\* Two threads that manage each other and a third.
TwoManagers == [t \in Threads |->
                 CASE t \in {t1, t2} -> {"manage"}
                   [] t = t3 -> {"sleep"}
                   [] OTHER -> {}]

\* Threads of one level that are rotated.
AllRotation == [t \in Threads |-> IF t = Idle THEN "OTHER" ELSE "ROTATION"]
=============================================================================
