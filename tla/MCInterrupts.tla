---------------------------- MODULE MCInterrupts ----------------------------
(* Instances of Interrupts: the keyboard (SYSINTR_KEYBOARD is 3), the tick   *)
(* (1) and a driver whose hardware is absent (4).                            *)
EXTENDS Interrupts

\* OEM_InterruptHandler looks for the keyboard before the tick; ISR_Handler
\* scans them the other way.
Order == [s \in Sources |-> IF s = SYSINTR_TIMING THEN 1 ELSE 0]
=============================================================================
