------------------------------ MODULE ReadySet ------------------------------
(***************************************************************************)
(* What the scheduler promises: threads become ready and stop being ready, *)
(* and the processor is only ever given to a ready thread than which none  *)
(* is more urgent.  0 is the most urgent level.                            *)
(***************************************************************************)
EXTENDS Integers

CONSTANTS Threads, Idle, Levels

VARIABLES ready, level, running

vars == << ready, level, running >>

MostUrgent(R, l) == {t \in R : \A u \in R : l[t] <= l[u]}

Init ==
  /\ Idle \in ready /\ ready \subseteq Threads
  /\ level \in [Threads -> Levels]
  /\ running = Idle

Add(t) == ready' = ready \cup {t} /\ UNCHANGED << level, running >>

\* Only the running thread's own Dispatch can take it off.
Remove(t) ==
  /\ t \notin {Idle, running}
  /\ ready' = ready \ {t}
  /\ UNCHANGED << level, running >>

SetLevel(t, p) ==
  /\ t # Idle
  /\ level' = [level EXCEPT ![t] = p]
  /\ UNCHANGED << ready, running >>

\* The running thread goes on, is preempted, or stops being ready.
Dispatch ==
  /\ \/ ready' = ready
     \/ running # Idle /\ ready' = ready \ {running}
  /\ running' \in MostUrgent(ready', level)
  /\ UNCHANGED level

Next ==
  \/ \E t \in Threads : Add(t) \/ Remove(t)
  \/ \E t \in Threads, p \in Levels : SetLevel(t, p)
  \/ Dispatch

Spec == Init /\ [][Next]_vars
=============================================================================
