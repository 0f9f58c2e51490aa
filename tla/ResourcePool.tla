---------------------------- MODULE ResourcePool ----------------------------
(***************************************************************************)
(* What mutexes and semaphores promise their clients, with no queues,      *)
(* wake-ups or sleeping: a client takes a set of resources in one step or  *)
(* none of them, only when each has a free unit (or is a re-entrant one it *)
(* already holds), and gives back only what it holds.                      *)
(***************************************************************************)
EXTENDS Integers

CONSTANTS Clients, Resources,
          Reentrant,   \* resources one client may hold several times: mutexes
          Capacity     \* [Resources -> Nat]

VARIABLES free, held
vars == << free, held >>

Holds(c, r) == held[c][r] > 0

Init == /\ free = Capacity
        /\ held = [c \in Clients |-> [r \in Resources |-> 0]]

Again(c, r) == r \in Reentrant /\ Holds(c, r)

Acquire(c, R) ==
  /\ \A r \in R : free[r] > 0 \/ Again(c, r)
  /\ free' = [r \in Resources |-> IF r \in R /\ ~Again(c, r) THEN free[r] - 1
                                  ELSE free[r]]
  /\ held' = [held EXCEPT ![c] = [r \in Resources |-> IF r \in R THEN @[r] + 1
                                                      ELSE @[r]]]

\* Giving back the last hold on a re-entrant resource, or any unit, frees it.
GiveBack(c, r) ==
  /\ Holds(c, r)
  /\ held' = [held EXCEPT ![c][r] = @ - 1]
  /\ free' = [free EXCEPT ![r] = IF r \in Reentrant /\ held[c][r] > 1 THEN @ ELSE @ + 1]

Next == \E c \in Clients :
          \/ \E R \in SUBSET Resources : Acquire(c, R)
          \/ \E r \in Resources : GiveBack(c, r)

Spec == Init /\ [][Next]_vars
=============================================================================
