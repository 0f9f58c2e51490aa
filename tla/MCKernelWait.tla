---------------------------- MODULE MCKernelWait ----------------------------
(* Small instances of KernelWait for TLC. *)
EXTENDS KernelWait, TLC

CONSTANTS t1, t2, t3, e, a, m, s

Wait(objs, all, timed) == [objs |-> objs, all |-> all, timed |-> timed]

\* Waits on a manual-reset and an auto-reset event: one alone (WaitForSingle
\* Object passes bWaitAll = TRUE), either, and both.
EventCalls == { Wait(<< e >>, TRUE, TRUE), Wait(<< a >>, TRUE, FALSE),
                Wait(<< e, a >>, FALSE, TRUE), Wait(<< a, e >>, TRUE, FALSE) }

\* Waits on a mutex and a semaphore pool, with and without a timeout.
CountedCalls == { Wait(<< m >>, TRUE, FALSE), Wait(<< s >>, TRUE, TRUE),
                  Wait(<< s, m >>, FALSE, FALSE), Wait(<< m, s >>, TRUE, TRUE) }

\* Every kind of single wait, and waits for both.
LiveCalls == { Wait(<< e >>, TRUE, FALSE), Wait(<< a >>, TRUE, TRUE),
               Wait(<< a, s >>, TRUE, FALSE), Wait(<< e, s >>, FALSE, TRUE) }

\* The waits of a mutex alone, for its creator and one or two more.
MutexCalls == { Wait(<< m >>, TRUE, FALSE) }

ThreadSymmetry == Permutations(Threads \ {Creator})
=============================================================================
