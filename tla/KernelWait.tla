----------------------------- MODULE KernelWait -----------------------------
(***************************************************************************)
(* Waiting on and releasing kernel objects: manual-reset and auto-reset    *)
(* events, mutexes and counting semaphores (core/kernel/sche.c, downup.c,  *)
(* semaphor.c).  The kernel is uniprocessor; a thread can lose the CPU     *)
(* wherever interrupts are enabled, so one action is one stretch of code   *)
(* that runs with interrupts off, and pc names the enabled point where the *)
(* thread can be preempted.                                                *)
(***************************************************************************)
EXTENDS Integers, Sequences, FiniteSets

CONSTANTS
  Threads,
  ManualEvents,  \* SF_EVENT | SF_MANUALRESET
  AutoEvents,    \* SF_EVENT
  Mutexes,       \* SF_MUTEX | SF_OWNER
  Semaphores,    \* SF_SEMAPHORE
  MaxCount,      \* initial and maximum count of every semaphore
  Creator,       \* the thread that created the mutexes, one of Threads or not
  Careless,      \* threads that also call KL_ReleaseMutex on mutexes no wait
                 \* returned to them; the others release only what they took
  InitialOwner,  \* the mutexes created with bInitialOwner = TRUE
  IsrEvents,     \* the events an interrupt service routine signals
  WaitCalls,     \* the argument records [objs, all, timed] clients wait with
  LockLimit,     \* bound on the recursion of one thread on one mutex
  NoThread, NoObj

Events  == ManualEvents \cup AutoEvents
Counted == Mutexes \cup Semaphores
Objs    == Events \cup Counted

ASSUME KindsAssumption ==
  /\ ManualEvents \cap AutoEvents = {}
  /\ Events \cap Counted = {}
  /\ Mutexes \cap Semaphores = {}
  /\ InitialOwner \subseteq Mutexes
  /\ IsrEvents \subseteq Events
  /\ Careless \subseteq Threads
  /\ NoThread \notin Threads \cup {Creator}
  /\ NoObj \notin Objs

ASSUME BoundsAssumption ==
  /\ MaxCount \in Nat \ {0}
  /\ LockLimit \in Nat

\* No object occurs twice in one call, as in every caller in src/.
ASSUME WaitCallsAssumption ==
  \A w \in WaitCalls :
    /\ w \in [objs : Seq(Objs), all : BOOLEAN, timed : BOOLEAN]
    /\ w.objs # << >>
    /\ \A i, j \in DOMAIN w.objs : w.objs[i] = w.objs[j] => i = j

NoWait == [objs |-> << >>, all |-> FALSE, timed |-> FALSE]

VARIABLES
  nCount,      \* [Objs -> Nat], SEMAPHORE.nCount
  nWaiting,    \* [Objs -> BOOLEAN], SEMAPHORE.nWaiting # 0: an atomic section
               \* only ever adds to it or clears it, and only # 0 is tested
  waitQueue,   \* [Objs -> SUBSET Threads], the threads with a node in the
               \* lpWaitQueue ring; all are woken together, order is immaterial
  lpOwner,     \* [Mutexes -> Threads \cup {Creator, NoThread}]
  nLockCount,  \* [Mutexes -> Int]; below 0 after a release that lost a race
  asleep,      \* threads in THREAD_(UN)INTERRUPTIBLE, off the run queue
  dwTimeout,   \* [Threads -> BOOLEAN], THREAD.dwTimeout # 0
  timer,       \* threads whose THREAD.timer is linked in timerHead
  lpRouser,    \* [Threads -> Objs \cup {NoObj}], the object whose node woke it
  pulsed,      \* threads with FLAG_PULSE_EVENTING
  nsemRet,     \* [Threads -> Nat], index of the object that ended the wait
  pc, waits,   \* where the thread is, and the arguments of its wait
  lpsem,       \* [Threads -> Objs \cup {NoObj}], the object being released
  acquired     \* history: successful waits minus releases, per thread, object

objVars == << nCount, lpOwner, nLockCount, acquired >>
vars == << nCount, nWaiting, waitQueue, lpOwner, nLockCount, asleep, dwTimeout,
           timer, lpRouser, pulsed, nsemRet, pc, waits, lpsem, acquired >>

TimedOut == 0   \* nsemRet while WAIT_TIMEOUT is being returned

nMaxCount(o) == IF o \in Semaphores THEN MaxCount ELSE 1

\* nInitialCount of _SemaphoreCreate; events are created unsignalled here.
InitialCount(o) == IF o \in Semaphores THEN MaxCount
                   ELSE IF o \in Mutexes \ InitialOwner THEN 1 ELSE 0

Init ==
  /\ nCount = [o \in Objs |-> InitialCount(o)]
  /\ nWaiting = [o \in Objs |-> FALSE]
  /\ waitQueue = [o \in Objs |-> {}]
  /\ lpOwner = [m \in Mutexes |-> IF nCount[m] # 0 THEN Creator ELSE NoThread]
  /\ nLockCount = [m \in Mutexes |-> IF nCount[m] # 0 THEN 1 ELSE 0]
  /\ asleep = {}
  /\ dwTimeout = [t \in Threads |-> FALSE]
  /\ timer = {}
  /\ lpRouser = [t \in Threads |-> NoObj]
  /\ pulsed = {}
  /\ nsemRet = [t \in Threads |-> TimedOut]
  /\ pc = [t \in Threads |-> "idle"]
  /\ waits = [t \in Threads |-> NoWait]
  /\ lpsem = [t \in Threads |-> NoObj]
  /\ acquired = [t \in Threads |-> [o \in Counted |-> 0]]

Goto(t, label) == pc' = [pc EXCEPT ![t] = label]

-----------------------------------------------------------------------------
(* The test of DownSemphores: may the wait w of thread t be satisfied now, *)
(* when the threads P have FLAG_PULSE_EVENTING?                            *)

\* Bug: any recorded owner makes the wait recursive.
RecursiveAnyOwner(t, o) == o \in Mutexes /\ lpOwner[o] # NoThread

Recursive(t, o) == o \in Mutexes /\ lpOwner[o] = t
IsPulsed(t, w, i, P) == t \in P /\ nsemRet[t] = i /\ w.objs[i] \in ManualEvents
\* Bug: the object a wait was woken for is taken without a second look.
SatisfiesUnchecked(t, w, i, P) ==
  nCount[w.objs[i]] > 0 \/ Recursive(t, w.objs[i]) \/ nsemRet[t] = i

Satisfies(t, w, i, P) ==
  nCount[w.objs[i]] > 0 \/ Recursive(t, w.objs[i]) \/ IsPulsed(t, w, i, P)

\* The indexes the wait takes: all of them, or the first that satisfies it.
Taken(t, w, P) ==
  LET ready == {i \in DOMAIN w.objs : Satisfies(t, w, i, P)}
  IN IF w.all
     THEN IF ready = DOMAIN w.objs THEN ready ELSE {}
     ELSE {i \in ready : \A j \in ready : i <= j}

\* The scan clears FLAG_PULSE_EVENTING when it reaches the pulsed event and
\* finds it unsignalled, even when it then fails at a later object.
UsesPulse(t, w, P) ==
  \E i \in DOMAIN w.objs :
    /\ IsPulsed(t, w, i, P) /\ nCount[w.objs[i]] = 0
    /\ \A j \in 1 .. i-1 : Satisfies(t, w, j, P) <=> w.all

\* Bug: a recursive lock is not counted.
TakeOnce(t, G) ==
  /\ nCount' = [o \in Objs |-> IF o \in G \ ManualEvents /\ nCount[o] > 0
                               THEN nCount[o] - 1 ELSE nCount[o]]
  /\ nLockCount' = [m \in Mutexes |-> IF m \in G THEN 1 ELSE nLockCount[m]]
  /\ lpOwner' = [m \in Mutexes |-> IF m \in G THEN t ELSE lpOwner[m]]
  /\ acquired' = [acquired EXCEPT ![t] =
                    [o \in Counted |-> IF o \in G THEN @[o] + 1 ELSE @[o]]]

Take(t, G) ==
  /\ nCount' = [o \in Objs |-> IF o \in G \ ManualEvents /\ nCount[o] > 0
                               THEN nCount[o] - 1 ELSE nCount[o]]
  /\ nLockCount' = [m \in Mutexes |-> IF m \notin G THEN nLockCount[m]
                                      ELSE IF nCount[m] > 0 THEN 1
                                      ELSE nLockCount[m] + 1]
  /\ lpOwner' = [m \in Mutexes |-> IF m \in G THEN t ELSE lpOwner[m]]
  /\ acquired' = [acquired EXCEPT ![t] =
                    [o \in Counted |-> IF o \in G THEN @[o] + 1 ELSE @[o]]]

CheckCount(t, w, P) ==
  LET taken == Taken(t, w, P)
  IN /\ IF taken # {}
        THEN /\ Take(t, {w.objs[i] : i \in taken})
             /\ Goto(t, "idle")
             /\ waits' = [waits EXCEPT ![t] = NoWait]
             /\ nsemRet' = [nsemRet EXCEPT ![t] = TimedOut]
        ELSE /\ UNCHANGED << nCount, nLockCount, lpOwner, acquired, nsemRet >>
             /\ Goto(t, "park")
             /\ waits' = [waits EXCEPT ![t] = w]
     /\ pulsed' = IF UsesPulse(t, w, P) THEN P \ {t} ELSE P
     /\ UNCHANGED << nWaiting, waitQueue, asleep, dwTimeout, timer, lpRouser,
                     lpsem >>

\* DownSemphores entered from WaitForSingleObject / WaitForMultipleObjects,
\* which clears the pulse flag before the first test.
DownSemphores(t) ==
  /\ pc[t] = "idle"
  /\ \E w \in WaitCalls :
       /\ \A i \in DOMAIN w.objs :
            w.objs[i] \in Mutexes => acquired[t][w.objs[i]] < LockLimit
       /\ CheckCount(t, w, pulsed \ {t})

\* goto __CHECK_COUNT after __DownSemphores returned an object.
Recheck(t) ==
  /\ pc[t] = "check"
  /\ CheckCount(t, waits[t], pulsed)

-----------------------------------------------------------------------------
(* __DownSemphores: queue, scan, sleep, and scan again whenever woken.     *)

InObjs(t, o) == \E i \in DOMAIN waits[t].objs : waits[t].objs[i] = o

\* Bug: the scan looks at the first object only.
SignalledFirstOnly(t) == {i \in {1} : nCount[waits[t].objs[i]] # 0}

Signalled(t) == {i \in DOMAIN waits[t].objs : nCount[waits[t].objs[i]] # 0}

\* The scan under INTR_OFF returns the first signalled object.
FirstSignalled(t) == {i \in Signalled(t) : \A j \in Signalled(t) : i <= j}

\* _return: the thread is runnable and its timeout is cancelled; the timer and
\* the nodes are taken off one at a time afterwards, with interrupts on.
EndWait(t, i) ==
  /\ nsemRet' = [nsemRet EXCEPT ![t] = i]
  /\ dwTimeout' = [dwTimeout EXCEPT ![t] = FALSE]
  /\ asleep' = asleep \ {t}
  /\ Goto(t, "unlink")
  /\ UNCHANGED nWaiting

\* Bug: a thread that goes back to sleep is not counted again.
SleepUncounted(t, armed) ==
  /\ nWaiting' = [o \in Objs |-> nWaiting[o] \/ (InObjs(t, o) /\ pc[t] = "park")]
  /\ \/ asleep' = asleep \cup {t} /\ dwTimeout' = armed
     \/ armed[t] /\ asleep' = asleep /\ dwTimeout' = [armed EXCEPT ![t] = FALSE]
  /\ Goto(t, "asleep")

\* Nothing is signalled: count the thread as a waiter on every object and call
\* Schedule(), which keeps a timed waiter runnable when its time is already up.
Sleep(t, armed) ==
  /\ nWaiting' = [o \in Objs |-> nWaiting[o] \/ InObjs(t, o)]
  /\ \/ asleep' = asleep \cup {t} /\ dwTimeout' = armed
     \/ /\ armed[t]
        /\ asleep' = asleep /\ dwTimeout' = [armed EXCEPT ![t] = FALSE]
  /\ Goto(t, "asleep")

Park(t) ==
  LET armed == [dwTimeout EXCEPT ![t] = waits[t].timed]
  IN /\ pc[t] = "park"
     /\ waitQueue' = [o \in Objs |-> IF InObjs(t, o) THEN waitQueue[o] \cup {t}
                                      ELSE waitQueue[o]]
     /\ timer' = IF waits[t].timed THEN timer \cup {t} ELSE timer
     /\ \/ \E i \in FirstSignalled(t) : EndWait(t, i)
        \/ /\ Signalled(t) = {} /\ Sleep(t, armed)
           /\ nsemRet' = [nsemRet EXCEPT ![t] = 1]
     /\ UNCHANGED << nCount, lpOwner, nLockCount, acquired, lpRouser, pulsed,
                     waits, lpsem >>

\* Schedule() has returned.  The object that roused the thread wins when it is
\* still signalled or the thread carries a pulse.
Roused(t) ==
  {i \in DOMAIN waits[t].objs :
     waits[t].objs[i] = lpRouser[t] /\ (nCount[lpRouser[t]] # 0 \/ t \in pulsed)}

Resume(t) ==
  LET over == waits[t].timed /\ ~dwTimeout[t]
      none == Roused(t) = {} /\ Signalled(t) = {}
  IN /\ pc[t] = "asleep" /\ t \notin asleep
     /\ lpRouser' = [lpRouser EXCEPT ![t] = NoObj]
     /\ \/ \E i \in Roused(t) : EndWait(t, i)
        \/ Roused(t) = {} /\ \E i \in FirstSignalled(t) : EndWait(t, i)
        \/ none /\ over /\ EndWait(t, TimedOut)
        \/ none /\ ~over /\ Sleep(t, dwTimeout) /\ UNCHANGED nsemRet
     /\ UNCHANGED << nCount, lpOwner, nLockCount, acquired, waitQueue, timer,
                     pulsed, waits, lpsem >>

DelTimer(t) ==
  /\ pc[t] = "unlink" /\ t \in timer
  /\ timer' = timer \ {t}
  /\ UNCHANGED << objVars, nWaiting, waitQueue, asleep, dwTimeout, lpRouser,
                  pulsed, nsemRet, pc, waits, lpsem >>

\* The lowest object of the wait whose ring still holds the thread's node.
Linked(t) == {i \in DOMAIN waits[t].objs : t \in waitQueue[waits[t].objs[i]]}

\* The last node is off: return to the caller, or test the objects again.
MustRecheck(t) ==
  /\ nsemRet[t] # TimedOut
  /\ waits[t].all \/ waits[t].objs[nsemRet[t]] \notin ManualEvents

RemoveWaitQueue(t) ==
  /\ pc[t] = "unlink" /\ t \notin timer
  /\ \E i \in Linked(t) :
       /\ \A j \in Linked(t) : i <= j
       /\ waitQueue' = [waitQueue EXCEPT ![waits[t].objs[i]] = @ \ {t}]
       /\ IF Linked(t) # {i}
          THEN UNCHANGED << pc, waits, nsemRet >>
          ELSE IF MustRecheck(t)
          THEN Goto(t, "check") /\ UNCHANGED << waits, nsemRet >>
          ELSE /\ Goto(t, "idle")
               /\ waits' = [waits EXCEPT ![t] = NoWait]
               /\ nsemRet' = [nsemRet EXCEPT ![t] = TimedOut]
  /\ UNCHANGED << objVars, nWaiting, asleep, dwTimeout, timer, lpRouser,
                  pulsed, lpsem >>

\* KHeap_Alloc finds no memory for the nodes: WAIT_FAILED.
ParkFails(t) ==
  /\ pc[t] = "park"
  /\ Goto(t, "idle")
  /\ waits' = [waits EXCEPT ![t] = NoWait]
  /\ nsemRet' = [nsemRet EXCEPT ![t] = TimedOut]
  /\ UNCHANGED << objVars, nWaiting, waitQueue, asleep, dwTimeout, timer,
                  lpRouser, pulsed, lpsem >>

-----------------------------------------------------------------------------
(* UpSemaphore( lpsem, 1 ) and the __Up that follows it once interrupts are *)
(* on again: between the two, other threads run.                            *)

\* Bugs: the maximum is not respected; the waiters are not forgotten.
RaiseUnbounded(o) ==
  /\ nCount' = [nCount EXCEPT ![o] = @ + 1]
  /\ lpOwner' = [m \in Mutexes |-> IF m = o THEN NoThread ELSE lpOwner[m]]
  /\ nLockCount' = [m \in Mutexes |-> IF m = o THEN 0 ELSE nLockCount[m]]
  /\ nWaiting' = [nWaiting EXCEPT ![o] = FALSE]

RaiseKeepsWaiting(o) ==
  /\ nCount[o] + 1 <= nMaxCount(o)
  /\ nCount' = [nCount EXCEPT ![o] = @ + 1]
  /\ lpOwner' = [m \in Mutexes |-> IF m = o THEN NoThread ELSE lpOwner[m]]
  /\ nLockCount' = [m \in Mutexes |-> IF m = o THEN 0 ELSE nLockCount[m]]
  /\ UNCHANGED nWaiting

Raise(o) ==
  /\ nCount[o] + 1 <= nMaxCount(o)
  /\ nCount' = [nCount EXCEPT ![o] = @ + 1]
  /\ lpOwner' = [m \in Mutexes |-> IF m = o THEN NoThread ELSE lpOwner[m]]
  /\ nLockCount' = [m \in Mutexes |-> IF m = o THEN 0 ELSE nLockCount[m]]
  /\ nWaiting' = [nWaiting EXCEPT ![o] = FALSE]

\* The thread goes on to __Up when there were waiters, else to `next`.
UpSemaphore(t, o, up, next) ==
  /\ \/ /\ Raise(o)
        /\ Goto(t, IF nWaiting[o] THEN up ELSE next)
     \/ /\ nCount[o] + 1 > nMaxCount(o)
        /\ Goto(t, next)
        /\ UNCHANGED << nCount, lpOwner, nLockCount, nWaiting >>
  /\ lpsem' = [lpsem EXCEPT ![t] = IF pc'[t] = "idle" THEN NoObj ELSE o]

\* Bugs: one sleeper only is roused; the rouser of a running thread is set too.
WakeupOne(o) ==
  LET up == IF asleep \cap waitQueue[o] = {} THEN {}
            ELSE {CHOOSE t \in asleep \cap waitQueue[o] : TRUE}
  IN /\ asleep' = asleep \ up
     /\ lpRouser' = [t \in Threads |-> IF t \in up THEN o ELSE lpRouser[t]]
\* WakeupWaitQueue: rouse every sleeper that has a node on o.
WakeupWaitQueue(o) ==
  /\ asleep' = asleep \ waitQueue[o]
  /\ lpRouser' = [t \in Threads |->
                    IF t \in asleep \cap waitQueue[o] /\ lpRouser[t] = NoObj
                    THEN o ELSE lpRouser[t]]

Up(t) ==
  /\ pc[t] \in {"up", "pulseUp"}
  /\ WakeupWaitQueue(lpsem[t])
  /\ IF pc[t] = "up"
     THEN Goto(t, "idle") /\ lpsem' = [lpsem EXCEPT ![t] = NoObj]
     ELSE Goto(t, "reset") /\ UNCHANGED lpsem
  /\ UNCHANGED << objVars, nWaiting, waitQueue, dwTimeout, timer, pulsed,
                  nsemRet, waits >>

Release(t, o) ==
  /\ UpSemaphore(t, o, "up", "idle")
  /\ UNCHANGED << waitQueue, asleep, dwTimeout, timer, lpRouser, pulsed,
                  nsemRet, waits >>

SetEvent(t, o) ==
  /\ pc[t] = "idle"
  /\ Release(t, o) /\ UNCHANGED acquired

ResetEvent(t, o) ==
  /\ pc[t] = "idle"
  /\ nCount' = [nCount EXCEPT ![o] = 0]
  /\ UNCHANGED << lpOwner, nLockCount, acquired, nWaiting, waitQueue, asleep,
                  dwTimeout, timer, lpRouser, pulsed, nsemRet, pc, waits, lpsem >>

\* KL_ReleaseMutex looks at the owner, then at the count, and only then enters
\* a locked section: interrupts are on in between.
ReleaseMutex(t, m) ==
  /\ pc[t] = "idle" /\ lpOwner[m] = t
  /\ acquired[t][m] > 0 \/ t \in Careless
  /\ lpsem' = [lpsem EXCEPT ![t] = m]
  /\ Goto(t, "owner")
  /\ UNCHANGED << objVars, nWaiting, waitQueue, asleep, dwTimeout, timer,
                  lpRouser, pulsed, nsemRet, waits >>

TestLockCount(t) ==
  /\ pc[t] = "owner"
  /\ Goto(t, IF nLockCount[lpsem[t]] = 1 THEN "release" ELSE "inner")
  /\ UNCHANGED << objVars, nWaiting, waitQueue, asleep, dwTimeout, timer,
                  lpRouser, pulsed, nsemRet, waits, lpsem >>

\* What the releasing thread believes to hold is one less.
OneLess(t, m) ==
  acquired' = [acquired EXCEPT ![t][m] = IF @ > 0 THEN @ - 1 ELSE 0]

\* An inner release only counts down.
CountDown(t) ==
  /\ pc[t] = "inner"
  /\ nLockCount' = [nLockCount EXCEPT ![lpsem[t]] = @ - 1]
  /\ OneLess(t, lpsem[t])
  /\ lpsem' = [lpsem EXCEPT ![t] = NoObj]
  /\ Goto(t, "idle")
  /\ UNCHANGED << nCount, lpOwner, nWaiting, waitQueue, asleep, dwTimeout,
                  timer, lpRouser, pulsed, nsemRet, waits >>

FreeMutex(t) ==
  /\ pc[t] = "release"
  /\ OneLess(t, lpsem[t])
  /\ Release(t, lpsem[t])

\* A client that gives back one unit it took from the pool.
ReleaseSemaphore(t, s) ==
  /\ pc[t] = "idle" /\ acquired[t][s] > 0
  /\ acquired' = [acquired EXCEPT ![t][s] = @ - 1]
  /\ Release(t, s)

\* KL_PulseEvent: a manual-reset event first marks every thread queued on it;
\* the event is then set, and only a manual-reset one is reset at the end.
PulseEvent(t, o) ==
  /\ pc[t] = "idle"
  /\ pulsed' = IF o \in ManualEvents THEN pulsed \cup waitQueue[o] ELSE pulsed
  /\ lpsem' = [lpsem EXCEPT ![t] = o]
  /\ Goto(t, "pulse")
  /\ UNCHANGED << objVars, nWaiting, waitQueue, asleep, dwTimeout, timer,
                  lpRouser, nsemRet, waits >>

PulseRelease(t) ==
  /\ pc[t] = "pulse"
  /\ UpSemaphore(t, lpsem[t], "pulseUp", "reset")
  /\ UNCHANGED << acquired, waitQueue, asleep, dwTimeout, timer, lpRouser,
                  pulsed, nsemRet, waits >>

PulseReset(t) ==
  /\ pc[t] = "reset"
  /\ nCount' = IF lpsem[t] \in ManualEvents THEN [nCount EXCEPT ![lpsem[t]] = 0]
               ELSE nCount
  /\ lpsem' = [lpsem EXCEPT ![t] = NoObj]
  /\ Goto(t, "idle")
  /\ UNCHANGED << lpOwner, nLockCount, acquired, nWaiting, waitQueue, asleep,
                  dwTimeout, timer, lpRouser, pulsed, nsemRet, waits >>

-----------------------------------------------------------------------------
(* Interrupts: no thread runs between their steps.                         *)

\* INTR_ISRFun: UpSemaphore and __Up on the event bound to an interrupt.
ISRSetEvent(e) ==
  /\ Raise(e)
  /\ IF nWaiting[e] THEN WakeupWaitQueue(e) ELSE UNCHANGED << asleep, lpRouser >>
  /\ UNCHANGED << acquired, waitQueue, dwTimeout, timer, pulsed, nsemRet, pc,
                  waits, lpsem >>

\* Bug: the expired timer does not make its thread runnable.
ThreadTimeoutAsleep(t) ==
  /\ t \in timer
  /\ timer' = timer \ {t}
  /\ dwTimeout' = [dwTimeout EXCEPT ![t] = FALSE]
  /\ UNCHANGED << objVars, nWaiting, waitQueue, asleep, lpRouser, pulsed,
                  nsemRet, pc, waits, lpsem >>

\* RunTimerList and ThreadTimeout for one expired timer.
ThreadTimeout(t) ==
  /\ t \in timer
  /\ timer' = timer \ {t}
  /\ dwTimeout' = [dwTimeout EXCEPT ![t] = FALSE]
  /\ asleep' = asleep \ {t}
  /\ UNCHANGED << objVars, nWaiting, waitQueue, lpRouser, pulsed, nsemRet, pc,
                  waits, lpsem >>

-----------------------------------------------------------------------------
\* A thread inside a kernel call.
Inside(t) == Recheck(t) \/ Park(t) \/ ParkFails(t) \/ Resume(t) \/ DelTimer(t)
               \/ RemoveWaitQueue(t) \/ Up(t) \/ PulseRelease(t) \/ PulseReset(t)
               \/ TestLockCount(t) \/ CountDown(t) \/ FreeMutex(t)

\* A call a client chooses to make.
Call(t) == \/ DownSemphores(t)
           \/ \E e \in Events : SetEvent(t, e) \/ ResetEvent(t, e)
                                  \/ PulseEvent(t, e)
           \/ \E m \in Mutexes : ReleaseMutex(t, m)
           \/ \E s \in Semaphores : ReleaseSemaphore(t, s)

Next == \/ \E t \in Threads : Call(t) \/ Inside(t) \/ ThreadTimeout(t)
        \/ \E e \in IsrEvents : ISRSetEvent(e)

Spec == Init /\ [][Next]_vars

\* Every thread inside the kernel runs again and every timer expires: threads
\* of higher priority are assumed to block again, as service threads do.
Fairness == \A t \in Threads : WF_vars(Inside(t)) /\ WF_vars(ThreadTimeout(t))

FairSpec == Spec /\ Fairness

-----------------------------------------------------------------------------
PCs == {"idle", "check", "park", "asleep", "unlink", "up", "pulse", "pulseUp",
        "reset", "owner", "inner", "release"}

ReleaseSteps == {"owner", "inner", "release"}   \* inside KL_ReleaseMutex

TypeOK ==
  /\ nCount \in [Objs -> Nat] /\ \A o \in Objs : nCount[o] <= nMaxCount(o)
  /\ nWaiting \in [Objs -> BOOLEAN]
  /\ waitQueue \in [Objs -> SUBSET Threads]
  /\ lpOwner \in [Mutexes -> Threads \cup {Creator, NoThread}]
  /\ nLockCount \in [Mutexes -> Int]
  /\ asleep \subseteq Threads /\ timer \subseteq Threads /\ pulsed \subseteq Threads
  /\ dwTimeout \in [Threads -> BOOLEAN]
  /\ lpRouser \in [Threads -> Objs \cup {NoObj}]
  /\ pc \in [Threads -> PCs]
  /\ waits \in [Threads -> WaitCalls \cup {NoWait}]
  /\ nsemRet \in [Threads -> Nat]
  /\ \A t \in Threads :
       /\ nsemRet[t] \in DOMAIN waits[t].objs \cup {TimedOut}
       /\ pc[t] \in {"check", "park", "asleep", "unlink"} <=> waits[t] \in WaitCalls
  /\ lpsem \in [Threads -> Objs \cup {NoObj}]
  /\ \A t \in Threads :
       /\ pc[t] \in {"up", "pulse", "pulseUp", "reset"} \cup ReleaseSteps
            <=> lpsem[t] \in Objs
       /\ pc[t] \in {"pulse", "pulseUp", "reset"} => lpsem[t] \in Events
       /\ pc[t] \in ReleaseSteps => lpsem[t] \in Mutexes
  /\ acquired \in [Threads -> [Counted -> Nat]]

\* A thread between UpSemaphore and __Up on o.
WakePending(o) == \E u \in Threads : pc[u] \in {"up", "pulseUp"} /\ lpsem[u] = o

(***************************************************************************)
(* No lost wake-up.  A sleeping thread is registered on every object it    *)
(* waits for: each still counts a waiter, so that the next release wakes   *)
(* it, or a wake-up of it is already on its way.  When one of those        *)
(* objects is signalled the wake-up is on its way, although UpSemaphore    *)
(* clears nWaiting and enables interrupts before __Up (downup.c:59-63) and *)
(* __DownSemphores registers and scans separately (sche.c:917-972).        *)
(***************************************************************************)
NoLostWakeup ==
  \A t \in asleep : \A i \in DOMAIN waits[t].objs :
    LET o == waits[t].objs[i]
    IN /\ t \in waitQueue[o]
       /\ nWaiting[o] \/ WakePending(o)
       /\ nCount[o] > 0 => WakePending(o)

(***************************************************************************)
(* Two assertions of the kernel.  An object whose release is refused for   *)
(* being at its maximum has no registered waiter (downup.c:71, here for    *)
(* every object with a count), and the node that roused a thread belongs   *)
(* to its current wait (sche.c:986-987) and is still queued.               *)
(***************************************************************************)
KernelAsserts ==
  /\ \A o \in Objs : nCount[o] > 0 => ~nWaiting[o]
  /\ \A t \in Threads : lpRouser[t] # NoObj =>
       /\ pc[t] = "asleep" /\ t \notin asleep
       /\ t \in waitQueue[lpRouser[t]] /\ InObjs(t, lpRouser[t])

(***************************************************************************)
(* A thread that sleeps with a timeout can be woken by the clock: its      *)
(* timer is linked and dwTimeout still says so.  A thread back in its      *)
(* caller has left no timer and no node behind (sche.c:1025-1038).         *)
(***************************************************************************)
TimersArmed ==
  /\ \A t \in asleep : waits[t].timed => t \in timer /\ dwTimeout[t]
  /\ \A t \in Threads : pc[t] \notin {"asleep", "unlink"} =>
       t \notin timer /\ \A o \in Objs : t \notin waitQueue[o]

(***************************************************************************)
(* The kernel's book-keeping of a mutex agrees with what its clients were  *)
(* told: the waits that returned it to a thread, less its releases, are    *)
(* exactly the recursion count of the recorded owner while the mutex is    *)
(* taken (downup.c:320-340, 349-370), although KL_ReleaseMutex looks at    *)
(* owner and count with interrupts on (semaphor.c:615-623).  It holds as   *)
(* long as the creator of a mutex releases it only when it has it: the     *)
(* creator is recorded as the owner of a mutex that is free.               *)
(***************************************************************************)
MutexAccounts ==
  \A m \in Mutexes : \A t \in Threads :
    acquired[t][m] = IF nCount[m] = 0 /\ lpOwner[m] = t THEN nLockCount[m] ELSE 0

(***************************************************************************)
(* Only the thread that owns a mutex can release it (the header of         *)
(* KL_ReleaseMutex, semaphor.c:605): while a thread has one, nobody frees  *)
(* it or takes its place.  A creator that passes the owner test while the  *)
(* mutex is free, and is preempted before the release, does.               *)
(***************************************************************************)
OwnerKeeps ==
  \A m \in Mutexes : \A t \in Threads :
    acquired[t][m] > 0 => nCount[m] = 0 /\ lpOwner[m] = t

(***************************************************************************)
(* Units of a semaphore used as a pool are conserved: what is available    *)
(* and what clients hold always adds up to the initial count, whatever     *)
(* waits were abandoned half-way by a timeout or lost a race (downup.c:    *)
(* 317-342, 348-351, sche.c:948-1010).                                     *)
(***************************************************************************)
UnitsHeld(s) == UNION {{t} \X (1 .. acquired[t][s]) : t \in Threads}

UnitsConserved ==
  \A s \in Semaphores : nCount[s] + Cardinality(UnitsHeld(s)) = MaxCount

-----------------------------------------------------------------------------
(* The inductive invariant behind the four: every part is about one thread *)
(* or one object, so that a step need only be looked at where it happens.  *)

\* A thread's nodes, timer and rouser belong to the wait it is in.
Links ==
  /\ \A t \in asleep : pc[t] = "asleep" /\ lpRouser[t] = NoObj
  /\ \A t \in Threads : pc[t] = "asleep" =>
       /\ \A o \in Objs : InObjs(t, o) => t \in waitQueue[o]
       /\ waits[t].timed /\ dwTimeout[t] => t \in timer
  /\ \A t \in asleep : waits[t].timed => dwTimeout[t]
  /\ \A t \in Threads, o \in Objs : t \in waitQueue[o] =>
       pc[t] \in {"asleep", "unlink"} /\ InObjs(t, o)
  /\ \A t \in timer : pc[t] \in {"asleep", "unlink"}
  /\ \A t \in Threads : lpRouser[t] # NoObj =>
       pc[t] = "asleep" /\ InObjs(t, lpRouser[t])

\* Whoever sleeps on an object is counted there or about to be woken.
Registered ==
  /\ \A t \in asleep, o \in Objs : InObjs(t, o) => nWaiting[o] \/ WakePending(o)
  /\ \A o \in Objs : nCount[o] > 0 => ~nWaiting[o]

IInv == TypeOK /\ Links /\ Registered

\* A mutex with a recorded owner has been locked at least once by it, and a
\* free one can have no other recorded owner than its creator.
OwnedLocked ==
  \A m \in Mutexes :
    /\ lpOwner[m] # NoThread => nLockCount[m] > 0
    /\ lpOwner[m] \notin {Creator, NoThread} => nCount[m] = 0

\* A thread inside KL_ReleaseMutex still has the mutex it has tested, as often
\* as the test found.
StillHeld ==
  \A t \in Threads :
    /\ pc[t] \in ReleaseSteps => acquired[t][lpsem[t]] > 0
    /\ pc[t] = "release" => acquired[t][lpsem[t]] = 1
    /\ pc[t] = "inner" => acquired[t][lpsem[t]] > 1

\* Inductive, on top of IInv, when the creator of the mutexes is not careless.
MutexInv == OwnedLocked /\ MutexAccounts /\ StillHeld

-----------------------------------------------------------------------------
Waiting(t) == waits[t] # NoWait

(***************************************************************************)
(* A thread does not wait for ever on objects that are all signalled for   *)
(* good, whichever wake-ups it missed or shared.                           *)
(***************************************************************************)
SignalServed ==
  \A t \in Threads :
    ~<>[](Waiting(t) /\ \A i \in DOMAIN waits[t].objs : nCount[waits[t].objs[i]] > 0)

(***************************************************************************)
(* A wait with a timeout returns once nothing is signalled any more.       *)
(***************************************************************************)
TimedReturns ==
  \A t \in Threads :
    ~<>[](Waiting(t) /\ waits[t].timed /\ \A o \in Objs : nCount[o] = 0)

-----------------------------------------------------------------------------
(***************************************************************************)
(* Seen through what clients hold, the protocol of queues, scans and wake- *)
(* ups is an atomic resource pool: a wait takes all its units in one step  *)
(* or none, never one that is not free, and no release frees a unit twice. *)
(***************************************************************************)
Pool == INSTANCE ResourcePool WITH
          Clients   <- Threads,
          Resources <- Counted,
          Reentrant <- Mutexes,
          Capacity  <- [o \in Counted |-> InitialCount(o)],
          free      <- [o \in Counted |-> nCount[o]],
          held      <- acquired

ImplementsPool == Pool!Spec

=============================================================================
