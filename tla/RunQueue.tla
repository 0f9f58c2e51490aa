------------------------------ MODULE RunQueue ------------------------------
(***************************************************************************)
(* The scheduler (core/kernel/sche.c) with suspension and priorities       *)
(* (thread.c): one ring of runnable threads per priority, a bitmap over    *)
(* the priorities and a bitmap over groups of 32 of them.  One action is   *)
(* one stretch of code with interrupts off.  The thread that runs,         *)
(* lpCurThread, is the only one that takes steps; an interrupt takes its   *)
(* own in between (inIsr), and reschedules when it returns.                *)
(***************************************************************************)
EXTENDS Integers, FiniteSets

CONSTANTS
  Threads,       \* with Idle, which is lpInitKernelThread
  Idle,
  Starter,       \* the first thread the boot code creates
  Levels,        \* the priorities in use; 0 is the most urgent
  CreatedAt,     \* [Threads -> Levels], the priority a thread starts at
  PriorityArgs,  \* [Threads -> SUBSET Levels], the priorities it may be given
  fPolicy,       \* [Threads -> {"OTHER", "FIFO", "ROTATION"}]
  Calls,         \* [Threads -> SUBSET CallNames], the calls a thread makes
  Rotate,        \* nRotate of every thread but Idle
  MaxLostTicks,  \* bound on the ticks one interrupt accounts for
  MaxSuspend,    \* MAXIMUM_SUSPEND_COUNT
  NoThread       \* NULL

IDLE_PRIORITY == 255

\* "manage": suspend, resume and prioritise other threads.
CallNames ==
  {"sleep", "wait", "up", "suspend", "priority", "manage", "lock", "exit"}

ASSUME ThreadsAssumption ==
  /\ {Idle, Starter} \subseteq Threads /\ Idle # Starter
  /\ Calls \in [Threads -> SUBSET CallNames] /\ Calls[Idle] = {}
  /\ NoThread \notin Threads /\ IsFiniteSet(Threads)

ASSUME LevelsAssumption ==
  /\ Levels \subseteq 0 .. IDLE_PRIORITY /\ IDLE_PRIORITY \in Levels
  /\ CreatedAt \in [Threads -> Levels] /\ CreatedAt[Idle] = IDLE_PRIORITY
  /\ PriorityArgs \in [Threads -> SUBSET Levels] /\ PriorityArgs[Idle] = {}
  /\ fPolicy \in [Threads -> {"OTHER", "FIFO", "ROTATION"}]
  /\ fPolicy[Idle] = "OTHER"

ASSUME BoundsAssumption ==
  {Rotate, MaxLostTicks, MaxSuspend} \subseteq Nat \ {0}

VARIABLES
  rq,              \* the rings: [lpNextRun, lpPrevRun, lpThreadList,
                   \* dwPriorityBitmap, uPriorityGroup], bitmaps as sets
  nCountRunning,   \* the number of threads in the rings, Idle not counted
  dwState, nSuspendCount, nCurPriority, nTickCount, nBoost, nLockScheCount,
                   \* the fields of THREAD
  dwTimeout,       \* threads with THREAD.dwTimeout # 0
  timer,           \* threads whose THREAD.timer is linked in timerHead
  lpCurThread, bNeedResched,
  inIsr,           \* an interrupt is being handled
  pc,              \* where a thread is when interrupts are on
  lparg,           \* the thread a resumption is about
  fault            \* a NULL link or list has been followed

threadVars == << dwState, nSuspendCount, nCurPriority, nTickCount, nBoost,
                 nLockScheCount, dwTimeout, timer >>
vars == << rq, nCountRunning, threadVars, lpCurThread, bNeedResched, inIsr,
           pc, lparg, fault >>

Group(p) == p \div 32
Linked(q, t) == q.lpNextRun[t] # NoThread \/ q.lpPrevRun[t] # NoThread

-----------------------------------------------------------------------------
(* The rings.  Field updates are in the order of the assignments, as the   *)
(* threads they name may be one and the same.                              *)

\* AddToRunQueue for a thread that is not linked: at the head of its ring.
Link(q, t, p) ==
  LET list == q.lpThreadList[p]
      last == q.lpPrevRun[list]
  IN IF list # NoThread
     THEN [q EXCEPT !.lpPrevRun[t] = last, !.lpNextRun[last] = t,
                    !.lpNextRun[t] = list, !.lpPrevRun[list] = t,
                    !.lpThreadList[p] = t]
     ELSE [q EXCEPT !.lpPrevRun[t] = t, !.lpNextRun[t] = t,
                    !.lpThreadList[p] = t,
                    !.dwPriorityBitmap = @ \cup {p},
                    !.uPriorityGroup = @ \cup {Group(p)}]

\* Bug: the group is cleared although other priorities of it have threads.
ClearWholeGroup(q, p) ==
  [q EXCEPT !.dwPriorityBitmap = @ \ {p}, !.uPriorityGroup = @ \ {Group(p)}]

ClearPriorityBitmap(q, p) ==
  LET bits == q.dwPriorityBitmap \ {p}
  IN [q EXCEPT !.dwPriorityBitmap = bits,
               !.uPriorityGroup =
                  IF \E r \in bits : Group(r) = Group(p) THEN @
                                                         ELSE @ \ {Group(p)}]

\* RemoveFromRunQueue for a thread that is linked.
Unlink(q, t, p) ==
  LET next == q.lpNextRun[t]
      prev == q.lpPrevRun[t]
      out  == IF next = t
              THEN ClearPriorityBitmap(
                     [q EXCEPT !.lpThreadList[p] = NoThread], p)
              ELSE [q EXCEPT !.lpThreadList[p] = IF @ = t THEN next ELSE @,
                             !.lpPrevRun[next] = prev,
                             !.lpNextRun[prev] = next]
  IN [out EXCEPT !.lpNextRun[t] = NoThread, !.lpPrevRun[t] = NoThread]

MoveToEndOfRunQueue(q, t, p) ==
  LET next == q.lpNextRun[t]
      prev == q.lpPrevRun[t]
      list == q.lpThreadList[p]
  IN [q EXCEPT !.lpThreadList[p] = IF @ = t THEN next ELSE @,
               !.lpPrevRun[next] = prev, !.lpNextRun[prev] = next,
               !.lpNextRun[t] = list, !.lpPrevRun[list] = t,
               !.lpPrevRun[t] = list, !.lpNextRun[list] = t]

\* Bug: the groups are not compared.
HighestOfAGroup(q, p) ==
  /\ p \in q.dwPriorityBitmap
  /\ \A r \in q.dwPriorityBitmap : Group(r) = Group(p) => p <= r

\* GetHighestPriority: p is the lowest bit of the lowest group.
Highest(q, p) ==
  /\ p \in q.dwPriorityBitmap /\ Group(p) \in q.uPriorityGroup
  /\ \A g \in q.uPriorityGroup : Group(p) <= g
  /\ \A r \in q.dwPriorityBitmap : Group(r) = Group(p) => p <= r

\* The threads a walk along lpNextRun from list comes past.
Walk(q, list) ==
  {t \in Threads :
     \A S \in SUBSET Threads :
       (list \in S /\ \A u \in S : q.lpNextRun[u] \in S) => t \in S}

-----------------------------------------------------------------------------
(* Parts of actions. *)

Goto(t, label) == pc' = [pc EXCEPT ![t] = label]

\* Bug: whoever is not suspended is taken to be in the rings.
NotSuspended(t) == dwState[t] # "SUSPENDED"
Runnable(t) == dwState[t] = "RUNNING"

\* Bug: a timer or a release also wakes who does not sleep.
AsleepOrNot(t) == dwState[t] # "ZOMBIE"
Asleep(t) == dwState[t] \in {"INTERRUPTIBLE", "UNINTERRUPTIBLE"}

\* Bug: a thread that was suspended while it slept runs when it is woken.
NeverSuspended(t) == FALSE
StillSuspended(t) == nSuspendCount[t] # 0

\* Bug: only the idle thread is preempted.
PreemptsIdle(priority, t) == lpCurThread = Idle
Preempts(priority, t) == priority[t] <= priority[lpCurThread]

\* AddToRunQueue, given the rings q, their number of threads n, and the
\* priorities and states that its caller has set.
AddToRunQueue(q, n, priority, state, t) ==
  LET adds == ~StillSuspended(t) /\ ~Linked(q, t)
  IN /\ dwState' = IF StillSuspended(t)
                   THEN [state EXCEPT ![t] = "SUSPENDED"] ELSE state
     /\ rq' = IF adds THEN Link(q, t, priority[t]) ELSE q
     /\ nCountRunning' = IF adds THEN n + 1 ELSE n
     /\ bNeedResched' = (bNeedResched \/ (adds /\ Preempts(priority, t)))

_WakeupThread(t, bHighLevel) ==
  LET state == [dwState EXCEPT ![t] = "RUNNING"]
  IN IF rq.lpNextRun[t] = NoThread
     THEN /\ nBoost' = IF bHighLevel THEN [nBoost EXCEPT ![t] = @ + 1]
                                     ELSE nBoost
          /\ AddToRunQueue(rq, nCountRunning, nCurPriority, state, t)
     ELSE /\ dwState' = state
          /\ UNCHANGED << rq, nCountRunning, bNeedResched, nBoost >>

\* What makes GetNextRun prefer a thread of the ring that starts at list.
Points(t, list, ticks, boost, yields) ==
  LET n == ticks[t] + boost[t]
  IN IF t = list \/ t # lpCurThread \/ n = 0 THEN n
     ELSE IF yields THEN -1000 ELSE n + 1

nRotate(t) == IF t = Idle THEN 0 ELSE Rotate

\* Bug: threads without points are not given a new slice.
GetNextRunOnce(q, ticks, boost, yields) ==
  \E p \in Levels :
    /\ Highest(q, p)
    /\ LET list == q.lpThreadList[p]
           ring == Walk(q, list)
           P(t) == Points(t, list, ticks, boost, yields)
           best == {t \in ring : \A u \in ring : P(u) <= P(t)}
       IN \E next \in IF list \in best THEN {list} ELSE best :
            /\ lpCurThread' = next
            /\ nBoost' = IF boost[next] # 0
                         THEN [boost EXCEPT ![next] = @ - 1] ELSE boost
            /\ nTickCount' = ticks

\* Of equals the list's first wins; which of the others is left open.
GetNextRun(q, ticks, boost, yields) ==
  \E p \in Levels :
    /\ Highest(q, p)
    /\ LET list == q.lpThreadList[p]
           ring == Walk(q, list)
           P(t) == Points(t, list, ticks, boost, yields)
           best == {t \in ring : \A u \in ring : P(u) <= P(t)}
       IN \E next \in IF list \in best THEN {list} ELSE best :
            /\ lpCurThread' = next
            /\ nBoost' = IF boost[next] # 0
                         THEN [boost EXCEPT ![next] = @ - 1] ELSE boost
            /\ nTickCount' = IF P(next) = 0
                             THEN [t \in Threads |-> IF t \in ring
                                                     THEN nRotate(t)
                                                     ELSE ticks[t]]
                             ELSE ticks

\* Schedule, given the states its caller has set.
Schedule(state) ==
  LET t       == lpCurThread
      p       == nCurPriority[t]
      rotates == nTickCount[t] # 0 /\ fPolicy[t] = "ROTATION"
      yields  == state[t] = "INTERRUPTIBLE" /\ t \in dwTimeout
      leaves  == state[t] # "RUNNING" /\ ~yields
      q       == IF rotates THEN MoveToEndOfRunQueue(rq, t, p) ELSE rq
  IN /\ rq' = IF leaves THEN Unlink(q, t, p) ELSE q
     /\ nCountRunning' = IF leaves THEN nCountRunning - 1 ELSE nCountRunning
     /\ dwState' = IF yields THEN [state EXCEPT ![t] = "RUNNING"] ELSE state
     /\ dwTimeout' = IF yields THEN dwTimeout \ {t} ELSE dwTimeout
     /\ bNeedResched' = FALSE
     /\ GetNextRun(rq',
                   IF rotates THEN [nTickCount EXCEPT ![t] = nRotate(t)]
                              ELSE nTickCount,
                   IF leaves \/ yields THEN [nBoost EXCEPT ![t] = 0]
                                       ELSE nBoost,
                   yields)

-----------------------------------------------------------------------------
(* Boot: the boot code, which becomes Idle, has created one thread and is  *)
(* about to call Schedule; the others exist and are still suspended.       *)

OnlyIdle ==
  [lpNextRun |-> [t \in Threads |-> IF t = Idle THEN Idle ELSE NoThread],
   lpPrevRun |-> [t \in Threads |-> IF t = Idle THEN Idle ELSE NoThread],
   lpThreadList |->
     [p \in Levels |-> IF p = IDLE_PRIORITY THEN Idle ELSE NoThread],
   dwPriorityBitmap |-> {IDLE_PRIORITY},
   uPriorityGroup |-> {Group(IDLE_PRIORITY)}]

Init ==
  /\ rq = Link(OnlyIdle, Starter, CreatedAt[Starter])
  /\ nCountRunning = 1
  /\ dwState = [t \in Threads |-> IF t \in {Idle, Starter} THEN "RUNNING"
                                                         ELSE "SUSPENDED"]
  /\ nSuspendCount = [t \in Threads |-> IF t \in {Idle, Starter} THEN 0 ELSE 1]
  /\ nCurPriority = CreatedAt
  /\ nTickCount = [t \in Threads |-> nRotate(t)]
  /\ nBoost = [t \in Threads |-> 0]
  /\ nLockScheCount = [t \in Threads |-> 0]
  /\ dwTimeout = {} /\ timer = {}
  /\ lpCurThread = Idle /\ bNeedResched = TRUE /\ inIsr = FALSE
  /\ pc = [t \in Threads |-> IF t = Idle THEN "sche" ELSE "run"]
  /\ lparg = [t \in Threads |-> NoThread]
  /\ fault = FALSE

-----------------------------------------------------------------------------
(* The thread that runs. *)

At(t, label) == t = lpCurThread /\ pc[t] = label /\ ~inIsr
Makes(t, call) == At(t, "run") /\ call \in Calls[t]

\* KL_Sleep(0) before it calls ScheduleTimeout.
SleepZero(t) ==
  /\ Makes(t, "sleep")
  /\ nTickCount' = [nTickCount EXCEPT ![t] = 0]
  /\ nBoost' = [nBoost EXCEPT ![t] = 0]
  /\ Goto(t, "zero")
  /\ UNCHANGED << rq, nCountRunning, dwState, nSuspendCount, nCurPriority,
                  nLockScheCount, dwTimeout, timer, lpCurThread,
                  bNeedResched, inIsr, lparg, fault >>

\* ScheduleTimeout up to its call of Schedule; a time of 0 is also what
\* KL_SwitchToThread passes.
ScheduleTimeout(t, time) ==
  /\ \/ Makes(t, "sleep")
     \/ At(t, "zero") /\ time = "zero"
  /\ dwState' = [dwState EXCEPT ![t] = IF time = "zero" THEN "INTERRUPTIBLE"
                                       ELSE "UNINTERRUPTIBLE"]
  /\ IF time = "infinite"
     THEN Goto(t, "sche") /\ UNCHANGED << dwTimeout, timer >>
     ELSE /\ Goto(t, "nap")
          /\ dwTimeout' = dwTimeout \cup {t}
          /\ timer' = timer \cup {t}
  /\ UNCHANGED << rq, nCountRunning, nSuspendCount, nCurPriority, nTickCount,
                  nBoost, nLockScheCount, lpCurThread, bNeedResched, inIsr,
                  lparg, fault >>

\* A call of Schedule with interrupts on before it.  Interrupt routines it
\* runs itself through ISR_Handler are those of an interrupt (inIsr) that
\* returns into this step.
CallSchedule(t) ==
  /\ t = lpCurThread /\ pc[t] \in {"sche", "nap"}
  /\ Schedule(dwState)
  /\ Goto(t, IF pc[t] = "nap" THEN "unarm" ELSE "run")
  /\ inIsr' = FALSE
  /\ UNCHANGED << nSuspendCount, nCurPriority, nLockScheCount, timer, lparg,
                  fault >>

DelTimer(t) ==
  /\ At(t, "unarm")
  /\ timer' = timer \ {t}
  /\ Goto(t, "run")
  /\ UNCHANGED << rq, nCountRunning, dwState, nSuspendCount, nCurPriority,
                  nTickCount, nBoost, nLockScheCount, dwTimeout, lpCurThread,
                  bNeedResched, inIsr, lparg, fault >>

\* The sleep of __DownSemphores without a timeout; KernelWait has the rest.
Wait(t) ==
  /\ Makes(t, "wait") \/ At(t, "wait")
  /\ Schedule([dwState EXCEPT ![t] = "UNINTERRUPTIBLE"])
  /\ Goto(t, "wait")
  /\ UNCHANGED << nSuspendCount, nCurPriority, nLockScheCount, timer, inIsr,
                  lparg, fault >>

EndWait(t) ==
  /\ At(t, "wait")
  /\ Goto(t, "run")
  /\ UNCHANGED << rq, nCountRunning, threadVars, lpCurThread, bNeedResched,
                  inIsr, lparg, fault >>

\* WakeupWaitQueue, for a thread u that waits.
Rouse(u) ==
  /\ pc[u] = "wait" /\ Asleep(u)
  /\ _WakeupThread(u, TRUE)
  /\ UNCHANGED << nSuspendCount, nCurPriority, nTickCount, nLockScheCount,
                  dwTimeout, timer, lpCurThread, pc, lparg, fault >>

Up(t, u) == Makes(t, "up") /\ Rouse(u) /\ UNCHANGED inIsr

SetThreadCurrentPriority(t, u, p) ==
  LET priority == [nCurPriority EXCEPT ![u] = p]
  IN /\ Makes(t, IF u = t THEN "priority" ELSE "manage")
     /\ p \in PriorityArgs[u]
     /\ IF ~Runnable(u)
        THEN /\ nCurPriority' = priority
             /\ UNCHANGED << rq, nCountRunning, dwState, nBoost, bNeedResched,
                             fault >>
        ELSE IF ~Linked(rq, u)
        THEN /\ fault' = TRUE
             /\ UNCHANGED << rq, nCountRunning, dwState, nBoost, bNeedResched,
                             nCurPriority >>
        ELSE /\ nCurPriority' = priority
             /\ nBoost' = [nBoost EXCEPT ![u] = 0]
             /\ AddToRunQueue(Unlink(rq, u, nCurPriority[u]),
                              nCountRunning - 1, priority, dwState, u)
             /\ UNCHANGED fault
     /\ UNCHANGED << nSuspendCount, nTickCount, nLockScheCount, dwTimeout,
                     timer, lpCurThread, inIsr, pc, lparg >>

\* DoSuspendThread of another thread.
DoSuspendThread(t, u) ==
  /\ Makes(t, "manage") /\ u \notin {t, Idle}
  /\ nSuspendCount[u] < MaxSuspend
  /\ nSuspendCount' = [nSuspendCount EXCEPT ![u] = @ + 1]
  /\ IF nSuspendCount[u] # 0 \/ ~Runnable(u)
     THEN UNCHANGED << rq, nCountRunning, dwState, nBoost, fault >>
     ELSE IF ~Linked(rq, u)
     THEN fault' = TRUE /\ UNCHANGED << rq, nCountRunning, dwState, nBoost >>
     ELSE /\ rq' = Unlink(rq, u, nCurPriority[u])
          /\ nCountRunning' = nCountRunning - 1
          /\ nBoost' = [nBoost EXCEPT ![u] = 0]
          /\ dwState' = [dwState EXCEPT ![u] = "SUSPENDED"]
          /\ UNCHANGED fault
  /\ UNCHANGED << nCurPriority, nTickCount, nLockScheCount, dwTimeout, timer,
                  lpCurThread, bNeedResched, inIsr, pc, lparg >>

\* DoSuspendThread of the caller, up to its call of Schedule.
SuspendSelf(t) ==
  /\ Makes(t, "suspend")
  /\ nSuspendCount[t] = 0
  /\ nSuspendCount' = [nSuspendCount EXCEPT ![t] = 1]
  /\ dwState' = [dwState EXCEPT ![t] = "SUSPENDED"]
  /\ Goto(t, "sche")
  /\ UNCHANGED << rq, nCountRunning, nCurPriority, nTickCount, nBoost,
                  nLockScheCount, dwTimeout, timer, lpCurThread, bNeedResched,
                  inIsr, lparg, fault >>

\* DoResumeThread, up to UnlockIRQRestore.
DoResumeThread(t, u) ==
  /\ Makes(t, "manage") /\ u \notin {t, Idle}
  /\ nSuspendCount[u] # 0
  /\ nSuspendCount' = [nSuspendCount EXCEPT ![u] = @ - 1]
  /\ IF dwState[u] = "SUSPENDED" /\ nSuspendCount[u] = 1
     THEN /\ dwState' = [dwState EXCEPT ![u] = "RUNNING"]
          /\ Goto(t, "add") /\ lparg' = [lparg EXCEPT ![t] = u]
     ELSE UNCHANGED << dwState, pc, lparg >>
  /\ UNCHANGED << rq, nCountRunning, nCurPriority, nTickCount, nBoost,
                  nLockScheCount, dwTimeout, timer, lpCurThread, bNeedResched,
                  inIsr, fault >>

\* The AddToRunQueue of DoResumeThread.
AddResumed(t) ==
  /\ At(t, "add")
  /\ AddToRunQueue(rq, nCountRunning, nCurPriority, dwState, lparg[t])
  /\ lparg' = [lparg EXCEPT ![t] = NoThread]
  /\ Goto(t, "run")
  /\ UNCHANGED << nSuspendCount, nCurPriority, nTickCount, nBoost,
                  nLockScheCount, dwTimeout, timer, lpCurThread, inIsr, fault >>

\* The end of a thread, up to its call of Schedule.
DeleteThread(t) ==
  /\ Makes(t, "exit")
  /\ dwState' = [dwState EXCEPT ![t] = "ZOMBIE"]
  /\ nTickCount' = [nTickCount EXCEPT ![Idle] = 1]
  /\ Goto(t, "sche")
  /\ UNCHANGED << rq, nCountRunning, nSuspendCount, nCurPriority, nBoost,
                  nLockScheCount, dwTimeout, timer, lpCurThread, bNeedResched,
                  inIsr, lparg, fault >>

\* One lock per thread is enough: only # 0 is tested.
LockSchedule(t) ==
  /\ Makes(t, "lock") /\ nLockScheCount[t] = 0
  /\ nLockScheCount' = [nLockScheCount EXCEPT ![t] = 1]
  /\ UNCHANGED << rq, nCountRunning, dwState, nSuspendCount, nCurPriority,
                  nTickCount, nBoost, dwTimeout, timer, lpCurThread,
                  bNeedResched, inIsr, pc, lparg, fault >>

UnlockSchedule(t) ==
  /\ At(t, "run") /\ nLockScheCount[t] # 0
  /\ nLockScheCount' = [nLockScheCount EXCEPT ![t] = 0]
  /\ Goto(t, "unlock")
  /\ UNCHANGED << rq, nCountRunning, dwState, nSuspendCount, nCurPriority,
                  nTickCount, nBoost, dwTimeout, timer, lpCurThread,
                  bNeedResched, inIsr, lparg, fault >>

\* The end of UNLOCK_SCHE, with interrupts on.
CheckResched(t) ==
  /\ At(t, "unlock")
  /\ Goto(t, IF bNeedResched THEN "sche" ELSE "run")
  /\ UNCHANGED << rq, nCountRunning, threadVars, lpCurThread, bNeedResched,
                  inIsr, lparg, fault >>

\* The loop of Idle.  SIGNAL_CLEAR, which an ending thread sends it, makes it
\* call Schedule; it may find the signal for as long as that thread is there.
IdleLoop ==
  /\ At(Idle, "run")
  /\ nTickCount' = [nTickCount EXCEPT ![Idle] = 0]
  /\ \/ UNCHANGED pc
     \/ (\E t \in Threads : dwState[t] = "ZOMBIE") /\ Goto(Idle, "sche")
  /\ UNCHANGED << rq, nCountRunning, dwState, nSuspendCount, nCurPriority,
                  nBoost, nLockScheCount, dwTimeout, timer, lpCurThread,
                  bNeedResched, inIsr, lparg, fault >>

-----------------------------------------------------------------------------
(* Interrupts. *)

\* Bug: a slice may be overdrawn.
Overdrawn(left) == left
SliceLeft(left) == IF left < 0 THEN 0 ELSE left

\* UpdateThreadTimes.
Tick(n) ==
  /\ inIsr' = TRUE
  /\ IF fPolicy[lpCurThread] = "FIFO"
     THEN UNCHANGED << nTickCount, bNeedResched >>
     ELSE LET left == nTickCount[lpCurThread] - n
          IN /\ nTickCount' = [nTickCount EXCEPT ![lpCurThread] =
                                 SliceLeft(left)]
             /\ bNeedResched' = (bNeedResched \/ left < 0)
  /\ UNCHANGED << rq, nCountRunning, dwState, nSuspendCount, nCurPriority,
                  nBoost, nLockScheCount, dwTimeout, timer, lpCurThread, pc,
                  lparg, fault >>

\* RunTimerList for one expired timer.
ThreadTimeout(u) ==
  /\ inIsr' = TRUE
  /\ u \in timer
  /\ timer' = timer \ {u}
  /\ dwTimeout' = dwTimeout \ {u}
  /\ IF Asleep(u)
     THEN _WakeupThread(u, FALSE)
     ELSE UNCHANGED << rq, nCountRunning, dwState, nBoost, bNeedResched >>
  /\ UNCHANGED << nSuspendCount, nCurPriority, nTickCount, nLockScheCount,
                  lpCurThread, pc, lparg, fault >>

\* A routine releases an object.
IsrUp(u) == inIsr' = TRUE /\ Rouse(u)

IsrReturn ==
  /\ inIsr /\ inIsr' = FALSE
  /\ IF bNeedResched /\ nLockScheCount[lpCurThread] = 0
     THEN Schedule(dwState)
     ELSE UNCHANGED << rq, nCountRunning, dwState, nTickCount, nBoost,
                       dwTimeout, lpCurThread, bNeedResched >>
  /\ UNCHANGED << nSuspendCount, nCurPriority, nLockScheCount, timer, pc,
                  lparg, fault >>

-----------------------------------------------------------------------------

Client(t) ==
  \/ SleepZero(t) \/ Wait(t) \/ SuspendSelf(t) \/ DeleteThread(t)
  \/ LockSchedule(t) \/ UnlockSchedule(t)
  \/ \E time \in {"zero", "finite", "infinite"} : ScheduleTimeout(t, time)
  \/ \E u \in Threads : \/ Up(t, u)
                         \/ DoSuspendThread(t, u) \/ DoResumeThread(t, u)
                         \/ \E p \in Levels : SetThreadCurrentPriority(t, u, p)

Inside(t) ==
  \/ CallSchedule(t) \/ DelTimer(t) \/ EndWait(t) \/ AddResumed(t)
  \/ CheckResched(t)

Interrupt ==
  \/ \E n \in 1 .. MaxLostTicks : Tick(n)
  \/ \E u \in Threads : ThreadTimeout(u) \/ IsrUp(u)

Next ==
  /\ ~fault
  /\ \/ \E t \in Threads : Client(t) \/ Inside(t)
     \/ IdleLoop \/ Interrupt \/ IsrReturn

Spec == Init /\ [][Next]_vars

\* The timer interrupt keeps coming and interrupts return.
Fairness ==
  /\ WF_vars(~fault /\ \E n \in 1 .. MaxLostTicks : Tick(n))
  /\ WF_vars(~fault /\ IsrReturn)

FairSpec == Spec /\ Fairness

-----------------------------------------------------------------------------
Rings == [lpNextRun : [Threads -> Threads \cup {NoThread}],
          lpPrevRun : [Threads -> Threads \cup {NoThread}],
          lpThreadList : [Levels -> Threads \cup {NoThread}],
          dwPriorityBitmap : SUBSET Levels,
          uPriorityGroup : SUBSET {Group(p) : p \in Levels}]

States == {"RUNNING", "INTERRUPTIBLE", "UNINTERRUPTIBLE", "SUSPENDED", "ZOMBIE"}
Labels == {"run", "zero", "sche", "nap", "unarm", "wait", "add", "unlock"}

TypeOK ==
  /\ rq \in Rings
  /\ nCountRunning \in Int
  /\ dwState \in [Threads -> States]
  /\ nSuspendCount \in [Threads -> 0 .. MaxSuspend]
  /\ nCurPriority \in [Threads -> Levels]
  /\ nTickCount \in [Threads -> Nat]
  /\ nBoost \in [Threads -> Nat]
  /\ nLockScheCount \in [Threads -> {0, 1}]
  /\ dwTimeout \subseteq Threads /\ timer \subseteq Threads
  /\ lpCurThread \in Threads
  /\ bNeedResched \in BOOLEAN /\ inIsr \in BOOLEAN /\ fault \in BOOLEAN
  /\ pc \in [Threads -> Labels]
  /\ lparg \in [Threads -> Threads \cup {NoThread}]

(* The rings q when the priorities of the threads are pri. *)

Ring(q, pri, p) == {t \in Threads : Linked(q, t) /\ pri[t] = p}

\* Both directions of a ring agree, and it holds threads of one priority.
LinksAgree(q, pri) ==
  \A t \in Threads :
    Linked(q, t) =>
      /\ q.lpNextRun[t] \in Ring(q, pri, pri[t])
      /\ q.lpPrevRun[t] \in Ring(q, pri, pri[t])
      /\ q.lpPrevRun[q.lpNextRun[t]] = t
      /\ q.lpNextRun[q.lpPrevRun[t]] = t

\* The list and the bitmaps know exactly the priorities that have threads.
ListsAgree(q, pri) ==
  \A p \in Levels :
    /\ Ring(q, pri, p) = {} => q.lpThreadList[p] = NoThread
    /\ Ring(q, pri, p) # {} => q.lpThreadList[p] \in Ring(q, pri, p)
    /\ p \in q.dwPriorityBitmap <=> Ring(q, pri, p) # {}

GroupsAgree(q) == q.uPriorityGroup = {Group(p) : p \in q.dwPriorityBitmap}

\* One walk comes past every thread of a priority.
OneRing(q, pri) ==
  \A S \in SUBSET Threads, p \in Levels :
    /\ S # {} /\ S \subseteq Ring(q, pri, p)
    /\ \A t \in S : q.lpNextRun[t] \in S
    => S = Ring(q, pri, p)

Whole(q, pri) ==
  LinksAgree(q, pri) /\ ListsAgree(q, pri) /\ GroupsAgree(q) /\ OneRing(q, pri)

-----------------------------------------------------------------------------
(* Properties. *)

InRings == {t \in Threads : Linked(rq, t)}

\* Rings, list and bitmaps fit each other and the priorities of the threads,
\* across insertion, removal, a change of priority and rotation.
RingsWhole == Whole(rq, nCurPriority)

BeingResumed(t) == \E m \in Threads : pc[m] = "add" /\ lparg[m] = t

\* A thread is in a ring exactly if it may run: it is THREAD_RUNNING and not
\* half way through DoResumeThread, or it still has the processor.
QueuedIffRunnable ==
  \A t \in Threads :
    Linked(rq, t) <=> \/ t = lpCurThread
                     \/ (dwState[t] = "RUNNING" /\ ~BeingResumed(t))

\* A thread more urgent than the one that runs is never left waiting for the
\* end of a time slice: a reschedule is already requested.
UrgentRequested ==
  ~bNeedResched => \A t \in InRings : nCurPriority[lpCurThread] <= nCurPriority[t]

\* A suspended thread has the processor only on its way to Schedule.
SuspendedOffQueue ==
  \A t \in InRings :
    nSuspendCount[t] > 0 =>
      t = lpCurThread /\ dwState[t] = "SUSPENDED" /\ pc[t] = "sche"

\* KL_GetCountRunning.
CountAgrees == nCountRunning = Cardinality(InRings \ {Idle})

\* The links RemoveFromRunQueue follows are there: //ASSERT( lpNext && lpPrev ).
NoNullLink == ~fault

\* They are missing only for a thread that is half way through DoResumeThread,
\* when somebody else suspends it or changes its priority.
FaultOnlyInRace ==
  [][~fault /\ fault' =>
       \E t, u \in Threads :
         /\ BeingResumed(u)
         /\ \/ DoSuspendThread(t, u)
            \/ \E p \in PriorityArgs[u] : SetThreadCurrentPriority(t, u, p)]_vars

\* MoveToEndOfRunQueue moves a thread to the end of its ring: a walk from the
\* head of the ring still comes past every thread.
AllOnWalk ==
  \A t \in InRings : t \in Walk(rq, rq.lpThreadList[nCurPriority[t]])

\* While the threads of the most urgent level stay the same, each of them gets
\* the processor again and again, whatever they do with it.  Idle is served
\* last among equals; FIFO threads and scheduler locks are excepted.
Top == {t \in InRings : \A u \in InRings : nCurPriority[t] <= nCurPriority[u]}

Turns ==
  \A S \in SUBSET Threads :
    <>[](Top = S) => \A t \in S \ {Idle} : []<>(lpCurThread = t)

\* The processor is only given to a most urgent runnable thread.
Ready == INSTANCE ReadySet WITH ready <- InRings, level <- nCurPriority,
                                running <- lpCurThread
ImplementsReadySet == Ready!Spec

-----------------------------------------------------------------------------
(* What the rings need of their users, and the inductive invariant. *)

\* A step that runs Schedule.
Reschedules ==
  \/ CallSchedule(lpCurThread) \/ Wait(lpCurThread)
  \/ IsrReturn /\ bNeedResched /\ nLockScheCount[lpCurThread] = 0

\* If Schedule is to rotate the running thread, its ring has no other.
RotatesAlone ==
  nTickCount[lpCurThread] # 0 /\ fPolicy[lpCurThread] = "ROTATION" =>
    rq.lpNextRun[lpCurThread] = lpCurThread

\* MoveToEndOfRunQueue only meets rings of one thread.
AloneWhenRotated == [][Reschedules => RotatesAlone]_vars

Places ==
  /\ dwState[lpCurThread] = "RUNNING" \/ pc[lpCurThread] \in {"sche", "nap"}
  /\ dwState[Idle] = "RUNNING" /\ pc[Idle] \in {"run", "sche"}
  /\ nLockScheCount[Idle] = 0

\* Nobody resumes a thread that somebody is resuming, and until the step of a
\* fault nobody suspends it.
Resumptions ==
  \A m \in Threads :
    pc[m] = "add" =>
      /\ lparg[m] \in Threads \ {Idle, lpCurThread}
      /\ dwState[lparg[m]] = "RUNNING"
      /\ fault \/ nSuspendCount[lparg[m]] = 0
      /\ \A n \in Threads : pc[n] = "add" /\ lparg[n] = lparg[m] => n = m

IInv ==
  /\ TypeOK /\ RingsWhole /\ QueuedIffRunnable /\ UrgentRequested
  /\ SuspendedOffQueue /\ CountAgrees /\ Places /\ Resumptions
=============================================================================
