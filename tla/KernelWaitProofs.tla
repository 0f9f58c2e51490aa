-------------------------- MODULE KernelWaitProofs --------------------------
(***************************************************************************)
(* Proofs about KernelWait for any number of threads and objects.          *)
(***************************************************************************)
EXTENDS KernelWait, FiniteSetTheorems, TLAPS

(***************************************************************************)
(* Facts about the arguments of a wait.                                    *)
(***************************************************************************)
LEMMA WaitFacts ==
  \A w \in WaitCalls :
    /\ w # NoWait
    /\ w.objs \in Seq(Objs) /\ w.all \in BOOLEAN /\ w.timed \in BOOLEAN
    /\ 1 \in DOMAIN w.objs
    /\ DOMAIN w.objs \subseteq Nat
    /\ TimedOut \notin DOMAIN w.objs
    /\ \A i \in DOMAIN w.objs : w.objs[i] \in Objs
<1> SUFFICES ASSUME NEW w \in WaitCalls
    PROVE  /\ w # NoWait
           /\ w.objs \in Seq(Objs) /\ w.all \in BOOLEAN /\ w.timed \in BOOLEAN
           /\ 1 \in DOMAIN w.objs
           /\ DOMAIN w.objs \subseteq Nat
           /\ TimedOut \notin DOMAIN w.objs
           /\ \A i \in DOMAIN w.objs : w.objs[i] \in Objs
    OBVIOUS
<1>1. w.objs \in Seq(Objs) /\ w.all \in BOOLEAN /\ w.timed \in BOOLEAN
    BY WaitCallsAssumption
<1>2. w.objs # << >>
    BY WaitCallsAssumption
<1>3. DOMAIN w.objs = 1 .. Len(w.objs) /\ Len(w.objs) \in Nat
    BY <1>1
<1>4. Len(w.objs) # 0
    BY <1>1, <1>2
<1> QED
    BY <1>1, <1>2, <1>3, <1>4 DEF NoWait, TimedOut

LEMMA NoWaitFacts == DOMAIN NoWait.objs = {} /\ NoWait \notin WaitCalls
<1>1. DOMAIN NoWait.objs = {}
    BY DEF NoWait
<1> QED
    BY <1>1, WaitFacts

LEMMA InitInv == Init => IInv
<1> SUFFICES ASSUME Init PROVE IInv
    OBVIOUS
<1>1. TypeOK
    BY NoWaitFacts, BoundsAssumption, KindsAssumption
    DEF Init, TypeOK, PCs, ReleaseSteps, nMaxCount, InitialCount, Objs, Counted,
        Events, TimedOut
<1>2. Links
    BY <1>1 DEF Init, Links, TypeOK
<1>3. Registered
    BY DEF Init, Registered
<1> QED
    BY <1>1, <1>2, <1>3 DEF IInv

-----------------------------------------------------------------------------
(* Steps that leave some of the state alone. *)

LEMMA SameObjs ==
  ASSUME NEW t, waits'[t] = waits[t]
  PROVE  \A o : InObjs(t, o)' <=> InObjs(t, o)
BY DEF InObjs

-----------------------------------------------------------------------------
LEMMA ThreadTimeoutInv ==
  ASSUME IInv, NEW t \in Threads, ThreadTimeout(t)
  PROVE  IInv'
<1> USE DEF IInv, ThreadTimeout
<1>1. TypeOK'
    BY DEF TypeOK, objVars
<1>2. Links'
    BY SameObjs DEF Links, TypeOK
<1>3. Registered'
    BY SameObjs DEF Registered, TypeOK, WakePending, objVars
<1> QED
    BY <1>1, <1>2, <1>3

LEMMA DelTimerInv ==
  ASSUME IInv, NEW t \in Threads, DelTimer(t)
  PROVE  IInv'
<1> USE DEF IInv, DelTimer
<1>1. TypeOK'
    BY DEF TypeOK, objVars
<1>2. Links'
    BY SameObjs DEF Links, TypeOK
<1>3. Registered'
    BY SameObjs DEF Registered, TypeOK, WakePending, objVars
<1> QED
    BY <1>1, <1>2, <1>3

LEMMA ISRSetEventInv ==
  ASSUME IInv, NEW e \in IsrEvents, ISRSetEvent(e)
  PROVE  IInv'
<1> USE DEF IInv, ISRSetEvent
<1>e. e \in Objs /\ e \notin Mutexes
    BY KindsAssumption DEF Objs, Counted, Events
<1>1. TypeOK'
    BY <1>e, KindsAssumption, BoundsAssumption DEF TypeOK, Raise, WakeupWaitQueue, nMaxCount
<1>2. Links'
    BY <1>e, SameObjs DEF Links, TypeOK, Raise, WakeupWaitQueue
<1>3. Registered'
    BY <1>e, SameObjs DEF Registered, TypeOK, WakePending, Raise, WakeupWaitQueue, Links
<1> QED
    BY <1>1, <1>2, <1>3

-----------------------------------------------------------------------------
(* Releases. *)

LEMMA UpInv ==
  ASSUME IInv, NEW t \in Threads, Up(t)
  PROVE  IInv'
<1> USE DEF IInv
<1> DEFINE o == lpsem[t]
<1>o. o \in Objs /\ waitQueue[o] \subseteq Threads /\ NoObj \notin Objs
    BY KindsAssumption DEF Up, TypeOK
<1>u. UNCHANGED << objVars, nWaiting, waitQueue, dwTimeout, timer, pulsed,
                   nsemRet, waits >>
    BY DEF Up
<1>a. /\ asleep' = asleep \ waitQueue[o]
      /\ lpRouser' \in [Threads -> Objs \cup {NoObj}]
      /\ \A u \in Threads :
           /\ lpRouser'[u] # lpRouser[u] => u \in asleep \cap waitQueue[o]
           /\ lpRouser'[u] \in {lpRouser[u], o}
    BY <1>o DEF Up, WakeupWaitQueue, TypeOK
<1>p. /\ pc[t] \in {"up", "pulseUp"}
      /\ pc' \in [Threads -> PCs] /\ lpsem' \in [Threads -> Objs \cup {NoObj}]
      /\ \/ pc'[t] = "idle" /\ lpsem'[t] = NoObj
         \/ pc[t] = "pulseUp" /\ pc'[t] = "reset" /\ lpsem'[t] = lpsem[t]
      /\ \A u \in Threads \ {t} : pc'[u] = pc[u] /\ lpsem'[u] = lpsem[u]
    <2>1. CASE pc[t] = "up"
        BY <2>1 DEF Up, Goto, TypeOK, PCs
    <2>2. CASE pc[t] = "pulseUp"
        BY <2>2 DEF Up, Goto, TypeOK, PCs
    <2> QED
        BY <2>1, <2>2 DEF Up
<1> HIDE DEF o
<1>1. TypeOK'
  <2>1. \A u \in Threads :
          /\ nsemRet'[u] \in DOMAIN waits'[u].objs \cup {TimedOut}
          /\ pc'[u] \in {"check", "park", "asleep", "unlink"} <=> waits'[u] \in WaitCalls
      BY <1>u, <1>p DEF TypeOK
  <2>2. \A u \in Threads :
          /\ pc'[u] \in {"up", "pulse", "pulseUp", "reset"} \cup ReleaseSteps
               <=> lpsem'[u] \in Objs
          /\ pc'[u] \in {"pulse", "pulseUp", "reset"} => lpsem'[u] \in Events
          /\ pc'[u] \in ReleaseSteps => lpsem'[u] \in Mutexes
      BY <1>o, <1>p DEF TypeOK, ReleaseSteps
  <2>3. asleep' \subseteq Threads
      BY <1>a DEF TypeOK
  <2> HIDE DEF IInv
  <2>4. TypeOK
      BY DEF IInv
  <2> QED
      BY <1>u, <1>a, <1>p, <2>1, <2>2, <2>3, <2>4 DEF TypeOK, objVars
<1>2. Links'
  <2>1. \A u \in Threads : lpRouser'[u] # NoObj =>
          u \notin asleep' /\ pc[u] = "asleep" /\ InObjs(u, lpRouser'[u])
      BY <1>o, <1>a DEF Links, TypeOK
  <2>2. \A u \in Threads : u # t => pc'[u] = pc[u]
      BY <1>p
  <2>3. pc[t] \notin {"asleep", "unlink"} /\ pc'[t] \notin {"asleep", "unlink"}
      BY <1>p
  <2>4. /\ \A u \in asleep' : pc'[u] = "asleep" /\ lpRouser'[u] = NoObj
        /\ \A u \in Threads : lpRouser'[u] # NoObj =>
             pc'[u] = "asleep" /\ InObjs(u, lpRouser'[u])
      BY <1>a, <2>1, <2>2, <2>3 DEF Links, TypeOK
  <2> QED
      BY ZenonT(60), <1>u, <1>a, <2>2, <2>3, <2>4, SameObjs DEF Links, TypeOK
<1>3. Registered'
    BY <1>o, <1>u, <1>a, <1>p, SameObjs
    DEF Registered, Links, TypeOK, WakePending, objVars, o
<1> QED
    BY <1>1, <1>2, <1>3, <1>u

(***************************************************************************)
(* What UpSemaphore does to the thread that calls it and to the object.    *)
(***************************************************************************)
UpEffect(t, o, up, next) ==
  /\ pc' \in [Threads -> PCs] /\ pc'[t] \in {up, next}
  /\ lpsem' \in [Threads -> Objs \cup {NoObj}]
  /\ lpsem'[t] = IF pc'[t] = "idle" THEN NoObj ELSE o
  /\ \A u \in Threads \ {t} : pc'[u] = pc[u] /\ lpsem'[u] = lpsem[u]
  /\ nWaiting' \in [Objs -> BOOLEAN]
  /\ \A p \in Objs : nWaiting[p] /\ ~nWaiting'[p] => p = o /\ pc'[t] = up
  /\ \A p \in Objs : nWaiting'[p] => nWaiting[p]
  /\ nCount' \in [Objs -> Nat] /\ \A p \in Objs : nCount'[p] <= nMaxCount(p)
  /\ \A p \in Objs : nCount'[p] > 0 /\ nWaiting'[p] => nCount'[p] = nCount[p]
  /\ lpOwner' \in [Mutexes -> Threads \cup {Creator, NoThread}]
  /\ nLockCount' \in [Mutexes -> Int]

LEMMA UpSemaphoreEffect ==
  ASSUME TypeOK, NEW t \in Threads, NEW o \in Objs,
         NEW up \in {"up", "pulseUp"}, NEW next \in {"idle", "reset"},
         UpSemaphore(t, o, up, next)
  PROVE  UpEffect(t, o, up, next)
<1> USE DEF TypeOK
<1>1. lpsem' = [lpsem EXCEPT ![t] = IF pc'[t] = "idle" THEN NoObj ELSE o]
    BY DEF UpSemaphore
<1>2. CASE Raise(o) /\ Goto(t, IF nWaiting[o] THEN up ELSE next)
  <2>1. /\ nWaiting' = [nWaiting EXCEPT ![o] = FALSE]
        /\ nCount' = [nCount EXCEPT ![o] = @ + 1] /\ nCount[o] + 1 <= nMaxCount(o)
        /\ lpOwner' \in [Mutexes -> Threads \cup {Creator, NoThread}]
        /\ nLockCount' \in [Mutexes -> Int]
      BY <1>2 DEF Raise
  <2>2. /\ pc' \in [Threads -> PCs] /\ pc'[t] \in {up, next}
        /\ \A u \in Threads \ {t} : pc'[u] = pc[u]
        /\ nWaiting[o] => pc'[t] = up
      BY <1>2 DEF Goto, PCs
  <2>3. /\ nWaiting' \in [Objs -> BOOLEAN] /\ ~nWaiting'[o]
        /\ \A p \in Objs \ {o} : nWaiting'[p] <=> nWaiting[p]
      BY <2>1
  <2>4. /\ nCount' \in [Objs -> Nat] /\ nCount'[o] <= nMaxCount(o)
        /\ \A p \in Objs \ {o} : nCount'[p] = nCount[p]
      BY <2>1
  <2>5. /\ \A p \in Objs : nWaiting[p] /\ ~nWaiting'[p] => p = o /\ pc'[t] = up
        /\ \A p \in Objs : nWaiting'[p] => nWaiting[p]
        /\ \A p \in Objs : nCount'[p] > 0 /\ nWaiting'[p] => nCount'[p] = nCount[p]
        /\ \A p \in Objs : nCount'[p] <= nMaxCount(p)
      BY <2>2, <2>3, <2>4
  <2>6. /\ lpsem' \in [Threads -> Objs \cup {NoObj}]
        /\ lpsem'[t] = IF pc'[t] = "idle" THEN NoObj ELSE o
        /\ \A u \in Threads \ {t} : lpsem'[u] = lpsem[u]
      BY <1>1
  <2> QED
      BY <2>1, <2>2, <2>3, <2>4, <2>5, <2>6 DEF UpEffect
<1>3. CASE Goto(t, next) /\ UNCHANGED << nCount, lpOwner, nLockCount, nWaiting >>
  <2>1. /\ pc' \in [Threads -> PCs] /\ pc'[t] = next
        /\ \A u \in Threads \ {t} : pc'[u] = pc[u]
      BY <1>3 DEF Goto, PCs
  <2>2. \A p \in Objs : nCount'[p] > 0 /\ nWaiting'[p] => nCount'[p] = nCount[p]
      BY <1>3
  <2>3. lpsem' \in [Threads -> Objs \cup {NoObj}]
      BY <1>1
  <2>4. /\ lpsem'[t] = IF pc'[t] = "idle" THEN NoObj ELSE o
        /\ \A u \in Threads \ {t} : lpsem'[u] = lpsem[u]
      BY <1>1
  <2>5. /\ nCount' \in [Objs -> Nat] /\ \A p \in Objs : nCount'[p] <= nMaxCount(p)
        /\ nWaiting' \in [Objs -> BOOLEAN]
        /\ lpOwner' \in [Mutexes -> Threads \cup {Creator, NoThread}]
        /\ nLockCount' \in [Mutexes -> Int]
      BY <1>3
  <2>6. \A p \in Objs : nWaiting'[p] <=> nWaiting[p]
      BY <1>3
  <2> HIDE DEF TypeOK
  <2> QED
      BY <2>1, <2>2, <2>3, <2>4, <2>5, <2>6 DEF UpEffect
<1> QED
    BY <1>2, <1>3 DEF UpSemaphore

LEMMA UpSemaphoreType ==
  ASSUME TypeOK, NEW t \in Threads, NEW o \in Objs,
         NEW up \in {"up", "pulseUp"}, NEW next \in {"idle", "reset"},
         pc[t] \in {"idle", "pulse", "release"},
         o \notin Events => up = "up" /\ next = "idle",
         UpSemaphore(t, o, up, next), acquired' \in [Threads -> [Counted -> Nat]],
         UNCHANGED << waitQueue, asleep, dwTimeout, timer, lpRouser, pulsed,
                      nsemRet, waits >>
  PROVE  TypeOK'
<1>1. UpEffect(t, o, up, next)
    BY UpSemaphoreEffect
<1>2. /\ asleep \subseteq Threads /\ nsemRet' = nsemRet /\ waits' = waits
      /\ o \in Objs /\ NoObj \notin Objs
    BY KindsAssumption DEF TypeOK
  <1>3. \A u \in Threads :
        /\ nsemRet'[u] \in DOMAIN waits'[u].objs \cup {TimedOut}
        /\ pc'[u] \in {"check", "park", "asleep", "unlink"} <=> waits'[u] \in WaitCalls
    BY <1>1, <1>2 DEF TypeOK, UpEffect
  <1>4. \A u \in Threads :
        /\ pc'[u] \in {"up", "pulse", "pulseUp", "reset"} \cup ReleaseSteps
             <=> lpsem'[u] \in Objs
        /\ pc'[u] \in {"pulse", "pulseUp", "reset"} => lpsem'[u] \in Events
        /\ pc'[u] \in ReleaseSteps => lpsem'[u] \in Mutexes
    BY <1>1, <1>2 DEF TypeOK, ReleaseSteps, UpEffect
<1> QED
    BY <1>1, <1>3, <1>4 DEF TypeOK, UpEffect

LEMMA UpSemaphoreInv ==
  ASSUME IInv, NEW t \in Threads, NEW o \in Objs,
         NEW up \in {"up", "pulseUp"}, NEW next \in {"idle", "reset"},
         pc[t] \in {"idle", "pulse", "release"},
         UpSemaphore(t, o, up, next),
         UNCHANGED << waitQueue, asleep, dwTimeout, timer, lpRouser, pulsed,
                      nsemRet, waits >>
  PROVE  Links' /\ Registered'
<1> USE DEF IInv
<1>e. UpEffect(t, o, up, next)
    BY UpSemaphoreEffect
<1>1. Links'
    BY ZenonT(60), <1>e, SameObjs DEF UpEffect, Links, TypeOK
<1>2. Registered'
  <2>1. ASSUME NEW p \in Objs, WakePending(p) PROVE WakePending(p)'
      BY <1>e, <2>1 DEF UpEffect, WakePending
  <2>2. ASSUME NEW p \in Objs, nWaiting[p], ~nWaiting'[p] PROVE WakePending(p)'
      BY <1>e, <2>2 DEF UpEffect, WakePending
  <2>3. \A p \in Objs : nCount'[p] > 0 => ~nWaiting'[p]
      BY <1>e DEF UpEffect, Registered
  <2> QED
      BY <2>1, <2>2, <2>3, SameObjs DEF Registered
<1> QED
    BY <1>1, <1>2

LEMMA SetEventInv ==
  ASSUME IInv, NEW t \in Threads, NEW o \in Events, SetEvent(t, o)
  PROVE  IInv'
<1> USE DEF SetEvent, Release
<1>o. o \in Objs /\ o \notin Mutexes
    BY KindsAssumption DEF Objs, Counted, Events
<1>1. TypeOK'
    BY <1>o, UpSemaphoreType DEF IInv, TypeOK
<1>2. Links' /\ Registered'
    BY <1>o, UpSemaphoreInv
<1> QED
    BY <1>1, <1>2 DEF IInv

LEMMA ResetEventInv ==
  ASSUME IInv, NEW t \in Threads, NEW o \in Events, ResetEvent(t, o)
  PROVE  IInv'
<1> USE DEF IInv, ResetEvent
<1>o. o \in Objs /\ o \notin Mutexes
    BY KindsAssumption DEF Objs, Counted, Events
<1>1. TypeOK'
    BY <1>o, BoundsAssumption DEF TypeOK, nMaxCount
<1>2. Links'
    BY SameObjs DEF Links, TypeOK
<1>3. Registered'
    BY <1>o, SameObjs DEF Registered, TypeOK, WakePending
<1> QED
    BY <1>1, <1>2, <1>3

LEMMA ReleaseMutexInv ==
  ASSUME IInv, NEW t \in Threads, NEW m \in Mutexes, ReleaseMutex(t, m)
  PROVE  IInv'
<1> USE DEF IInv, ReleaseMutex, Goto
<1>o. m \in Objs /\ NoObj \notin Objs
    BY KindsAssumption DEF Objs, Counted
<1>1. TypeOK'
    BY <1>o DEF TypeOK, PCs, ReleaseSteps, objVars
<1>2. Links'
    BY SameObjs DEF Links, TypeOK
<1>3. Registered'
    BY SameObjs DEF Registered, TypeOK, WakePending, objVars
<1> QED
    BY <1>1, <1>2, <1>3

LEMMA TestLockCountInv ==
  ASSUME IInv, NEW t \in Threads, TestLockCount(t)
  PROVE  IInv'
<1> USE DEF IInv, TestLockCount, Goto
<1>1. TypeOK'
    BY DEF TypeOK, PCs, ReleaseSteps, objVars
<1>2. Links'
    BY SameObjs DEF Links, TypeOK
<1>3. Registered'
    BY SameObjs DEF Registered, TypeOK, WakePending, objVars
<1> QED
    BY <1>1, <1>2, <1>3

LEMMA OneLessType ==
  ASSUME TypeOK, NEW t \in Threads, NEW m \in Counted, OneLess(t, m)
  PROVE  acquired' \in [Threads -> [Counted -> Nat]]
BY DEF OneLess, TypeOK

LEMMA CountDownInv ==
  ASSUME IInv, NEW t \in Threads, CountDown(t)
  PROVE  IInv'
<1> USE DEF IInv, CountDown, Goto
<1>o. lpsem[t] \in Mutexes /\ lpsem[t] \in Counted /\ NoObj \notin Objs
    BY KindsAssumption DEF TypeOK, ReleaseSteps, Objs, Counted
<1>a. acquired' \in [Threads -> [Counted -> Nat]]
    BY <1>o, OneLessType
<1>n. nLockCount' \in [Mutexes -> Int]
    BY <1>o DEF TypeOK
<1>1. TypeOK'
    BY <1>o, <1>a, <1>n DEF TypeOK, PCs, ReleaseSteps
<1>2. Links'
    BY SameObjs DEF Links, TypeOK
<1>3. Registered'
    BY SameObjs DEF Registered, TypeOK, WakePending
<1> QED
    BY <1>1, <1>2, <1>3

LEMMA FreeMutexInv ==
  ASSUME IInv, NEW t \in Threads, FreeMutex(t)
  PROVE  IInv'
<1> USE DEF FreeMutex, Release
<1>o. lpsem[t] \in Mutexes /\ lpsem[t] \in Counted /\ lpsem[t] \in Objs
    BY DEF IInv, TypeOK, ReleaseSteps, Objs, Counted
<1>a. acquired' \in [Threads -> [Counted -> Nat]]
    BY <1>o, OneLessType DEF IInv
<1>1. TypeOK'
    BY <1>o, <1>a, UpSemaphoreType DEF IInv
<1>2. Links' /\ Registered'
    BY <1>o, UpSemaphoreInv
<1> QED
    BY <1>1, <1>2 DEF IInv

LEMMA ReleaseSemaphoreInv ==
  ASSUME IInv, NEW t \in Threads, NEW s \in Semaphores, ReleaseSemaphore(t, s)
  PROVE  IInv'
<1> USE DEF ReleaseSemaphore, Release
<1>o. s \in Objs /\ s \in Counted /\ s \notin Mutexes
    BY KindsAssumption DEF Objs, Counted
<1>a. acquired' \in [Threads -> [Counted -> Nat]]
    BY <1>o DEF IInv, TypeOK
<1>1. TypeOK'
    BY <1>o, <1>a, UpSemaphoreType DEF IInv
<1>2. Links' /\ Registered'
    BY <1>o, UpSemaphoreInv
<1> QED
    BY <1>1, <1>2 DEF IInv

LEMMA PulseEventInv ==
  ASSUME IInv, NEW t \in Threads, NEW o \in Events, PulseEvent(t, o)
  PROVE  IInv'
<1> USE DEF IInv, PulseEvent, Goto
<1>o. o \in Objs
    BY DEF Objs
<1>1. TypeOK'
    BY <1>o, KindsAssumption DEF TypeOK, PCs, ReleaseSteps, objVars
<1>2. Links'
    BY SameObjs DEF Links, TypeOK
<1>3. Registered'
    BY SameObjs DEF Registered, TypeOK, WakePending, objVars
<1> QED
    BY <1>1, <1>2, <1>3

LEMMA PulseReleaseInv ==
  ASSUME IInv, NEW t \in Threads, PulseRelease(t)
  PROVE  IInv'
<1> USE DEF PulseRelease
<1>o. lpsem[t] \in Objs /\ lpsem[t] \in Events /\ lpsem[t] \notin Mutexes
    BY KindsAssumption DEF IInv, TypeOK, Objs, Counted
<1>1. TypeOK'
    BY <1>o, UpSemaphoreType DEF IInv, TypeOK
<1>2. Links' /\ Registered'
    BY <1>o, UpSemaphoreInv
<1> QED
    BY <1>1, <1>2 DEF IInv

LEMMA PulseResetInv ==
  ASSUME IInv, NEW t \in Threads, PulseReset(t)
  PROVE  IInv'
<1> USE DEF IInv, PulseReset, Goto
<1>1. TypeOK'
    BY KindsAssumption, BoundsAssumption DEF TypeOK, PCs, ReleaseSteps, nMaxCount
<1>2. Links'
    BY SameObjs DEF Links, TypeOK
<1>3. Registered'
  <2>1. \A o \in Objs : nCount'[o] \in {nCount[o], 0}
      BY DEF TypeOK
  <2>2. \A o \in Objs : WakePending(o) => WakePending(o)'
      BY DEF TypeOK, WakePending
  <2> QED
      BY <2>1, <2>2, SameObjs DEF Registered, TypeOK
<1> QED
    BY <1>1, <1>2, <1>3

-----------------------------------------------------------------------------
(* Waits. *)

LEMMA TakenSatisfies ==
  ASSUME NEW t, NEW w, NEW P, NEW i \in Taken(t, w, P)
  PROVE  i \in DOMAIN w.objs /\ Satisfies(t, w, i, P)
BY DEF Taken

LEMMA TakeType ==
  ASSUME TypeOK, NEW t \in Threads, NEW G, Take(t, G)
  PROVE  /\ nCount' \in [Objs -> Nat] /\ \A o \in Objs : nCount'[o] <= nCount[o]
         /\ lpOwner' \in [Mutexes -> Threads \cup {Creator, NoThread}]
         /\ nLockCount' \in [Mutexes -> Int]
         /\ acquired' \in [Threads -> [Counted -> Nat]]
<1> USE DEF TypeOK, Take
<1>1. nCount' \in [Objs -> Nat] /\ \A o \in Objs : nCount'[o] <= nCount[o]
    OBVIOUS
<1>2. lpOwner' \in [Mutexes -> Threads \cup {Creator, NoThread}]
    OBVIOUS
<1>3. nLockCount' \in [Mutexes -> Int]
    OBVIOUS
<1>4. acquired' \in [Threads -> [Counted -> Nat]]
    OBVIOUS
<1> QED
    BY <1>1, <1>2, <1>3, <1>4

LEMMA CheckCountInv ==
  ASSUME IInv, NEW t \in Threads, NEW w \in WaitCalls, NEW P \in SUBSET Threads,
         pc[t] \in {"idle", "check"}, nsemRet[t] \in DOMAIN w.objs \cup {TimedOut},
         CheckCount(t, w, P)
  PROVE  IInv'
<1> USE DEF IInv
<1>1. /\ nCount' \in [Objs -> Nat] /\ \A o \in Objs : nCount'[o] <= nCount[o]
      /\ lpOwner' \in [Mutexes -> Threads \cup {Creator, NoThread}]
      /\ nLockCount' \in [Mutexes -> Int]
      /\ acquired' \in [Threads -> [Counted -> Nat]]
  <2>1. CASE Taken(t, w, P) # {}
    <3>1. Take(t, {w.objs[i] : i \in Taken(t, w, P)})
        BY <2>1 DEF CheckCount
    <3> QED
        BY <3>1, TakeType
  <2>2. CASE Taken(t, w, P) = {}
    <3>1. UNCHANGED << nCount, nLockCount, lpOwner, acquired >>
        BY <2>2 DEF CheckCount
    <3> QED
        BY <3>1 DEF TypeOK
  <2> QED
      BY <2>1, <2>2
<1>2. /\ \/ pc'[t] = "idle" /\ waits'[t] = NoWait /\ nsemRet'[t] = TimedOut
         \/ pc'[t] = "park" /\ waits'[t] = w /\ nsemRet'[t] = nsemRet[t]
      /\ \A u \in Threads \ {t} :
           pc'[u] = pc[u] /\ waits'[u] = waits[u] /\ nsemRet'[u] = nsemRet[u]
      /\ pc' \in [Threads -> PCs] /\ nsemRet' \in [Threads -> Nat]
      /\ waits' \in [Threads -> WaitCalls \cup {NoWait}]
  <2>1. CASE /\ Goto(t, "idle") /\ waits' = [waits EXCEPT ![t] = NoWait]
             /\ nsemRet' = [nsemRet EXCEPT ![t] = TimedOut]
      BY <2>1 DEF Goto, TypeOK, PCs, TimedOut
  <2>2. CASE /\ Goto(t, "park") /\ waits' = [waits EXCEPT ![t] = w]
             /\ UNCHANGED nsemRet
      BY <2>2 DEF Goto, TypeOK, PCs
  <2> QED
      BY <2>1, <2>2 DEF CheckCount
<1>3. /\ pulsed' \subseteq Threads
      /\ UNCHANGED << nWaiting, waitQueue, asleep, dwTimeout, timer, lpRouser, lpsem >>
    BY DEF CheckCount, TypeOK
<1>4. TypeOK'
  <2>1. \A o \in Objs : nCount'[o] <= nMaxCount(o)
      BY <1>1, BoundsAssumption DEF TypeOK, nMaxCount
  <2>2. \A u \in Threads :
          /\ nsemRet'[u] \in DOMAIN waits'[u].objs \cup {TimedOut}
          /\ pc'[u] \in {"check", "park", "asleep", "unlink"} <=> waits'[u] \in WaitCalls
      BY <1>2, NoWaitFacts DEF TypeOK
  <2>3. \A u \in Threads :
          /\ pc'[u] \in {"up", "pulse", "pulseUp", "reset"} \cup ReleaseSteps
               <=> lpsem'[u] \in Objs
          /\ pc'[u] \in {"pulse", "pulseUp", "reset"} => lpsem'[u] \in Events
          /\ pc'[u] \in ReleaseSteps => lpsem'[u] \in Mutexes
      BY <1>2, <1>3 DEF TypeOK, ReleaseSteps
  <2> HIDE DEF IInv
  <2>4. TypeOK
      BY DEF IInv
  <2> QED
      BY <1>1, <1>2, <1>3, <2>1, <2>2, <2>3, <2>4 DEF TypeOK
<1>5. Links'
  <2>1. /\ t \notin asleep /\ t \notin timer /\ lpRouser[t] = NoObj
        /\ \A o \in Objs : t \notin waitQueue[o]
      BY DEF Links, TypeOK
  <2> QED
      BY ZenonT(60), <1>2, <1>3, <2>1, SameObjs DEF Links, TypeOK
<1>6. Registered'
  <2>1. \A o \in Objs : WakePending(o) => WakePending(o)'
      BY <1>2, <1>3 DEF WakePending
  <2>2. t \notin asleep
      BY DEF Links
  <2> QED
      BY <1>1, <1>2, <1>3, <2>1, <2>2, SameObjs DEF Registered, TypeOK
<1> QED
    BY <1>1, <1>4, <1>5, <1>6

LEMMA DownSemphoresInv ==
  ASSUME IInv, NEW t \in Threads, DownSemphores(t)
  PROVE  IInv'
<1>1. pc[t] = "idle" /\ nsemRet[t] = TimedOut
    BY NoWaitFacts DEF IInv, TypeOK, DownSemphores
<1>2. PICK w \in WaitCalls : CheckCount(t, w, pulsed \ {t})
    BY DEF DownSemphores
<1>3. /\ pc[t] \in {"idle", "check"} /\ nsemRet[t] \in DOMAIN w.objs \cup {TimedOut}
      /\ pulsed \ {t} \in SUBSET Threads
    BY <1>1 DEF IInv, TypeOK
<1> QED
    BY <1>2, <1>3, CheckCountInv

LEMMA RecheckInv ==
  ASSUME IInv, NEW t \in Threads, Recheck(t)
  PROVE  IInv'
<1>1. /\ waits[t] \in WaitCalls /\ nsemRet[t] \in DOMAIN waits[t].objs \cup {TimedOut}
      /\ pulsed \in SUBSET Threads
    BY DEF IInv, TypeOK, Recheck
<1> QED
    BY <1>1, CheckCountInv DEF Recheck

-----------------------------------------------------------------------------
LEMMA ParkFailsInv ==
  ASSUME IInv, NEW t \in Threads, ParkFails(t)
  PROVE  IInv'
<1> USE DEF IInv, ParkFails
<1>1. TypeOK'
  <2>1. /\ pc' \in [Threads -> PCs] /\ pc'[t] = "idle" /\ waits'[t] = NoWait
        /\ nsemRet' \in [Threads -> Nat] /\ nsemRet'[t] = TimedOut
        /\ waits' \in [Threads -> WaitCalls \cup {NoWait}]
        /\ \A u \in Threads \ {t} :
             pc'[u] = pc[u] /\ waits'[u] = waits[u] /\ nsemRet'[u] = nsemRet[u]
      BY DEF TypeOK, PCs, Goto, TimedOut
  <2>2. \A u \in Threads :
          /\ nsemRet'[u] \in DOMAIN waits'[u].objs \cup {TimedOut}
          /\ pc'[u] \in {"check", "park", "asleep", "unlink"} <=> waits'[u] \in WaitCalls
      BY <2>1, NoWaitFacts DEF TypeOK
  <2>3. \A u \in Threads :
          /\ pc'[u] \in {"up", "pulse", "pulseUp", "reset"} \cup ReleaseSteps
               <=> lpsem'[u] \in Objs
          /\ pc'[u] \in {"pulse", "pulseUp", "reset"} => lpsem'[u] \in Events
          /\ pc'[u] \in ReleaseSteps => lpsem'[u] \in Mutexes
      BY <2>1 DEF TypeOK, ReleaseSteps
  <2>4. UNCHANGED << objVars, nWaiting, waitQueue, asleep, dwTimeout, timer,
                     lpRouser, pulsed, lpsem >>
      OBVIOUS
  <2> HIDE DEF IInv, ParkFails
  <2>5. TypeOK
      BY DEF IInv
  <2> QED
      BY <2>1, <2>2, <2>3, <2>4, <2>5 DEF TypeOK, objVars
<1>2. Links'
    BY ZenonT(60), SameObjs DEF Links, TypeOK, Goto
<1>3. Registered'
  <2>1. \A o \in Objs : WakePending(o) => WakePending(o)'
      BY DEF WakePending, TypeOK, Goto
  <2> QED
      BY <2>1, SameObjs DEF Registered, Links, TypeOK, Goto, objVars
<1> QED
    BY <1>1, <1>2, <1>3

(***************************************************************************)
(* The end of a stretch of __DownSemphores: the wait is over, or the       *)
(* thread, with nothing signalled, has called Schedule().                  *)
(***************************************************************************)
Parked(t) == pc[t] \in {"park", "asleep"} /\ t \notin asleep

LEMMA EndWaitInv ==
  ASSUME IInv, NEW t \in Threads, Parked(t),
         NEW i \in DOMAIN waits[t].objs \cup {TimedOut}, EndWait(t, i),
         waitQueue' \in [Objs -> SUBSET Threads],
         \A o \in Objs : waitQueue'[o] \subseteq waitQueue[o] \cup {t}
                         /\ waitQueue[o] \subseteq waitQueue'[o]
                         /\ (t \in waitQueue'[o] => InObjs(t, o)),
         timer' \subseteq timer \cup {t}, timer \subseteq timer' \cup {t},
         lpRouser' = [lpRouser EXCEPT ![t] = NoObj],
         UNCHANGED << objVars, pulsed, waits, lpsem >>
  PROVE  IInv'
<1> USE DEF IInv, EndWait, Goto
<1>1. TypeOK'
    BY WaitFacts DEF TypeOK, PCs, ReleaseSteps, objVars, Parked, TimedOut
<1>2. Links'
    BY SameObjs DEF Links, TypeOK, Parked
<1>3. Registered'
  <2>1. \A o \in Objs : WakePending(o) => WakePending(o)'
      BY DEF WakePending, TypeOK, Parked
  <2> QED
      BY <2>1, SameObjs DEF Registered, Parked, objVars
<1> QED
    BY <1>1, <1>2, <1>3

LEMMA SleepInv ==
  ASSUME IInv, NEW t \in Threads, Parked(t), Signalled(t) = {},
         NEW armed \in [Threads -> BOOLEAN],
         \A u \in Threads \ {t} : armed[u] = dwTimeout[u],
         waits[t].timed => armed[t], Sleep(t, armed),
         waitQueue' \in [Objs -> SUBSET Threads],
         \A o \in Objs :
           waitQueue'[o] = IF InObjs(t, o) THEN waitQueue[o] \cup {t}
                           ELSE waitQueue[o],
         timer' \subseteq timer \cup {t}, timer \subseteq timer',
         waits[t].timed => t \in timer',
         lpRouser' = [lpRouser EXCEPT ![t] = NoObj],
         nsemRet' \in [Threads -> Nat], nsemRet'[t] \in DOMAIN waits[t].objs \cup {TimedOut},
         \A u \in Threads \ {t} : nsemRet'[u] = nsemRet[u],
         UNCHANGED << objVars, pulsed, waits, lpsem >>
  PROVE  IInv'
<1> USE DEF IInv
<1>s. /\ nWaiting' \in [Objs -> BOOLEAN]
      /\ \A o \in Objs : nWaiting'[o] <=> nWaiting[o] \/ InObjs(t, o)
      /\ pc' \in [Threads -> PCs] /\ pc'[t] = "asleep"
      /\ \A u \in Threads \ {t} : pc'[u] = pc[u]
    BY DEF Sleep, Goto, TypeOK, PCs
<1>d. /\ asleep' \subseteq Threads /\ dwTimeout' \in [Threads -> BOOLEAN]
      /\ \A u \in Threads \ {t} :
           (u \in asleep' <=> u \in asleep) /\ dwTimeout'[u] = dwTimeout[u]
      /\ t \in asleep' => dwTimeout'[t] = armed[t]
    <2>1. CASE asleep' = asleep \cup {t} /\ dwTimeout' = armed
        BY <2>1 DEF TypeOK
    <2>2. CASE asleep' = asleep /\ dwTimeout' = [armed EXCEPT ![t] = FALSE]
        BY <2>2 DEF TypeOK, Parked
    <2> QED
        BY <2>1, <2>2 DEF Sleep
<1>1. TypeOK'
  <2>1. /\ waits[t] \in WaitCalls
        /\ pc[t] \notin {"up", "pulse", "pulseUp", "reset"} \cup ReleaseSteps
      BY DEF TypeOK, ReleaseSteps, Parked
  <2>2. \A u \in Threads :
          /\ nsemRet'[u] \in DOMAIN waits'[u].objs \cup {TimedOut}
          /\ pc'[u] \in {"check", "park", "asleep", "unlink"} <=> waits'[u] \in WaitCalls
      BY <1>s, <2>1 DEF TypeOK
  <2>3. \A u \in Threads :
          /\ pc'[u] \in {"up", "pulse", "pulseUp", "reset"} \cup ReleaseSteps
               <=> lpsem'[u] \in Objs
          /\ pc'[u] \in {"pulse", "pulseUp", "reset"} => lpsem'[u] \in Events
          /\ pc'[u] \in ReleaseSteps => lpsem'[u] \in Mutexes
      BY <1>s, <2>1 DEF TypeOK, ReleaseSteps
  <2>4. UNCHANGED << objVars, pulsed, waits, lpsem >> /\ timer' \subseteq Threads
      BY DEF TypeOK
  <2>5. lpRouser' \in [Threads -> Objs \cup {NoObj}]
      BY DEF TypeOK
  <2> HIDE DEF IInv
  <2>6. TypeOK
      BY DEF IInv
  <2> QED
      BY <1>s, <1>d, <2>2, <2>3, <2>4, <2>5, <2>6 DEF TypeOK, objVars
<1>2. Links'
  <2>1. \A u \in asleep' :
          /\ pc'[u] = "asleep" /\ lpRouser'[u] = NoObj
          /\ waits'[u].timed => dwTimeout'[u]
      BY <1>s, <1>d DEF Links, TypeOK, Parked
  <2>2. /\ UNCHANGED waits
        /\ \A u, o : InObjs(u, o)' <=> InObjs(u, o)
      BY SameObjs
  <2>3. \A u \in Threads : pc'[u] = "asleep" =>
          \A o \in Objs : InObjs(u, o)' => u \in waitQueue'[o]
      BY <1>s, <2>2 DEF Links, TypeOK
  <2>4. ASSUME NEW u \in Threads, pc'[u] = "asleep", waits'[u].timed, dwTimeout'[u]
        PROVE  u \in timer'
    <3>1. CASE u = t
        BY <3>1, <2>2, <2>4
    <3>2. CASE u # t
        BY <3>2, <1>s, <1>d, <2>2, <2>4 DEF Links
    <3> QED
        BY <3>1, <3>2
  <2>5. ASSUME NEW u \in Threads, NEW o \in Objs, u \in waitQueue'[o]
        PROVE  pc'[u] \in {"asleep", "unlink"} /\ InObjs(u, o)'
    <3>1. u \in waitQueue[o] \/ (u = t /\ InObjs(t, o))
        BY <2>5
    <3>2. CASE u \in waitQueue[o]
        BY <3>2, <1>s, <2>2 DEF Links
    <3> QED
        BY <3>1, <3>2, <1>s, <2>2
  <2>6. \A u \in timer' : pc'[u] \in {"asleep", "unlink"}
      BY <1>s DEF Links, TypeOK
  <2>7. \A u \in Threads : lpRouser'[u] # NoObj =>
          pc'[u] = "asleep" /\ InObjs(u, lpRouser[u])'
      BY <1>s, <2>2 DEF Links, TypeOK
  <2> QED
      BY <2>1, <2>3, <2>4, <2>5, <2>6, <2>7 DEF Links
<1>3. Registered'
  <2>1. \A o \in Objs : WakePending(o) => WakePending(o)'
      BY <1>s DEF WakePending, TypeOK, Parked
  <2>2. \A o \in Objs : InObjs(t, o) => nCount[o] = 0
      BY DEF Signalled, InObjs
  <2>3. \A u \in asleep', o \in Objs : InObjs(u, o)' => nWaiting'[o] \/ WakePending(o)'
      BY ZenonT(60), <1>s, <1>d, <2>1, SameObjs DEF Registered, TypeOK
  <2>4. \A o \in Objs : nCount'[o] > 0 => ~nWaiting'[o]
      BY <1>s, <2>2 DEF Registered, objVars
  <2> QED
      BY <2>3, <2>4 DEF Registered
<1> QED
    BY <1>1, <1>2, <1>3

LEMMA ParkInv ==
  ASSUME IInv, NEW t \in Threads, Park(t)
  PROVE  IInv'
<1> USE DEF IInv
<1> DEFINE armed == [dwTimeout EXCEPT ![t] = waits[t].timed]
<1>t. /\ Parked(t) /\ waits[t] \in WaitCalls /\ lpRouser[t] = NoObj /\ t \notin timer
      /\ \A o \in Objs : t \notin waitQueue[o]
    BY DEF Park, Parked, Links, TypeOK
<1>w. /\ waitQueue' \in [Objs -> SUBSET Threads]
      /\ \A o \in Objs : waitQueue'[o] = IF InObjs(t, o) THEN waitQueue[o] \cup {t}
                                         ELSE waitQueue[o]
      /\ timer' = IF waits[t].timed THEN timer \cup {t} ELSE timer
      /\ lpRouser' = [lpRouser EXCEPT ![t] = NoObj]
      /\ UNCHANGED << objVars, pulsed, waits, lpsem >>
    BY <1>t DEF Park, objVars, TypeOK
<1>1. ASSUME NEW i \in FirstSignalled(t), EndWait(t, i)
      PROVE  IInv'
  <2>1. i \in DOMAIN waits[t].objs \cup {TimedOut}
      BY <1>1 DEF FirstSignalled, Signalled
  <2>2. \A o \in Objs : /\ waitQueue'[o] \subseteq waitQueue[o] \cup {t}
                        /\ waitQueue[o] \subseteq waitQueue'[o]
                        /\ (t \in waitQueue'[o] => InObjs(t, o))
      BY <1>t, <1>w
  <2> QED
      BY <1>1, <1>t, <1>w, <2>1, <2>2, EndWaitInv
<1>2. CASE /\ Signalled(t) = {} /\ Sleep(t, armed)
           /\ nsemRet' = [nsemRet EXCEPT ![t] = 1]
  <2>1. /\ armed \in [Threads -> BOOLEAN] /\ armed[t] = waits[t].timed
        /\ \A u \in Threads \ {t} : armed[u] = dwTimeout[u]
      BY <1>t, WaitFacts DEF TypeOK
  <2>2. /\ nsemRet' \in [Threads -> Nat]
        /\ nsemRet'[t] \in DOMAIN waits[t].objs \cup {TimedOut}
        /\ \A u \in Threads \ {t} : nsemRet'[u] = nsemRet[u]
      BY <1>2, <1>t, WaitFacts DEF TypeOK
  <2> HIDE DEF armed
  <2> QED
      BY <1>2, <1>t, <1>w, <2>1, <2>2, SleepInv
<1> QED
    BY <1>1, <1>2 DEF Park

LEMMA ResumeInv ==
  ASSUME IInv, NEW t \in Threads, Resume(t)
  PROVE  IInv'
<1> USE DEF IInv
<1>t. Parked(t) /\ waits[t] \in WaitCalls /\ pc[t] = "asleep"
    BY DEF Resume, Parked, TypeOK
<1>q. \A o \in Objs : t \in waitQueue[o] <=> InObjs(t, o)
    BY <1>t DEF Links
<1>w. /\ lpRouser' = [lpRouser EXCEPT ![t] = NoObj]
      /\ UNCHANGED << objVars, waitQueue, timer, pulsed, waits, lpsem >>
      /\ waitQueue' \in [Objs -> SUBSET Threads]
    BY DEF Resume, objVars, TypeOK
<1>1. ASSUME NEW i \in DOMAIN waits[t].objs \cup {TimedOut}, EndWait(t, i)
      PROVE  IInv'
  <2>1. \A o \in Objs : /\ waitQueue'[o] \subseteq waitQueue[o] \cup {t}
                        /\ waitQueue[o] \subseteq waitQueue'[o]
                        /\ (t \in waitQueue'[o] => InObjs(t, o))
      BY <1>q, <1>w
  <2> QED
      BY <1>1, <1>t, <1>w, <2>1, EndWaitInv
<1>2. CASE /\ Signalled(t) = {} /\ ~(waits[t].timed /\ ~dwTimeout[t])
           /\ Sleep(t, dwTimeout) /\ UNCHANGED nsemRet
  <2>1. /\ dwTimeout \in [Threads -> BOOLEAN]
        /\ waits[t].timed => dwTimeout[t]
        /\ waits[t].timed => t \in timer
        /\ nsemRet' \in [Threads -> Nat]
        /\ nsemRet'[t] \in DOMAIN waits[t].objs \cup {TimedOut}
      BY <1>2, <1>t DEF TypeOK, Links
  <2>2. \A o \in Objs : waitQueue'[o] = IF InObjs(t, o) THEN waitQueue[o] \cup {t}
                                        ELSE waitQueue[o]
      BY <1>q, <1>w
  <2> QED
      BY <1>2, <1>t, <1>w, <2>1, <2>2, SleepInv
<1>3. Roused(t) \subseteq DOMAIN waits[t].objs /\ FirstSignalled(t) \subseteq DOMAIN waits[t].objs
    BY DEF Roused, FirstSignalled, Signalled
<1> QED
    BY <1>1, <1>2, <1>3 DEF Resume

LEMMA RemoveWaitQueueInv ==
  ASSUME IInv, NEW t \in Threads, RemoveWaitQueue(t)
  PROVE  IInv'
<1> USE DEF IInv
<1>t. /\ pc[t] = "unlink" /\ t \notin timer /\ t \notin asleep /\ lpRouser[t] = NoObj
      /\ waits[t] \in WaitCalls
      /\ UNCHANGED << objVars, nWaiting, asleep, dwTimeout, timer, lpRouser,
                      pulsed, lpsem >>
    BY DEF RemoveWaitQueue, Links, TypeOK
<1>i. PICK i \in Linked(t) :
        /\ waitQueue' = [waitQueue EXCEPT ![waits[t].objs[i]] = @ \ {t}]
        /\ IF Linked(t) # {i}
           THEN UNCHANGED << pc, waits, nsemRet >>
           ELSE IF MustRecheck(t)
           THEN Goto(t, "check") /\ UNCHANGED << waits, nsemRet >>
           ELSE /\ Goto(t, "idle")
                /\ waits' = [waits EXCEPT ![t] = NoWait]
                /\ nsemRet' = [nsemRet EXCEPT ![t] = TimedOut]
    BY DEF RemoveWaitQueue
<1>o. waits[t].objs[i] \in Objs
    BY <1>t, WaitFacts DEF Linked
<1>p. /\ pc' \in [Threads -> PCs] /\ waits' \in [Threads -> WaitCalls \cup {NoWait}]
      /\ nsemRet' \in [Threads -> Nat]
      /\ \A u \in Threads \ {t} :
           pc'[u] = pc[u] /\ waits'[u] = waits[u] /\ nsemRet'[u] = nsemRet[u]
      /\ \/ pc'[t] = "unlink" /\ waits'[t] = waits[t] /\ nsemRet'[t] = nsemRet[t]
         \/ /\ pc'[t] = "check" /\ waits'[t] = waits[t] /\ nsemRet'[t] = nsemRet[t]
            /\ Linked(t) = {i}
         \/ /\ pc'[t] = "idle" /\ waits'[t] = NoWait /\ nsemRet'[t] = TimedOut
            /\ Linked(t) = {i}
  <2>1. CASE UNCHANGED << pc, waits, nsemRet >>
      BY <2>1, <1>t DEF TypeOK
  <2>2. CASE Linked(t) = {i} /\ Goto(t, "check") /\ UNCHANGED << waits, nsemRet >>
      BY <2>2 DEF TypeOK, Goto, PCs
  <2>3. CASE /\ Linked(t) = {i} /\ Goto(t, "idle")
             /\ waits' = [waits EXCEPT ![t] = NoWait]
             /\ nsemRet' = [nsemRet EXCEPT ![t] = TimedOut]
      BY <2>3 DEF TypeOK, Goto, PCs, TimedOut
  <2> QED
      BY <2>1, <2>2, <2>3, <1>i
<1>q. /\ waitQueue' \in [Objs -> SUBSET Threads]
      /\ \A o \in Objs : /\ waitQueue'[o] \subseteq waitQueue[o]
                         /\ waitQueue[o] \subseteq waitQueue'[o] \cup {t}
      /\ pc'[t] # "unlink" => \A o \in Objs : t \notin waitQueue'[o]
  <2>1. /\ waitQueue' \in [Objs -> SUBSET Threads]
        /\ \A o \in Objs : /\ waitQueue'[o] \subseteq waitQueue[o]
                           /\ waitQueue[o] \subseteq waitQueue'[o] \cup {t}
        /\ t \notin waitQueue'[waits[t].objs[i]]
      BY <1>i, <1>o DEF TypeOK
  <2>2. \A o \in Objs : t \in waitQueue[o] => \E j \in Linked(t) : waits[t].objs[j] = o
      BY DEF Links, InObjs, Linked
  <2> QED
      BY <2>1, <2>2, <1>p
<1>1. TypeOK'
  <2>1. \A u \in Threads :
          /\ nsemRet'[u] \in DOMAIN waits'[u].objs \cup {TimedOut}
          /\ pc'[u] \in {"check", "park", "asleep", "unlink"} <=> waits'[u] \in WaitCalls
      BY <1>t, <1>p, NoWaitFacts DEF TypeOK
  <2>2. \A u \in Threads :
          /\ pc'[u] \in {"up", "pulse", "pulseUp", "reset"} \cup ReleaseSteps
               <=> lpsem'[u] \in Objs
          /\ pc'[u] \in {"pulse", "pulseUp", "reset"} => lpsem'[u] \in Events
          /\ pc'[u] \in ReleaseSteps => lpsem'[u] \in Mutexes
      BY <1>t, <1>p DEF TypeOK, ReleaseSteps
  <2>3. UNCHANGED << objVars, nWaiting, asleep, dwTimeout, timer, lpRouser, pulsed,
                     lpsem >>
      BY <1>t DEF TypeOK
  <2> HIDE DEF IInv
  <2>4. TypeOK
      BY DEF IInv
  <2> QED
      BY <1>p, <1>q, <2>1, <2>2, <2>3, <2>4 DEF TypeOK, objVars
<1>2. Links'
  <2>1. \A u \in Threads \ {t} : \A o \in Objs : u \in waitQueue'[o] <=> u \in waitQueue[o]
      BY <1>q
  <2>2. \A u \in Threads : \A o : waits'[u] = waits[u] => (InObjs(u, o)' <=> InObjs(u, o))
      BY SameObjs
  <2>3. \A u \in Threads : pc'[u] = "asleep" =>
          u # t /\ pc[u] = "asleep" /\ waits'[u] = waits[u]
      BY <1>p
  <2>4. \A u \in Threads : pc'[u] = "asleep" =>
          /\ \A o \in Objs : InObjs(u, o)' => u \in waitQueue'[o]
          /\ waits'[u].timed /\ dwTimeout'[u] => u \in timer'
      BY <1>t, <2>1, <2>2, <2>3 DEF Links
  <2>5. \A u \in Threads, o \in Objs : u \in waitQueue'[o] =>
          pc'[u] \in {"asleep", "unlink"} /\ InObjs(u, o)'
      BY <1>p, <1>q, <2>1, <2>2 DEF Links
  <2>6. \A u \in Threads \ {t} : u \in asleep \/ u \in timer \/ lpRouser[u] # NoObj =>
          pc'[u] = pc[u] /\ waits'[u] = waits[u]
      BY <1>p
  <2> QED
      BY <1>t, <2>2, <2>4, <2>5, <2>6 DEF Links, TypeOK
<1>3. Registered'
  <2>1. \A o \in Objs : WakePending(o) => WakePending(o)'
      BY <1>t, <1>p DEF WakePending
  <2> QED
      BY <1>t, <1>p, <2>1, SameObjs DEF Registered, TypeOK, objVars
<1> QED
    BY <1>1, <1>2, <1>3, <1>t

-----------------------------------------------------------------------------
LEMMA NextInv == IInv /\ [Next]_vars => IInv'
<1> SUFFICES ASSUME IInv, [Next]_vars PROVE IInv'
    OBVIOUS
<1>1. ASSUME NEW t \in Threads, Call(t) PROVE IInv'
    BY <1>1, DownSemphoresInv, SetEventInv, ResetEventInv, PulseEventInv,
       ReleaseMutexInv, ReleaseSemaphoreInv DEF Call
<1>2. ASSUME NEW t \in Threads, Inside(t) PROVE IInv'
    BY <1>2, RecheckInv, ParkInv, ParkFailsInv, ResumeInv, DelTimerInv,
       RemoveWaitQueueInv, UpInv, PulseReleaseInv, PulseResetInv,
       TestLockCountInv, CountDownInv, FreeMutexInv DEF Inside
<1>3. ASSUME NEW t \in Threads, ThreadTimeout(t) PROVE IInv'
    BY <1>3, ThreadTimeoutInv
<1>4. ASSUME NEW e \in IsrEvents, ISRSetEvent(e) PROVE IInv'
    BY <1>4, ISRSetEventInv
<1>5. CASE UNCHANGED vars
    BY <1>5, SameObjs DEF IInv, vars, TypeOK, Links, Registered, WakePending
<1> QED
    BY <1>1, <1>2, <1>3, <1>4, <1>5 DEF Next

(***************************************************************************)
(* The inductive invariant holds in every state of the protocol.           *)
(***************************************************************************)
THEOREM Invariance == Spec => []IInv
<1> QED
    BY InitInv, NextInv, PTL DEF Spec

(***************************************************************************)
(* Every variable keeps its type: counts stay between 0 and their maximum, *)
(* nsemRet indexes the current wait, and lpsem is set exactly inside a     *)
(* release.                                                                *)
(***************************************************************************)
THEOREM TypeCorrect == Spec => []TypeOK
<1>1. IInv => TypeOK
    BY DEF IInv
<1> QED
    BY <1>1, Invariance, PTL

(***************************************************************************)
(* No wake-up is lost, for any number of threads and objects: whoever      *)
(* sleeps in __DownSemphores is counted as a waiter or about to be woken,  *)
(* and a sleeper on a signalled object is about to be woken.               *)
(***************************************************************************)
THEOREM WakeupsNotLost == Spec => []NoLostWakeup
<1>1. IInv => NoLostWakeup
  <2> SUFFICES ASSUME IInv, NEW t \in asleep, NEW i \in DOMAIN waits[t].objs
      PROVE  /\ t \in waitQueue[waits[t].objs[i]]
             /\ nWaiting[waits[t].objs[i]] \/ WakePending(waits[t].objs[i])
             /\ nCount[waits[t].objs[i]] > 0 => WakePending(waits[t].objs[i])
      BY DEF NoLostWakeup
  <2>1. t \in Threads /\ pc[t] = "asleep" /\ waits[t] \in WaitCalls
      BY DEF IInv, TypeOK, Links
  <2>2. waits[t].objs[i] \in Objs /\ InObjs(t, waits[t].objs[i])
      BY <2>1, WaitFacts DEF InObjs
  <2> QED
      BY <2>1, <2>2 DEF IInv, Links, Registered
<1> QED
    BY <1>1, Invariance, PTL

(***************************************************************************)
(* The kernel's own assertions hold: ASSERT( nWaiting == 0 ) where         *)
(* UpSemaphore finds the object at its maximum, and the membership of      *)
(* lpRouser in the wait that __DownSemphores asserts.                      *)
(***************************************************************************)
THEOREM AssertionsHold == Spec => []KernelAsserts
<1>1. IInv => KernelAsserts
    BY DEF IInv, Links, Registered, KernelAsserts, TypeOK
<1> QED
    BY <1>1, Invariance, PTL

(***************************************************************************)
(* A timed sleeper always has its timer linked and running, and a thread   *)
(* back in its caller has left neither timer nor node behind.              *)
(***************************************************************************)
THEOREM TimersStayArmed == Spec => []TimersArmed
<1>1. IInv => TimersArmed
    BY DEF IInv, Links, TimersArmed, TypeOK
<1> QED
    BY <1>1, Invariance, PTL

-----------------------------------------------------------------------------
(* Mutexes.  The creator of a mutex is recorded as the owner of it while it *)
(* is free (semaphor.c:148-152), so that all of this needs a creator that   *)
(* releases only what it has; MutexFreed.cfg has one that does not.         *)

LEMMA MutexFacts ==
  ASSUME IInv, NEW m \in Mutexes
  PROVE  /\ m \in Objs /\ m \in Counted
         /\ m \notin Events /\ m \notin ManualEvents /\ m \notin Semaphores
         /\ nCount[m] \in {0, 1} /\ nMaxCount(m) = 1
         /\ lpOwner[m] \in Threads \cup {Creator, NoThread} /\ nLockCount[m] \in Int
         /\ \A t \in Threads : acquired[t][m] \in Nat
         /\ NoThread \notin Threads /\ NoThread # Creator
<1>1. /\ m \in Objs /\ m \in Counted /\ NoThread \notin Threads /\ NoThread # Creator
      /\ m \notin Events /\ m \notin ManualEvents /\ m \notin Semaphores
    BY KindsAssumption DEF Objs, Counted, Events
<1>2. nMaxCount(m) = 1
    BY <1>1 DEF nMaxCount
<1>3. nCount[m] \in Nat /\ nCount[m] <= nMaxCount(m)
    BY <1>1 DEF IInv, TypeOK
<1>4. nCount[m] \in {0, 1}
    BY <1>2, <1>3
<1>5. /\ lpOwner[m] \in Threads \cup {Creator, NoThread} /\ nLockCount[m] \in Int
      /\ \A t \in Threads : acquired[t][m] \in Nat
    BY <1>1 DEF IInv, TypeOK
<1> QED
    BY <1>1, <1>2, <1>4, <1>5

LEMMA HolderFacts ==
  ASSUME MutexInv, NEW t \in Threads, NEW m \in Mutexes, acquired[t][m] > 0
  PROVE  /\ nCount[m] = 0 /\ lpOwner[m] = t /\ nLockCount[m] = acquired[t][m]
         /\ \A u \in Threads \ {t} : acquired[u][m] = 0
<1>1. /\ \A u \in Threads : acquired[u][m] =
           IF nCount[m] = 0 /\ lpOwner[m] = u THEN nLockCount[m] ELSE 0
      /\ ~(0 > 0)
    BY DEF MutexInv, MutexAccounts
<1>2. nCount[m] = 0 /\ lpOwner[m] = t
    BY <1>1
<1> QED
    BY <1>1, <1>2

LEMMA MutexInit == Init => MutexInv
<1> SUFFICES ASSUME Init PROVE MutexInv
    OBVIOUS
<1>1. OwnedLocked
    BY DEF Init, OwnedLocked
<1>2. MutexAccounts
  <2>1. \A m \in Mutexes, t \in Threads : acquired[t][m] = 0
      BY DEF Init, Counted
  <2>2. \A m \in Mutexes : nCount[m] = 0 => lpOwner[m] = NoThread
      BY DEF Init
  <2> QED
      BY <2>1, <2>2, KindsAssumption DEF MutexAccounts
<1>3. StillHeld
    BY DEF Init, StillHeld, ReleaseSteps
<1> QED
    BY <1>1, <1>2, <1>3 DEF MutexInv

\* Steps that have nothing to do with a mutex.
LEMMA MutexesAlone ==
  ASSUME IInv, MutexInv,
         \A m \in Mutexes : /\ nCount'[m] = nCount[m] /\ lpOwner'[m] = lpOwner[m]
                            /\ nLockCount'[m] = nLockCount[m],
         \A m \in Mutexes, t \in Threads : acquired'[t][m] = acquired[t][m],
         \A t \in Threads : pc'[t] \in ReleaseSteps =>
           pc'[t] = pc[t] /\ lpsem'[t] = lpsem[t]
  PROVE  MutexInv'
<1>1. OwnedLocked' /\ MutexAccounts'
    BY DEF MutexInv, OwnedLocked, MutexAccounts
<1>2. ASSUME NEW t \in Threads, pc'[t] \in ReleaseSteps
      PROVE  /\ pc'[t] = pc[t] /\ pc[t] \in ReleaseSteps
             /\ acquired'[t][lpsem'[t]] = acquired[t][lpsem[t]]
  <2>1. lpsem'[t] = lpsem[t] /\ lpsem[t] \in Mutexes /\ pc'[t] = pc[t]
      BY <1>2 DEF IInv, TypeOK
  <2> QED
      BY <1>2, <2>1
<1>3. StillHeld'
    BY <1>2 DEF MutexInv, StillHeld, ReleaseSteps
<1> QED
    BY <1>1, <1>3 DEF MutexInv

LEMMA TakeMutexes ==
  ASSUME IInv, MutexInv, NEW t \in Threads, NEW G,
         \A o \in G : o \in ManualEvents \/ nCount[o] > 0 \/ Recursive(t, o),
         Take(t, G)
  PROVE  OwnedLocked' /\ MutexAccounts'
<1>1. \A m \in Mutexes :
        /\ m \in G => nLockCount'[m] = IF nCount[m] > 0 THEN 1 ELSE nLockCount[m] + 1
        /\ m \notin G => nLockCount'[m] = nLockCount[m]
        /\ lpOwner'[m] = IF m \in G THEN t ELSE lpOwner[m]
    BY DEF Take
<1>2. \A m \in Mutexes : nCount'[m] = IF m \in G THEN 0 ELSE nCount[m]
    BY MutexFacts DEF Take
<1>3. \A m \in Mutexes : \A u \in Threads :
        acquired'[u][m] = IF u = t /\ m \in G THEN acquired[u][m] + 1 ELSE acquired[u][m]
  <2>1. \A m \in Mutexes : m \in Counted
      BY MutexFacts
  <2> QED
      BY <2>1 DEF Take, IInv, TypeOK
<1>4. \A m \in Mutexes : m \in G /\ nCount[m] = 0 => lpOwner[m] = t
    BY MutexFacts DEF Recursive
<1>5. OwnedLocked'
  <2> SUFFICES ASSUME NEW m \in Mutexes
      PROVE  /\ lpOwner'[m] # NoThread => nLockCount'[m] > 0
             /\ lpOwner'[m] \notin {Creator, NoThread} => nCount'[m] = 0
      BY DEF OwnedLocked
  <2>1. CASE m \in G
    <3>1. nCount[m] = 0 => nLockCount[m] > 0
        BY <1>4, <2>1, MutexFacts DEF MutexInv, OwnedLocked
    <3> QED
        BY <1>1, <1>2, <2>1, <3>1, MutexFacts
  <2>2. CASE m \notin G
      BY <1>1, <1>2, <2>2 DEF MutexInv, OwnedLocked
  <2> QED
      BY <2>1, <2>2
<1>6. MutexAccounts'
  <2> SUFFICES ASSUME NEW m \in Mutexes, NEW u \in Threads
      PROVE  acquired'[u][m] =
               IF nCount'[m] = 0 /\ lpOwner'[m] = u THEN nLockCount'[m] ELSE 0
      BY DEF MutexAccounts
  <2>0. acquired[u][m] = IF nCount[m] = 0 /\ lpOwner[m] = u THEN nLockCount[m] ELSE 0
      BY DEF MutexInv, MutexAccounts
  <2>1. CASE m \notin G
      BY <1>1, <1>2, <1>3, <2>0, <2>1
  <2>2. CASE m \in G /\ nCount[m] = 0
      BY <1>1, <1>2, <1>3, <1>4, <2>0, <2>2
  <2>3. CASE m \in G /\ nCount[m] = 1
      BY <1>1, <1>2, <1>3, <2>0, <2>3
  <2> QED
      BY <2>1, <2>2, <2>3, MutexFacts
<1> QED
    BY <1>5, <1>6

LEMMA CheckCountMutexes ==
  ASSUME IInv, MutexInv, NEW t \in Threads, NEW w, NEW P, CheckCount(t, w, P)
  PROVE  MutexInv'
<1>p. /\ pc'[t] \notin ReleaseSteps /\ lpsem' = lpsem
      /\ \A u \in Threads \ {t} : pc'[u] = pc[u]
    BY DEF CheckCount, Goto, IInv, TypeOK, ReleaseSteps
<1>1. CASE Taken(t, w, P) # {}
  <2> DEFINE G == {w.objs[i] : i \in Taken(t, w, P)}
  <2>1. Take(t, G)
      BY <1>1 DEF CheckCount
  <2>2. \A o \in G : o \in ManualEvents \/ nCount[o] > 0 \/ Recursive(t, o)
      BY TakenSatisfies DEF Satisfies, IsPulsed
  <2> HIDE DEF G
  <2>3. OwnedLocked' /\ MutexAccounts'
      BY <2>1, <2>2, TakeMutexes
  <2>4. \A u \in Threads \ {t} : acquired'[u] = acquired[u]
      BY <2>1 DEF Take, IInv, TypeOK
  <2>5. StillHeld'
      BY <1>p, <2>4 DEF MutexInv, StillHeld, ReleaseSteps
  <2> QED
      BY <2>3, <2>5 DEF MutexInv
<1>2. CASE Taken(t, w, P) = {}
    BY <1>2, <1>p, MutexesAlone DEF CheckCount
<1> QED
    BY <1>1, <1>2

LEMMA ReleaseMutexHeld ==
  ASSUME Creator \notin Careless, IInv, MutexInv, NEW t \in Threads,
         NEW m \in Mutexes, ReleaseMutex(t, m)
  PROVE  MutexInv'
<1>1. acquired[t][m] > 0
  <2>1. CASE t \in Careless
    <3>1. t # Creator /\ t # NoThread /\ lpOwner[m] = t
        BY <2>1, MutexFacts DEF ReleaseMutex
    <3>2. nCount[m] = 0 /\ nLockCount[m] > 0
        BY <3>1 DEF MutexInv, OwnedLocked
    <3> QED
        BY <3>1, <3>2 DEF MutexInv, MutexAccounts
  <2> QED
      BY <2>1 DEF ReleaseMutex
<1>2. OwnedLocked' /\ MutexAccounts'
    BY DEF ReleaseMutex, objVars, MutexInv, OwnedLocked, MutexAccounts
<1>3. /\ pc'[t] = "owner" /\ lpsem'[t] = m
      /\ \A u \in Threads \ {t} : pc'[u] = pc[u] /\ lpsem'[u] = lpsem[u]
      /\ acquired' = acquired
    BY DEF ReleaseMutex, Goto, objVars, IInv, TypeOK
<1>4. StillHeld'
    BY <1>1, <1>3 DEF MutexInv, StillHeld
<1> QED
    BY <1>2, <1>4 DEF MutexInv

LEMMA TestLockCountHeld ==
  ASSUME IInv, MutexInv, NEW t \in Threads, TestLockCount(t)
  PROVE  MutexInv'
<1>1. lpsem[t] \in Mutexes /\ acquired[t][lpsem[t]] > 0
    BY DEF TestLockCount, MutexInv, StillHeld, IInv, TypeOK, ReleaseSteps
<1>2. nLockCount[lpsem[t]] = acquired[t][lpsem[t]] /\ acquired[t][lpsem[t]] \in Nat
    BY <1>1, HolderFacts, MutexFacts
<1>3. OwnedLocked' /\ MutexAccounts'
    BY DEF TestLockCount, objVars, MutexInv, OwnedLocked, MutexAccounts
<1>4. /\ pc'[t] = IF acquired[t][lpsem[t]] = 1 THEN "release" ELSE "inner"
      /\ \A u \in Threads \ {t} : pc'[u] = pc[u]
      /\ acquired' = acquired /\ lpsem' = lpsem
    BY <1>2 DEF TestLockCount, Goto, objVars, IInv, TypeOK
<1>5. StillHeld'
    BY <1>1, <1>2, <1>4 DEF MutexInv, StillHeld
<1> QED
    BY <1>3, <1>5 DEF MutexInv

LEMMA CountDownHeld ==
  ASSUME IInv, MutexInv, NEW t \in Threads, CountDown(t)
  PROVE  MutexInv'
<1> DEFINE m == lpsem[t]
<1>1. m \in Mutexes /\ m \in Counted /\ acquired[t][m] > 1 /\ acquired[t][m] \in Nat
  <2>1. m \in Mutexes /\ acquired[t][m] > 1
      BY DEF CountDown, MutexInv, StillHeld, IInv, TypeOK, ReleaseSteps
  <2> QED
      BY <2>1, MutexFacts
<1>2. /\ nCount[m] = 0 /\ lpOwner[m] = t /\ nLockCount[m] = acquired[t][m]
      /\ \A u \in Threads \ {t} : acquired[u][m] = 0
    BY <1>1, HolderFacts
<1>3. /\ acquired'[t][m] = acquired[t][m] - 1
      /\ \A n \in Mutexes \ {m} : acquired'[t][n] = acquired[t][n]
      /\ \A u \in Threads \ {t} : acquired'[u] = acquired[u]
    BY <1>1 DEF CountDown, OneLess, IInv, TypeOK
<1>4. /\ nLockCount'[m] = nLockCount[m] - 1
      /\ \A n \in Mutexes \ {m} : nLockCount'[n] = nLockCount[n]
      /\ nCount' = nCount /\ lpOwner' = lpOwner
    BY <1>1 DEF CountDown, IInv, TypeOK
<1>5. /\ pc'[t] = "idle"
      /\ \A u \in Threads \ {t} : pc'[u] = pc[u] /\ lpsem'[u] = lpsem[u]
    BY DEF CountDown, Goto, IInv, TypeOK
<1> HIDE DEF m
<1>6. OwnedLocked'
  <2> SUFFICES ASSUME NEW n \in Mutexes
      PROVE  /\ lpOwner'[n] # NoThread => nLockCount'[n] > 0
             /\ lpOwner'[n] \notin {Creator, NoThread} => nCount'[n] = 0
      BY DEF OwnedLocked
  <2>1. CASE n = m
      BY <1>1, <1>2, <1>4, <2>1
  <2>2. CASE n # m
      BY <1>4, <2>2 DEF MutexInv, OwnedLocked
  <2> QED
      BY <2>1, <2>2
<1>7. MutexAccounts'
  <2> SUFFICES ASSUME NEW n \in Mutexes, NEW u \in Threads
      PROVE  acquired'[u][n] =
               IF nCount'[n] = 0 /\ lpOwner'[n] = u THEN nLockCount'[n] ELSE 0
      BY DEF MutexAccounts
  <2>1. CASE n = m
      BY <1>1, <1>2, <1>3, <1>4, <2>1
  <2>2. CASE n # m
    <3>1. acquired'[u][n] = acquired[u][n]
        BY <1>3, <2>2
    <3> QED
        BY <1>4, <2>2, <3>1 DEF MutexInv, MutexAccounts
  <2> QED
      BY <2>1, <2>2
<1>8. StillHeld'
    BY <1>3, <1>5 DEF MutexInv, StillHeld, ReleaseSteps
<1> QED
    BY <1>6, <1>7, <1>8 DEF MutexInv

LEMMA FreeMutexHeld ==
  ASSUME IInv, MutexInv, NEW t \in Threads, FreeMutex(t)
  PROVE  MutexInv'
<1> DEFINE m == lpsem[t]
<1>1. m \in Mutexes /\ acquired[t][m] = 1
    BY DEF FreeMutex, MutexInv, StillHeld, IInv, TypeOK, ReleaseSteps
<1>2. /\ nCount[m] = 0 /\ lpOwner[m] = t
      /\ \A u \in Threads \ {t} : acquired[u][m] = 0
      /\ m \in Objs /\ m \in Counted /\ nMaxCount(m) = 1
    BY <1>1, HolderFacts, MutexFacts
<1>3. /\ acquired'[t][m] = 0
      /\ \A n \in Mutexes \ {m} : acquired'[t][n] = acquired[t][n]
      /\ \A u \in Threads \ {t} : acquired'[u] = acquired[u]
    BY <1>1, <1>2 DEF FreeMutex, OneLess, IInv, TypeOK
<1>4. Raise(m)
    BY <1>2 DEF FreeMutex, Release, UpSemaphore
<1>5. /\ nCount'[m] = 1 /\ lpOwner'[m] = NoThread
      /\ \A n \in Mutexes \ {m} : /\ nCount'[n] = nCount[n] /\ lpOwner'[n] = lpOwner[n]
                                   /\ nLockCount'[n] = nLockCount[n]
    BY <1>1, <1>2, <1>4, MutexFacts DEF Raise, IInv, TypeOK
<1>6. /\ pc'[t] \in {"up", "idle"}
      /\ \A u \in Threads \ {t} : pc'[u] = pc[u] /\ lpsem'[u] = lpsem[u]
    BY <1>2, UpSemaphoreEffect DEF FreeMutex, Release, UpEffect, IInv
<1> HIDE DEF m
<1>7. OwnedLocked'
    BY <1>5 DEF MutexInv, OwnedLocked
<1>8. MutexAccounts'
  <2> SUFFICES ASSUME NEW n \in Mutexes, NEW u \in Threads
      PROVE  acquired'[u][n] =
               IF nCount'[n] = 0 /\ lpOwner'[n] = u THEN nLockCount'[n] ELSE 0
      BY DEF MutexAccounts
  <2>1. CASE n = m
      BY <1>2, <1>3, <1>5, <2>1
  <2>2. CASE n # m
    <3>1. acquired'[u][n] = acquired[u][n]
        BY <1>3, <2>2
    <3> QED
        BY <1>5, <2>2, <3>1 DEF MutexInv, MutexAccounts
  <2> QED
      BY <2>1, <2>2
<1>9. StillHeld'
    BY <1>3, <1>6 DEF MutexInv, StillHeld, ReleaseSteps
<1> QED
    BY <1>7, <1>8, <1>9 DEF MutexInv

LEMMA MutexNext ==
  ASSUME Creator \notin Careless, IInv, MutexInv, [Next]_vars
  PROVE  MutexInv'
<1>m. \A m \in Mutexes : m \in Objs /\ m \in Counted /\ m \notin Events
                         /\ m \notin Semaphores
    BY MutexFacts
<1>1. ASSUME NEW t \in Threads, DownSemphores(t) \/ Recheck(t) PROVE MutexInv'
    BY <1>1, CheckCountMutexes DEF DownSemphores, Recheck
\* A step that leaves the mutexes alone, and whose thread ends outside
\* KL_ReleaseMutex.
<1>2. ASSUME NEW t \in Threads,
             \A m \in Mutexes : nCount'[m] = nCount[m],
             \A m \in Mutexes, u \in Threads : acquired'[u][m] = acquired[u][m],
             \A m \in Mutexes :
               lpOwner'[m] = lpOwner[m] /\ nLockCount'[m] = nLockCount[m],
             pc'[t] \notin ReleaseSteps,
             \A u \in Threads \ {t} : pc'[u] = pc[u] /\ lpsem'[u] = lpsem[u]
      PROVE  MutexInv'
    BY <1>2, MutexesAlone
<1>3. ASSUME NEW t \in Threads, NEW o \in Objs, o \notin Mutexes,
             NEW up \in {"up", "pulseUp"}, NEW next \in {"idle", "reset"},
             UpSemaphore(t, o, up, next),
             \A m \in Mutexes, u \in Threads : acquired'[u][m] = acquired[u][m]
      PROVE  MutexInv'
  <2>1. /\ \A m \in Mutexes : /\ nCount'[m] = nCount[m] /\ lpOwner'[m] = lpOwner[m]
                              /\ nLockCount'[m] = nLockCount[m]
      BY <1>m, <1>3 DEF UpSemaphore, Raise, IInv, TypeOK
  <2>2. /\ pc'[t] \notin ReleaseSteps
        /\ \A u \in Threads \ {t} : pc'[u] = pc[u] /\ lpsem'[u] = lpsem[u]
      BY <1>3, UpSemaphoreEffect DEF UpEffect, ReleaseSteps, IInv
  <2> QED
      BY <1>2, <1>3, <2>1, <2>2
<1>e. \A o \in Events : o \in Objs /\ o \notin Mutexes
    BY <1>m DEF Objs
<1>4. ASSUME NEW t \in Threads, Call(t) PROVE MutexInv'
  <2>1. ASSUME NEW o \in Events, SetEvent(t, o) PROVE MutexInv'
      BY <1>3, <1>e, <2>1 DEF SetEvent, Release
  <2>2. ASSUME NEW o \in Events, ResetEvent(t, o) PROVE MutexInv'
    <3>1. \A m \in Mutexes : nCount'[m] = nCount[m]
        BY <1>m, <1>e, <2>2 DEF ResetEvent, IInv, TypeOK
    <3> QED
        BY <1>2, <2>2, <3>1 DEF ResetEvent, ReleaseSteps
  <2>3. ASSUME NEW o \in Events, PulseEvent(t, o) PROVE MutexInv'
    <3>1. /\ pc'[t] = "pulse"
          /\ \A u \in Threads \ {t} : pc'[u] = pc[u] /\ lpsem'[u] = lpsem[u]
        BY <2>3 DEF PulseEvent, Goto, IInv, TypeOK
    <3> QED
        BY <1>2, <2>3, <3>1 DEF PulseEvent, objVars, ReleaseSteps
  <2>4. ASSUME NEW s \in Semaphores, ReleaseSemaphore(t, s) PROVE MutexInv'
    <3>1. s \in Objs /\ s \notin Mutexes
        BY <1>m DEF Objs, Counted
    <3>2. \A m \in Mutexes, u \in Threads : acquired'[u][m] = acquired[u][m]
        BY <1>m, <2>4 DEF ReleaseSemaphore, IInv, TypeOK
    <3> QED
        BY <1>3, <2>4, <3>1, <3>2 DEF ReleaseSemaphore, Release
  <2> QED
      BY <1>1, <1>4, <2>1, <2>2, <2>3, <2>4, ReleaseMutexHeld DEF Call
<1>5. ASSUME NEW t \in Threads, Inside(t) PROVE MutexInv'
  <2>1. CASE Park(t) \/ ParkFails(t) \/ Resume(t) \/ DelTimer(t) \/ RemoveWaitQueue(t)
               \/ Up(t)
    <3>1. /\ UNCHANGED objVars
          /\ pc'[t] \notin ReleaseSteps
          /\ \A u \in Threads \ {t} : pc'[u] = pc[u] /\ lpsem'[u] = lpsem[u]
      <4>1. CASE Park(t)
          BY <4>1 DEF Park, EndWait, Sleep, Goto, objVars, IInv, TypeOK, ReleaseSteps
      <4>2. CASE Resume(t)
          BY <4>2 DEF Resume, EndWait, Sleep, Goto, objVars, IInv, TypeOK, ReleaseSteps
      <4>3. CASE ParkFails(t) \/ DelTimer(t)
          BY <4>3 DEF ParkFails, DelTimer, Goto, objVars, IInv, TypeOK, ReleaseSteps
      <4>4. CASE RemoveWaitQueue(t)
        <5>1. /\ UNCHANGED << objVars, lpsem >> /\ pc[t] = "unlink"
              /\ pc' = pc \/ Goto(t, "check") \/ Goto(t, "idle")
            BY <4>4 DEF RemoveWaitQueue
        <5> QED
            BY <5>1 DEF Goto, IInv, TypeOK, ReleaseSteps
      <4>5. CASE Up(t)
          BY <4>5 DEF Up, Goto, IInv, TypeOK, ReleaseSteps
      <4> QED
          BY <2>1, <4>1, <4>2, <4>3, <4>4, <4>5
    <3> QED
        BY <1>2, <3>1 DEF objVars
  <2>2. CASE PulseRelease(t)
    <3>1. lpsem[t] \in Events
        BY <2>2 DEF PulseRelease, IInv, TypeOK
    <3> QED
        BY <1>3, <1>e, <2>2, <3>1 DEF PulseRelease
  <2>3. CASE PulseReset(t)
    <3>1. lpsem[t] \in Events
        BY <2>3 DEF PulseReset, IInv, TypeOK
    <3>2. \A m \in Mutexes : nCount'[m] = nCount[m]
        BY <1>m, <1>e, <2>3, <3>1 DEF PulseReset, IInv, TypeOK
    <3>3. /\ pc'[t] = "idle"
          /\ \A u \in Threads \ {t} : pc'[u] = pc[u] /\ lpsem'[u] = lpsem[u]
        BY <2>3 DEF PulseReset, Goto, IInv, TypeOK
    <3> QED
        BY <1>2, <2>3, <3>2, <3>3 DEF PulseReset, ReleaseSteps
  <2> QED
      BY <1>1, <1>5, <2>1, <2>2, <2>3, TestLockCountHeld, CountDownHeld, FreeMutexHeld
      DEF Inside
<1>6. ASSUME NEW t \in Threads, ThreadTimeout(t) PROVE MutexInv'
    BY <1>6, MutexesAlone DEF ThreadTimeout, objVars
<1>7. ASSUME NEW e \in IsrEvents, ISRSetEvent(e) PROVE MutexInv'
  <2>1. e \in Events
      BY KindsAssumption
  <2>2. \A m \in Mutexes : /\ nCount'[m] = nCount[m] /\ lpOwner'[m] = lpOwner[m]
                           /\ nLockCount'[m] = nLockCount[m]
      BY <1>m, <1>7, <2>1 DEF ISRSetEvent, Raise, IInv, TypeOK
  <2> QED
      BY <1>7, <2>2, MutexesAlone DEF ISRSetEvent
<1>8. CASE UNCHANGED vars
    BY <1>8, MutexesAlone DEF vars
<1> QED
    BY <1>4, <1>5, <1>6, <1>7, <1>8 DEF Next

LEMMA MutexInvariance ==
  ASSUME Creator \notin Careless
  PROVE  Spec => [](IInv /\ MutexInv)
<1>1. Init => IInv /\ MutexInv
    BY InitInv, MutexInit
<1>2. (IInv /\ MutexInv) /\ [Next]_vars => (IInv /\ MutexInv)'
    BY NextInv, MutexNext
<1> QED
    BY <1>1, <1>2, PTL DEF Spec

(***************************************************************************)
(* nLockCount and lpOwner say exactly who took each mutex, how often, for  *)
(* any number of threads and whatever they call, although KL_ReleaseMutex  *)
(* tests both with interrupts on.  The premise: the creator of the mutexes *)
(* does not release one that it does not have.                             *)
(***************************************************************************)
THEOREM AccountsAgree ==
  ASSUME Creator \notin Careless
  PROVE  Spec => []MutexAccounts
<1>1. MutexInv => MutexAccounts
    BY DEF MutexInv
<1> QED
    BY <1>1, MutexInvariance, PTL

(***************************************************************************)
(* Under the same premise a mutex is its owner's until the owner releases  *)
(* it, as the header of KL_ReleaseMutex says.                              *)
(***************************************************************************)
THEOREM OwnersKeep ==
  ASSUME Creator \notin Careless
  PROVE  Spec => []OwnerKeeps
<1>1. MutexInv => OwnerKeeps
    BY HolderFacts DEF OwnerKeeps
<1> QED
    BY <1>1, MutexInvariance, PTL

-----------------------------------------------------------------------------
(* The units of a semaphore.  They are counted as a set, so that a wait     *)
(* adds an element and a release takes one away.                            *)

Conserved ==
  \A s \in Semaphores :
    /\ IsFiniteSet(UnitsHeld(s))
    /\ nCount[s] + Cardinality(UnitsHeld(s)) = MaxCount

LEMMA UnitHeld ==
  ASSUME NEW s, NEW u
  PROVE  u \in UnitsHeld(s) <=>
           \E t \in Threads : \E k \in 1 .. acquired[t][s] : u = << t, k >>
BY DEF UnitsHeld

LEMMA SemaphoreFacts ==
  ASSUME IInv, NEW s \in Semaphores
  PROVE  /\ s \in Objs /\ s \in Counted /\ s \notin Mutexes
         /\ s \notin ManualEvents /\ s \notin Events
         /\ nMaxCount(s) = MaxCount /\ MaxCount \in Nat
         /\ nCount \in [Objs -> Nat] /\ nCount[s] \in Nat
         /\ acquired \in [Threads -> [Counted -> Nat]]
         /\ \A t \in Threads : acquired[t][s] \in Nat
<1>1. /\ s \in Objs /\ s \in Counted /\ s \notin Mutexes
      /\ s \notin ManualEvents /\ s \notin Events
    BY KindsAssumption DEF Objs, Counted, Events
<1>2. nMaxCount(s) = MaxCount /\ MaxCount \in Nat
    BY BoundsAssumption DEF nMaxCount
<1> QED
    BY <1>1, <1>2 DEF IInv, TypeOK

\* One unit more for t, one less in the kernel.
LEMMA UnitTaken ==
  ASSUME IInv, NEW s \in Semaphores, NEW t \in Threads,
         IsFiniteSet(UnitsHeld(s)),
         nCount[s] + Cardinality(UnitsHeld(s)) = MaxCount,
         nCount'[s] = nCount[s] - 1,
         acquired'[t][s] = acquired[t][s] + 1,
         \A u \in Threads \ {t} : acquired'[u][s] = acquired[u][s]
  PROVE  /\ IsFiniteSet(UnitsHeld(s))'
         /\ nCount'[s] + Cardinality(UnitsHeld(s))' = MaxCount
<1> DEFINE k == acquired[t][s] + 1
<1>1. /\ nCount[s] \in Nat /\ MaxCount \in Nat
      /\ \A u \in Threads : acquired[u][s] \in Nat
    BY SemaphoreFacts
<1>2. << t, k >> \notin UnitsHeld(s)
    BY <1>1, UnitHeld
<1>3. UnitsHeld(s)' = UnitsHeld(s) \cup {<< t, k >>}
  <2>1. \A u : u \in UnitsHeld(s)' <=>
          \E v \in Threads : \E j \in 1 .. acquired'[v][s] : u = << v, j >>
      BY DEF UnitsHeld
  <2>2. 1 .. acquired'[t][s] = (1 .. acquired[t][s]) \cup {k}
      BY <1>1
  <2> QED
      BY <2>1, <2>2, UnitHeld
<1>4. /\ IsFiniteSet(UnitsHeld(s))'
      /\ Cardinality(UnitsHeld(s))' = Cardinality(UnitsHeld(s)) + 1
    BY <1>2, <1>3, FS_AddElement
<1>5. Cardinality(UnitsHeld(s)) \in Nat
    BY FS_CardinalityType
<1> QED
    BY <1>1, <1>4, <1>5

\* A unit that a client holds is not in the kernel, so there is room for it.
LEMMA UnitGivenBack ==
  ASSUME IInv, Conserved, NEW t \in Threads, NEW s \in Semaphores,
         ReleaseSemaphore(t, s)
  PROVE  /\ nCount' = [nCount EXCEPT ![s] = @ + 1]
         /\ IsFiniteSet(UnitsHeld(s))'
         /\ nCount'[s] + Cardinality(UnitsHeld(s))' = MaxCount
<1> DEFINE k == acquired[t][s]
<1>1. /\ nCount \in [Objs -> Nat] /\ nCount[s] \in Nat
      /\ MaxCount \in Nat /\ nMaxCount(s) = MaxCount
      /\ s \in Objs /\ s \in Counted
      /\ acquired \in [Threads -> [Counted -> Nat]]
      /\ \A u \in Threads : acquired[u][s] \in Nat
    BY SemaphoreFacts
<1>2. /\ IsFiniteSet(UnitsHeld(s)) /\ Cardinality(UnitsHeld(s)) \in Nat
      /\ nCount[s] + Cardinality(UnitsHeld(s)) = MaxCount
    BY FS_CardinalityType DEF Conserved
<1>3. k > 0 /\ acquired' = [acquired EXCEPT ![t][s] = @ - 1]
    BY DEF ReleaseSemaphore
<1>4. << t, k >> \in UnitsHeld(s)
    BY <1>1, <1>3, UnitHeld
<1>5. Cardinality(UnitsHeld(s)) # 0
    BY <1>2, <1>4, FS_EmptySet
<1>6. nCount' = [nCount EXCEPT ![s] = @ + 1]
  <2>1. ~ (nCount[s] + 1 > nMaxCount(s))
      BY <1>1, <1>2, <1>5
  <2> QED
      BY <2>1 DEF ReleaseSemaphore, Release, UpSemaphore, Raise
<1>7. UnitsHeld(s)' = UnitsHeld(s) \ {<< t, k >>}
  <2>1. \A u : u \in UnitsHeld(s)' <=>
          \E v \in Threads : \E j \in 1 .. acquired'[v][s] : u = << v, j >>
      BY DEF UnitsHeld
  <2>2. /\ acquired'[t][s] = k - 1
        /\ \A v \in Threads \ {t} : acquired'[v][s] = acquired[v][s]
      BY <1>1, <1>3
  <2>3. 1 .. acquired'[t][s] = (1 .. acquired[t][s]) \ {k}
    <3>1. \A n \in Nat : 1 .. n - 1 = (1 .. n) \ {n}
        OBVIOUS
    <3> QED
        BY <1>1, <2>2, <3>1
  <2> HIDE DEF k
  <2>4. ASSUME NEW u, u \in UnitsHeld(s)' PROVE u \in UnitsHeld(s) \ {<< t, k >>}
    <3>1. PICK v \in Threads : \E j \in 1 .. acquired'[v][s] : u = << v, j >>
        BY <2>1, <2>4
    <3>2. CASE v = t
        BY <2>3, <3>1, <3>2, UnitHeld
    <3>3. CASE v # t
        BY <2>2, <3>1, <3>3, UnitHeld
    <3> QED
        BY <3>2, <3>3
  <2>5. ASSUME NEW u, u \in UnitsHeld(s) \ {<< t, k >>} PROVE u \in UnitsHeld(s)'
    <3>1. PICK v \in Threads : \E j \in 1 .. acquired[v][s] : u = << v, j >>
        BY <2>5, UnitHeld
    <3>2. CASE v = t
        BY <2>1, <2>3, <2>5, <3>1, <3>2
    <3>3. CASE v # t
        BY <2>1, <2>2, <3>1, <3>3
    <3> QED
        BY <3>2, <3>3
  <2> QED
      BY <2>4, <2>5
<1>8. /\ IsFiniteSet(UnitsHeld(s))'
      /\ Cardinality(UnitsHeld(s))' = Cardinality(UnitsHeld(s)) - 1
    BY <1>2, <1>4, <1>7, FS_RemoveElement
<1> QED
    BY <1>1, <1>2, <1>6, <1>8

\* Steps that take or release no unit.
LEMMA UnitsAlone ==
  ASSUME Conserved, NEW S \in SUBSET Semaphores,
         \A s \in S : nCount'[s] = nCount[s],
         \A s \in S, t \in Threads : acquired'[t][s] = acquired[t][s]
  PROVE  \A s \in S : /\ IsFiniteSet(UnitsHeld(s))'
                      /\ nCount'[s] + Cardinality(UnitsHeld(s))' = MaxCount
<1> SUFFICES ASSUME NEW s \in S
    PROVE  /\ IsFiniteSet(UnitsHeld(s))'
           /\ nCount'[s] + Cardinality(UnitsHeld(s))' = MaxCount
    OBVIOUS
<1>1. UnitsHeld(s)' = UnitsHeld(s)
    BY DEF UnitsHeld
<1> QED
    BY <1>1 DEF Conserved

LEMMA ConservedInit == Init => Conserved
<1> SUFFICES ASSUME Init, NEW s \in Semaphores
    PROVE  /\ IsFiniteSet(UnitsHeld(s))
           /\ nCount[s] + Cardinality(UnitsHeld(s)) = MaxCount
    BY DEF Conserved
<1>1. s \in Objs /\ s \in Counted /\ MaxCount \in Nat
    BY BoundsAssumption DEF Objs, Counted
<1>2. nCount[s] = MaxCount /\ \A t \in Threads : acquired[t][s] = 0
    BY <1>1 DEF Init, InitialCount
<1>3. UnitsHeld(s) = {}
  <2>1. \A t \in Threads : 1 .. acquired[t][s] = {}
      BY <1>2
  <2> QED
      BY <2>1, UnitHeld
<1> QED
    BY <1>1, <1>2, <1>3, FS_EmptySet

\* A semaphore is taken only when it has a unit: it is no mutex that could be
\* taken again and no event that could be pulsed.
LEMMA CheckCountConserves ==
  ASSUME IInv, Conserved, NEW t \in Threads, NEW w, NEW P, CheckCount(t, w, P)
  PROVE  Conserved'
<1> SUFFICES ASSUME NEW s \in Semaphores
    PROVE  /\ IsFiniteSet(UnitsHeld(s))'
           /\ nCount'[s] + Cardinality(UnitsHeld(s))' = MaxCount
    BY DEF Conserved
<1> DEFINE G == {w.objs[i] : i \in Taken(t, w, P)}
<1>1. /\ s \in Objs /\ s \in Counted /\ s \notin Mutexes /\ s \notin ManualEvents
      /\ acquired \in [Threads -> [Counted -> Nat]]
    BY SemaphoreFacts
<1>2. CASE Taken(t, w, P) # {} /\ s \in G
  <2>1. Take(t, G)
      BY <1>2 DEF CheckCount
  <2>2. nCount[s] > 0
      BY <1>1, <1>2, TakenSatisfies DEF Satisfies, IsPulsed, Recursive
  <2> HIDE DEF G
  <2>3. /\ nCount'[s] = nCount[s] - 1
        /\ acquired'[t][s] = acquired[t][s] + 1
        /\ \A u \in Threads \ {t} : acquired'[u][s] = acquired[u][s]
      BY <1>1, <1>2, <2>1, <2>2 DEF Take
  <2> QED
      BY <2>3, UnitTaken DEF Conserved
<1>3. CASE ~ (Taken(t, w, P) # {} /\ s \in G)
  <2>1. nCount'[s] = nCount[s] /\ \A u \in Threads : acquired'[u][s] = acquired[u][s]
    <3>1. CASE Taken(t, w, P) # {}
      <4>1. Take(t, G)
          BY <3>1 DEF CheckCount
      <4> HIDE DEF G
      <4> QED
          BY <1>1, <1>3, <3>1, <4>1 DEF Take
    <3>2. CASE Taken(t, w, P) = {}
        BY <3>2 DEF CheckCount
    <3> QED
        BY <3>1, <3>2
  <2> QED
      BY <2>1, UnitsAlone
<1> QED
    BY <1>2, <1>3

\* A step either takes, or gives a unit back, or touches no semaphore.
LEMMA ConservedNext ==
  ASSUME IInv, Conserved, [Next]_vars
  PROVE  Conserved'
<1> USE DEF IInv
<1>s. \A s \in Semaphores : s \in Objs /\ s \in Counted /\ s \notin Mutexes
                              /\ s \notin Events /\ s \notin ManualEvents
    BY SemaphoreFacts
<1>1. CASE \E t \in Threads : DownSemphores(t) \/ Recheck(t)
    BY <1>1, CheckCountConserves DEF DownSemphores, Recheck
<1>2. ASSUME NEW t \in Threads, NEW r \in Semaphores, ReleaseSemaphore(t, r)
      PROVE  Conserved'
  <2>1. \A s \in Semaphores \ {r} : nCount'[s] = nCount[s]
      BY <1>2, <1>s, UnitGivenBack DEF TypeOK
  <2>2. \A s \in Semaphores \ {r}, u \in Threads : acquired'[u][s] = acquired[u][s]
      BY <1>2, <1>s DEF ReleaseSemaphore, TypeOK
  <2>3. \A s \in Semaphores \ {r} :
          /\ IsFiniteSet(UnitsHeld(s))'
          /\ nCount'[s] + Cardinality(UnitsHeld(s))' = MaxCount
      BY <2>1, <2>2, UnitsAlone
  <2> QED
      BY <1>2, <2>3, UnitGivenBack DEF Conserved
<1>3. ASSUME \A s \in Semaphores : nCount'[s] = nCount[s],
             \A s \in Semaphores, u \in Threads : acquired'[u][s] = acquired[u][s]
      PROVE  Conserved'
    BY <1>3, UnitsAlone DEF Conserved
<1>4. ASSUME NEW o \in Events \cup Mutexes, UNCHANGED acquired,
             Raise(o) \/ nCount' = nCount \/ nCount' = [nCount EXCEPT ![o] = 0]
      PROVE  Conserved'
    BY <1>3, <1>4, <1>s DEF Raise, TypeOK
<1>5. ASSUME NEW t \in Threads, Call(t) PROVE Conserved'
  <2>1. ASSUME NEW e \in Events, SetEvent(t, e) \/ ResetEvent(t, e) \/ PulseEvent(t, e)
        PROVE  Conserved'
      BY <1>4, <2>1
      DEF SetEvent, Release, UpSemaphore, ResetEvent, PulseEvent, objVars
  <2>2. ASSUME NEW m \in Mutexes, ReleaseMutex(t, m) PROVE Conserved'
      BY <1>3, <2>2 DEF ReleaseMutex, objVars
  <2> QED
      BY <1>1, <1>2, <1>5, <2>1, <2>2 DEF Call
<1>6. ASSUME NEW t \in Threads, Inside(t) PROVE Conserved'
  <2>1. CASE Park(t) \/ ParkFails(t) \/ Resume(t) \/ DelTimer(t) \/ RemoveWaitQueue(t)
               \/ Up(t)
      BY <1>3, <2>1 DEF Park, ParkFails, Resume, DelTimer, RemoveWaitQueue, Up, objVars
  <2>2. CASE PulseRelease(t)
    <3>1. lpsem[t] \in Events
        BY <2>2 DEF PulseRelease, TypeOK
    <3> QED
        BY <1>4, <2>2, <3>1 DEF PulseRelease, UpSemaphore
  <2>3. CASE PulseReset(t)
    <3>1. lpsem[t] \in Events
        BY <2>3 DEF PulseReset, TypeOK
    <3> QED
        BY <1>4, <2>3, <3>1 DEF PulseReset
  <2>4. CASE TestLockCount(t)
      BY <1>3, <2>4 DEF TestLockCount, objVars
  <2>5. CASE CountDown(t) \/ FreeMutex(t)
    <3>1. lpsem[t] \in Mutexes
        BY <2>5 DEF CountDown, FreeMutex, TypeOK, ReleaseSteps
    <3>2. \A s \in Semaphores : nCount'[s] = nCount[s]
        BY <1>s, <2>5, <3>1
        DEF CountDown, FreeMutex, Release, UpSemaphore, Raise, TypeOK
    <3>3. \A s \in Semaphores, u \in Threads : acquired'[u][s] = acquired[u][s]
      <4>1. OneLess(t, lpsem[t]) /\ \A s \in Semaphores : s # lpsem[t]
          BY <1>s, <2>5, <3>1 DEF CountDown, FreeMutex
      <4> QED
          BY <4>1 DEF OneLess, TypeOK
    <3> QED
        BY <1>3, <3>2, <3>3
  <2> QED
      BY <1>1, <1>6, <2>1, <2>2, <2>3, <2>4, <2>5 DEF Inside
<1>7. ASSUME NEW t \in Threads, ThreadTimeout(t) PROVE Conserved'
    BY <1>3, <1>7 DEF ThreadTimeout, objVars
<1>8. ASSUME NEW e \in IsrEvents, ISRSetEvent(e) PROVE Conserved'
  <2>1. e \in Events
      BY KindsAssumption
  <2> QED
      BY <1>4, <1>8, <2>1 DEF ISRSetEvent
<1>9. CASE UNCHANGED vars
    BY <1>3, <1>9 DEF vars
<1> QED
    BY <1>5, <1>6, <1>7, <1>8, <1>9 DEF Next

LEMMA Conservation == Spec => [](IInv /\ Conserved)
<1>1. Init => IInv /\ Conserved
    BY InitInv, ConservedInit
<1>2. (IInv /\ Conserved) /\ [Next]_vars => (IInv /\ Conserved)'
    BY NextInv, ConservedNext
<1> QED
    BY <1>1, <1>2, PTL DEF Spec

(***************************************************************************)
(* The units of a semaphore are neither lost nor invented, for any number  *)
(* of clients: however its waits end and are tried again, what the kernel  *)
(* has and what was returned to clients make up the initial count.         *)
(***************************************************************************)
THEOREM UnitsAreConserved == Spec => []UnitsConserved
<1>1. Conserved => UnitsConserved
    BY DEF Conserved, UnitsConserved
<1> QED
    BY <1>1, Conservation, PTL

-----------------------------------------------------------------------------
(* Mutexes and semaphores implement the abstract pool. *)

LEMMA PoolInit == Init => Pool!Init
BY KindsAssumption DEF Init, Pool!Init, Objs

\* A thread holds a mutex again exactly when the kernel finds it recursive.
LEMMA AgainFacts ==
  ASSUME IInv, MutexInv, NEW t \in Threads, NEW m \in Mutexes
  PROVE  /\ nCount[m] > 0 => ~Pool!Again(t, m)
         /\ nCount[m] = 0 /\ Recursive(t, m) => Pool!Again(t, m)
<1>1. t # NoThread /\ nCount[m] \in Nat /\ nLockCount[m] \in Int
    BY MutexFacts
<1> QED
    BY <1>1
    DEF MutexInv, MutexAccounts, OwnedLocked, Recursive, Pool!Again, Pool!Holds

LEMMA TakeIsAcquire ==
  ASSUME IInv, MutexInv, NEW t \in Threads, NEW G \in SUBSET Objs,
         \A o \in G : o \in ManualEvents \/ nCount[o] > 0 \/ Recursive(t, o),
         Take(t, G)
  PROVE  Pool!Acquire(t, G \cap Counted)
<1>1. \A m \in Counted : /\ m \in Mutexes \/ m \in Semaphores
                         /\ m \in Objs /\ m \notin ManualEvents
                         /\ nCount[m] \in Nat
    BY KindsAssumption DEF IInv, TypeOK, Objs, Counted, Events
<1>2. \A m \in G \cap Counted : nCount[m] > 0 \/ Pool!Again(t, m)
    BY <1>1, AgainFacts, KindsAssumption DEF Recursive
<1>3. \A m \in G \cap Counted : nCount[m] > 0 <=> ~Pool!Again(t, m)
  <2>1. \A m \in Counted \ Mutexes : ~ Pool!Again(t, m)
      BY DEF Pool!Again
  <2> QED
      BY <1>1, <1>2, <2>1, AgainFacts
<1>4. \A m \in Counted : nCount'[m] = IF m \in G /\ ~Pool!Again(t, m)
                                      THEN nCount[m] - 1 ELSE nCount[m]
    BY <1>1, <1>3 DEF Take
<1>5. acquired' = [acquired EXCEPT ![t] =
                     [o \in Counted |-> IF o \in G \cap Counted THEN @[o] + 1 ELSE @[o]]]
    BY DEF Take, IInv, TypeOK
<1> QED
    BY <1>2, <1>4, <1>5 DEF Pool!Acquire

\* Inner and last releases: the thread inside KL_ReleaseMutex has the mutex.
LEMMA ReleaseIsGiveBack ==
  ASSUME IInv, MutexInv, NEW t \in Threads, CountDown(t) \/ FreeMutex(t)
  PROVE  \E m \in Counted : Pool!GiveBack(t, m)
<1> DEFINE m == lpsem[t]
<1>1. /\ m \in Mutexes /\ acquired[t][m] > 0
      /\ CountDown(t) => acquired[t][m] > 1
      /\ FreeMutex(t) => acquired[t][m] = 1
    BY DEF CountDown, FreeMutex, MutexInv, StillHeld, IInv, TypeOK, ReleaseSteps
<1>2. /\ m \in Objs /\ m \in Counted /\ nCount[m] = 0 /\ nMaxCount(m) = 1
      /\ acquired[t][m] \in Nat
    BY <1>1, HolderFacts, MutexFacts
<1>3. acquired' = [acquired EXCEPT ![t][m] = @ - 1]
    BY <1>1, <1>2 DEF CountDown, FreeMutex, OneLess
<1>4. nCount' = IF acquired[t][m] > 1 THEN nCount ELSE [nCount EXCEPT ![m] = @ + 1]
    BY <1>1, <1>2 DEF CountDown, FreeMutex, Release, UpSemaphore, Raise
<1> HIDE DEF m
<1>5. \A o \in Counted :
        nCount'[o] = IF o = m /\ ~ acquired[t][m] > 1 THEN nCount[o] + 1 ELSE nCount[o]
    BY <1>2, <1>4 DEF IInv, TypeOK, Objs
<1>6. [o \in Counted |-> nCount'[o]] =
        [[o \in Counted |-> nCount[o]] EXCEPT ![m] =
           IF m \in Mutexes /\ acquired[t][m] > 1 THEN @ ELSE @ + 1]
    BY <1>1, <1>2, <1>5
<1> QED
    BY <1>1, <1>2, <1>3, <1>6 DEF Pool!GiveBack, Pool!Holds

LEMMA UnitReleaseIsGiveBack ==
  ASSUME IInv, Conserved, NEW t \in Threads, NEW s \in Semaphores,
         ReleaseSemaphore(t, s)
  PROVE  Pool!GiveBack(t, s)
<1>1. /\ s \in Objs /\ s \in Counted /\ s \notin Mutexes
      /\ nCount \in [Objs -> Nat]
      /\ \A o \in Counted : o \in Objs
    BY SemaphoreFacts DEF Objs
<1>2. /\ Pool!Holds(t, s)
      /\ acquired' = [acquired EXCEPT ![t][s] = @ - 1]
    BY DEF ReleaseSemaphore, Pool!Holds
<1>3. nCount' = [nCount EXCEPT ![s] = @ + 1]
    BY UnitGivenBack
<1>4. [o \in Counted |-> nCount'[o]] =
        [[o \in Counted |-> nCount[o]] EXCEPT ![s] =
           IF s \in Mutexes /\ acquired[t][s] > 1 THEN @ ELSE @ + 1]
    BY <1>1, <1>3
<1> QED
    BY <1>2, <1>4 DEF Pool!GiveBack

LEMMA CheckCountIsAcquire ==
  ASSUME IInv, MutexInv, NEW t \in Threads, NEW w \in WaitCalls, NEW P,
         CheckCount(t, w, P)
  PROVE  (\E R \in SUBSET Counted : Pool!Acquire(t, R)) \/ UNCHANGED Pool!vars
<1>1. CASE Taken(t, w, P) # {}
  <2> DEFINE G == {w.objs[i] : i \in Taken(t, w, P)}
  <2>1. Take(t, G)
      BY <1>1 DEF CheckCount
  <2>2. G \in SUBSET Objs
      BY TakenSatisfies, WaitFacts
  <2>3. \A o \in G : o \in ManualEvents \/ nCount[o] > 0 \/ Recursive(t, o)
      BY TakenSatisfies DEF Satisfies, IsPulsed
  <2> HIDE DEF G
  <2> QED
      BY <2>1, <2>2, <2>3, TakeIsAcquire
<1>2. CASE Taken(t, w, P) = {}
    BY <1>2 DEF CheckCount, Pool!vars
<1> QED
    BY <1>1, <1>2

\* Events are no resources of the pool.
LEMMA EventIsStutter ==
  ASSUME IInv, NEW o \in Events, UNCHANGED acquired, nCount' \in [Objs -> Nat],
         \A p \in Objs \ {o} : nCount'[p] = nCount[p]
  PROVE  UNCHANGED Pool!vars
<1>1. \A p \in Counted : p \in Objs /\ p # o
    BY KindsAssumption DEF Objs, Counted
<1> QED
    BY <1>1 DEF Pool!vars

LEMMA EventUpIsStutter ==
  ASSUME IInv, NEW t, NEW o \in Events, NEW up, NEW next, UNCHANGED acquired,
         UpSemaphore(t, o, up, next)
  PROVE  UNCHANGED Pool!vars
<1>1. o \in Objs
    BY DEF Objs
<1>2. nCount' \in [Objs -> Nat] /\ \A p \in Objs \ {o} : nCount'[p] = nCount[p]
    BY <1>1 DEF UpSemaphore, Raise, IInv, TypeOK
<1> QED
    BY <1>2, EventIsStutter

LEMMA PoolNext ==
  ASSUME IInv, MutexInv, Conserved, [Next]_vars
  PROVE  [Pool!Next]_(Pool!vars)
<1> USE DEF IInv
<1>1. ASSUME NEW t \in Threads, Call(t) PROVE [Pool!Next]_(Pool!vars)
  <2>1. CASE DownSemphores(t)
      BY <2>1, CheckCountIsAcquire DEF DownSemphores, Pool!Next
  <2>2. ASSUME NEW o \in Events, SetEvent(t, o) PROVE UNCHANGED Pool!vars
      BY <2>2, EventUpIsStutter DEF SetEvent, Release
  <2>3. ASSUME NEW o \in Events, ResetEvent(t, o) PROVE UNCHANGED Pool!vars
    <3>1. nCount' \in [Objs -> Nat] /\ \A p \in Objs \ {o} : nCount'[p] = nCount[p]
        BY <2>3 DEF ResetEvent, TypeOK
    <3> QED
        BY <2>3, <3>1, EventIsStutter DEF ResetEvent
  <2>4. ASSUME NEW o \in Events, PulseEvent(t, o) PROVE UNCHANGED Pool!vars
      BY <2>4 DEF PulseEvent, objVars, Pool!vars
  <2>5. ASSUME NEW m \in Mutexes, ReleaseMutex(t, m) PROVE UNCHANGED Pool!vars
      BY <2>5 DEF ReleaseMutex, objVars, Pool!vars
  <2>6. ASSUME NEW s \in Semaphores, ReleaseSemaphore(t, s) PROVE Pool!Next
    <3>1. s \in Counted
        BY DEF Counted
    <3> QED
        BY <2>6, <3>1, UnitReleaseIsGiveBack DEF Pool!Next
  <2> QED
      BY <1>1, <2>1, <2>2, <2>3, <2>4, <2>5, <2>6 DEF Call
<1>2. ASSUME NEW t \in Threads, Inside(t) PROVE [Pool!Next]_(Pool!vars)
  <2>1. CASE Recheck(t)
    <3>1. waits[t] \in WaitCalls
        BY <2>1 DEF Recheck, TypeOK
    <3> QED
        BY <2>1, <3>1, CheckCountIsAcquire DEF Recheck, Pool!Next
  <2>2. CASE Park(t) \/ ParkFails(t) \/ Resume(t) \/ DelTimer(t) \/ RemoveWaitQueue(t)
               \/ Up(t)
      BY <2>2
      DEF Park, ParkFails, Resume, DelTimer, RemoveWaitQueue, Up, objVars, Pool!vars
  <2>3. CASE PulseRelease(t)
    <3>1. lpsem[t] \in Events
        BY <2>3 DEF PulseRelease, TypeOK
    <3> QED
        BY <2>3, <3>1, EventUpIsStutter DEF PulseRelease
  <2>4. CASE PulseReset(t)
    <3>1. lpsem[t] \in Events
        BY <2>4 DEF PulseReset, TypeOK
    <3>2. nCount' \in [Objs -> Nat]
          /\ \A p \in Objs \ {lpsem[t]} : nCount'[p] = nCount[p]
        BY <2>4 DEF PulseReset, TypeOK
    <3> QED
        BY <2>4, <3>1, <3>2, EventIsStutter DEF PulseReset
  <2>5. CASE TestLockCount(t)
      BY <2>5 DEF TestLockCount, objVars, Pool!vars
  <2>6. CASE CountDown(t) \/ FreeMutex(t)
      BY <2>6, ReleaseIsGiveBack DEF Pool!Next
  <2> QED
      BY <1>2, <2>1, <2>2, <2>3, <2>4, <2>5, <2>6 DEF Inside
<1>3. ASSUME NEW t \in Threads, ThreadTimeout(t) PROVE UNCHANGED Pool!vars
    BY <1>3 DEF ThreadTimeout, objVars, Pool!vars
<1>4. ASSUME NEW e \in IsrEvents, ISRSetEvent(e) PROVE UNCHANGED Pool!vars
  <2>1. e \in Events /\ e \in Objs
      BY KindsAssumption DEF Objs
  <2>2. nCount' \in [Objs -> Nat] /\ \A p \in Objs \ {e} : nCount'[p] = nCount[p]
      BY <1>4, <2>1 DEF ISRSetEvent, Raise, TypeOK
  <2> QED
      BY <1>4, <2>1, <2>2, EventIsStutter DEF ISRSetEvent
<1>5. CASE UNCHANGED vars
    BY <1>5 DEF vars, Pool!vars
<1> QED
    BY <1>1, <1>2, <1>3, <1>4, <1>5 DEF Next

(***************************************************************************)
(* Clients of the protocol see the abstract pool: what the queues, scans,  *)
(* wake-ups and recursion counts of the kernel do to mutexes and           *)
(* semaphores is to take all the objects of a wait in one step, each of    *)
(* them free or held again by its owner, and to give one back; no release  *)
(* of a unit that a client holds is refused.  The premise: the creator of  *)
(* the mutexes does not release one that it does not have.                 *)
(***************************************************************************)
THEOREM WaitsImplementPool ==
  ASSUME Creator \notin Careless
  PROVE  Spec => ImplementsPool
<1>1. Init => Pool!Init
    BY PoolInit
<1>2. (IInv /\ MutexInv) /\ Conserved /\ [Next]_vars => [Pool!Next]_(Pool!vars)
    BY PoolNext
<1> QED
    BY <1>1, <1>2, MutexInvariance, Conservation, PTL
    DEF Spec, ImplementsPool, Pool!Spec
=============================================================================
