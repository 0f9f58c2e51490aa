---------------------------- MODULE CritSecProofs ----------------------------
(***************************************************************************)
(* Proofs about CritSec for any number of threads and sections.            *)
(***************************************************************************)
EXTENDS CritSec, TLAPS

LEMMA InitInv == Init => IInv
<1> SUFFICES ASSUME Init PROVE IInv
    OBVIOUS
<1> USE CritSecAssumption DEF Init
<1>1. TypeOK
    BY DEF TypeOK, PCs
<1>2. Calls /\ Leaving /\ SleepersCounted
    BY DEF Calls, Leaving, SleepersCounted
<1>3. Accounts
    BY DEF Accounts
<1>4. PriorityRestored
  <2> SUFFICES ASSUME NEW t \in Threads
               PROVE  nCurPriority[t] <= nOriginPriority[t] /\ nCurPriority[t] = nOriginPriority[t]
      BY DEF PriorityRestored
  <2>1. nOriginPriority[t] \in 0 .. IDLE_PRIORITY - 1
      OBVIOUS
  <2>2. nOriginPriority[t] \in Int
      BY <2>1
  <2>3. nCurPriority[t] = nOriginPriority[t]
      BY DEF Init
  <2> QED
      BY <2>2, <2>3
<1> QED
    BY <1>1, <1>2, <1>3, <1>4 DEF IInv

-----------------------------------------------------------------------------
(* What a change of pc and lpcs of one thread does to the wake-ups. *)

LEMMA GotoFacts ==
  ASSUME TypeOK, NEW t \in Threads, NEW label \in PCs,
         NEW c \in Sections \cup {NoSection}, Goto(t, label, c)
  PROVE  /\ pc' \in [Threads -> PCs] /\ pc'[t] = label
         /\ lpcs' \in [Threads -> Sections \cup {NoSection}] /\ lpcs'[t] = c
         /\ \A u \in Threads \ {t} : pc'[u] = pc[u] /\ lpcs'[u] = lpcs[u]
BY DEF TypeOK, Goto

LEMMA DoEnterInv ==
  ASSUME IInv, NEW t \in Threads, NEW c \in Sections, NEW label \in {"down", "try"},
         DoEnter(t, c, label)
  PROVE  IInv'
<1> USE CritSecAssumption DEF IInv
<1>0. /\ UNCHANGED << semVars, dwOwnerThreadId, nCurPriority, asleep, intrOff >>
      /\ pc[t] = "idle"
    BY DEF DoEnter, At
<1>1. CASE /\ dwOwnerThreadId[c] = t
           /\ iLockCount' = [iLockCount EXCEPT ![c] = @ + 1]
           /\ inside' = [inside EXCEPT ![t][c] = @ + 1]
           /\ UNCHANGED << pc, lpcs >>
  <2>1. TypeOK'
      BY <1>1, <1>0 DEF TypeOK, semVars
  <2>2. Accounts'
      BY <1>1, <1>0 DEF Accounts, TypeOK, semVars
  <2>3. Calls' /\ PriorityRestored' /\ SleepersCounted'
      BY <1>1, <1>0 DEF Calls, PriorityRestored, SleepersCounted, UpPending, semVars
  <2>4. Leaving'
      BY <1>1, <1>0 DEF Leaving, Accounts, TypeOK, semVars
  <2> QED
      BY <2>1, <2>2, <2>3, <2>4
<1>2. CASE Goto(t, label, c) /\ UNCHANGED << iLockCount, inside >>
  <2>g. /\ pc' \in [Threads -> PCs] /\ pc'[t] = label
        /\ lpcs' \in [Threads -> Sections \cup {NoSection}] /\ lpcs'[t] = c
        /\ \A u \in Threads \ {t} : pc'[u] = pc[u] /\ lpcs'[u] = lpcs[u]
      BY <1>2, GotoFacts DEF PCs
  <2>1. TypeOK'
      BY <1>2, <1>0, <2>g DEF TypeOK, semVars
  <2>2. Accounts' /\ Leaving'
      BY <1>2, <1>0, <2>g DEF Accounts, Leaving, semVars
  <2>3. Calls'
      BY <1>0, <2>g DEF Calls, TypeOK
  <2>4. PriorityRestored'
      BY <1>0 DEF PriorityRestored, semVars
  <2>5. SleepersCounted'
    <3>1. \A u \in asleep : u \in Threads \ {t}
        BY <1>0 DEF Calls, TypeOK
    <3>2. \A d \in Sections \cup {NoSection} : UpPending(d) => UpPending(d)'
        BY <1>0, <2>g DEF UpPending
    <3> QED
        BY <1>0, <2>g, <3>1, <3>2 DEF SleepersCounted, TypeOK, semVars
  <2> QED
      BY <2>1, <2>2, <2>3, <2>4, <2>5
<1> QED
    BY <1>1, <1>2 DEF DoEnter
-----------------------------------------------------------------------------
(* Facts every step inside the kernel starts from. *)

\* A thread in a call names a section; a thread that runs does not sleep.
LEMMA InCall ==
  ASSUME IInv, NEW t \in Threads, pc[t] # "idle"
  PROVE  lpcs[t] \in Sections
BY CritSecAssumption DEF IInv, Calls, TypeOK

LEMMA WakeupsStay ==
  ASSUME TypeOK, NEW t \in Threads, NEW label \in PCs,
         NEW c \in Sections \cup {NoSection}, Goto(t, label, c), pc[t] # "up"
  PROVE  \A d \in Sections \cup {NoSection} : UpPending(d) => UpPending(d)'
<1>1. \A u \in Threads \ {t} : pc'[u] = pc[u] /\ lpcs'[u] = lpcs[u]
    BY GotoFacts
<1> QED
    BY <1>1 DEF UpPending

LEMMA OwnInv ==
  ASSUME IInv, NEW t \in Threads, NEW c \in Sections, pc[t] \in {"down", "try"},
         Own(t, c)
  PROVE  IInv'
<1> USE CritSecAssumption DEF IInv
<1>1. /\ nCount[c] = 1 /\ lpOwner[c] = NoThread
      /\ \A u \in Threads : inside[u][c] = 0 /\ dwOwnerThreadId[c] # u
    BY DEF Own, Accounts, TypeOK
<1>2. /\ nCount' = [nCount EXCEPT ![c] = 0]
      /\ lpOwner' = [lpOwner EXCEPT ![c] = t]
      /\ dwOwnerThreadId' = [dwOwnerThreadId EXCEPT ![c] = t]
      /\ iLockCount' = [iLockCount EXCEPT ![c] = 1]
      /\ inside' = [inside EXCEPT ![t][c] = @ + 1]
      /\ UNCHANGED << nWaiting, nHighPriority, asleep, intrOff >>
    BY DEF Own
<1>3. nCurPriority' = [nCurPriority EXCEPT ![t] =
                         IF @ > nHighPriority[c] THEN nHighPriority[c] ELSE @]
    BY DEF Own
<1>4. /\ pc' \in [Threads -> PCs] /\ pc'[t] = "idle"
      /\ lpcs' \in [Threads -> Sections \cup {NoSection}] /\ lpcs'[t] = NoSection
      /\ \A u \in Threads \ {t} : pc'[u] = pc[u] /\ lpcs'[u] = lpcs[u]
    BY GotoFacts DEF Own, PCs
<1>5. TypeOK'
  <2>1. nCurPriority' \in [Threads -> 0 .. IDLE_PRIORITY - 1]
      BY <1>3 DEF TypeOK
  <2>2. inside' \in [Threads -> [Sections -> Nat]]
      BY <1>2 DEF TypeOK
  <2> QED
      BY <1>2, <1>4, <2>1, <2>2 DEF TypeOK
<1>6. Accounts'
  <2>1. \A d \in Sections, u \in Threads :
          inside'[u][d] = IF lpOwner'[d] = u THEN iLockCount'[d] ELSE 0
      BY <1>1, <1>2 DEF Accounts, TypeOK
  <2>2. \A d \in Sections : /\ nCount'[d] = 0 <=> lpOwner'[d] # NoThread
                            /\ lpOwner'[d] # NoThread => iLockCount'[d] > 0
      BY <1>1, <1>2 DEF Accounts, TypeOK
  <2>3. \A u \in Threads, d \in Sections : dwOwnerThreadId'[d] = u <=>
          lpOwner'[d] = u /\ ~(pc'[u] = "leave" /\ lpcs'[u] = d)
      BY <1>1, <1>2, <1>4 DEF Accounts, TypeOK
  <2> QED
      BY <2>1, <2>2, <2>3 DEF Accounts
<1>7. Leaving'
    BY <1>1, <1>2, <1>4, InCall DEF Leaving, TypeOK
<1>8. Calls'
    BY <1>2, <1>4 DEF Calls, TypeOK
<1>9. PriorityRestored'
  <2>1. \A u \in Threads : nCurPriority[u] \in Int /\ nOriginPriority[u] \in Int
      BY DEF TypeOK
  <2>2. \A u \in Threads \ {t} : nCurPriority'[u] = nCurPriority[u]
      BY <1>3 DEF TypeOK
  <2>3. nCurPriority'[t] \in Int /\ nCurPriority'[t] <= nCurPriority[t]
      BY <1>3 DEF TypeOK
  <2>4. lpOwner'[c] = t /\ \A d \in Sections \ {c} : lpOwner'[d] = lpOwner[d]
      BY <1>2 DEF TypeOK
  <2> QED
      BY <1>1, <2>1, <2>2, <2>3, <2>4 DEF PriorityRestored
<1>10. SleepersCounted'
  <2>1. \A u \in asleep : u \in Threads \ {t}
      BY DEF Calls, TypeOK
  <2>2. \A d \in Sections \cup {NoSection} : UpPending(d) => UpPending(d)'
      BY WakeupsStay DEF Own, PCs
  <2> QED
      BY SMTT(30), <1>2, <1>4, <2>1, <2>2 DEF SleepersCounted, TypeOK
<1> QED
    BY <1>5, <1>6, <1>7, <1>8, <1>9, <1>10

LEMMA RaiseOwnerInv ==
  ASSUME IInv, NEW t \in Threads, NEW c \in Sections, pc[t] = "down", lpcs[t] = c,
         RaiseOwner(t, c)
  PROVE  IInv'
<1> USE CritSecAssumption DEF IInv
<1>1. lpOwner[c] \in Threads
    BY DEF RaiseOwner, Accounts, TypeOK
<1>2. UNCHANGED << nCount, lpOwner, nWaiting, csVars, asleep, intrOff, inside >>
    BY DEF RaiseOwner
<1>3. /\ pc' \in [Threads -> PCs] /\ pc'[t] = "park"
      /\ lpcs' \in [Threads -> Sections \cup {NoSection}] /\ lpcs'[t] = c
      /\ \A u \in Threads \ {t} : pc'[u] = pc[u] /\ lpcs'[u] = lpcs[u]
    BY GotoFacts DEF RaiseOwner, PCs
<1>4. /\ nHighPriority' \in [Sections -> 0 .. IDLE_PRIORITY]
      /\ nCurPriority' \in [Threads -> 0 .. IDLE_PRIORITY - 1]
      /\ \A u \in Threads : \/ nCurPriority'[u] = nCurPriority[u]
                            \/ u = lpOwner[c] /\ nCurPriority'[u] <= nCurPriority[u]
  <2>1. \A u \in Threads : nCurPriority[u] \in 0 .. IDLE_PRIORITY - 1
      BY DEF TypeOK
  <2>2. CASE UNCHANGED << nHighPriority, nCurPriority >>
      BY <2>1, <2>2 DEF TypeOK
  <2>3. CASE /\ nCurPriority[lpOwner[c]] > nCurPriority[t]
             /\ nHighPriority' = [nHighPriority EXCEPT ![c] = nCurPriority[t]]
             /\ nCurPriority' = [nCurPriority EXCEPT ![lpOwner[c]] = nCurPriority[t]]
    <3>1. nCurPriority[t] \in 0 .. IDLE_PRIORITY
        BY <2>1
    <3>2. nHighPriority' \in [Sections -> 0 .. IDLE_PRIORITY]
        BY <2>3, <3>1 DEF TypeOK
    <3>3. nCurPriority' \in [Threads -> 0 .. IDLE_PRIORITY - 1]
        BY <2>1, <2>3 DEF TypeOK
    <3>4. /\ nCurPriority'[lpOwner[c]] = nCurPriority[t]
          /\ \A u \in Threads \ {lpOwner[c]} : nCurPriority'[u] = nCurPriority[u]
        BY <1>1, <2>3 DEF TypeOK
    <3> QED
        BY <1>1, <2>1, <2>3, <3>2, <3>3, <3>4
  <2> QED
      BY <2>2, <2>3 DEF RaiseOwner
<1>5. TypeOK'
    BY <1>2, <1>3, <1>4 DEF TypeOK, csVars
<1>6. Accounts' /\ Leaving'
    BY <1>2, <1>3 DEF Accounts, Leaving, csVars
<1>7. Calls'
    BY <1>2, <1>3 DEF Calls, TypeOK
<1>8. PriorityRestored'
  <2>1. \A u \in Threads : nCurPriority[u] \in Int /\ nOriginPriority[u] \in Int
                             /\ nCurPriority'[u] \in Int
      BY <1>4 DEF TypeOK
  <2> QED
      BY <1>2, <1>4, <2>1 DEF PriorityRestored
<1>9. SleepersCounted'
  <2>1. \A u \in asleep : u \in Threads \ {t}
      BY DEF Calls, TypeOK
  <2>2. \A d \in Sections \cup {NoSection} : UpPending(d) => UpPending(d)'
      BY WakeupsStay DEF RaiseOwner, PCs
  <2> QED
      BY <1>2, <1>3, <2>1, <2>2 DEF SleepersCounted, TypeOK
<1> QED
    BY <1>5, <1>6, <1>7, <1>8, <1>9
LEMMA DownCritInv ==
  ASSUME IInv, NEW t \in Threads, DownCrit(t)
  PROVE  IInv'
<1>1. pc[t] = "down" /\ lpcs[t] \in Sections
    BY InCall DEF DownCrit, At
<1> QED
    BY <1>1, OwnInv, RaiseOwnerInv DEF DownCrit

\* A step that only moves t to label, in a call on c, and may touch intrOff.
LEMMA MoveInv ==
  ASSUME IInv, NEW t \in Threads, NEW label \in PCs \ {"leave", "asleep"},
         NEW c \in Sections \cup {NoSection}, Goto(t, label, c),
         label = "idle" <=> c = NoSection,
         t \notin asleep, pc[t] # "leave", pc[t] # "up",
         intrOff' \in Threads \cup {NoThread},
         UNCHANGED << semVars, csVars, nCurPriority, asleep, inside >>
  PROVE  IInv'
<1> USE CritSecAssumption DEF IInv
<1>1. /\ pc' \in [Threads -> PCs] /\ pc'[t] = label
      /\ lpcs' \in [Threads -> Sections \cup {NoSection}] /\ lpcs'[t] = c
      /\ \A u \in Threads \ {t} : pc'[u] = pc[u] /\ lpcs'[u] = lpcs[u]
    BY GotoFacts
<1>2. TypeOK'
    BY <1>1 DEF TypeOK, semVars, csVars
<1>3. Accounts' /\ Leaving'
    BY <1>1 DEF Accounts, Leaving, semVars, csVars
<1>4. Calls'
    BY <1>1 DEF Calls, TypeOK
<1>5. PriorityRestored'
    BY DEF PriorityRestored, semVars
<1>6. SleepersCounted'
  <2>1. \A u \in asleep : u \in Threads \ {t}
      BY DEF TypeOK
  <2>2. \A d \in Sections \cup {NoSection} : UpPending(d) => UpPending(d)'
      BY WakeupsStay
  <2> QED
      BY <1>1, <2>1, <2>2 DEF SleepersCounted, TypeOK, semVars
<1> QED
    BY <1>2, <1>3, <1>4, <1>5, <1>6

LEMMA TryDownCritInv ==
  ASSUME IInv, NEW t \in Threads, TryDownCrit(t)
  PROVE  IInv'
<1>1. pc[t] = "try" /\ t \notin asleep /\ lpcs[t] \in Sections
    BY InCall DEF TryDownCrit, At, Runs
<1>2. CASE Own(t, lpcs[t])
    BY <1>1, <1>2, OwnInv
<1>3. CASE /\ intrOff' = t /\ Goto(t, "idle", NoSection)
           /\ UNCHANGED << semVars, csVars, nCurPriority, asleep, inside >>
    BY <1>1, <1>3, MoveInv DEF PCs
<1> QED
    BY <1>2, <1>3 DEF TryDownCrit

LEMMA ParkFailsInv ==
  ASSUME IInv, NEW t \in Threads, ParkFails(t)
  PROVE  IInv'
<1>1. /\ pc[t] = "park" /\ t \notin asleep /\ lpcs[t] \in Sections
      /\ intrOff \in Threads \cup {NoThread}
    BY InCall DEF ParkFails, At, Runs, IInv, TypeOK
<1>2. /\ Goto(t, "down", lpcs[t]) /\ intrOff' = intrOff
      /\ UNCHANGED << semVars, csVars, nCurPriority, asleep, inside >>
    BY DEF ParkFails
<1>3. "down" = "idle" <=> lpcs[t] = NoSection
    BY <1>1, CritSecAssumption
<1> QED
    BY <1>1, <1>2, <1>3, MoveInv DEF PCs

LEMMA SleepInv ==
  ASSUME IInv, NEW t \in Threads, Park(t) \/ Resume(t)
  PROVE  IInv'
<1> USE CritSecAssumption DEF IInv
<1> DEFINE c == lpcs[t]
<1>1. /\ pc[t] \in {"park", "asleep"} /\ t \notin asleep /\ c \in Sections
      /\ Sleep(t)
    BY InCall DEF Park, Resume, At, Runs
<1>2. intrOff' \in Threads \cup {NoThread}
    BY <1>1 DEF Sleep
<1>3. CASE Goto(t, "down", c) /\ UNCHANGED << nWaiting, asleep >>
  <2>1. UNCHANGED << semVars, csVars, nCurPriority, asleep, inside >>
      BY <1>1, <1>3 DEF Sleep, semVars
  <2>2. "down" = "idle" <=> c = NoSection
      BY <1>1
  <2> QED
      BY <1>1, <1>2, <1>3, <2>1, <2>2, MoveInv DEF PCs
<1>4. CASE /\ nCount[c] = 0 /\ Goto(t, "asleep", c)
           /\ nWaiting' = [nWaiting EXCEPT ![c] = TRUE]
           /\ asleep' = asleep \cup {t}
  <2>1. UNCHANGED << nCount, lpOwner, nHighPriority, csVars, nCurPriority, inside >>
      BY <1>1 DEF Sleep
  <2>2. /\ pc' \in [Threads -> PCs] /\ pc'[t] = "asleep"
        /\ lpcs' \in [Threads -> Sections \cup {NoSection}] /\ lpcs'[t] = c
        /\ \A u \in Threads \ {t} : pc'[u] = pc[u] /\ lpcs'[u] = lpcs[u]
      BY <1>1, <1>4, GotoFacts DEF PCs
  <2>3. TypeOK'
      BY <1>1, <1>2, <1>4, <2>1, <2>2 DEF TypeOK, csVars
  <2>4. Accounts' /\ Leaving'
      BY <1>1, <2>1, <2>2 DEF Accounts, Leaving, csVars
  <2>5. Calls'
      BY <1>1, <1>4, <2>2 DEF Calls, TypeOK
  <2>6. PriorityRestored'
      BY <2>1 DEF PriorityRestored
  <2>7. SleepersCounted'
    <3>1. \A u \in asleep : u \in Threads \ {t}
        BY <1>1 DEF TypeOK
    <3>2. \A d \in Sections \cup {NoSection} : UpPending(d) => UpPending(d)'
        BY <1>1, <1>4, WakeupsStay DEF PCs
    <3>3. \A d \in Sections : nWaiting[d] => nWaiting'[d]
        BY <1>4 DEF TypeOK
    <3>4. \A u \in asleep : u \in asleep /\ lpcs'[u] = lpcs[u] /\ lpcs[u] \in Sections
        BY <2>2, <3>1, InCall DEF Calls
    <3>5. nWaiting'[lpcs'[t]] /\ nCount'[lpcs'[t]] # 1
        BY <1>1, <1>4, <2>1, <2>2 DEF TypeOK
    <3> QED
      <4> SUFFICES ASSUME NEW u \in asleep', NEW d \in Sections, lpcs'[u] = d
                   PROVE  /\ nWaiting'[d] \/ UpPending(d)'
                          /\ nCount'[d] = 1 => UpPending(d)'
          BY <1>1, <1>4, <2>2, <3>4 DEF SleepersCounted
      <4>1. CASE u = t
          BY <3>5, <4>1
      <4>2. CASE u \in asleep
          BY <2>1, <3>2, <3>3, <3>4, <4>2 DEF SleepersCounted
      <4> QED
          BY <1>4, <4>1, <4>2
  <2> QED
      BY <2>3, <2>4, <2>5, <2>6, <2>7
<1> QED
    BY <1>1, <1>3, <1>4 DEF Sleep
-----------------------------------------------------------------------------
LEMMA LeaveInv ==
  ASSUME IInv, NEW t \in Threads, NEW c \in Sections, LeaveCriticalSection(t, c)
  PROVE  IInv'
<1> USE CritSecAssumption DEF IInv
<1>1. /\ pc[t] = "idle" /\ t \notin asleep /\ lpOwner[c] = t /\ iLockCount[c] > 0
      /\ dwOwnerThreadId[c] = t
      /\ UNCHANGED << semVars, nCurPriority, asleep, intrOff >>
    BY DEF LeaveCriticalSection, At, Runs, Accounts
<1>2. CASE /\ iLockCount[c] # 1
           /\ iLockCount' = [iLockCount EXCEPT ![c] = @ - 1]
           /\ inside' = [inside EXCEPT ![t][c] = @ - 1]
           /\ UNCHANGED << dwOwnerThreadId, pc, lpcs >>
  <2>1. iLockCount[c] - 1 \in Nat /\ iLockCount[c] - 1 > 0 /\ inside[t][c] = iLockCount[c]
      BY <1>1, <1>2 DEF TypeOK, Accounts
  <2>2. TypeOK'
      BY <1>1, <1>2, <2>1 DEF TypeOK, semVars
  <2>3. Accounts'
      BY <1>1, <1>2, <2>1 DEF Accounts, TypeOK, semVars
  <2>4. Leaving'
      BY <1>1, <1>2 DEF Leaving, Accounts, TypeOK, semVars
  <2>5. Calls' /\ PriorityRestored' /\ SleepersCounted'
      BY <1>1, <1>2 DEF Calls, PriorityRestored, SleepersCounted, UpPending, semVars
  <2> QED
      BY <2>2, <2>3, <2>4, <2>5
<1>3. CASE /\ iLockCount[c] = 1
           /\ dwOwnerThreadId' = [dwOwnerThreadId EXCEPT ![c] = Masked]
           /\ Goto(t, "leave", c)
           /\ UNCHANGED << iLockCount, inside >>
  <2>1. /\ pc' \in [Threads -> PCs] /\ pc'[t] = "leave"
        /\ lpcs' \in [Threads -> Sections \cup {NoSection}] /\ lpcs'[t] = c
        /\ \A u \in Threads \ {t} : pc'[u] = pc[u] /\ lpcs'[u] = lpcs[u]
      BY <1>3, GotoFacts DEF PCs
  <2>2. TypeOK'
      BY <1>1, <1>3, <2>1 DEF TypeOK, semVars
  <2>3. Accounts'
      BY <1>1, <1>3, <2>1 DEF Accounts, TypeOK, semVars
  <2>4. Leaving'
      BY <1>1, <1>3, <2>1 DEF Leaving, semVars
  <2>5. Calls' /\ PriorityRestored'
      BY SMTT(30), <1>1, <2>1 DEF Calls, PriorityRestored, TypeOK, semVars
  <2>6. SleepersCounted'
    <3>1. \A u \in asleep : u \in Threads \ {t}
        BY <1>1 DEF TypeOK
    <3>2. \A d \in Sections \cup {NoSection} : UpPending(d) => UpPending(d)'
        BY <1>1, <1>3, WakeupsStay DEF PCs
    <3> QED
        BY <1>1, <2>1, <3>1, <3>2 DEF SleepersCounted, TypeOK, semVars
  <2> QED
      BY <2>2, <2>3, <2>4, <2>5, <2>6
<1> QED
    BY <1>2, <1>3 DEF LeaveCriticalSection

LEMMA UpCritInv ==
  ASSUME IInv, NEW t \in Threads, UpCrit(t)
  PROVE  IInv'
<1> USE CritSecAssumption DEF IInv
<1> DEFINE c == lpcs[t]
<1>1. /\ pc[t] = "leave" /\ t \notin asleep /\ c \in Sections
      /\ lpOwner[c] = t /\ iLockCount[c] = 1 /\ nCount[c] = 0 /\ dwOwnerThreadId[c] # t
    BY InCall DEF UpCrit, At, Runs, Leaving, Accounts, TypeOK
<1>2. /\ nCount' = [nCount EXCEPT ![c] = 1]
      /\ lpOwner' = [lpOwner EXCEPT ![c] = NoThread]
      /\ dwOwnerThreadId' = [dwOwnerThreadId EXCEPT ![c] = NoThread]
      /\ iLockCount' = [iLockCount EXCEPT ![c] = 0]
      /\ nCurPriority' = [nCurPriority EXCEPT ![t] = nOriginPriority[t]]
      /\ nWaiting' = [nWaiting EXCEPT ![c] = FALSE]
      /\ inside' = [inside EXCEPT ![t][c] = 0]
      /\ UNCHANGED << asleep, intrOff >>
    BY DEF UpCrit
<1> DEFINE label == IF nWaiting[c] THEN "up" ELSE "idle"
           d     == IF nWaiting[c] THEN c ELSE NoSection
<1>3. Goto(t, label, d) /\ label \in PCs /\ d \in Sections \cup {NoSection}
    BY <1>1 DEF UpCrit, PCs
<1> HIDE DEF label, d
<1>4. /\ pc' \in [Threads -> PCs] /\ pc'[t] = label
      /\ lpcs' \in [Threads -> Sections \cup {NoSection}] /\ lpcs'[t] = d
      /\ \A u \in Threads \ {t} : pc'[u] = pc[u] /\ lpcs'[u] = lpcs[u]
    BY <1>3, GotoFacts
<1>5. nHighPriority' \in [Sections -> 0 .. IDLE_PRIORITY]
    BY <1>1 DEF UpCrit, TypeOK
<1>6. TypeOK'
  <2>1. inside' \in [Threads -> [Sections -> Nat]]
      BY <1>1, <1>2 DEF TypeOK
  <2>2. nCurPriority' \in [Threads -> 0 .. IDLE_PRIORITY - 1]
      BY <1>2 DEF TypeOK
  <2> QED
      BY <1>1, <1>2, <1>4, <1>5, <2>1, <2>2 DEF TypeOK
<1>7. Accounts'
  <2>1. \A e \in Sections, u \in Threads :
          inside'[u][e] = IF lpOwner'[e] = u THEN iLockCount'[e] ELSE 0
      BY <1>1, <1>2 DEF Accounts, TypeOK
  <2>2. \A e \in Sections : /\ nCount'[e] = 0 <=> lpOwner'[e] # NoThread
                            /\ lpOwner'[e] # NoThread => iLockCount'[e] > 0
      BY <1>1, <1>2 DEF Accounts, TypeOK
  <2>3. \A u \in Threads, e \in Sections : dwOwnerThreadId'[e] = u <=>
          lpOwner'[e] = u /\ ~(pc'[u] = "leave" /\ lpcs'[u] = e)
      BY <1>1, <1>2, <1>4 DEF Accounts, TypeOK, label
  <2> QED
      BY <2>1, <2>2, <2>3 DEF Accounts
<1>8. Leaving'
  <2>1. \A u \in Threads \ {t} : pc[u] = "leave" => lpcs[u] # c
      BY <1>1 DEF Leaving
  <2> QED
      BY <1>1, <1>2, <1>4, <2>1, InCall DEF Leaving, TypeOK, label
<1>9. Calls'
    BY <1>1, <1>2, <1>4 DEF Calls, TypeOK, label, d
<1>10. PriorityRestored'
  <2>1. \A u \in Threads : nOriginPriority[u] \in Int
    <3> SUFFICES ASSUME NEW u \in Threads PROVE nOriginPriority[u] \in Int
        OBVIOUS
    <3>1. nOriginPriority[u] \in 0 .. IDLE_PRIORITY - 1
        OBVIOUS
    <3> QED
        BY <3>1
  <2>2. nCurPriority'[t] = nOriginPriority[t]
      BY <1>2 DEF TypeOK
  <2>3. \A u \in Threads \ {t} : nCurPriority'[u] = nCurPriority[u]
      BY <1>2 DEF TypeOK
  <2>4. \A u \in Threads \ {t}, e \in Sections : lpOwner[e] = u => lpOwner'[e] = u
      BY <1>1, <1>2 DEF TypeOK
  <2> QED
      BY <2>1, <2>2, <2>3, <2>4 DEF PriorityRestored
<1>11. SleepersCounted'
  <2>1. \A e \in Sections \cup {NoSection} : UpPending(e) => UpPending(e)'
      BY <1>1, <1>3, WakeupsStay
  <2>2. \A e \in Sections : e = c /\ nWaiting[e] => UpPending(e)'
      BY <1>4 DEF UpPending, label, d
  <2>3. \A e \in Sections \ {c} : nWaiting'[e] = nWaiting[e] /\ nCount'[e] = nCount[e]
      BY <1>2 DEF TypeOK
  <2> SUFFICES ASSUME NEW u \in asleep', NEW e \in Sections, lpcs'[u] = e
               PROVE  /\ nWaiting'[e] \/ UpPending(e)'
                      /\ nCount'[e] = 1 => UpPending(e)'
      BY ZenonT(60), <1>1, <1>2, <1>4, InCall DEF SleepersCounted, Calls, TypeOK
  <2>4. u \in asleep /\ lpcs[u] = e
      BY <1>1, <1>2, <1>4 DEF TypeOK
  <2>5. CASE e = c
      BY <2>1, <2>2, <2>4, <2>5 DEF SleepersCounted
  <2>6. CASE e # c
      BY <2>1, <2>3, <2>4, <2>6 DEF SleepersCounted
  <2> QED
      BY <2>5, <2>6
<1> QED
    BY <1>6, <1>7, <1>8, <1>9, <1>10, <1>11

LEMMA UpInv ==
  ASSUME IInv, NEW t \in Threads, Up(t)
  PROVE  IInv'
<1> USE CritSecAssumption DEF IInv
<1>1. /\ pc[t] = "up" /\ t \notin asleep /\ lpcs[t] \in Sections
      /\ asleep' = {u \in asleep : lpcs[u] # lpcs[t]}
      /\ UNCHANGED << semVars, csVars, nCurPriority, intrOff, inside >>
    BY InCall DEF Up, At, Runs
<1>2. /\ pc' \in [Threads -> PCs] /\ pc'[t] = "idle"
      /\ lpcs' \in [Threads -> Sections \cup {NoSection}] /\ lpcs'[t] = NoSection
      /\ \A u \in Threads \ {t} : pc'[u] = pc[u] /\ lpcs'[u] = lpcs[u]
    BY GotoFacts DEF Up, PCs
<1>3. TypeOK'
    BY <1>1, <1>2 DEF TypeOK, semVars, csVars
<1>4. Accounts' /\ Leaving'
    BY <1>1, <1>2 DEF Accounts, Leaving, semVars, csVars
<1>5. Calls' /\ PriorityRestored'
  <2>1. Calls'
    BY <1>1, <1>2 DEF Calls, TypeOK, semVars
  <2>2. PriorityRestored'
    BY <1>1, <1>2 DEF PriorityRestored, TypeOK, semVars
  <2>3. QED BY <2>1, <2>2
<1>6. SleepersCounted'
  <2>1. \A e \in Sections : e # lpcs[t] /\ UpPending(e) => UpPending(e)'
      BY <1>2 DEF UpPending
  <2> SUFFICES ASSUME NEW u \in asleep', NEW e \in Sections, lpcs'[u] = e
               PROVE  /\ nWaiting'[e] \/ UpPending(e)'
                      /\ nCount'[e] = 1 => UpPending(e)'
      BY <1>1, <1>2, InCall DEF SleepersCounted, Calls, TypeOK
  <2>2. u \in asleep /\ lpcs[u] = e /\ e # lpcs[t]
      BY <1>1, <1>2 DEF TypeOK
  <2> QED
      BY <1>1, <2>1, <2>2 DEF SleepersCounted, semVars
<1> QED
    BY <1>3, <1>4, <1>5, <1>6
-----------------------------------------------------------------------------
LEMMA NextInv == IInv /\ [Next]_vars => IInv'
<1> SUFFICES ASSUME IInv, [Next]_vars PROVE IInv'
    OBVIOUS
<1>1. CASE Next
  <2>1. PICK t \in Threads : Call(t) \/ Inside(t) \/ ParkFails(t)
      BY <1>1 DEF Next
  <2>2. ASSUME NEW c \in Sections, EnterCriticalSection(t, c) PROVE IInv'
      BY <2>2, DoEnterInv DEF EnterCriticalSection
  <2>3. ASSUME NEW c \in TrySections, TryEnterCriticalSection(t, c) PROVE IInv'
      BY <2>3, DoEnterInv, CritSecAssumption DEF TryEnterCriticalSection
  <2>4. ASSUME NEW c \in Sections, LeaveCriticalSection(t, c) PROVE IInv'
      BY <2>4, LeaveInv
  <2>5. CASE Call(t)
      BY <2>2, <2>3, <2>4, <2>5 DEF Call
  <2>6. CASE Inside(t)
      BY <2>6, DownCritInv, TryDownCritInv, SleepInv, UpCritInv, UpInv DEF Inside
  <2> QED
      BY <2>1, <2>5, <2>6, ParkFailsInv
<1>2. CASE UNCHANGED vars
  <2> USE <1>2 DEF IInv, vars, semVars, csVars
  <2>1. TypeOK' /\ Calls' /\ Leaving' /\ PriorityRestored'
      BY DEF TypeOK, Calls, Leaving, PriorityRestored
  <2>2. Accounts'
      BY DEF Accounts
  <2>3. SleepersCounted'
      BY DEF SleepersCounted, UpPending
  <2> QED
      BY <2>1, <2>2, <2>3
<1> QED
    BY <1>1, <1>2

(***************************************************************************)
(* The inductive invariant holds in every reachable state: the semaphore   *)
(* below a section, the section's own fields, the clients' entries, the    *)
(* priorities and the sleepers agree between any two steps of              *)
(* DoEnterCriticalSection, KL_LeaveCriticalSection, DownCrit and UpCrit.   *)
(***************************************************************************)
THEOREM Invariance == Spec => []IInv
BY InitInv, NextInv, PTL DEF Spec

\* Every variable keeps its type (the fields of SEMAPHORE and CRITICAL_SECTION).
THEOREM TypeCorrect == Spec => []TypeOK
<1>1. IInv => TypeOK
    BY DEF IInv
<1> QED
    BY <1>1, Invariance, PTL

(***************************************************************************)
(* DownCrit never follows a null lpOwner and the assertions of UpCrit hold *)
(* (downup.c:98-99, 204).                                                  *)
(***************************************************************************)
THEOREM OwnersKnown == Spec => []OwnerKnown
<1>1. IInv => OwnerKnown
  <2>1. ASSUME IInv, NEW t \in Threads, pc[t] = "leave"
        PROVE  lpOwner[lpcs[t]] = t /\ nCount[lpcs[t]] = 0
      BY <2>1, InCall, CritSecAssumption DEF IInv, Leaving, Accounts, TypeOK
  <2>2. ASSUME IInv, NEW c \in Sections, nCount[c] = 0 PROVE lpOwner[c] # NoThread
      BY <2>2 DEF IInv, Accounts
  <2> QED
      BY <2>1, <2>2 DEF OwnerKnown
<1> QED
    BY <1>1, Invariance, PTL

\* Inherited priority is given back by the time a thread holds no section.
THEOREM PrioritiesRestored == Spec => []PriorityRestored
<1>1. IInv => PriorityRestored
    BY DEF IInv
<1> QED
    BY <1>1, Invariance, PTL

\* No thread sleeps on a section uncounted, or on a free one with no wake-up
\* on its way (downup.c:118-128 against sche.c:950-963).
THEOREM SleepersAreCounted == Spec => []SleepersCounted
<1>1. IInv => SleepersCounted
    BY DEF IInv
<1> QED
    BY <1>1, Invariance, PTL
-----------------------------------------------------------------------------
(* Clients see re-entrant locks. *)

\* What a thread holds, as the abstract pool sees it.
LEMMA HoldFacts ==
  ASSUME IInv, NEW t \in Threads, NEW c \in Sections
  PROVE  /\ inside[t][c] \in Nat /\ nCount[c] \in {0, 1}
         /\ lpOwner[c] = t => /\ Pool!Again(t, c) /\ Pool!Holds(t, c)
                              /\ inside[t][c] = iLockCount[c] /\ nCount[c] = 0
         /\ lpOwner[c] = NoThread => nCount[c] = 1 /\ ~Pool!Again(t, c)
BY CritSecAssumption DEF IInv, Accounts, TypeOK, Pool!Again, Pool!Holds

\* A recursive entry and Own both acquire the one section.
LEMMA AcquireOne ==
  ASSUME IInv, NEW t \in Threads, NEW c \in Sections,
         lpOwner[c] \in {t, NoThread},
         inside' = [inside EXCEPT ![t][c] = @ + 1],
         nCount' = [nCount EXCEPT ![c] = 0]
  PROVE  Pool!Acquire(t, {c})
<1> USE DEF IInv
<1>1. nCount[c] > 0 \/ Pool!Again(t, c)
    BY HoldFacts
<1>2. nCount' = [r \in Sections |-> IF r \in {c} /\ ~Pool!Again(t, r) THEN nCount[r] - 1
                                    ELSE nCount[r]]
  <2>1. nCount'[c] = IF ~Pool!Again(t, c) THEN nCount[c] - 1 ELSE nCount[c]
      BY HoldFacts DEF TypeOK
  <2> QED
      BY <2>1 DEF TypeOK
<1>3. inside' = [inside EXCEPT ![t] = [r \in Sections |-> IF r \in {c} THEN @[r] + 1
                                                         ELSE @[r]]]
    BY DEF TypeOK
<1> QED
    BY <1>1, <1>2, <1>3 DEF Pool!Acquire

LEMMA OwnAcquires ==
  ASSUME IInv, NEW t \in Threads, NEW c \in Sections, Own(t, c)
  PROVE  Pool!Acquire(t, {c})
<1>1. lpOwner[c] = NoThread
    BY DEF Own, IInv, Accounts, TypeOK
<1> QED
    BY <1>1, AcquireOne DEF Own

\* A recursive entry is one more acquisition; a first entry only starts a call.
LEMMA DoEnterRefines ==
  ASSUME IInv, NEW t \in Threads, NEW c \in Sections, NEW label, DoEnter(t, c, label)
  PROVE  Pool!Acquire(t, {c}) \/ UNCHANGED Pool!vars
<1>1. CASE dwOwnerThreadId[c] = t /\ inside' = [inside EXCEPT ![t][c] = @ + 1]
  <2>1. lpOwner[c] = t /\ nCount[c] = 0
      BY <1>1, HoldFacts DEF IInv, Accounts
  <2>2. nCount' = [nCount EXCEPT ![c] = 0]
      BY <2>1 DEF DoEnter, semVars, IInv, TypeOK
  <2> QED
      BY <1>1, <2>1, <2>2, AcquireOne
<1>2. CASE UNCHANGED inside
    BY <1>2 DEF DoEnter, semVars, Pool!vars
<1> QED
    BY <1>1, <1>2 DEF DoEnter

\* An inner leave gives one hold back; the last one does so in UpCrit.
LEMMA LeaveRefines ==
  ASSUME IInv, NEW t \in Threads, NEW c \in Sections, LeaveCriticalSection(t, c)
  PROVE  Pool!GiveBack(t, c) \/ UNCHANGED Pool!vars
<1>1. CASE iLockCount[c] # 1 /\ inside' = [inside EXCEPT ![t][c] = @ - 1]
  <2>1. lpOwner[c] = t /\ iLockCount[c] > 1
      BY <1>1, CritSecAssumption DEF LeaveCriticalSection, IInv, Accounts, TypeOK
  <2>2. Pool!Holds(t, c) /\ inside[t][c] > 1
      BY <2>1, HoldFacts
  <2>3. nCount' = [nCount EXCEPT ![c] = IF c \in Sections /\ inside[t][c] > 1 THEN @ ELSE @ + 1]
      BY <2>2 DEF LeaveCriticalSection, semVars, IInv, TypeOK
  <2> QED
      BY <1>1, <2>2, <2>3 DEF Pool!GiveBack
<1>2. CASE UNCHANGED inside
    BY <1>2 DEF LeaveCriticalSection, semVars, Pool!vars
<1> QED
    BY <1>1, <1>2 DEF LeaveCriticalSection

LEMMA UpCritRefines ==
  ASSUME IInv, NEW t \in Threads, UpCrit(t)
  PROVE  \E c \in Sections : Pool!GiveBack(t, c)
<1>1. lpcs[t] \in Sections /\ lpOwner[lpcs[t]] = t /\ iLockCount[lpcs[t]] = 1
    BY InCall DEF UpCrit, At, IInv, Leaving
<1>2. PICK c \in Sections : c = lpcs[t]
    BY <1>1
<1>3. inside[t][c] = 1 /\ Pool!Holds(t, c) /\ nCount[c] = 0
    BY <1>1, <1>2, HoldFacts
<1>4. inside' = [inside EXCEPT ![t][c] = @ - 1]
    BY <1>2, <1>3 DEF UpCrit, IInv, TypeOK
<1>5. nCount' = [nCount EXCEPT ![c] = IF c \in Sections /\ inside[t][c] > 1 THEN @ ELSE @ + 1]
    BY <1>2, <1>3 DEF UpCrit, IInv, TypeOK
<1> QED
    BY <1>3, <1>4, <1>5 DEF Pool!GiveBack

LEMMA PoolNext ==
  ASSUME IInv, [Next]_vars
  PROVE  [Pool!Next]_(Pool!vars)
<1>1. ASSUME NEW t \in Threads, Call(t) PROVE [Pool!Next]_(Pool!vars)
  <2>1. ASSUME NEW c \in Sections, EnterCriticalSection(t, c)
        PROVE  [Pool!Next]_(Pool!vars)
      BY <2>1, DoEnterRefines DEF EnterCriticalSection, Pool!Next
  <2>2. ASSUME NEW c \in TrySections, TryEnterCriticalSection(t, c)
        PROVE  [Pool!Next]_(Pool!vars)
      BY <2>2, DoEnterRefines, CritSecAssumption DEF TryEnterCriticalSection, Pool!Next
  <2>3. ASSUME NEW c \in Sections, LeaveCriticalSection(t, c)
        PROVE  [Pool!Next]_(Pool!vars)
      BY <2>3, LeaveRefines DEF Pool!Next
  <2> QED
      BY <1>1, <2>1, <2>2, <2>3 DEF Call
<1>2. ASSUME NEW t \in Threads, Inside(t) PROVE [Pool!Next]_(Pool!vars)
  <2>1. CASE pc[t] \in {"down", "try"} /\ Own(t, lpcs[t])
      BY <2>1, InCall, OwnAcquires DEF Pool!Next
  <2>2. CASE UpCrit(t)
      BY <2>2, UpCritRefines DEF Pool!Next
  <2>3. CASE Park(t) \/ Resume(t) \/ Up(t) \/ RaiseOwner(t, lpcs[t])
      BY <2>3 DEF Park, Resume, Sleep, Up, RaiseOwner, semVars, Pool!vars
  <2>4. CASE UNCHANGED << semVars, inside >>
      BY <2>4 DEF semVars, Pool!vars
  <2> QED
      BY <1>2, <2>1, <2>2, <2>3, <2>4 DEF Inside, DownCrit, TryDownCrit, At
<1>3. ASSUME NEW t \in Threads, ParkFails(t) PROVE UNCHANGED Pool!vars
    BY <1>3 DEF ParkFails, semVars, Pool!vars
<1>4. CASE UNCHANGED vars
    BY <1>4 DEF vars, semVars, Pool!vars
<1> QED
    BY <1>1, <1>2, <1>3, <1>4 DEF Next

(***************************************************************************)
(* To its clients a critical section is a re-entrant lock: whatever the    *)
(* priorities, the wake-ups, the masked owner identifier and a failed      *)
(* allocation do inside, it is taken by one thread at a time and freed     *)
(* only by the last leave of that thread.                                  *)
(***************************************************************************)
THEOREM SectionsImplementPool == Spec => ImplementsPool
<1>1. Init => Pool!Init
    BY DEF Init, Pool!Init
<1>2. IInv /\ [Next]_vars => [Pool!Next]_(Pool!vars)
    BY PoolNext
<1> QED
    BY <1>1, <1>2, Invariance, PTL DEF Spec, ImplementsPool, Pool!Spec
=============================================================================
