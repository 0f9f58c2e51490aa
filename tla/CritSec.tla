------------------------------- MODULE CritSec -------------------------------
(***************************************************************************)
(* Critical sections with priority inheritance: Enter, TryEnter and Leave  *)
(* CriticalSection (core/kernel/semaphor.c) over DownCrit and UpCrit       *)
(* (downup.c).  One action is one stretch of code with interrupts off.  A  *)
(* thread that must wait goes through __DownSemphores, seen here for one   *)
(* object and no timeout; KernelWait has the whole of it, and its theorem  *)
(* WakeupsNotLost says that every sleeper is queued on its object, so that *)
(* the wait queue needs no variable here.                                  *)
(***************************************************************************)
EXTENDS Integers

CONSTANTS
  Threads, Sections,
  TrySections,      \* sections some client calls TryEnterCriticalSection on
  nOriginPriority,  \* [Threads -> 0 .. IDLE_PRIORITY - 1], 0 the most urgent
  IDLE_PRIORITY,
  ByPriority,       \* TRUE: a runnable thread runs before any less urgent one;
                    \* FALSE: any order, as with suspended threads
  LockLimit,        \* bound on the recursion of one thread on one section
  NoThread,         \* dwOwnerThreadId = -1, lpOwner = NULL
  Masked,           \* an identifier with bit 0 set: it is no thread's
  NoSection

ASSUME CritSecAssumption ==
  /\ TrySections \subseteq Sections
  /\ IDLE_PRIORITY \in Nat
  /\ nOriginPriority \in [Threads -> 0 .. IDLE_PRIORITY - 1]
  /\ ByPriority \in BOOLEAN /\ LockLimit \in Nat
  /\ NoThread \notin Threads /\ Masked \notin Threads \cup {NoThread}
  /\ NoSection \notin Sections

VARIABLES
  nCount, lpOwner, nWaiting, nHighPriority,  \* SEMAPHORE of each section, with
                                             \* nWaiting # 0 as a BOOLEAN
  dwOwnerThreadId, iLockCount,  \* CRITICAL_SECTION
  nCurPriority,  \* [Threads -> 0 .. IDLE_PRIORITY - 1]
  asleep,        \* threads off the run queue
  pc, lpcs,      \* where each thread is, and in a call on which section
  intrOff,       \* the thread that runs with interrupts left off, or NoThread
  inside         \* history: [Threads -> [Sections -> Nat]], entries not left

semVars == << nCount, lpOwner, nWaiting, nHighPriority >>
csVars  == << dwOwnerThreadId, iLockCount >>
vars == << semVars, csVars, nCurPriority, asleep, pc, lpcs, intrOff, inside >>

Init ==
  /\ nCount = [c \in Sections |-> 1]
  /\ lpOwner = [c \in Sections |-> NoThread]
  /\ nWaiting = [c \in Sections |-> FALSE]
  /\ nHighPriority = [c \in Sections |-> IDLE_PRIORITY]
  /\ dwOwnerThreadId = [c \in Sections |-> NoThread]
  /\ iLockCount = [c \in Sections |-> 0]
  /\ nCurPriority = nOriginPriority
  /\ asleep = {}
  /\ pc = [t \in Threads |-> "idle"]
  /\ lpcs = [t \in Threads |-> NoSection]
  /\ intrOff = NoThread
  /\ inside = [t \in Threads |-> [c \in Sections |-> 0]]

\* A thread that left interrupts off is never preempted.  An idle thread may
\* be blocked elsewhere, so that it keeps no other from running.
Runs(t) ==
  /\ t \notin asleep /\ intrOff \in {NoThread, t}
  /\ ByPriority => \A u \in Threads \ asleep :
       pc[u] # "idle" => nCurPriority[t] <= nCurPriority[u]

At(t, label) == Runs(t) /\ pc[t] = label

Goto(t, label, c) == /\ pc' = [pc EXCEPT ![t] = label]
                     /\ lpcs' = [lpcs EXCEPT ![t] = c]

-----------------------------------------------------------------------------
(* Entering. *)

\* DoEnterCriticalSection: a recursive entry, or on to DownCrit.
DoEnter(t, c, label) ==
  /\ At(t, "idle")
  /\ \/ /\ dwOwnerThreadId[c] = t /\ inside[t][c] < LockLimit
        /\ iLockCount' = [iLockCount EXCEPT ![c] = @ + 1]
        /\ inside' = [inside EXCEPT ![t][c] = @ + 1]
        /\ UNCHANGED << pc, lpcs >>
     \/ /\ dwOwnerThreadId[c] # t
        /\ Goto(t, label, c)
        /\ UNCHANGED << iLockCount, inside >>
  /\ UNCHANGED << semVars, dwOwnerThreadId, nCurPriority, asleep, intrOff >>

EnterCriticalSection(t, c)    == DoEnter(t, c, "down")
TryEnterCriticalSection(t, c) == DoEnter(t, c, "try")

\* DownCrit on a free section: own it, at the priority last asked for it.
Own(t, c) ==
  /\ nCount[c] > 0
  /\ nCount' = [nCount EXCEPT ![c] = 0]
  /\ lpOwner' = [lpOwner EXCEPT ![c] = t]
  /\ dwOwnerThreadId' = [dwOwnerThreadId EXCEPT ![c] = t]
  /\ iLockCount' = [iLockCount EXCEPT ![c] = 1]
  /\ nCurPriority' = [nCurPriority EXCEPT ![t] =
                        IF @ > nHighPriority[c] THEN nHighPriority[c] ELSE @]
  /\ inside' = [inside EXCEPT ![t][c] = @ + 1]
  /\ Goto(t, "idle", NoSection)
  /\ UNCHANGED << nWaiting, nHighPriority, asleep, intrOff >>

\* DownCrit on a taken section: lend the owner the waiter's priority.
RaiseOwner(t, c) ==
  /\ nCount[c] = 0
  /\ IF nCurPriority[lpOwner[c]] > nCurPriority[t]
     THEN /\ nHighPriority' = [nHighPriority EXCEPT ![c] = nCurPriority[t]]
          /\ nCurPriority' = [nCurPriority EXCEPT ![lpOwner[c]] = nCurPriority[t]]
     ELSE UNCHANGED << nHighPriority, nCurPriority >>
  /\ Goto(t, "park", c)
  /\ UNCHANGED << nCount, lpOwner, nWaiting, csVars, asleep, intrOff, inside >>

DownCrit(t) == /\ At(t, "down")
               /\ Own(t, lpcs[t]) \/ RaiseOwner(t, lpcs[t])

\* DownCrit for TryEnter: the early return leaves interrupts off.
TryDownCrit(t) ==
  /\ At(t, "try")
  /\ \/ Own(t, lpcs[t])
     \/ /\ nCount[lpcs[t]] = 0
        /\ intrOff' = t
        /\ Goto(t, "idle", NoSection)
        /\ UNCHANGED << semVars, csVars, nCurPriority, asleep, inside >>

\* Bug: a waiter woken in vain sleeps again without counting itself.
SleepUncounted(t) ==
  LET c == lpcs[t]
  IN /\ \/ /\ nCount[c] # 0 /\ Goto(t, "down", c)
           /\ UNCHANGED << nWaiting, asleep >>
        \/ /\ nCount[c] = 0 /\ Goto(t, "asleep", c)
           /\ nWaiting' = [nWaiting EXCEPT ![c] = @ \/ pc[t] = "park"]
           /\ asleep' = asleep \cup {t}
     /\ intrOff' = NoThread
     /\ UNCHANGED << nCount, lpOwner, nHighPriority, csVars, nCurPriority, inside >>

\* __DownSemphores: back to DownCrit when the section is free, else count as a
\* waiter and sleep.  It turns interrupts on, however it was called.
Sleep(t) ==
  LET c == lpcs[t]
  IN /\ \/ /\ nCount[c] # 0 /\ Goto(t, "down", c)
           /\ UNCHANGED << nWaiting, asleep >>
        \/ /\ nCount[c] = 0 /\ Goto(t, "asleep", c)
           /\ nWaiting' = [nWaiting EXCEPT ![c] = TRUE]
           /\ asleep' = asleep \cup {t}
     /\ intrOff' = NoThread
     /\ UNCHANGED << nCount, lpOwner, nHighPriority, csVars, nCurPriority, inside >>

Park(t)   == At(t, "park") /\ Sleep(t)
Resume(t) == At(t, "asleep") /\ Sleep(t)

\* No memory for the wait node: DownCrit does not look at the result.
ParkFails(t) ==
  /\ At(t, "park")
  /\ Goto(t, "down", lpcs[t])
  /\ UNCHANGED << semVars, csVars, nCurPriority, asleep, intrOff, inside >>

-----------------------------------------------------------------------------
(* Leaving. *)

\* Bugs: anybody may leave a section; any leave is taken for the last one; the
\* owner's identifier is not masked.
LeaveUnowned(t, c) ==
  /\ At(t, "idle")
  /\ \/ /\ iLockCount[c] # 1
        /\ iLockCount' = [iLockCount EXCEPT ![c] = @ - 1]
        /\ UNCHANGED << dwOwnerThreadId, pc, lpcs >>
     \/ /\ iLockCount[c] = 1
        /\ dwOwnerThreadId' = [dwOwnerThreadId EXCEPT ![c] = Masked]
        /\ Goto(t, "leave", c)
        /\ UNCHANGED iLockCount
  /\ UNCHANGED << semVars, nCurPriority, asleep, intrOff, inside >>

LeaveAtOnce(t, c) ==
  /\ At(t, "idle") /\ dwOwnerThreadId[c] = t
  /\ dwOwnerThreadId' = [dwOwnerThreadId EXCEPT ![c] = Masked]
  /\ Goto(t, "leave", c)
  /\ UNCHANGED << semVars, iLockCount, inside, nCurPriority, asleep, intrOff >>
\* LeaveCriticalSection by the owner: an inner leave, or the last one, which
\* masks the owner's identifier and goes on to UpCrit.
LeaveCriticalSection(t, c) ==
  /\ At(t, "idle") /\ dwOwnerThreadId[c] = t
  /\ \/ /\ iLockCount[c] # 1
        /\ iLockCount' = [iLockCount EXCEPT ![c] = @ - 1]
        /\ inside' = [inside EXCEPT ![t][c] = @ - 1]
        /\ UNCHANGED << dwOwnerThreadId, pc, lpcs >>
     \/ /\ iLockCount[c] = 1
        /\ dwOwnerThreadId' = [dwOwnerThreadId EXCEPT ![c] = Masked]
        /\ Goto(t, "leave", c)
        /\ UNCHANGED << iLockCount, inside >>
  /\ UNCHANGED << semVars, nCurPriority, asleep, intrOff >>

\* Bug: the priority is restored only when nobody waits.
UpCritKeepsPriority(t) ==
  LET c == lpcs[t]
  IN /\ At(t, "leave")
     /\ nCount' = [nCount EXCEPT ![c] = 1]
     /\ lpOwner' = [lpOwner EXCEPT ![c] = NoThread]
     /\ dwOwnerThreadId' = [dwOwnerThreadId EXCEPT ![c] = NoThread]
     /\ iLockCount' = [iLockCount EXCEPT ![c] = 0]
     /\ nWaiting' = [nWaiting EXCEPT ![c] = FALSE]
     /\ IF nWaiting[c]
        THEN Goto(t, "up", c) /\ UNCHANGED << nHighPriority, nCurPriority >>
        ELSE /\ Goto(t, "idle", NoSection)
             /\ nHighPriority' = [nHighPriority EXCEPT ![c] = IDLE_PRIORITY]
             /\ nCurPriority' = [nCurPriority EXCEPT ![t] = nOriginPriority[t]]
     /\ inside' = [inside EXCEPT ![t][c] = 0]
     /\ UNCHANGED << asleep, intrOff >>

UpCrit(t) ==
  LET c == lpcs[t]
  IN /\ At(t, "leave")
     /\ nCount' = [nCount EXCEPT ![c] = 1]
     /\ lpOwner' = [lpOwner EXCEPT ![c] = NoThread]
     /\ dwOwnerThreadId' = [dwOwnerThreadId EXCEPT ![c] = NoThread]
     /\ iLockCount' = [iLockCount EXCEPT ![c] = 0]
     /\ nCurPriority' = [nCurPriority EXCEPT ![t] = nOriginPriority[t]]
     /\ nWaiting' = [nWaiting EXCEPT ![c] = FALSE]
     /\ IF nWaiting[c]
        THEN Goto(t, "up", c) /\ UNCHANGED nHighPriority
        ELSE /\ Goto(t, "idle", NoSection)
             /\ nHighPriority' = [nHighPriority EXCEPT ![c] = IDLE_PRIORITY]
     /\ inside' = [inside EXCEPT ![t][c] = 0]
     /\ UNCHANGED << asleep, intrOff >>

\* Bugs: the owner is cleared after the wake-up; only one sleeper is woken.
UpClearsOwner(t) ==
  /\ At(t, "up")
  /\ asleep' = {u \in asleep : lpcs[u] # lpcs[t]}
  /\ lpOwner' = [lpOwner EXCEPT ![lpcs[t]] = NoThread]
  /\ Goto(t, "idle", NoSection)
  /\ UNCHANGED << nCount, nWaiting, nHighPriority, csVars, nCurPriority, intrOff,
                  inside >>

UpOne(t) ==
  /\ At(t, "up")
  /\ LET here == {u \in asleep : lpcs[u] = lpcs[t]}
     IN asleep' = IF here = {} THEN asleep ELSE asleep \ {CHOOSE u \in here : TRUE}
  /\ Goto(t, "idle", NoSection)
  /\ UNCHANGED << semVars, csVars, nCurPriority, intrOff, inside >>

\* __Up: every sleeper of the section becomes runnable.
Up(t) ==
  /\ At(t, "up")
  /\ asleep' = {u \in asleep : lpcs[u] # lpcs[t]}
  /\ Goto(t, "idle", NoSection)
  /\ UNCHANGED << semVars, csVars, nCurPriority, intrOff, inside >>

-----------------------------------------------------------------------------
Inside(t) == DownCrit(t) \/ TryDownCrit(t) \/ Park(t) \/ Resume(t) \/ UpCrit(t)
               \/ Up(t)

Call(t) == \/ \E c \in Sections : EnterCriticalSection(t, c) \/ LeaveCriticalSection(t, c)
           \/ \E c \in TrySections : TryEnterCriticalSection(t, c)

Next == \E t \in Threads : Call(t) \/ Inside(t) \/ ParkFails(t)

Spec == Init /\ [][Next]_vars

\* A thread inside the kernel runs again: more urgent threads block in the end.
FairSpec == Spec /\ \A t \in Threads : WF_vars(Inside(t))

-----------------------------------------------------------------------------
PCs == {"idle", "down", "try", "park", "asleep", "leave", "up"}

TypeOK ==
  /\ nCount \in [Sections -> {0, 1}]
  /\ lpOwner \in [Sections -> Threads \cup {NoThread}]
  /\ nWaiting \in [Sections -> BOOLEAN]
  /\ nHighPriority \in [Sections -> 0 .. IDLE_PRIORITY]
  /\ dwOwnerThreadId \in [Sections -> Threads \cup {NoThread, Masked}]
  /\ iLockCount \in [Sections -> Nat]
  /\ nCurPriority \in [Threads -> 0 .. IDLE_PRIORITY - 1]
  /\ asleep \subseteq Threads
  /\ pc \in [Threads -> PCs]
  /\ lpcs \in [Threads -> Sections \cup {NoSection}]
  /\ intrOff \in Threads \cup {NoThread}
  /\ inside \in [Threads -> [Sections -> Nat]]

(***************************************************************************)
(* DownCrit dereferences lpOwner whenever the section is taken             *)
(* (downup.c:204), and UpCrit asserts that the section is taken by the     *)
(* thread that leaves it (downup.c:98-99).                                 *)
(***************************************************************************)
OwnerKnown ==
  /\ \A c \in Sections : nCount[c] = 0 => lpOwner[c] # NoThread
  /\ \A t \in Threads : pc[t] = "leave" => lpOwner[lpcs[t]] = t /\ nCount[lpcs[t]] = 0

(***************************************************************************)
(* A thread that holds no section runs at its own priority, and no thread  *)
(* ever runs at a lower one: what was inherited is given back, although    *)
(* nHighPriority outlives the waiter that set it (downup.c:110-128).       *)
(***************************************************************************)
PriorityRestored ==
  \A t \in Threads :
    /\ nCurPriority[t] <= nOriginPriority[t]
    /\ nCurPriority[t] # nOriginPriority[t] => \E c \in Sections : lpOwner[c] = t

(***************************************************************************)
(* A thread sleeps on a section only while it is counted there or the      *)
(* thread that freed the section is about to wake it; on a free section    *)
(* the wake-up is always on its way.                                       *)
(***************************************************************************)
UpPending(c) == \E u \in Threads : pc[u] = "up" /\ lpcs[u] = c

SleepersCounted ==
  \A t \in asleep :
    /\ nWaiting[lpcs[t]] \/ UpPending(lpcs[t])
    /\ nCount[lpcs[t]] = 1 => UpPending(lpcs[t])

-----------------------------------------------------------------------------
(* The inductive invariant behind the three and the refinement. *)

\* The semaphore, the section's own fields and the clients' view agree.
Accounts ==
  /\ \A c \in Sections :
       /\ nCount[c] = 0 <=> lpOwner[c] # NoThread
       /\ lpOwner[c] # NoThread => iLockCount[c] > 0
       /\ \A t \in Threads : inside[t][c] = IF lpOwner[c] = t THEN iLockCount[c] ELSE 0
  /\ \A t \in Threads, c \in Sections : dwOwnerThreadId[c] = t <=>
       lpOwner[c] = t /\ ~(pc[t] = "leave" /\ lpcs[t] = c)

\* A thread in UpCrit is on its last leave of a section it owns.
Leaving ==
  \A t \in Threads : pc[t] = "leave" => lpOwner[lpcs[t]] = t /\ iLockCount[lpcs[t]] = 1

Calls ==
  /\ \A t \in Threads : pc[t] = "idle" <=> lpcs[t] = NoSection
  /\ \A t \in asleep : pc[t] = "asleep"

IInv == /\ TypeOK /\ Calls /\ Accounts /\ Leaving
        /\ PriorityRestored /\ SleepersCounted

-----------------------------------------------------------------------------
(***************************************************************************)
(* No section stays free for ever while a thread is entering it, unless a  *)
(* failed TryEnterCriticalSection has left interrupts off (downup.c:217).  *)
(***************************************************************************)
FreeServed ==
  \A t \in Threads, c \in Sections :
    ~<>[](/\ lpcs[t] = c /\ pc[t] \in {"down", "park", "asleep"}
          /\ nCount[c] = 1 /\ intrOff = NoThread)

(***************************************************************************)
(* Clients see an abstract re-entrant lock per section.                    *)
(***************************************************************************)
Pool == INSTANCE ResourcePool WITH
          Clients <- Threads, Resources <- Sections, Reentrant <- Sections,
          Capacity <- [c \in Sections |-> 1],
          free <- nCount, held <- inside

ImplementsPool == Pool!Spec

=============================================================================
