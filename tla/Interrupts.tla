----------------------------- MODULE Interrupts -----------------------------
(***************************************************************************)
(* Interrupts from the device to its driver thread: the emulated           *)
(* controller (core/win32/emlcpu.c), the OEM layer (oemintr.c, sysintr.c), *)
(* the dispatch of service routines (core/kernel/isr.c) and the interrupt  *)
(* services of drivers (intrapi.c).  The processor is one: a driver thread *)
(* takes steps while no routine runs and interrupts are on; the devices    *)
(* and the controller are threads of the host and take theirs at any time. *)
(***************************************************************************)
EXTENDS Integers, Sequences, FiniteSets

CONSTANTS
  SYSINTR_MAXIMUM,  \* routines are numbered from 0 to SYSINTR_MAXIMUM - 1
  SYSINTR_TIMING,   \* the routine of the tick, raised as timer0
  Devices,          \* interrupt identifiers that some hardware raises
  Masking,          \* those that OEM_InterruptHandler masks: not the alarm
  Absent,           \* identifiers a driver may ask for that have no hardware
  Careless,         \* devices whose driver may skip KL_IntrDone: the keyboard
  Rank              \* the order in which OEM_InterruptHandler looks at sources

ISRs == 0 .. SYSINTR_MAXIMUM - 1
Sources == Devices \cup {SYSINTR_TIMING}
NoIsr == SYSINTR_MAXIMUM   \* no routine; ISR_ALL_INTRS as an argument

ASSUME InterruptsAssumption ==
  /\ SYSINTR_MAXIMUM \in Nat /\ SYSINTR_TIMING \in ISRs
  /\ Devices \subseteq ISRs /\ Absent \subseteq ISRs
  /\ Masking \subseteq Devices /\ Careless \subseteq Devices
  /\ SYSINTR_TIMING \notin Devices \cup Absent
  /\ Devices \cap Absent = {}
  /\ Rank \in [Sources -> Nat]

VARIABLES
  intrBits,         \* sources that have raised their interrupt
  racing,           \* those doing so while OEM_InterruptHandler writes a bit
  intrMask,         \* sources that are let through
  hHardwareEvent,   \* the controller has something to look at
  cpu,              \* "on": interrupts on; "trap", "clear", "scan": off, see Next
  taken,            \* the source OEM_InterruptHandler has found
  bISRActives, bISRMasks, iISRActiveCount,
  nISRHandlerCount, \* is it not 0
  nLockScheCount,   \* of the thread that was interrupted
  frames,           \* the ISR_Handler calls that run, the last one first:
                    \* [id, idx, isr] and whether Schedule has to follow
  events,           \* interrupt events that are set
  driver            \* where the driver thread of an identifier is

vars == << intrBits, racing, intrMask, hHardwareEvent, cpu, taken, bISRActives,
           bISRMasks, iISRActiveCount, nISRHandlerCount, nLockScheCount,
           frames, events, driver >>

hardware == << intrBits, racing, hHardwareEvent >>
dispatch == << bISRActives, bISRMasks, iISRActiveCount, nISRHandlerCount,
               nLockScheCount, frames >>

Frame == [id : ISRs \cup {NoIsr}, idx : 0 .. SYSINTR_MAXIMUM,
          isr : ISRs \cup {NoIsr}, resched : BOOLEAN]

TypeOK ==
  /\ intrBits \subseteq Sources /\ racing \subseteq Sources
  /\ intrMask \subseteq Sources
  /\ hHardwareEvent \in BOOLEAN
  /\ cpu \in {"on", "trap", "clear", "scan"}
  /\ taken \in Sources
  /\ bISRActives \subseteq ISRs /\ bISRMasks \subseteq ISRs
  /\ iISRActiveCount \in Int
  /\ nISRHandlerCount \in BOOLEAN
  /\ nLockScheCount \in Nat
  /\ frames \in Seq(Frame)
  /\ events \subseteq Devices
  /\ driver \in [Devices \cup Absent ->
                   {"none", "registered", "wait", "work", "away", "disabled"}]

\* ISR_Init, and InitScheduler, which registers the tick.
Init ==
  /\ intrBits = {} /\ racing = {} /\ intrMask = {SYSINTR_TIMING}
  /\ hHardwareEvent = FALSE
  /\ cpu = "on" /\ taken = SYSINTR_TIMING
  /\ bISRActives = {} /\ bISRMasks = {SYSINTR_TIMING} /\ iISRActiveCount = 0
  /\ nISRHandlerCount = FALSE /\ nLockScheCount = 0 /\ frames = << >>
  /\ events = {}
  /\ driver = [d \in Devices \cup Absent |-> "none"]

-----------------------------------------------------------------------------
(* The devices and the controller.                                         *)

\* CPU_SetIRQEvent.  The bits share a word, which is written without a
\* lock on the other side: see Clear.
Raise(s) ==
  /\ hHardwareEvent' = TRUE
  /\ IF cpu = "clear"
     THEN racing' = racing \cup {s} /\ UNCHANGED intrBits
     ELSE intrBits' = intrBits \cup {s} /\ UNCHANGED racing
  /\ UNCHANGED << intrMask, cpu, taken, dispatch, events, driver >>

\* Bug: every signal of a device traps.
TrapAlways ==
  /\ hHardwareEvent /\ cpu = "on"
  /\ hHardwareEvent' = FALSE
  /\ cpu' = "trap"
  /\ UNCHANGED << intrBits, racing, intrMask, taken, dispatch, events, driver >>

\* CPU_InterruptControlerThread interrupts what runs.
Trap ==
  /\ hHardwareEvent /\ intrMask \cap intrBits # {} /\ cpu = "on"
  /\ hHardwareEvent' = FALSE
  /\ cpu' = "trap"
  /\ UNCHANGED << intrBits, racing, intrMask, taken, dispatch, events, driver >>

\* It does not, for interrupts are off, no bit is let through or the
\* program counter is in the code that switches contexts; it then waits for
\* the next time that a device signals.
Missed ==
  /\ hHardwareEvent
  /\ hHardwareEvent' = FALSE
  /\ UNCHANGED << intrBits, racing, intrMask, cpu, taken, dispatch, events,
                  driver >>

-----------------------------------------------------------------------------
(* INTR_Interrupt, in the trap.                                            *)

\* OEM_InterruptHandler, which asks for the bits alone and not the mask.
FindSource ==
  /\ cpu = "trap"
  /\ taken' \in {s \in intrBits : \A r \in intrBits : Rank[s] <= Rank[r]}
  /\ cpu' = "clear"
  /\ UNCHANGED << hardware, intrMask, dispatch, events, driver >>

\* What may be left of the bits when both sides have written.
BitsAfterClear ==
  IF racing = {}
  THEN {intrBits \ {taken}}
  ELSE {(intrBits \cup racing) \ {taken}, intrBits \ {taken},
        intrBits \cup racing, (intrBits \ {taken}) \cup racing}

\* Bug: a routine may be interrupted by another one.
EnterAnyway(f) ==
  /\ nISRHandlerCount' = TRUE /\ nLockScheCount' = nLockScheCount + 1
  /\ frames' = << f >> \o frames
  /\ cpu' = "scan"

\* Bug: the scheduler is not locked.
EnterUnlocked(f) ==
  /\ UNCHANGED nLockScheCount
  /\ IF nISRHandlerCount
     THEN cpu' = "on" /\ UNCHANGED << nISRHandlerCount, frames >>
     ELSE nISRHandlerCount' = TRUE /\ frames' = << f >> \o frames
          /\ cpu' = "scan"

\* The entry of ISR_Handler: it returns at once while one runs.
EnterHandler(f) ==
  IF nISRHandlerCount
  THEN cpu' = "on" /\ UNCHANGED << nISRHandlerCount, nLockScheCount, frames >>
  ELSE /\ nISRHandlerCount' = TRUE /\ nLockScheCount' = nLockScheCount + 1
       /\ frames' = << f >> \o frames
       /\ cpu' = "scan"

ISR_Active(i) ==
  /\ bISRActives' = bISRActives \cup {i}
  /\ iISRActiveCount' = iISRActiveCount + IF i \in bISRActives THEN 0 ELSE 1

\* The rest of OEM_InterruptHandler and INTR_Interrupt as far as the entry
\* of ISR_Handler.  Whether Schedule follows depends on bNeedResched.
Clear ==
  /\ cpu = "clear"
  /\ intrBits' \in BitsAfterClear /\ racing' = {}
  /\ intrMask' = IF taken \in Masking THEN intrMask \ {taken} ELSE intrMask
  /\ ISR_Active(taken)
  /\ \E resched \in BOOLEAN :
       EnterHandler([id |-> IF taken \in Devices THEN taken ELSE NoIsr,
                     idx |-> 0, isr |-> NoIsr, resched |-> resched])
  /\ taken' = SYSINTR_TIMING   \* forgotten
  /\ UNCHANGED << hHardwareEvent, bISRMasks, events, driver >>

-----------------------------------------------------------------------------
(* ISR_Handler.                                                            *)

Ready(i) == i \in bISRActives \cap bISRMasks
Unseen == {i \in Head(frames).idx .. SYSINTR_MAXIMUM - 1 : Ready(i)}
FirstIsReady == Head(frames).id # NoIsr /\ Ready(Head(frames).id)

\* A routine is called with interrupts on.
Call(i, next) ==
  /\ bISRActives' = bISRActives \ {i}
  /\ iISRActiveCount' = iISRActiveCount - 1
  /\ frames' = << [Head(frames) EXCEPT !.id = NoIsr, !.idx = next, !.isr = i] >>
               \o Tail(frames)
  /\ cpu' = "on"

\* The routine of the interrupt itself comes first.
CallFirst ==
  /\ cpu = "scan" /\ FirstIsReady
  /\ Call(Head(frames).id, 0)
  /\ UNCHANGED << hardware, intrMask, taken, bISRMasks, nISRHandlerCount,
                  nLockScheCount, events, driver >>

CallNext ==
  /\ cpu = "scan" /\ ~ FirstIsReady
  /\ iISRActiveCount # 0
  /\ \E i \in Unseen : (\A j \in Unseen : i <= j) /\ Call(i, i + 1)
  /\ UNCHANGED << hardware, intrMask, taken, bISRMasks, nISRHandlerCount,
                  nLockScheCount, events, driver >>

\* Bug: the event is reset by an interrupt that finds it set.
SignalToggles(i) ==
  events' = IF i \in Devices \ events THEN events \cup {i} ELSE events \ {i}

\* INTR_ISRFun: the event is an auto-reset one.
Signal(i) == events' = IF i \in Devices THEN events \cup {i} ELSE events

\* A routine ends: TimerISR, or INTR_ISRFun of a device.
Return ==
  /\ cpu = "on" /\ frames # << >>
  /\ Signal(Head(frames).isr)
  /\ frames' = << [Head(frames) EXCEPT !.isr = NoIsr] >> \o Tail(frames)
  /\ cpu' = "scan"
  /\ UNCHANGED << hardware, intrMask, taken, bISRActives, bISRMasks,
                  iISRActiveCount, nISRHandlerCount, nLockScheCount, driver >>

\* Bug: the handler stays entered after the round that Schedule asks for.
LeaveEntered ==
  /\ cpu = "scan" /\ ~ FirstIsReady
  /\ iISRActiveCount = 0 \/ Unseen = {}
  /\ frames' = Tail(frames)
  /\ nISRHandlerCount' = Head(frames).resched
  /\ nLockScheCount' = nLockScheCount - 1
  /\ cpu' = "on"
  /\ UNCHANGED << hardware, intrMask, taken, bISRActives, bISRMasks,
                  iISRActiveCount, events, driver >>

\* No routine is left: the end of ISR_Handler.  Schedule, which may follow in
\* the trap, asks for one more round.
Leave ==
  /\ cpu = "scan" /\ ~ FirstIsReady
  /\ iISRActiveCount = 0 \/ Unseen = {}
  /\ IF Head(frames).resched /\ iISRActiveCount # 0
     THEN /\ frames' = << [id |-> NoIsr, idx |-> 0, isr |-> NoIsr,
                           resched |-> FALSE] >> \o Tail(frames)
          /\ UNCHANGED << cpu, nISRHandlerCount, nLockScheCount >>
     ELSE /\ frames' = Tail(frames)
          /\ nISRHandlerCount' = FALSE /\ nLockScheCount' = nLockScheCount - 1
          /\ cpu' = "on"
  /\ UNCHANGED << hardware, intrMask, taken, bISRActives, bISRMasks,
                  iISRActiveCount, events, driver >>

-----------------------------------------------------------------------------
(* Threads: they run while no handler does.                                *)

ThreadRuns == cpu = "on" /\ frames = << >>

\* DoLeaveAPI and Schedule look for activations with no routine to begin with.
LeaveAPI ==
  /\ ThreadRuns /\ iISRActiveCount # 0
  /\ EnterHandler([id |-> NoIsr, idx |-> 0, isr |-> NoIsr, resched |-> FALSE])
  /\ UNCHANGED << hardware, intrMask, taken, bISRActives, bISRMasks,
                  iISRActiveCount, events, driver >>

Moves(d, from, to) ==
  /\ ThreadRuns /\ driver[d] = from
  /\ driver' = [driver EXCEPT ![d] = to]
  /\ UNCHANGED << hardware, cpu, taken, nISRHandlerCount, nLockScheCount,
                  frames >>

\* Bug: an activation is taken out of the count whether there is one or not.
ForgetCounted(d) ==
  bISRActives' = bISRActives \ {d} /\ iISRActiveCount' = iISRActiveCount - 1

\* The activation is forgotten, the count is not corrected.
Forget(d) == bISRActives' = bISRActives \ {d} /\ UNCHANGED iISRActiveCount

\* KL_IntrInit: ISR_RegisterServer, then OEM_InterruptEnable.
Register(d) ==
  /\ Moves(d, "none", "registered")
  /\ bISRMasks' = bISRMasks \cup {d}
  /\ Forget(d)
  /\ UNCHANGED << intrMask, events >>

OEM_InterruptEnable(d) ==
  /\ d \in Devices
  /\ Moves(d, "registered", "wait")
  /\ intrMask' = intrMask \cup {d}
  /\ UNCHANGED << bISRActives, bISRMasks, iISRActiveCount, events >>

\* Without hardware: ISR_Unregister, which begins with ISR_Disable and takes
\* no lock.
Disable(d) ==
  /\ d \in Absent
  /\ Moves(d, "registered", "disabled")
  /\ bISRMasks' = bISRMasks \ {d}
  /\ UNCHANGED << intrMask, bISRActives, iISRActiveCount, events >>

Unregister(d) ==
  /\ Moves(d, "disabled", "none")
  /\ Forget(d)
  /\ UNCHANGED << intrMask, bISRMasks, events >>

\* The loop of a driver thread: WaitForSingleObject on its event, ...
Take(d) ==
  /\ d \in events
  /\ Moves(d, "wait", "work") \/ Moves(d, "away", "work")
  /\ events' = events \ {d}
  /\ UNCHANGED << intrMask, bISRActives, bISRMasks, iISRActiveCount >>

\* ... and KL_IntrDone, which lets the next interrupt through.
Done(d) ==
  /\ Moves(d, "work", "wait")
  /\ intrMask' = intrMask \cup {d}
  /\ UNCHANGED << bISRActives, bISRMasks, iISRActiveCount, events >>

\* The keyboard's thread goes back to its wait without it after F1.
SkipDone(d) ==
  /\ d \in Careless
  /\ Moves(d, "work", "away")
  /\ UNCHANGED << intrMask, bISRActives, bISRMasks, iISRActiveCount, events >>

-----------------------------------------------------------------------------
Driver(d) ==
  \/ Register(d) \/ OEM_InterruptEnable(d) \/ Disable(d) \/ Unregister(d)
  \/ Take(d) \/ Done(d) \/ SkipDone(d)

Handler == CallFirst \/ CallNext \/ Leave

Next ==
  \/ \E s \in Sources : Raise(s)
  \/ Trap \/ Missed \/ FindSource \/ Clear
  \/ Handler \/ Return
  \/ LeaveAPI
  \/ \E d \in Devices \cup Absent : Driver(d)

Spec == Init /\ [][Next]_vars

(* The tick comes for ever, and over and over it finds interrupts on; what  *)
(* runs with interrupts off goes on; a routine and a driver thread, however *)
(* often they are interrupted, get the processor again.                     *)
Fairness ==
  /\ WF_vars(Raise(SYSINTR_TIMING)) /\ SF_vars(Trap)
  /\ WF_vars(FindSource) /\ WF_vars(Clear) /\ WF_vars(Handler)
  /\ SF_vars(Return)
  /\ \A d \in Devices : SF_vars(Take(d)) /\ SF_vars(Done(d) \/ SkipDone(d))

FairSpec == Spec /\ Fairness

-----------------------------------------------------------------------------
(* Properties.                                                             *)

\* No routine is called inside another one although they run with interrupts
\* on (isr.c:152), and the scheduler is locked as long as one runs, never
\* longer.
OneRoutine ==
  /\ Len(frames) <= 1
  /\ nLockScheCount = Len(frames)

\* ISR_Handler, DoLeaveAPI and Schedule look for activations only while
\* iISRActiveCount is not 0: it never is below their number, although
\* registering and unregistering forget activations without counting.
CountCovers == Cardinality(bISRActives) <= iISRActiveCount

\* The trap finds the bit it was called for: OEM_InterruptHandler does not
\* reach its ASSERT( 0 ) (oemintr.c:148), although a device may be writing
\* the word the bit is in.
SourceFound == cpu = "trap" => intrBits # {}

Served(d) ==
  \/ d \in bISRActives \cup events
  \/ frames # << >> /\ Head(frames).isr = d
  \/ driver[d] = "work"

\* A device that is masked is on its way to the driver thread, which unmasks
\* it unless it went back to its wait by the other path (keybrd.c:36): no
\* other device is left masked with nobody to unmask it.
NoDeadDevice ==
  \A d \in Devices :
    driver[d] \in {"wait", "work"} /\ d \notin intrMask => Served(d)

\* An activation reaches the driver thread, masked device or not.
ActiveServed ==
  \A d \in Devices :
    d \in bISRActives /\ driver[d] \in {"wait", "away"} ~> driver[d] = "work"
=============================================================================
