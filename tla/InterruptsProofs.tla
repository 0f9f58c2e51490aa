-------------------------- MODULE InterruptsProofs --------------------------
(***************************************************************************)
(* Proofs about Interrupts for any routines and devices: one routine at a  *)
(* time, the count of activations, and that no device is left masked.      *)
(***************************************************************************)
EXTENDS Interrupts, FiniteSetTheorems, TLAPS

-----------------------------------------------------------------------------
(* The inductive invariant.                                                *)

\* There is one frame at most, and it is there when it is counted.
OneFrame ==
  /\ frames = << >> \/ \E f \in Frame : frames = << f >>
  /\ nISRHandlerCount <=> frames # << >>
  /\ nLockScheCount = IF frames = << >> THEN 0 ELSE 1

\* Interrupts are off between routines: no routine is called then.
Scanning ==
  cpu = "scan" => frames # << >> /\ Head(frames).isr = NoIsr

Core ==
  /\ TypeOK
  /\ OneFrame
  /\ Scanning
  /\ CountCovers
  /\ SourceFound
  /\ NoDeadDevice

\* A driver without hardware never gets as far as waiting for it.
AbsentIdle ==
  \A d \in Absent : driver[d] \in {"none", "registered", "disabled"}

IInv == Core /\ AbsentIdle

\* One frame and what is done with it.
LEMMA FrameOps ==
  ASSUME NEW f, NEW g
  PROVE  /\ << f >> # << >> /\ Head(<< f >>) = f /\ Tail(<< f >>) = << >>
         /\ << g >> \o << >> = << g >> /\ Len(<< f >>) = 1
  OBVIOUS

LEMMA FrameSeq ==
  /\ << >> \in Seq(Frame) /\ Len(<< >>) = 0
  /\ \A f \in Frame : << f >> \in Seq(Frame)
  OBVIOUS

LEMMA IsrFacts ==
  /\ IsFiniteSet(ISRs) /\ ISRs \subseteq Int
  /\ NoIsr \notin ISRs /\ NoIsr \notin Devices /\ NoIsr \in Nat
  /\ Sources \subseteq ISRs /\ Devices \subseteq Sources
  /\ Masking \subseteq Devices /\ SYSINTR_TIMING \in Sources
  /\ SYSINTR_MAXIMUM \in Nat
  <1>1. /\ SYSINTR_MAXIMUM \in Nat
        /\ ISRs \subseteq Int /\ NoIsr \notin ISRs
    BY InterruptsAssumption DEF ISRs, NoIsr
  <1>2. IsFiniteSet(ISRs)
    <2>1. 0 \in Int /\ SYSINTR_MAXIMUM - 1 \in Int
      BY <1>1
    <2>2. QED BY <2>1, FS_Interval DEF ISRs
  <1>3. QED BY <1>1, <1>2, InterruptsAssumption DEF NoIsr, Sources

-----------------------------------------------------------------------------
(* The number of activations.                                              *)

LEMMA ActivesFinite ==
  ASSUME NEW S \in SUBSET ISRs
  PROVE  IsFiniteSet(S) /\ Cardinality(S) \in Nat
  BY IsrFacts, FS_Subset, FS_CardinalityType

LEMMA OneMore ==
  ASSUME TypeOK, CountCovers, NEW i \in ISRs, ISR_Active(i)
  PROVE  CountCovers'
  <1>1. IsFiniteSet(bISRActives) /\ Cardinality(bISRActives) \in Nat
    BY ActivesFinite DEF TypeOK
  <1>2. Cardinality(bISRActives \cup {i}) =
          IF i \in bISRActives THEN Cardinality(bISRActives)
          ELSE Cardinality(bISRActives) + 1
    BY <1>1, FS_AddElement
  <1>3. QED BY <1>1, <1>2 DEF CountCovers, ISR_Active, TypeOK

LEMMA OneLess ==
  ASSUME TypeOK, CountCovers, NEW i \in bISRActives,
         bISRActives' = bISRActives \ {i}, iISRActiveCount' = iISRActiveCount - 1
  PROVE  CountCovers'
  <1>1. IsFiniteSet(bISRActives) /\ Cardinality(bISRActives) \in Nat
    BY ActivesFinite DEF TypeOK
  <1>2. Cardinality(bISRActives \ {i}) = Cardinality(bISRActives) - 1
    BY <1>1, FS_RemoveElement
  <1>3. QED BY <1>1, <1>2 DEF CountCovers, TypeOK

LEMMA Forgets ==
  ASSUME TypeOK, CountCovers, NEW d, Forget(d)
  PROVE  CountCovers'
  <1>1. IsFiniteSet(bISRActives) /\ Cardinality(bISRActives) \in Nat
    BY ActivesFinite DEF TypeOK
  <1>2. /\ Cardinality(bISRActives \ {d}) <= Cardinality(bISRActives)
        /\ IsFiniteSet(bISRActives \ {d})
    BY <1>1, FS_Subset
  <1>3. Cardinality(bISRActives \ {d}) \in Nat
    BY <1>2, FS_CardinalityType
  <1>4. QED BY <1>1, <1>2, <1>3 DEF CountCovers, Forget, TypeOK

-----------------------------------------------------------------------------
(* The steps.                                                              *)

LEMMA InitHolds == Init => IInv
  <1> SUFFICES ASSUME Init PROVE IInv
    OBVIOUS
  <1>1. TypeOK
    <2>1. driver \in [Devices \cup Absent ->
                       {"none", "registered", "wait", "work", "away", "disabled"}]
      BY DEF Init
    <2>2. frames \in Seq(Frame)
      BY FrameSeq DEF Init
    <2>3. /\ intrMask \subseteq Sources /\ bISRMasks \subseteq ISRs
          /\ taken \in Sources
      BY IsrFacts DEF Init
    <2>4. /\ iISRActiveCount \in Int /\ nLockScheCount \in Nat
          /\ cpu \in {"on", "trap", "clear", "scan"}
      BY DEF Init
    <2>5. hHardwareEvent \in BOOLEAN /\ nISRHandlerCount \in BOOLEAN
      BY DEF Init
    <2>6. /\ intrBits \subseteq Sources /\ racing \subseteq Sources
          /\ bISRActives \subseteq ISRs /\ events \subseteq Devices
      BY DEF Init
    <2>7. QED BY <2>1, <2>2, <2>3, <2>4, <2>5, <2>6 DEF TypeOK
  <1>2. CountCovers
    BY FS_EmptySet DEF Init, CountCovers
  <1>3. OneFrame /\ Scanning /\ SourceFound /\ NoDeadDevice
    BY DEF Init, OneFrame, Scanning, SourceFound, NoDeadDevice
  <1>4. AbsentIdle
    BY DEF Init, AbsentIdle
  <1>5. QED BY <1>1, <1>2, <1>3, <1>4 DEF IInv, Core

LEMMA RaiseStep ==
  ASSUME IInv, NEW s \in Sources, Raise(s)
  PROVE  Core'
  <1>1. TypeOK'
    BY DEF IInv, Core, TypeOK, Raise, dispatch
  <1>2. OneFrame' /\ Scanning' /\ CountCovers' /\ SourceFound' /\ NoDeadDevice'
    BY DEF IInv, Core, OneFrame, Scanning, CountCovers, SourceFound, NoDeadDevice,
           Served, Raise, dispatch
  <1>3. QED BY <1>1, <1>2 DEF Core

\* The controller and OEM_InterruptHandler as far as the bit.
LEMMA TrapStep ==
  ASSUME IInv, Trap \/ Missed \/ FindSource
  PROVE  Core'
  <1>1. TypeOK'
    BY DEF IInv, Core, TypeOK, Trap, Missed, FindSource, dispatch, hardware
  <1>2. UNCHANGED << dispatch, intrMask, events, driver >>
    BY DEF Trap, Missed, FindSource
  <1>3. OneFrame' /\ CountCovers' /\ NoDeadDevice'
    BY <1>2 DEF IInv, Core, OneFrame, CountCovers, NoDeadDevice, Served, dispatch
  <1>4. Scanning' /\ SourceFound'
    BY DEF IInv, Core, Scanning, SourceFound, Trap, Missed, FindSource, dispatch,
           hardware
  <1>5. QED BY <1>1, <1>3, <1>4 DEF Core

\* What the entry of ISR_Handler does to the frames.
LEMMA Entered ==
  ASSUME TypeOK, OneFrame, NEW f \in Frame, EnterHandler(f), f.isr = NoIsr
  PROVE  /\ OneFrame' /\ Scanning'
         /\ frames' \in Seq(Frame) /\ nISRHandlerCount' \in BOOLEAN
         /\ nLockScheCount' \in Nat /\ cpu' \in {"on", "scan"}
         /\ frames' = frames \/ (frames = << >> /\ frames' = << f >>)
  <1>1. CASE frames # << >>
    <2>1. UNCHANGED << nISRHandlerCount, nLockScheCount, frames >> /\ cpu' = "on"
      BY <1>1 DEF EnterHandler, OneFrame
    <2>2. QED BY <2>1 DEF OneFrame, Scanning, TypeOK
  <1>2. CASE frames = << >>
    <2>1. frames' = << f >> \o << >> /\ nISRHandlerCount' = TRUE
          /\ nLockScheCount' = 0 + 1 /\ cpu' = "scan"
      BY <1>2 DEF EnterHandler, OneFrame
    <2>2. frames' = << f >>
      BY <2>1, FrameOps
    <2>3. QED BY <1>2, <2>1, <2>2, FrameOps, FrameSeq DEF OneFrame, Scanning
  <1>3. QED BY <1>1, <1>2

LEMMA ClearStep ==
  ASSUME IInv, Clear
  PROVE  Core'
  <1>1. PICK resched \in BOOLEAN :
          EnterHandler([id |-> IF taken \in Devices THEN taken ELSE NoIsr,
                        idx |-> 0, isr |-> NoIsr, resched |-> resched])
    BY DEF Clear
  <1> DEFINE f == [id |-> IF taken \in Devices THEN taken ELSE NoIsr,
                   idx |-> 0, isr |-> NoIsr, resched |-> resched]
  <1>2. f \in Frame /\ f.isr = NoIsr
    <2>1. taken \in Devices => taken \in ISRs
      BY IsrFacts
    <2>2. 0 \in 0 .. SYSINTR_MAXIMUM
      BY IsrFacts
    <2>3. QED BY <2>1, <2>2 DEF Frame
  <1> HIDE DEF f
  <1>3. /\ OneFrame' /\ Scanning'
        /\ frames' \in Seq(Frame) /\ nISRHandlerCount' \in BOOLEAN
        /\ nLockScheCount' \in Nat /\ cpu' \in {"on", "scan"}
        /\ frames' = frames \/ (frames = << >> /\ frames' = << f >>)
    BY <1>1, <1>2, Entered DEF IInv, Core, f
  <1>4. /\ intrBits' \in BitsAfterClear /\ racing' = {}
        /\ intrMask' = IF taken \in Masking THEN intrMask \ {taken} ELSE intrMask
        /\ ISR_Active(taken) /\ taken' = SYSINTR_TIMING
        /\ UNCHANGED << hHardwareEvent, bISRMasks, events, driver >>
    BY DEF Clear
  <1>5. taken \in ISRs /\ taken' \in Sources
    BY <1>4, IsrFacts DEF IInv, Core, TypeOK
  <1>6. /\ intrBits' \subseteq Sources /\ intrMask' \subseteq Sources
        /\ bISRActives' \subseteq ISRs /\ iISRActiveCount' \in Int
    BY <1>4, <1>5 DEF IInv, Core, TypeOK, BitsAfterClear, ISR_Active
  <1>7. TypeOK'
    BY <1>3, <1>4, <1>5, <1>6 DEF IInv, Core, TypeOK
  <1>8. CountCovers'
    BY <1>4, <1>5, OneMore DEF IInv, Core
  <1>9. SourceFound'
    BY <1>3 DEF SourceFound
  <1>10. ASSUME NEW d \in Devices, driver'[d] \in {"wait", "work"},
                d \notin intrMask'
         PROVE  Served(d)'
    <2>1. CASE d = taken
      BY <1>4, <2>1 DEF Served, ISR_Active
    <2>2. CASE d # taken
      <3>1. d \notin intrMask /\ driver[d] \in {"wait", "work"}
        BY <1>4, <1>10, <2>2
      <3>2. Served(d)
        BY <3>1 DEF IInv, Core, NoDeadDevice
      <3>3. QED BY <1>3, <1>4, <3>2 DEF Served, ISR_Active
    <2>3. QED BY <2>1, <2>2
  <1>11. NoDeadDevice'
    BY <1>10 DEF NoDeadDevice
  <1>12. QED BY <1>3, <1>7, <1>8, <1>9, <1>11 DEF Core

\* A routine is called: the one frame is given it.
LEMMA CallStep ==
  ASSUME IInv, cpu = "scan", NEW i \in bISRActives,
         NEW next \in 0 .. SYSINTR_MAXIMUM, Call(i, next),
         UNCHANGED << hardware, intrMask, taken, bISRMasks, nISRHandlerCount,
                      nLockScheCount, events, driver >>
  PROVE  Core'
  <1>1. PICK f \in Frame : frames = << f >>
    BY DEF IInv, Core, OneFrame, Scanning
  <1> DEFINE g == [f EXCEPT !.id = NoIsr, !.idx = next, !.isr = i]
  <1>2. g \in Frame /\ g.isr = i
    BY IsrFacts DEF IInv, Core, TypeOK, Frame
  <1>3. Head(frames) = f /\ Tail(frames) = << >>
    BY <1>1, FrameOps
  <1>4. frames' = << g >> \o << >>
    BY <1>3 DEF Call
  <1> HIDE DEF g
  <1>5. frames' = << g >> /\ Head(frames') = g /\ frames' \in Seq(Frame)
    BY <1>2, <1>4, FrameOps, FrameSeq
  <1>6. /\ bISRActives' = bISRActives \ {i} /\ cpu' = "on"
        /\ iISRActiveCount' = iISRActiveCount - 1
    BY DEF Call
  <1>7. TypeOK'
    BY <1>5, <1>6 DEF IInv, Core, TypeOK, hardware
  <1>8. OneFrame'
    BY <1>1, <1>2, <1>5 DEF IInv, Core, OneFrame
  <1>9. Scanning' /\ SourceFound'
    BY <1>6 DEF Scanning, SourceFound
  <1>10. CountCovers'
    BY <1>6, OneLess DEF IInv, Core
  <1>11. ASSUME NEW d \in Devices, driver'[d] \in {"wait", "work"},
                d \notin intrMask'
         PROVE  Served(d)'
    <2>1. Served(d)
      BY <1>11 DEF IInv, Core, NoDeadDevice
    <2>2. Head(frames).isr # d
      BY IsrFacts DEF IInv, Core, Scanning
    <2>3. QED BY <1>2, <1>5, <1>6, <2>1, <2>2, FrameOps DEF Served
  <1>12. NoDeadDevice'
    BY <1>11 DEF NoDeadDevice
  <1>13. QED BY <1>7, <1>8, <1>9, <1>10, <1>12 DEF Core

LEMMA CallFirstStep ==
  ASSUME IInv, CallFirst
  PROVE  Core'
  <1>1. Head(frames).id \in bISRActives
    BY DEF CallFirst, FirstIsReady, Ready
  <1>2. 0 \in 0 .. SYSINTR_MAXIMUM
    BY IsrFacts
  <1>3. QED BY <1>1, <1>2, CallStep DEF CallFirst

LEMMA CallNextStep ==
  ASSUME IInv, CallNext
  PROVE  Core'
  <1>1. PICK f \in Frame : frames = << f >>
    BY DEF IInv, Core, OneFrame, Scanning, CallNext
  <1>2. Head(frames) = f
    BY <1>1, FrameOps
  <1>3. f.idx \in Nat /\ SYSINTR_MAXIMUM \in Nat
    BY IsrFacts DEF Frame
  <1>4. PICK i \in Unseen : Call(i, i + 1)
    BY DEF CallNext
  <1>5. i \in bISRActives /\ i + 1 \in 0 .. SYSINTR_MAXIMUM
    BY <1>2, <1>3 DEF Unseen, Ready
  <1>6. QED BY <1>4, <1>5, CallStep DEF CallNext

LEMMA ReturnStep ==
  ASSUME IInv, Return
  PROVE  Core'
  <1>1. PICK f \in Frame : frames = << f >>
    BY DEF IInv, Core, OneFrame, Return
  <1> DEFINE g == [f EXCEPT !.isr = NoIsr]
  <1>2. g \in Frame /\ g.isr = NoIsr
    BY DEF Frame
  <1>3. Head(frames) = f /\ Tail(frames) = << >>
    BY <1>1, FrameOps
  <1>4. frames' = << g >> \o << >>
    BY <1>3 DEF Return
  <1> HIDE DEF g
  <1>5. frames' = << g >> /\ Head(frames') = g /\ frames' \in Seq(Frame)
    BY <1>2, <1>4, FrameOps, FrameSeq
  <1>6. events' = IF f.isr \in Devices THEN events \cup {f.isr} ELSE events
    BY <1>3 DEF Return, Signal
  <1>7. TypeOK'
    BY <1>5, <1>6 DEF IInv, Core, TypeOK, Return, hardware
  <1>8. OneFrame'
    BY <1>1, <1>2, <1>5 DEF IInv, Core, OneFrame, Return
  <1>9. Scanning' /\ SourceFound' /\ CountCovers'
    BY <1>2, <1>5, FrameOps
    DEF IInv, Core, Return, Scanning, SourceFound, CountCovers
  <1>10. ASSUME NEW d \in Devices, driver'[d] \in {"wait", "work"},
                d \notin intrMask'
         PROVE  Served(d)'
    <2>1. Served(d)
      BY <1>10 DEF IInv, Core, NoDeadDevice, Return
    <2>2. QED BY <1>3, <1>6, <2>1 DEF Served, Return
  <1>11. NoDeadDevice'
    BY <1>10 DEF NoDeadDevice
  <1>12. QED BY <1>7, <1>8, <1>9, <1>11 DEF Core

LEMMA LeaveStep ==
  ASSUME IInv, Leave
  PROVE  Core'
  <1>1. PICK f \in Frame : frames = << f >>
    BY DEF IInv, Core, OneFrame, Scanning, Leave
  <1> DEFINE g == [id |-> NoIsr, idx |-> 0, isr |-> NoIsr, resched |-> FALSE]
  <1>2. g \in Frame /\ g.isr = NoIsr
    BY IsrFacts DEF Frame
  <1>3. Head(frames) = f /\ Tail(frames) = << >> /\ f.isr = NoIsr
    BY <1>1, FrameOps DEF IInv, Core, Scanning, Leave
  <1>4. /\ UNCHANGED << hardware, intrMask, taken, bISRActives, bISRMasks,
                        iISRActiveCount, events, driver >>
        /\ \/ /\ frames' = << g >> \o << >>
              /\ UNCHANGED << cpu, nISRHandlerCount, nLockScheCount >>
           \/ /\ frames' = << >> /\ nISRHandlerCount' = FALSE
              /\ nLockScheCount' = nLockScheCount - 1 /\ cpu' = "on"
    BY <1>3 DEF Leave
  <1> HIDE DEF g
  <1>5. \/ /\ frames' = << g >> /\ Head(frames') = g /\ frames' # << >>
           /\ UNCHANGED << cpu, nISRHandlerCount, nLockScheCount >>
        \/ /\ frames' = << >> /\ nISRHandlerCount' = FALSE
           /\ nLockScheCount' = 0 /\ cpu' = "on"
    <2>1. << g >> \o << >> = << g >> /\ Head(<< g >>) = g /\ << g >> # << >>
      BY FrameOps
    <2>2. nLockScheCount = 1
      BY <1>1, FrameOps DEF IInv, Core, OneFrame
    <2>3. QED BY <1>4, <2>1, <2>2
  <1>6. TypeOK'
    <2>1. /\ frames' \in Seq(Frame) /\ nISRHandlerCount' \in BOOLEAN
          /\ nLockScheCount' \in Nat
          /\ cpu' \in {"on", "trap", "clear", "scan"}
      <3>1. frames' \in Seq(Frame)
        BY <1>2, <1>5, FrameSeq
      <3>2. nISRHandlerCount' \in BOOLEAN
        BY <1>5 DEF IInv, Core, TypeOK
      <3>3. nLockScheCount' \in Nat /\ cpu' \in {"on", "trap", "clear", "scan"}
        BY <1>5 DEF IInv, Core, TypeOK
      <3>4. QED BY <3>1, <3>2, <3>3
    <2>2. UNCHANGED << intrBits, racing, hHardwareEvent, intrMask, taken,
                       bISRActives, bISRMasks, iISRActiveCount, events, driver >>
      BY <1>4 DEF hardware
    <2>3. QED BY <2>1, <2>2 DEF IInv, Core, TypeOK
  <1>7. OneFrame'
    BY <1>1, <1>2, <1>5, FrameOps DEF IInv, Core, OneFrame
  <1>8. Scanning' /\ SourceFound' /\ CountCovers'
    BY <1>2, <1>4, <1>5
    DEF IInv, Core, Scanning, SourceFound, CountCovers, hardware, Leave
  <1>9. ASSUME NEW d \in Devices, driver'[d] \in {"wait", "work"},
               d \notin intrMask'
         PROVE  Served(d)'
    <2>1. Served(d)
      BY <1>4, <1>9 DEF IInv, Core, NoDeadDevice
    <2>2. QED BY <1>3, <1>4, <2>1, IsrFacts DEF Served
  <1>10. NoDeadDevice'
    BY <1>9 DEF NoDeadDevice
  <1>11. QED BY <1>6, <1>7, <1>8, <1>10 DEF Core

LEMMA LeaveAPIStep ==
  ASSUME IInv, LeaveAPI
  PROVE  Core'
  <1> DEFINE g == [id |-> NoIsr, idx |-> 0, isr |-> NoIsr, resched |-> FALSE]
  <1>1. g \in Frame /\ g.isr = NoIsr
    BY IsrFacts DEF Frame
  <1>2. EnterHandler(g) /\ frames = << >>
        /\ UNCHANGED << hardware, intrMask, taken, bISRActives, bISRMasks,
                        iISRActiveCount, events, driver >>
    BY DEF LeaveAPI, ThreadRuns
  <1> HIDE DEF g
  <1>3. /\ OneFrame' /\ Scanning'
        /\ frames' \in Seq(Frame) /\ nISRHandlerCount' \in BOOLEAN
        /\ nLockScheCount' \in Nat /\ cpu' \in {"on", "scan"}
    BY <1>1, <1>2, Entered DEF IInv, Core
  <1>4. TypeOK'
    BY <1>2, <1>3 DEF IInv, Core, TypeOK, hardware
  <1>5. SourceFound' /\ CountCovers'
    BY <1>2, <1>3 DEF IInv, Core, SourceFound, CountCovers
  <1>6. NoDeadDevice'
    BY <1>2 DEF IInv, Core, NoDeadDevice, Served
  <1>7. QED BY <1>3, <1>4, <1>5, <1>6 DEF Core

\* The steps of the driver threads, which run between handlers.
LEMMA DriverStep ==
  ASSUME IInv, NEW d \in Devices \cup Absent, Driver(d)
  PROVE  Core'
  <1>1. PICK to \in {"none", "registered", "wait", "work", "away", "disabled"} :
          /\ frames = << >> /\ cpu = "on"
          /\ driver' = [driver EXCEPT ![d] = to]
          /\ UNCHANGED << hardware, cpu, taken, nISRHandlerCount,
                          nLockScheCount, frames >>
    BY DEF Driver, Register, OEM_InterruptEnable, Disable, Unregister, Take,
           Done, SkipDone, Moves, ThreadRuns
  <1>2. d \in ISRs
    BY InterruptsAssumption
  <1>3. /\ intrMask' \subseteq Sources /\ bISRMasks' \subseteq ISRs
        /\ bISRActives' \subseteq ISRs /\ iISRActiveCount' \in Int
        /\ events' \subseteq Devices
    <2>1. CASE Register(d) \/ Disable(d) \/ Unregister(d)
      BY <1>2, <2>1 DEF IInv, Core, TypeOK, Register, Disable, Unregister, Forget
    <2>2. CASE OEM_InterruptEnable(d) \/ Take(d) \/ SkipDone(d)
      BY <2>2, IsrFacts DEF IInv, Core, TypeOK, OEM_InterruptEnable, Take, SkipDone
    <2>3. CASE Done(d)
      <3>1. d \in Sources
        BY <2>3, IsrFacts DEF IInv, Core, AbsentIdle, Done, Moves
      <3>2. QED BY <2>3, <3>1 DEF IInv, Core, TypeOK, Done
    <2>4. QED BY <2>1, <2>2, <2>3 DEF Driver
  <1>4. TypeOK'
    BY <1>1, <1>3 DEF IInv, Core, TypeOK, hardware
  <1>5. OneFrame' /\ Scanning' /\ SourceFound'
    BY <1>1 DEF IInv, Core, OneFrame, Scanning, SourceFound
  <1>6. CountCovers'
    <2>1. CASE Forget(d)
      BY <2>1, Forgets DEF IInv, Core
    <2>2. CASE UNCHANGED << bISRActives, iISRActiveCount >>
      BY <2>2 DEF IInv, Core, CountCovers
    <2>3. QED BY <2>1, <2>2 DEF Driver, Register, OEM_InterruptEnable, Disable,
                                Unregister, Take, Done, SkipDone
  <1>7. ASSUME NEW e \in Devices, driver'[e] \in {"wait", "work"},
               e \notin intrMask'
        PROVE  Served(e)'
    <2>1. CASE e = d
      BY <1>1, <1>7, <2>1
      DEF IInv, Core, TypeOK, Driver, Register, OEM_InterruptEnable, Disable,
          Unregister, Take, Done, SkipDone, Moves, Served
    <2>2. CASE e # d
      <3>1. driver[e] = driver'[e] /\ e \notin intrMask
        BY <1>1, <1>7, <2>2
        DEF IInv, Core, TypeOK, Driver, Register, OEM_InterruptEnable, Disable,
            Unregister, Take, Done, SkipDone
      <3>2. e \in bISRActives \cup events \/ driver[e] = "work"
        BY <1>1, <1>7, <3>1 DEF IInv, Core, NoDeadDevice, Served
      <3>3. /\ e \in bISRActives => e \in bISRActives'
            /\ e \in events => e \in events'
        BY <2>2 DEF Driver, Register, OEM_InterruptEnable, Disable, Unregister,
                    Take, Done, SkipDone, Forget
      <3>4. QED BY <3>1, <3>2, <3>3 DEF Served
    <2>3. QED BY <2>1, <2>2
  <1>8. NoDeadDevice'
    BY <1>7 DEF NoDeadDevice
  <1>9. QED BY <1>4, <1>5, <1>6, <1>8 DEF Core

LEMMA AbsentStep ==
  ASSUME IInv, Next
  PROVE  AbsentIdle'
  <1>1. CASE UNCHANGED driver
    BY <1>1 DEF IInv, AbsentIdle
  <1>2. ASSUME NEW d \in Devices \cup Absent, Driver(d) PROVE AbsentIdle'
    <2>1. CASE Register(d) \/ Disable(d) \/ Unregister(d)
      BY <2>1 DEF IInv, Core, TypeOK, AbsentIdle, Register, Disable, Unregister,
                  Moves
    <2>2. CASE OEM_InterruptEnable(d) \/ Take(d)
      BY <2>2, InterruptsAssumption
      DEF IInv, Core, TypeOK, AbsentIdle, OEM_InterruptEnable, Take, Moves
    <2>3. CASE Done(d) \/ SkipDone(d)
      BY <2>3 DEF IInv, Core, TypeOK, AbsentIdle, Done, SkipDone, Moves
    <2>4. QED BY <1>2, <2>1, <2>2, <2>3 DEF Driver
  <1>3. QED
    BY <1>1, <1>2 DEF Next, Handler, Raise, Trap, Missed, FindSource, Clear,
      CallFirst, CallNext, Leave, Return, LeaveAPI

LEMMA NextHolds == IInv /\ [Next]_vars => IInv'
  <1> SUFFICES ASSUME IInv, [Next]_vars PROVE IInv'
    OBVIOUS
  <1>1. CASE UNCHANGED vars
    <2>1. TypeOK'
      BY <1>1 DEF IInv, Core, TypeOK, vars
    <2>2. OneFrame' /\ Scanning' /\ CountCovers' /\ SourceFound' /\ NoDeadDevice'
      BY <1>1 DEF IInv, Core, OneFrame, Scanning, CountCovers, SourceFound,
                  NoDeadDevice, Served, vars
    <2>3. AbsentIdle'
      BY <1>1 DEF IInv, AbsentIdle, vars
    <2>4. QED BY <2>1, <2>2, <2>3 DEF IInv, Core
  <1>2. ASSUME NEW s \in Sources, Raise(s) PROVE IInv'
    BY <1>2, RaiseStep, AbsentStep DEF Next, IInv
  <1>3. CASE Trap \/ Missed \/ FindSource
    BY <1>3, TrapStep, AbsentStep DEF Next, IInv
  <1>4. CASE Clear
    BY <1>4, ClearStep, AbsentStep DEF Next, IInv
  <1>5. CASE Handler
    BY <1>5, CallFirstStep, CallNextStep, LeaveStep, AbsentStep
    DEF Handler, Next, IInv
  <1>6. CASE Return \/ LeaveAPI
    BY <1>6, ReturnStep, LeaveAPIStep, AbsentStep DEF Next, IInv
  <1>7. ASSUME NEW d \in Devices \cup Absent, Driver(d) PROVE IInv'
    BY <1>7, DriverStep, AbsentStep DEF Next, IInv
  <1>8. QED BY <1>1, <1>2, <1>3, <1>4, <1>5, <1>6, <1>7 DEF Next

-----------------------------------------------------------------------------
(* The theorems.                                                           *)

THEOREM Invariance == Spec => []IInv
  BY InitHolds, NextHolds, PTL DEF Spec

\* Every variable has its type.
THEOREM TypeCorrect == Spec => []TypeOK
  <1>1. IInv => TypeOK
    BY DEF IInv, Core
  <1>2. QED BY <1>1, Invariance, PTL

\* No routine is called inside another one, however interrupts nest
\* (nISRHandlerCount, isr.c:152).
THEOREM OneRoutineRuns == Spec => []OneRoutine
  <1>1. IInv => OneRoutine
    <2> SUFFICES ASSUME IInv PROVE OneRoutine
      OBVIOUS
    <2>1. Len(frames) = IF frames = << >> THEN 0 ELSE 1
      BY FrameOps, FrameSeq DEF IInv, Core, OneFrame
    <2>2. QED BY <2>1 DEF IInv, Core, OneFrame, OneRoutine
  <1>2. QED BY <1>1, Invariance, PTL

\* iISRActiveCount is never below the number of activations.
THEOREM CountCoversActivations == Spec => []CountCovers
  <1>1. IInv => CountCovers
    BY DEF IInv, Core
  <1>2. QED BY <1>1, Invariance, PTL

\* OEM_InterruptHandler finds a bit, whatever the devices write meanwhile.
THEOREM SourceIsFound == Spec => []SourceFound
  <1>1. IInv => SourceFound
    BY DEF IInv, Core
  <1>2. QED BY <1>1, Invariance, PTL

\* A masked device is on its way to the driver that unmasks it.
THEOREM NoDeviceIsDead == Spec => []NoDeadDevice
  <1>1. IInv => NoDeadDevice
    BY DEF IInv, Core
  <1>2. QED BY <1>1, Invariance, PTL
=============================================================================
