------------------------- MODULE SendMessageProofs --------------------------
(***************************************************************************)
(* Proofs about SendMessage for any threads, messages and blocks, with     *)
(* timeouts and windows that go away: the stacks of calls are sound, a     *)
(* block has one sender, and nobody sleeps over an answer or a message.    *)
(***************************************************************************)
EXTENDS SendMessage, TLAPS

-----------------------------------------------------------------------------
(* Stacks.                                                                 *)

\* The frame at a depth, counted from the outermost call.
At(s, j) == s[Len(s) + 1 - j]

LEMMA Pushed ==
  ASSUME NEW F, NEW s \in Seq(F), NEW f \in F
  PROVE  /\ << f >> \o s \in Seq(F) /\ << f >> \o s # << >>
         /\ Len(<< f >> \o s) = Len(s) + 1 /\ Len(s) \in Nat
         /\ Head(<< f >> \o s) = f /\ Tail(<< f >> \o s) = s
         /\ \A j \in 1 .. Len(s) : At(<< f >> \o s, j) = At(s, j)
         /\ At(<< f >> \o s, Len(s) + 1) = f
  <1> DEFINE n == << f >> \o s
  <1>1. n \in Seq(F) /\ Len(n) = Len(s) + 1 /\ Len(s) \in Nat /\ n # << >>
    OBVIOUS
  <1>2. n[1] = f /\ \A i \in 1 .. Len(s) : n[i + 1] = s[i]
    OBVIOUS
  <1>3. Head(n) = f
    BY <1>1, <1>2
  <1>4. Tail(n) = s
    <2>1. Tail(n) \in Seq(F) /\ Len(Tail(n)) = Len(s)
      BY <1>1
    <2>2. \A i \in 1 .. Len(s) : Tail(n)[i] = s[i]
      BY <1>1, <1>2
    <2>3. QED BY <2>1, <2>2
  <1>5. \A j \in 1 .. Len(s) : At(n, j) = At(s, j)
    <2>1. TAKE j \in 1 .. Len(s)
    <2>2. Len(s) + 1 - j \in 1 .. Len(s)
          /\ Len(n) + 1 - j = (Len(s) + 1 - j) + 1
      BY <1>1
    <2> HIDE DEF n
    <2>3. n[(Len(s) + 1 - j) + 1] = s[Len(s) + 1 - j]
      BY <1>2, <2>2
    <2>4. QED BY <2>2, <2>3 DEF At
  <1>6. At(n, Len(s) + 1) = f
    BY <1>1, <1>2 DEF At
  <1>7. QED BY <1>1, <1>3, <1>4, <1>5, <1>6

LEMMA Popped ==
  ASSUME NEW F, NEW s \in Seq(F), s # << >>
  PROVE  /\ Head(s) \in F /\ Tail(s) \in Seq(F)
         /\ Len(Tail(s)) \in Nat /\ Len(s) = Len(Tail(s)) + 1
         /\ At(s, Len(s)) = Head(s)
         /\ \A j \in 1 .. Len(Tail(s)) : At(s, j) = At(Tail(s), j)
         /\ \A j \in 1 .. Len(s) : At(s, j) \in F
  <1>1. Len(s) \in Nat \ {0} /\ \A i \in 1 .. Len(s) : s[i] \in F
    OBVIOUS
  <1>2. Head(s) = s[1] /\ Tail(s) \in Seq(F) /\ Len(Tail(s)) = Len(s) - 1
        /\ \A i \in 1 .. Len(s) - 1 : Tail(s)[i] = s[i + 1]
    BY <1>1
  <1>3. At(s, Len(s)) = Head(s)
    BY <1>1, <1>2 DEF At
  <1>4. \A j \in 1 .. Len(Tail(s)) : At(s, j) = At(Tail(s), j)
    <2>1. TAKE j \in 1 .. Len(Tail(s))
    <2>2. Len(s) - j \in 1 .. Len(s) - 1 /\ Len(s) + 1 - j = (Len(s) - j) + 1
          /\ Len(Tail(s)) + 1 - j = Len(s) - j
      BY <1>1, <1>2
    <2>3. Tail(s)[Len(s) - j] = s[(Len(s) - j) + 1]
      BY <1>2, <2>2
    <2>4. QED BY <2>2, <2>3 DEF At
  <1>5. \A j \in 1 .. Len(s) : At(s, j) \in F
    BY <1>1 DEF At
  <1>6. QED BY <1>1, <1>2, <1>3, <1>4, <1>5

\* The outermost frame is the program's; calls are made from some frames only.
Base == {"app", "get", "idle", "look", "keep"}
Lower == {"app", "get", "keep", "proc", "serve", "pump"}

Stacked(s) ==
  /\ s \in Seq(Frames) /\ s # << >>
  /\ \A j \in 1 .. Len(s) :
       /\ At(s, j).at \in Base <=> j = 1
       /\ j < Len(s) => At(s, j).at \in Lower

\* t has put its name into the blocks it waits for, each its own.
Owning(t, s, tm, fr) ==
  /\ \A j \in 1 .. Len(s) : At(s, j).at \in Sending =>
       tm[At(s, j).block].sender = t /\ At(s, j).block \notin fr
  /\ \A i, j \in 1 .. Len(s) :
       /\ At(s, i).at \in Sending /\ At(s, j).at \in Sending
       /\ At(s, i).block = At(s, j).block
       => i = j

LEMMA FrameShapes ==
  /\ \A f \in Frames : f.at \in Base \cup {"proc", "serve", "notify", "signal"}
                                     \cup Sending
  /\ \A f \in Frames : f.at \in Sending =>
       /\ f.block \in Blocks /\ f.hwnd \in Threads /\ f.msg \in Msgs
       /\ \A x \in Sending : [f EXCEPT !.at = x] \in Frames
                             /\ [f EXCEPT !.at = x].at = x
                             /\ [f EXCEPT !.at = x].block = f.block
                             /\ [f EXCEPT !.at = x].hwnd = f.hwnd
  /\ \A f \in Frames : f.at \in Base =>
       \A x \in Base : [f EXCEPT !.at = x] \in Frames
                       /\ [f EXCEPT !.at = x].at = x
  /\ \A f \in Frames : f.at = "serve" =>
       /\ f.block \in Blocks
       /\ [f EXCEPT !.at = "notify"] = [at |-> "notify", block |-> f.block]
  /\ \A f \in Frames : f.at = "proc" => f.msg \in Msgs
  /\ \A f \in Frames : f.at = "notify" => f.block \in Blocks
                         /\ f = [at |-> "notify", block |-> f.block]
  /\ \A f \in Frames : f.at = "signal" => f.hwnd \in Threads
  /\ \A m \in Msgs : [at |-> "proc", msg |-> m] \in Frames
  /\ \A b \in Blocks : [at |-> "serve", block |-> b] \in Frames
                       /\ [at |-> "notify", block |-> b] \in Frames
  /\ \A u \in Threads : [at |-> "signal", hwnd |-> u] \in Frames
  /\ \A b \in Blocks, u \in Threads, m \in Msgs :
       [at |-> "insert", block |-> b, hwnd |-> u, msg |-> m] \in Frames
  /\ [at |-> "app"] \in Frames
  BY DEF Frames, Base, Sending

LEMMA BaseTurns ==
  ASSUME NEW f \in Frames, NEW x \in Base, f.at \in Base
  PROVE  [f EXCEPT !.at = x] \in Frames /\ [f EXCEPT !.at = x].at = x
  BY FrameShapes

LEMMA SendingTurns ==
  ASSUME NEW f \in Frames, NEW x \in Sending, f.at \in Sending
  PROVE  /\ [f EXCEPT !.at = x] \in Frames /\ [f EXCEPT !.at = x].at = x
         /\ [f EXCEPT !.at = x].block = f.block
         /\ [f EXCEPT !.at = x].hwnd = f.hwnd
  BY FrameShapes

LEMMA PushOn ==
  ASSUME NEW s, NEW f \in Frames, Stacked(s),
         Head(s).at \in Lower, f.at \notin Base
  PROVE  Stacked(<< f >> \o s)
  <1> DEFINE n == << f >> \o s
  <1>1. /\ n \in Seq(Frames) /\ n # << >> /\ Len(n) = Len(s) + 1
        /\ Len(s) \in Nat /\ s # << >>
        /\ \A j \in 1 .. Len(s) : At(n, j) = At(s, j)
        /\ At(n, Len(s) + 1) = f
    BY Pushed DEF Stacked
  <1>2. At(s, Len(s)) = Head(s) /\ Len(s) # 0
    BY Popped DEF Stacked
  <1> HIDE DEF n
  <1>3. ASSUME NEW j \in 1 .. Len(n)
        PROVE  /\ At(n, j).at \in Base <=> j = 1
               /\ j < Len(n) => At(n, j).at \in Lower
    <2>1. CASE j \in 1 .. Len(s)
      <3>1. /\ At(s, j).at \in Base <=> j = 1
            /\ j < Len(s) => At(s, j).at \in Lower
        BY <2>1 DEF Stacked
      <3>2. j = Len(s) => At(s, j).at \in Lower
        BY <1>2
      <3>3. QED BY <1>1, <2>1, <3>1, <3>2
    <2>2. CASE j = Len(s) + 1
      BY <1>1, <1>2, <2>2
    <2>3. QED BY <1>1, <2>1, <2>2
  <1>4. Stacked(n)
    BY <1>1, <1>3 DEF Stacked
  <1>5. QED BY <1>4 DEF n

LEMMA ReplaceTop ==
  ASSUME NEW s, NEW f \in Frames, Stacked(s),
         f.at \in Base <=> Head(s).at \in Base
  PROVE  Stacked(<< f >> \o Tail(s))
  <1> DEFINE n == << f >> \o Tail(s)
  <1>1. /\ Tail(s) \in Seq(Frames)
        /\ Len(Tail(s)) \in Nat /\ Len(s) = Len(Tail(s)) + 1
        /\ At(s, Len(s)) = Head(s)
        /\ \A j \in 1 .. Len(Tail(s)) : At(s, j) = At(Tail(s), j)
    BY Popped DEF Stacked
  <1>2. /\ n \in Seq(Frames) /\ n # << >> /\ Len(n) = Len(Tail(s)) + 1
        /\ \A j \in 1 .. Len(Tail(s)) : At(n, j) = At(Tail(s), j)
        /\ At(n, Len(Tail(s)) + 1) = f
    <2>1. \A r \in Seq(Frames) :
            /\ << f >> \o r \in Seq(Frames) /\ << f >> \o r # << >>
            /\ Len(<< f >> \o r) = Len(r) + 1
            /\ \A j \in 1 .. Len(r) : At(<< f >> \o r, j) = At(r, j)
            /\ At(<< f >> \o r, Len(r) + 1) = f
      BY Pushed
    <2>2. Tail(s) \in Seq(Frames)
      BY <1>1
    <2>3. QED BY <2>1, <2>2
  <1> HIDE DEF n
  <1>3. ASSUME NEW j \in 1 .. Len(n)
        PROVE  /\ At(n, j).at \in Base <=> j = 1
               /\ j < Len(n) => At(n, j).at \in Lower
    <2>1. /\ At(s, j).at \in Base <=> j = 1
          /\ j < Len(s) => At(s, j).at \in Lower
      BY <1>1, <1>2 DEF Stacked
    <2>2. CASE j \in 1 .. Len(Tail(s))
      BY <1>1, <1>2, <2>1, <2>2
    <2>3. CASE j = Len(s)
      BY <1>1, <1>2, <2>1, <2>3
    <2>4. j \in 1 .. Len(Tail(s)) \/ j = Len(s)
      <3>1. \A k \in Nat : \A i \in 1 .. k + 1 : i \in 1 .. k \/ i = k + 1
        OBVIOUS
      <3>2. /\ Len(Tail(s)) \in Nat /\ Len(s) = Len(Tail(s)) + 1
            /\ Len(n) = Len(Tail(s)) + 1
        BY <1>1, <1>2
      <3>3. QED BY <3>1, <3>2
    <2>5. QED BY <2>2, <2>3, <2>4
  <1>4. Stacked(n)
    BY <1>2, <1>3 DEF Stacked
  <1>5. QED BY <1>4 DEF n

LEMMA PopOff ==
  ASSUME NEW s, Stacked(s), Head(s).at \notin Base
  PROVE  Stacked(Tail(s)) /\ Head(Tail(s)).at \in Lower
  <1>1. /\ Tail(s) \in Seq(Frames)
        /\ Len(Tail(s)) \in Nat /\ Len(s) = Len(Tail(s)) + 1
        /\ At(s, Len(s)) = Head(s)
        /\ \A j \in 1 .. Len(Tail(s)) : At(s, j) = At(Tail(s), j)
    BY Popped DEF Stacked
  <1>2. Len(Tail(s)) # 0
    BY <1>1 DEF Stacked
  <1>3. Tail(s) # << >>
    <2>1. Len(<< >>) = 0
      OBVIOUS
    <2>2. QED BY <1>2, <2>1
  <1>4. At(Tail(s), Len(Tail(s))) = Head(Tail(s))
    BY <1>1, <1>3, Popped
  <1>5. QED BY <1>1, <1>2, <1>3, <1>4 DEF Stacked

\* What is true of the frames at each depth below stays true of them.
LEMMA OwnPush ==
  ASSUME NEW t, NEW s \in Seq(Frames), NEW f \in Frames, NEW tm, NEW fr,
         Owning(t, s, tm, fr),
         f.at \in Sending =>
           /\ tm[f.block].sender = t /\ f.block \notin fr
           /\ \A j \in 1 .. Len(s) :
                At(s, j).at \in Sending => At(s, j).block # f.block
  PROVE  Owning(t, << f >> \o s, tm, fr)
  <1> DEFINE n == << f >> \o s
  <1>1. /\ Len(n) = Len(s) + 1 /\ Len(s) \in Nat
        /\ \A j \in 1 .. Len(s) : At(n, j) = At(s, j)
        /\ At(n, Len(s) + 1) = f
    BY Pushed
  <1> HIDE DEF n
  <1>2. \A j \in 1 .. Len(n) : j \in 1 .. Len(s) \/ j = Len(s) + 1
    BY <1>1
  <1>3. \A j \in 1 .. Len(n) : At(n, j).at \in Sending =>
          tm[At(n, j).block].sender = t /\ At(n, j).block \notin fr
    BY <1>1, <1>2 DEF Owning
  <1>4. \A i, j \in 1 .. Len(n) :
          /\ At(n, i).at \in Sending /\ At(n, j).at \in Sending
          /\ At(n, i).block = At(n, j).block
          => i = j
    BY <1>1, <1>2 DEF Owning
  <1>5. QED BY <1>3, <1>4 DEF Owning, n

LEMMA OwnPop ==
  ASSUME NEW t, NEW s \in Seq(Frames), NEW tm, NEW fr, s # << >>,
         Owning(t, s, tm, fr)
  PROVE  /\ Owning(t, Tail(s), tm, fr)
         /\ Head(s).at \in Sending =>
              /\ tm[Head(s).block].sender = t /\ Head(s).block \notin fr
              /\ \A j \in 1 .. Len(Tail(s)) : At(Tail(s), j).at \in Sending =>
                   At(Tail(s), j).block # Head(s).block
  <1>1. /\ Len(Tail(s)) \in Nat /\ Len(s) = Len(Tail(s)) + 1
        /\ At(s, Len(s)) = Head(s)
        /\ \A j \in 1 .. Len(Tail(s)) : At(s, j) = At(Tail(s), j)
    BY Popped
  <1>2. \A j \in 1 .. Len(Tail(s)) : j \in 1 .. Len(s) /\ j # Len(s)
    <2>1. \A k, l \in Nat : l = k + 1 => \A j \in 1 .. k : j \in 1 .. l /\ j # l
      OBVIOUS
    <2>2. Len(s) \in Nat
      BY <1>1
    <2>3. QED BY <1>1, <2>1, <2>2
  <1>3. Len(s) \in 1 .. Len(s)
    BY <1>1
  <1>4. Owning(t, Tail(s), tm, fr)
    BY <1>1, <1>2 DEF Owning
  <1>5. Head(s).at \in Sending =>
          tm[Head(s).block].sender = t /\ Head(s).block \notin fr
    BY <1>1, <1>3 DEF Owning
  <1>6. ASSUME Head(s).at \in Sending, NEW j \in 1 .. Len(Tail(s)),
               At(Tail(s), j).at \in Sending,
               At(Tail(s), j).block = Head(s).block
        PROVE  FALSE
    BY <1>1, <1>2, <1>3, <1>6 DEF Owning
  <1>7. QED BY <1>4, <1>5, <1>6

\* The frame on top is replaced by one that waits for the same block, if any.
LEMMA OwnReplace ==
  ASSUME NEW t, NEW s \in Seq(Frames), NEW f \in Frames, NEW tm, NEW fr,
         s # << >>, Owning(t, s, tm, fr),
         f.at \in Sending => Head(s).at \in Sending /\ f.block = Head(s).block
  PROVE  Owning(t, << f >> \o Tail(s), tm, fr)
  <1>1. Tail(s) \in Seq(Frames)
    BY Popped
  <1>2. /\ Owning(t, Tail(s), tm, fr)
        /\ Head(s).at \in Sending =>
              /\ tm[Head(s).block].sender = t /\ Head(s).block \notin fr
              /\ \A j \in 1 .. Len(Tail(s)) : At(Tail(s), j).at \in Sending =>
                   At(Tail(s), j).block # Head(s).block
    BY OwnPop
  <1>3. QED BY <1>1, <1>2, OwnPush

\* The blocks may change as long as those that are waited for keep the sender.
LEMMA OwnKept ==
  ASSUME NEW t, NEW s, NEW tm, NEW fr, NEW tm2, NEW fr2, Owning(t, s, tm, fr),
         \A j \in 1 .. Len(s) : At(s, j).at \in Sending =>
           /\ tm2[At(s, j).block].sender = tm[At(s, j).block].sender
           /\ At(s, j).block \in fr2 => At(s, j).block \in fr
  PROVE  Owning(t, s, tm2, fr2)
  BY DEF Owning

-----------------------------------------------------------------------------
(* The inductive invariant.                                                *)

Block == [hwnd : Threads \cup {NoThread}, msg : Msgs, lResult : Answers,
          sender : Threads \cup {NoThread}, uFlag : 0 .. 2]

\* The type invariant but for the stacks' having a frame.
Data ==
  /\ threadMsg \in [Blocks -> Block]
  /\ free \subseteq Blocks
  /\ queue \in [Threads -> Seq(Entries)]
  /\ hWaitEvent \subseteq Threads /\ windows \subseteq Threads
  /\ stack \in [Threads -> Seq(Frames)]
  /\ calls \in [Threads -> Nat]

Sound ==
  \A t \in Threads : Stacked(stack[t]) /\ Owning(t, stack[t], threadMsg, free)

IInv == Data /\ Sound /\ NobodyMissed

LEMMA InvImplies ==
  /\ IInv => TypeOK
  /\ IInv => \A t \in Threads :
       /\ Stacked(stack[t]) /\ stack[t] \in Seq(Frames) /\ stack[t] # << >>
       /\ Top(t) \in Frames /\ Below(t) \in Seq(Frames)
       /\ Owning(t, stack[t], threadMsg, free)
  <1>1. IInv => TypeOK
    BY DEF IInv, Data, Sound, Stacked, Block, TypeOK
  <1>2. ASSUME IInv, NEW t \in Threads
        PROVE  /\ Stacked(stack[t]) /\ stack[t] \in Seq(Frames) /\ stack[t] # << >>
               /\ Top(t) \in Frames /\ Below(t) \in Seq(Frames)
               /\ Owning(t, stack[t], threadMsg, free)
    <2>1. /\ Stacked(stack[t]) /\ stack[t] \in Seq(Frames) /\ stack[t] # << >>
          /\ Owning(t, stack[t], threadMsg, free)
      BY <1>2 DEF IInv, Sound, Stacked
    <2>2. QED BY <2>1, Popped DEF Top, Below
  <1>3. QED BY <1>1, <1>2

\* What a step of t that leaves the stack s has to see to for nobody to be
\* missed: t, if it goes to sleep; whom it was about to wake; and who gets an
\* answer or a message by the step.
Rouses(t, s) ==
  /\ hWaitEvent \ {t} \subseteq hWaitEvent'
  /\ Head(s).at = "wait" => threadMsg'[Head(s).block].uFlag # 2
  /\ Head(s).at = "idle" => queue'[t] = << >>
  /\ Top(t).at = "notify" =>
       {threadMsg[Top(t).block].sender} \cap Threads \subseteq hWaitEvent'
  /\ Top(t).at \in {"signal", "raise"} => Top(t).hwnd \in hWaitEvent'
  /\ \A x \in Threads \ {t} :
       Top(x).at = "wait" /\ threadMsg'[Top(x).block].uFlag = 2 =>
         \/ threadMsg[Top(x).block].uFlag = 2
         \/ Head(s) = [at |-> "notify", block |-> Top(x).block]
  /\ \A x \in Threads \ {t} :
       queue'[x] # << >> =>
         \/ queue[x] # << >>
         \/ Head(s).at \in {"signal", "raise"} /\ Head(s).hwnd = x

LEMMA Rousing ==
  ASSUME IInv, NEW t \in Threads, NEW s,
         stack' = [stack EXCEPT ![t] = s], Rouses(t, s)
  PROVE  NobodyMissed'
  <1>1. /\ Top(t)' = Head(s)
        /\ \A x \in Threads \ {t} : Top(x)' = Top(x)
    BY DEF IInv, Data, Top
  <1>2. ASSUME NEW x \in Threads, Top(x)'.at = "wait",
               threadMsg'[Top(x)'.block].uFlag = 2
        PROVE  \/ x \in hWaitEvent'
               \/ \E u \in Threads :
                    Top(u)' = [at |-> "notify", block |-> Top(x)'.block]
    <2>1. x # t /\ Top(x)' = Top(x)
      BY <1>1, <1>2 DEF Rouses
    <2>2. CASE threadMsg[Top(x).block].uFlag # 2
      <3>1. Top(x).at = "wait" /\ threadMsg'[Top(x).block].uFlag = 2
            /\ x \in Threads \ {t}
        BY <1>2, <2>1
      <3>2. Head(s) = [at |-> "notify", block |-> Top(x).block]
        BY <2>2, <3>1 DEF Rouses
      <3>3. Top(t)' = [at |-> "notify", block |-> Top(x)'.block]
        BY <1>1, <2>1, <3>2
      <3>4. QED BY <3>3
    <2>3. CASE x \in hWaitEvent
      BY <2>1, <2>3 DEF Rouses
    <2>4. CASE threadMsg[Top(x).block].uFlag = 2 /\ x \notin hWaitEvent
      <3>1. PICK u \in Threads : Top(u) = [at |-> "notify", block |-> Top(x).block]
        BY <1>2, <2>1, <2>4 DEF IInv, NobodyMissed, Handled
      <3>2. CASE u # t
        BY <1>1, <2>1, <3>1, <3>2
      <3>3. CASE u = t
        <4>1. threadMsg[Top(x).block].sender = x
          <5>1. /\ stack[x] \in Seq(Frames) /\ stack[x] # << >>
                /\ Owning(x, stack[x], threadMsg, free)
            BY InvImplies
          <5>2. Head(stack[x]).at \in Sending
            BY <1>2, <2>1 DEF Top, Sending
          <5>3. QED BY <5>1, <5>2, OwnPop DEF Top
        <4>2. QED BY <3>1, <3>3, <4>1 DEF Rouses
      <3>4. QED BY <3>2, <3>3
    <2>5. QED BY <2>2, <2>3, <2>4
  <1>3. ASSUME NEW x \in Threads, Top(x)'.at = "idle", queue'[x] # << >>
        PROVE  \/ x \in hWaitEvent'
               \/ \E u \in Threads :
                    Top(u)'.at \in {"signal", "raise"} /\ Top(u)'.hwnd = x
    <2>1. x # t /\ Top(x)' = Top(x)
      BY <1>1, <1>3 DEF Rouses
    <2>2. CASE queue[x] = << >>
      BY <1>1, <1>3, <2>1, <2>2 DEF Rouses
    <2>3. CASE x \in hWaitEvent
      BY <2>1, <2>3 DEF Rouses
    <2>4. CASE queue[x] # << >> /\ x \notin hWaitEvent
      <3>1. PICK u \in Threads : Top(u).at \in {"signal", "raise"} /\ Top(u).hwnd = x
        BY <1>3, <2>1, <2>4 DEF IInv, NobodyMissed
      <3>2. CASE u # t
        BY <1>1, <3>1, <3>2
      <3>3. CASE u = t
        BY <3>1, <3>3 DEF Rouses
      <3>4. QED BY <3>2, <3>3
    <2>5. QED BY <2>2, <2>3, <2>4
  <1>4. QED BY <1>2, <1>3 DEF NobodyMissed, Handled

\* What it has to see to for the stacks and the blocks.
LEMMA Sounding ==
  ASSUME IInv, NEW t \in Threads, NEW s,
         stack' = [stack EXCEPT ![t] = s], Stacked(s),
         Owning(t, s, threadMsg', free'),
         \A x \in Threads \ {t}, c \in Blocks :
           threadMsg[c].sender = x /\ c \notin free =>
             threadMsg'[c].sender = x /\ c \notin free'
  PROVE  Sound' /\ stack' \in [Threads -> Seq(Frames)]
  <1>1. stack' \in [Threads -> Seq(Frames)]
    BY DEF IInv, Data, Stacked
  <1>2. Stacked(stack'[t]) /\ Owning(t, stack'[t], threadMsg', free')
    BY DEF IInv, Data
  <1>3. ASSUME NEW x \in Threads \ {t}
        PROVE  Stacked(stack'[x]) /\ Owning(x, stack'[x], threadMsg', free')
    <2>1. /\ Stacked(stack[x]) /\ stack[x] \in Seq(Frames) /\ stack[x] # << >>
          /\ Owning(x, stack[x], threadMsg, free)
      BY InvImplies
    <2>2. stack'[x] = stack[x]
      BY DEF IInv, Data
    <2>3. ASSUME NEW j \in 1 .. Len(stack[x]), At(stack[x], j).at \in Sending
          PROVE  /\ threadMsg'[At(stack[x], j).block].sender
                      = threadMsg[At(stack[x], j).block].sender
                 /\ At(stack[x], j).block \notin free'
      <3>1. At(stack[x], j) \in Frames
        BY <2>1, Popped
      <3>2. At(stack[x], j).block \in Blocks
        BY <2>3, <3>1, FrameShapes
      <3>3. threadMsg[At(stack[x], j).block].sender = x
            /\ At(stack[x], j).block \notin free
        BY <2>1, <2>3 DEF Owning
      <3>4. QED BY <3>2, <3>3
    <2>4. Owning(x, stack[x], threadMsg', free')
      BY <2>1, <2>3, OwnKept
    <2>5. QED BY <2>1, <2>2, <2>4
  <1>4. Sound'
    <2>1. \A x \in Threads :
            Stacked(stack'[x]) /\ Owning(x, stack'[x], threadMsg', free')
      BY <1>2, <1>3
    <2>2. QED BY <2>1 DEF Sound
  <1>5. QED BY <1>1, <1>4

-----------------------------------------------------------------------------
(* Calls and returns.                                                      *)

LEMMA ResumedSound ==
  ASSUME NEW t, NEW q, NEW tm, NEW fr, Stacked(q), Head(q).at \in Lower,
         Owning(t, q, tm, fr)
  PROVE  /\ Stacked(Resumed(q)) /\ Owning(t, Resumed(q), tm, fr)
         /\ Head(Resumed(q)).at \notin {"wait", "idle", "signal", "raise"}
         /\ Head(q).at = "serve" =>
              Head(Resumed(q)) = [at |-> "notify", block |-> Head(q).block]
  <1>1. q \in Seq(Frames) /\ q # << >> /\ Head(q) \in Frames /\ Tail(q) \in Seq(Frames)
    BY Popped DEF Stacked
  <1>2. CASE Head(q).at = "serve"
    <2> DEFINE f == [Head(q) EXCEPT !.at = "notify"]
    <2>1. Resumed(q) = << f >> \o Tail(q)
      BY <1>2 DEF Resumed
    <2>2. f = [at |-> "notify", block |-> Head(q).block] /\ f \in Frames
      <3>1. /\ Head(q).block \in Blocks
            /\ f = [at |-> "notify", block |-> Head(q).block]
        BY <1>1, <1>2, FrameShapes
      <3> HIDE DEF f
      <3>2. QED BY <3>1, FrameShapes
    <2>3. f.at = "notify" /\ f.at \notin Sending /\ f.at \notin Base
      BY <2>2 DEF Sending, Base
    <2> HIDE DEF f
    <2>4. Stacked(<< f >> \o Tail(q))
      BY <1>2, <2>2, <2>3, ReplaceTop DEF Base
    <2>5. Owning(t, << f >> \o Tail(q), tm, fr)
      BY <1>1, <2>2, <2>3, OwnReplace
    <2>6. Head(<< f >> \o Tail(q)) = f
      BY <1>1, <2>2, Pushed
    <2>7. QED BY <2>1, <2>2, <2>3, <2>4, <2>5, <2>6
  <1>3. CASE Head(q).at = "pump" /\ threadMsg[Head(q).block].uFlag = 2
    <2> DEFINE f == [Head(q) EXCEPT !.at = "test"]
    <2>1. Resumed(q) = << f >> \o Tail(q)
      BY <1>3 DEF Resumed
    <2>2. f \in Frames /\ f.at = "test" /\ f.block = Head(q).block
          /\ Head(q).at \in Sending
      BY <1>1, <1>3, FrameShapes DEF Sending
    <2>3. f.at \notin Base /\ Head(q).at \notin Base
      BY <1>3, <2>2 DEF Base
    <2> HIDE DEF f
    <2>4. Stacked(<< f >> \o Tail(q))
      BY <2>2, <2>3, ReplaceTop
    <2>5. Owning(t, << f >> \o Tail(q), tm, fr)
      BY <1>1, <2>2, OwnReplace
    <2>6. Head(<< f >> \o Tail(q)) = f
      BY <1>1, <2>2, Pushed
    <2>7. QED BY <1>3, <2>1, <2>2, <2>4, <2>5, <2>6
  <1>4. CASE /\ Head(q).at # "serve"
             /\ ~ (Head(q).at = "pump" /\ threadMsg[Head(q).block].uFlag = 2)
    <2>1. Resumed(q) = q
      BY <1>4 DEF Resumed
    <2>2. QED BY <1>4, <2>1 DEF Lower
  <1>5. QED BY <1>2, <1>3, <1>4

\* Storing a result touches the one block that is served.
LEMMA StoredData ==
  ASSUME Data, NEW q, Stacked(q), NEW r \in Answers
  PROVE  /\ Stored(q, r) \in [Blocks -> Block]
         /\ \A c \in Blocks :
              /\ Stored(q, r)[c].sender = threadMsg[c].sender
              /\ Stored(q, r)[c].uFlag = 2 =>
                   \/ threadMsg[c].uFlag = 2
                   \/ Head(q).at = "serve" /\ c = Head(q).block
  <1>1. q \in Seq(Frames) /\ q # << >> /\ Head(q) \in Frames
    BY Popped DEF Stacked
  <1>2. CASE Head(q).at = "serve"
    <2>1. Head(q).block \in Blocks
      BY <1>1, <1>2, FrameShapes
    <2> DEFINE b == Head(q).block
    <2>2. Stored(q, r) = [threadMsg EXCEPT ![b] =
                            [threadMsg[b] EXCEPT !.lResult = r, !.uFlag = 2]]
      BY <1>2, <2>1 DEF Stored, Data, Block
    <2> HIDE DEF b
    <2>3. b \in Blocks
      BY <2>1 DEF b
    <2>4. [threadMsg[b] EXCEPT !.lResult = r, !.uFlag = 2] \in Block
      <3>1. threadMsg[b] \in Block
        BY <2>3 DEF Data
      <3>2. 2 \in 0 .. 2
        OBVIOUS
      <3>3. QED BY <3>1, <3>2 DEF Block
    <2>5. [threadMsg[b] EXCEPT !.lResult = r, !.uFlag = 2].sender
            = threadMsg[b].sender
      BY <2>3 DEF Data, Block
    <2>6. QED BY <1>2, <2>2, <2>3, <2>4, <2>5 DEF Data, b
  <1>3. CASE Head(q).at # "serve"
    BY <1>3 DEF Stored, Data
  <1>4. QED BY <1>2, <1>3

\* A procedure or WinMsg_Send returns to q, on the stack of t.
LEMMA Returns ==
  ASSUME IInv, NEW t \in Threads, NEW q, Stacked(q), Head(q).at \in Lower,
         Owning(t, q, threadMsg', free'),
         stack' = [stack EXCEPT ![t] = Resumed(q)],
         Top(t).at \notin {"notify", "signal", "raise"},
         \A c \in Blocks :
           /\ threadMsg'[c].sender = threadMsg[c].sender
           /\ threadMsg'[c].uFlag = 2 =>
                \/ threadMsg[c].uFlag = 2
                \/ Head(q).at = "serve" /\ c = Head(q).block
           /\ c \in free' => c \in free \/ threadMsg[c].sender = t,
         hWaitEvent \ {t} \subseteq hWaitEvent',
         \A x \in Threads \ {t} : queue'[x] = queue[x]
  PROVE  Sound' /\ stack' \in [Threads -> Seq(Frames)] /\ NobodyMissed'
  <1> DEFINE s == Resumed(q)
  <1>1. /\ Stacked(s) /\ Owning(t, s, threadMsg', free')
        /\ Head(s).at \notin {"wait", "idle", "signal", "raise"}
        /\ Head(q).at = "serve" =>
              Head(s) = [at |-> "notify", block |-> Head(q).block]
    BY ResumedSound
  <1> HIDE DEF s
  <1>2. stack' = [stack EXCEPT ![t] = s]
    BY DEF s
  <1>3. Sound' /\ stack' \in [Threads -> Seq(Frames)]
    BY <1>1, <1>2, Sounding
  <1>4. ASSUME NEW x \in Threads \ {t}, Top(x).at = "wait",
               threadMsg'[Top(x).block].uFlag = 2
        PROVE  \/ threadMsg[Top(x).block].uFlag = 2
               \/ Head(s) = [at |-> "notify", block |-> Top(x).block]
    <2>1. Top(x).block \in Blocks
      BY <1>4, InvImplies, FrameShapes DEF Sending
    <2>2. QED BY <1>1, <1>4, <2>1
  <1>5. /\ Head(s).at = "wait" => threadMsg'[Head(s).block].uFlag # 2
        /\ Head(s).at = "idle" => queue'[t] = << >>
        /\ Top(t).at = "notify" =>
             {threadMsg[Top(t).block].sender} \cap Threads \subseteq hWaitEvent'
        /\ Top(t).at \in {"signal", "raise"} => Top(t).hwnd \in hWaitEvent'
    BY <1>1
  <1>6. \A x \in Threads \ {t} :
          Top(x).at = "wait" /\ threadMsg'[Top(x).block].uFlag = 2 =>
             \/ threadMsg[Top(x).block].uFlag = 2
             \/ Head(s) = [at |-> "notify", block |-> Top(x).block]
    BY <1>4
  <1>7. \A x \in Threads \ {t} :
          queue'[x] # << >> =>
             \/ queue[x] # << >>
             \/ Head(s).at \in {"signal", "raise"} /\ Head(s).hwnd = x
    OBVIOUS
  <1>8. Rouses(t, s)
    BY <1>5, <1>6, <1>7 DEF Rouses
  <1>9. NobodyMissed'
    BY <1>2, <1>8, Rousing
  <1>10. QED BY <1>3, <1>9

\* _ReleaseThreadMsgPtr, with or without an answer.
LEMMA Releases ==
  ASSUME IInv, NEW t \in Threads, Top(t).at \in {"test", "wait"},
         NEW r \in Answers, Release(t, r), hWaitEvent \ {t} \subseteq hWaitEvent',
         hWaitEvent' \subseteq Threads, UNCHANGED << queue, windows, calls >>
  PROVE  IInv'
  <1> DEFINE b == Top(t).block
             q == Below(t)
  <1>1. Stacked(q) /\ Head(q).at \in Lower /\ q \in Seq(Frames)
    BY InvImplies, PopOff DEF Below, Top, Base
  <1>2. /\ Owning(t, q, threadMsg, free)
        /\ threadMsg[b].sender = t /\ b \notin free
        /\ \A j \in 1 .. Len(q) : At(q, j).at \in Sending => At(q, j).block # b
    <2>1. /\ stack[t] \in Seq(Frames) /\ stack[t] # << >>
          /\ Owning(t, stack[t], threadMsg, free)
      BY InvImplies
    <2>2. Head(stack[t]).at \in Sending
      BY DEF Top, Sending
    <2>3. QED BY <2>1, <2>2, OwnPop DEF Below, Top
  <1>3. b \in Blocks
    BY InvImplies, FrameShapes DEF Sending
  <1>4. /\ Stored(q, r) \in [Blocks -> Block]
        /\ \A c \in Blocks :
              /\ Stored(q, r)[c].sender = threadMsg[c].sender
              /\ Stored(q, r)[c].uFlag = 2 =>
                   \/ threadMsg[c].uFlag = 2
                   \/ Head(q).at = "serve" /\ c = Head(q).block
    BY <1>1, StoredData DEF IInv
  <1> HIDE DEF b, q
  <1>5. /\ stack' = [stack EXCEPT ![t] = Resumed(q)]
        /\ threadMsg' = [Stored(q, r) EXCEPT ![b].hwnd = NoThread]
        /\ free' = free \cup {b}
    BY DEF Release, Becomes, b, q
  <1>6. /\ threadMsg' \in [Blocks -> Block]
        /\ \A c \in Blocks :
              /\ threadMsg'[c].sender = threadMsg[c].sender
              /\ threadMsg'[c].uFlag = Stored(q, r)[c].uFlag
    <2> HIDE DEF Stored
    <2>1. [Stored(q, r)[b] EXCEPT !.hwnd = NoThread] \in Block
      BY <1>3, <1>4 DEF Block
    <2>2. threadMsg' = [Stored(q, r) EXCEPT ![b] =
                          [Stored(q, r)[b] EXCEPT !.hwnd = NoThread]]
      BY <1>5
    <2>3. [Stored(q, r)[b] EXCEPT !.hwnd = NoThread].sender = Stored(q, r)[b].sender
          /\ [Stored(q, r)[b] EXCEPT !.hwnd = NoThread].uFlag = Stored(q, r)[b].uFlag
      BY <1>3, <1>4 DEF Block
    <2>4. QED BY <1>3, <1>4, <2>1, <2>2, <2>3
  <1>7. Owning(t, q, threadMsg', free')
    <2>1. ASSUME NEW j \in 1 .. Len(q), At(q, j).at \in Sending
          PROVE  /\ threadMsg'[At(q, j).block].sender
                      = threadMsg[At(q, j).block].sender
                 /\ At(q, j).block \in free' => At(q, j).block \in free
      <3>1. At(q, j) \in Frames
        BY <1>1, Popped DEF Stacked
      <3>2. At(q, j).block \in Blocks
        BY <2>1, <3>1, FrameShapes
      <3>3. QED BY <1>2, <1>5, <1>6, <2>1, <3>2
    <2>2. QED BY <1>2, <2>1, OwnKept
  <1>8. \A c \in Blocks : c \in free' => c \in free \/ threadMsg[c].sender = t
    BY <1>2, <1>5
  <1>9. \A c \in Blocks :
           /\ threadMsg'[c].sender = threadMsg[c].sender
           /\ threadMsg'[c].uFlag = 2 =>
                \/ threadMsg[c].uFlag = 2
                \/ Head(q).at = "serve" /\ c = Head(q).block
           /\ c \in free' => c \in free \/ threadMsg[c].sender = t
    BY <1>4, <1>6, <1>8
  <1>10. /\ Top(t).at \notin {"notify", "signal", "raise"}
         /\ \A x \in Threads \ {t} : queue'[x] = queue[x]
    OBVIOUS
  <1>11. Sound' /\ stack' \in [Threads -> Seq(Frames)] /\ NobodyMissed'
    BY <1>1, <1>5, <1>7, <1>9, <1>10, Returns
  <1>12. Data'
    BY <1>3, <1>5, <1>6, <1>11 DEF IInv, Data
  <1>13. QED BY <1>11, <1>12 DEF IInv

LEMMA QueueTypes ==
  /\ \A b \in Blocks : Sent(b) \in Entries /\ Sent(b).posted = FALSE
                       /\ Sent(b).block = b
  /\ \A m \in Msgs : Posted(m) \in Entries /\ Posted(m).posted = TRUE
                     /\ Posted(m).msg = m
  /\ \A e \in Entries : /\ ~ e.posted => e.block \in Blocks
                        /\ e.posted => e.msg \in Msgs
  /\ \A q \in Seq(Entries), e \in Entries : Append(q, e) \in Seq(Entries)
  /\ \A q \in Seq(Entries) : q # << >> =>
       Head(q) \in Entries /\ Tail(q) \in Seq(Entries)
  <1>1. /\ \A b \in Blocks : Sent(b) \in Entries /\ Sent(b).posted = FALSE
                             /\ Sent(b).block = b
        /\ \A m \in Msgs : Posted(m) \in Entries /\ Posted(m).posted = TRUE
                           /\ Posted(m).msg = m
    BY DEF Sent, Posted, Entries
  <1>2. \A e \in Entries : /\ ~ e.posted => e.block \in Blocks
                           /\ e.posted => e.msg \in Msgs
    BY DEF Sent, Posted, Entries
  <1>3. /\ \A q \in Seq(Entries), e \in Entries : Append(q, e) \in Seq(Entries)
        /\ \A q \in Seq(Entries) : q # << >> =>
             Head(q) \in Entries /\ Tail(q) \in Seq(Entries)
    OBVIOUS
  <1>4. QED BY <1>1, <1>2, <1>3

\* A procedure or WinMsg_Send returns a result.
LEMMA ReturnsTo ==
  ASSUME IInv, NEW t \in Threads, NEW q, Stacked(q), Head(q).at \in Lower,
         Owning(t, q, threadMsg, free), NEW r \in Answers, ReturnTo(t, q, r),
         Top(t).at \notin {"notify", "signal", "raise"},
         UNCHANGED << free, hWaitEvent, windows >>,
         calls' \in [Threads -> Nat], queue' \in [Threads -> Seq(Entries)],
         \A x \in Threads \ {t} : queue'[x] = queue[x]
  PROVE  IInv'
  <1>1. stack' = [stack EXCEPT ![t] = Resumed(q)] /\ threadMsg' = Stored(q, r)
    BY DEF ReturnTo, Becomes
  <1>2. /\ threadMsg' \in [Blocks -> Block]
        /\ \A c \in Blocks :
             /\ threadMsg'[c].sender = threadMsg[c].sender
             /\ threadMsg'[c].uFlag = 2 =>
                  \/ threadMsg[c].uFlag = 2
                  \/ Head(q).at = "serve" /\ c = Head(q).block
    BY <1>1, StoredData DEF IInv
  <1>3. ASSUME NEW j \in 1 .. Len(q), At(q, j).at \in Sending
        PROVE  threadMsg'[At(q, j).block].sender
                 = threadMsg[At(q, j).block].sender
    <2>1. At(q, j) \in Frames
      BY Popped DEF Stacked
    <2>2. At(q, j).block \in Blocks
      BY <1>3, <2>1, FrameShapes
    <2>3. QED BY <1>2, <2>2
  <1>4. Owning(t, q, threadMsg', free')
    BY <1>3, OwnKept
  <1>5. Sound' /\ stack' \in [Threads -> Seq(Frames)] /\ NobodyMissed'
    BY <1>1, <1>2, <1>4, Returns
  <1>6. Data'
    BY <1>2, <1>5 DEF IInv, Data
  <1>7. QED BY <1>5, <1>6 DEF IInv

\* t calls _CallThreadWindowProc from the stack q.
LEMMA Called ==
  ASSUME IInv, NEW t \in Threads, NEW q, NEW u \in Threads \ {t}, NEW m \in Msgs,
         CallThreadWindowProc(t, q, u, m),
         Stacked(q), Head(q).at \in Lower, Owning(t, q, threadMsg, free),
         Top(t).at \notin {"notify", "signal", "raise"},
         queue' \in [Threads -> Seq(Entries)],
         \A x \in Threads \ {t} : queue'[x] = queue[x],
         hWaitEvent' = hWaitEvent, windows' = windows,
         calls' \in [Threads -> Nat]
  PROVE  IInv'
  <1>1. CASE free = {} /\ UNCHANGED free /\ ReturnTo(t, q, << >>)
    <2>1. << >> \in Answers
      BY DEF Answers
    <2>2. QED BY <1>1, <2>1, ReturnsTo
  <1>2. ASSUME NEW b \in free,
               threadMsg' = [threadMsg EXCEPT ![b] =
                 [hwnd |-> u, msg |-> m, lResult |-> << >>, sender |-> t,
                  uFlag |-> 1]],
               free' = free \ {b},
               Becomes(t, << [at |-> "insert", block |-> b, hwnd |-> u,
                              msg |-> m] >> \o q)
        PROVE  IInv'
    <2> DEFINE f == [at |-> "insert", block |-> b, hwnd |-> u, msg |-> m]
               s == << f >> \o q
    <2>1. /\ f \in Frames /\ f.at = "insert" /\ f.at \in Sending
          /\ f.at \notin Base /\ f.block = b
      <3>1. b \in Blocks
        BY DEF IInv, Data
      <3>2. f \in Frames
        BY <3>1, FrameShapes
      <3>3. QED BY <3>2 DEF Base, Sending
    <2>2. stack' = [stack EXCEPT ![t] = s]
      BY <1>2 DEF Becomes
    <2>3. threadMsg' \in [Blocks -> Block]
      <3>1. [hwnd |-> u, msg |-> m, lResult |-> << >>, sender |-> t,
             uFlag |-> 1] \in Block
        BY DEF Block, Answers
      <3>2. QED BY <1>2, <3>1 DEF IInv, Data
    <2>4. /\ \A c \in Blocks \ {b} : threadMsg'[c] = threadMsg[c]
          /\ threadMsg'[b].sender = t /\ threadMsg'[b].uFlag = 1 /\ b \in Blocks
      BY <1>2 DEF IInv, Data
    <2> HIDE DEF f
    <2>5. q \in Seq(Frames)
      BY DEF Stacked
    <2>6. Stacked(s)
      BY <2>1, PushOn
    <2>7. ASSUME NEW j \in 1 .. Len(q), At(q, j).at \in Sending
          PROVE  /\ threadMsg'[At(q, j).block].sender
                      = threadMsg[At(q, j).block].sender
                 /\ At(q, j).block \in free' => At(q, j).block \in free
                 /\ At(q, j).block # b
      <3>1. At(q, j) \in Frames
        BY Popped DEF Stacked
      <3>2. At(q, j).block \in Blocks
        BY <2>7, <3>1, FrameShapes
      <3>3. At(q, j).block \notin free
        BY <2>7 DEF Owning
      <3>4. QED BY <1>2, <2>4, <3>2, <3>3
    <2>8. Owning(t, q, threadMsg', free')
      BY <2>7, OwnKept
    <2>9. Owning(t, s, threadMsg', free')
      BY <1>2, <2>1, <2>4, <2>5, <2>7, <2>8, OwnPush
    <2>10. Head(s) = f
      BY <2>1, <2>5, Pushed
    <2> HIDE DEF s
    <2>11. \A x \in Threads \ {t}, c \in Blocks :
             threadMsg[c].sender = x /\ c \notin free =>
               threadMsg'[c].sender = x /\ c \notin free'
      BY <1>2, <2>4
    <2>12. Sound' /\ stack' \in [Threads -> Seq(Frames)]
      BY <2>2, <2>6, <2>9, <2>11, Sounding
    <2>13. ASSUME NEW x \in Threads \ {t}, Top(x).at = "wait",
                  threadMsg'[Top(x).block].uFlag = 2
           PROVE  threadMsg[Top(x).block].uFlag = 2
      <3>1. Top(x) \in Frames /\ Top(x).at \in Sending
        BY <2>13, InvImplies DEF Sending
      <3>2. Top(x).block \in Blocks
        BY <3>1, FrameShapes
      <3>3. Top(x).block # b
        BY <2>4, <2>13
      <3>4. QED BY <2>4, <2>13, <3>2, <3>3
    <2>14. Rouses(t, s)
      BY <2>1, <2>10, <2>13 DEF Rouses
    <2>15. NobodyMissed'
      BY <2>2, <2>14, Rousing
    <2>16. Data'
      BY <1>2, <2>3, <2>12 DEF IInv, Data
    <2>17. QED BY <2>12, <2>15, <2>16 DEF IInv
  <1>3. QED BY <1>1, <1>2 DEF CallThreadWindowProc

\* A step of t that leaves the blocks alone.
LEMMA Quiet ==
  ASSUME IInv, NEW t \in Threads, NEW s, stack' = [stack EXCEPT ![t] = s],
         Stacked(s), Owning(t, s, threadMsg, free), Rouses(t, s),
         UNCHANGED << threadMsg, free >>,
         calls' \in [Threads -> Nat], queue' \in [Threads -> Seq(Entries)],
         hWaitEvent' \subseteq Threads, windows' \subseteq Threads
  PROVE  IInv'
  <1>1. Sound' /\ stack' \in [Threads -> Seq(Frames)]
    BY Sounding
  <1>2. NobodyMissed'
    BY Rousing
  <1>3. Data'
    BY <1>1 DEF IInv, Data
  <1>4. QED BY <1>1, <1>2, <1>3 DEF IInv

\* The frame on top goes on.
LEMMA GoesOn ==
  ASSUME IInv, NEW t \in Threads, NEW at, Goes(t, at),
         \/ at \in Base /\ Top(t).at \in Base
         \/ at \in Sending /\ Top(t).at \in Sending
  PROVE  \E s :
           /\ stack' = [stack EXCEPT ![t] = s]
           /\ Stacked(s) /\ Owning(t, s, threadMsg, free)
           /\ Head(s).at = at
           /\ at \in Sending => /\ Head(s).block = Top(t).block
                               /\ Head(s).hwnd = Top(t).hwnd
  <1> DEFINE f == [Top(t) EXCEPT !.at = at]
             s == << f >> \o Below(t)
  <1>1. /\ Stacked(stack[t]) /\ stack[t] \in Seq(Frames) /\ stack[t] # << >>
        /\ Top(t) \in Frames /\ Below(t) \in Seq(Frames)
        /\ Owning(t, stack[t], threadMsg, free)
    BY InvImplies
  <1>2. stack' = [stack EXCEPT ![t] = s]
    BY DEF Goes, Becomes
  <1>3. /\ f \in Frames /\ f.at = at
        /\ at \in Sending => /\ Top(t).at \in Sending /\ f.block = Top(t).block
                            /\ f.hwnd = Top(t).hwnd
    <2>1. CASE at \in Base /\ Top(t).at \in Base
      <3>1. f \in Frames /\ f.at = at
        BY <1>1, <2>1, FrameShapes
      <3>2. at \notin Sending
        BY <2>1 DEF Base, Sending
      <3>3. QED BY <3>1, <3>2
    <2>2. CASE at \in Sending /\ Top(t).at \in Sending
      BY <1>1, <2>2, FrameShapes
    <2>3. QED BY <2>1, <2>2
  <1>4. f.at \in Base <=> Top(t).at \in Base
    BY <1>3 DEF Base, Sending
  <1> HIDE DEF f
  <1>5. Stacked(s)
    BY <1>1, <1>3, <1>4, ReplaceTop DEF Top, Below
  <1>6. Owning(t, s, threadMsg, free)
    BY <1>1, <1>3, OwnReplace DEF Top, Below
  <1>7. Head(s) = f
    BY <1>1, <1>3, Pushed
  <1> HIDE DEF s
  <1>8. QED BY <1>2, <1>3, <1>5, <1>6, <1>7

-----------------------------------------------------------------------------
(* The steps.                                                              *)

LEMMA SendStep ==
  ASSUME IInv, NEW t \in Threads, NEW u \in Threads, NEW m \in Msgs,
         WinMsg_Send(t, u, m)
  PROVE  IInv'
  <1>1. /\ Stacked(stack[t]) /\ Owning(t, stack[t], threadMsg, free)
        /\ Head(stack[t]).at \in Lower
        /\ Top(t).at \notin {"notify", "signal", "raise"}
    BY InvImplies DEF WinMsg_Send, MayCall, Top, Lower
  <1>2. calls' \in [Threads -> Nat]
    BY DEF IInv, Data, WinMsg_Send, MayCall, Counts
  <1>3. queue' \in [Threads -> Seq(Entries)] /\ u \in Threads \ {t}
        /\ queue' = queue /\ hWaitEvent' = hWaitEvent /\ windows' = windows
        /\ CallThreadWindowProc(t, stack[t], u, m)
    BY DEF IInv, Data, WinMsg_Send
  <1>4. QED BY <1>1, <1>2, <1>3, Called

\* What is put into a queue is announced, to begin with by the frame on top.
LEMMA Added ==
  ASSUME IInv, NEW u \in Threads, NEW e \in Entries, NEW signals \in BOOLEAN,
         AddMsgToThreadQueue(u, e, signals)
  PROVE  /\ queue' \in [Threads -> Seq(Entries)]
         /\ \A x \in Threads : queue'[x] # queue[x] => x = u /\ signals
  <1>1. queue \in [Threads -> Seq(Entries)]
    BY DEF IInv, Data
  <1>2. CASE signals /\ queue' = [queue EXCEPT ![u] = Append(@, e)]
    <2>1. Append(queue[u], e) \in Seq(Entries)
      BY <1>1, QueueTypes
    <2>2. QED BY <1>1, <1>2, <2>1
  <1>3. CASE queue' = queue
    BY <1>1, <1>3
  <1>4. QED BY <1>2, <1>3 DEF AddMsgToThreadQueue

LEMMA PostStep ==
  ASSUME IInv, NEW t \in Threads, NEW u \in Threads, NEW m \in Msgs,
         WinMsg_Post(t, u, m)
  PROVE  IInv'
  <1> DEFINE f == [at |-> "signal", hwnd |-> u]
             s == << f >> \o stack[t]
  <1>1. /\ Stacked(stack[t]) /\ Owning(t, stack[t], threadMsg, free)
        /\ stack[t] \in Seq(Frames) /\ Head(stack[t]).at \in {"app", "proc"}
        /\ Head(stack[t]).at \in Lower /\ Top(t).at \notin {"notify", "signal", "raise"}
    BY InvImplies DEF WinMsg_Post, MayCall, Top, Lower
  <1>2. PICK signals \in BOOLEAN :
          /\ AddMsgToThreadQueue(u, Posted(m), signals)
          /\ Becomes(t, IF signals THEN << [at |-> "signal", hwnd |-> u] >> \o stack[t]
                                   ELSE stack[t])
    BY DEF WinMsg_Post
  <1>3. UNCHANGED << threadMsg, free, hWaitEvent, windows >>
    BY DEF WinMsg_Post
  <1>4. /\ queue' \in [Threads -> Seq(Entries)]
        /\ \A x \in Threads : queue'[x] # queue[x] => x = u /\ signals
    BY <1>2, Added, QueueTypes
  <1>5. /\ calls' \in [Threads -> Nat] /\ hWaitEvent' \subseteq Threads
        /\ windows' \subseteq Threads
    BY <1>3 DEF IInv, Data, WinMsg_Post, MayCall, Counts
  <1>6. CASE signals
    <2>1. f \in Frames /\ f.at = "signal" /\ f.hwnd = u
          /\ f.at \notin Base /\ f.at \notin Sending
      BY FrameShapes DEF Base, Sending
    <2>2. stack' = [stack EXCEPT ![t] = s]
      BY <1>2, <1>6 DEF Becomes
    <2> HIDE DEF f
    <2>3. Stacked(s)
      BY <1>1, <2>1, PushOn
    <2>4. Owning(t, s, threadMsg, free)
      BY <1>1, <2>1, OwnPush
    <2>5. Head(s) = f
      BY <1>1, <2>1, Pushed
    <2> HIDE DEF s
    <2>6. Rouses(t, s)
      BY <1>1, <1>3, <1>4, <2>1, <2>5 DEF Rouses
    <2>7. QED BY <1>3, <1>4, <1>5, <2>2, <2>3, <2>4, <2>6, Quiet
  <1>7. CASE ~ signals
    <2>1. stack' = [stack EXCEPT ![t] = stack[t]]
      BY <1>2, <1>7 DEF Becomes
    <2>2. Rouses(t, stack[t])
      BY <1>1, <1>3, <1>4, <1>7 DEF Rouses
    <2>3. QED BY <1>1, <1>3, <1>4, <1>5, <2>1, <2>2, Quiet
  <1>8. QED BY <1>6, <1>7

LEMMA InsertStep ==
  ASSUME IInv, NEW t \in Threads, Insert(t)
  PROVE  IInv'
  <1>1. PICK signals \in BOOLEAN :
          /\ AddMsgToThreadQueue(Top(t).hwnd, Sent(Top(t).block), signals)
          /\ Goes(t, IF signals THEN "raise" ELSE "test")
    BY DEF Insert
  <1>2. UNCHANGED << threadMsg, free, hWaitEvent, windows, calls >>
        /\ Top(t).at = "insert"
    BY DEF Insert
  <1>3. Top(t).hwnd \in Threads /\ Sent(Top(t).block) \in Entries
        /\ Top(t).at \in Sending
    BY <1>2, InvImplies, FrameShapes, QueueTypes DEF Sending
  <1>4. /\ queue' \in [Threads -> Seq(Entries)]
        /\ \A x \in Threads : queue'[x] # queue[x] => x = Top(t).hwnd /\ signals
    BY <1>1, <1>3, Added
  <1>5. /\ calls' \in [Threads -> Nat] /\ hWaitEvent' \subseteq Threads
        /\ windows' \subseteq Threads
    BY <1>2 DEF IInv, Data
  <1>6. CASE signals
    <2>1. Goes(t, "raise") /\ "raise" \in Sending
      BY <1>1, <1>6 DEF Sending
    <2>2. PICK s :
             /\ stack' = [stack EXCEPT ![t] = s]
             /\ Stacked(s) /\ Owning(t, s, threadMsg, free)
             /\ Head(s).at = "raise" /\ Head(s).hwnd = Top(t).hwnd
      BY <1>3, <2>1, GoesOn
    <2>3. Rouses(t, s)
      BY <1>2, <1>4, <2>2 DEF Rouses
    <2>4. QED BY <1>2, <1>4, <1>5, <2>2, <2>3, Quiet
  <1>7. CASE ~ signals
    <2>1. Goes(t, "test") /\ "test" \in Sending
      BY <1>1, <1>7 DEF Sending
    <2>2. PICK s :
             /\ stack' = [stack EXCEPT ![t] = s]
             /\ Stacked(s) /\ Owning(t, s, threadMsg, free)
             /\ Head(s).at = "test"
      BY <1>3, <2>1, GoesOn
    <2>3. Rouses(t, s)
      BY <1>2, <1>4, <1>7, <2>2 DEF Rouses
    <2>4. QED BY <1>2, <1>4, <1>5, <2>2, <2>3, Quiet
  <1>8. QED BY <1>6, <1>7

\* A frame that is not the program's ends.
LEMMA Ends ==
  ASSUME IInv, NEW t \in Threads, Becomes(t, Below(t)),
         Top(t).at \in {"signal", "notify"},
         UNCHANGED << threadMsg, free, queue, windows, calls >>,
         hWaitEvent \subseteq hWaitEvent', hWaitEvent' \subseteq Threads,
         Top(t).at = "notify" =>
           {threadMsg[Top(t).block].sender} \cap Threads \subseteq hWaitEvent',
         Top(t).at = "signal" => Top(t).hwnd \in hWaitEvent'
  PROVE  IInv'
  <1> DEFINE s == Below(t)
  <1>1. /\ Stacked(stack[t]) /\ stack[t] \in Seq(Frames) /\ stack[t] # << >>
        /\ Owning(t, stack[t], threadMsg, free)
    BY InvImplies
  <1>2. Stacked(s) /\ Head(s).at \in Lower
    BY <1>1, PopOff DEF Top, Below, Base
  <1>3. Owning(t, s, threadMsg, free)
    BY <1>1, OwnPop DEF Below
  <1> HIDE DEF s
  <1>4. stack' = [stack EXCEPT ![t] = s]
    BY DEF Becomes, s
  <1>5. Rouses(t, s)
    BY <1>2 DEF Rouses, Lower
  <1>6. /\ calls' \in [Threads -> Nat] /\ queue' \in [Threads -> Seq(Entries)]
        /\ windows' \subseteq Threads
    BY DEF IInv, Data
  <1>7. QED BY <1>2, <1>3, <1>4, <1>5, <1>6, Quiet

\* The frame on top goes on to another place.
LEMMA Continues ==
  ASSUME IInv, NEW t \in Threads, NEW at, Goes(t, at),
         \/ at \in Base /\ Top(t).at \in Base
         \/ at \in Sending /\ Top(t).at \in Sending,
         at = "wait" => ~ Handled(Top(t)),
         at = "idle" => queue[t] = << >>,
         Top(t).at \in {"signal", "raise"} => Top(t).hwnd \in hWaitEvent',
         hWaitEvent \ {t} \subseteq hWaitEvent', hWaitEvent' \subseteq Threads,
         UNCHANGED << threadMsg, free, queue, windows, calls >>
  PROVE  IInv'
  <1>1. PICK s :
           /\ stack' = [stack EXCEPT ![t] = s]
           /\ Stacked(s) /\ Owning(t, s, threadMsg, free)
           /\ Head(s).at = at
           /\ at \in Sending => Head(s).block = Top(t).block
    BY GoesOn
  <1>2. Top(t).at # "notify"
    BY DEF Base, Sending
  <1>3. at = "wait" => threadMsg'[Head(s).block].uFlag # 2
    BY <1>1 DEF Handled, Sending
  <1>4. Rouses(t, s)
    BY <1>1, <1>2, <1>3 DEF Rouses
  <1>5. /\ calls' \in [Threads -> Nat] /\ queue' \in [Threads -> Seq(Entries)]
        /\ windows' \subseteq Threads
    BY DEF IInv, Data
  <1>6. QED BY <1>1, <1>4, <1>5, Quiet

LEMMA SignalStep ==
  ASSUME IInv, NEW t \in Threads, Signal(t)
  PROVE  IInv'
  <1>1. /\ hWaitEvent' = hWaitEvent \cup {Top(t).hwnd}
        /\ UNCHANGED << threadMsg, free, queue, windows, calls >>
    BY DEF Signal
  <1>2. Top(t).hwnd \in Threads
    BY InvImplies, FrameShapes DEF Signal, Sending
  <1>3. hWaitEvent \subseteq hWaitEvent' /\ hWaitEvent' \subseteq Threads
        /\ Top(t).hwnd \in hWaitEvent'
    BY <1>1, <1>2 DEF IInv, Data
  <1>4. CASE Top(t).at = "raise"
    <2>1. Goes(t, "test")
      BY <1>4 DEF Signal
    <2>2. "test" \in Sending /\ Top(t).at \in Sending
      BY <1>4 DEF Sending
    <2>3. QED BY <1>1, <1>3, <2>1, <2>2, Continues
  <1>5. CASE Top(t).at = "signal"
    <2>1. Becomes(t, Below(t))
      BY <1>5 DEF Signal
    <2>2. QED BY <1>1, <1>3, <1>5, <2>1, Ends
  <1>6. QED BY <1>4, <1>5 DEF Signal

LEMMA NotifyStep ==
  ASSUME IInv, NEW t \in Threads, Notify(t)
  PROVE  IInv'
  <1>1. /\ hWaitEvent' = hWaitEvent \cup ({threadMsg[Top(t).block].sender} \cap Threads)
        /\ UNCHANGED << threadMsg, free, queue, windows, calls >>
        /\ Becomes(t, Below(t)) /\ Top(t).at = "notify"
    BY DEF Notify
  <1>2. hWaitEvent \subseteq hWaitEvent' /\ hWaitEvent' \subseteq Threads
    BY <1>1 DEF IInv, Data
  <1>3. QED BY <1>1, <1>2, Ends

\* GetMessage, PeekMessage, looks that find nothing to handle, WinMsg_Wait.
LEMMA LoopStep ==
  ASSUME IInv, NEW t \in Threads,
         \/ GetMessage(t) \/ PeekMessage(t) \/ PeekNothing(t) \/ LookPosted(t)
         \/ WinMsg_Wait(t)
  PROVE  IInv'
  <1>1. hWaitEvent \subseteq Threads
    BY DEF IInv, Data
  <1>2. CASE GetMessage(t) \/ PeekMessage(t) \/ LookPosted(t)
    <2>1. /\ UNCHANGED << threadMsg, free, queue, hWaitEvent, windows, calls >>
          /\ Top(t).at \in {"app", "look"} /\ Top(t).at \in Base
      BY <1>2 DEF GetMessage, PeekMessage, LookPosted, Base
    <2>2. CASE Goes(t, "get")
      <3>1. "get" \in Base
        BY DEF Base
      <3>2. QED BY <1>1, <2>1, <2>2, <3>1, Continues
    <2>3. CASE Goes(t, "look")
      <3>1. "look" \in Base
        BY DEF Base
      <3>2. QED BY <1>1, <2>1, <2>3, <3>1, Continues
    <2>4. QED BY <1>2, <2>2, <2>3 DEF GetMessage, PeekMessage, LookPosted
  <1>3. CASE PeekNothing(t)
    <2>1. /\ UNCHANGED << threadMsg, free, queue, hWaitEvent, windows, calls >>
          /\ queue[t] = << >> /\ Goes(t, Missing[Top(t).at])
          /\ Top(t).at \in {"get", "look", "pump"}
      BY <1>3 DEF PeekNothing, Peeks
    <2>2. CASE Top(t).at \in {"get", "look"}
      <3>1. Missing[Top(t).at] \in {"idle", "get"}
        BY <2>2 DEF Missing
      <3>2. Missing[Top(t).at] \in Base /\ Top(t).at \in Base
            /\ Missing[Top(t).at] # "wait"
            /\ Top(t).at \notin {"signal", "raise"}
        BY <2>2, <3>1 DEF Base
      <3>3. QED BY <1>1, <2>1, <3>2, Continues
    <2>3. CASE Top(t).at = "pump"
      <3>1. Missing[Top(t).at] = "test"
        BY <2>3 DEF Missing
      <3>2. Goes(t, "test") /\ "test" \in Sending /\ Top(t).at \in Sending
        BY <2>1, <2>3, <3>1 DEF Sending
      <3>3. QED BY <1>1, <2>1, <3>2, Continues
    <2>4. QED BY <2>1, <2>2, <2>3
  <1>4. CASE WinMsg_Wait(t)
    <2>1. /\ Goes(t, "get") /\ "get" \in Base /\ Top(t).at \in Base
          /\ UNCHANGED << threadMsg, free, queue, windows, calls >>
          /\ hWaitEvent' = hWaitEvent \ {t} /\ Top(t).at = "idle"
      BY <1>4 DEF WinMsg_Wait, Base
    <2>2. QED BY <1>1, <2>1, Continues
  <1>5. QED BY <1>2, <1>3, <1>4

LEMMA WaitingStep ==
  ASSUME IInv, NEW t \in Threads, Test(t) \/ Wake(t) \/ TimesOut(t)
  PROVE  IInv'
  <1>1. /\ Top(t).at \in {"test", "wait"} /\ Top(t).at \in Sending
        /\ UNCHANGED << queue, windows, calls >>
        /\ hWaitEvent \ {t} \subseteq hWaitEvent' /\ hWaitEvent' \subseteq Threads
    BY DEF Test, Wake, TimesOut, Sending, IInv, Data
  <1>2. threadMsg[Top(t).block].lResult \in Answers /\ << >> \in Answers
    <2>1. Top(t).block \in Blocks
      BY <1>1, InvImplies, FrameShapes
    <2>2. QED BY <2>1 DEF IInv, Data, Block, Answers
  <1>3. CASE Succeeds(t) \/ Fails(t)
    BY <1>1, <1>2, <1>3, Releases DEF Succeeds, Fails
  <1>4. CASE UNCHANGED << threadMsg, free >>
             /\ \/ Goes(t, "wait") /\ ~ Handled(Top(t))
                \/ Goes(t, "test") \/ Goes(t, "pump")
    <2>1. {"wait", "test", "pump"} \subseteq Sending
      BY DEF Sending
    <2>2. QED BY <1>1, <1>4, <2>1, Continues
  <1>5. QED BY <1>3, <1>4 DEF Test, Wake, TimesOut

LEMMA ReturnStep ==
  ASSUME IInv, NEW t \in Threads, Return(t)
  PROVE  IInv'
  <1>1. /\ Stacked(stack[t]) /\ stack[t] \in Seq(Frames) /\ stack[t] # << >>
        /\ Top(t) \in Frames /\ Owning(t, stack[t], threadMsg, free)
    BY InvImplies
  <1>2. /\ Top(t).at = "proc" /\ ReturnTo(t, Below(t), Answer(t, Top(t).msg))
        /\ UNCHANGED << free, queue, hWaitEvent, windows, calls >>
    BY DEF Return
  <1>3. Stacked(Below(t)) /\ Head(Below(t)).at \in Lower
    BY <1>1, <1>2, PopOff DEF Top, Below, Base
  <1>4. Owning(t, Below(t), threadMsg, free)
    BY <1>1, OwnPop DEF Below
  <1>5. Answer(t, Top(t).msg) \in Answers
    BY <1>1, <1>2, FrameShapes DEF Answer, Answers
  <1>6. calls' \in [Threads -> Nat] /\ queue' \in [Threads -> Seq(Entries)]
    BY <1>2 DEF IInv, Data
  <1>7. QED BY <1>2, <1>3, <1>4, <1>5, <1>6, ReturnsTo

\* Nothing happens to the stack of t.
LEMMA StandStill ==
  ASSUME IInv, NEW t \in Threads,
         Top(t).at \in {"app", "proc", "get", "look", "pump"},
         UNCHANGED << threadMsg, free, hWaitEvent, stack, calls >>,
         queue' \in [Threads -> Seq(Entries)], windows' \subseteq Threads,
         \A x \in Threads \ {t} : queue'[x] = queue[x]
  PROVE  IInv'
  <1>1. Stacked(stack[t]) /\ Owning(t, stack[t], threadMsg, free)
    BY InvImplies
  <1>2. stack' = [stack EXCEPT ![t] = stack[t]]
    BY DEF IInv, Data
  <1>3. Rouses(t, stack[t])
    BY DEF Rouses, Top
  <1>4. calls' \in [Threads -> Nat] /\ hWaitEvent' \subseteq Threads
    BY DEF IInv, Data
  <1>5. QED BY <1>1, <1>2, <1>3, <1>4, Quiet

LEMMA DestroyStep ==
  ASSUME IInv, NEW t \in Threads, DestroyWindow(t)
  PROVE  IInv'
  <1>1. queue' \in [Threads -> Seq(Entries)] /\ windows' \subseteq Threads
    BY DEF DestroyWindow, IInv, Data
  <1>2. QED BY <1>1, StandStill DEF DestroyWindow

LEMMA DequeuedType ==
  ASSUME IInv, NEW t \in Threads, queue[t] # << >>
  PROVE  /\ Dequeued(t) \in [Threads -> Seq(Entries)] /\ First(t) \in Entries
         /\ \A x \in Threads \ {t} : Dequeued(t)[x] = queue[x]
  BY QueueTypes DEF IInv, Data, Dequeued, First

LEMMA PeekDeadStep ==
  ASSUME IInv, NEW t \in Threads, PeekDead(t)
  PROVE  IInv'
  <1>1. windows' \subseteq Threads
    BY DEF PeekDead, IInv, Data
  <1>2. QED BY <1>1, DequeuedType, StandStill DEF PeekDead, Peeks

\* The second look after one with PM_NOREMOVE.
LEMMA KeepNoMoreStep ==
  ASSUME IInv, NEW t \in Threads, KeepNoMore(t)
  PROVE  IInv'
  <1>1. /\ Top(t).at = "keep" /\ Goes(t, "look")
        /\ UNCHANGED << threadMsg, free, hWaitEvent, windows, calls >>
    BY DEF KeepNoMore
  <1>2. /\ queue' \in [Threads -> Seq(Entries)]
        /\ \A x \in Threads \ {t} : queue'[x] = queue[x]
    <2>1. << >> \in Seq(Entries) /\ queue \in [Threads -> Seq(Entries)]
      BY DEF IInv, Data
    <2>2. queue[t] # << >> => Tail(queue[t]) \in Seq(Entries)
      BY <2>1, QueueTypes
    <2>3. QED BY <2>1, <2>2 DEF KeepNoMore
  <1>3. "look" \in Base /\ Top(t).at \in Base /\ "look" \notin Sending
    BY <1>1 DEF Base, Sending
  <1>4. PICK s :
           /\ stack' = [stack EXCEPT ![t] = s]
           /\ Stacked(s) /\ Owning(t, s, threadMsg, free)
           /\ Head(s).at = "look"
    BY <1>1, <1>3, GoesOn
  <1>5. Rouses(t, s)
    BY <1>1, <1>2, <1>4 DEF Rouses
  <1>6. /\ calls' \in [Threads -> Nat] /\ hWaitEvent' \subseteq Threads
        /\ windows' \subseteq Threads
    BY <1>1 DEF IInv, Data
  <1>7. QED BY <1>1, <1>2, <1>4, <1>5, <1>6, Quiet

LEMMA PeekPostedStep ==
  ASSUME IInv, NEW t \in Threads, PeekPosted(t)
  PROVE  IInv'
  <1> DEFINE f == [at |-> "proc", msg |-> First(t).msg]
             g == [Top(t) EXCEPT !.at = IF @ = "get" THEN "app" ELSE @]
             q == << g >> \o Below(t)
             s == << f >> \o q
  <1>1. /\ Stacked(stack[t]) /\ stack[t] \in Seq(Frames) /\ stack[t] # << >>
        /\ Top(t) \in Frames /\ Below(t) \in Seq(Frames)
        /\ Owning(t, stack[t], threadMsg, free)
    BY InvImplies
  <1>2. /\ queue[t] # << >> /\ First(t).posted
        /\ queue' = Dequeued(t) /\ Top(t).at \in {"get", "pump"}
        /\ UNCHANGED << threadMsg, free, hWaitEvent, windows, calls >>
        /\ Becomes(t, s)
    BY DEF PeekPosted, Finds, Peeks
  <1>3. f \in Frames /\ f.at \notin Base /\ f.at \notin Sending /\ f.at = "proc"
    <2>1. First(t).msg \in Msgs
      BY <1>2, DequeuedType, QueueTypes
    <2>2. QED BY <2>1, FrameShapes DEF Base, Sending
  <1>4. /\ g \in Frames /\ g.at \in {"app", "pump"}
        /\ g.at \in Base <=> Top(t).at \in Base
        /\ g.at \in Sending => Top(t).at \in Sending /\ g.block = Top(t).block
    <2>1. CASE Top(t).at = "get"
      <3>1. g = [Top(t) EXCEPT !.at = "app"]
        BY <2>1
      <3>2. g \in Frames /\ g.at = "app"
        <4>1. "app" \in Base /\ Top(t).at \in Base
          BY <2>1 DEF Base
        <4>2. QED BY <1>1, <3>1, <4>1, BaseTurns
      <3>3. QED BY <2>1, <3>2 DEF Base, Sending
    <2>2. CASE Top(t).at = "pump"
      <3>1. g = [Top(t) EXCEPT !.at = "pump"]
        BY <2>2
      <3>2. g.at = "pump" /\ g.block = Top(t).block
        BY <1>1, <2>2, <3>1, FrameShapes DEF Sending
      <3>3. g \in Frames
        BY <1>1, <2>2, <3>1, FrameShapes DEF Sending
      <3>4. QED BY <2>2, <3>2, <3>3 DEF Base, Sending
    <2>3. QED BY <1>2, <2>1, <2>2
  <1> HIDE DEF f, g
  <1>5. q \in Seq(Frames) /\ q # << >> /\ Head(q) = g
    BY <1>1, <1>4, Pushed
  <1>6. Stacked(q)
    BY <1>1, <1>4, ReplaceTop DEF Top, Below
  <1>7. Owning(t, q, threadMsg, free)
    BY <1>1, <1>4, OwnReplace DEF Top, Below
  <1>8. stack' = [stack EXCEPT ![t] = s]
    BY <1>2 DEF Becomes
  <1> HIDE DEF q
  <1>9. Stacked(s)
    BY <1>3, <1>4, <1>5, <1>6, PushOn DEF Lower
  <1>10. Owning(t, s, threadMsg, free)
    BY <1>3, <1>5, <1>7, OwnPush
  <1>11. Head(s) = f
    BY <1>3, <1>5, Pushed
  <1> HIDE DEF s
  <1>12. /\ queue' \in [Threads -> Seq(Entries)]
         /\ \A x \in Threads \ {t} : queue'[x] = queue[x]
    BY <1>2, DequeuedType
  <1>13. Rouses(t, s)
    BY <1>2, <1>3, <1>11, <1>12 DEF Rouses
  <1>14. /\ calls' \in [Threads -> Nat] /\ hWaitEvent' \subseteq Threads
         /\ windows' \subseteq Threads
    BY <1>2 DEF IInv, Data
  <1>15. QED BY <1>2, <1>8, <1>9, <1>10, <1>12, <1>13, <1>14, Quiet

\* A look that works on what is sent, with the frames then below.
LEMMA Caller ==
  ASSUME IInv, NEW t \in Threads, Top(t).at \in {"get", "look", "pump"}
  PROVE  LET g == [Top(t) EXCEPT !.at = IF @ = "look" THEN "keep" ELSE @]
             c == << g >> \o Below(t)
         IN  /\ g \in Frames /\ g.at \in {"get", "keep", "pump"}
             /\ c \in Seq(Frames) /\ c # << >> /\ Head(c) = g
             /\ Stacked(c) /\ Owning(t, c, threadMsg, free)
  <1> DEFINE g == [Top(t) EXCEPT !.at = IF @ = "look" THEN "keep" ELSE @]
             c == << g >> \o Below(t)
  <1>1. /\ Stacked(stack[t]) /\ stack[t] \in Seq(Frames) /\ stack[t] # << >>
        /\ Top(t) \in Frames /\ Below(t) \in Seq(Frames)
        /\ Owning(t, stack[t], threadMsg, free)
    BY InvImplies
  <1>2. /\ g \in Frames /\ g.at \in {"get", "keep", "pump"}
        /\ g.at \in Base <=> Top(t).at \in Base
        /\ g.at \in Sending => Top(t).at \in Sending /\ g.block = Top(t).block
    <2>1. CASE Top(t).at \in {"get", "look"}
      <3> DEFINE at == IF Top(t).at = "look" THEN "keep" ELSE Top(t).at
      <3>1. at \in {"get", "keep"} /\ at \in Base /\ at \notin Sending
            /\ Top(t).at \in Base
        BY <2>1 DEF Base, Sending
      <3>2. g = [Top(t) EXCEPT !.at = at]
        OBVIOUS
      <3> HIDE DEF at, g
      <3>3. g \in Frames /\ g.at = at
        BY <1>1, <3>1, <3>2, BaseTurns
      <3>4. QED BY <3>1, <3>3
    <2>2. CASE Top(t).at = "pump"
      <3>1. g = [Top(t) EXCEPT !.at = "pump"] /\ Top(t).at \in Sending
            /\ "pump" \in Sending /\ "pump" \notin Base
        BY <2>2 DEF Sending, Base
      <3> HIDE DEF g
      <3>2. g \in Frames /\ g.at = "pump" /\ g.block = Top(t).block
        BY <1>1, <3>1, SendingTurns
      <3>3. QED BY <2>2, <3>1, <3>2
    <2>3. QED BY <2>1, <2>2
  <1> HIDE DEF g
  <1>3. c \in Seq(Frames) /\ c # << >> /\ Head(c) = g
    BY <1>1, <1>2, Pushed
  <1>4. Stacked(c)
    BY <1>1, <1>2, ReplaceTop DEF Top, Below
  <1>5. Owning(t, c, threadMsg, free)
    BY <1>1, <1>2, OwnReplace DEF Top, Below
  <1> HIDE DEF c
  <1>6. QED BY <1>2, <1>3, <1>4, <1>5 DEF c, g

LEMMA PeekSentStep ==
  ASSUME IInv, NEW t \in Threads, PeekSent(t)
  PROVE  IInv'
  <1> DEFINE b == First(t).block
             u == threadMsg[b].hwnd
             c == << [Top(t) EXCEPT !.at = IF @ = "look" THEN "keep" ELSE @] >>
                    \o Below(t)
             g == [at |-> "serve", block |-> b]
             q == << g >> \o c
             f == [at |-> "proc", msg |-> threadMsg[b].msg]
             s == << f >> \o q
  <1>1. /\ queue[t] # << >> /\ ~ First(t).posted
        /\ Top(t).at \in {"get", "look", "pump"}
        /\ UNCHANGED << hWaitEvent, windows, calls >>
        /\ queue' = IF Top(t).at = "look" THEN queue ELSE Dequeued(t)
        /\ \/ /\ u = t
              /\ Becomes(t, << f >> \o q)
              /\ UNCHANGED << threadMsg, free >>
           \/ /\ ReturnTo(t, q, << >>)
              /\ UNCHANGED free
           \/ /\ u \in windows \ {t}
              /\ CallThreadWindowProc(t, q, u, threadMsg[b].msg)
    BY DEF PeekSent, Finds, Peeks
  <1>2. /\ c \in Seq(Frames) /\ c # << >> /\ Head(c).at \in {"get", "keep", "pump"}
        /\ Stacked(c) /\ Owning(t, c, threadMsg, free)
    BY <1>1, Caller
  <1>3. /\ b \in Blocks
        /\ queue' \in [Threads -> Seq(Entries)]
        /\ \A x \in Threads \ {t} : queue'[x] = queue[x]
    <2>1. queue \in [Threads -> Seq(Entries)]
      BY DEF IInv, Data
    <2>2. QED BY <1>1, <2>1, DequeuedType, QueueTypes
  <1>4. threadMsg[b].msg \in Msgs /\ << >> \in Answers
    BY <1>3 DEF IInv, Data, Block, Answers
  <1>5. /\ g \in Frames /\ g.at = "serve" /\ g.at \notin Base /\ g.at \notin Sending
        /\ f \in Frames /\ f.at = "proc" /\ f.at \notin Base /\ f.at \notin Sending
    BY <1>3, <1>4, FrameShapes DEF Base, Sending
  <1> HIDE DEF f, g, b, c
  <1>6. q \in Seq(Frames) /\ q # << >> /\ Head(q) = g
    BY <1>2, <1>5, Pushed
  <1>7. Stacked(q)
    BY <1>2, <1>5, PushOn DEF Lower
  <1>8. Owning(t, q, threadMsg, free)
    BY <1>2, <1>5, OwnPush
  <1>9. Head(q).at \in Lower
    BY <1>5, <1>6 DEF Lower
  <1> HIDE DEF q
  <1>10. /\ calls' \in [Threads -> Nat] /\ hWaitEvent' \subseteq Threads
         /\ windows' \subseteq Threads /\ windows \subseteq Threads
         /\ Top(t).at \notin {"notify", "signal", "raise"}
    BY <1>1 DEF IInv, Data
  <1>11. CASE Becomes(t, << f >> \o q) /\ UNCHANGED << threadMsg, free >>
    <2>1. stack' = [stack EXCEPT ![t] = s]
      BY <1>11 DEF Becomes
    <2>2. Stacked(s)
      BY <1>5, <1>7, <1>9, PushOn
    <2>3. Owning(t, s, threadMsg, free)
      BY <1>5, <1>6, <1>8, OwnPush
    <2>4. Head(s) = f
      BY <1>5, <1>6, Pushed
    <2> HIDE DEF s
    <2>5. Rouses(t, s)
      BY <1>1, <1>3, <1>5, <1>11, <2>4 DEF Rouses
    <2>6. QED BY <1>3, <1>10, <1>11, <2>1, <2>2, <2>3, <2>5, Quiet
  <1>12. CASE ReturnTo(t, q, << >>) /\ UNCHANGED free
    BY <1>1, <1>3, <1>4, <1>7, <1>8, <1>9, <1>10, <1>12, ReturnsTo
  <1>13. CASE /\ u \in windows \ {t}
              /\ CallThreadWindowProc(t, q, u, threadMsg[b].msg)
    <2>1. u \in Threads \ {t}
      BY <1>10, <1>13
    <2>2. QED BY <1>1, <1>3, <1>4, <1>7, <1>8, <1>9, <1>10, <1>13, <2>1, Called
  <1>14. QED BY <1>1, <1>11, <1>12, <1>13

LEMMA InitHolds ==
  ASSUME Init
  PROVE  IInv
  <1>1. Data
    <2>1. /\ (CHOOSE m \in Msgs : TRUE) \in Msgs
          /\ << >> \in Answers /\ 0 \in 0 .. 2
      BY SendMessageAssumption DEF Answers
    <2>2. threadMsg \in [Blocks -> Block]
      BY <2>1 DEF Init, Block
    <2>3. queue \in [Threads -> Seq(Entries)]
      BY DEF Init
    <2>4. << [at |-> "app"] >> \in Seq(Frames)
      BY FrameShapes
    <2>5. QED BY <2>2, <2>3, <2>4, SendMessageAssumption DEF Init, Data
  <1>2. ASSUME NEW t \in Threads
        PROVE  /\ Stacked(stack[t]) /\ Owning(t, stack[t], threadMsg, free)
               /\ Top(t).at = "app"
    <2> DEFINE f == [at |-> "app"]
               s == << f >>
    <2>1. stack[t] = s /\ f \in Frames /\ f.at = "app"
      BY FrameShapes DEF Init
    <2> HIDE DEF f
    <2>2. s \in Seq(Frames) /\ s # << >> /\ Len(s) = 1 /\ s[1] = f /\ Head(s) = f
      BY <2>1
    <2>3. \A j \in 1 .. Len(s) : j = 1 /\ At(s, j) = f
      BY <2>2 DEF At
    <2> HIDE DEF s
    <2>4. Stacked(s) /\ Owning(t, s, threadMsg, free)
      BY <2>1, <2>2, <2>3 DEF Stacked, Owning, Base, Sending
    <2>5. QED BY <2>1, <2>2, <2>4 DEF Top
  <1>3. QED BY <1>1, <1>2 DEF IInv, Sound, NobodyMissed

LEMMA NextHolds == IInv /\ [Next]_vars => IInv'
  <1> SUFFICES ASSUME IInv, [Next]_vars PROVE IInv'
    OBVIOUS
  <1>1. ASSUME NEW t \in Threads, Step(t) PROVE IInv'
    BY <1>1, InsertStep, SignalStep, LoopStep, ReturnStep, PeekDeadStep,
       PeekPostedStep, PeekSentStep, KeepNoMoreStep, NotifyStep, WaitingStep
       DEF Step, Peek
  <1>2. ASSUME NEW t \in Threads, DestroyWindow(t) \/ TimesOut(t) PROVE IInv'
    BY <1>2, DestroyStep, WaitingStep
  <1>3. ASSUME NEW t \in Threads, NEW u \in Threads, NEW m \in Msgs,
               WinMsg_Send(t, u, m) \/ WinMsg_Post(t, u, m)
        PROVE  IInv'
    BY <1>3, SendStep, PostStep
  <1>4. CASE UNCHANGED vars
    <2>1. Data'
      BY <1>4 DEF vars, IInv, Data
    <2>2. Sound' /\ NobodyMissed'
      BY <1>4 DEF vars, IInv, Sound, NobodyMissed, Handled, Top
    <2>3. QED BY <2>1, <2>2 DEF IInv
  <1>5. QED BY <1>1, <1>2, <1>3, <1>4 DEF Next

-----------------------------------------------------------------------------
(* The theorems.                                                           *)

THEOREM Invariance == Spec => []IInv
  <1>1. Init => IInv
    BY InitHolds
  <1>2. QED BY <1>1, NextHolds, PTL DEF Spec

\* Every variable has its type; no thread runs out of frames.
THEOREM TypeCorrect == Spec => []TypeOK
  <1>1. IInv => TypeOK
    BY InvImplies
  <1>2. QED BY <1>1, Invariance, PTL

\* Nobody sleeps over its answer or over a message, although one auto-reset
\* event stands for both in waits within waits, with timeouts and windows that
\* go away as well as without.
THEOREM NobodyIsMissed == Spec => []NobodyMissed
  <1>1. IInv => NobodyMissed
    BY DEF IInv
  <1>2. QED BY <1>1, Invariance, PTL
=============================================================================
