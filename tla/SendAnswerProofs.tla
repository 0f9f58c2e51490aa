-------------------------- MODULE SendAnswerProofs --------------------------
(***************************************************************************)
(* Proofs about SendMessage where every sender waits for its answer (no    *)
(* timeouts and no windows that go away), and who looks with PM_NOREMOVE   *)
(* does not send.  What is sent is handled once, and the answer in the     *)
(* block is the answer to the message.  Otherwise both are false: with a   *)
(* sender that gives up early (SendStale.cfg) its block is released with   *)
(* the message still under way; with a procedure that sends while its      *)
(* message is in the queue (SendKept.cfg) the message is handled again.    *)
(***************************************************************************)
EXTENDS SendMessageProofs, FiniteSetTheorems

-----------------------------------------------------------------------------
(* The inductive invariant.                                                *)

Serving(b) == [at |-> "serve", block |-> b]

\* The blocks that are in a queue, and those that a stack serves.
Held(q) == {b \in Blocks : \E i \in 1 .. Len(q) : q[i] = Sent(b)}
Served(s) == {b \in Blocks : \E j \in 1 .. Len(s) : At(s, j) = Serving(b)}

HeldOnce(q) ==
  \A b \in Blocks : \A i, j \in 1 .. Len(q) :
    q[i] = Sent(b) /\ q[j] = Sent(b) => i = j

ServedOnce(s) ==
  \A b \in Blocks : \A i, j \in 1 .. Len(s) :
    At(s, i) = Serving(b) /\ At(s, j) = Serving(b) => i = j

\* What one entry and one frame add to them.
Holding(e) == {b \in Blocks : e = Sent(b)}
ServedBy(f) == {b \in Blocks : f = Serving(b)}

\* A frame f may be the caller of g: a block is served by a procedure that is
\* called for its message, and programs and procedures send.
Calling(f, g, tm) ==
  /\ f.at = "serve" => g = [at |-> "proc", msg |-> tm[f.block].msg]
  /\ g.at \in Sending => f.at \in {"app", "proc"}

Linked(s, tm) ==
  \A i, j \in 1 .. Len(s) : j = i + 1 => Calling(At(s, i), At(s, j), tm)

\* A sender's block has the window and the message it has sent.
Carries(f, tm) ==
  f.at \in Sending => tm[f.block].hwnd = f.hwnd /\ tm[f.block].msg = f.msg

Carried(s, tm) == \A j \in 1 .. Len(s) : Carries(At(s, j), tm)

\* Nobody waits for an answer above a look with PM_NOREMOVE.
Looks == {"look", "keep"}

Calm(s) ==
  At(s, 1).at \in Looks => \A j \in 1 .. Len(s) : At(s, j).at \notin Sending

\* What is true of every stack but while a procedure is being called.
Fits(s, tm) == ServedOnce(s) /\ Linked(s, tm) /\ Carried(s, tm) /\ Calm(s)

\* A block that is allocated is of a window, and has the answer of its window
\* procedure once uFlag is 2.
Answered ==
  \A b \in Blocks \ free :
    /\ threadMsg[b].hwnd \in Threads
    /\ threadMsg[b].uFlag = 2 =>
         threadMsg[b].lResult = Answer(threadMsg[b].hwnd, threadMsg[b].msg)

\* Until then, and no longer, the thread of the window has it, in its queue or
\* on its stack: it gets it from the sender unless there is no memory for it.
Awaited(t, b) ==
  b \notin free /\ threadMsg[b].uFlag # 2 /\ threadMsg[b].hwnd = t

Unsent == {Top(x).block : x \in {y \in Threads : Top(y).at = "insert"}}
Due(t) == {b \in Blocks : Awaited(t, b)} \ Unsent

\* What is in the queue q, but for what the stack s works on.
Left(q, s) == IF At(s, 1).at = "keep" THEN Tail(q) ELSE q

Keeping(t, q, s, due) ==
  /\ HeldOnce(q)
  /\ Held(q) \cap Served(s) = {}
  /\ Held(q) \cup Served(s) \subseteq due
  /\ t \notin Scarce => due \subseteq Held(q) \cup Served(s)

UnderWay ==
  \A t \in Threads : Keeping(t, Left(queue[t], stack[t]), stack[t], Due(t))

Fitting ==
  \A t \in Threads : Fits(stack[t], threadMsg) /\ Top(t).at # "serve"

\* Who looks with PM_NOREMOVE does not send, and has in its queue what it works
\* on.
Looking ==
  \A t \in Threads :
    /\ t \in Peekers => calls[t] = 0
    /\ At(stack[t], 1).at \in Looks => t \in Peekers
    /\ At(stack[t], 1).at = "keep" => queue[t] # << >>

Pending == \A b \in Unsent : threadMsg[b].uFlag # 2

AInv ==
  /\ IInv /\ windows = Threads
  /\ Answered /\ UnderWay /\ Fitting /\ Looking /\ Pending

-----------------------------------------------------------------------------
(* Queues and stacks.                                                      *)

LEMMA Shapes ==
  /\ \A b, c \in Blocks : Sent(b) = Sent(c) => b = c
  /\ \A b \in Blocks, m \in Msgs : Sent(b) # Posted(m)
  /\ \A b, c \in Blocks : Serving(b) = Serving(c) => b = c
  /\ \A b \in Blocks : Holding(Sent(b)) = {b}
  /\ \A m \in Msgs : Holding(Posted(m)) = {}
  /\ \A b \in Blocks : ServedBy(Serving(b)) = {b}
  /\ \A f \in Frames : f.at # "serve" => ServedBy(f) = {}
  /\ \A f \in Frames : f.at = "serve" => f.block \in Blocks /\ f = Serving(f.block)
  /\ \A e \in Entries : /\ e.posted => e.msg \in Msgs /\ e = Posted(e.msg)
                        /\ ~ e.posted => e.block \in Blocks /\ e = Sent(e.block)
  <1>1. /\ \A b, c \in Blocks : Sent(b) = Sent(c) => b = c
        /\ \A b \in Blocks, m \in Msgs : Sent(b) # Posted(m)
    <2>1. /\ \A b \in Blocks : Sent(b).posted = FALSE /\ Sent(b).block = b
          /\ \A m \in Msgs : Posted(m).posted = TRUE
      BY QueueTypes
    <2>2. QED BY <2>1
  <1>2. /\ \A b, c \in Blocks : Serving(b) = Serving(c) => b = c
        /\ \A b \in Blocks : Serving(b).at = "serve"
    <2>1. \A b \in Blocks : Serving(b).at = "serve" /\ Serving(b).block = b
      BY DEF Serving
    <2>2. QED BY <2>1
  <1>3. \A f \in Frames : f.at = "serve" => f.block \in Blocks /\ f = Serving(f.block)
    BY DEF Frames, Sending, Serving
  <1>4. \A e \in Entries : /\ e.posted => e.msg \in Msgs /\ e = Posted(e.msg)
                           /\ ~ e.posted => e.block \in Blocks /\ e = Sent(e.block)
    BY DEF Entries, Sent, Posted
  <1>5. /\ \A b \in Blocks : Holding(Sent(b)) = {b}
        /\ \A m \in Msgs : Holding(Posted(m)) = {}
    BY <1>1 DEF Holding
  <1>6. /\ \A b \in Blocks : ServedBy(Serving(b)) = {b}
        /\ \A f \in Frames : f.at # "serve" => ServedBy(f) = {}
    BY <1>2 DEF ServedBy
  <1>7. QED BY <1>1, <1>2, <1>3, <1>4, <1>5, <1>6

\* A queue gets an entry that it does not hold.
LEMMA Queueing ==
  ASSUME NEW q \in Seq(Entries), NEW e \in Entries, HeldOnce(q),
         Holding(e) \cap Held(q) = {}
  PROVE  /\ HeldOnce(Append(q, e))
         /\ Held(Append(q, e)) = Held(q) \cup Holding(e)
  <1> DEFINE n == Append(q, e)
  <1>1. /\ Len(q) \in Nat /\ Len(n) = Len(q) + 1 /\ n[Len(q) + 1] = e
        /\ \A i \in 1 .. Len(q) : n[i] = q[i]
    OBVIOUS
  <1> HIDE DEF n
  <1>2. \A i \in 1 .. Len(n) : i \in 1 .. Len(q) \/ i = Len(q) + 1
    BY <1>1
  <1>3. /\ Len(q) + 1 \in 1 .. Len(n)
        /\ \A i \in 1 .. Len(q) : i \in 1 .. Len(n)
    BY <1>1
  <1>4. Held(n) = Held(q) \cup Holding(e)
    <2>1. ASSUME NEW b \in Held(n) PROVE b \in Held(q) \cup Holding(e)
      BY <1>1, <1>2 DEF Held, Holding
    <2>2. ASSUME NEW b \in Held(q) PROVE b \in Held(n)
      BY <1>1, <1>3 DEF Held
    <2>3. ASSUME NEW b \in Holding(e) PROVE b \in Held(n)
      BY <1>1, <1>3 DEF Held, Holding
    <2>4. QED BY <2>1, <2>2, <2>3
  <1>5. HeldOnce(n)
    <2>1. SUFFICES ASSUME NEW b \in Blocks, NEW i \in 1 .. Len(n),
                          NEW j \in 1 .. Len(n), n[i] = Sent(b), n[j] = Sent(b)
                   PROVE  i = j
      BY DEF HeldOnce
    <2>2. CASE i \in 1 .. Len(q) /\ j \in 1 .. Len(q)
      <3>1. q[i] = Sent(b) /\ q[j] = Sent(b)
        BY <1>1, <2>1, <2>2
      <3>2. QED BY <2>2, <3>1 DEF HeldOnce
    <2>3. CASE i \in 1 .. Len(q) /\ j = Len(q) + 1
      <3>1. b \in Held(q) /\ b \in Holding(e)
        BY <1>1, <2>1, <2>3 DEF Held, Holding
      <3>2. QED BY <3>1
    <2>4. CASE j \in 1 .. Len(q) /\ i = Len(q) + 1
      <3>1. b \in Held(q) /\ b \in Holding(e)
        BY <1>1, <2>1, <2>4 DEF Held, Holding
      <3>2. QED BY <3>1
    <2>5. QED BY <1>2, <2>2, <2>3, <2>4
  <1>6. QED BY <1>4, <1>5 DEF n

\* A queue loses its first entry.
LEMMA Dequeuing ==
  ASSUME NEW q \in Seq(Entries), q # << >>, HeldOnce(q)
  PROVE  /\ HeldOnce(Tail(q))
         /\ Held(q) = Held(Tail(q)) \cup Holding(Head(q))
         /\ Held(Tail(q)) \cap Holding(Head(q)) = {}
  <1> DEFINE n == Tail(q)
  <1>1. /\ Len(n) \in Nat /\ Len(q) = Len(n) + 1 /\ Head(q) = q[1]
        /\ \A i \in 1 .. Len(n) : n[i] = q[i + 1]
    OBVIOUS
  <1> HIDE DEF n
  <1>2. /\ 1 \in 1 .. Len(q)
        /\ \A i \in 1 .. Len(n) : i + 1 \in 1 .. Len(q) /\ i + 1 # 1
        /\ \A i \in 1 .. Len(q) : i # 1 => i - 1 \in 1 .. Len(n) /\ (i - 1) + 1 = i
    BY <1>1
  <1>3. HeldOnce(n)
    <2>1. SUFFICES ASSUME NEW b \in Blocks, NEW i \in 1 .. Len(n),
                          NEW j \in 1 .. Len(n), n[i] = Sent(b), n[j] = Sent(b)
                   PROVE  i = j
      BY DEF HeldOnce
    <2>2. q[i + 1] = Sent(b) /\ q[j + 1] = Sent(b)
      BY <1>1, <2>1
    <2>3. i + 1 = j + 1
      BY <1>2, <2>2 DEF HeldOnce
    <2>4. QED BY <2>3
  <1>4. Held(q) = Held(n) \cup Holding(Head(q))
    <2>1. ASSUME NEW b \in Held(q) PROVE b \in Held(n) \cup Holding(Head(q))
      <3>1. PICK i \in 1 .. Len(q) : q[i] = Sent(b)
        BY <2>1 DEF Held
      <3>2. CASE i = 1
        BY <1>1, <3>1, <3>2, <2>1 DEF Held, Holding
      <3>3. CASE i # 1
        <4>1. i - 1 \in 1 .. Len(n) /\ n[i - 1] = Sent(b)
          BY <1>1, <1>2, <3>1, <3>3
        <4>2. QED BY <2>1, <4>1 DEF Held
      <3>4. QED BY <3>2, <3>3
    <2>2. ASSUME NEW b \in Held(n) PROVE b \in Held(q)
      <3>1. PICK i \in 1 .. Len(n) : n[i] = Sent(b)
        BY <2>2 DEF Held
      <3>2. i + 1 \in 1 .. Len(q) /\ q[i + 1] = Sent(b)
        BY <1>1, <1>2, <3>1
      <3>3. QED BY <2>2, <3>2 DEF Held
    <2>3. ASSUME NEW b \in Holding(Head(q)) PROVE b \in Held(q)
      BY <1>1, <1>2 DEF Held, Holding
    <2>4. QED BY <2>1, <2>2, <2>3
  <1>5. ASSUME NEW b \in Held(n), b \in Holding(Head(q)) PROVE FALSE
    <2>1. PICK i \in 1 .. Len(n) : n[i] = Sent(b)
      BY DEF Held
    <2>2. q[i + 1] = Sent(b) /\ q[1] = Sent(b) /\ b \in Blocks
      BY <1>1, <1>5, <2>1 DEF Holding
    <2>3. i + 1 = 1
      BY <1>2, <2>2 DEF HeldOnce
    <2>4. QED BY <1>2, <2>3
  <1>6. QED BY <1>3, <1>4, <1>5 DEF n

\* A frame is called, by the frame on top, that serves no block twice.
LEMMA Pushing ==
  ASSUME NEW s \in Seq(Frames), NEW f \in Frames, NEW tm, Fits(s, tm),
         Carries(f, tm), s # << >> => Calling(Head(s), f, tm),
         s # << >> /\ f.at \in Sending => At(s, 1).at \notin Looks,
         ServedBy(f) \cap Served(s) = {}
  PROVE  /\ Fits(<< f >> \o s, tm)
         /\ Served(<< f >> \o s) = Served(s) \cup ServedBy(f)
         /\ At(<< f >> \o s, 1) = IF s = << >> THEN f ELSE At(s, 1)
  <1> DEFINE n == << f >> \o s
  <1>1. /\ Len(n) = Len(s) + 1 /\ Len(s) \in Nat
        /\ \A j \in 1 .. Len(s) : At(n, j) = At(s, j)
        /\ At(n, Len(s) + 1) = f
    BY Pushed
  <1>2. Len(s) # 0 => s # << >> /\ At(s, Len(s)) = Head(s)
    <2>1. Len(s) # 0 => s # << >>
      OBVIOUS
    <2>2. QED BY <2>1, Popped
  <1> HIDE DEF n
  <1>3. /\ \A i \in 1 .. Len(n) : i \in 1 .. Len(s) \/ i = Len(s) + 1
        /\ Len(s) + 1 \in 1 .. Len(n)
        /\ \A i \in 1 .. Len(s) : i \in 1 .. Len(n) /\ Len(s) # 0
    BY <1>1
  <1>4. Served(n) = Served(s) \cup ServedBy(f)
    <2>1. ASSUME NEW b \in Served(n) PROVE b \in Served(s) \cup ServedBy(f)
      BY <1>1, <1>3 DEF Served, ServedBy
    <2>2. ASSUME NEW b \in Served(s) PROVE b \in Served(n)
      BY <1>1, <1>3 DEF Served
    <2>3. ASSUME NEW b \in ServedBy(f) PROVE b \in Served(n)
      BY <1>1, <1>3 DEF Served, ServedBy
    <2>4. QED BY <2>1, <2>2, <2>3
  <1>5. ServedOnce(n)
    <2>1. SUFFICES ASSUME NEW b \in Blocks, NEW i \in 1 .. Len(n),
                          NEW j \in 1 .. Len(n),
                          At(n, i) = Serving(b), At(n, j) = Serving(b)
                   PROVE  i = j
      BY DEF ServedOnce
    <2>2. CASE i \in 1 .. Len(s) /\ j \in 1 .. Len(s)
      <3>1. At(s, i) = Serving(b) /\ At(s, j) = Serving(b)
        BY <1>1, <2>1, <2>2
      <3>2. QED BY <2>2, <3>1 DEF Fits, ServedOnce
    <2>3. CASE i \in 1 .. Len(s) /\ j = Len(s) + 1
      <3>1. b \in Served(s) /\ b \in ServedBy(f)
        BY <1>1, <2>1, <2>3 DEF Served, ServedBy
      <3>2. QED BY <3>1
    <2>4. CASE j \in 1 .. Len(s) /\ i = Len(s) + 1
      <3>1. b \in Served(s) /\ b \in ServedBy(f)
        BY <1>1, <2>1, <2>4 DEF Served, ServedBy
      <3>2. QED BY <3>1
    <2>5. QED BY <1>3, <2>2, <2>3, <2>4
  <1>6. Linked(n, tm)
    <2>1. SUFFICES ASSUME NEW i \in 1 .. Len(n), NEW j \in 1 .. Len(n), j = i + 1
                   PROVE  Calling(At(n, i), At(n, j), tm)
      BY DEF Linked
    <2>2. i \in 1 .. Len(s)
      BY <1>1, <2>1
    <2>3. CASE j \in 1 .. Len(s)
      <3>1. Calling(At(s, i), At(s, j), tm)
        BY <2>1, <2>2, <2>3 DEF Fits, Linked
      <3>2. QED BY <1>1, <2>2, <2>3, <3>1
    <2>4. CASE j = Len(s) + 1
      <3>1. i = Len(s)
        BY <1>1, <2>1, <2>4
      <3>2. At(n, i) = Head(s) /\ At(n, j) = f /\ s # << >>
        BY <1>1, <1>2, <1>3, <2>2, <2>4, <3>1
      <3>3. QED BY <3>2
    <2>5. QED BY <1>3, <2>3, <2>4
  <1>7. Carried(n, tm)
    BY <1>1, <1>3 DEF Fits, Carried
  <1>8. At(n, 1) = IF s = << >> THEN f ELSE At(s, 1)
    <2>1. s # << >> => 1 \in 1 .. Len(s)
      OBVIOUS
    <2>2. s = << >> => Len(s) + 1 = 1
      OBVIOUS
    <2>3. QED BY <1>1, <2>1, <2>2
  <1>9. Calm(n)
    <2>1. SUFFICES ASSUME At(n, 1).at \in Looks, NEW j \in 1 .. Len(n)
                   PROVE  At(n, j).at \notin Sending
      BY DEF Calm
    <2>2. CASE s = << >>
      <3>1. Len(s) = 0
        BY <2>2
      <3>2. At(n, j) = f /\ At(n, 1) = f
        BY <1>1, <1>3, <1>8, <2>2, <3>1
      <3>3. QED BY <2>1, <3>2 DEF Looks, Sending
    <2>3. CASE s # << >>
      <3>1. At(s, 1).at \in Looks
        BY <1>8, <2>1, <2>3
      <3>2. f.at \notin Sending
        BY <2>3, <3>1
      <3>3. j \in 1 .. Len(s) => At(s, j).at \notin Sending
        BY <3>1 DEF Fits, Calm
      <3>4. QED BY <1>1, <1>3, <3>2, <3>3
    <2>4. QED BY <2>2, <2>3
  <1>10. QED BY <1>4, <1>5, <1>6, <1>7, <1>8, <1>9 DEF Fits, n

\* The frame on top is left.
LEMMA Popping ==
  ASSUME NEW s \in Seq(Frames), s # << >>, NEW tm, Fits(s, tm)
  PROVE  /\ Fits(Tail(s), tm) /\ Carries(Head(s), tm)
         /\ Tail(s) # << >> => Calling(Head(Tail(s)), Head(s), tm)
         /\ Served(s) = Served(Tail(s)) \cup ServedBy(Head(s))
         /\ ServedBy(Head(s)) \cap Served(Tail(s)) = {}
         /\ Tail(s) # << >> => At(Tail(s), 1) = At(s, 1)
  <1> DEFINE n == Tail(s)
  <1>1. /\ n \in Seq(Frames) /\ Len(n) \in Nat /\ Len(s) = Len(n) + 1
        /\ At(s, Len(s)) = Head(s)
        /\ \A j \in 1 .. Len(n) : At(s, j) = At(n, j)
    BY Popped
  <1>2. n # << >> => Len(n) # 0 /\ At(n, Len(n)) = Head(n)
    <2>1. \A r \in Seq(Frames) : r # << >> => Len(r) # 0
      OBVIOUS
    <2>2. \A r \in Seq(Frames) : r # << >> => At(r, Len(r)) = Head(r)
      BY Popped
    <2>3. QED BY <1>1, <2>1, <2>2
  <1> HIDE DEF n
  <1>3. /\ \A i \in 1 .. Len(s) : i \in 1 .. Len(n) \/ i = Len(s)
        /\ Len(s) \in 1 .. Len(s)
        /\ \A i \in 1 .. Len(n) : i \in 1 .. Len(s) /\ i # Len(s)
    BY <1>1
  <1>4. Served(s) = Served(n) \cup ServedBy(Head(s))
    <2>1. ASSUME NEW b \in Served(s) PROVE b \in Served(n) \cup ServedBy(Head(s))
      BY <1>1, <1>3 DEF Served, ServedBy
    <2>2. ASSUME NEW b \in Served(n) PROVE b \in Served(s)
      BY <1>1, <1>3 DEF Served
    <2>3. ASSUME NEW b \in ServedBy(Head(s)) PROVE b \in Served(s)
      BY <1>1, <1>3 DEF Served, ServedBy
    <2>4. QED BY <2>1, <2>2, <2>3
  <1>5. ASSUME NEW b \in ServedBy(Head(s)), b \in Served(n) PROVE FALSE
    <2>1. PICK j \in 1 .. Len(n) : At(n, j) = Serving(b)
      BY <1>5 DEF Served
    <2>2. b \in Blocks /\ At(s, j) = Serving(b) /\ At(s, Len(s)) = Serving(b)
      BY <1>1, <2>1 DEF ServedBy
    <2>3. j = Len(s)
      BY <1>3, <2>2 DEF Fits, ServedOnce
    <2>4. QED BY <1>3, <2>3
  <1>6. ServedOnce(n)
    BY <1>1, <1>3 DEF Fits, ServedOnce
  <1>7. Linked(n, tm)
    BY <1>1, <1>3 DEF Fits, Linked
  <1>8. Carried(n, tm)
    BY <1>1, <1>3 DEF Fits, Carried
  <1>9. Carries(Head(s), tm)
    BY <1>1, <1>3 DEF Fits, Carried
  <1>10. n # << >> => Calling(Head(n), Head(s), tm)
    <2>1. SUFFICES ASSUME n # << >> PROVE Calling(At(s, Len(n)), At(s, Len(s)), tm)
      BY <1>1, <1>2, <1>3
    <2>2. Len(n) \in 1 .. Len(s) /\ Len(s) \in 1 .. Len(s) /\ Len(s) = Len(n) + 1
      BY <1>1, <1>2, <2>1
    <2>3. QED BY <2>2 DEF Fits, Linked
  <1>11. n # << >> => At(n, 1) = At(s, 1)
    <2>1. n # << >> => 1 \in 1 .. Len(n)
      BY <1>1, <1>2
    <2>2. QED BY <1>1, <2>1
  <1>12. Calm(n)
    <2>1. SUFFICES ASSUME At(n, 1).at \in Looks, NEW j \in 1 .. Len(n)
                   PROVE  At(n, j).at \notin Sending
      BY DEF Calm
    <2>2. n # << >>
      <3>1. Len(<< >>) = 0
        OBVIOUS
      <3>2. QED BY <1>1, <3>1
    <2>3. At(s, 1).at \in Looks
      BY <1>11, <2>1, <2>2
    <2>4. QED BY <1>1, <1>3, <2>3 DEF Fits, Calm
  <1>13. QED BY <1>4, <1>5, <1>6, <1>7, <1>8, <1>9, <1>10, <1>11, <1>12 DEF Fits, n

\* The frame on top goes on as one that serves nothing.
LEMMA Replacing ==
  ASSUME NEW s \in Seq(Frames), s # << >>, NEW f \in Frames, NEW tm, Fits(s, tm),
         Carries(f, tm), f.at # "serve",
         f.at \in Sending => Head(s).at \in Sending,
         Tail(s) # << >> => Head(Tail(s)).at # "serve"
  PROVE  /\ Fits(<< f >> \o Tail(s), tm)
         /\ Served(<< f >> \o Tail(s)) = Served(s) \ ServedBy(Head(s))
         /\ At(<< f >> \o Tail(s), 1) = IF Tail(s) = << >> THEN f ELSE At(s, 1)
  <1>1. /\ Fits(Tail(s), tm) /\ Tail(s) \in Seq(Frames)
        /\ Tail(s) # << >> => Calling(Head(Tail(s)), Head(s), tm)
        /\ Served(s) = Served(Tail(s)) \cup ServedBy(Head(s))
        /\ ServedBy(Head(s)) \cap Served(Tail(s)) = {}
        /\ Tail(s) # << >> => At(Tail(s), 1) = At(s, 1)
    BY Popping, Popped
  <1>2. Tail(s) # << >> => Calling(Head(Tail(s)), f, tm)
    BY <1>1 DEF Calling
  <1>3. ServedBy(f) = {}
    BY Shapes
  <1>4. Tail(s) # << >> /\ f.at \in Sending => At(Tail(s), 1).at \notin Looks
    <2>1. Len(s) \in 1 .. Len(s) /\ At(s, Len(s)) = Head(s)
      <3>1. Len(s) = Len(Tail(s)) + 1 /\ Len(Tail(s)) \in Nat
        BY Popped
      <3>2. QED BY <3>1, Popped
    <2>2. Head(s).at \in Sending => At(s, 1).at \notin Looks
      BY <2>1 DEF Fits, Calm
    <2>3. QED BY <1>1, <2>2
  <1>5. /\ Fits(<< f >> \o Tail(s), tm)
        /\ Served(<< f >> \o Tail(s)) = Served(Tail(s)) \cup ServedBy(f)
        /\ At(<< f >> \o Tail(s), 1) = IF Tail(s) = << >> THEN f ELSE At(Tail(s), 1)
    <2>1. ServedBy(f) \cap Served(Tail(s)) = {}
      BY <1>3
    <2>2. QED BY <1>1, <1>2, <1>4, <2>1, Pushing
  <1>6. QED BY <1>1, <1>3, <1>5

\* The blocks may change as long as those that are served keep their message,
\* and those that are waited for keep their window, too.
LEMMA FitsKept ==
  ASSUME NEW s \in Seq(Frames), NEW tm, NEW tm2, Fits(s, tm),
         \A j \in 1 .. Len(s) :
           /\ At(s, j).at \in Sending \cup {"serve"} =>
                tm2[At(s, j).block].msg = tm[At(s, j).block].msg
           /\ At(s, j).at \in Sending =>
                tm2[At(s, j).block].hwnd = tm[At(s, j).block].hwnd
  PROVE  Fits(s, tm2)
  <1>1. Linked(s, tm2)
    BY DEF Fits, Linked, Calling
  <1>2. Carried(s, tm2)
    BY DEF Fits, Carried, Carries
  <1>3. QED BY <1>1, <1>2 DEF Fits

\* The program's frame is on top of no other.
LEMMA Bottom ==
  ASSUME NEW s, Stacked(s)
  PROVE  /\ Head(s).at \in Base <=> Tail(s) = << >>
         /\ Head(s).at \in Base => At(s, 1) = Head(s)
  <1>1. /\ Tail(s) \in Seq(Frames)
        /\ Len(Tail(s)) \in Nat /\ Len(s) = Len(Tail(s)) + 1
        /\ At(s, Len(s)) = Head(s)
    BY Popped DEF Stacked
  <1>2. At(s, Len(s)).at \in Base <=> Len(s) = 1
    BY <1>1 DEF Stacked
  <1>3. Tail(s) = << >> <=> Len(Tail(s)) = 0
    <2>1. \A r \in Seq(Frames) : r = << >> <=> Len(r) = 0
      OBVIOUS
    <2>2. QED BY <1>1, <2>1
  <1>4. QED BY <1>1, <1>2, <1>3

LEMMA TailAppend ==
  ASSUME NEW S, NEW q \in Seq(S), NEW e \in S, q # << >>
  PROVE  Tail(Append(q, e)) = Append(Tail(q), e)
  <1> DEFINE m == Append(q, e)
             n == Append(Tail(q), e)
             k == Len(q)
  <1>1. /\ k \in Nat \ {0} /\ Tail(q) \in Seq(S) /\ Len(Tail(q)) = k - 1
        /\ \A i \in 1 .. k - 1 : Tail(q)[i] = q[i + 1]
    OBVIOUS
  <1>2. /\ m \in Seq(S) /\ Len(m) = k + 1 /\ m[k + 1] = e
        /\ \A i \in 1 .. k : m[i] = q[i]
    OBVIOUS
  <1>3. \A r \in Seq(S) : /\ Append(r, e) \in Seq(S)
                          /\ Len(Append(r, e)) = Len(r) + 1
                          /\ Append(r, e)[Len(r) + 1] = e
                          /\ \A i \in 1 .. Len(r) : Append(r, e)[i] = r[i]
    OBVIOUS
  <1>4. /\ n \in Seq(S) /\ Len(n) = Len(Tail(q)) + 1 /\ n[Len(Tail(q)) + 1] = e
        /\ \A i \in 1 .. Len(Tail(q)) : n[i] = Tail(q)[i]
    BY <1>1, <1>3
  <1>5. \A r \in Seq(S) : r # << >> =>
          /\ Tail(r) \in Seq(S) /\ Len(Tail(r)) = Len(r) - 1
          /\ \A i \in 1 .. Len(r) - 1 : Tail(r)[i] = r[i + 1]
    OBVIOUS
  <1>6. m # << >>
    <2>1. Len(<< >>) = 0
      OBVIOUS
    <2>2. Len(m) # 0
      BY <1>1, <1>2
    <2>3. QED BY <2>1, <2>2
  <1> HIDE DEF m, n, k
  <1>7. /\ Tail(m) \in Seq(S) /\ Len(Tail(m)) = Len(m) - 1
        /\ \A i \in 1 .. Len(m) - 1 : Tail(m)[i] = m[i + 1]
    BY <1>2, <1>5, <1>6
  <1>8. Len(Tail(m)) = k /\ Len(n) = k
    BY <1>1, <1>2, <1>4, <1>7
  <1>9. ASSUME NEW i \in 1 .. k
        PROVE  Tail(m)[i] = n[i]
    <2>1. Tail(m)[i] = m[i + 1]
      BY <1>1, <1>2, <1>7
    <2>2. CASE i = k
      <3>1. n[i] = e
        BY <1>1, <1>4, <2>2
      <3>2. QED BY <1>2, <2>1, <2>2, <3>1
    <2>3. CASE i # k
      <3>1. i \in 1 .. k - 1 /\ i + 1 \in 1 .. k
        BY <1>1, <2>3
      <3>2. n[i] = q[i + 1]
        BY <1>1, <1>4, <3>1
      <3>3. m[i + 1] = q[i + 1]
        BY <1>2, <3>1
      <3>4. QED BY <2>1, <3>2, <3>3
    <2>4. QED BY <2>2, <2>3
  <1>10. \A r1, r2 \in Seq(S) :
           Len(r1) = Len(r2) /\ (\A i \in 1 .. Len(r1) : r1[i] = r2[i]) => r1 = r2
    OBVIOUS
  <1>11. Tail(m) = n
    BY <1>4, <1>7, <1>8, <1>9, <1>10
  <1>12. QED BY <1>11 DEF m, n

\* A message that comes is behind the one that is worked on.
LEMMA LeftAppend ==
  ASSUME NEW q \in Seq(Entries), NEW e \in Entries, NEW s,
         At(s, 1).at = "keep" => q # << >>
  PROVE  /\ Left(q, s) \in Seq(Entries)
         /\ Left(Append(q, e), s) = Append(Left(q, s), e)
  <1>1. CASE At(s, 1).at = "keep"
    <2>1. q # << >>
      BY <1>1
    <2>2. Tail(q) \in Seq(Entries)
      BY <2>1
    <2>3. Tail(Append(q, e)) = Append(Tail(q), e)
      BY <2>1, TailAppend
    <2>4. QED BY <1>1, <2>2, <2>3 DEF Left
  <1>2. CASE At(s, 1).at # "keep"
    BY <1>2 DEF Left
  <1>3. QED BY <1>1, <1>2

-----------------------------------------------------------------------------
(* Steps that change no block.                                             *)

LEMMA StackFacts ==
  ASSUME AInv, NEW t \in Threads
  PROVE  /\ stack[t] \in Seq(Frames) /\ stack[t] # << >> /\ Stacked(stack[t])
         /\ Top(t) \in Frames /\ Below(t) \in Seq(Frames)
         /\ Fits(stack[t], threadMsg) /\ Top(t).at # "serve"
         /\ Owning(t, stack[t], threadMsg, free)
         /\ queue[t] \in Seq(Entries)
  <1>1. IInv /\ queue[t] \in Seq(Entries)
    BY DEF AInv, IInv, Data
  <1>2. Fits(stack[t], threadMsg) /\ Top(t).at # "serve"
    BY DEF AInv, Fitting
  <1>3. QED BY <1>1, <1>2, InvImplies

\* What t has not begun to work on.
LEMMA LeftFacts ==
  ASSUME AInv, NEW t \in Threads
  PROVE  LET q == Left(queue[t], stack[t])
         IN  /\ q \in Seq(Entries) /\ HeldOnce(q)
             /\ Held(q) \cap Served(stack[t]) = {}
             /\ Held(q) \cup Served(stack[t]) \subseteq Due(t)
             /\ t \notin Scarce => Due(t) \subseteq Held(q) \cup Served(stack[t])
             /\ At(stack[t], 1).at = "keep" => queue[t] # << >>
  <1>1. queue[t] \in Seq(Entries)
    BY StackFacts
  <1>2. At(stack[t], 1).at = "keep" => queue[t] # << >>
    BY DEF AInv, Looking
  <1>3. Left(queue[t], stack[t]) \in Seq(Entries)
    BY <1>1, <1>2 DEF Left
  <1>4. QED BY <1>2, <1>3 DEF AInv, UnderWay, Keeping

\* Whoever looks into its queue, to remove what it finds, works on nothing there.
LEMMA Peeking ==
  ASSUME AInv, NEW t \in Threads, Top(t).at \in {"get", "look", "pump"}
  PROVE  /\ At(stack[t], 1).at # "keep"
         /\ Top(t).at # "look" => At(stack[t], 1).at \notin Looks
         /\ Left(queue[t], stack[t]) = queue[t]
  <1>1. stack[t] \in Seq(Frames) /\ stack[t] # << >> /\ Stacked(stack[t])
        /\ Fits(stack[t], threadMsg)
    BY StackFacts
  <1>2. CASE Top(t).at \in {"get", "look"}
    <2>1. At(stack[t], 1) = Top(t)
      BY <1>1, <1>2, Bottom DEF Top, Base
    <2>2. QED BY <1>2, <2>1 DEF Left, Looks
  <1>3. CASE Top(t).at = "pump"
    <2>1. Len(stack[t]) \in 1 .. Len(stack[t]) /\ At(stack[t], Len(stack[t])) = Top(t)
      <3>1. Len(stack[t]) = Len(Tail(stack[t])) + 1 /\ Len(Tail(stack[t])) \in Nat
            /\ At(stack[t], Len(stack[t])) = Head(stack[t])
        BY <1>1, Popped
      <3>2. QED BY <3>1 DEF Top
    <2>2. At(stack[t], 1).at \notin Looks
      BY <1>1, <1>3, <2>1 DEF Fits, Calm, Sending
    <2>3. QED BY <2>2 DEF Left, Looks
  <1>4. QED BY <1>2, <1>3

LEMMA UnsentSame ==
  ASSUME AInv, NEW t \in Threads, NEW s, stack' = [stack EXCEPT ![t] = s],
         Head(s).at # "insert", Top(t).at # "insert"
  PROVE  Unsent' = Unsent
  <1>1. /\ Top(t)' = Head(s)
        /\ \A x \in Threads \ {t} : Top(x)' = Top(x)
    BY DEF AInv, IInv, Data, Top
  <1>2. \A x \in Threads : /\ Top(x)'.at = "insert" <=> Top(x).at = "insert"
                           /\ Top(x).at = "insert" => Top(x)' = Top(x)
    BY <1>1
  <1>3. QED BY <1>2 DEF Unsent

LEMMA LookingKept ==
  ASSUME AInv, NEW t \in Threads, NEW s, stack' = [stack EXCEPT ![t] = s],
         At(s, 1).at \in Looks => t \in Peekers,
         At(s, 1).at = "keep" => queue'[t] # << >>,
         \A x \in Threads : calls[x] = 0 => calls'[x] = 0,
         \A x \in Threads \ {t} : queue[x] # << >> => queue'[x] # << >>
  PROVE  Looking'
  <1>1. /\ stack'[t] = s
        /\ \A x \in Threads \ {t} : stack'[x] = stack[x]
    BY DEF AInv, IInv, Data
  <1>2. ASSUME NEW x \in Threads
        PROVE  /\ x \in Peekers => calls'[x] = 0
               /\ At(stack'[x], 1).at \in Looks => x \in Peekers
               /\ At(stack'[x], 1).at = "keep" => queue'[x] # << >>
    <2>1. /\ x \in Peekers => calls[x] = 0
          /\ At(stack[x], 1).at \in Looks => x \in Peekers
          /\ At(stack[x], 1).at = "keep" => queue[x] # << >>
      BY DEF AInv, Looking
    <2>2. CASE x = t
      BY <1>1, <2>1, <2>2
    <2>3. CASE x # t
      <3>1. stack'[x] = stack[x] /\ x \in Threads \ {t}
        BY <1>1, <2>3
      <3>2. QED BY <2>1, <3>1
    <2>4. QED BY <2>2, <2>3
  <1>3. QED BY <1>2 DEF Looking

\* t does something that changes neither what it serves nor what is in queues.
LEMMA Still ==
  ASSUME AInv, IInv', NEW t \in Threads, NEW s, Looking',
         stack' = [stack EXCEPT ![t] = s], UNCHANGED << threadMsg, free, windows >>,
         Fits(s, threadMsg), Head(s).at \notin {"serve", "insert"},
         Top(t).at # "insert", Served(s) = Served(stack[t]),
         \A x \in Threads :
           /\ HeldOnce(Left(queue'[x], stack'[x]))
           /\ Held(Left(queue'[x], stack'[x])) = Held(Left(queue[x], stack[x]))
  PROVE  AInv'
  <1>1. /\ stack'[t] = s
        /\ \A x \in Threads \ {t} : stack'[x] = stack[x]
    BY DEF AInv, IInv, Data
  <1>2. Answered'
    BY DEF AInv, Answered
  <1>3. Fitting'
    <2>1. \A x \in Threads : Fits(stack'[x], threadMsg) /\ Head(stack'[x]).at # "serve"
      BY <1>1 DEF AInv, Fitting, Top
    <2>2. QED BY <2>1 DEF Fitting, Top
  <1>4. Unsent' = Unsent
    BY UnsentSame
  <1>5. UnderWay'
    <2>1. \A x \in Threads : Served(stack'[x]) = Served(stack[x])
      BY <1>1
    <2>2. \A x \in Threads : Due(x)' = Due(x)
      BY <1>4 DEF Due, Awaited
    <2>3. \A x \in Threads : Keeping(x, Left(queue'[x], stack'[x]), stack'[x], Due(x))
      BY <2>1 DEF AInv, UnderWay, Keeping
    <2>4. QED BY <2>2, <2>3 DEF UnderWay, Keeping, Left
  <1>6. Pending'
    BY <1>4 DEF AInv, Pending
  <1>7. QED BY <1>2, <1>3, <1>5, <1>6 DEF AInv

\* t goes on without a change of queues.
LEMMA QuietStep ==
  ASSUME AInv, IInv', NEW t \in Threads, NEW s,
         stack' = [stack EXCEPT ![t] = s],
         UNCHANGED << threadMsg, free, queue, windows >>,
         \A x \in Threads : calls[x] = 0 => calls'[x] = 0,
         Fits(s, threadMsg), Head(s).at \notin {"serve", "insert"},
         Top(t).at # "insert", Served(s) = Served(stack[t]),
         At(s, 1).at \in Looks => t \in Peekers,
         At(s, 1).at = "keep" <=> At(stack[t], 1).at = "keep"
  PROVE  AInv'
  <1>1. /\ stack'[t] = s
        /\ \A x \in Threads \ {t} : stack'[x] = stack[x]
    BY DEF AInv, IInv, Data
  <1>2. Looking'
    <2>1. At(s, 1).at = "keep" => queue'[t] # << >>
      BY LeftFacts
    <2>2. QED BY <2>1, LookingKept
  <1>3. ASSUME NEW x \in Threads
        PROVE  Left(queue'[x], stack'[x]) = Left(queue[x], stack[x])
    <2>1. At(stack'[x], 1).at = "keep" <=> At(stack[x], 1).at = "keep"
      BY <1>1
    <2>2. QED BY <2>1 DEF Left
  <1>4. \A x \in Threads :
           /\ HeldOnce(Left(queue'[x], stack'[x]))
           /\ Held(Left(queue'[x], stack'[x])) = Held(Left(queue[x], stack[x]))
    BY <1>3, LeftFacts
  <1>5. UNCHANGED << threadMsg, free, windows >>
    OBVIOUS
  <1>6. /\ stack' = [stack EXCEPT ![t] = s]
        /\ Fits(s, threadMsg) /\ Head(s).at \notin {"serve", "insert"}
        /\ Top(t).at # "insert" /\ Served(s) = Served(stack[t])
    OBVIOUS
  <1>7. QED BY <1>2, <1>4, <1>5, <1>6, Still

\* The frame on top goes on to another place.
LEMMA GoingOn ==
  ASSUME NEW s, Stacked(s), NEW tm, Fits(s, tm), NEW at,
         \/ at \in Base /\ Head(s).at \in Base
         \/ at \in Sending /\ Head(s).at \in Sending
  PROVE  LET f == [Head(s) EXCEPT !.at = at]
             n == << f >> \o Tail(s)
         IN  /\ n \in Seq(Frames) /\ n # << >> /\ Head(n).at = at
             /\ Fits(n, tm) /\ Served(n) = Served(s)
             /\ at \in Base => At(n, 1).at = at
             /\ at \notin Base => At(n, 1) = At(s, 1)
  <1> DEFINE f == [Head(s) EXCEPT !.at = at]
             n == << f >> \o Tail(s)
  <1>1. /\ Head(s) \in Frames /\ Tail(s) \in Seq(Frames)
        /\ s \in Seq(Frames) /\ s # << >>
    BY Popped DEF Stacked
  <1>2. /\ Carries(Head(s), tm)
        /\ Tail(s) # << >> => Calling(Head(Tail(s)), Head(s), tm)
    BY <1>1, Popping
  <1>3. f \in Frames /\ f.at = at /\ f.at # "serve"
    <2>1. CASE at \in Base /\ Head(s).at \in Base
      <3>1. f \in Frames /\ f.at = at
        BY <1>1, <2>1, BaseTurns
      <3>2. QED BY <2>1, <3>1 DEF Base
    <2>2. CASE at \in Sending /\ Head(s).at \in Sending
      <3>1. f \in Frames /\ f.at = at
        BY <1>1, <2>2, SendingTurns
      <3>2. QED BY <2>2, <3>1 DEF Sending
    <2>3. QED BY <2>1, <2>2
  <1>4. Carries(f, tm)
    <2>1. CASE at \in Base
      <3>1. f.at \notin Sending
        BY <1>3, <2>1 DEF Base, Sending
      <3>2. QED BY <3>1 DEF Carries
    <2>2. CASE at \in Sending /\ Head(s).at \in Sending
      <3>1. f.block = Head(s).block /\ f.hwnd = Head(s).hwnd /\ f.msg = Head(s).msg
        BY <1>1, <2>2 DEF Frames, Sending
      <3>2. QED BY <1>2, <2>2, <3>1 DEF Carries
    <2>3. QED BY <2>1, <2>2
  <1>5. Tail(s) # << >> => Head(Tail(s)).at # "serve"
    <2>1. Head(s).at # "proc"
      BY DEF Base, Sending
    <2>2. ASSUME Tail(s) # << >>, Head(Tail(s)).at = "serve" PROVE FALSE
      <3>1. Head(s) = [at |-> "proc", msg |-> tm[Head(Tail(s)).block].msg]
        BY <1>2, <2>2 DEF Calling
      <3>2. QED BY <2>1, <3>1
    <2>3. QED BY <2>2
  <1>6. f.at \in Sending => Head(s).at \in Sending
    BY <1>3 DEF Base, Sending
  <1>7. Head(s).at # "serve"
    BY DEF Base, Sending
  <1>8. /\ at \in Base => Tail(s) = << >>
        /\ at \notin Base => Tail(s) # << >>
    <2>1. Head(s).at \in Base <=> Tail(s) = << >>
      BY Bottom
    <2>2. at \in Base <=> Head(s).at \in Base
      BY DEF Base, Sending
    <2>3. QED BY <2>1, <2>2
  <1> HIDE DEF f
  <1>9. /\ Fits(n, tm) /\ Served(n) = Served(s) \ ServedBy(Head(s))
        /\ At(n, 1) = IF Tail(s) = << >> THEN f ELSE At(s, 1)
    BY <1>1, <1>3, <1>4, <1>5, <1>6, Replacing
  <1>10. ServedBy(Head(s)) = {}
    BY <1>1, <1>7, Shapes
  <1>11. n \in Seq(Frames) /\ n # << >> /\ Head(n) = f
    BY <1>1, <1>3, Pushed
  <1> HIDE DEF n
  <1>12. QED BY <1>3, <1>8, <1>9, <1>10, <1>11 DEF f, n

LEMMA Goings ==
  ASSUME AInv, IInv', NEW t \in Threads, NEW at, Goes(t, at),
         \/ at \in Base /\ Top(t).at \in Base
         \/ at \in Sending /\ Top(t).at \in Sending,
         at \notin {"keep", "insert"}, Top(t).at \notin {"keep", "insert"},
         at = "look" => t \in Peekers,
         UNCHANGED << threadMsg, free, queue, windows, calls >>
  PROVE  AInv'
  <1> DEFINE s == << [Top(t) EXCEPT !.at = at] >> \o Below(t)
  <1>1. /\ stack[t] \in Seq(Frames) /\ Stacked(stack[t]) /\ Fits(stack[t], threadMsg)
    BY StackFacts
  <1>2. /\ Fits(s, threadMsg) /\ Served(s) = Served(stack[t]) /\ Head(s).at = at
        /\ at \in Base => At(s, 1).at = at
        /\ at \notin Base => At(s, 1) = At(stack[t], 1)
    BY <1>1, GoingOn DEF Top, Below
  <1>3. at \notin {"serve", "insert"}
    BY DEF Base, Sending
  <1>4. stack' = [stack EXCEPT ![t] = s]
    BY DEF Goes, Becomes
  <1> HIDE DEF s
  <1>5. /\ At(s, 1).at \in Looks => t \in Peekers
        /\ At(s, 1).at = "keep" <=> At(stack[t], 1).at = "keep"
    <2>1. CASE at \in Base
      <3>1. Top(t).at \in Base
        BY <2>1 DEF Base, Sending
      <3>2. At(stack[t], 1) = Top(t)
        BY <1>1, <3>1, Bottom DEF Top
      <3>3. QED BY <1>2, <2>1, <3>2 DEF Looks
    <2>2. CASE at \notin Base
      <3>1. At(stack[t], 1).at \in Looks => t \in Peekers
        BY DEF AInv, Looking
      <3>2. QED BY <1>2, <2>2, <3>1
    <2>3. QED BY <2>1, <2>2
  <1>6. QED BY <1>2, <1>3, <1>4, <1>5, QuietStep

\* A call that is no procedure's ends; so it is none that serves a block.
LEMMA Endings ==
  ASSUME AInv, NEW t \in Threads, Top(t).at \notin Base \cup {"proc"}
  PROVE  /\ Below(t) \in Seq(Frames) /\ Below(t) # << >>
         /\ Fits(Below(t), threadMsg)
         /\ Served(Below(t)) = Served(stack[t])
         /\ At(Below(t), 1) = At(stack[t], 1)
         /\ Head(Below(t)).at \notin {"serve", "insert"}
         /\ Top(t).at \in Sending => Head(Below(t)).at \in {"app", "proc"}
  <1>1. /\ stack[t] \in Seq(Frames) /\ stack[t] # << >>
        /\ Top(t) \in Frames /\ Below(t) \in Seq(Frames)
        /\ Fits(stack[t], threadMsg) /\ Top(t).at # "serve"
        /\ Stacked(stack[t])
    BY StackFacts
  <1>2. Below(t) # << >> /\ Head(Below(t)).at \in Lower
    <2>1. Stacked(Below(t)) /\ Head(Below(t)).at \in Lower
      BY <1>1, PopOff DEF Top, Below
    <2>2. QED BY <2>1 DEF Stacked
  <1>3. /\ Calling(Head(Below(t)), Top(t), threadMsg)
        /\ Fits(Below(t), threadMsg)
        /\ Served(stack[t]) = Served(Below(t)) \cup ServedBy(Top(t))
        /\ At(Below(t), 1) = At(stack[t], 1)
    BY <1>1, <1>2, Popping DEF Top, Below
  <1>4. ServedBy(Top(t)) = {}
    BY <1>1, Shapes
  <1>5. Head(Below(t)).at # "serve"
    <2>1. ASSUME Head(Below(t)).at = "serve" PROVE FALSE
      <3>1. Top(t) = [at |-> "proc", msg |-> threadMsg[Head(Below(t)).block].msg]
        BY <1>3, <2>1 DEF Calling
      <3>2. QED BY <3>1
    <2>2. QED BY <2>1
  <1>6. Head(Below(t)).at # "insert"
    BY <1>2 DEF Lower
  <1>7. QED BY <1>1, <1>2, <1>3, <1>4, <1>5, <1>6 DEF Calling

LEMMA WokenKept ==
  ASSUME AInv, IInv', NEW t \in Threads, Signal(t) \/ Notify(t)
  PROVE  AInv'
  <1>1. UNCHANGED << threadMsg, free, queue, windows, calls >>
    BY DEF Signal, Notify
  <1>2. CASE Top(t).at = "raise" /\ Goes(t, "test")
    <2>1. "test" \in Sending /\ Top(t).at \in Sending
      BY <1>2 DEF Sending
    <2>2. QED BY <1>1, <1>2, <2>1, Goings
  <1>3. CASE Top(t).at \in {"signal", "notify"} /\ Becomes(t, Below(t))
    <2>1. /\ Fits(Below(t), threadMsg) /\ Served(Below(t)) = Served(stack[t])
          /\ Head(Below(t)).at \notin {"serve", "insert"}
          /\ At(Below(t), 1) = At(stack[t], 1)
      BY <1>3, Endings DEF Base
    <2>2. stack' = [stack EXCEPT ![t] = Below(t)] /\ Top(t).at # "insert"
      BY <1>3 DEF Becomes
    <2>3. /\ At(Below(t), 1).at \in Looks => t \in Peekers
          /\ At(Below(t), 1).at = "keep" <=> At(stack[t], 1).at = "keep"
      BY <2>1 DEF AInv, Looking
    <2>4. QED BY <1>1, <2>1, <2>2, <2>3, QuietStep
  <1>4. QED BY <1>2, <1>3 DEF Signal, Notify

LEMMA LoopKept ==
  ASSUME AInv, IInv', NEW t \in Threads,
         GetMessage(t) \/ PeekMessage(t) \/ PeekNothing(t) \/ LookPosted(t)
           \/ WinMsg_Wait(t)
  PROVE  AInv'
  <1>1. UNCHANGED << threadMsg, free, queue, windows, calls >>
    BY DEF GetMessage, PeekMessage, PeekNothing, LookPosted, WinMsg_Wait
  <1>2. CASE /\ Top(t).at \in {"app", "get", "look", "idle"}
             /\ \E x \in {"get", "idle", "look"} :
                  Goes(t, x) /\ (x = "look" => t \in Peekers)
    <2>1. PICK x \in {"get", "idle", "look"} : Goes(t, x) /\ (x = "look" => t \in Peekers)
      BY <1>2
    <2>2. x \in Base /\ Top(t).at \in Base
      BY <1>2, <2>1 DEF Base
    <2>3. QED BY <1>1, <1>2, <2>1, <2>2, Goings
  <1>3. CASE Top(t).at = "pump" /\ Goes(t, "test")
    <2>1. "test" \in Sending /\ Top(t).at \in Sending
      BY <1>3 DEF Sending
    <2>2. QED BY <1>1, <1>3, <2>1, Goings
  <1>4. CASE PeekNothing(t)
    <2>1. Missing["get"] = "idle" /\ Missing["look"] = "get" /\ Missing["pump"] = "test"
      BY DEF Missing
    <2>2. QED BY <1>2, <1>3, <1>4, <2>1 DEF PeekNothing, Peeks
  <1>5. CASE GetMessage(t) \/ PeekMessage(t) \/ LookPosted(t) \/ WinMsg_Wait(t)
    BY <1>2, <1>5 DEF GetMessage, PeekMessage, LookPosted, WinMsg_Wait
  <1>6. QED BY <1>4, <1>5

\* What is left of a thread's calls once it has made one.
LEMMA Counted ==
  ASSUME AInv, NEW t \in Threads, MayCall(t), Counts(t)
  PROVE  /\ \A x \in Threads : calls[x] = 0 => calls'[x] = 0
         /\ At(stack[t], 1).at \notin Looks
  <1>1. calls \in [Threads -> Nat] /\ calls[t] > 0 /\ calls[t] # 0
    BY DEF AInv, IInv, Data, MayCall
  <1>2. \A x \in Threads : calls[x] = 0 => calls'[x] = 0
    BY <1>1 DEF Counts
  <1>3. At(stack[t], 1).at \notin Looks
    BY <1>1 DEF AInv, Looking
  <1>4. QED BY <1>2, <1>3

LEMMA PostKept ==
  ASSUME AInv, IInv', NEW t \in Threads, NEW u \in Threads, NEW m \in Msgs,
         WinMsg_Post(t, u, m)
  PROVE  AInv'
  <1> DEFINE f == [at |-> "signal", hwnd |-> u]
             n == << f >> \o stack[t]
  <1>1. /\ UNCHANGED << threadMsg, free, windows >>
        /\ Top(t).at \in {"app", "proc"} /\ MayCall(t) /\ Counts(t)
        /\ queue' = queue \/ queue' = [queue EXCEPT ![u] = Append(@, Posted(m))]
        /\ \/ stack' = [stack EXCEPT ![t] = n]
           \/ stack' = [stack EXCEPT ![t] = stack[t]]
    BY DEF WinMsg_Post, MayCall, Becomes, AddMsgToThreadQueue
  <1>2. /\ \A x \in Threads : calls[x] = 0 => calls'[x] = 0
        /\ At(stack[t], 1).at \notin Looks
    BY <1>1, Counted
  <1>3. f \in Frames /\ f.at = "signal" /\ f.at \notin Sending
    BY FrameShapes DEF Sending
  <1>4. stack[t] \in Seq(Frames) /\ stack[t] # << >> /\ Fits(stack[t], threadMsg)
    BY StackFacts
  <1> HIDE DEF f
  <1>5. Carries(f, threadMsg) /\ Calling(Head(stack[t]), f, threadMsg)
    BY <1>1, <1>3 DEF Carries, Calling, Top
  <1>6. ServedBy(f) = {}
    BY <1>3, Shapes
  <1>7. /\ Fits(n, threadMsg) /\ Served(n) = Served(stack[t])
        /\ Head(n).at = "signal" /\ At(n, 1) = At(stack[t], 1)
    <2>1. ServedBy(f) \cap Served(stack[t]) = {}
      BY <1>6
    <2>2. /\ Fits(n, threadMsg) /\ Served(n) = Served(stack[t]) \cup ServedBy(f)
          /\ At(n, 1) = At(stack[t], 1)
      BY <1>3, <1>4, <1>5, <2>1, Pushing
    <2>3. Head(n) = f
      BY <1>3, <1>4, Pushed
    <2>4. QED BY <1>3, <1>6, <2>2, <2>3
  <1> HIDE DEF n
  <1>8. ASSUME NEW x \in Threads
        PROVE  /\ HeldOnce(Left(queue'[x], stack[x]))
               /\ Held(Left(queue'[x], stack[x])) = Held(Left(queue[x], stack[x]))
               /\ queue[x] # << >> => queue'[x] # << >>
    <2>1. /\ queue[x] \in Seq(Entries)
          /\ At(stack[x], 1).at = "keep" => queue[x] # << >>
          /\ Left(queue[x], stack[x]) \in Seq(Entries)
          /\ HeldOnce(Left(queue[x], stack[x]))
      BY StackFacts, LeftFacts
    <2>2. Posted(m) \in Entries /\ Holding(Posted(m)) = {}
      BY QueueTypes, Shapes
    <2>3. /\ HeldOnce(Append(Left(queue[x], stack[x]), Posted(m)))
          /\ Held(Append(Left(queue[x], stack[x]), Posted(m)))
               = Held(Left(queue[x], stack[x]))
      BY <2>1, <2>2, Queueing
    <2>4. Left(Append(queue[x], Posted(m)), stack[x])
            = Append(Left(queue[x], stack[x]), Posted(m))
      BY <2>1, <2>2, LeftAppend
    <2>5. Append(queue[x], Posted(m)) # << >>
      <3>1. Len(Append(queue[x], Posted(m))) = Len(queue[x]) + 1
            /\ Len(queue[x]) \in Nat
        BY <2>1, <2>2
      <3>2. Len(<< >>) = 0
        OBVIOUS
      <3>3. QED BY <3>1, <3>2
    <2>6. queue'[x] = Append(queue[x], Posted(m)) \/ queue'[x] = queue[x]
      BY <1>1 DEF AInv, IInv, Data
    <2>7. QED BY <2>1, <2>3, <2>4, <2>5, <2>6
  <1>9. ASSUME NEW s, s = n \/ s = stack[t], stack' = [stack EXCEPT ![t] = s]
        PROVE  AInv'
    <2>1. /\ Fits(s, threadMsg) /\ Served(s) = Served(stack[t])
          /\ Head(s).at \notin {"serve", "insert"} /\ Top(t).at # "insert"
          /\ At(s, 1) = At(stack[t], 1)
      BY <1>1, <1>4, <1>7, <1>9 DEF Top
    <2>2. Looking'
      <3>1. At(s, 1).at \notin Looks /\ At(s, 1).at # "keep"
        BY <1>2, <2>1 DEF Looks
      <3>2. \A x \in Threads \ {t} : queue[x] # << >> => queue'[x] # << >>
        BY <1>8
      <3>3. QED BY <1>2, <1>9, <3>1, <3>2, LookingKept
    <2>3. ASSUME NEW x \in Threads
          PROVE  /\ HeldOnce(Left(queue'[x], stack'[x]))
                 /\ Held(Left(queue'[x], stack'[x])) = Held(Left(queue[x], stack[x]))
      <3>1. At(stack'[x], 1).at = At(stack[x], 1).at
        BY <1>9, <2>1 DEF AInv, IInv, Data
      <3>2. Left(queue'[x], stack'[x]) = Left(queue'[x], stack[x])
        BY <3>1 DEF Left
      <3>3. QED BY <1>8, <3>2
    <2>4. QED BY <1>1, <1>9, <2>1, <2>2, <2>3, Still
  <1>10. QED BY <1>1, <1>9

\* The queue of t loses its first entry, which nobody has sent.
LEMMA DequeuedKept ==
  ASSUME AInv, NEW t \in Threads, NEW s, stack' = [stack EXCEPT ![t] = s],
         queue' = Dequeued(t), queue[t] # << >>,
         Left(queue[t], stack[t]) = queue[t], Holding(First(t)) = {},
         At(s, 1).at \notin Looks
  PROVE  /\ \A x \in Threads \ {t} : queue[x] # << >> => queue'[x] # << >>
         /\ \A x \in Threads :
              /\ HeldOnce(Left(queue'[x], stack'[x]))
              /\ Held(Left(queue'[x], stack'[x])) = Held(Left(queue[x], stack[x]))
  <1>1. /\ stack'[t] = s /\ queue'[t] = Tail(queue[t])
        /\ \A x \in Threads \ {t} : stack'[x] = stack[x] /\ queue'[x] = queue[x]
    BY DEF Dequeued, AInv, IInv, Data
  <1>2. ASSUME NEW x \in Threads
        PROVE  /\ HeldOnce(Left(queue'[x], stack'[x]))
               /\ Held(Left(queue'[x], stack'[x])) = Held(Left(queue[x], stack[x]))
    <2>1. /\ queue[x] \in Seq(Entries) /\ HeldOnce(Left(queue[x], stack[x]))
      BY StackFacts, LeftFacts
    <2>2. CASE x = t
      <3>1. Left(queue'[x], stack'[x]) = Tail(queue[x])
        BY <1>1, <2>2 DEF Left, Looks
      <3>2. /\ HeldOnce(Tail(queue[x]))
            /\ Held(queue[x]) = Held(Tail(queue[x])) \cup Holding(Head(queue[x]))
        BY <2>1, <2>2, Dequeuing
      <3>3. Held(queue[x]) = Held(Tail(queue[x]))
        BY <2>2, <3>2 DEF First
      <3>4. QED BY <2>2, <3>1, <3>2, <3>3
    <2>3. CASE x # t
      BY <1>1, <2>1, <2>3
    <2>4. QED BY <2>2, <2>3
  <1>3. QED BY <1>1, <1>2

LEMMA PeekPostedKept ==
  ASSUME AInv, IInv', NEW t \in Threads, PeekPosted(t)
  PROVE  AInv'
  <1> DEFINE f == [at |-> "proc", msg |-> First(t).msg]
             at == IF Top(t).at = "get" THEN "app" ELSE Top(t).at
             g == [Top(t) EXCEPT !.at = at]
             q == << g >> \o Below(t)
             s == << f >> \o q
  <1>1. /\ queue[t] # << >> /\ First(t).posted
        /\ queue' = Dequeued(t) /\ Top(t).at \in {"get", "pump"}
        /\ UNCHANGED << threadMsg, free, windows, calls >>
        /\ stack' = [stack EXCEPT ![t] = s]
    <2>1. [Top(t) EXCEPT !.at = IF @ = "get" THEN "app" ELSE @] = g
      OBVIOUS
    <2>2. QED BY <2>1 DEF PeekPosted, Finds, Peeks, Becomes
  <1>2. /\ at \in {"app", "pump"}
        /\ \/ at \in Base /\ Top(t).at \in Base
           \/ at \in Sending /\ Top(t).at \in Sending
    BY <1>1 DEF Base, Sending
  <1> HIDE DEF at
  <1>3. /\ At(stack[t], 1).at \notin Looks /\ Left(queue[t], stack[t]) = queue[t]
        /\ stack[t] \in Seq(Frames) /\ Stacked(stack[t]) /\ Fits(stack[t], threadMsg)
    BY <1>1, Peeking, StackFacts
  <1>4. /\ q \in Seq(Frames) /\ q # << >> /\ Head(q).at = at
        /\ Fits(q, threadMsg) /\ Served(q) = Served(stack[t])
        /\ At(q, 1).at \notin Looks
    <2>1. /\ q \in Seq(Frames) /\ q # << >> /\ Head(q).at = at
          /\ Fits(q, threadMsg) /\ Served(q) = Served(stack[t])
          /\ at \in Base => At(q, 1).at = at
          /\ at \notin Base => At(q, 1) = At(stack[t], 1)
      BY <1>2, <1>3, GoingOn DEF Top, Below
    <2> HIDE DEF q
    <2>2. QED BY <1>2, <1>3, <2>1 DEF Looks
  <1> HIDE DEF q
  <1>5. /\ First(t) \in Entries /\ First(t).msg \in Msgs
        /\ First(t) = Posted(First(t).msg) /\ Holding(First(t)) = {}
    <2>1. First(t) \in Entries
      BY <1>1, DequeuedType DEF AInv
    <2>2. First(t).msg \in Msgs /\ First(t) = Posted(First(t).msg)
      BY <1>1, <2>1, Shapes
    <2>3. QED BY <2>1, <2>2, Shapes
  <1>6. f \in Frames /\ f.at = "proc" /\ f.at \notin Sending
    BY <1>5, FrameShapes DEF Sending
  <1> HIDE DEF f
  <1>7. Carries(f, threadMsg) /\ Calling(Head(q), f, threadMsg)
    BY <1>2, <1>4, <1>6 DEF Carries, Calling
  <1>8. ServedBy(f) = {}
    BY <1>6, Shapes
  <1>9. /\ Fits(s, threadMsg) /\ Served(s) = Served(stack[t])
        /\ Head(s).at \notin {"serve", "insert"}
        /\ At(s, 1).at \notin Looks
    <2>1. ServedBy(f) \cap Served(q) = {}
      BY <1>8
    <2>2. /\ Fits(s, threadMsg) /\ Served(s) = Served(q) \cup ServedBy(f)
          /\ At(s, 1) = At(q, 1)
      BY <1>4, <1>6, <1>7, <2>1, Pushing
    <2>3. Head(s) = f
      BY <1>4, <1>6, Pushed
    <2>4. QED BY <1>4, <1>6, <1>8, <2>2, <2>3
  <1> HIDE DEF s
  <1>10. /\ \A x \in Threads \ {t} : queue[x] # << >> => queue'[x] # << >>
         /\ \A x \in Threads :
              /\ HeldOnce(Left(queue'[x], stack'[x]))
              /\ Held(Left(queue'[x], stack'[x])) = Held(Left(queue[x], stack[x]))
    BY <1>1, <1>3, <1>5, <1>9, DequeuedKept
  <1>11. Looking'
    <2>1. At(s, 1).at # "keep" /\ \A x \in Threads : calls[x] = 0 => calls'[x] = 0
      BY <1>1, <1>9 DEF Looks
    <2>2. QED BY <1>1, <1>9, <1>10, <2>1, LookingKept
  <1>12. Top(t).at # "insert"
    BY <1>1
  <1>13. QED BY <1>1, <1>9, <1>10, <1>11, <1>12, Still

\* What t has worked on and kept is removed, and it looks again.
LEMMA KeepNoMoreKept ==
  ASSUME AInv, IInv', NEW t \in Threads, KeepNoMore(t)
  PROVE  AInv'
  <1> DEFINE s == << [Top(t) EXCEPT !.at = "look"] >> \o Below(t)
  <1>1. /\ stack[t] \in Seq(Frames) /\ Stacked(stack[t]) /\ Fits(stack[t], threadMsg)
    BY StackFacts
  <1>2. Top(t).at = "keep" /\ At(stack[t], 1) = Top(t) /\ "look" \in Base
        /\ Top(t).at \in Base
    BY <1>1, Bottom DEF KeepNoMore, Top, Base
  <1>3. /\ UNCHANGED << threadMsg, free, windows, calls >>
        /\ stack' = [stack EXCEPT ![t] = s]
    BY DEF KeepNoMore, Goes, Becomes
  <1>4. /\ Fits(s, threadMsg) /\ Served(s) = Served(stack[t]) /\ Head(s).at = "look"
        /\ At(s, 1).at = "look"
    BY <1>1, <1>2, GoingOn DEF Top, Below
  <1> HIDE DEF s
  <1>5. /\ queue'[t] = Tail(queue[t])
        /\ \A x \in Threads \ {t} : queue'[x] = queue[x]
    <2>1. queue[t] # << >> /\ t \in windows
      BY <1>2, LeftFacts DEF AInv
    <2>2. QED BY <2>1 DEF KeepNoMore, AInv, IInv, Data
  <1>6. ASSUME NEW x \in Threads
        PROVE  /\ HeldOnce(Left(queue'[x], stack'[x]))
               /\ Held(Left(queue'[x], stack'[x])) = Held(Left(queue[x], stack[x]))
    <2>1. Left(queue'[x], stack'[x]) = Left(queue[x], stack[x])
      <3>1. CASE x = t
        <4>1. At(stack'[x], 1).at = "look"
          BY <1>3, <1>4, <3>1 DEF AInv, IInv, Data
        <4>2. QED BY <1>2, <1>5, <3>1, <4>1 DEF Left
      <3>2. CASE x # t
        <4>1. stack'[x] = stack[x]
          BY <1>3, <3>2 DEF AInv, IInv, Data
        <4>2. QED BY <1>5, <3>2, <4>1
      <3>3. QED BY <3>1, <3>2
    <2>2. QED BY <2>1, LeftFacts
  <1>7. Looking'
    <2>1. t \in Peekers
      BY <1>2 DEF AInv, Looking, Looks
    <2>2. /\ At(s, 1).at # "keep" /\ \A x \in Threads : calls[x] = 0 => calls'[x] = 0
          /\ \A x \in Threads \ {t} : queue[x] # << >> => queue'[x] # << >>
      BY <1>3, <1>4, <1>5
    <2>3. QED BY <1>3, <2>1, <2>2, LookingKept
  <1>8. Head(s).at \notin {"serve", "insert"} /\ Top(t).at # "insert"
    BY <1>2, <1>4
  <1>9. QED BY <1>3, <1>4, <1>6, <1>7, <1>8, Still

-----------------------------------------------------------------------------
(* Steps that change blocks, or where they are.                            *)

\* The blocks on a stack are allocated.
LEMMA StackBlocks ==
  ASSUME AInv, NEW x \in Threads, NEW j \in 1 .. Len(stack[x]),
         At(stack[x], j).at \in Sending \cup {"serve"}
  PROVE  LET b == At(stack[x], j).block
         IN  /\ b \in Blocks \ free
             /\ At(stack[x], j).at \in Sending => threadMsg[b].sender = x
  <1> DEFINE f == At(stack[x], j)
  <1>1. f \in Frames /\ Owning(x, stack[x], threadMsg, free)
    BY StackFacts, Popped
  <1>2. CASE f.at \in Sending
    BY <1>1, <1>2, FrameShapes DEF Owning
  <1>3. CASE f.at = "serve"
    <2>1. f.block \in Blocks /\ f = Serving(f.block)
      BY <1>1, <1>3, Shapes
    <2>2. f.block \in Served(stack[x])
      BY <2>1 DEF Served
    <2>3. Awaited(x, f.block)
      BY <2>2, LeftFacts DEF Due
    <2>4. QED BY <1>3, <2>1, <2>3 DEF Awaited, Sending
  <1>4. QED BY <1>2, <1>3

\* A block whose sender is about to insert it is its sender's only.
LEMMA UnsentFacts ==
  ASSUME AInv
  PROVE  /\ Unsent \subseteq Blocks \ free
         /\ \A x \in Threads : Top(x).at = "insert" =>
              /\ Top(x).block \in Blocks \ free /\ threadMsg[Top(x).block].sender = x
              /\ threadMsg[Top(x).block].hwnd = Top(x).hwnd
              /\ threadMsg[Top(x).block].uFlag # 2
  <1>1. ASSUME NEW x \in Threads, Top(x).at = "insert"
        PROVE  /\ Top(x).block \in Blocks \ free
               /\ threadMsg[Top(x).block].sender = x
               /\ threadMsg[Top(x).block].hwnd = Top(x).hwnd
               /\ threadMsg[Top(x).block].uFlag # 2
    <2>1. stack[x] \in Seq(Frames) /\ stack[x] # << >> /\ Fits(stack[x], threadMsg)
      BY StackFacts
    <2>2. /\ At(stack[x], Len(stack[x])) = Top(x)
          /\ Len(stack[x]) \in 1 .. Len(stack[x])
      <3>1. Len(stack[x]) = Len(Tail(stack[x])) + 1 /\ Len(Tail(stack[x])) \in Nat
            /\ At(stack[x], Len(stack[x])) = Head(stack[x])
        BY <2>1, Popped
      <3>2. QED BY <3>1 DEF Top
    <2>3. Top(x).at \in Sending
      BY <1>1 DEF Sending
    <2>4. Carries(Top(x), threadMsg)
      BY <2>1, <2>2 DEF Fits, Carried
    <2>5. /\ Top(x).block \in Blocks \ free
          /\ threadMsg[Top(x).block].sender = x
      BY <2>2, <2>3, StackBlocks
    <2>6. threadMsg[Top(x).block].uFlag # 2
      BY <1>1 DEF AInv, Pending, Unsent
    <2>7. QED BY <2>3, <2>4, <2>5, <2>6 DEF Carries
  <1>2. QED BY <1>1 DEF Unsent

LEMMA StackKept ==
  ASSUME AInv, NEW x \in Threads, NEW tm2,
         \A c \in Blocks \ free :
           /\ tm2[c].msg = threadMsg[c].msg
           /\ threadMsg[c].sender = x => tm2[c].hwnd = threadMsg[c].hwnd
  PROVE  Fits(stack[x], tm2)
  <1>1. stack[x] \in Seq(Frames) /\ Fits(stack[x], threadMsg)
    BY StackFacts
  <1>2. ASSUME NEW j \in 1 .. Len(stack[x])
        PROVE  /\ At(stack[x], j).at \in Sending \cup {"serve"} =>
                    tm2[At(stack[x], j).block].msg
                      = threadMsg[At(stack[x], j).block].msg
               /\ At(stack[x], j).at \in Sending =>
                    tm2[At(stack[x], j).block].hwnd
                      = threadMsg[At(stack[x], j).block].hwnd
    BY StackBlocks
  <1>3. QED BY <1>1, <1>2, FitsKept

\* The stacks after a step of t.
LEMMA AllFit ==
  ASSUME AInv, NEW t \in Threads, NEW s, stack' = [stack EXCEPT ![t] = s],
         Fits(s, threadMsg'), Head(s).at # "serve",
         \A c \in Blocks \ free :
           /\ threadMsg'[c].msg = threadMsg[c].msg
           /\ threadMsg[c].sender # t => threadMsg'[c].hwnd = threadMsg[c].hwnd
  PROVE  /\ Fitting' /\ stack'[t] = s
         /\ \A x \in Threads \ {t} : stack'[x] = stack[x]
  <1>1. /\ stack'[t] = s
        /\ \A x \in Threads \ {t} : stack'[x] = stack[x]
    BY DEF AInv, IInv, Data
  <1>2. ASSUME NEW x \in Threads \ {t}
        PROVE  Fits(stack'[x], threadMsg') /\ Head(stack'[x]).at # "serve"
    <2>1. \A c \in Blocks \ free :
            /\ threadMsg'[c].msg = threadMsg[c].msg
            /\ threadMsg[c].sender = x => threadMsg'[c].hwnd = threadMsg[c].hwnd
      OBVIOUS
    <2>2. Fits(stack[x], threadMsg')
      BY <2>1, StackKept
    <2>3. QED BY <1>1, <2>2, StackFacts DEF Top
  <1>3. \A x \in Threads : Fits(stack'[x], threadMsg') /\ Head(stack'[x]).at # "serve"
    BY <1>1, <1>2
  <1>4. QED BY <1>1, <1>3 DEF Fitting, Top

\* With PM_NOREMOVE or without, the block is no longer among those left.
LEMMA PeekServes ==
  ASSUME AInv, IInv', NEW t \in Threads, PeekSent(t)
  PROVE  AInv'
  <1> DEFINE b == First(t).block
             g == Serving(b)
             at == IF Top(t).at = "look" THEN "keep" ELSE Top(t).at
             r == << [Top(t) EXCEPT !.at = at] >> \o Below(t)
             q == << g >> \o r
             f == [at |-> "proc", msg |-> threadMsg[b].msg]
             s == << f >> \o q
  <1>1. /\ stack[t] \in Seq(Frames) /\ Stacked(stack[t])
        /\ Fits(stack[t], threadMsg) /\ queue[t] \in Seq(Entries)
    BY StackFacts
  <1>2. /\ queue[t] # << >> /\ ~ First(t).posted
        /\ Top(t).at \in {"get", "look", "pump"}
        /\ UNCHANGED << windows, calls >>
    BY DEF PeekSent, Finds, Peeks
  <1>3. /\ At(stack[t], 1).at # "keep" /\ Left(queue[t], stack[t]) = queue[t]
        /\ Top(t).at # "look" => At(stack[t], 1).at \notin Looks
    BY <1>2, Peeking
  <1>4. b \in Blocks /\ First(t) = Sent(b) /\ Holding(First(t)) = {b}
    <2>1. First(t) \in Entries
      BY <1>2, DequeuedType DEF AInv
    <2>2. b \in Blocks /\ First(t) = Sent(b)
      BY <1>2, <2>1, Shapes
    <2> HIDE DEF b
    <2>3. QED BY <2>2, Shapes
  <1> HIDE DEF b
  <1>5. /\ HeldOnce(Tail(queue[t]))
        /\ Held(queue[t]) = Held(Tail(queue[t])) \cup {b}
        /\ b \notin Held(Tail(queue[t]))
    <2>1. HeldOnce(queue[t])
      BY <1>3, LeftFacts
    <2>2. QED BY <1>1, <1>2, <1>4, <2>1, Dequeuing DEF First
  <1>6. Awaited(t, b) /\ b \notin Served(stack[t])
    <2>1. b \in Held(Left(queue[t], stack[t]))
      BY <1>3, <1>5
    <2>2. QED BY <2>1, LeftFacts DEF Due
  <1>7. /\ queue' = IF Top(t).at = "look" THEN queue ELSE Dequeued(t)
        /\ Becomes(t, s) /\ UNCHANGED << threadMsg, free >>
    <2>1. threadMsg[b].hwnd = t /\ windows = Threads
      BY <1>6 DEF Awaited, AInv
    <2>2. [Top(t) EXCEPT !.at = IF @ = "look" THEN "keep" ELSE @]
            = [Top(t) EXCEPT !.at = at]
      OBVIOUS
    <2>3. QED BY <2>1, <2>2 DEF PeekSent, b, Serving
  <1>8. stack' = [stack EXCEPT ![t] = s]
    BY <1>7 DEF Becomes
  <1>9. /\ at \in {"get", "keep", "pump"}
        /\ at = "keep" <=> Top(t).at = "look"
        /\ \/ at \in Base /\ Top(t).at \in Base
           \/ at \in Sending /\ Top(t).at \in Sending
    BY <1>2 DEF Base, Sending
  <1> HIDE DEF at
  <1>10. /\ r \in Seq(Frames) /\ r # << >> /\ Head(r).at = at
         /\ Fits(r, threadMsg) /\ Served(r) = Served(stack[t])
         /\ at \in Base => At(r, 1).at = at
         /\ at \notin Base => At(r, 1) = At(stack[t], 1)
    BY <1>1, <1>9, GoingOn DEF Top, Below
  <1> HIDE DEF r
  <1>11. At(r, 1).at = "keep" <=> Top(t).at = "look"
    <2>1. CASE at \in Base
      BY <1>9, <1>10, <2>1
    <2>2. CASE at \notin Base
      BY <1>3, <1>9, <1>10, <2>2 DEF Base
    <2>3. QED BY <2>1, <2>2
  <1>12. At(r, 1).at \in Looks => Top(t).at = "look"
    <2>1. CASE at \in Base
      BY <1>9, <1>10, <2>1 DEF Looks
    <2>2. CASE at \notin Base
      BY <1>3, <1>9, <1>10, <2>2 DEF Base
    <2>3. QED BY <2>1, <2>2
  <1>13. /\ g \in Frames /\ g.at = "serve" /\ g.at \notin Sending /\ g.block = b
         /\ ServedBy(g) = {b}
    BY <1>4, FrameShapes, Shapes DEF Serving, Sending
  <1>14. f \in Frames /\ f.at = "proc" /\ f.at \notin Sending
    <2>1. threadMsg[b].msg \in Msgs
      BY <1>4 DEF AInv, IInv, Data, Block
    <2>2. QED BY <2>1, FrameShapes DEF Sending
  <1>15. Calling(g, f, threadMsg)
    BY <1>13, <1>14 DEF Calling
  <1> HIDE DEF f, g
  <1>16. /\ q \in Seq(Frames) /\ q # << >> /\ Head(q) = g
         /\ Fits(q, threadMsg) /\ Served(q) = Served(stack[t]) \cup {b}
         /\ At(q, 1) = At(r, 1)
    <2>1. Carries(g, threadMsg) /\ Calling(Head(r), g, threadMsg)
      BY <1>9, <1>10, <1>13 DEF Carries, Calling
    <2>2. ServedBy(g) \cap Served(r) = {}
      BY <1>6, <1>10, <1>13
    <2>3. /\ Fits(q, threadMsg) /\ Served(q) = Served(r) \cup ServedBy(g)
          /\ At(q, 1) = At(r, 1)
      BY <1>10, <1>13, <2>1, <2>2, Pushing
    <2>4. q \in Seq(Frames) /\ q # << >> /\ Head(q) = g
      BY <1>10, <1>13, Pushed
    <2>5. QED BY <1>10, <1>13, <2>3, <2>4
  <1> HIDE DEF q
  <1>17. /\ Fits(s, threadMsg) /\ Served(s) = Served(stack[t]) \cup {b}
         /\ Head(s).at = "proc" /\ At(s, 1) = At(r, 1)
    <2>1. Carries(f, threadMsg) /\ Calling(Head(q), f, threadMsg)
      BY <1>14, <1>15, <1>16 DEF Carries
    <2>2. ServedBy(f) = {}
      BY <1>14, Shapes
    <2>3. /\ Fits(s, threadMsg) /\ Served(s) = Served(q) \cup ServedBy(f)
          /\ At(s, 1) = At(q, 1)
      <3>1. ServedBy(f) \cap Served(q) = {}
        BY <2>2
      <3>2. QED BY <1>14, <1>16, <2>1, <3>1, Pushing
    <2>4. Head(s) = f
      BY <1>14, <1>16, Pushed
    <2>5. QED BY <1>14, <1>16, <2>2, <2>3, <2>4
  <1> HIDE DEF s
  <1>18. /\ Fitting' /\ stack'[t] = s
         /\ \A x \in Threads \ {t} : stack'[x] = stack[x]
    BY <1>7, <1>8, <1>17, AllFit
  <1>19. /\ Left(queue'[t], stack'[t]) = Tail(queue[t])
         /\ \A x \in Threads \ {t} : queue'[x] = queue[x]
    <2>1. CASE Top(t).at = "look"
      <3>1. queue' = queue /\ At(stack'[t], 1).at = "keep"
        BY <1>7, <1>11, <1>17, <1>18, <2>1
      <3>2. QED BY <3>1 DEF Left
    <2>2. CASE Top(t).at # "look"
      <3>1. /\ queue'[t] = Tail(queue[t]) /\ At(stack'[t], 1).at # "keep"
            /\ \A x \in Threads \ {t} : queue'[x] = queue[x]
        BY <1>7, <1>11, <1>17, <1>18, <2>2 DEF Dequeued, AInv, IInv, Data
      <3>2. QED BY <3>1 DEF Left
    <2>3. QED BY <2>1, <2>2
  <1>20. Unsent' = Unsent /\ Pending'
    <2>1. Unsent' = Unsent
      BY <1>2, <1>8, <1>17, UnsentSame
    <2>2. QED BY <1>7, <2>1 DEF AInv, Pending
  <1>21. ASSUME NEW x \in Threads
         PROVE  Keeping(x, Left(queue'[x], stack'[x]), stack'[x], Due(x))
    <2>1. /\ HeldOnce(Left(queue[x], stack[x]))
          /\ Held(Left(queue[x], stack[x])) \cap Served(stack[x]) = {}
          /\ Held(Left(queue[x], stack[x])) \cup Served(stack[x]) \subseteq Due(x)
          /\ x \notin Scarce =>
               Due(x) \subseteq Held(Left(queue[x], stack[x])) \cup Served(stack[x])
      BY LeftFacts
    <2>2. CASE x = t
      <3>1. /\ Left(queue'[x], stack'[x]) = Tail(queue[x])
            /\ Served(stack'[x]) = Served(stack[x]) \cup {b}
            /\ Left(queue[x], stack[x]) = queue[x]
        BY <1>3, <1>17, <1>18, <1>19, <2>2
      <3>2. /\ HeldOnce(Tail(queue[x])) /\ b \notin Held(Tail(queue[x]))
            /\ Held(queue[x]) = Held(Tail(queue[x])) \cup {b}
        BY <1>5, <2>2
      <3>3. QED BY <2>1, <3>1, <3>2 DEF Keeping
    <2>3. CASE x # t
      <3>1. queue'[x] = queue[x] /\ stack'[x] = stack[x]
        BY <1>18, <1>19, <2>3
      <3>2. QED BY <2>1, <3>1 DEF Keeping
    <2>4. QED BY <2>2, <2>3
  <1>22. UnderWay'
    <2>1. \A x \in Threads : Due(x)' = Due(x)
      BY <1>7, <1>20 DEF Due, Awaited
    <2>2. QED BY <1>21, <2>1 DEF UnderWay, Keeping, Left
  <1>23. Looking'
    <2>1. At(s, 1).at \in Looks => t \in Peekers
      <3>1. Top(t).at = "look" => At(stack[t], 1) = Top(t)
        BY <1>1, Bottom DEF Top, Base
      <3>2. Top(t).at = "look" => t \in Peekers
        BY <3>1 DEF AInv, Looking, Looks
      <3>3. QED BY <1>12, <1>17, <3>2
    <2>2. At(s, 1).at = "keep" => queue'[t] # << >>
      BY <1>2, <1>7, <1>11, <1>17
    <2>3. /\ \A x \in Threads : calls[x] = 0 => calls'[x] = 0
          /\ \A x \in Threads \ {t} : queue[x] # << >> => queue'[x] # << >>
      BY <1>2, <1>19
    <2>4. QED BY <1>8, <2>1, <2>2, <2>3, LookingKept
  <1>24. Answered' /\ windows' = Threads
    BY <1>2, <1>7 DEF AInv, Answered
  <1>25. QED BY <1>18, <1>20, <1>22, <1>23, <1>24 DEF AInv

\* A window procedure returns to WinMsg_Peek, which stores its answer.
LEMMA AnswerKept ==
  ASSUME AInv, IInv', NEW t \in Threads, Return(t), Head(Below(t)).at = "serve"
  PROVE  AInv'
  <1> DEFINE q == Below(t)
             b == Head(q).block
             f == [Head(q) EXCEPT !.at = "notify"]
             s == << f >> \o Tail(q)
             r == Answer(t, Top(t).msg)
  <1>1. /\ stack[t] \in Seq(Frames) /\ stack[t] # << >> /\ Top(t) \in Frames
        /\ Fits(stack[t], threadMsg) /\ q \in Seq(Frames)
    BY StackFacts
  <1>2. Top(t).at = "proc" /\ UNCHANGED << free, queue, windows, calls >>
    BY DEF Return
  <1>3. q # << >> /\ Stacked(q)
    <2>1. Stacked(stack[t])
      BY StackFacts
    <2>2. Stacked(q)
      BY <1>2, <2>1, PopOff DEF Top, Below, Base
    <2>3. QED BY <2>2 DEF Stacked
  <1>4. Head(q) \in Frames /\ Tail(q) \in Seq(Frames)
    BY <1>1, <1>3, Popped
  <1>5. b \in Blocks /\ Head(q) = Serving(b) /\ ServedBy(Head(q)) = {b}
    <2>1. Head(q).block \in Blocks /\ Head(q) = Serving(Head(q).block)
      BY <1>4, Shapes
    <2>2. QED BY <2>1, Shapes
  <1>6. /\ stack' = [stack EXCEPT ![t] = s]
        /\ threadMsg' = [threadMsg EXCEPT ![b].lResult = r, ![b].uFlag = 2]
    BY DEF Return, ReturnTo, Becomes, Resumed, Stored
  <1>7. f \in Frames /\ f.at = "notify" /\ f.at \notin Sending
    <2>1. f = [at |-> "notify", block |-> b]
      BY <1>4, FrameShapes
    <2> HIDE DEF f, b
    <2>2. QED BY <1>5, <2>1, FrameShapes DEF Sending
  <1>8. /\ Fits(q, threadMsg) /\ Served(stack[t]) = Served(q)
        /\ Top(t).msg = threadMsg[b].msg /\ At(q, 1) = At(stack[t], 1)
    <2>1. /\ Calling(Head(q), Top(t), threadMsg)
          /\ Fits(q, threadMsg) /\ At(q, 1) = At(stack[t], 1)
          /\ Served(stack[t]) = Served(q) \cup ServedBy(Top(t))
      BY <1>1, <1>3, Popping DEF Top, Below
    <2>2. ServedBy(Top(t)) = {}
      BY <1>1, <1>2, Shapes
    <2>3. Top(t) = [at |-> "proc", msg |-> threadMsg[b].msg]
      BY <2>1 DEF Calling
    <2>4. QED BY <2>1, <2>2, <2>3
  <1> HIDE DEF f, b, q
  <1>9. /\ Fits(s, threadMsg) /\ Served(s) = Served(stack[t]) \ {b}
        /\ At(s, 1) = At(stack[t], 1)
    <2>1. Tail(q) # << >> => Head(Tail(q)).at # "serve"
      <3>1. Head(q).at = "serve"
        BY <1>5 DEF Serving
      <3>2. Tail(q) # << >> => Calling(Head(Tail(q)), Head(q), threadMsg)
        BY <1>1, <1>3, <1>8, Popping
      <3>3. ASSUME Tail(q) # << >>, Head(Tail(q)).at = "serve" PROVE FALSE
        <4>1. Head(q).at = "proc"
          BY <3>2, <3>3 DEF Calling
        <4>2. QED BY <3>1, <4>1
      <3>4. QED BY <3>3
    <2>2. Carries(f, threadMsg)
      BY <1>7 DEF Carries
    <2>3. /\ Fits(s, threadMsg) /\ Served(s) = Served(q) \ ServedBy(Head(q))
          /\ At(s, 1) = IF Tail(q) = << >> THEN f ELSE At(q, 1)
      BY <1>1, <1>3, <1>7, <1>8, <2>1, <2>2, Replacing
    <2>4. Tail(q) # << >>
      <3>1. Head(q).at \notin Base
        BY <1>5 DEF Serving, Base
      <3>2. QED BY <1>3, <3>1, Bottom
    <2>5. QED BY <1>5, <1>8, <2>3, <2>4
  <1>10. s \in Seq(Frames) /\ Head(s) = f
    BY <1>4, <1>7, Pushed
  <1> HIDE DEF s
  <1>11. /\ b \in Served(stack[t]) /\ Awaited(t, b) /\ b \notin Unsent
         /\ b \notin Held(Left(queue[t], stack[t]))
    <2>1. b \in Served(q)
      <3>1. Served(q) = Served(Tail(q)) \cup ServedBy(Head(q))
        BY <1>1, <1>3, <1>8, Popping
      <3>2. QED BY <1>5, <3>1
    <2>2. b \in Served(stack[t])
      BY <1>8, <2>1
    <2>3. b \in Due(t) /\ b \notin Held(Left(queue[t], stack[t]))
      BY <2>2, LeftFacts
    <2>4. QED BY <2>2, <2>3 DEF Due
  <1>12. /\ threadMsg'[b].lResult = r /\ threadMsg'[b].uFlag = 2
         /\ \A c \in Blocks \ {b} : threadMsg'[c] = threadMsg[c]
         /\ \A c \in Blocks : /\ threadMsg'[c].hwnd = threadMsg[c].hwnd
                              /\ threadMsg'[c].msg = threadMsg[c].msg
    <2> HIDE DEF r
    <2>1. \A c \in Blocks : threadMsg[c] \in Block /\ threadMsg \in [Blocks -> Block]
      BY DEF AInv, IInv, Data
    <2>2. threadMsg' = [threadMsg EXCEPT ![b] =
                          [threadMsg[b] EXCEPT !.lResult = r, !.uFlag = 2]]
      BY <1>5, <1>6, <2>1 DEF Block
    <2>3. /\ [threadMsg[b] EXCEPT !.lResult = r, !.uFlag = 2].lResult = r
          /\ [threadMsg[b] EXCEPT !.lResult = r, !.uFlag = 2].uFlag = 2
          /\ [threadMsg[b] EXCEPT !.lResult = r, !.uFlag = 2].hwnd = threadMsg[b].hwnd
          /\ [threadMsg[b] EXCEPT !.lResult = r, !.uFlag = 2].msg = threadMsg[b].msg
      BY <1>5, <2>1 DEF Block
    <2>4. QED BY <1>5, <2>1, <2>2, <2>3
  <1>13. Fits(s, threadMsg')
    <2>1. ASSUME NEW j \in 1 .. Len(s)
          PROVE  /\ At(s, j).at \in Sending \cup {"serve"} =>
                      threadMsg'[At(s, j).block].msg = threadMsg[At(s, j).block].msg
                 /\ At(s, j).at \in Sending =>
                      threadMsg'[At(s, j).block].hwnd = threadMsg[At(s, j).block].hwnd
      <3>1. s # << >>
        BY <1>4, <1>7, Pushed DEF s
      <3>2. At(s, j) \in Frames
        BY <1>10, <3>1, Popped
      <3>3. At(s, j).at \in Sending \cup {"serve"} => At(s, j).block \in Blocks
        BY <3>2, FrameShapes
      <3>4. QED BY <1>12, <3>3
    <2>2. QED BY <1>9, <1>10, <2>1, FitsKept
  <1>14. /\ Fitting' /\ stack'[t] = s
         /\ \A x \in Threads \ {t} : stack'[x] = stack[x]
    BY <1>6, <1>7, <1>10, <1>12, <1>13, AllFit
  <1>15. Answered'
    <2>1. ASSUME NEW c \in Blocks \ free
          PROVE  /\ threadMsg'[c].hwnd \in Threads
                 /\ threadMsg'[c].uFlag = 2 =>
                      threadMsg'[c].lResult = Answer(threadMsg'[c].hwnd, threadMsg'[c].msg)
      <3>1. CASE c = b
        BY <1>8, <1>11, <1>12, <3>1 DEF Awaited
      <3>2. CASE c # b
        BY <1>12, <3>2 DEF AInv, Answered
      <3>3. QED BY <3>1, <3>2
    <2>2. QED BY <1>2, <2>1 DEF Answered
  <1>16. Unsent' = Unsent /\ Pending'
    <2>1. Head(s).at # "insert" /\ Top(t).at # "insert"
      BY <1>2, <1>7, <1>10
    <2>2. Unsent' = Unsent
      BY <1>6, <2>1, UnsentSame
    <2>3. QED BY <1>11, <1>12, <2>2, UnsentFacts DEF AInv, Pending
  <1>17. Looking' /\ \A x \in Threads : Left(queue[x], stack'[x]) = Left(queue[x], stack[x])
    <2>1. \A x \in Threads : At(stack'[x], 1) = At(stack[x], 1)
      BY <1>9, <1>14
    <2>2. QED BY <1>2, <2>1 DEF AInv, Looking, Left
  <1>18. \A x \in Threads : Due(x)' = Due(x) \ {b}
    BY <1>2, <1>12, <1>16 DEF Due, Awaited
  <1>19. ASSUME NEW x \in Threads
         PROVE  Keeping(x, Left(queue[x], stack[x]), stack'[x], Due(x) \ {b})
    <2>1. /\ HeldOnce(Left(queue[x], stack[x]))
          /\ Held(Left(queue[x], stack[x])) \cap Served(stack[x]) = {}
          /\ Held(Left(queue[x], stack[x])) \cup Served(stack[x]) \subseteq Due(x)
          /\ x \notin Scarce =>
               Due(x) \subseteq Held(Left(queue[x], stack[x])) \cup Served(stack[x])
      BY LeftFacts
    <2>2. CASE x = t
      <3>1. Served(stack'[x]) = Served(stack[x]) \ {b}
        BY <1>9, <1>14, <2>2
      <3>2. QED BY <1>11, <2>1, <2>2, <3>1 DEF Keeping
    <2>3. CASE x # t
      <3>1. b \notin Due(x)
        BY <1>11, <2>3 DEF Due, Awaited
      <3>2. stack'[x] = stack[x]
        BY <1>14, <2>3
      <3>3. QED BY <2>1, <3>1, <3>2 DEF Keeping
    <2>4. QED BY <2>2, <2>3
  <1>20. UnderWay'
    BY <1>2, <1>17, <1>18, <1>19 DEF UnderWay, Keeping, Left
  <1>21. QED BY <1>2, <1>14, <1>15, <1>16, <1>17, <1>20 DEF AInv

\* It returns to a message loop, the application's or a sender's.
LEMMA DispatchedKept ==
  ASSUME AInv, IInv', NEW t \in Threads, Return(t), Head(Below(t)).at # "serve"
  PROVE  AInv'
  <1> DEFINE q == Below(t)
  <1>1. /\ stack[t] \in Seq(Frames) /\ stack[t] # << >> /\ Top(t) \in Frames
        /\ Fits(stack[t], threadMsg) /\ q \in Seq(Frames)
        /\ Stacked(stack[t])
    BY StackFacts
  <1>2. /\ Top(t).at = "proc" /\ UNCHANGED << free, queue, windows, calls >>
        /\ UNCHANGED threadMsg /\ stack' = [stack EXCEPT ![t] = Resumed(q)]
    BY DEF Return, ReturnTo, Becomes, Stored
  <1>3. q # << >> /\ Stacked(q) /\ Head(q).at \in Lower
    <2>1. Stacked(q) /\ Head(q).at \in Lower
      BY <1>1, <1>2, PopOff DEF Top, Below, Base
    <2>2. QED BY <2>1 DEF Stacked
  <1>4. /\ Fits(q, threadMsg) /\ Served(stack[t]) = Served(q)
        /\ At(q, 1) = At(stack[t], 1)
    <2>1. /\ Fits(q, threadMsg) /\ At(q, 1) = At(stack[t], 1)
          /\ Served(stack[t]) = Served(q) \cup ServedBy(Top(t))
      BY <1>1, <1>3, Popping DEF Top, Below
    <2>2. ServedBy(Top(t)) = {}
      BY <1>1, <1>2, Shapes
    <2>3. QED BY <2>1, <2>2
  <1> HIDE DEF q
  <1>5. /\ Fits(Resumed(q), threadMsg) /\ Served(Resumed(q)) = Served(stack[t])
        /\ Head(Resumed(q)).at \notin {"serve", "insert"}
        /\ At(Resumed(q), 1) = At(stack[t], 1)
    <2>1. CASE Head(q).at = "pump" /\ threadMsg[Head(q).block].uFlag = 2
      <3> DEFINE n == << [Head(q) EXCEPT !.at = "test"] >> \o Tail(q)
      <3>1. Resumed(q) = n
        BY <2>1 DEF Resumed
      <3>2. "test" \in Sending /\ Head(q).at \in Sending
        BY <2>1 DEF Sending
      <3>3. /\ Fits(n, threadMsg) /\ Served(n) = Served(q) /\ Head(n).at = "test"
            /\ At(n, 1) = At(q, 1)
        BY <1>3, <1>4, <3>2, GoingOn DEF Base
      <3> HIDE DEF n
      <3>4. QED BY <1>4, <3>1, <3>3
    <2>2. CASE ~ (Head(q).at = "pump" /\ threadMsg[Head(q).block].uFlag = 2)
      <3>1. Resumed(q) = q /\ Head(q).at # "serve"
        BY <2>2 DEF Resumed, q
      <3>2. QED BY <1>3, <1>4, <3>1 DEF Lower
    <2>3. QED BY <2>1, <2>2
  <1>6. /\ At(Resumed(q), 1).at \in Looks => t \in Peekers
        /\ At(Resumed(q), 1).at = "keep" <=> At(stack[t], 1).at = "keep"
    BY <1>5 DEF AInv, Looking
  <1>7. Top(t).at # "insert" /\ \A x \in Threads : calls[x] = 0 => calls'[x] = 0
    BY <1>2
  <1>8. QED BY <1>2, <1>5, <1>6, <1>7, QuietStep

\* A sender returns, with the answer.
LEMMA ReleaseKept ==
  ASSUME AInv, IInv', NEW t \in Threads, Top(t).at \in {"test", "wait"},
         Handled(Top(t)), Succeeds(t), UNCHANGED << queue, windows, calls >>
  PROVE  AInv'
  <1> DEFINE b == Top(t).block
             s == Below(t)
  <1>1. /\ stack[t] \in Seq(Frames) /\ stack[t] # << >> /\ Top(t) \in Frames
        /\ Owning(t, stack[t], threadMsg, free)
    BY StackFacts
  <1>2. /\ s \in Seq(Frames) /\ s # << >> /\ Fits(s, threadMsg)
        /\ Served(s) = Served(stack[t]) /\ Head(s).at \in {"app", "proc"}
        /\ At(s, 1) = At(stack[t], 1)
    BY Endings DEF Base, Sending
  <1>3. /\ b \in Blocks \ free /\ threadMsg[b].sender = t
        /\ \A j \in 1 .. Len(s) : At(s, j).at \in Sending => At(s, j).block # b
    <2>1. Top(t).at \in Sending
      BY DEF Sending
    <2>2. b \in Blocks
      BY <1>1, <2>1, FrameShapes
    <2>3. QED BY <1>1, <2>1, <2>2, OwnPop DEF Top, Below
  <1>4. threadMsg[b].uFlag = 2
    BY DEF Handled
  <1>5. /\ stack' = [stack EXCEPT ![t] = s]
        /\ threadMsg' = [threadMsg EXCEPT ![b].hwnd = NoThread]
        /\ free' = free \cup {b}
    BY <1>2 DEF Succeeds, Release, Becomes, Resumed, Stored
  <1> HIDE DEF b, s
  <1>6. /\ \A c \in Blocks \ {b} : threadMsg'[c] = threadMsg[c]
        /\ \A c \in Blocks : /\ threadMsg'[c].msg = threadMsg[c].msg
                             /\ threadMsg'[c].uFlag = threadMsg[c].uFlag
    <2>1. threadMsg \in [Blocks -> Block]
      BY DEF AInv, IInv, Data
    <2>2. threadMsg' = [threadMsg EXCEPT ![b] =
                          [threadMsg[b] EXCEPT !.hwnd = NoThread]]
      BY <1>5
    <2>3. /\ [threadMsg[b] EXCEPT !.hwnd = NoThread].msg = threadMsg[b].msg
          /\ [threadMsg[b] EXCEPT !.hwnd = NoThread].uFlag = threadMsg[b].uFlag
      BY <1>3, <2>1 DEF Block
    <2>4. QED BY <1>3, <2>1, <2>2, <2>3
  <1>7. Fits(s, threadMsg')
    <2>1. ASSUME NEW j \in 1 .. Len(s)
          PROVE  /\ At(s, j).at \in Sending \cup {"serve"} =>
                      threadMsg'[At(s, j).block].msg = threadMsg[At(s, j).block].msg
                 /\ At(s, j).at \in Sending =>
                      threadMsg'[At(s, j).block].hwnd = threadMsg[At(s, j).block].hwnd
      <3>1. At(s, j) \in Frames
        BY <1>2, Popped
      <3>2. At(s, j).at \in Sending \cup {"serve"} => At(s, j).block \in Blocks
        BY <3>1, FrameShapes
      <3>3. QED BY <1>3, <1>6, <3>2
    <2>2. QED BY <1>2, <2>1, FitsKept
  <1>8. \A c \in Blocks \ free :
          threadMsg[c].sender # t => threadMsg'[c].hwnd = threadMsg[c].hwnd
    BY <1>3, <1>6
  <1>9. /\ Fitting' /\ stack'[t] = s
        /\ \A x \in Threads \ {t} : stack'[x] = stack[x]
    BY <1>2, <1>5, <1>6, <1>7, <1>8, AllFit
  <1>10. Answered'
    BY <1>5, <1>6 DEF AInv, Answered
  <1>11. Unsent' = Unsent /\ Pending'
    <2>1. Head(s).at # "insert" /\ Top(t).at # "insert"
      BY <1>2
    <2>2. Unsent' = Unsent
      BY <1>5, <2>1, UnsentSame
    <2>3. QED BY <1>6, <2>2, UnsentFacts DEF AInv, Pending
  <1>12. \A x \in Threads : Due(x)' = Due(x)
    <2>1. ASSUME NEW x \in Threads, NEW c \in Blocks
          PROVE  Awaited(x, c)' <=> Awaited(x, c)
      <3>1. CASE c = b
        BY <1>4, <1>5, <1>6, <3>1 DEF Awaited
      <3>2. CASE c # b
        BY <1>5, <1>6, <3>2 DEF Awaited
      <3>3. QED BY <3>1, <3>2
    <2>2. QED BY <1>11, <2>1 DEF Due
  <1>13. \A x \in Threads :
           At(stack'[x], 1) = At(stack[x], 1) /\ Served(stack'[x]) = Served(stack[x])
    BY <1>2, <1>9
  <1>14. Looking'
    BY <1>13 DEF AInv, Looking
  <1>15. UnderWay'
    <2>1. \A x \in Threads : Left(queue'[x], stack'[x]) = Left(queue[x], stack[x])
      BY <1>13 DEF Left
    <2>2. \A x \in Threads : Keeping(x, Left(queue'[x], stack'[x]), stack'[x], Due(x))
      BY <1>13, <2>1 DEF AInv, UnderWay, Keeping
    <2>3. QED BY <1>12, <2>2 DEF UnderWay, Keeping, Left
  <1>16. QED BY <1>9, <1>10, <1>11, <1>14, <1>15 DEF AInv

LEMMA WaitingKept ==
  ASSUME AInv, IInv', NEW t \in Threads, Test(t) \/ Wake(t)
  PROVE  AInv'
  <1>1. /\ UNCHANGED << queue, windows, calls >>
        /\ Top(t).at \in {"test", "wait"} /\ Top(t).at \in Sending
    BY DEF Test, Wake, Sending
  <1>2. Top(t).hwnd \in windows
    <2>1. Top(t) \in Frames
      BY StackFacts
    <2>2. QED BY <1>1, <2>1, FrameShapes DEF AInv
  <1>3. CASE Handled(Top(t)) /\ Succeeds(t)
    BY <1>1, <1>3, ReleaseKept
  <1>4. CASE /\ Goes(t, "wait") \/ Goes(t, "test") \/ Goes(t, "pump")
             /\ UNCHANGED << threadMsg, free >>
    <2>1. PICK x \in {"wait", "test", "pump"} : Goes(t, x)
      BY <1>4
    <2>2. x \in Sending
      BY <2>1 DEF Sending
    <2>3. QED BY <1>1, <1>4, <2>1, <2>2, Goings
  <1>5. QED BY <1>2, <1>3, <1>4 DEF Test, Wake

LEMMA SendKept ==
  ASSUME AInv, IInv', NEW t \in Threads, NEW u \in Threads, NEW m \in Msgs,
         WinMsg_Send(t, u, m)
  PROVE  AInv'
  <1>1. /\ Top(t).at \in {"app", "proc"} /\ UNCHANGED << queue, windows >>
        /\ MayCall(t) /\ Counts(t)
        /\ CallThreadWindowProc(t, stack[t], u, m)
    BY DEF WinMsg_Send, MayCall
  <1>2. /\ stack[t] \in Seq(Frames) /\ stack[t] # << >>
        /\ Fits(stack[t], threadMsg)
    BY StackFacts
  <1>3. /\ \A x \in Threads : calls[x] = 0 => calls'[x] = 0
        /\ At(stack[t], 1).at \notin Looks
    BY <1>1, Counted
  <1>4. CASE free = {} /\ UNCHANGED free /\ ReturnTo(t, stack[t], << >>)
    <2>1. /\ UNCHANGED threadMsg
          /\ stack' = [stack EXCEPT ![t] = stack[t]]
      BY <1>1, <1>4 DEF ReturnTo, Resumed, Stored, Becomes, Top
    <2>2. Head(stack[t]).at \notin {"serve", "insert"} /\ Top(t).at # "insert"
      BY <1>1 DEF Top
    <2>3. QED BY <1>1, <1>2, <1>3, <1>4, <2>1, <2>2, QuietStep
  <1>5. ASSUME NEW b \in free,
               threadMsg' = [threadMsg EXCEPT ![b] =
                 [hwnd |-> u, msg |-> m, lResult |-> << >>, sender |-> t,
                  uFlag |-> 1]],
               free' = free \ {b},
               Becomes(t, << [at |-> "insert", block |-> b, hwnd |-> u,
                              msg |-> m] >> \o stack[t])
        PROVE  AInv'
    <2> DEFINE f == [at |-> "insert", block |-> b, hwnd |-> u, msg |-> m]
               s == << f >> \o stack[t]
    <2>1. /\ b \in Blocks /\ threadMsg'[b].hwnd = u /\ threadMsg'[b].msg = m
          /\ threadMsg'[b].uFlag = 1
          /\ \A c \in Blocks \ {b} : threadMsg'[c] = threadMsg[c]
      BY <1>5 DEF AInv, IInv, Data
    <2>2. f \in Frames /\ f.at = "insert" /\ Carries(f, threadMsg') /\ f.block = b
      <3>1. f \in Frames
        BY <2>1, FrameShapes
      <3>2. QED BY <2>1, <3>1 DEF Carries
    <2>3. stack' = [stack EXCEPT ![t] = s]
      BY <1>5 DEF Becomes
    <2> HIDE DEF f
    <2>4. \A c \in Blocks \ free :
            threadMsg'[c].msg = threadMsg[c].msg /\ threadMsg'[c].hwnd = threadMsg[c].hwnd
      BY <1>5, <2>1
    <2>5. Fits(stack[t], threadMsg')
      BY <2>4, StackKept
    <2>6. ServedBy(f) = {}
      BY <2>2, Shapes
    <2>7. /\ Fits(s, threadMsg') /\ Served(s) = Served(stack[t]) /\ Head(s) = f
          /\ At(s, 1) = At(stack[t], 1)
      <3>1. Calling(Head(stack[t]), f, threadMsg')
        BY <1>1, <2>2 DEF Calling, Top
      <3>2. ServedBy(f) \cap Served(stack[t]) = {}
        BY <2>6
      <3>3. /\ Fits(s, threadMsg') /\ Served(s) = Served(stack[t]) \cup ServedBy(f)
            /\ At(s, 1) = At(stack[t], 1)
        BY <1>2, <1>3, <2>2, <2>5, <3>1, <3>2, Pushing
      <3>4. Head(s) = f
        BY <1>2, <2>2, Pushed
      <3>5. QED BY <2>6, <3>3, <3>4
    <2> HIDE DEF s
    <2>8. /\ Fitting' /\ stack'[t] = s
          /\ \A x \in Threads \ {t} : stack'[x] = stack[x]
      BY <2>2, <2>3, <2>4, <2>7, AllFit
    <2>9. Answered'
      BY <1>5, <2>1 DEF AInv, Answered
    <2>10. \A x \in Threads :
             Served(stack'[x]) = Served(stack[x]) /\ At(stack'[x], 1) = At(stack[x], 1)
      BY <2>7, <2>8
    <2>11. Unsent' = Unsent \cup {b}
      <3>1. /\ Top(t)'.at = "insert" /\ Top(t)'.block = b /\ Top(t).at # "insert"
            /\ \A x \in Threads \ {t} : Top(x)' = Top(x)
        BY <1>1, <2>2, <2>7, <2>8 DEF Top
      <3>2. ASSUME NEW c \in Unsent PROVE c \in Unsent'
        BY <3>1 DEF Unsent
      <3>3. ASSUME NEW c \in Unsent' PROVE c \in Unsent \cup {b}
        BY <3>1 DEF Unsent
      <3>4. b \in Unsent'
        BY <3>1 DEF Unsent
      <3>5. QED BY <3>2, <3>3, <3>4
    <2>12. Pending'
      BY <1>5, <2>1, <2>11, UnsentFacts DEF AInv, Pending
    <2>13. ASSUME NEW x \in Threads PROVE Due(x)' = Due(x)
      <3>1. ASSUME NEW c \in Blocks
            PROVE  Awaited(x, c)' /\ c \notin Unsent \cup {b}
                     <=> Awaited(x, c) /\ c \notin Unsent
        BY <1>5, <2>1 DEF Awaited
      <3>2. QED BY <2>11, <3>1 DEF Due
    <2>14. Looking'
      BY <1>1, <1>3, <2>10 DEF AInv, Looking
    <2>15. UnderWay'
      <3>1. \A x \in Threads : Left(queue'[x], stack'[x]) = Left(queue[x], stack[x])
        BY <1>1, <2>10 DEF Left
      <3>2. \A x \in Threads : Keeping(x, Left(queue'[x], stack'[x]), stack'[x], Due(x))
        BY <2>10, <3>1 DEF AInv, UnderWay, Keeping
      <3>3. QED BY <2>13, <3>2 DEF UnderWay, Keeping, Left
    <2>16. QED BY <1>1, <2>8, <2>9, <2>12, <2>14, <2>15 DEF AInv
  <1>6. QED BY <1>1, <1>4, <1>5 DEF CallThreadWindowProc

\* The block gets into the queue of the window's thread, unless that finds no
\* memory.
LEMMA InsertKept ==
  ASSUME AInv, IInv', NEW t \in Threads, Insert(t)
  PROVE  AInv'
  <1> DEFINE b == Top(t).block
             u == Top(t).hwnd
             e == Sent(b)
  <1>1. /\ Top(t).at = "insert" /\ Top(t).at \in Sending
        /\ UNCHANGED << threadMsg, free, windows, calls >>
    BY DEF Insert, Sending
  <1>2. /\ b \in Blocks \ free /\ threadMsg[b].sender = t
        /\ threadMsg[b].hwnd = u /\ threadMsg[b].uFlag # 2
    BY <1>1, UnsentFacts
  <1>3. u \in Threads /\ u \in windows
    <2>1. Top(t) \in Frames
      BY StackFacts
    <2>2. QED BY <1>1, <2>1, FrameShapes DEF AInv
  <1>4. /\ \/ queue' = [queue EXCEPT ![u] = Append(@, e)]
           \/ u \in Scarce /\ queue' = queue
        /\ Goes(t, "raise") \/ Goes(t, "test")
    BY <1>3 DEF Insert, AddMsgToThreadQueue
  <1> HIDE DEF b, u
  <1>5. e \in Entries /\ Holding(e) = {b}
    BY <1>2, QueueTypes, Shapes
  <1> HIDE DEF e
  <1>6. PICK x \in {"raise", "test"} : Goes(t, x)
    BY <1>4
  <1> DEFINE s == << [Top(t) EXCEPT !.at = x] >> \o Below(t)
  <1>7. /\ stack[t] \in Seq(Frames) /\ Stacked(stack[t]) /\ Fits(stack[t], threadMsg)
        /\ x \in Sending /\ x \notin Base
    BY <1>6, StackFacts DEF Sending, Base
  <1>8. /\ Fits(s, threadMsg) /\ Served(s) = Served(stack[t]) /\ Head(s).at = x
        /\ At(s, 1) = At(stack[t], 1)
    BY <1>1, <1>7, GoingOn DEF Top, Below
  <1>9. stack' = [stack EXCEPT ![t] = s]
    BY <1>6 DEF Goes, Becomes
  <1> HIDE DEF s
  <1>10. /\ Fitting' /\ stack'[t] = s
         /\ \A y \in Threads \ {t} : stack'[y] = stack[y]
    BY <1>1, <1>6, <1>8, <1>9, AllFit
  <1>11. \A y \in Threads :
           Served(stack'[y]) = Served(stack[y]) /\ At(stack'[y], 1) = At(stack[y], 1)
    BY <1>8, <1>10
  <1>12. Unsent' = Unsent \ {b} /\ b \in Unsent
    <2>1. /\ Top(t)'.at # "insert"
          /\ \A y \in Threads \ {t} : Top(y)' = Top(y)
      BY <1>6, <1>8, <1>10 DEF Top
    <2>2. ASSUME NEW y \in Threads \ {t}, Top(y).at = "insert" PROVE Top(y).block # b
      <3>1. threadMsg[Top(y).block].sender = y
        BY <2>2, UnsentFacts
      <3>2. QED BY <1>2, <3>1
    <2>3. ASSUME NEW c \in Unsent, c # b PROVE c \in Unsent'
      <3>1. PICK y \in Threads : Top(y).at = "insert" /\ Top(y).block = c
        BY <2>3 DEF Unsent
      <3>2. y # t
        BY <2>3, <3>1 DEF b
      <3>3. QED BY <2>1, <3>1, <3>2 DEF Unsent
    <2>4. ASSUME NEW c \in Unsent' PROVE c \in Unsent /\ c # b
      <3>1. PICK y \in Threads : Top(y)'.at = "insert" /\ Top(y)'.block = c
        BY <2>4 DEF Unsent
      <3>2. y # t /\ Top(y)' = Top(y)
        BY <2>1, <3>1
      <3>3. QED BY <2>2, <3>1, <3>2 DEF Unsent
    <2>5. b \in Unsent
      BY <1>1 DEF Unsent, b
    <2>6. QED BY <2>3, <2>4, <2>5
  <1>13. Pending'
    BY <1>1, <1>12 DEF AInv, Pending
  <1>14. Answered'
    BY <1>1 DEF AInv, Answered
  <1>15. ASSUME NEW y \in Threads
         PROVE  Due(y)' = Due(y) \cup (IF y = u THEN {b} ELSE {}) /\ b \notin Due(y)
    <2>1. Awaited(y, b) <=> y = u
      BY <1>2 DEF Awaited
    <2>2. \A c \in Blocks : Awaited(y, c)' <=> Awaited(y, c)
      BY <1>1 DEF Awaited
    <2>3. QED BY <1>2, <1>12, <2>1, <2>2 DEF Due
  <1>16. ASSUME NEW y \in Threads
         PROVE  /\ Keeping(y, Left(queue'[y], stack[y]), stack[y],
                           Due(y) \cup (IF y = u THEN {b} ELSE {}))
                /\ queue[y] # << >> => queue'[y] # << >>
    <2> DEFINE q == Left(queue[y], stack[y])
    <2>1. /\ q \in Seq(Entries) /\ HeldOnce(q) /\ queue[y] \in Seq(Entries)
          /\ Held(q) \cap Served(stack[y]) = {}
          /\ Held(q) \cup Served(stack[y]) \subseteq Due(y)
          /\ y \notin Scarce => Due(y) \subseteq Held(q) \cup Served(stack[y])
          /\ At(stack[y], 1).at = "keep" => queue[y] # << >>
      BY StackFacts, LeftFacts
    <2>2. b \notin Held(q) /\ b \notin Served(stack[y])
      BY <1>15, <2>1
    <2>3. CASE y = u /\ queue' = [queue EXCEPT ![u] = Append(@, e)]
      <3>1. queue'[y] = Append(queue[y], e)
        BY <1>3, <2>3 DEF AInv, IInv, Data
      <3>2. Left(queue'[y], stack[y]) = Append(q, e)
        BY <1>5, <2>1, <3>1, LeftAppend
      <3>3. HeldOnce(Append(q, e)) /\ Held(Append(q, e)) = Held(q) \cup {b}
        BY <1>5, <2>1, <2>2, Queueing
      <3>4. Append(queue[y], e) # << >>
        <4>1. Len(Append(queue[y], e)) = Len(queue[y]) + 1 /\ Len(queue[y]) \in Nat
          BY <1>5, <2>1
        <4>2. Len(<< >>) = 0
          OBVIOUS
        <4>3. QED BY <4>1, <4>2
      <3> HIDE DEF q
      <3>5. QED BY <2>1, <2>2, <2>3, <3>1, <3>2, <3>3, <3>4 DEF Keeping
    <2>4. CASE y = u /\ u \in Scarce /\ queue' = queue
      BY <2>1, <2>2, <2>4 DEF Keeping
    <2>5. CASE y # u
      <3>1. queue'[y] = queue[y]
        BY <1>4, <2>5 DEF AInv, IInv, Data
      <3>2. QED BY <2>1, <2>5, <3>1 DEF Keeping
    <2>6. QED BY <1>4, <2>3, <2>4, <2>5
  <1>17. UnderWay'
    <2>1. \A y \in Threads : Left(queue'[y], stack'[y]) = Left(queue'[y], stack[y])
      BY <1>11 DEF Left
    <2>2. \A y \in Threads : Keeping(y, Left(queue'[y], stack'[y]), stack'[y], Due(y)')
      BY <1>11, <1>15, <1>16, <2>1 DEF Keeping
    <2>3. QED BY <2>2 DEF UnderWay, Keeping, Left
  <1>18. Looking'
    BY <1>1, <1>11, <1>16 DEF AInv, Looking
  <1>19. QED BY <1>1, <1>10, <1>13, <1>14, <1>17, <1>18 DEF AInv

LEMMA AInitHolds ==
  ASSUME Init, \A t \in Peekers : Calls[t] = 0
  PROVE  AInv
  <1>1. IInv /\ windows = Threads
    BY InitHolds DEF Init
  <1>2. Answered
    BY DEF Init, Answered
  <1>3. ASSUME NEW t \in Threads
        PROVE  /\ Fits(stack[t], threadMsg) /\ Top(t).at = "app"
               /\ At(stack[t], 1).at = "app" /\ queue[t] = << >>
               /\ HeldOnce(queue[t]) /\ Held(queue[t]) = {} /\ Served(stack[t]) = {}
    <2> DEFINE f == [at |-> "app"]
               s == << f >>
    <2>1. /\ stack[t] = s /\ queue[t] = << >>
          /\ f \in Frames /\ f.at = "app" /\ f.at \notin Sending
      BY FrameShapes DEF Init, Sending
    <2> HIDE DEF f
    <2>2. Len(s) = 1 /\ s[1] = f /\ Head(s) = f
      BY <2>1
    <2>3. /\ \A j \in 1 .. Len(s) : j = 1 /\ At(s, j) = f
          /\ At(s, 1) = f
      BY <2>2 DEF At
    <2> HIDE DEF s
    <2>4. \A b \in Blocks : f # Serving(b)
      BY <2>1, Shapes DEF Serving
    <2>5. Served(s) = {} /\ ServedOnce(s)
      BY <2>3, <2>4 DEF Served, ServedOnce
    <2>6. Linked(s, threadMsg)
      <3>1. \A i, j \in 1 .. Len(s) : j # i + 1
        BY <2>2
      <3>2. QED BY <3>1 DEF Linked
    <2>7. Carried(s, threadMsg) /\ Calm(s)
      BY <2>1, <2>3 DEF Carried, Carries, Calm
    <2>8. HeldOnce(queue[t]) /\ Held(queue[t]) = {}
      <3>1. 1 .. Len(queue[t]) = {}
        BY <2>1
      <3>2. QED BY <3>1 DEF HeldOnce, Held
    <2>9. QED BY <2>1, <2>2, <2>3, <2>5, <2>6, <2>7, <2>8 DEF Fits, Top
  <1>4. Fitting
    BY <1>3 DEF Fitting
  <1>5. UnderWay
    <2>1. \A t \in Threads : Due(t) = {}
      BY DEF Init, Due, Awaited
    <2>2. \A t \in Threads : Left(queue[t], stack[t]) = queue[t]
      BY <1>3 DEF Left
    <2>3. QED BY <1>3, <2>1, <2>2 DEF UnderWay, Keeping
  <1>6. Looking
    <2>1. \A t \in Threads : t \in Peekers => calls[t] = 0
      BY DEF Init
    <2>2. \A t \in Threads : At(stack[t], 1).at \notin Looks /\ At(stack[t], 1).at # "keep"
      BY <1>3 DEF Looks
    <2>3. QED BY <2>1, <2>2 DEF Looking
  <1>7. Pending
    BY <1>3 DEF Pending, Unsent
  <1>8. QED BY <1>1, <1>2, <1>4, <1>5, <1>6, <1>7 DEF AInv

LEMMA ANextHolds ==
  ASSUME Timed = {}, Mortal = {}, AInv, [Next]_vars
  PROVE  AInv'
  <1>1. IInv'
    BY NextHolds DEF AInv
  <1>2. ASSUME NEW t \in Threads, Step(t) PROVE AInv'
    <2>1. CASE Return(t)
      BY <1>1, <2>1, AnswerKept, DispatchedKept
    <2>2. ~ PeekDead(t)
      BY DEF PeekDead, AInv
    <2>3. CASE Peek(t)
      BY <1>1, <2>2, <2>3, LoopKept, PeekPostedKept, PeekServes, KeepNoMoreKept
         DEF Peek
    <2>4. CASE Insert(t) \/ Signal(t) \/ GetMessage(t) \/ PeekMessage(t) \/ Notify(t)
               \/ WinMsg_Wait(t) \/ Test(t) \/ Wake(t)
      BY <1>1, <2>4, InsertKept, WokenKept, LoopKept, WaitingKept
    <2>5. QED BY <1>2, <2>1, <2>3, <2>4 DEF Step
  <1>3. ASSUME NEW t \in Threads, DestroyWindow(t) \/ TimesOut(t) PROVE AInv'
    BY <1>3 DEF DestroyWindow, TimesOut
  <1>4. ASSUME NEW t \in Threads, NEW u \in Threads, NEW m \in Msgs,
               WinMsg_Send(t, u, m) \/ WinMsg_Post(t, u, m)
        PROVE  AInv'
    BY <1>1, <1>4, SendKept, PostKept
  <1>5. CASE UNCHANGED vars
    <2>1. UNCHANGED << threadMsg, free, queue, windows, stack, calls >>
      BY <1>5 DEF vars
    <2>2. Answered'
      BY <2>1 DEF AInv, Answered
    <2>3. Fitting'
      BY <2>1 DEF AInv, Fitting, Top
    <2>4. Unsent' = Unsent
      BY <2>1 DEF Unsent, Top
    <2>5. UnderWay'
      <3>1. \A x \in Threads : Due(x)' = Due(x)
        BY <2>1, <2>4 DEF Due, Awaited
      <3>2. QED BY <2>1, <3>1 DEF AInv, UnderWay, Keeping, Left
    <2>6. Looking' /\ Pending'
      BY <2>1, <2>4 DEF AInv, Looking, Pending
    <2>7. QED BY <1>1, <2>1, <2>2, <2>3, <2>5, <2>6 DEF AInv
  <1>6. QED BY <1>2, <1>3, <1>4, <1>5 DEF Next

-----------------------------------------------------------------------------
(* Where a block is.                                                       *)

\* The index of the one frame of a stack that serves b.
LEMMA ServedIndex ==
  ASSUME NEW s \in Seq(Frames), ServedOnce(s), NEW b \in Blocks
  PROVE  LET I == {i \in DOMAIN s : s[i] = [at |-> "serve", block |-> b]}
         IN  /\ b \in Served(s) => \E i : I = {i}
             /\ b \notin Served(s) => I = {}
  <1> DEFINE I == {i \in DOMAIN s : s[i] = [at |-> "serve", block |-> b]}
  <1>1. Len(s) \in Nat /\ DOMAIN s = 1 .. Len(s)
    OBVIOUS
  <1>2. \A i \in 1 .. Len(s) : /\ Len(s) + 1 - i \in 1 .. Len(s)
                               /\ At(s, Len(s) + 1 - i) = s[i]
    BY <1>1 DEF At
  <1>3. \A i \in I : Len(s) + 1 - i \in 1 .. Len(s)
                     /\ At(s, Len(s) + 1 - i) = Serving(b) /\ i \in 1 .. Len(s)
    BY <1>1, <1>2 DEF Serving
  <1>4. ASSUME b \notin Served(s), NEW i \in I PROVE FALSE
    BY <1>3, <1>4 DEF Served
  <1>5. ASSUME b \in Served(s) PROVE \E i : I = {i}
    <2>1. PICK j \in 1 .. Len(s) : At(s, j) = Serving(b)
      BY <1>5 DEF Served
    <2>2. Len(s) + 1 - j \in I
      <3>1. Len(s) + 1 - j \in 1 .. Len(s)
        BY <1>1
      <3>2. QED BY <1>1, <2>1, <3>1 DEF At, Serving
    <2>3. ASSUME NEW i \in I PROVE i = Len(s) + 1 - j
      <3>1. Len(s) + 1 - i = j
        BY <1>3, <2>1 DEF ServedOnce
      <3>2. i \in 1 .. Len(s)
        BY <1>3
      <3>3. QED BY <1>1, <3>1, <3>2
    <2>4. I = {Len(s) + 1 - j}
      BY <2>2, <2>3
    <2>5. QED BY <2>4
  <1>6. QED BY <1>4, <1>5

LEMMA HeldIndex ==
  ASSUME NEW q \in Seq(Entries), HeldOnce(q), NEW b \in Blocks
  PROVE  LET I == {i \in DOMAIN q : q[i] = Sent(b)}
         IN  /\ b \in Held(q) => \E i : I = {i}
             /\ b \notin Held(q) => I = {}
  <1> DEFINE I == {i \in DOMAIN q : q[i] = Sent(b)}
  <1>1. DOMAIN q = 1 .. Len(q)
    OBVIOUS
  <1>2. ASSUME b \notin Held(q), NEW i \in I PROVE FALSE
    BY <1>1, <1>2 DEF Held
  <1>3. ASSUME b \in Held(q) PROVE \E i : I = {i}
    <2>1. PICK j \in 1 .. Len(q) : q[j] = Sent(b)
      BY <1>3 DEF Held
    <2>2. I = {j}
      BY <1>1, <2>1 DEF HeldOnce
    <2>3. QED BY <2>2
  <1>4. QED BY <1>2, <1>3

\* It is in one place as long as it is awaited, unless there is no memory for it,
\* and then in none.
LEMMA OnePlace ==
  ASSUME AInv, NEW b \in Blocks \ free
  PROVE  IF threadMsg[b].uFlag = 2
         THEN Places(b) = {}
         ELSE \/ \E p : Places(b) = {p}
              \/ Places(b) = {} /\ threadMsg[b].hwnd \in Scarce
  <1> DEFINE P(x) == {j \in {1} : Top(x).at = "insert" /\ Top(x).block = b}
             Q(x) == {i \in DOMAIN Rest(x) : Rest(x)[i] = Sent(b)}
             S(x) == {i \in DOMAIN stack[x] :
                        stack[x][i] = [at |-> "serve", block |-> b]}
             h == threadMsg[b].hwnd
  <1>1. \A p : p \in Places(b) <=>
          \E x \in Threads : \/ \E i \in P(x) : p = << x, "sender", i >>
                             \/ \E i \in Q(x) : p = << x, "queue", i >>
                             \/ \E i \in S(x) : p = << x, "stack", i >>
    BY DEF Places
  <1>2. h \in Threads
    BY DEF AInv, Answered
  <1>3. ASSUME NEW x \in Threads
        PROVE  /\ b \in Due(x) /\ x \notin Scarce => Q(x) # {} \/ S(x) # {}
               /\ Q(x) = {} \/ S(x) = {}
               /\ Q(x) # {} \/ S(x) # {} => b \in Due(x)
               /\ Q(x) # {} => \E i : Q(x) = {i}
               /\ S(x) # {} => \E i : S(x) = {i}
    <2> DEFINE q == Left(queue[x], stack[x])
    <2>1. Rest(x) = q
      <3>1. Len(stack[x]) + 1 - 1 = Len(stack[x])
        BY StackFacts
      <3>2. QED BY <3>1 DEF Rest, Left, At
    <2>2. /\ ServedOnce(stack[x]) /\ stack[x] \in Seq(Frames)
          /\ q \in Seq(Entries) /\ HeldOnce(q)
          /\ Held(q) \cap Served(stack[x]) = {}
          /\ Held(q) \cup Served(stack[x]) \subseteq Due(x)
          /\ x \notin Scarce => Due(x) \subseteq Held(q) \cup Served(stack[x])
      BY StackFacts, LeftFacts DEF Fits
    <2> HIDE DEF q
    <2>3. /\ b \in Held(q) => \E i : Q(x) = {i}
          /\ b \notin Held(q) => Q(x) = {}
      BY <2>1, <2>2, HeldIndex
    <2>4. /\ b \in Served(stack[x]) => \E i : S(x) = {i}
          /\ b \notin Served(stack[x]) => S(x) = {}
      BY <2>2, ServedIndex
    <2> HIDE DEF Q, S
    <2>5. QED BY <2>2, <2>3, <2>4
  <1>4. ASSUME NEW x \in Threads
        PROVE  /\ P(x) # {} => /\ b \in Unsent /\ threadMsg[b].sender = x
                               /\ threadMsg[b].uFlag # 2 /\ P(x) = {1}
    <2>1. ASSUME P(x) # {} PROVE Top(x).at = "insert" /\ Top(x).block = b /\ P(x) = {1}
      BY <2>1
    <2> HIDE DEF P
    <2>2. QED BY <2>1, UnsentFacts DEF Unsent
  <1>5. b \in Unsent => \E x \in Threads : P(x) # {}
    BY DEF Unsent
  <1>6. \A x \in Threads : b \in Due(x) <=>
          threadMsg[b].uFlag # 2 /\ x = h /\ b \notin Unsent
    BY DEF Due, Awaited
  <1> HIDE DEF P, Q, S, h
  <1>7. CASE threadMsg[b].uFlag = 2
    <2>1. \A x \in Threads : P(x) = {} /\ Q(x) = {} /\ S(x) = {}
      BY <1>3, <1>4, <1>6, <1>7
    <2>2. QED BY <1>1, <1>7, <2>1
  <1>8. CASE threadMsg[b].uFlag # 2 /\ b \in Unsent
    <2>1. PICK x \in Threads : P(x) # {}
      BY <1>5, <1>8
    <2>2. P(x) = {1} /\ \A y \in Threads \ {x} : P(y) = {}
      BY <1>4, <2>1
    <2>3. \A y \in Threads : Q(y) = {} /\ S(y) = {}
      BY <1>3, <1>6, <1>8
    <2>4. Places(b) = {<< x, "sender", 1 >>}
      BY <1>1, <2>2, <2>3
    <2>5. QED BY <1>8, <2>4
  <1>9. CASE threadMsg[b].uFlag # 2 /\ b \notin Unsent
    <2>1. \A x \in Threads : P(x) = {}
      BY <1>4, <1>9
    <2>2. \A x \in Threads \ {h} : Q(x) = {} /\ S(x) = {}
      BY <1>3, <1>6
    <2>3. CASE Q(h) # {}
      <3>1. PICK i : Q(h) = {i}
        BY <1>2, <1>3, <2>3
      <3>2. S(h) = {}
        BY <1>2, <1>3, <2>3
      <3>3. Places(b) = {<< h, "queue", i >>}
        BY <1>1, <1>2, <2>1, <2>2, <3>1, <3>2
      <3>4. QED BY <1>9, <3>3
    <2>4. CASE S(h) # {}
      <3>1. PICK i : S(h) = {i}
        BY <1>2, <1>3, <2>4
      <3>2. Q(h) = {}
        BY <1>2, <1>3, <2>4
      <3>3. Places(b) = {<< h, "stack", i >>}
        BY <1>1, <1>2, <2>1, <2>2, <3>1, <3>2
      <3>4. QED BY <1>9, <3>3
    <2>5. CASE Q(h) = {} /\ S(h) = {}
      <3>1. Places(b) = {}
        BY <1>1, <2>1, <2>2, <2>5
      <3>2. h \in Scarce
        BY <1>2, <1>3, <1>6, <1>9, <2>5
      <3>3. QED BY <1>9, <3>1, <3>2 DEF h
    <2>6. QED BY <2>3, <2>4, <2>5
  <1>10. QED BY <1>7, <1>8, <1>9

\* A sender's block is allocated, and has what it has sent.
LEMMA SenderFacts ==
  ASSUME AInv, NEW t \in Threads, NEW f \in SendFrames(t)
  PROVE  /\ f.block \in Blocks \ free
         /\ threadMsg[f.block].hwnd = f.hwnd /\ threadMsg[f.block].msg = f.msg
  <1>1. stack[t] \in Seq(Frames) /\ Fits(stack[t], threadMsg)
    BY StackFacts
  <1>2. PICK i \in DOMAIN stack[t] : f = stack[t][i] /\ f.at \in Sending
    BY DEF SendFrames
  <1>3. PICK j \in 1 .. Len(stack[t]) : f = At(stack[t], j)
    <2>1. Len(stack[t]) + 1 - i \in 1 .. Len(stack[t])
          /\ Len(stack[t]) + 1 - (Len(stack[t]) + 1 - i) = i
      BY <1>1
    <2>2. QED BY <1>2, <2>1 DEF At
  <1>4. f.block \in Blocks \ free
    BY <1>2, <1>3, StackBlocks
  <1>5. Carries(f, threadMsg)
    BY <1>1, <1>3 DEF Fits, Carried
  <1>6. QED BY <1>2, <1>4, <1>5 DEF Carries

LEMMA AInvImplies == AInv => AnswerValid /\ HandledOnce
  <1> SUFFICES ASSUME AInv, NEW t \in Threads, NEW f \in SendFrames(t)
               PROVE  /\ Handled(f) =>
                           threadMsg[f.block].lResult = Answer(f.hwnd, f.msg)
                      /\ LET n == Cardinality(Places(f.block))
                         IN  IF Handled(f)
                             THEN n = 0
                             ELSE n = 1 \/ (n = 0 /\ f.hwnd \in Scarce)
    BY DEF AnswerValid, HandledOnce
  <1>1. /\ f.block \in Blocks \ free
        /\ threadMsg[f.block].hwnd = f.hwnd /\ threadMsg[f.block].msg = f.msg
    BY SenderFacts
  <1>2. Handled(f) => threadMsg[f.block].lResult = Answer(f.hwnd, f.msg)
    BY <1>1 DEF Handled, AInv, Answered
  <1>3. IF Handled(f)
        THEN Places(f.block) = {}
        ELSE \/ \E p : Places(f.block) = {p}
             \/ Places(f.block) = {} /\ f.hwnd \in Scarce
    BY <1>1, OnePlace DEF Handled
  <1>4. Cardinality({}) = 0 /\ \A p : Cardinality({p}) = 1
    BY FS_EmptySet, FS_Singleton
  <1>5. QED BY <1>2, <1>3, <1>4

-----------------------------------------------------------------------------
(* The theorems.                                                           *)

THEOREM AnswerInvariance ==
  ASSUME Timed = {}, Mortal = {}, \A t \in Peekers : Calls[t] = 0
  PROVE  Spec => []AInv
  <1>1. Init => AInv
    BY AInitHolds
  <1>2. AInv /\ [Next]_vars => AInv'
    BY ANextHolds
  <1>3. QED BY <1>1, <1>2, PTL DEF Spec

\* Where everybody waits for the answer, and modal dialogs do not send, a sender
\* that finds uFlag = 2 has the answer of the window to its own message,
\* whatever it did in between.
THEOREM AnswersAreValid ==
  ASSUME Timed = {}, Mortal = {}, \A t \in Peekers : Calls[t] = 0
  PROVE  Spec => []AnswerValid
  <1>1. AInv => AnswerValid
    BY AInvImplies
  <1>2. QED BY <1>1, AnswerInvariance, PTL

\* Where everybody waits for the answer, and modal dialogs do not send, what is
\* sent is with its sender, in one queue or with one thread until it is answered
\* - or nowhere, if the thread of the window had no memory for it - and with
\* none afterwards, although a look with PM_NOREMOVE handles it in the queue.
THEOREM SentIsHandledOnce ==
  ASSUME Timed = {}, Mortal = {}, \A t \in Peekers : Calls[t] = 0
  PROVE  Spec => []HandledOnce
  <1>1. AInv => HandledOnce
    BY AInvImplies
  <1>2. QED BY <1>1, AnswerInvariance, PTL
=============================================================================
