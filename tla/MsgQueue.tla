------------------------------ MODULE MsgQueue ------------------------------
(***************************************************************************)
(* The message queue of a thread (os/gwme_drv/gwme/msgqueue.c): a ring     *)
(* that grows, from which filtered reads take messages out of the middle   *)
(* and the messages of dead windows fall out on the way; the threads that  *)
(* post to it, and its thread, which reads and sleeps (message.c).  Every  *)
(* operation on the ring holds csThreadQueue, so it is one step.           *)
(***************************************************************************)
EXTENDS Integers, Sequences, FiniteSets, Subsequence

CONSTANTS
  Windows, NoWindow, Invalid,  \* handles, NULL, INVALID_HANDLE_VALUE
  ChildOf,          \* [Windows -> Windows \cup {NoWindow}]: the parent
  Kinds, WM_PAINT,  \* values of MSG.message
  Writers,          \* threads that post
  Posts,            \* [Writers -> SUBSET Message]: what each one posts ...
  OnlyOnes,         \* ... and what it posts with ATQ_ONLYONE
  Filters,          \* [hwnd, kinds]: what the reader asks for
  Clears,           \* [hwnd, kinds]: what is cleared together
  InitSize, Growth, \* both 8 in the code
  MaxSize           \* bound: no memory for a longer ring

Handles == Windows \cup {NoWindow}
Message == [hwnd : Handles, message : Kinds]
Slot == [hwnd : Handles \cup {Invalid}, message : Kinds]

\* A filter with no window and all kinds does not filter.
Any == [hwnd |-> NoWindow, kinds |-> Kinds]

ASSUME MsgQueueAssumption ==
  /\ NoWindow \notin Windows /\ Invalid \notin Handles
  /\ ChildOf \in [Windows -> Handles]
  /\ WM_PAINT \in Kinds
  /\ Filters \cup Clears \cup {Any} \subseteq [hwnd : Handles,
                                             kinds : SUBSET Kinds]
  /\ Posts \in [Writers -> SUBSET Message]
  /\ OnlyOnes \in [Writers -> SUBSET [hwnd : Windows, message : Kinds]]
  /\ InitSize \in Nat \ {0} /\ Growth \in Nat \ {0} /\ MaxSize \in Nat

VARIABLES
  lpMsgData, size, count, nQueueHead, nQueueTail,
  hWaitEvent,  \* auto-reset
  windows,     \* those that exist
  writer,      \* [Writers -> [at, msg]]
  reader       \* [at, filter]: the filter of its last call

ring == << lpMsgData, size, count, nQueueHead, nQueueTail >>
vars == << ring, hWaitEvent, windows, writer, reader >>

\* Stands in slots that hold no message, which are not read.
Blank == [hwnd |-> NoWindow, message |-> WM_PAINT]

TypeOK ==
  /\ size \in Nat \ {0} /\ count \in 0 .. size
  /\ nQueueHead \in 0 .. size - 1 /\ nQueueTail \in 0 .. size - 1
  /\ lpMsgData \in [0 .. size - 1 -> Slot]
  /\ hWaitEvent \in BOOLEAN
  /\ windows \subseteq Windows
  /\ writer \in [Writers -> [at : {"idle", "insert", "signal"}, msg : Message]]
  /\ reader \in [at : {"run", "get", "idle"}, filter : Filters \cup {Any}]

Init ==
  /\ lpMsgData = [i \in 0 .. InitSize - 1 |-> Blank]
  /\ size = InitSize /\ count = 0 /\ nQueueHead = 0 /\ nQueueTail = 0
  /\ hWaitEvent = FALSE /\ windows = Windows
  /\ writer = [w \in Writers |-> [at |-> "idle", msg |-> Blank]]
  /\ reader = [at |-> "run", filter |-> Any]

-----------------------------------------------------------------------------
(* The ring.                                                               *)

Wrap(i, n) == IF i >= n THEN i - n ELSE i

\* Where the i-th message is, from 0.
Pos(i) == Wrap(nQueueHead + i, size)
Item(i) == lpMsgData[Pos(i)]

IsDead(m) == m.hwnd = Invalid \/ m.hwnd \in Windows \ windows

\* Peeks let the messages of child windows through, ATQ_ONLYONE does not.
Passes(f, fCheckChild, m) ==
  /\ m.message \in f.kinds
  /\ \/ f.hwnd \in {NoWindow, m.hwnd}
     \/ fCheckChild /\ m.hwnd \in Windows /\ ChildOf[m.hwnd] = f.hwnd

\* The messages that are passed over, of n: the reader's is the next one.
IsFirst(f, fCheckChild, n) ==
  /\ \A i \in 0 .. n - 1 :
       IsDead(Item(i)) \/ ~ Passes(f, fCheckChild, Item(i))
  /\ n < count => ~ IsDead(Item(n)) /\ Passes(f, fCheckChild, Item(n))

Removes(n, fRemove) == fRemove /\ n < count /\ Item(n).message # WM_PAINT

\* Without a filter dead messages are at the head, and pass out of it.
PopHead(n, fRemove) ==
  LET k == IF Removes(n, fRemove) THEN n + 1 ELSE n
  IN  /\ nQueueHead' = Pos(k) /\ count' = count - k
      /\ lpMsgData' = [p \in 0 .. size - 1 |->
                         IF \E i \in 0 .. k - 1 : Pos(i) = p
                         THEN Blank ELSE lpMsgData[p]]
      /\ UNCHANGED << size, nQueueTail >>

\* With a filter: what is dead as far as n, and n itself, is marked ...
Marked(n, fRemove) ==
  {i \in 0 .. n - 1 : IsDead(Item(i))}
    \cup (IF Removes(n, fRemove) THEN {n} ELSE {})

\* ... and whatever is marked, now or by ClearThreadQueue, is squeezed out:
\* what is kept moves up by as many places as were taken out before it.
Squeeze(n, fRemove) ==
  LET marked == Marked(n, fRemove)
      kept == {i \in 0 .. count - 1 : i \notin marked /\ Item(i).hwnd # Invalid}
      To(i) == Pos(Cardinality({j \in kept : j < i}))
  IN  IF marked = {}
      THEN UNCHANGED ring
      ELSE /\ lpMsgData' =
                [p \in 0 .. size - 1 |->
                   IF \E i \in kept : To(i) = p
                   THEN Item(CHOOSE i \in kept : To(i) = p)
                   ELSE Blank]
           /\ count' = Cardinality(kept)
           /\ nQueueTail' = Pos(Cardinality(kept))
           /\ UNCHANGED << size, nQueueHead >>

\* _CheckThreadQueue passes over n messages and finds the next, if any.
_CheckThreadQueue(f, fRemove, fCheckChild, n) ==
  /\ IsFirst(f, fCheckChild, n)
  /\ IF f.hwnd = NoWindow /\ f.kinds = Kinds
     THEN PopHead(n, fRemove)
     ELSE Squeeze(n, fRemove)

\* Bug: the tail runs off the end.
PutUnwrapped(m) ==
  /\ lpMsgData' = [lpMsgData EXCEPT ![nQueueTail] = m]
  /\ nQueueTail' = nQueueTail + 1 /\ count' = count + 1
  /\ UNCHANGED << size, nQueueHead >>

Put(m) ==
  /\ lpMsgData' = [lpMsgData EXCEPT ![nQueueTail] = m]
  /\ nQueueTail' = Wrap(nQueueTail + 1, size) /\ count' = count + 1
  /\ UNCHANGED << size, nQueueHead >>

\* Bug: what does not fit behind the old end is not moved.
GrownStraight(p) ==
  IF p < size THEN lpMsgData[p]
  ELSE IF p - size < nQueueHead THEN lpMsgData[p - size] ELSE Blank

\* The ring is full, so its tail is its head.  realloc adds slots at the end;
\* what was before the head is copied into them, and what is left over once
\* they are full to the beginning.
Grown(p) ==
  LET from == IF p >= size THEN p - size ELSE p + Growth
  IN  IF from < nQueueHead THEN lpMsgData[from]
      ELSE IF p < size THEN lpMsgData[p] ELSE Blank

\* Bug: the new slots are used before the head has been moved there.
GrowUnmoved(m) ==
  /\ size' = size + Growth
  /\ lpMsgData' = [p \in 0 .. size + Growth - 1 |->
                     IF p = size THEN m ELSE Grown(p)]
  /\ nQueueTail' = Wrap(size + 1, size + Growth) /\ count' = count + 1
  /\ UNCHANGED nQueueHead

GrowAndPut(m) ==
  LET tail == Wrap(size + nQueueHead, size + Growth)
  IN  /\ size' = size + Growth
      /\ lpMsgData' = [p \in 0 .. size + Growth - 1 |->
                         IF p = tail THEN m ELSE Grown(p)]
      /\ nQueueTail' = Wrap(tail + 1, size + Growth) /\ count' = count + 1
      /\ UNCHANGED nQueueHead

\* There may be no memory: the message is dropped.
_InsertQueue(m) ==
  IF count < size
  THEN Put(m)
  ELSE \/ size + Growth <= MaxSize /\ GrowAndPut(m)
       \/ UNCHANGED ring

-----------------------------------------------------------------------------
(* Threads that post.                                                      *)

Turns(w, at, m) == writer' = [writer EXCEPT ![w] = [at |-> at, msg |-> m]]

\* AddMsgToThreadQueue finds the thread of a window that exists;
\* _WinSys_PostThreadMessage posts without one.
CanPost(w, m) ==
  writer[w].at = "idle" /\ m.hwnd \in windows \cup {NoWindow}

Post(w, m) ==
  /\ CanPost(w, m) /\ m \in Posts[w]
  /\ _InsertQueue(m)
  /\ Turns(w, "signal", Blank)
  /\ UNCHANGED << hWaitEvent, windows, reader >>

\* ATQ_ONLYONE: csThreadQueue is left between the look and the insertion.
PostOnlyOne(w, m) ==
  /\ CanPost(w, m) /\ m \in OnlyOnes[w]
  /\ \E n \in 0 .. count :
       /\ _CheckThreadQueue([hwnd |-> m.hwnd, kinds |-> {m.message}],
                            FALSE, FALSE, n)
       /\ IF n = count THEN Turns(w, "insert", m) ELSE UNCHANGED writer
  /\ UNCHANGED << hWaitEvent, windows, reader >>

Insert(w) ==
  /\ writer[w].at = "insert"
  /\ _InsertQueue(writer[w].msg)
  /\ Turns(w, "signal", Blank)
  /\ UNCHANGED << hWaitEvent, windows, reader >>

\* Bug: only the first message of a queue sets the event.
SignalFirst(w) ==
  /\ writer[w].at = "signal"
  /\ hWaitEvent' = (hWaitEvent \/ count = 1)
  /\ Turns(w, "idle", Blank)
  /\ UNCHANGED << ring, windows, reader >>

\* The end of _InsertThreadQueue, whether the message went in or not.
Signal(w) ==
  /\ writer[w].at = "signal"
  /\ hWaitEvent' = TRUE
  /\ Turns(w, "idle", Blank)
  /\ UNCHANGED << ring, windows, reader >>

-----------------------------------------------------------------------------
(* The thread of the queue.                                                *)

\* Looks with a filter and goes on to the one place or the other.
CheckThreadQueue(f, fRemove, found, notFound) ==
  \E n \in 0 .. count :
    /\ _CheckThreadQueue(f, fRemove, TRUE, n)
    /\ reader' = [at |-> IF n < count THEN found ELSE notFound, filter |-> f]
    /\ UNCHANGED << hWaitEvent, windows, writer >>

PeekMessage(f, fRemove) ==
  reader.at = "run" /\ CheckThreadQueue(f, fRemove, "run", "run")

\* GetMessage: WinMsg_Get sleeps when it finds nothing, ...
GetMessage(f) ==
  reader.at = "run" /\ CheckThreadQueue(f, TRUE, "run", "idle")
GetAgain ==
  reader.at = "get" /\ CheckThreadQueue(reader.filter, TRUE, "run", "idle")

\* ... on hWaitEvent.
WinMsg_Wait ==
  /\ reader.at = "idle" /\ hWaitEvent
  /\ hWaitEvent' = FALSE /\ reader' = [reader EXCEPT !.at = "get"]
  /\ UNCHANGED << ring, windows, writer >>

\* ClearThreadQueue: BeginPaint, KillTimer, hiding a window; by any thread.
ClearThreadQueue(f) ==
  /\ lpMsgData' =
       [p \in 0 .. size - 1 |->
          IF (\E i \in 0 .. count - 1 : Pos(i) = p)
             /\ f.hwnd \in {NoWindow, lpMsgData[p].hwnd}
             /\ lpMsgData[p].message \in f.kinds
          THEN [lpMsgData[p] EXCEPT !.hwnd = Invalid]
          ELSE lpMsgData[p]]
  /\ UNCHANGED << size, count, nQueueHead, nQueueTail, hWaitEvent, windows,
                  writer, reader >>

DestroyWindow(w) ==
  /\ w \in windows
  /\ windows' = windows \ {w}
  /\ UNCHANGED << ring, hWaitEvent, writer, reader >>

-----------------------------------------------------------------------------
Writer(w) ==
  \/ \E m \in Message : Post(w, m) \/ PostOnlyOne(w, m)
  \/ Insert(w) \/ Signal(w)

Reader ==
  \/ \E f \in Filters : GetMessage(f) \/ \E b \in BOOLEAN : PeekMessage(f, b)
  \/ GetAgain \/ WinMsg_Wait

Next ==
  \/ \E w \in Writers : Writer(w)
  \/ Reader
  \/ \E f \in Clears : ClearThreadQueue(f)
  \/ \E w \in Windows : DestroyWindow(w)

Spec == Init /\ [][Next]_vars

-----------------------------------------------------------------------------
(* Properties.                                                             *)

\* The head, the tail and the count describe one stretch of the ring, through
\* growth, removal at the head and squeezing: a message that is posted is
\* written next to the last one and over none that is unread.
RingWhole == nQueueTail = Pos(count)

Live == {i \in 0 .. count - 1 : ~ IsDead(Item(i))}

\* What one thread alone posts, and only with ATQ_ONLYONE, is in the queue
\* at most once for a window, although the look and the insertion are two
\* steps and reads and other posts come in between: a timer never fills it.
OnlyOne ==
  \A w \in Writers : \A m \in OnlyOnes[w] \ Posts[w] :
    (\A v \in Writers \ {w} : m \notin OnlyOnes[v] \cup Posts[v])
      => Cardinality({i \in Live : Item(i) = m}) <= 1

\* When the thread sleeps in GetMessage, a message that passes its filter
\* has its event set, or somebody is about to set it.
ReaderRoused ==
  /\ reader.at = "idle"
  /\ \E i \in Live : Passes(reader.filter, TRUE, Item(i))
  => hWaitEvent \/ \E w \in Writers : writer[w].at = "signal"

\* The contents, as the clients see them.
Contents == [i \in 0 .. count - 1 |-> Item(i)]

Fifo == INSTANCE MsgFifo WITH
  queue <- Part(Contents, Live),
  asked <- reader.filter,
  Filters <- Filters \cup {Any},
  Passes <- LAMBDA f, m : Passes(f, TRUE, m),
  Sticky <- LAMBDA m : m.message = WM_PAINT,
  Purges <- {{m \in Message : f.hwnd \in {NoWindow, m.hwnd}
                              /\ m.message \in f.kinds} : f \in Clears}
            \cup {{m \in Message : m.hwnd = w} : w \in Windows}

\* The ring is a queue: whatever is posted, in the order it was posted, less
\* what was cleared, what belongs to dead windows and what found no memory;
\* a filtered read takes the first that passes and disturbs no other.
ImplementsFifo == Fifo!FifoSpec
=============================================================================
