---------------------------- MODULE SendMessage -----------------------------
(***************************************************************************)
(* SendMessage between threads (os/gwme_drv/gwme/message.c).  The sender   *)
(* puts a THREADMSG into the queue of the window's thread and waits on its *)
(* own hWaitEvent until uFlag is 2, and while it waits it reads its queue: *)
(* posted messages and what others send.  Calls of window procedures and   *)
(* waits pile up on the stack of a thread.  Every thread has one window;   *)
(* its queue is taken from MsgQueue as the sequence that it implements.    *)
(***************************************************************************)
EXTENDS Integers, Sequences, FiniteSets

CONSTANTS
  Threads, NoThread,
  Msgs,      \* what a message asks for; window procedures answer it
  Blocks,    \* memory for THREADMSG
  Calls,     \* [Threads -> Nat], bound: what a thread sends and posts in all
  Posters,   \* threads that post, too
  Timed,     \* threads that send with a timeout: WinMsg_SendTimeout
  Blocking,  \* those of them that pass SMTO_BLOCK and not SMTO_NORMAL
  Mortal,    \* threads that may destroy their window
  Peekers,   \* threads that look with PM_NOREMOVE: loops of modal dialogs
  Scarce     \* threads whose queue may find no memory to grow

ASSUME SendMessageAssumption ==
  /\ NoThread \notin Threads /\ Msgs # {}
  /\ Calls \in [Threads -> Nat]
  /\ Blocking \subseteq Timed /\ Timed \cup Mortal \cup Posters \subseteq Threads
  /\ Peekers \cup Scarce \subseteq Threads

VARIABLES
  threadMsg,   \* [Blocks -> [hwnd, msg, lResult, sender, uFlag]]
  free,        \* blocks that are not allocated
  queue,       \* of a thread: posted messages and blocks with what is sent
  hWaitEvent,  \* threads whose event is set; auto-reset
  windows,     \* threads whose window exists
  stack,       \* of a thread, the innermost call first
  calls        \* what is left of Calls

vars == << threadMsg, free, queue, hWaitEvent, windows, stack, calls >>

Answer(t, m) == << t, m >>   \* what the window procedure of t returns for m
Answers == (Threads \X Msgs) \cup {<< >>}

Posted(m) == [posted |-> TRUE, msg |-> m]
Sent(b) == [posted |-> FALSE, block |-> b]
Entries == {Posted(m) : m \in Msgs} \cup {Sent(b) : b \in Blocks}

(* What a thread is in the middle of:                                      *)
(*   app     code of the application, outside its message loop             *)
(*   get     WinMsg_Get, about to look at the queue; idle: about to wait   *)
(*   look    WinMsg_Peek with PM_NOREMOVE; keep: the same, once it works   *)
(*           on what is sent, which is still first in the queue            *)
(*   proc    its window procedure, called for msg                          *)
(*   serve   WinMsg_Peek, for which WinMsg_Send works on block             *)
(*   notify  WinMsg_Peek, about to wake the sender of block                *)
(*   signal  AddMsgToThreadQueue, about to set the event of hwnd           *)
(*   insert  _CallThreadWindowProc, which sends msg to hwnd, about to put  *)
(*           the block into its queue; raise: about to set its event       *)
(*   test    its while( uFlag != 2 ); wait: _WinSys_WaitMessage            *)
(*   pump    its PeekMessage loop                                          *)
Sending == {"insert", "raise", "test", "wait", "pump"}

Frames ==
  [at : {"app", "get", "idle", "look", "keep"}]
    \cup [at : {"proc"}, msg : Msgs]
    \cup [at : {"serve", "notify"}, block : Blocks]
    \cup [at : {"signal"}, hwnd : Threads]
    \cup [at : Sending, block : Blocks, hwnd : Threads, msg : Msgs]

TypeOK ==
  /\ threadMsg \in [Blocks -> [hwnd : Threads \cup {NoThread}, msg : Msgs,
                               lResult : Answers,
                               sender : Threads \cup {NoThread}, uFlag : 0 .. 2]]
  /\ free \subseteq Blocks
  /\ queue \in [Threads -> Seq(Entries)]
  /\ hWaitEvent \subseteq Threads /\ windows \subseteq Threads
  /\ stack \in [Threads -> Seq(Frames)]
  /\ \A t \in Threads : stack[t] # << >>
  /\ calls \in [Threads -> Nat]

Init ==
  /\ threadMsg \in [Blocks -> [hwnd : {NoThread}, msg : {CHOOSE m \in Msgs : TRUE},
                               lResult : {<< >>}, sender : {NoThread},
                               uFlag : {0}]]
  /\ free = Blocks
  /\ queue = [t \in Threads |-> << >>]
  /\ hWaitEvent = {} /\ windows = Threads
  /\ stack = [t \in Threads |-> << [at |-> "app"] >>]
  /\ calls = Calls

-----------------------------------------------------------------------------
Top(t) == Head(stack[t])
Below(t) == Tail(stack[t])

Becomes(t, frames) == stack' = [stack EXCEPT ![t] = frames]
Goes(t, at) == Becomes(t, << [Top(t) EXCEPT !.at = at] >> \o Below(t))

\* The stack of t once WinMsg_Send or the window procedure, called by the
\* first of these frames, is done.  After a message that it has dispatched a
\* sender looks whether it has its answer.
Resumed(frames) ==
  IF Head(frames).at = "serve"
  THEN << [Head(frames) EXCEPT !.at = "notify"] >> \o Tail(frames)
  ELSE IF Head(frames).at = "pump" /\ threadMsg[Head(frames).block].uFlag = 2
  THEN << [Head(frames) EXCEPT !.at = "test"] >> \o Tail(frames)
  ELSE frames

\* WinMsg_Peek stores the result in the block it serves and sets uFlag.
Stored(frames, result) ==
  IF Head(frames).at = "serve"
  THEN [threadMsg EXCEPT ![Head(frames).block].lResult = result,
                         ![Head(frames).block].uFlag = 2]
  ELSE threadMsg

\* WinMsg_Send or the procedure returns to the frames.
ReturnTo(t, frames, result) ==
  Becomes(t, Resumed(frames)) /\ threadMsg' = Stored(frames, result)

\* _CallThreadWindowProc, called by the first of the frames, as far as the
\* insertion into the queue.  Without memory it returns at once.
CallThreadWindowProc(t, frames, u, m) ==
  \/ \E b \in free :
       /\ threadMsg' = [threadMsg EXCEPT ![b] =
            [hwnd |-> u, msg |-> m, lResult |-> << >>, sender |-> t,
             uFlag |-> 1]]
       /\ free' = free \ {b}
       /\ Becomes(t, << [at |-> "insert", block |-> b, hwnd |-> u, msg |-> m] >>
                     \o frames)
  \/ /\ free = {}
     /\ ReturnTo(t, frames, << >>)
     /\ UNCHANGED free

\* AddMsgToThreadQueue, whose callers do not look whether it has put the entry
\* into the queue of u.  It signals unless it finds no window or, for a first
\* ring, no memory; without memory to grow the ring it signals all the same.
AddMsgToThreadQueue(u, e, signals) ==
  \/ /\ u \in windows /\ signals
     /\ queue' = [queue EXCEPT ![u] = Append(@, e)]
  \/ u \in windows \cap Scarce /\ UNCHANGED queue
  \/ u \notin windows /\ ~ signals /\ UNCHANGED queue

\* _ReleaseThreadMsgPtr: the heap links free blocks through their first word,
\* which is msg.hwnd.
Release(t, result) ==
  LET b == Top(t).block
  IN  /\ Becomes(t, Resumed(Below(t)))
      /\ threadMsg' = [Stored(Below(t), result) EXCEPT ![b].hwnd = NoThread]
      /\ free' = free \cup {b}

-----------------------------------------------------------------------------
(* The application and window procedures.                                  *)

\* Their own steps: they may also send and post to other threads.
MayCall(t) == Top(t).at \in {"app", "proc"} /\ calls[t] > 0
Counts(t) == calls' = [calls EXCEPT ![t] = @ - 1]

WinMsg_Send(t, u, m) ==
  /\ MayCall(t) /\ u \in windows \ {t}
  /\ Counts(t)
  /\ CallThreadWindowProc(t, stack[t], u, m)
  /\ UNCHANGED << queue, hWaitEvent, windows >>

\* WinMsg_Post, and WinMsg_SendNotify to another thread.
WinMsg_Post(t, u, m) ==
  /\ t \in Posters /\ MayCall(t) /\ u # t
  /\ Counts(t)
  /\ \E signals \in BOOLEAN :
       /\ AddMsgToThreadQueue(u, Posted(m), signals)
       /\ Becomes(t, IF signals THEN << [at |-> "signal", hwnd |-> u] >> \o stack[t]
                                ELSE stack[t])
  /\ UNCHANGED << threadMsg, free, hWaitEvent, windows >>

\* The insertion in _CallThreadWindowProc.
Insert(t) ==
  /\ Top(t).at = "insert"
  /\ \E signals \in BOOLEAN :
       /\ AddMsgToThreadQueue(Top(t).hwnd, Sent(Top(t).block), signals)
       /\ Goes(t, IF signals THEN "raise" ELSE "test")
  /\ UNCHANGED << threadMsg, free, hWaitEvent, windows, calls >>

\* SetEvent in _InsertThreadQueue.
Signal(t) ==
  /\ Top(t).at \in {"signal", "raise"}
  /\ hWaitEvent' = hWaitEvent \cup {Top(t).hwnd}
  /\ IF Top(t).at = "raise" THEN Goes(t, "test") ELSE Becomes(t, Below(t))
  /\ UNCHANGED << threadMsg, free, queue, windows, calls >>

GetMessage(t) ==
  /\ Top(t).at = "app"
  /\ Goes(t, "get")
  /\ UNCHANGED << threadMsg, free, queue, hWaitEvent, windows, calls >>

\* The loop of a modal dialog looks for messages before it gets one.
PeekMessage(t) ==
  /\ t \in Peekers /\ Top(t).at = "app"
  /\ Goes(t, "look")
  /\ UNCHANGED << threadMsg, free, queue, hWaitEvent, windows, calls >>

\* A window procedure ends.
Return(t) ==
  /\ Top(t).at = "proc"
  /\ ReturnTo(t, Below(t), Answer(t, Top(t).msg))
  /\ UNCHANGED << free, queue, hWaitEvent, windows, calls >>

DestroyWindow(t) ==
  /\ t \in Mortal \cap windows /\ Top(t).at \in {"app", "proc"}
  /\ windows' = windows \ {t}
  /\ UNCHANGED << threadMsg, free, queue, hWaitEvent, stack, calls >>

-----------------------------------------------------------------------------
(* WinMsg_Peek, called by WinMsg_Get, by a sender that waits, and by the    *)
(* loops of modal dialogs.                                                 *)

Peeks(t) == Top(t).at \in {"get", "look", "pump"}
Finds(t) == Peeks(t) /\ queue[t] # << >> /\ t \in windows
First(t) == Head(queue[t])
Dequeued(t) == [queue EXCEPT ![t] = Tail(@)]

\* Nothing there: WinMsg_Get is to wait, a sender goes round its loop, a modal
\* dialog calls WinMsg_Get.
Missing == [get |-> "idle", look |-> "get", pump |-> "test"]

PeekNothing(t) ==
  /\ Peeks(t) /\ queue[t] = << >>
  /\ Goes(t, Missing[Top(t).at])
  /\ UNCHANGED << threadMsg, free, queue, hWaitEvent, windows, calls >>

\* Bug: a message of a window that is gone ends the look.
PeekDeadEnds(t) ==
  /\ Peeks(t) /\ queue[t] # << >> /\ t \notin windows
  /\ Goes(t, Missing[Top(t).at])
  /\ UNCHANGED << threadMsg, free, queue, hWaitEvent, windows, calls >>

\* The queue drops the messages of windows that are gone.
PeekDead(t) ==
  /\ Peeks(t) /\ queue[t] # << >> /\ t \notin windows
  /\ queue' = Dequeued(t)
  /\ UNCHANGED << threadMsg, free, hWaitEvent, windows, stack, calls >>

\* A modal dialog finds a posted message, and calls WinMsg_Get.
LookPosted(t) ==
  /\ Finds(t) /\ First(t).posted /\ Top(t).at = "look"
  /\ Goes(t, "get")
  /\ UNCHANGED << threadMsg, free, queue, hWaitEvent, windows, calls >>

\* A posted message is returned, and dispatched.
PeekPosted(t) ==
  /\ Finds(t) /\ First(t).posted /\ Top(t).at # "look"
  /\ queue' = Dequeued(t)
  /\ LET caller == [Top(t) EXCEPT !.at = IF @ = "get" THEN "app" ELSE @]
     IN  Becomes(t, << [at |-> "proc", msg |-> First(t).msg] >>
                    \o (<< caller >> \o Below(t)))
  /\ UNCHANGED << threadMsg, free, hWaitEvent, windows, calls >>

\* STM_SEND: WinMsg_Send with the window and the message of the block.  If the
\* block is another one's by now, that may be a window of another thread.  With
\* PM_NOREMOVE the message is handled while it is in the queue.
PeekSent(t) ==
  /\ Finds(t) /\ ~ First(t).posted
  /\ queue' = IF Top(t).at = "look" THEN queue ELSE Dequeued(t)
  /\ LET b == First(t).block
         u == threadMsg[b].hwnd
         caller == [Top(t) EXCEPT !.at = IF @ = "look" THEN "keep" ELSE @]
         frames == << [at |-> "serve", block |-> b] >> \o (<< caller >> \o Below(t))
     IN  \/ /\ u = t
            /\ Becomes(t, << [at |-> "proc", msg |-> threadMsg[b].msg] >>
                          \o frames)
            /\ UNCHANGED << threadMsg, free >>
         \/ /\ u \notin windows
            /\ ReturnTo(t, frames, << >>)
            /\ UNCHANGED free
         \/ /\ u \in windows \ {t}
            /\ CallThreadWindowProc(t, frames, u, threadMsg[b].msg)
  /\ UNCHANGED << hWaitEvent, windows, calls >>

\* Bug: after a look with PM_NOREMOVE nothing is removed.
KeepNothing(t) ==
  /\ Top(t).at = "keep"
  /\ Goes(t, "look")
  /\ UNCHANGED << threadMsg, free, queue, hWaitEvent, windows, calls >>

\* The second look, with PM_REMOVE: it takes what is first by now.
KeepNoMore(t) ==
  /\ Top(t).at = "keep"
  /\ queue' = [queue EXCEPT ![t] = IF t \in windows /\ @ # << >> THEN Tail(@)
                                                              ELSE << >>]
  /\ Goes(t, "look")
  /\ UNCHANGED << threadMsg, free, hWaitEvent, windows, calls >>

\* Bug: the thread of the window is woken, whose window is gone from the block
\* if its sender has found the answer already.
NotifyReceiver(t) ==
  /\ Top(t).at = "notify"
  /\ hWaitEvent' = hWaitEvent \cup {threadMsg[Top(t).block].hwnd}
  /\ Becomes(t, Below(t))
  /\ UNCHANGED << threadMsg, free, queue, windows, calls >>

\* Bug: the thread of the window is woken, not the sender.
NotifyWindow(t) ==
  /\ Top(t).at = "notify"
  /\ hWaitEvent' = hWaitEvent \cup ({threadMsg[Top(t).block].hwnd} \cap Threads)
  /\ Becomes(t, Below(t))
  /\ UNCHANGED << threadMsg, free, queue, windows, calls >>

\* The sender named in the block is woken, and the queue looked at again.
Notify(t) ==
  /\ Top(t).at = "notify"
  /\ hWaitEvent' = hWaitEvent \cup ({threadMsg[Top(t).block].sender} \cap Threads)
  /\ Becomes(t, Below(t))
  /\ UNCHANGED << threadMsg, free, queue, windows, calls >>

\* WinMsg_Get sleeps and looks again.
WinMsg_Wait(t) ==
  /\ Top(t).at = "idle" /\ t \in hWaitEvent
  /\ hWaitEvent' = hWaitEvent \ {t}
  /\ Goes(t, "get")
  /\ UNCHANGED << threadMsg, free, queue, windows, calls >>

-----------------------------------------------------------------------------
(* _CallThreadWindowProc waits for its answer.                             *)

Handled(f) == threadMsg[f.block].uFlag = 2

\* It returns to its caller, with the answer or without.
Succeeds(t) == Release(t, threadMsg[Top(t).block].lResult)
Fails(t) == Release(t, << >>)

Test(t) ==
  /\ Top(t).at = "test"
  /\ IF Handled(Top(t))
     THEN Succeeds(t)
     ELSE Goes(t, "wait") /\ UNCHANGED << threadMsg, free >>
  /\ UNCHANGED << queue, hWaitEvent, windows, calls >>

\* Bug: whatever wakes a sender is taken for its answer.
WakeAnswered(t) ==
  /\ Top(t).at = "wait" /\ t \in hWaitEvent
  /\ hWaitEvent' = hWaitEvent \ {t}
  /\ Succeeds(t)
  /\ UNCHANGED << queue, windows, calls >>

\* Bug: a sender does not read its queue while it waits.
WakeDeaf(t) ==
  /\ Top(t).at = "wait" /\ t \in hWaitEvent
  /\ hWaitEvent' = hWaitEvent \ {t}
  /\ IF Handled(Top(t))
     THEN Succeeds(t)
     ELSE Goes(t, "test") /\ UNCHANGED << threadMsg, free >>
  /\ UNCHANGED << queue, windows, calls >>

Wake(t) ==
  /\ Top(t).at = "wait" /\ t \in hWaitEvent
  /\ hWaitEvent' = hWaitEvent \ {t}
  /\ IF Top(t).hwnd \notin windows
     THEN Fails(t)
     ELSE IF Handled(Top(t))
     THEN Succeeds(t)
     ELSE /\ Goes(t, IF t \in Blocking THEN "test" ELSE "pump")
          /\ UNCHANGED << threadMsg, free >>
  /\ UNCHANGED << queue, windows, calls >>

\* The time is over: in the wait, or as the code finds after a message; that
\* makes no difference here.
TimesOut(t) ==
  /\ t \in Timed /\ Top(t).at = "wait"
  /\ Fails(t)
  /\ UNCHANGED << queue, hWaitEvent, windows, calls >>

-----------------------------------------------------------------------------
Peek(t) ==
  \/ PeekNothing(t) \/ PeekDead(t) \/ LookPosted(t) \/ PeekPosted(t)
  \/ PeekSent(t) \/ KeepNoMore(t)

Step(t) ==
  \/ Insert(t) \/ Signal(t) \/ GetMessage(t) \/ PeekMessage(t) \/ Return(t)
  \/ Peek(t) \/ Notify(t) \/ WinMsg_Wait(t)
  \/ Test(t) \/ Wake(t)

Next ==
  \E t \in Threads :
    \/ Step(t) \/ DestroyWindow(t) \/ TimesOut(t)
    \/ \E u \in Threads, m \in Msgs : WinMsg_Send(t, u, m) \/ WinMsg_Post(t, u, m)

Spec == Init /\ [][Next]_vars

(* Threads run; window procedures end; applications come back to their      *)
(* message loops; timeouts end.  Nobody has to send.                        *)
FairSpec ==
  /\ Spec
  /\ \A t \in Threads : WF_vars(Step(t))
  /\ \A t \in Timed : WF_vars(TimesOut(t))

-----------------------------------------------------------------------------
(* Properties.                                                             *)

SendFrames(t) ==
  {stack[t][i] : i \in {j \in DOMAIN stack[t] : stack[t][j].at \in Sending}}

\* A sender that finds uFlag = 2 has the answer to its own message in the
\* block, as message.c:404 says, whatever it did while it waited.
AnswerValid ==
  \A t \in Threads : \A f \in SendFrames(t) :
    Handled(f) => threadMsg[f.block].lResult = Answer(f.hwnd, f.msg)

\* The queue but for what its thread works on and has not removed.
Rest(t) ==
  IF stack[t][Len(stack[t])].at = "keep" THEN Tail(queue[t]) ELSE queue[t]

\* Where the message of a block is: with its sender, in queues, and with
\* threads at work on it.
Places(b) ==
  UNION {{<< t, "sender", i >> : i \in {j \in {1} : Top(t).at = "insert"
                                                     /\ Top(t).block = b}}
         \cup {<< t, "queue", i >> : i \in {j \in DOMAIN Rest(t) :
                                              Rest(t)[j] = Sent(b)}}
         \cup {<< t, "stack", i >> : i \in {j \in DOMAIN stack[t] :
                  stack[t][j] = [at |-> "serve", block |-> b]}} : t \in Threads}

\* What is sent is handled once: as long as the sender waits for it, it is in
\* one place at most, and in none only if there was no memory for it;
\* afterwards nobody has it, so that nobody writes into a block that has been
\* released.
HandledOnce ==
  \A t \in Threads : \A f \in SendFrames(t) :
    LET n == Cardinality(Places(f.block))
    IN  IF Handled(f) THEN n = 0 ELSE n = 1 \/ (n = 0 /\ f.hwnd \in Scarce)

\* Events are auto-reset, and shared by answers and messages of all kinds; a
\* thread may take one for the other in a wait within a wait.  Still, who
\* sleeps with its answer there, or in WinMsg_Get with a message, has its event
\* set or is about to get it.
NobodyMissed ==
  \A t \in Threads :
    /\ Top(t).at = "wait" /\ Handled(Top(t))
       => \/ t \in hWaitEvent
          \/ \E u \in Threads : Top(u) = [at |-> "notify", block |-> Top(t).block]
    /\ Top(t).at = "idle" /\ queue[t] # << >>
       => \/ t \in hWaitEvent
          \/ \E u \in Threads :
               Top(u).at \in {"signal", "raise"} /\ Top(u).hwnd = t

\* When nobody sends any more, all messages are handled and all calls return,
\* although threads wait for one another's answers in rings and within
\* messages that they handle.
AllReturn ==
  <>[](\A t \in Threads :
         stack[t] = << [at |-> "idle"] >> /\ queue[t] = << >>)
=============================================================================
