---------------------------- MODULE MCMsgQueue -----------------------------
(* Instances of MsgQueue: the queue of a thread with a window and a child of *)
(* it, posted to by the thread that raises timers and by an application.     *)
EXTENDS MsgQueue

CONSTANTS parent, childWindow, timers, application, Paint, Timer, User

Msg(w, k) == [hwnd |-> w, message |-> k]

Tree == [w \in Windows |-> IF w = childWindow THEN parent ELSE NoWindow]
Posted ==
  [w \in Writers |->
     IF w = timers THEN {}
     ELSE {Msg(NoWindow, User)}]
PostedOnce ==
  [w \in Writers |->
     {IF w = timers THEN Msg(parent, Timer) ELSE Msg(childWindow, Paint)}]
Asked == {Any, [hwnd |-> parent, kinds |-> Kinds],
          [hwnd |-> NoWindow, kinds |-> {User}]}
Cleared == {Msg(parent, Timer), Msg(childWindow, Paint)}
Purged == {[hwnd |-> m.hwnd, kinds |-> {m.message}] : m \in Cleared}
=============================================================================
