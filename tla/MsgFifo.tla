------------------------------ MODULE MsgFifo -------------------------------
(***************************************************************************)
(* What a thread's message queue promises the threads that post to it and  *)
(* the one that reads it: the messages of living windows in the order they *)
(* were posted; the reader takes the first that its filter lets through    *)
(* and leaves the others as they are.                                      *)
(***************************************************************************)
EXTENDS Integers, Sequences, Subsequence

CONSTANTS
  Message,           \* all messages
  Filters,           \* what the reader may ask for
  Passes(_, _),      \* does a filter let a message through
  Sticky(_),         \* messages that stay when they are read
  Purges             \* sets of messages that are dropped together

VARIABLES
  queue,
  asked              \* the filter the reader has used last

fifoVars == << queue, asked >>

FifoInit == queue = << >> /\ asked \in Filters

Put(m) == queue' = Append(queue, m) /\ UNCHANGED asked

\* The first message that passes, in the order of the queue.
Take(f) ==
  /\ asked' = f
  /\ \E i \in DOMAIN queue :
       /\ Passes(f, queue[i]) /\ ~ Sticky(queue[i])
       /\ \A j \in 1 .. i - 1 : ~ Passes(f, queue[j])
       /\ queue' = Part(queue, DOMAIN queue \ {i})

\* Nothing passes, or it stays.
Look(f) == asked' = f /\ UNCHANGED queue

Purge(S) ==
  /\ queue' = Part(queue, {i \in DOMAIN queue : queue[i] \notin S})
  /\ UNCHANGED asked

FifoNext ==
  \/ \E f \in Filters : Look(f) \/ Take(f)
  \/ \E m \in Message : Put(m)
  \/ \E S \in Purges : Purge(S)

FifoSpec == FifoInit /\ [][FifoNext]_fifoVars
=============================================================================
