---------------------------- MODULE EventHandler ----------------------------
(***************************************************************************)
(* The event queue of the Ethereum light node and the one thread that       *)
(* dispatches it (BREvent.c, BREventQueue.c).  eventQueueCreate copies the  *)
(* handler's mutex, so the queue and the condition variable have different  *)
(* locks: an event can be queued and signalled after the thread found the   *)
(* queue empty and before it waits.                                         *)
(***************************************************************************)
LOCAL INSTANCE Naturals
LOCAL INSTANCE Sequences

VARIABLES
  pending,   \* the events queued and not yet dispatched
  handler    \* what the thread does: "check" the queue, "block", or "wait"

\* What an event is about (a transaction, or the node itself), and what it says.
About(e) == e[1]

\* Stands for "nothing is queued about it yet".
NothingSaid == <<>>

\* The newest event queued about subject s.
LastAbout(s) ==
  LET mine == SelectSeq(pending, LAMBDA e : About(e) = s)
  IN  IF mine = <<>> THEN NothingSaid ELSE mine[Len(mine)]

(* Bound: an event that repeats the newest one queued about its subject is *)
(* not queued again; it still signals.                                      *)
Enqueue(e) == pending' = IF LastAbout(About(e)) = e THEN pending ELSE Append(pending, e)

\* pthread_cond_signal reaches the thread only while it waits.
Wake == handler' = IF handler = "wait" THEN "check" ELSE handler

\* A faulty variant that leaves the thread to notice the event by itself.
SignalEventUnheard(e) == Enqueue(e) /\ UNCHANGED handler

SignalEvent(e) == Enqueue(e) /\ Wake

HandlerInit == pending = <<>> /\ handler = "check"

\* The oldest event leaves the queue; the caller of Take dispatches it.
Take == handler = "check" /\ pending # <<>> /\ pending' = Tail(pending) /\ UNCHANGED handler

\* eventQueueHasPending answered no; pthread_cond_wait has not begun.
FindNone == handler = "check" /\ pending = <<>> /\ handler' = "block" /\ UNCHANGED pending

Block == handler = "block" /\ handler' = "wait" /\ UNCHANGED pending

\* pthread_cond_wait may return without a signal.
WakeSpuriously == handler = "wait" /\ handler' = "check" /\ UNCHANGED pending
=============================================================================
