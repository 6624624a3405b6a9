------------------------------- MODULE Channel -------------------------------
(***************************************************************************)
(* What one direction of a CTaskPipe (service/include/taskpipe.h) promises *)
(* to the two threads it joins: an asynchronous FIFO of task pointers.     *)
(* Nothing is lost, duplicated or reordered, and while more than Slack     *)
(* items are in it one of them is eventually delivered.  Up to Slack items *)
(* may be held back until another item is pushed; PipeQueue shows that     *)
(* this slack is real and how large it is.                                 *)
(***************************************************************************)
EXTENDS Naturals, Sequences

CONSTANTS Item,   \* what travels through the channel
          Slack   \* a natural number: how many items the channel may hold back

VARIABLE queue    \* the items pushed and not yet delivered, oldest first

Init == queue = <<>>

Push(x) == queue' = Append(queue, x)

Deliver == /\ queue # <<>>
           /\ queue' = Tail(queue)

Next == (\E x \in Item : Push(x)) \/ Deliver

(* The part of the promise that one step can break. *)
Safety == Init /\ [][Next]_queue

(* The obligation to deliver, above the slack only. *)
Progress == WF_queue(Len(queue) > Slack /\ Deliver)

Spec == Safety /\ Progress
==============================================================================
