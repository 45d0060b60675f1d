-------------------------------- MODULE Fifo --------------------------------
(***************************************************************************)
(* What lib/queue.c promises its callers: a bounded first-in first-out     *)
(* sequence on which every call of queue_add and queue_take takes effect   *)
(* at one instant between its call and its return.                         *)
(***************************************************************************)
EXTENDS Integers, Sequences

CONSTANTS
  Adders, Takers,   \* the threads that call queue_add, queue_take
  Items,            \* the pointers that are queued
  Junk,             \* the value of a pointer that has not been set
  cap               \* the capacity given to queue_create

Threads == Adders \cup Takers

(* A call in progress: its kind and block argument, the pointer (the one   *)
(* to add, or what queue_take has stored through p), and the result.       *)
Ops == [kind : {"add", "take"}, block : BOOLEAN, e : Items \cup {Junk},
        err : {"QOK", "QFULL", "QEMPTY"}]

AddOf(e, block) == [kind |-> "add", block |-> block, e |-> e, err |-> "QOK"]

TakeOf(block) == [kind |-> "take", block |-> block, e |-> Junk, err |-> "QOK"]

NoOp == TakeOf(FALSE)

VARIABLES
  items,   \* what is queued, oldest first
  stage,   \* thread -> "idle", "called" or "done"
  call     \* thread -> the call it is in

fifoVars == <<items, stage, call>>

FifoInit ==
  /\ items = <<>>
  /\ stage = [t \in Threads |-> "idle"]
  /\ call = [t \in Threads |-> NoOp]

Call(t, op) ==
  /\ stage[t] = "idle"
  /\ stage' = [stage EXCEPT ![t] = "called"]
  /\ call' = [call EXCEPT ![t] = op]
  /\ UNCHANGED items

(* The instant at which t's call takes effect. *)
Apply(t) ==
  /\ stage[t] = "called"
  /\ stage' = [stage EXCEPT ![t] = "done"]
  /\ \/ /\ call[t].kind = "add" /\ Len(items) < cap
        /\ items' = Append(items, call[t].e)
        /\ call' = [call EXCEPT ![t].err = "QOK"]
     \/ /\ call[t].kind = "add" /\ Len(items) = cap /\ ~ call[t].block
        /\ call' = [call EXCEPT ![t].err = "QFULL"]
        /\ UNCHANGED items
     \/ /\ call[t].kind = "take" /\ items # <<>>
        /\ items' = Tail(items)
        /\ call' = [call EXCEPT ![t].e = Head(items), ![t].err = "QOK"]
     \/ /\ call[t].kind = "take" /\ items = <<>> /\ ~ call[t].block
        /\ call' = [call EXCEPT ![t].err = "QEMPTY"]
        /\ UNCHANGED items

Return(t) ==
  /\ stage[t] = "done"
  /\ stage' = [stage EXCEPT ![t] = "idle"]
  /\ call' = [call EXCEPT ![t] = NoOp]
  /\ UNCHANGED items

FifoNext ==
  \/ \E t \in Adders, e \in Items, block \in BOOLEAN : Call(t, AddOf(e, block))
  \/ \E t \in Takers, block \in BOOLEAN : Call(t, TakeOf(block))
  \/ \E t \in Threads : Apply(t) \/ Return(t)

FifoSpec == FifoInit /\ [][FifoNext]_fifoVars
=============================================================================
