------------------------------- MODULE Queue -------------------------------
(***************************************************************************)
(* The bounded queue of lib/queue.c at the grain of its mutex and its two  *)
(* condition variables.  A call locks the mutex, runs its body (the test   *)
(* of the loop and what follows it, up to the unlock or the wait), unlocks *)
(* and only then signals.                                                  *)
(***************************************************************************)
EXTENDS Integers, Sequences, FiniteSets

CONSTANTS
  Adders, Takers,   \* the threads that call queue_add, queue_take
  Items,            \* the pointers that are queued
  Junk,             \* the value of a pointer that has not been set
  cap               \* the capacity given to queue_create

VARIABLES
  lo, hi, sz,   \* indexes of the oldest element and the next free slot; size
  data,         \* the ring of cap slots
  mutex,        \* the thread that holds the mutex, or Free
  pc,           \* thread -> where it is in its call
  call          \* thread -> the call it is in

vars == <<lo, hi, sz, data, mutex, pc, call>>

(* The content of the ring, oldest first, and a call's progress as its     *)
(* caller can tell it.                                                     *)
Content == [i \in 1 .. sz |-> data[(lo + i - 1) % cap]]

StageOf(p) == CASE p = "idle" -> "idle"
                [] p \in {"lock", "body", "wait"} -> "called"
                [] p \in {"unlock", "signal"} -> "done"

Abstract == INSTANCE Fifo WITH items <- Content, call <- call,
              stage <- [t \in Adders \cup Takers |-> StageOf(pc[t])]

Threads == Adders \cup Takers

Free == "free"

ASSUME CapAssumption == cap \in Nat \ {0}
ASSUME JunkAssumption == Junk \notin Items
ASSUME ThreadsAssumption == Free \notin Threads /\ IsFiniteSet(Threads)

AddOf(e, block) == Abstract!AddOf(e, block)
TakeOf(block) == Abstract!TakeOf(block)
NoOp == Abstract!NoOp

queue_create ==
  /\ lo = 0 /\ hi = 0 /\ sz = 0
  /\ data = [i \in 0 .. cap - 1 |-> Junk]
  /\ mutex = Free
  /\ pc = [t \in Threads |-> "idle"]
  /\ call = [t \in Threads |-> NoOp]

(* Mutants: no wrap; a wrap one slot too early. *)
After_NoWrap(i) == i + 1

After_Early(i) == (i + 1) % (cap - 1)

(* The slot after slot i of the ring. *)
After(i) == (i + 1) % cap

Goto(t, p) == pc' = [pc EXCEPT ![t] = p]

Enter(t, op) ==
  /\ pc[t] = "idle"
  /\ Goto(t, "lock")
  /\ call' = [call EXCEPT ![t] = op]
  /\ UNCHANGED <<lo, hi, sz, data, mutex>>

(* pthread_mutex_lock, at the start of a call or in pthread_cond_wait. *)
Lock(t) ==
  /\ pc[t] = "lock"
  /\ mutex = Free
  /\ mutex' = t
  /\ Goto(t, "body")
  /\ UNCHANGED <<lo, hi, sz, data, call>>

(* Mutant: the mutex is kept while waiting. *)
Wait_KeepsMutex(t) ==
  /\ Goto(t, "wait")
  /\ UNCHANGED <<lo, hi, sz, data, mutex, call>>

(* pthread_cond_wait gives the mutex up and starts to wait in one step. *)
Wait(t) ==
  /\ mutex' = Free
  /\ Goto(t, "wait")
  /\ UNCHANGED <<lo, hi, sz, data, call>>

(* Mutant: the result is not set. *)
Fails_AsOk(t, err) ==
  /\ Goto(t, "unlock")
  /\ UNCHANGED <<lo, hi, sz, data, mutex, call>>

(* The body ends with result err and no element moved. *)
Fails(t, err) ==
  /\ call' = [call EXCEPT ![t].err = err]
  /\ Goto(t, "unlock")
  /\ UNCHANGED <<lo, hi, sz, data, mutex>>

queue_add(t) ==
  /\ pc[t] = "body" /\ call[t].kind = "add"
  /\ IF sz = cap
       THEN IF call[t].block THEN Wait(t) ELSE Fails(t, "QFULL")
       ELSE /\ data' = [data EXCEPT ![hi] = call[t].e]
            /\ hi' = After(hi)
            /\ sz' = sz + 1
            /\ call' = [call EXCEPT ![t].err = "QOK"]
            /\ Goto(t, "unlock")
            /\ UNCHANGED <<lo, mutex>>

queue_take(t) ==
  /\ pc[t] = "body" /\ call[t].kind = "take"
  /\ IF sz = 0
       THEN IF call[t].block THEN Wait(t) ELSE Fails(t, "QEMPTY")
       ELSE /\ call' = [call EXCEPT ![t].e = data[lo], ![t].err = "QOK"]
            /\ lo' = After(lo)
            /\ sz' = sz - 1
            /\ Goto(t, "unlock")
            /\ UNCHANGED <<hi, data, mutex>>

Unlock(t) ==
  /\ pc[t] = "unlock"
  /\ mutex' = Free
  /\ Goto(t, "signal")
  /\ UNCHANGED <<lo, hi, sz, data, call>>

(* The threads that wait on conde ("add") or on condf ("take"). *)
Waiting(kind) == {t \in Threads : pc[t] = "wait" /\ call[t].kind = kind}

(* Mutants: a call signals its own condition; every call signals condf;    *)
(* every call signals conde.                                               *)
Other_Own(kind) == kind

Other_Takers(kind) == "take"

Other_Adders(kind) == "add"

(* The kind of call that waits on the condition a call signals. *)
Other(kind) == IF kind = "add" THEN "take" ELSE "add"

(* pthread_cond_signal wakes one waiter, when there is one, whatever the   *)
(* result of the call; then the call returns.                              *)
Signal(t) ==
  LET waiters == Waiting(Other(call[t].kind)) IN
  /\ pc[t] = "signal"
  /\ \/ /\ waiters = {}
        /\ Goto(t, "idle")
     \/ \E w \in waiters : pc' = [pc EXCEPT ![t] = "idle", ![w] = "lock"]
  /\ call' = [call EXCEPT ![t] = NoOp]
  /\ UNCHANGED <<lo, hi, sz, data, mutex>>

(* POSIX lets pthread_cond_wait return without a signal. *)
Spurious(t) ==
  /\ pc[t] = "wait"
  /\ Goto(t, "lock")
  /\ UNCHANGED <<lo, hi, sz, data, mutex, call>>

Step(t) == Lock(t) \/ queue_add(t) \/ queue_take(t) \/ Unlock(t) \/ Signal(t)

Next ==
  \/ \E t \in Adders, e \in Items, block \in BOOLEAN : Enter(t, AddOf(e, block))
  \/ \E t \in Takers, block \in BOOLEAN : Enter(t, TakeOf(block))
  \/ \E t \in Threads : Step(t) \/ Spurious(t)

Spec == queue_create /\ [][Next]_vars

(* The scheduler runs every thread, and no thread that asks for the mutex  *)
(* again and again is passed over for ever.  Nothing makes a thread call.  *)
FairSpec ==
  Spec /\ \A t \in Threads :
            /\ WF_vars(queue_add(t) \/ queue_take(t) \/ Unlock(t) \/ Signal(t))
            /\ SF_vars(Lock(t))
----------------------------------------------------------------------------
TypeOK ==
  /\ lo \in 0 .. cap - 1 /\ hi \in 0 .. cap - 1 /\ sz \in 0 .. cap
  /\ data \in [0 .. cap - 1 -> Items \cup {Junk}]
  /\ mutex \in Threads \cup {Free}
  /\ pc \in [Threads -> {"idle", "lock", "body", "wait", "unlock", "signal"}]
  /\ call \in [Threads -> Abstract!Ops]

(* MutualExclusion: the ring is touched by the thread that holds the mutex *)
(* only: exactly that thread is between its lock and its unlock or wait.   *)
MutualExclusion ==
  \A t \in Threads : pc[t] \in {"body", "unlock"} <=> mutex = t

(* RingSound: hi is sz slots after lo, around the end of the ring, and the *)
(* slots from lo to hi hold pointers that were added.                      *)
RingSound ==
  /\ hi = (lo + sz) % cap
  /\ \A i \in 0 .. sz - 1 : data[(lo + i) % cap] \in Items

(* The calls of a kind that are about to test the loop's condition, and    *)
(* those that are about to signal the other kind.                          *)
Active(kind) ==
  {t \in Threads : pc[t] \in {"lock", "body"} /\ call[t].kind = kind}

Signalling(kind) ==
  {t \in Threads : pc[t] \in {"unlock", "signal"} /\ call[t].kind = kind}

(* NoLostWakeup: while a thread waits for an element, every element in the *)
(* queue is accounted for by a taker already awake or by a signal still to *)
(* come; the same of free slots for a thread that waits to add.  So        *)
(* signalling after the unlock, with other threads in between, loses no    *)
(* wakeup (queue_add, queue_take).                                         *)
NoLostWakeup ==
  /\ Waiting("take") # {} =>
       sz <= Cardinality(Active("take")) + Cardinality(Signalling("add"))
  /\ Waiting("add") # {} =>
       cap - sz <= Cardinality(Active("add")) + Cardinality(Signalling("take"))

(* Linearizable: the queue implements the bounded FIFO of Fifo. *)
Linearizable == Abstract!FifoSpec

(* The calls of a kind that have taken effect and are returning. *)
Done(kind) == Signalling(kind)

(* TakesProgress: while an element is there for a thread that wants one,   *)
(* some call of queue_take gets one or the queue is emptied.  AddsProgress *)
(* is the same of free slots: nobody sleeps through what it waits for.     *)
TakesProgress ==
  (sz > 0 /\ Active("take") \cup Waiting("take") # {}) ~>
    (sz = 0 \/ Done("take") # {})

AddsProgress ==
  (sz < cap /\ Active("add") \cup Waiting("add") # {}) ~>
    (sz = cap \/ Done("add") # {})
=============================================================================
