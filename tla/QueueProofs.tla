---------------------------- MODULE QueueProofs ----------------------------
(***************************************************************************)
(* Theorems about Queue, for every capacity and every finite set of        *)
(* threads.                                                                *)
(***************************************************************************)
EXTENDS Queue, TLAPS, FiniteSetTheorems, SequenceTheorems

(* The index arithmetic of the ring: adding to an index and reducing       *)
(* modulo cap wraps at most once.                                          *)
LEMMA ModWrap ==
  ASSUME NEW x \in 0 .. 2 * cap - 1
  PROVE  x % cap = IF x < cap THEN x ELSE x - cap
  BY CapAssumption

LEMMA ModRange ==
  ASSUME NEW x \in Nat
  PROVE  x % cap \in 0 .. cap - 1
  BY CapAssumption

LEMMA ModStep ==
  ASSUME NEW l \in 0 .. cap - 1, NEW s \in 0 .. cap - 1
  PROVE  /\ (((l + s) % cap) + 1) % cap = (l + (s + 1)) % cap
         /\ (((l + 1) % cap) + s) % cap = (l + (s + 1)) % cap
<1> DEFINE Wrap(x) == IF x < cap THEN x ELSE x - cap
<1>1. /\ cap \in Nat /\ cap > 0
      /\ l + s \in 0 .. 2 * cap - 1
      /\ l + 1 \in 0 .. 2 * cap - 1
      /\ l + (s + 1) \in 0 .. 2 * cap - 1
      /\ Wrap(l + s) + 1 \in 0 .. 2 * cap - 1
      /\ Wrap(l + 1) + s \in 0 .. 2 * cap - 1
  BY CapAssumption
<1>2. \A x \in 0 .. 2 * cap - 1 : x % cap = Wrap(x)
  BY ModWrap
<1>3. Wrap(Wrap(l + s) + 1) = Wrap(l + (s + 1)) /\ Wrap(Wrap(l + 1) + s) = Wrap(l + (s + 1))
  BY <1>1
<1> HIDE DEF Wrap
<1> QED
  BY <1>1, <1>2, <1>3

(* Fewer than cap slots after lo, no two of them are the same. *)
LEMMA ModDistinct ==
  ASSUME NEW l \in 0 .. cap - 1, NEW s \in 0 .. cap - 1, NEW i \in 0 .. s - 1
  PROVE  (l + i) % cap # (l + s) % cap
<1>1. cap \in Nat /\ cap > 0 /\ l + s \in 0 .. 2 * cap - 1 /\ l + i \in 0 .. 2 * cap - 1
  BY CapAssumption
<1>2. /\ (l + s) % cap = IF l + s < cap THEN l + s ELSE l + s - cap
      /\ (l + i) % cap = IF l + i < cap THEN l + i ELSE l + i - cap
  BY <1>1, ModWrap
<1> QED
  BY <1>1, <1>2
----------------------------------------------------------------------------
(* CarriesItem: a thread that adds carries a pointer of its caller's. *)
CarriesItem ==
  \A t \in Threads :
    (pc[t] # "idle" /\ call[t].kind = "add") => call[t].e \in Items

(* The inductive invariant: RingSound needs to know what is added. *)
IInv == TypeOK /\ MutualExclusion /\ RingSound /\ CarriesItem

(* A request is what Next lets a thread start a call with. *)
Request(op) == op \in Abstract!Ops /\ (op.kind = "add" => op.e \in Items)

LEMMA NextSteps ==
  ASSUME Next
  PROVE  \E t \in Threads :
           \/ \E op : Request(op) /\ Enter(t, op)
           \/ Lock(t) \/ queue_add(t) \/ queue_take(t) \/ Unlock(t)
           \/ Signal(t) \/ Spurious(t)
<1>1. CASE \E t \in Adders, e \in Items, block \in BOOLEAN : Enter(t, AddOf(e, block))
  <2>1. PICK t \in Adders, e \in Items, block \in BOOLEAN : Enter(t, AddOf(e, block))
    BY <1>1
  <2>2. Request(AddOf(e, block))
    BY DEF Request, AddOf, Abstract!AddOf, Abstract!Ops
  <2> QED
    BY <2>1, <2>2 DEF Threads
<1>2. CASE \E t \in Takers, block \in BOOLEAN : Enter(t, TakeOf(block))
  <2>1. PICK t \in Takers, block \in BOOLEAN : Enter(t, TakeOf(block))
    BY <1>2
  <2>2. Request(TakeOf(block))
    BY DEF Request, TakeOf, Abstract!TakeOf, Abstract!Ops
  <2> QED
    BY <2>1, <2>2 DEF Threads
<1> QED
  BY <1>1, <1>2 DEF Next, Step

LEMMA NoOpIsOp == NoOp \in Abstract!Ops
  BY DEF NoOp, Abstract!NoOp, Abstract!TakeOf, Abstract!Ops

LEMMA InitIInv == queue_create => IInv
<1> SUFFICES ASSUME queue_create PROVE IInv
  OBVIOUS
<1>1. TypeOK
  BY NoOpIsOp, CapAssumption DEF queue_create, TypeOK
<1>2. MutualExclusion
  BY ThreadsAssumption DEF queue_create, MutualExclusion
<1>3. RingSound
  BY CapAssumption, ModWrap DEF queue_create, RingSound
<1>4. CarriesItem
  BY DEF queue_create, CarriesItem
<1> QED
  BY <1>1, <1>2, <1>3, <1>4 DEF IInv

LEMMA NextTypeOK == IInv /\ [Next]_vars => TypeOK'
<1> SUFFICES ASSUME IInv, [Next]_vars PROVE TypeOK'
  OBVIOUS
<1> USE DEF IInv, TypeOK, Goto
<1>a. cap \in Nat /\ cap > 0 /\ lo + 1 \in Nat /\ hi + 1 \in Nat
  BY CapAssumption
<1>0. (lo + 1) % cap \in 0 .. cap - 1 /\ (hi + 1) % cap \in 0 .. cap - 1
  BY <1>a, ModRange
<1>1. CASE UNCHANGED vars
  BY <1>1 DEF vars
<1>2. ASSUME NEW t \in Threads, NEW op \in Abstract!Ops, Enter(t, op) PROVE TypeOK'
  BY <1>2 DEF Enter
<1>3. ASSUME NEW t \in Threads, Lock(t) PROVE TypeOK'
  BY <1>3 DEF Lock
<1>4. ASSUME NEW t \in Threads, queue_add(t) PROVE TypeOK'
  <2>1. CASE Wait(t)
    BY <2>1 DEF Wait
  <2>2. CASE Fails(t, "QFULL")
    BY <2>2 DEF Fails, Abstract!Ops
  <2>3. CASE sz # cap
    <3>1. call' \in [Threads -> Abstract!Ops]
      BY <1>4, <2>3 DEF queue_add, Abstract!Ops
    <3>2. data' \in [0 .. cap - 1 -> Items \cup {Junk}]
      BY <1>4, <2>3 DEF queue_add, Abstract!Ops
    <3>3. sz' \in 0 .. cap
      BY <1>a, <1>4, <2>3 DEF queue_add
    <3> QED
      BY <1>0, <1>4, <2>3, <3>1, <3>2, <3>3 DEF queue_add, After
  <2> QED
    BY <1>4, <2>1, <2>2, <2>3 DEF queue_add
<1>5. ASSUME NEW t \in Threads, queue_take(t) PROVE TypeOK'
  <2>1. CASE Wait(t)
    BY <2>1 DEF Wait
  <2>2. CASE Fails(t, "QEMPTY")
    BY <2>2 DEF Fails, Abstract!Ops
  <2>3. CASE sz # 0
    <3>1. call' \in [Threads -> Abstract!Ops]
      BY <1>5, <2>3 DEF queue_take, Abstract!Ops
    <3>2. sz' \in 0 .. cap
      BY <1>a, <1>5, <2>3 DEF queue_take
    <3> QED
      BY <1>0, <1>5, <2>3, <3>1, <3>2 DEF queue_take, After
  <2> QED
    BY <1>5, <2>1, <2>2, <2>3 DEF queue_take
<1>6. ASSUME NEW t \in Threads, Unlock(t) PROVE TypeOK'
  BY <1>6 DEF Unlock
<1>7. ASSUME NEW t \in Threads, Signal(t) PROVE TypeOK'
  BY <1>7, NoOpIsOp DEF Signal, Waiting
<1>8. ASSUME NEW t \in Threads, Spurious(t) PROVE TypeOK'
  BY <1>8 DEF Spurious
<1> QED
  BY <1>1, <1>2, <1>3, <1>4, <1>5, <1>6, <1>7, <1>8, NextSteps DEF Request

LEMMA NextMutualExclusion == IInv /\ [Next]_vars => MutualExclusion'
<1> SUFFICES ASSUME IInv, [Next]_vars PROVE MutualExclusion'
  OBVIOUS
<1> USE ThreadsAssumption DEF IInv, TypeOK, MutualExclusion, Goto
<1>1. CASE UNCHANGED vars
  BY <1>1 DEF vars
<1>2. ASSUME NEW t \in Threads, NEW op, Enter(t, op) PROVE MutualExclusion'
  BY <1>2 DEF Enter
<1>3. ASSUME NEW t \in Threads, Lock(t) PROVE MutualExclusion'
  BY <1>3 DEF Lock
<1>4. ASSUME NEW t \in Threads, queue_add(t) PROVE MutualExclusion'
  BY <1>4 DEF queue_add, Wait, Fails
<1>5. ASSUME NEW t \in Threads, queue_take(t) PROVE MutualExclusion'
  BY <1>5 DEF queue_take, Wait, Fails
<1>6. ASSUME NEW t \in Threads, Unlock(t) PROVE MutualExclusion'
  BY <1>6 DEF Unlock
<1>7. ASSUME NEW t \in Threads, Signal(t) PROVE MutualExclusion'
  BY <1>7 DEF Signal, Waiting
<1>8. ASSUME NEW t \in Threads, Spurious(t) PROVE MutualExclusion'
  BY <1>8 DEF Spurious
<1> QED
  BY <1>1, <1>2, <1>3, <1>4, <1>5, <1>6, <1>7, <1>8, NextSteps

LEMMA NextCarriesItem == IInv /\ [Next]_vars => CarriesItem'
<1> SUFFICES ASSUME IInv, [Next]_vars PROVE CarriesItem'
  OBVIOUS
<1> USE DEF IInv, TypeOK, CarriesItem, Goto
<1>1. CASE UNCHANGED vars
  BY <1>1 DEF vars
<1>2. ASSUME NEW t \in Threads, NEW op, Request(op), Enter(t, op) PROVE CarriesItem'
  BY <1>2 DEF Enter, Request
<1>3. ASSUME NEW t \in Threads, Lock(t) PROVE CarriesItem'
  BY <1>3 DEF Lock
<1>4. ASSUME NEW t \in Threads, queue_add(t) PROVE CarriesItem'
  BY <1>4 DEF queue_add, Wait, Fails, Abstract!Ops
<1>5. ASSUME NEW t \in Threads, queue_take(t) PROVE CarriesItem'
  BY <1>5 DEF queue_take, Wait, Fails, Abstract!Ops
<1>6. ASSUME NEW t \in Threads, Unlock(t) PROVE CarriesItem'
  BY <1>6 DEF Unlock
<1>7. ASSUME NEW t \in Threads, Signal(t) PROVE CarriesItem'
  BY <1>7 DEF Signal, Waiting
<1>8. ASSUME NEW t \in Threads, Spurious(t) PROVE CarriesItem'
  BY <1>8 DEF Spurious
<1> QED
  BY <1>1, <1>2, <1>3, <1>4, <1>5, <1>6, <1>7, <1>8, NextSteps

(* The two steps that move an element, and what they do to the ring. *)
Stores(e) ==
  /\ sz # cap
  /\ data' = [data EXCEPT ![hi] = e]
  /\ hi' = (hi + 1) % cap /\ sz' = sz + 1 /\ lo' = lo

Removes ==
  /\ sz # 0
  /\ lo' = (lo + 1) % cap /\ sz' = sz - 1 /\ UNCHANGED <<hi, data>>

LEMMA StoresRingSound ==
  ASSUME TypeOK, RingSound, NEW e \in Items, Stores(e)
  PROVE  RingSound'
<1>1. cap \in Nat /\ lo \in 0 .. cap - 1 /\ sz \in 0 .. cap - 1 /\ hi = (lo + sz) % cap
  BY CapAssumption DEF TypeOK, RingSound, Stores
<1>2. hi' = (lo' + sz') % cap
  BY <1>1, ModStep DEF Stores
<1>3. ASSUME NEW i \in 0 .. sz' - 1 PROVE data'[(lo' + i) % cap] \in Items
  <2>1. CASE i = sz
    BY <1>1, <2>1 DEF Stores, TypeOK
  <2>2. CASE i # sz
    <3>1. i \in 0 .. sz - 1
      BY <1>1, <1>3, <2>2 DEF Stores
    <3>2. lo + i \in Nat
      BY <1>1, <3>1
    <3>3. (lo + i) % cap # hi /\ (lo + i) % cap \in 0 .. cap - 1
      BY <1>1, <3>1, <3>2, ModDistinct, ModRange
    <3> QED
      BY <3>1, <3>3 DEF Stores, TypeOK, RingSound
  <2> QED
    BY <2>1, <2>2
<1> QED
  BY <1>2, <1>3 DEF RingSound

LEMMA RemovesRingSound ==
  ASSUME TypeOK, RingSound, Removes
  PROVE  RingSound'
<1>1. cap \in Nat /\ lo \in 0 .. cap - 1 /\ sz - 1 \in 0 .. cap - 1
  BY CapAssumption DEF TypeOK, Removes
<1>2. hi' = (lo' + sz') % cap
  <2>1. (((lo + 1) % cap) + (sz - 1)) % cap = (lo + ((sz - 1) + 1)) % cap
    BY <1>1, ModStep
  <2>2. (sz - 1) + 1 = sz
    BY <1>1 DEF TypeOK
  <2> QED
    BY <2>1, <2>2 DEF Removes, RingSound
<1>3. ASSUME NEW i \in 0 .. sz' - 1 PROVE data'[(lo' + i) % cap] \in Items
  <2>1. i \in 0 .. cap - 1 /\ i + 1 \in 0 .. sz - 1
    BY <1>1, <1>3 DEF Removes, TypeOK
  <2>2. (lo' + i) % cap = (lo + (i + 1)) % cap
    BY <1>1, <2>1, ModStep DEF Removes
  <2> QED
    BY <2>1, <2>2 DEF Removes, RingSound
<1> QED
  BY <1>2, <1>3 DEF RingSound

LEMMA NextRingSound == IInv /\ [Next]_vars => RingSound'
<1> SUFFICES ASSUME IInv, [Next]_vars PROVE RingSound'
  OBVIOUS
<1>1. CASE UNCHANGED <<lo, hi, sz, data>>
  BY <1>1 DEF IInv, RingSound
<1>2. ASSUME NEW t \in Threads, queue_add(t) PROVE RingSound'
  <2>1. call[t].e \in Items
    BY <1>2 DEF queue_add, IInv, CarriesItem
  <2>2. UNCHANGED <<lo, hi, sz, data>> \/ Stores(call[t].e)
    BY <1>2 DEF queue_add, Wait, Fails, Stores, After
  <2> QED
    BY <1>1, <2>1, <2>2, StoresRingSound DEF IInv
<1>3. ASSUME NEW t \in Threads, queue_take(t) PROVE RingSound'
  <2>1. UNCHANGED <<lo, hi, sz, data>> \/ Removes
    BY <1>3 DEF queue_take, Wait, Fails, Removes, After
  <2> QED
    BY <1>1, <2>1, RemovesRingSound DEF IInv
<1> QED
  BY <1>1, <1>2, <1>3, NextSteps
  DEF vars, Enter, Lock, Unlock, Signal, Spurious

THEOREM QueueInvariant == Spec => []IInv
<1>1. IInv /\ [Next]_vars => IInv'
  BY NextTypeOK, NextMutualExclusion, NextRingSound, NextCarriesItem DEF IInv
<1> QED
  BY <1>1, InitIInv, PTL DEF Spec

(* Every reachable state of the queue has its type, with the indexes       *)
(* within the ring and sz at most cap.                                     *)
THEOREM QueueTypeOK == Spec => []TypeOK
  BY QueueInvariant, PTL DEF IInv

(* Between lock and unlock, or wait, there is one thread at a time. *)
THEOREM QueueMutualExclusion == Spec => []MutualExclusion
  BY QueueInvariant, PTL DEF IInv

(* The indexes agree with the size and the occupied slots hold pointers    *)
(* that were added, however often the indexes wrap.                        *)
THEOREM QueueRingSound == Spec => []RingSound
  BY QueueInvariant, PTL DEF IInv
----------------------------------------------------------------------------
(* No wakeup is lost.  Room(k) is what a call of kind k needs to proceed.  *)
Kinds == {"add", "take"}

Room(k) == IF k = "take" THEN sz ELSE cap - sz

Covered(k) ==
  Waiting(k) # {} =>
    Room(k) <= Cardinality(Active(k)) + Cardinality(Signalling(Other(k)))

LEMMA NoLostWakeupIsCovered == NoLostWakeup <=> \A k \in Kinds : Covered(k)
  BY DEF NoLostWakeup, Covered, Kinds, Room, Other

LEMMA GroupsFinite ==
  ASSUME NEW k
  PROVE  /\ IsFiniteSet(Active(k)) /\ IsFiniteSet(Signalling(k))
         /\ Cardinality(Active(k)) \in Nat /\ Cardinality(Signalling(k)) \in Nat
         /\ IsFiniteSet(Active(k)') /\ IsFiniteSet(Signalling(k)')
         /\ Cardinality(Active(k)') \in Nat /\ Cardinality(Signalling(k)') \in Nat
<1>1. /\ Active(k) \subseteq Threads /\ Signalling(k) \subseteq Threads
      /\ Active(k)' \subseteq Threads /\ Signalling(k)' \subseteq Threads
  BY DEF Active, Signalling
<1> QED
  BY <1>1, ThreadsAssumption, FS_Subset, FS_CardinalityType

LEMMA Joins ==
  ASSUME NEW S, IsFiniteSet(S), NEW t, t \notin S
  PROVE  Cardinality(S \cup {t}) = Cardinality(S) + 1
  BY FS_AddElement

LEMMA Leaves ==
  ASSUME NEW S, IsFiniteSet(S), NEW t \in S
  PROVE  Cardinality(S \ {t}) = Cardinality(S) - 1
  BY FS_RemoveElement

LEMMA OtherKind ==
  ASSUME NEW j \in Kinds
  PROVE  /\ Other(j) \in Kinds /\ Other(j) # j /\ Other(Other(j)) = j
         /\ \A k \in Kinds : k = j \/ k = Other(j)
  BY DEF Kinds, Other

(* A body that moves an element: t stops being active and is to signal. *)
LEMMA MovesCovered ==
  ASSUME TypeOK, NoLostWakeup, NEW t \in Threads, NEW j \in Kinds,
         pc[t] = "body", call[t].kind = j,
         pc' = [pc EXCEPT ![t] = "unlock"],
         \A u \in Threads : call'[u].kind = call[u].kind,
         sz' \in Int, Room(j)' = Room(j) - 1, Room(Other(j))' = Room(Other(j)) + 1
  PROVE  NoLostWakeup'
<1>1. /\ Active(j)' = Active(j) \ {t} /\ t \in Active(j)
      /\ Signalling(j)' = Signalling(j) \cup {t} /\ t \notin Signalling(j)
      /\ Active(Other(j))' = Active(Other(j))
      /\ Signalling(Other(j))' = Signalling(Other(j))
      /\ Waiting(j)' = Waiting(j) /\ Waiting(Other(j))' = Waiting(Other(j))
  BY OtherKind DEF TypeOK, Active, Signalling, Waiting
<1>2. /\ Cardinality(Active(j)') = Cardinality(Active(j)) - 1
      /\ Cardinality(Signalling(j)') = Cardinality(Signalling(j)) + 1
  BY <1>1, GroupsFinite, Joins, Leaves
<1>3. \A k \in Kinds : Room(k) \in Int
  BY CapAssumption DEF Kinds, Room, TypeOK
<1>4. Covered(j) /\ Covered(Other(j))
  BY NoLostWakeupIsCovered, OtherKind
<1>5. Covered(j)'
  BY <1>1, <1>2, <1>3, <1>4, GroupsFinite, OtherKind DEF Covered
<1>6. Covered(Other(j))'
  <2>1. SUFFICES ASSUME Waiting(Other(j)) # {}
        PROVE  Room(Other(j))' <= Cardinality(Active(Other(j))') + Cardinality(Signalling(j)')
    BY <1>1, OtherKind DEF Covered
  <2>2. Room(Other(j)) <= Cardinality(Active(Other(j))) + Cardinality(Signalling(j))
    BY <1>4, <2>1, OtherKind DEF Covered
  <2>3. Room(Other(j)) \in Int
    BY <1>3, OtherKind
  <2>4. Cardinality(Active(Other(j))) \in Nat /\ Cardinality(Signalling(j)) \in Nat
    BY GroupsFinite
  <2> QED
    BY <1>1, <1>2, <2>2, <2>3, <2>4
<1>7. \A k \in Kinds : Covered(k)'
  BY <1>5, <1>6, OtherKind
<1> QED
  BY <1>7 DEF NoLostWakeup, Covered, Kinds, Room, Other

(* A body that moves nothing has nothing to take or no slot to fill. *)
LEMMA StaysCovered ==
  ASSUME TypeOK, NoLostWakeup, NEW t \in Threads, NEW j \in Kinds,
         pc[t] = "body", call[t].kind = j, Room(j) = 0,
         NEW p \in {"wait", "unlock"}, pc' = [pc EXCEPT ![t] = p],
         \A u \in Threads : call'[u].kind = call[u].kind, sz' = sz
  PROVE  NoLostWakeup'
<1>1. /\ Signalling(j) \subseteq Signalling(j)'
      /\ Active(Other(j))' = Active(Other(j))
      /\ Waiting(Other(j))' = Waiting(Other(j))
  BY OtherKind DEF TypeOK, Active, Signalling, Waiting
<1>2. Cardinality(Signalling(j)) <= Cardinality(Signalling(j)')
  BY <1>1, GroupsFinite, FS_Subset
<1>3. \A k \in Kinds : Room(k) \in Int /\ Room(k)' = Room(k)
  BY CapAssumption DEF Kinds, Room, TypeOK
<1>4. \A k : Cardinality(Active(k)') \in Nat /\ Cardinality(Signalling(k)') \in Nat
  BY GroupsFinite
<1>5. Covered(j)'
  BY <1>3, <1>4 DEF Covered
<1>6. Covered(Other(j))'
  BY <1>1, <1>2, <1>3, <1>4, GroupsFinite, OtherKind, NoLostWakeupIsCovered DEF Covered
<1>7. \A k \in Kinds : Covered(k)'
  BY <1>5, <1>6, OtherKind
<1> QED
  BY <1>7 DEF NoLostWakeup, Covered, Kinds, Room, Other

(* A step that wakes nobody it should not and takes no cover away. *)
LEMMA KeepsCovered ==
  ASSUME TypeOK, NoLostWakeup, sz' = sz,
         \A k \in Kinds :
           /\ Waiting(k)' \subseteq Waiting(k)
           /\ Active(k) \subseteq Active(k)'
           /\ Signalling(k) \subseteq Signalling(k)'
  PROVE  NoLostWakeup'
<1>1. ASSUME NEW k \in Kinds PROVE Covered(k)'
  <2>1. SUFFICES ASSUME Waiting(k) # {}
        PROVE  Room(k)' <= Cardinality(Active(k)') + Cardinality(Signalling(Other(k))')
    BY OtherKind DEF Covered
  <2>2. Room(k) <= Cardinality(Active(k)) + Cardinality(Signalling(Other(k)))
    BY <2>1, NoLostWakeupIsCovered DEF Covered
  <2>3. Room(k) \in Int /\ Room(k)' = Room(k)
    BY CapAssumption DEF Room, TypeOK
  <2>4. /\ Cardinality(Active(k)) <= Cardinality(Active(k)')
        /\ Cardinality(Signalling(Other(k))) <= Cardinality(Signalling(Other(k))')
    BY GroupsFinite, FS_Subset, OtherKind
  <2> QED
    BY <2>2, <2>3, <2>4, GroupsFinite
<1> QED
  BY <1>1 DEF NoLostWakeup, Covered, Kinds, Room, Other

LEMMA SignalCovered ==
  ASSUME TypeOK, NoLostWakeup, NEW t \in Threads, Signal(t)
  PROVE  NoLostWakeup'
<1>1. PICK j \in Kinds : j = call[t].kind
  BY DEF TypeOK, Abstract!Ops, Kinds
<1> DEFINE o == Other(j)
<1>2. o \in Kinds /\ o # j /\ Other(o) = j
  BY OtherKind
<1> HIDE DEF o
<1> DEFINE Woken ==
             \/ Waiting(o)' = {}
             \/ /\ Waiting(o) # {}
                /\ \E w \in Threads :
                     w \notin Active(o) /\ Active(o)' = Active(o) \cup {w}
<1>3. /\ t \in Signalling(j) /\ Signalling(j)' = Signalling(j) \ {t}
      /\ Signalling(o)' = Signalling(o)
      /\ Active(j)' = Active(j) /\ Waiting(j)' = Waiting(j)
      /\ Woken
  <2>1. CASE Waiting(o) = {} /\ Goto(t, "idle")
    BY <1>1, <1>2, <2>1 DEF Signal, Goto, TypeOK, Active, Signalling, Waiting
  <2>2. CASE \E w \in Waiting(o) : pc' = [pc EXCEPT ![t] = "idle", ![w] = "lock"]
    <3>1. PICK w \in Waiting(o) : pc' = [pc EXCEPT ![t] = "idle", ![w] = "lock"]
      BY <2>2
    <3>2. w \in Threads /\ w \notin Active(o) /\ Active(o)' = Active(o) \cup {w}
      BY <1>1, <1>2, <3>1 DEF Signal, TypeOK, Active, Waiting
    <3> QED
      BY <1>1, <1>2, <3>1, <3>2 DEF Signal, TypeOK, Active, Signalling, Waiting
  <2> QED
    BY <1>1, <2>1, <2>2 DEF Signal, o
<1>4. Room(j)' = Room(j) /\ Room(o)' = Room(o) /\ Room(o) \in Int
  BY CapAssumption DEF Signal, Room, TypeOK
<1>5. Covered(j) /\ Covered(o)
  BY <1>2, NoLostWakeupIsCovered
<1>6. Covered(j)'
  BY <1>3, <1>4, <1>5 DEF Covered, o
<1>7. Covered(o)'
  <2>1. CASE Waiting(o)' = {}
    BY <2>1 DEF Covered
  <2>2. ASSUME Waiting(o) # {}, NEW w \in Threads, w \notin Active(o),
               Active(o)' = Active(o) \cup {w}
        PROVE  Covered(o)'
    <3>1. /\ Cardinality(Active(o)') = Cardinality(Active(o)) + 1
          /\ Cardinality(Signalling(j)') = Cardinality(Signalling(j)) - 1
      BY <1>3, <2>2, GroupsFinite, Joins, Leaves
    <3>2. Room(o) <= Cardinality(Active(o)) + Cardinality(Signalling(j))
      BY <1>2, <1>5, <2>2 DEF Covered
    <3>3. Room(o)' <= Cardinality(Active(o)') + Cardinality(Signalling(j)')
      BY <1>4, <3>1, <3>2, GroupsFinite
    <3> QED
      BY <1>2, <3>3 DEF Covered
  <2> QED
    BY <1>3, <2>1, <2>2
<1>8. \A k \in Kinds : Covered(k)'
  BY <1>6, <1>7, OtherKind DEF o
<1> QED
  BY <1>8 DEF NoLostWakeup, Covered, Kinds, Room, Other

LEMMA NextNoLostWakeup == IInv /\ NoLostWakeup /\ [Next]_vars => NoLostWakeup'
<1> SUFFICES ASSUME IInv, NoLostWakeup, [Next]_vars PROVE NoLostWakeup'
  OBVIOUS
<1>0. TypeOK
  BY DEF IInv
<1>1. CASE UNCHANGED vars
  BY <1>1 DEF vars, NoLostWakeup, Waiting, Active, Signalling
<1>2. ASSUME NEW t \in Threads, NEW op, Request(op), Enter(t, op) PROVE NoLostWakeup'
  <2>1. \A k \in Kinds : /\ Waiting(k)' \subseteq Waiting(k)
                        /\ Active(k) \subseteq Active(k)'
                        /\ Signalling(k) \subseteq Signalling(k)'
    BY <1>0, <1>2 DEF Enter, Goto, TypeOK, Waiting, Active, Signalling
  <2> QED
    BY <1>0, <1>2, <2>1, KeepsCovered DEF Enter
<1>3. ASSUME NEW t \in Threads, Lock(t) \/ Unlock(t) \/ Spurious(t) PROVE NoLostWakeup'
  <2>1. \A k \in Kinds : /\ Waiting(k)' \subseteq Waiting(k)
                        /\ Active(k) \subseteq Active(k)'
                        /\ Signalling(k) \subseteq Signalling(k)'
    BY <1>0, <1>3
    DEF Lock, Unlock, Spurious, Goto, TypeOK, Waiting, Active, Signalling
  <2> QED
    BY <1>0, <1>3, <2>1, KeepsCovered DEF Lock, Unlock, Spurious
<1>4. ASSUME NEW t \in Threads, queue_add(t) PROVE NoLostWakeup'
  <2>1. \A u \in Threads : call'[u].kind = call[u].kind
    BY <1>0, <1>4 DEF queue_add, Wait, Fails, TypeOK, Abstract!Ops
  <2>2. CASE sz = cap
    <3>1. \E p \in {"wait", "unlock"} : pc' = [pc EXCEPT ![t] = p]
      BY <1>4, <2>2 DEF queue_add, Wait, Fails, Goto
    <3>2. Room("add") = 0 /\ "add" \in Kinds /\ sz' = sz /\ pc[t] = "body" /\ call[t].kind = "add"
      BY <1>4, <2>2, CapAssumption DEF queue_add, Wait, Fails, Room, Kinds
    <3> QED
      BY <1>0, <2>1, <3>1, <3>2, StaysCovered
  <2>3. CASE sz # cap
    <3>1. /\ Room("add")' = Room("add") - 1 /\ Room(Other("add"))' = Room(Other("add")) + 1
          /\ sz' \in Int
      <4>1. sz \in Nat /\ cap \in Nat /\ sz' = sz + 1
        BY <1>0, <1>4, <2>3, CapAssumption DEF queue_add, TypeOK
      <4> QED
        BY <4>1 DEF Room, Other
    <3>2. /\ "add" \in Kinds /\ pc[t] = "body" /\ call[t].kind = "add"
          /\ pc' = [pc EXCEPT ![t] = "unlock"]
      BY <1>4, <2>3 DEF queue_add, Goto, Kinds
    <3> QED
      BY <1>0, <2>1, <3>1, <3>2, MovesCovered
  <2> QED
    BY <2>2, <2>3
<1>5. ASSUME NEW t \in Threads, queue_take(t) PROVE NoLostWakeup'
  <2>1. \A u \in Threads : call'[u].kind = call[u].kind
    BY <1>0, <1>5 DEF queue_take, Wait, Fails, TypeOK, Abstract!Ops
  <2>2. CASE sz = 0
    <3>1. \E p \in {"wait", "unlock"} : pc' = [pc EXCEPT ![t] = p]
      BY <1>5, <2>2 DEF queue_take, Wait, Fails, Goto
    <3>2. Room("take") = 0 /\ "take" \in Kinds /\ sz' = sz /\ pc[t] = "body" /\ call[t].kind = "take"
      BY <1>5, <2>2 DEF queue_take, Wait, Fails, Room, Kinds
    <3> QED
      BY <1>0, <2>1, <3>1, <3>2, StaysCovered
  <2>3. CASE sz # 0
    <3>1. /\ Room("take")' = Room("take") - 1 /\ Room(Other("take"))' = Room(Other("take")) + 1
          /\ sz' \in Int
      <4>1. sz \in Nat /\ cap \in Nat /\ sz' = sz - 1
        BY <1>0, <1>5, <2>3, CapAssumption DEF queue_take, TypeOK
      <4> QED
        BY <4>1 DEF Room, Other
    <3>2. /\ "take" \in Kinds /\ pc[t] = "body" /\ call[t].kind = "take"
          /\ pc' = [pc EXCEPT ![t] = "unlock"]
      BY <1>5, <2>3 DEF queue_take, Goto, Kinds
    <3> QED
      BY <1>0, <2>1, <3>1, <3>2, MovesCovered
  <2> QED
    BY <2>2, <2>3
<1>6. ASSUME NEW t \in Threads, Signal(t) PROVE NoLostWakeup'
  BY <1>0, <1>6, SignalCovered
<1> QED
  BY <1>1, <1>2, <1>3, <1>4, <1>5, <1>6, NextSteps

(* For every capacity and every finite set of threads, no wakeup of        *)
(* queue_add or queue_take is lost.                                        *)
THEOREM QueueNoLostWakeup == Spec => []NoLostWakeup
<1>1. queue_create => NoLostWakeup
  BY DEF queue_create, NoLostWakeup, Waiting
<1> QED
  BY <1>1, NextNoLostWakeup, QueueInvariant, PTL DEF Spec
----------------------------------------------------------------------------
(* The queue implements Fifo.  Stages is Fifo's stage. *)
Stages == [t \in Adders \cup Takers |-> StageOf(pc[t])]

LEMMA ContentIsSeq ==
  ASSUME TypeOK, RingSound
  PROVE  Content \in Seq(Items) /\ Len(Content) = sz /\ DOMAIN Content = 1 .. sz
<1>1. sz \in Nat
  BY CapAssumption DEF TypeOK
<1>2. ASSUME NEW i \in 1 .. sz PROVE data[(lo + i - 1) % cap] \in Items
  <2>1. i - 1 \in 0 .. sz - 1 /\ lo + i - 1 = lo + (i - 1)
    BY <1>1, CapAssumption DEF TypeOK
  <2> QED
    BY <2>1 DEF RingSound
<1>3. Content \in [1 .. sz -> Items]
  BY <1>2 DEF Content
<1> QED
  BY <1>1, <1>3 DEF Content

LEMMA StoresContent ==
  ASSUME TypeOK, RingSound, NEW e \in Items, Stores(e)
  PROVE  Content' = Append(Content, e)
<1>1. cap \in Nat /\ lo \in 0 .. cap - 1 /\ sz \in 0 .. cap - 1 /\ hi = (lo + sz) % cap
  BY CapAssumption DEF TypeOK, RingSound, Stores
<1>2. ASSUME NEW i \in 1 .. sz + 1
      PROVE  data'[(lo + i - 1) % cap] = IF i <= sz THEN data[(lo + i - 1) % cap] ELSE e
  <2>1. CASE i = sz + 1
    <3>1. lo + i - 1 = lo + sz
      BY <1>1, <2>1
    <3> QED
      BY <1>1, <2>1, <3>1 DEF Stores, TypeOK
  <2>2. CASE i <= sz
    <3>1. i - 1 \in 0 .. sz - 1 /\ lo + i - 1 = lo + (i - 1) /\ lo + (i - 1) \in Nat
      BY <1>1, <2>2
    <3>2. (lo + (i - 1)) % cap # hi /\ (lo + (i - 1)) % cap \in 0 .. cap - 1
      BY <1>1, <3>1, ModDistinct, ModRange
    <3> QED
      BY <2>2, <3>1, <3>2 DEF Stores, TypeOK
  <2> QED
    BY <1>1, <2>1, <2>2
<1>3. Content' = [i \in 1 .. sz + 1 |-> IF i <= sz THEN data[(lo + i - 1) % cap] ELSE e]
  BY <1>2 DEF Content, Stores
<1>4. \A i \in 1 .. sz : Content[i] = data[(lo + i - 1) % cap]
  BY DEF Content
<1>5. /\ Content' \in [1 .. sz + 1 -> Items]
      /\ \A i \in 1 .. sz + 1 : Content'[i] = IF i <= sz THEN Content[i] ELSE e
  <2>1. \A i \in 1 .. sz : Content[i] \in Items
    BY ContentIsSeq
  <2>2. \A i \in 1 .. sz + 1 : i <= sz => i \in 1 .. sz
    BY <1>1
  <2>3. [i \in 1 .. sz + 1 |-> IF i <= sz THEN data[(lo + i - 1) % cap] ELSE e]
          = [i \in 1 .. sz + 1 |-> IF i <= sz THEN Content[i] ELSE e]
    BY <1>4, <2>2
  <2> QED
    BY <1>3, <2>1, <2>2, <2>3
<1>6. Content' \in Seq(Items) /\ Len(Content') = sz + 1
  BY <1>1, <1>5
<1> QED
  BY <1>1, <1>5, <1>6, ContentIsSeq, AppendProperties, SeqEqual

LEMMA RemovesContent ==
  ASSUME TypeOK, RingSound, Removes
  PROVE  Content # <<>> /\ Content' = Tail(Content) /\ data[lo] = Head(Content)
<1>1. cap \in Nat /\ lo \in 0 .. cap - 1 /\ sz \in 1 .. cap /\ sz - 1 \in 0 .. cap - 1
  BY CapAssumption DEF TypeOK, Removes
<1>2. \A i \in 1 .. sz : Content[i] = data[(lo + i - 1) % cap]
  BY DEF Content
<1>3. data[lo] = Content[1]
  <2>1. lo + 1 - 1 = lo /\ lo \in 0 .. 2 * cap - 1 /\ 1 \in 1 .. sz
    BY <1>1
  <2> QED
    BY <1>1, <1>2, <2>1, ModWrap
<1>4. ASSUME NEW i \in 1 .. sz - 1
      PROVE  data[(((lo + 1) % cap) + i - 1) % cap] = Content[i + 1]
  <2>1. /\ i - 1 \in 0 .. cap - 1 /\ i + 1 \in 1 .. sz
        /\ lo + ((i - 1) + 1) = lo + (i + 1) - 1
    BY <1>1
  <2>2. (lo + 1) % cap \in 0 .. cap - 1
    BY <1>1, ModRange
  <2>3. ((lo + 1) % cap) + i - 1 = ((lo + 1) % cap) + (i - 1)
    BY <1>1, <2>2
  <2>4. (((lo + 1) % cap) + (i - 1)) % cap = (lo + ((i - 1) + 1)) % cap
    BY <1>1, <2>1, ModStep
  <2> QED
    BY <1>2, <2>1, <2>3, <2>4
<1>5. Content' = [i \in 1 .. sz - 1 |-> Content[i + 1]]
  BY <1>4 DEF Content, Removes
<1>6. Content \in Seq(Items) /\ Len(Content) = sz /\ Content # <<>>
  BY <1>1, ContentIsSeq
<1>7. /\ Content' \in [1 .. sz - 1 -> Items]
      /\ \A i \in 1 .. sz - 1 : Content'[i] = Content[i + 1]
  BY <1>1, <1>5, <1>6
<1>8. Content' \in Seq(Items) /\ Len(Content') = sz - 1
  BY <1>1, <1>7
<1>9. Content' = Tail(Content)
  BY <1>1, <1>6, <1>7, <1>8, HeadTailProperties, SeqEqual
<1> QED
  BY <1>3, <1>6, <1>9

LEMMA InitRefines == queue_create => Abstract!FifoInit
<1> SUFFICES ASSUME queue_create PROVE Abstract!FifoInit
  OBVIOUS
<1>1. Content = <<>>
  BY DEF queue_create, Content
<1>2. Stages = [t \in Abstract!Threads |-> "idle"]
  BY DEF queue_create, Stages, StageOf, Threads, Abstract!Threads
<1> QED
  BY <1>1, <1>2 DEF queue_create, Abstract!FifoInit, Stages, Threads, Abstract!Threads, NoOp

LEMMA StutterRefines ==
  ASSUME UNCHANGED <<lo, sz, data, call>>,
         \A t \in Threads : StageOf(pc'[t]) = StageOf(pc[t])
  PROVE  UNCHANGED Abstract!fifoVars
<1>1. Stages' = Stages
  BY DEF Stages, Threads
<1> QED
  BY <1>1 DEF Abstract!fifoVars, Content, Stages

(* A body that is not a wait is the instant of its call. *)
LEMMA BodyRefines ==
  ASSUME IInv, NEW t \in Threads, queue_add(t) \/ queue_take(t)
  PROVE  Abstract!Apply(t) \/ UNCHANGED Abstract!fifoVars
<1>1. CASE Wait(t)
  <2>1. pc[t] = "body" /\ pc' = [pc EXCEPT ![t] = "wait"] /\ UNCHANGED <<lo, sz, data, call>>
    BY <1>1 DEF Wait, Goto, queue_add, queue_take
  <2>2. \A u \in Threads : StageOf(pc'[u]) = StageOf(pc[u])
    BY <2>1 DEF IInv, TypeOK, StageOf
  <2> QED
    BY <2>1, <2>2, StutterRefines
<1>2. CASE ~ Wait(t)
  <2>1. pc[t] = "body" /\ pc' = [pc EXCEPT ![t] = "unlock"]
    BY <1>2 DEF queue_add, queue_take, Fails, Goto
  <2>2. Stages[t] = "called" /\ Stages' = [Stages EXCEPT ![t] = "done"]
    BY <2>1 DEF Stages, StageOf, Threads, IInv, TypeOK
  <2>3. Content \in Seq(Items) /\ Len(Content) = sz
    BY ContentIsSeq DEF IInv
  <2>4. CASE queue_add(t) /\ sz = cap
    <3>1. call' = [call EXCEPT ![t].err = "QFULL"] /\ call[t].kind = "add" /\ ~ call[t].block
      BY <1>2, <2>4 DEF queue_add, Fails
    <3>2. Content' = Content
      BY <1>2, <2>4 DEF queue_add, Fails, Content
    <3> QED
      BY <2>2, <2>3, <2>4, <3>1, <3>2 DEF Abstract!Apply, Stages
  <2>5. CASE queue_add(t) /\ sz # cap
    <3>1. call' = [call EXCEPT ![t].err = "QOK"] /\ call[t].kind = "add" /\ Stores(call[t].e)
      BY <2>5 DEF queue_add, Stores, After
    <3>2. call[t].e \in Items
      BY <2>1, <3>1 DEF IInv, CarriesItem
    <3>3. Content' = Append(Content, call[t].e)
      BY <3>1, <3>2, StoresContent DEF IInv
    <3>4. sz < cap
      BY <2>5, CapAssumption DEF IInv, TypeOK
    <3> QED
      BY <2>2, <2>3, <3>1, <3>3, <3>4 DEF Abstract!Apply, Stages
  <2>6. CASE queue_take(t) /\ sz = 0
    <3>1. call' = [call EXCEPT ![t].err = "QEMPTY"] /\ call[t].kind = "take" /\ ~ call[t].block
      BY <1>2, <2>6 DEF queue_take, Fails
    <3>2. Content' = Content /\ Content = <<>>
      BY <1>2, <2>3, <2>6 DEF queue_take, Fails, Content
    <3> QED
      BY <2>2, <3>1, <3>2 DEF Abstract!Apply, Stages
  <2>7. CASE queue_take(t) /\ sz # 0
    <3>1. /\ call' = [call EXCEPT ![t].e = data[lo], ![t].err = "QOK"]
          /\ call[t].kind = "take" /\ Removes
      BY <2>7 DEF queue_take, Removes, After
    <3>2. Content # <<>> /\ Content' = Tail(Content) /\ data[lo] = Head(Content)
      BY <3>1, RemovesContent DEF IInv
    <3> QED
      BY <2>2, <3>1, <3>2 DEF Abstract!Apply, Stages
  <2> QED
    BY <2>4, <2>5, <2>6, <2>7
<1> QED
  BY <1>1, <1>2

LEMMA NextRefines == IInv /\ [Next]_vars => [Abstract!FifoNext]_(Abstract!fifoVars)
<1> SUFFICES ASSUME IInv, [Next]_vars
             PROVE  Abstract!FifoNext \/ UNCHANGED Abstract!fifoVars
  OBVIOUS
<1>1. CASE UNCHANGED vars
  BY <1>1, StutterRefines DEF vars
<1>2. ASSUME NEW t \in Threads, NEW op, Enter(t, op) PROVE Abstract!Call(t, op)
  <2>1. Stages[t] = "idle" /\ Stages' = [Stages EXCEPT ![t] = "called"]
    BY <1>2 DEF Enter, Goto, Stages, StageOf, Threads, IInv, TypeOK
  <2>2. Content' = Content
    BY <1>2 DEF Enter, Content
  <2> QED
    BY <1>2, <2>1, <2>2 DEF Enter, Abstract!Call, Stages
<1>3. CASE \E t \in Adders, e \in Items, block \in BOOLEAN : Enter(t, AddOf(e, block))
  BY <1>2, <1>3 DEF Abstract!FifoNext, AddOf, Threads
<1>4. CASE \E t \in Takers, block \in BOOLEAN : Enter(t, TakeOf(block))
  BY <1>2, <1>4 DEF Abstract!FifoNext, TakeOf, Threads
<1>5. ASSUME NEW t \in Threads, Lock(t) \/ Unlock(t) \/ Spurious(t)
      PROVE  UNCHANGED Abstract!fifoVars
  <2>1. \A u \in Threads : StageOf(pc'[u]) = StageOf(pc[u])
    BY <1>5 DEF Lock, Unlock, Spurious, Goto, StageOf, IInv, TypeOK
  <2> QED
    BY <1>5, <2>1, StutterRefines DEF Lock, Unlock, Spurious
<1>6. ASSUME NEW t \in Threads, Signal(t) PROVE Abstract!Return(t)
  <2>1. Stages[t] = "done" /\ Stages' = [Stages EXCEPT ![t] = "idle"]
    BY <1>6 DEF Signal, Waiting, Goto, Stages, StageOf, Threads, IInv, TypeOK
  <2>2. Content' = Content
    BY <1>6 DEF Signal, Content
  <2> QED
    BY <1>6, <2>1, <2>2 DEF Signal, Abstract!Return, Stages, NoOp
<1>7. ASSUME NEW t \in Threads, Step(t) \/ Spurious(t)
      PROVE  Abstract!FifoNext \/ UNCHANGED Abstract!fifoVars
  BY <1>5, <1>6, <1>7, BodyRefines DEF Step, Abstract!FifoNext, Threads, Abstract!Threads
<1> QED
  BY <1>1, <1>3, <1>4, <1>7 DEF Next

(* lib/queue.c, with its mutex, its condition variables and its ring,      *)
(* implements the bounded FIFO of Fifo.                                    *)
THEOREM QueueLinearizable == Spec => Linearizable
<1> QED
  BY InitRefines, NextRefines, QueueInvariant, PTL DEF Spec, Linearizable, Abstract!FifoSpec
=============================================================================
