-------------------------- MODULE TransportProofs --------------------------
(***************************************************************************)
(* Theorems about Transport, for every set of clients and every capacity   *)
(* of the queues and sockets: nothing holds more than it has room for, and *)
(* together the threads are the ordered channels of Pipe.                  *)
(***************************************************************************)
EXTENDS Transport, TLAPS, SequenceTheorems, WellFoundedInduction

(* The least number of a set, and induction as a fact about sets.          *)
LEMMA Least ==
  ASSUME NEW S \in SUBSET Nat, S # {}
  PROVE  \E n \in S : \A m \in S : n <= m
<1> DEFINE R == {p \in Nat \X Nat : p[1] < p[2]}
<1>1. IsWellFoundedOn(R, Nat)
  BY NatLessThanWellFounded DEF OpToRel
<1>2. \A x, y \in Nat : y < x => <<y, x>> \in R
  OBVIOUS
<1> HIDE DEF R
<1>3. PICK x \in S : \A y \in S : ~ (<<y, x>> \in R)
  BY <1>1, WFMin
<1>4. \A m \in S : m \in Nat /\ x \in Nat /\ ~ (m < x)
  BY <1>2, <1>3
<1>5. \A m \in S : x <= m
  BY <1>4
<1> QED
  BY <1>5

LEMMA Induct ==
  ASSUME NEW S \in SUBSET Nat, 0 \in S, \A n \in S : n + 1 \in S
  PROVE  \A n \in Nat : n \in S
<1>1. SUFFICES ASSUME Nat \ S # {} PROVE FALSE
  OBVIOUS
<1>2. PICK n \in Nat \ S : \A m \in Nat \ S : n <= m
  BY <1>1, Least
<1>3. n # 0 /\ n - 1 \in Nat /\ n - 1 \in S
  BY <1>2
<1> QED
  BY <1>2, <1>3
----------------------------------------------------------------------------
(* Flatten.  F holds the sums of the first elements of s. *)
Sums(F, n, s, f) == F = [i \in 0 .. n |-> IF i = 0 THEN <<>> ELSE F[i - 1] \o f[s[i]]]

LEMMA SumsExist ==
  ASSUME NEW s, NEW f PROVE \A n \in Nat : \E F : Sums(F, n, s, f)
<1> DEFINE S == {n \in Nat : \E F : Sums(F, n, s, f)}
<1>1. 0 \in S
  <2> DEFINE F == [i \in 0 .. 0 |-> <<>>]
  <2>1. Sums(F, 0, s, f)
    BY DEF Sums
  <2> QED
    BY <2>1
<1>2. ASSUME NEW n \in S PROVE n + 1 \in S
  <2>1. n \in Nat /\ \E F : Sums(F, n, s, f)
    OBVIOUS
  <2>2. PICK F : Sums(F, n, s, f)
    BY <2>1
  <2> DEFINE G == [i \in 0 .. n + 1 |-> IF i <= n THEN F[i] ELSE F[n] \o f[s[n + 1]]]
             H == [i \in 0 .. n + 1 |-> IF i = 0 THEN <<>> ELSE G[i - 1] \o f[s[i]]]
  <2>3. ASSUME NEW i \in 0 .. n + 1 PROVE G[i] = H[i]
    <3>1. CASE i = 0
      BY <2>1, <2>2, <3>1 DEF Sums
    <3>2. CASE i # 0 /\ i <= n
      <4>1. F[i] = F[i - 1] \o f[s[i]]
        BY <2>1, <2>2, <3>2 DEF Sums
      <4>2. G[i] = F[i] /\ G[i - 1] = F[i - 1]
        BY <2>1, <3>2
      <4>3. H[i] = G[i - 1] \o f[s[i]]
        BY <2>1, <3>2
      <4> QED
        BY <4>1, <4>2, <4>3
    <3>3. CASE i = n + 1
      <4>1. G[i] = F[n] \o f[s[n + 1]] /\ G[i - 1] = F[n]
        BY <2>1, <3>3
      <4>2. H[i] = G[i - 1] \o f[s[i]]
        <5>1. i # 0
          BY <2>1, <3>3
        <5> HIDE DEF G
        <5> QED
          BY <5>1
      <4> QED
        BY <3>3, <4>1, <4>2
    <3> QED
      BY <2>1, <3>1, <3>2, <3>3
  <2>4. G = H
    <3>1. /\ G = [i \in 0 .. n + 1 |-> G[i]] /\ H = [i \in 0 .. n + 1 |-> H[i]]
      OBVIOUS
    <3> HIDE DEF G, H
    <3> QED
      BY <2>3, <3>1, Zenon
  <2>5. Sums(G, n + 1, s, f)
    BY <2>4 DEF Sums
  <2> QED
    BY <2>1, <2>5
<1> HIDE DEF S
<1>3. \A n \in Nat : n \in S
  <2>1. S \in SUBSET Nat
    BY DEF S
  <2> QED
    BY <1>1, <1>2, <2>1, Induct
<1> QED
  BY <1>3 DEF S

Stepwise(F, n, s, f) ==
  F[0] = <<>> /\ \A i \in 1 .. n : F[i] = F[i - 1] \o f[s[i]]

LEMMA SumsOf ==
  ASSUME NEW F, NEW n, NEW s, NEW f, Sums(F, n, s, f), n \in Nat
  PROVE  Stepwise(F, n, s, f)
<1> DEFINE R == [i \in 0 .. n |-> IF i = 0 THEN <<>> ELSE F[i - 1] \o f[s[i]]]
<1>1. F = R
  BY Zenon DEF Sums
<1>2. R[0] = <<>>
  OBVIOUS
<1>3. ASSUME NEW i \in 1 .. n PROVE R[i] = F[i - 1] \o f[s[i]]
  <2>1. i \in 0 .. n /\ i # 0
    OBVIOUS
  <2> QED
    BY <2>1, Zenon
<1> HIDE DEF R
<1> QED
  BY <1>1, <1>2, <1>3, Zenon DEF Stepwise

(* Two such functions agree as long as their sequences do. *)
LEMMA SumsAgree ==
  ASSUME NEW F, NEW m \in Nat, NEW s, NEW G, NEW n \in Nat, NEW t, NEW f,
         Stepwise(F, m, s, f), Stepwise(G, n, t, f), m <= n, \A i \in 1 .. m : s[i] = t[i]
  PROVE  \A i \in 0 .. m : F[i] = G[i]
<1>a. F[0] = <<>> /\ \A j \in 1 .. m : F[j] = F[j - 1] \o f[s[j]]
  BY Zenon DEF Stepwise
<1>b. G[0] = <<>> /\ \A j \in 1 .. n : G[j] = G[j - 1] \o f[t[j]]
  BY Zenon DEF Stepwise
<1> DEFINE S == {i \in Nat : i <= m => F[i] = G[i]}
<1>1. 0 \in S
  BY <1>a, <1>b
<1>2. ASSUME NEW i \in S PROVE i + 1 \in S
  <2>1. SUFFICES ASSUME i + 1 <= m PROVE F[i + 1] = G[i + 1]
    OBVIOUS
  <2>2. i \in Nat /\ i + 1 \in 1 .. m /\ i + 1 \in 1 .. n /\ (i + 1) - 1 = i
    BY <2>1
  <2>3. F[i + 1] = F[(i + 1) - 1] \o f[s[i + 1]] /\ G[i + 1] = G[(i + 1) - 1] \o f[t[i + 1]]
    BY <1>a, <1>b, <2>2
  <2>4. F[i] = G[i] /\ s[i + 1] = t[i + 1]
    BY <2>1, <2>2
  <2> QED
    BY <2>2, <2>3, <2>4
<1>3. S \in SUBSET Nat
  OBVIOUS
<1> HIDE DEF S
<1>4. \A i \in Nat : i \in S
  BY <1>1, <1>2, <1>3, Induct
<1> QED
  BY <1>4 DEF S

LEMMA FlattenSums ==
  ASSUME NEW s, Len(s) \in Nat, NEW f
  PROVE  \E F : Stepwise(F, Len(s), s, f) /\ Flatten(s, f) = F[Len(s)]
<1> DEFINE F == CHOOSE F : Sums(F, Len(s), s, f)
<1>1. Sums(F, Len(s), s, f)
  BY SumsExist
<1>2. Flatten(s, f) = F[Len(s)]
  BY DEF Flatten, Sums
<1> HIDE DEF F
<1>3. PICK n \in Nat : n = Len(s)
  OBVIOUS
<1>4. Sums(F, n, s, f)
  BY <1>1, <1>3, Zenon
<1>5. Stepwise(F, n, s, f)
  BY <1>4, SumsOf
<1> QED
  BY <1>1, <1>2, <1>3, <1>5, Zenon

LEMMA FlattenType ==
  ASSUME NEW D, NEW M, NEW f \in [D -> Seq(M)], NEW s \in Seq(D)
  PROVE  Flatten(s, f) \in Seq(M)
<1>1. Len(s) \in Nat /\ \A i \in 1 .. Len(s) : s[i] \in D
  OBVIOUS
<1>2. PICK F : Stepwise(F, Len(s), s, f) /\ Flatten(s, f) = F[Len(s)]
  BY <1>1, FlattenSums, Zenon
<1>3. F[0] = <<>> /\ \A i \in 1 .. Len(s) : F[i] = F[i - 1] \o f[s[i]]
  BY <1>2, Zenon DEF Stepwise
<1> DEFINE S == {n \in Nat : n <= Len(s) => F[n] \in Seq(M)}
<1>4. 0 \in S
  <2>1. F[0] \in Seq(M)
    BY <1>3, EmptySeq, Zenon
  <2> QED
    BY <2>1
<1>5. ASSUME NEW n \in S PROVE n + 1 \in S
  <2>1. SUFFICES ASSUME n + 1 <= Len(s) PROVE F[n + 1] \in Seq(M)
    OBVIOUS
  <2>2. n \in Nat /\ n + 1 \in 1 .. Len(s) /\ (n + 1) - 1 = n /\ F[n] \in Seq(M)
    BY <1>1, <2>1
  <2>3. f[s[n + 1]] \in Seq(M)
    BY <1>1, <2>2
  <2>4. F[n + 1] = F[n] \o f[s[n + 1]]
    BY <1>3, <2>2
  <2> QED
    BY <2>2, <2>3, <2>4, ConcatProperties
<1>6. S \in SUBSET Nat
  OBVIOUS
<1> HIDE DEF S
<1>7. Len(s) \in S
  BY <1>1, <1>4, <1>5, <1>6, Induct
<1> QED
  BY <1>2, <1>7 DEF S

LEMMA FlattenEmpty ==
  ASSUME NEW f PROVE Flatten(<<>>, f) = <<>>
<1>1. Len(<<>>) = 0
  OBVIOUS
<1>2. PICK F : Stepwise(F, Len(<<>>), <<>>, f) /\ Flatten(<<>>, f) = F[Len(<<>>)]
  BY <1>1, FlattenSums
<1>3. F[0] = <<>>
  BY <1>2, Zenon DEF Stepwise
<1> QED
  BY <1>1, <1>2, <1>3

LEMMA FlattenAppend ==
  ASSUME NEW D, NEW s \in Seq(D), NEW e \in D, NEW f
  PROVE  Flatten(Append(s, e), f) = Flatten(s, f) \o f[e]
<1> DEFINE t == Append(s, e)
<1>1. /\ Len(s) \in Nat /\ Len(t) = Len(s) + 1 /\ t[Len(s) + 1] = e
      /\ \A i \in 1 .. Len(s) : s[i] = t[i]
  BY AppendProperties
<1> HIDE DEF t
<1>2. PICK F : Stepwise(F, Len(s), s, f) /\ Flatten(s, f) = F[Len(s)]
  BY <1>1, FlattenSums, Zenon
<1>3. PICK G : Stepwise(G, Len(t), t, f) /\ Flatten(t, f) = G[Len(t)]
  <2>1. Len(t) \in Nat
    BY <1>1
  <2> QED
    BY <2>1, FlattenSums, Zenon
<1>4. G[Len(t)] = G[Len(t) - 1] \o f[t[Len(t)]]
  <2>1. Len(t) \in Nat /\ Len(t) \in 1 .. Len(t)
    BY <1>1
  <2> QED
    BY <1>3, <2>1, Zenon DEF Stepwise
<1>5. F[Len(s)] = G[Len(s)]
  <2>1. Len(t) \in Nat /\ Len(s) <= Len(t) /\ Len(s) \in 0 .. Len(s)
    BY <1>1
  <2>2. PICK m \in Nat, n \in Nat : m = Len(s) /\ n = Len(t)
    BY <1>1, <2>1, Zenon
  <2>3. /\ Stepwise(F, m, s, f) /\ Stepwise(G, n, t, f) /\ m <= n
        /\ \A i \in 1 .. m : s[i] = t[i]
    BY <1>1, <1>2, <1>3, <2>1, <2>2, Zenon
  <2>4. \A i \in 0 .. m : F[i] = G[i]
    BY <2>3, SumsAgree
  <2> QED
    BY <2>1, <2>2, <2>4, Zenon
<1>6. Len(t) - 1 = Len(s)
  BY <1>1
<1> QED
  BY <1>1, <1>2, <1>3, <1>4, <1>5, <1>6 DEF t

LEMMA FlattenHead ==
  ASSUME NEW D, NEW M, NEW f \in [D -> Seq(M)], NEW s \in Seq(D), s # <<>>
  PROVE  Flatten(s, f) = f[Head(s)] \o Flatten(Tail(s), f)
<1> DEFINE t == Tail(s)
<1>1. /\ Len(s) \in Nat \ {0} /\ t \in Seq(D) /\ Len(t) = Len(s) - 1 /\ Len(t) \in Nat
      /\ Head(s) = s[1] /\ Head(s) \in D
      /\ \A i \in 1 .. Len(t) : t[i] = s[i + 1] /\ t[i] \in D
  OBVIOUS
<1> HIDE DEF t
<1>2. PICK F : Stepwise(F, Len(s), s, f) /\ Flatten(s, f) = F[Len(s)]
  <2>1. Len(s) \in Nat
    BY <1>1
  <2> QED
    BY <2>1, FlattenSums, Zenon
<1>3. PICK G : Stepwise(G, Len(t), t, f) /\ Flatten(t, f) = G[Len(t)]
  BY <1>1, FlattenSums, Zenon
<1>4. F[0] = <<>> /\ \A i \in 1 .. Len(s) : F[i] = F[i - 1] \o f[s[i]]
  BY <1>2, Zenon DEF Stepwise
<1>5. G[0] = <<>> /\ \A i \in 1 .. Len(t) : G[i] = G[i - 1] \o f[t[i]]
  BY <1>3, Zenon DEF Stepwise
<1> DEFINE h == f[Head(s)]
<1>6. h \in Seq(M)
  BY <1>1
<1> HIDE DEF h
<1>a. \A g, x \in Seq(M) : (h \o g) \o x = h \o (g \o x) /\ g \o x \in Seq(M)
  BY <1>6, ConcatAssociative, ConcatProperties
<1> DEFINE S == {n \in Nat : n <= Len(t) => G[n] \in Seq(M) /\ F[n + 1] = h \o G[n]}
<1>7. 0 \in S
  <2>1. F[1] = F[0] \o f[s[1]]
    <3>1. 1 \in 1 .. Len(s) /\ 1 - 1 = 0
      BY <1>1
    <3> QED
      BY <1>4, <3>1
  <2>2. F[1] = h \o G[0] /\ G[0] \in Seq(M)
    BY <1>1, <1>4, <1>5, <1>6, <2>1, ConcatEmptySeq DEF h
  <2> QED
    BY <2>2
<1>8. ASSUME NEW n \in S PROVE n + 1 \in S
  <2>1. SUFFICES ASSUME n + 1 <= Len(t)
                 PROVE  G[n + 1] \in Seq(M) /\ F[(n + 1) + 1] = h \o G[n + 1]
    OBVIOUS
  <2>2. /\ n \in Nat /\ n + 1 \in 1 .. Len(t) /\ (n + 1) - 1 = n
        /\ n + 2 \in 1 .. Len(s) /\ (n + 2) - 1 = n + 1 /\ (n + 1) + 1 = n + 2
        /\ G[n] \in Seq(M) /\ F[n + 1] = h \o G[n]
    BY <1>1, <2>1
  <2> DEFINE x == f[t[n + 1]]
  <2>3. x \in Seq(M) /\ t[n + 1] = s[n + 2]
    BY <1>1, <2>2
  <2>4. G[n + 1] = G[n] \o x
    BY <1>5, <2>2
  <2>5. F[n + 2] = F[n + 1] \o x
    BY <1>4, <2>2, <2>3
  <2> HIDE DEF x
  <2>6. (h \o G[n]) \o x = h \o (G[n] \o x) /\ G[n] \o x \in Seq(M)
    <3>1. G[n] \in Seq(M)
      BY <2>2
    <3>2. x \in Seq(M)
      BY <2>3
    <3> QED
      BY <1>a, <3>1, <3>2, Zenon
  <2>7. F[n + 2] = h \o G[n + 1] /\ G[n + 1] \in Seq(M)
    BY <2>2, <2>4, <2>5, <2>6
  <2> QED
    BY <2>2, <2>7
<1>9. S \in SUBSET Nat
  OBVIOUS
<1> HIDE DEF S
<1>10. Len(t) \in S
  BY <1>1, <1>7, <1>8, <1>9, Induct
<1>11. F[Len(t) + 1] = h \o G[Len(t)] /\ Len(t) + 1 = Len(s)
  BY <1>1, <1>10 DEF S
<1> QED
  BY <1>2, <1>3, <1>11 DEF h, t
----------------------------------------------------------------------------
(* Bounded sequences, and the hands of a thread. *)
LEMMA UpToIs ==
  ASSUME NEW n \in Nat, NEW S, NEW s
  PROVE  s \in UpTo(n, S) <=> (s \in Seq(S) /\ Len(s) <= n)
<1>1. ASSUME s \in UpTo(n, S) PROVE s \in Seq(S) /\ Len(s) <= n
  <2>1. PICK k \in 0 .. n : s \in [1 .. k -> S]
    BY <1>1 DEF UpTo
  <2>2. s \in Seq(S) /\ Len(s) = k
    BY <2>1
  <2> QED
    BY <2>1, <2>2
<1>2. ASSUME s \in Seq(S), Len(s) <= n PROVE s \in UpTo(n, S)
  <2>1. Len(s) \in 0 .. n /\ s \in [1 .. Len(s) -> S]
    BY <1>2
  <2> QED
    BY <2>1 DEF UpTo
<1> QED
  BY <1>1, <1>2

(* What a change of c's sequence leaves. *)
Moves(f, g, n, S, c, s) ==
  /\ g \in [Clients -> UpTo(n, S)] /\ g[c] = s
  /\ \A d \in Clients : d # c => g[d] = f[d]

LEMMA PushType ==
  ASSUME NEW n \in Nat, NEW S, NEW f \in [Clients -> UpTo(n, S)], NEW c \in Clients,
         NEW m \in S, Len(f[c]) < n
  PROVE  f[c] \in Seq(S) /\ Moves(f, Push(f, c, m), n, S, c, Append(f[c], m))
<1>1. f[c] \in Seq(S)
  BY UpToIs
<1>2. Append(f[c], m) \in Seq(S) /\ Len(Append(f[c], m)) = Len(f[c]) + 1 /\ Len(f[c]) \in Nat
  BY <1>1, AppendProperties
<1>3. Append(f[c], m) \in UpTo(n, S)
  <2>1. Len(Append(f[c], m)) <= n
    BY <1>2
  <2> QED
    BY <1>2, <2>1, UpToIs
<1> QED
  BY <1>1, <1>3 DEF Push, Moves

LEMMA PopType ==
  ASSUME NEW n \in Nat, NEW S, NEW f \in [Clients -> UpTo(n, S)], NEW c \in Clients,
         f[c] # <<>>
  PROVE  f[c] \in Seq(S) /\ Head(f[c]) \in S /\ Moves(f, Pop(f, c), n, S, c, Tail(f[c]))
<1>1. f[c] \in Seq(S) /\ Len(f[c]) <= n
  BY UpToIs
<1>2. Tail(f[c]) \in Seq(S) /\ Len(Tail(f[c])) = Len(f[c]) - 1 /\ Head(f[c]) \in S
      /\ Len(f[c]) \in Nat
  BY <1>1, HeadTailProperties
<1>3. Tail(f[c]) \in UpTo(n, S)
  <2>1. Len(Tail(f[c])) <= n
    BY <1>1, <1>2
  <2> QED
    BY <1>2, <2>1, UpToIs
<1> QED
  BY <1>1, <1>2, <1>3 DEF Pop, Moves

Hands(K) == {<<>>} \cup {<<m>> : m \in K}

LEMMA ThreadIs ==
  ASSUME NEW K, NEW t \in Thread(K)
  PROVE  /\ t.run \in BOOLEAN /\ t.held \in Hands(K)
         /\ t = [held |-> t.held, run |-> t.run]
  BY DEF Thread, Hands

LEMMA HandsAre ==
  ASSUME NEW K, NEW h \in Hands(K)
  PROVE  /\ h \in Seq(K)
         /\ h # <<>> => h[1] \in K /\ h = <<h[1]>>
<1>1. CASE h = <<>>
  BY <1>1
<1>2. ASSUME NEW m \in K, h = <<m>> PROVE h \in Seq(K) /\ h[1] \in K /\ h = <<h[1]>>
  BY <1>2
<1> QED
  BY <1>1, <1>2 DEF Hands

LEMMA MadeThread ==
  ASSUME NEW K, NEW h \in Hands(K), NEW b \in BOOLEAN
  PROVE  [held |-> h, run |-> b] \in Thread(K)
  BY Zenon DEF Hands, Thread

(* What a change of the hands or of the loop of c's thread leaves. *)
Handles(w, v, K, c, h) ==
  /\ v \in [Clients -> Thread(K)] /\ v[c].held = h
  /\ \A d \in Clients : d # c => v[d] = w[d]

Changed(w, c, h) == [w EXCEPT ![c].held = h]

LEMMA HeldIs ==
  ASSUME NEW K, NEW w \in [Clients -> Thread(K)], NEW c \in Clients, NEW h \in Hands(K)
  PROVE  Handles(w, Changed(w, c, h), K, c, h) /\ Changed(w, c, h)[c].run = w[c].run
<1>1. w[c] \in Thread(K)
  OBVIOUS
<1>2. w[c] = [held |-> w[c].held, run |-> w[c].run] /\ w[c].run \in BOOLEAN
  BY <1>1, ThreadIs
<1> DEFINE t == [w[c] EXCEPT !.held = h]
<1>3. t = [held |-> h, run |-> w[c].run]
  BY <1>2
<1>4. t \in Thread(K) /\ t.held = h /\ t.run = w[c].run
  <2>1. t \in Thread(K)
    <3>1. \A b \in BOOLEAN : [held |-> h, run |-> b] \in Thread(K)
      BY MadeThread
    <3>2. [held |-> h, run |-> w[c].run] \in Thread(K)
      BY <1>2, <3>1, Zenon
    <3> QED
      BY <1>3, <3>2, Zenon
  <2> QED
    BY <1>3, <2>1, Zenon
<1>5. Changed(w, c, h) = [w EXCEPT ![c] = t]
  BY DEF Changed
<1> HIDE DEF t
<1>6. [w EXCEPT ![c] = t] \in [Clients -> Thread(K)] /\ [w EXCEPT ![c] = t][c] = t
      /\ \A d \in Clients : d # c => [w EXCEPT ![c] = t][d] = w[d]
  BY <1>4
<1> QED
  BY <1>4, <1>5, <1>6, Zenon DEF Handles

LEMMA HoldsType ==
  ASSUME NEW K, NEW w \in [Clients -> Thread(K)], NEW c \in Clients, NEW m \in K
  PROVE  Handles(w, Holds(w, c, m), K, c, <<m>>) /\ Holds(w, c, m)[c].run = w[c].run
<1>1. <<m>> \in Hands(K)
  BY Zenon DEF Hands
<1> QED
  <2>1. Holds(w, c, m) = Changed(w, c, <<m>>)
    BY Zenon DEF Holds, Changed
  <2>2. Handles(w, Changed(w, c, <<m>>), K, c, <<m>>)
        /\ Changed(w, c, <<m>>)[c].run = w[c].run
    BY <1>1, HeldIs
  <2> QED
    BY <2>1, <2>2, Zenon

LEMMA LetsGoType ==
  ASSUME NEW K, NEW w \in [Clients -> Thread(K)], NEW c \in Clients
  PROVE  Handles(w, LetsGo(w, c), K, c, <<>>) /\ LetsGo(w, c)[c].run = w[c].run
<1>1. <<>> \in Hands(K)
  BY Zenon DEF Hands
<1> QED
  <2>1. LetsGo(w, c) = Changed(w, c, <<>>)
    BY Zenon DEF LetsGo, Changed
  <2>2. Handles(w, Changed(w, c, <<>>), K, c, <<>>)
        /\ Changed(w, c, <<>>)[c].run = w[c].run
    BY <1>1, HeldIs
  <2> QED
    BY <2>1, <2>2, Zenon

LEMMA LastHoldsType ==
  ASSUME NEW K, NEW w \in [Clients -> Thread(K)], NEW c \in Clients, NEW m \in K
  PROVE  Handles(w, LastHolds(w, c, m), K, c, <<m>>) /\ ~ LastHolds(w, c, m)[c].run
<1> DEFINE t == [held |-> <<m>>, run |-> FALSE]
<1>1. <<m>> \in Hands(K) /\ FALSE \in BOOLEAN
  BY Zenon DEF Hands
<1>2. t \in Thread(K) /\ t.held = <<m>> /\ ~ t.run
  BY <1>1, MadeThread, Zenon
<1>3. LastHolds(w, c, m) = [w EXCEPT ![c] = t]
  BY DEF LastHolds
<1> HIDE DEF t
<1>4. [w EXCEPT ![c] = t] \in [Clients -> Thread(K)] /\ [w EXCEPT ![c] = t][c] = t
      /\ \A d \in Clients : d # c => [w EXCEPT ![c] = t][d] = w[d]
  BY <1>2
<1> QED
  BY <1>2, <1>3, <1>4, Zenon DEF Handles
----------------------------------------------------------------------------
Todo == {b \in Batches : b.to # {}}

(* The inductive invariant.  Whoever is still to be sent something is a    *)
(* client; the interface adds requests and QUITs only; and over a          *)
(* connection that has not broken all threads go on, so that the news of   *)
(* its end comes once, and last.                                           *)
Working == \A c \in Clients : c \notin broken => out[c].run /\ in[c].run /\ serve[c].run

(* The worker's UM_DISCONN comes into send_queue only after that. *)
Clean == \A c \in Clients :
           c \notin broken => out[c].held \in Hands(UpKinds) /\ send_queue[c] \in Seq(UpKinds)

TransportInv ==
  /\ TypeOK /\ todo \in Seq(Todo)
  /\ \A c \in Clients : want[c].kind # "EDISCONN"
  /\ Working /\ Clean
----------------------------------------------------------------------------
(* What the moves of a message do to the path it is on. *)
LEMMA HeadBack ==
  ASSUME NEW S, NEW s \in Seq(S), s # <<>>
  PROVE  <<Head(s)>> \o Tail(s) = s
<1>1. Head(s) \in S /\ Tail(s) \in Seq(S) /\ Len(Tail(s)) = Len(s) - 1 /\ Head(s) = s[1]
      /\ \A i \in 1 .. Len(Tail(s)) : Tail(s)[i] = s[i + 1]
  BY HeadTailProperties
<1>2. <<Head(s)>> \in Seq(S) /\ Len(<<Head(s)>>) = 1
  BY <1>1
<1> DEFINE t == <<Head(s)>> \o Tail(s)
<1>3. t \in Seq(S) /\ Len(t) = Len(s)
  BY <1>1, <1>2, ConcatProperties
<1>4. ASSUME NEW i \in 1 .. Len(s) PROVE t[i] = s[i]
  BY <1>1, <1>2, <1>3, ConcatProperties
<1> HIDE DEF t
<1>5. t = s
  BY <1>3, <1>4, SeqEqual
<1> QED
  BY <1>5 DEF t

LEMMA Empties ==
  ASSUME NEW S, NEW s \in Seq(S)
  PROVE  s \o <<>> = s /\ <<>> \o s = s
  BY ConcatEmptySeq

LEMMA Joins ==
  ASSUME NEW S, NEW s \in Seq(S), NEW t \in Seq(S), NEW u \in Seq(S)
  PROVE  s \o t \in Seq(S) /\ (s \o t) \o u = s \o (t \o u) /\ (s \o t) \o u \in Seq(S)
<1>1. s \o t \in Seq(S)
  BY ConcatProperties
<1>2. (s \o t) \o u \in Seq(S)
  BY <1>1, ConcatProperties
<1> QED
  BY <1>1, <1>2, ConcatAssociative

(* The same, as a fact about a set of messages. *)
Joinable(S) ==
  /\ \A s, t \in Seq(S) : s \o t \in Seq(S)
  /\ \A s, t, u \in Seq(S) : (s \o t) \o u = s \o (t \o u)

LEMMA JoinsAll ==
  ASSUME NEW S PROVE Joinable(S)
<1>1. ASSUME NEW s \in Seq(S), NEW t \in Seq(S) PROVE s \o t \in Seq(S)
  BY ConcatProperties
<1>2. ASSUME NEW s \in Seq(S), NEW t \in Seq(S), NEW u \in Seq(S)
      PROVE  (s \o t) \o u = s \o (t \o u)
  BY Joins
<1> QED
  BY <1>1, <1>2, Zenon DEF Joinable

LEMMA One ==
  ASSUME NEW S, NEW m \in S
  PROVE  <<m>> \in Seq(S) /\ \A s \in Seq(S) : Append(s, m) = s \o <<m>>
<1>1. <<m>> \in Seq(S)
  OBVIOUS
<1> QED
  BY <1>1, AppendIsConcat

(* Path(x, h, y, z): the four places a path is made of. *)
Path(x, h, y, z) == ((x \o h) \o y) \o z

LEMMA PathType ==
  ASSUME NEW S, NEW x \in Seq(S), NEW h \in Seq(S), NEW y \in Seq(S), NEW z \in Seq(S)
  PROVE  Path(x, h, y, z) \in Seq(S)
<1>1. (x \o h) \o y \in Seq(S)
  BY Joins
<1> QED
  BY <1>1, ConcatProperties DEF Path

(* From y into free hands, from the hands into x, and from z into y. *)
LEMMA PathTakes ==
  ASSUME NEW S, NEW x \in Seq(S), NEW y \in Seq(S), NEW z, y # <<>>
  PROVE  Path(x, <<Head(y)>>, Tail(y), z) = Path(x, <<>>, y, z)
<1>a. Joinable(S)
  BY JoinsAll
<1> DEFINE a == <<Head(y)>>
           b == Tail(y)
<1>1. a \in Seq(S) /\ b \in Seq(S) /\ a \o b = y
  BY HeadTailProperties, HeadBack
<1> HIDE DEF a, b
<1>2. (x \o a) \o b = x \o (a \o b)
  BY <1>1, <1>a, Zenon DEF Joinable
<1>3. (x \o a) \o b = (x \o <<>>) \o y
  BY <1>1, <1>2, Empties
<1> QED
  BY <1>3 DEF Path, a, b

LEMMA PathAdds ==
  ASSUME NEW S, NEW x \in Seq(S), NEW m \in S, NEW y, NEW z
  PROVE  Path(Append(x, m), <<>>, y, z) = Path(x, <<m>>, y, z)
<1>1. Append(x, m) \in Seq(S)
  BY AppendProperties
<1>2. Append(x, m) \o <<>> = x \o <<m>>
  BY <1>1, Empties, One
<1> QED
  BY <1>2 DEF Path

LEMMA PathSends ==
  ASSUME NEW S, NEW x \in Seq(S), NEW h \in Seq(S), NEW y \in Seq(S), NEW m \in S,
         NEW z \in Seq(S)
  PROVE  Path(x, h, Append(y, m), z) = Path(x, h, y, <<m>> \o z)
<1>a. Joinable(S)
  BY JoinsAll
<1> DEFINE a == x \o h
           e == <<m>>
<1>1. a \in Seq(S) /\ e \in Seq(S) /\ Append(y, m) = y \o e
  BY ConcatProperties, One
<1> HIDE DEF a, e
<1>2. (a \o y) \o e = a \o (y \o e) /\ a \o y \in Seq(S)
  BY <1>1, <1>a, Zenon DEF Joinable
<1>3. ((a \o y) \o e) \o z = (a \o y) \o (e \o z)
  BY <1>1, <1>2, <1>a, Zenon DEF Joinable
<1>4. (a \o Append(y, m)) \o z = (a \o y) \o (e \o z)
  BY <1>1, <1>2, <1>3
<1> QED
  BY <1>4 DEF Path, a, e

(* The news of the end: from being due into the free hands. *)
LEMMA PathEnds ==
  ASSUME NEW S, NEW x \in Seq(S), NEW m \in S
  PROVE  Path(x, <<m>>, <<>>, <<>>) = Path(x, <<>>, <<>>, <<m>>)
<1>1. <<m>> \in Seq(S) /\ x \o <<m>> \in Seq(S)
  BY One, ConcatProperties
<1> QED
  BY <1>1, Empties DEF Path

(* At the two ends of a path. *)
LEMMA AppendToSecond ==
  ASSUME NEW S, NEW s \in Seq(S), NEW t \in Seq(S), NEW m \in S
  PROVE  s \o Append(t, m) = Append(s \o t, m)
<1> DEFINE e == <<m>>
<1>1. e \in Seq(S) /\ Append(t, m) = t \o e
  BY One
<1>2. s \o t \in Seq(S)
  BY ConcatProperties
<1>3. Append(s \o t, m) = (s \o t) \o e
  BY <1>2, One
<1> HIDE DEF e
<1>4. (s \o t) \o e = s \o (t \o e)
  <2>1. Joinable(S)
    BY JoinsAll
  <2> QED
    BY <1>1, <2>1, Zenon DEF Joinable
<1> QED
  BY <1>1, <1>3, <1>4

Grows(x, h, y, g, z, m) == Path(x, h, y, g \o Append(z, m)) = Append(Path(x, h, y, g \o z), m)

LEMMA PathGrows ==
  ASSUME NEW S, NEW x \in Seq(S), NEW h \in Seq(S), NEW y \in Seq(S), NEW g \in Seq(S),
         NEW z \in Seq(S), NEW m \in S
  PROVE  Grows(x, h, y, g, z, m)
<1>1. PICK a \in Seq(S) : a = (x \o h) \o y
  BY Joins
<1>2. PICK w \in Seq(S) : w = g \o z
  BY ConcatProperties
<1>3. g \o Append(z, m) = Append(w, m)
  BY <1>2, AppendToSecond
<1>4. a \o Append(w, m) = Append(a \o w, m)
  BY AppendToSecond
<1> QED
  BY <1>1, <1>2, <1>3, <1>4, Zenon DEF Path, Grows

LEMMA HeadOfConcat ==
  ASSUME NEW S, NEW s \in Seq(S), NEW t \in Seq(S), s # <<>>
  PROVE  /\ s \o t # <<>> /\ Head(s \o t) = Head(s) /\ Tail(s \o t) = Tail(s) \o t
         /\ Tail(s) \in Seq(S)
<1> DEFINE a == <<Head(s)>>
           b == Tail(s) \o t
<1>1. a \in Seq(S) /\ Tail(s) \in Seq(S) /\ a \o Tail(s) = s /\ Head(s) \in S
      /\ Head(s) = s[1] /\ Len(s) \in Nat \ {0} /\ Len(Tail(s)) = Len(s) - 1
      /\ \A i \in 1 .. Len(s) - 1 : Tail(s)[i] = s[i + 1]
  BY HeadTailProperties, HeadBack
<1>2. s \o t \in Seq(S) /\ Len(s \o t) = Len(s) + Len(t) /\ Len(t) \in Nat
      /\ \A i \in 1 .. Len(s) + Len(t) : (s \o t)[i] = IF i <= Len(s) THEN s[i] ELSE t[i - Len(s)]
  BY ConcatProperties
<1>3. b \in Seq(S) /\ Len(b) = Len(s) - 1 + Len(t)
      /\ \A i \in 1 .. Len(s) - 1 + Len(t) :
           b[i] = IF i <= Len(s) - 1 THEN Tail(s)[i] ELSE t[i - (Len(s) - 1)]
  BY <1>1, <1>2, ConcatProperties
<1> HIDE DEF b
<1> DEFINE c == s \o t
<1>4. c # <<>> /\ c \in Seq(S) /\ Len(c) = Len(s) + Len(t)
  BY <1>1, <1>2
<1>5. Head(c) = s[1]
  BY <1>1, <1>2, <1>4
<1>6. Tail(c) \in Seq(S) /\ Len(Tail(c)) = Len(s) - 1 + Len(t)
      /\ \A i \in 1 .. Len(s) - 1 + Len(t) : Tail(c)[i] = c[i + 1]
  <2> HIDE DEF c
  <2> QED
    BY <1>1, <1>2, <1>4, HeadTailProperties
<1>7. ASSUME NEW i \in 1 .. Len(b) PROVE Tail(c)[i] = b[i]
  <2>1. i \in 1 .. Len(s) - 1 + Len(t) /\ i + 1 \in 1 .. Len(s) + Len(t)
    BY <1>1, <1>2, <1>3
  <2>2. Tail(c)[i] = IF i + 1 <= Len(s) THEN s[i + 1] ELSE t[(i + 1) - Len(s)]
    BY <1>2, <1>6, <2>1
  <2>3. b[i] = IF i <= Len(s) - 1 THEN Tail(s)[i] ELSE t[i - (Len(s) - 1)]
    BY <1>3, <2>1
  <2>4. (i + 1) - Len(s) = i - (Len(s) - 1) /\ (i + 1 <= Len(s) <=> i <= Len(s) - 1)
    BY <1>1, <2>1
  <2>5. i <= Len(s) - 1 => Tail(s)[i] = s[i + 1]
    BY <1>1, <2>1
  <2> QED
    BY <2>2, <2>3, <2>4, <2>5
<1> HIDE DEF c
<1>8. Tail(c) = b
  <2>1. Len(Tail(c)) = Len(b)
    BY <1>3, <1>6
  <2> QED
    BY <1>3, <1>6, <1>7, <2>1, SeqEqual
<1> QED
  BY <1>1, <1>4, <1>5, <1>8 DEF b, c

LEMMA PathTaken ==
  ASSUME NEW S, NEW x \in Seq(S), NEW h \in Seq(S), NEW y \in Seq(S), NEW z \in Seq(S),
         x # <<>>
  PROVE  /\ Path(x, h, y, z) # <<>> /\ Head(Path(x, h, y, z)) = Head(x)
         /\ Tail(Path(x, h, y, z)) = Path(Tail(x), h, y, z)
<1>1. /\ x \o h \in Seq(S) /\ x \o h # <<>> /\ Head(x \o h) = Head(x)
      /\ Tail(x \o h) = Tail(x) \o h
  BY HeadOfConcat, ConcatProperties
<1> DEFINE a == x \o h
<1>2. /\ a \o y \in Seq(S) /\ a \o y # <<>> /\ Head(a \o y) = Head(a)
      /\ Tail(a \o y) = Tail(a) \o y
  <2> HIDE DEF a
  <2>1. a \in Seq(S) /\ a # <<>>
    BY <1>1 DEF a
  <2> QED
    BY <2>1, HeadOfConcat, ConcatProperties
<1> DEFINE b == a \o y
<1>3. /\ b \o z # <<>> /\ Head(b \o z) = Head(b) /\ Tail(b \o z) = Tail(b) \o z
  <2>1. b \in Seq(S) /\ b # <<>>
    BY <1>2
  <2> HIDE DEF b
  <2> QED
    BY <2>1, HeadOfConcat
<1> QED
  BY <1>1, <1>2, <1>3 DEF Path

(* A path that is cut off within y. *)
LEMMA Cut ==
  ASSUME NEW S, NEW a \in Seq(S), NEW u \in Seq(S), NEW t \in Seq(S), NEW k \in 0 .. Len(u)
  PROVE  /\ Len(a) + k \in 0 .. Len((a \o u) \o t)
         /\ a \o SubSeq(u, 1, k) = SubSeq((a \o u) \o t, 1, Len(a) + k)
<1> DEFINE w == (a \o u) \o t
<1>1. /\ Len(a) \in Nat /\ Len(u) \in Nat /\ Len(t) \in Nat
      /\ a \o u \in Seq(S) /\ Len(a \o u) = Len(a) + Len(u)
      /\ \A i \in 1 .. Len(a) + Len(u) : (a \o u)[i] = IF i <= Len(a) THEN a[i] ELSE u[i - Len(a)]
  BY ConcatProperties
<1>2. w \in Seq(S) /\ Len(w) = Len(a \o u) + Len(t)
      /\ \A i \in 1 .. Len(a \o u) + Len(t) :
           w[i] = IF i <= Len(a \o u) THEN (a \o u)[i] ELSE t[i - Len(a \o u)]
  BY <1>1, ConcatProperties
<1> HIDE DEF w
<1>3. Len(w) = Len(a) + Len(u) + Len(t) /\ k \in Nat /\ k <= Len(u)
  BY <1>1, <1>2
<1>4. \A i \in 1 .. Len(a) + k : w[i] = IF i <= Len(a) THEN a[i] ELSE u[i - Len(a)]
  <2> TAKE i \in 1 .. Len(a) + k
  <2>1. i \in 1 .. Len(a) + Len(u) /\ i \in 1 .. Len(a \o u) + Len(t) /\ i <= Len(a \o u)
    BY <1>1, <1>3
  <2> QED
    BY <1>1, <1>2, <2>1, Zenon
<1> DEFINE v == SubSeq(u, 1, k)
           n == Len(a) + k
           x == SubSeq(w, 1, n)
           y == a \o v
<1>5. v \in Seq(S) /\ Len(v) = k /\ \A i \in 1 .. k : v[i] = u[i]
  <2>1. k <= Len(u)
    BY <1>3
  <2> QED
    BY <1>1, <1>3, SubSeqProperties
<1>6. n \in Nat /\ n <= Len(w)
  BY <1>1, <1>3
<1> HIDE DEF v, n
<1>7. x \in Seq(S) /\ Len(x) = n /\ \A i \in 1 .. n : x[i] = w[i]
  BY <1>2, <1>6, SubSeqProperties
<1>8. y \in Seq(S) /\ Len(y) = Len(a) + Len(v)
      /\ \A i \in 1 .. Len(a) + Len(v) : y[i] = IF i <= Len(a) THEN a[i] ELSE v[i - Len(a)]
  BY <1>5, ConcatProperties
<1> HIDE DEF x, y
<1>9. n = Len(a) + k
  BY DEF n
<1>10. Len(x) = Len(y) /\ Len(y) = n
  BY <1>5, <1>7, <1>8, <1>9
<1>11. ASSUME NEW i \in 1 .. Len(y) PROVE y[i] = x[i]
  <2>1. i \in 1 .. n /\ i \in 1 .. Len(a) + Len(v) /\ i \in 1 .. Len(a) + k
    BY <1>5, <1>9, <1>10
  <2>2. CASE i <= Len(a)
    BY <1>4, <1>7, <1>8, <2>1, <2>2
  <2>3. CASE ~ (i <= Len(a))
    <3>1. i - Len(a) \in 1 .. k
      BY <1>1, <1>3, <2>1, <2>3
    <3>2. v[i - Len(a)] = u[i - Len(a)]
      BY <1>5, <3>1
    <3> QED
      BY <1>4, <1>7, <1>8, <2>1, <2>3, <3>2
  <2> QED
    BY <2>2, <2>3
<1>12. y = x
  BY <1>7, <1>8, <1>10, <1>11, SeqEqual
<1> QED
  BY <1>6, <1>12 DEF w, n, x, y, v

Breaks(x, h, y, z, k, e) ==
  \E n \in 0 .. Len(Path(x, h, y, z)) :
    Path(x, h, SubSeq(y, 1, k), <<e>>) = Append(SubSeq(Path(x, h, y, z), 1, n), e)

LEMMA PathBreaks ==
  ASSUME NEW S, NEW x \in Seq(S), NEW h \in Seq(S), NEW y \in Seq(S), NEW z \in Seq(S),
         NEW k \in 0 .. Len(y), NEW e \in S
  PROVE  Breaks(x, h, y, z, k, e)
<1>1. PICK a \in Seq(S) : a = x \o h
  BY ConcatProperties
<1>2. /\ Len(a) + k \in 0 .. Len((a \o y) \o z)
      /\ a \o SubSeq(y, 1, k) = SubSeq((a \o y) \o z, 1, Len(a) + k)
  BY Cut, Zenon
<1>3. SubSeq(y, 1, k) \in Seq(S)
  BY SubSeqProperties
<1>4. PICK b \in Seq(S) : b = a \o SubSeq(y, 1, k)
  BY <1>3, ConcatProperties
<1>5. Append(b, e) = b \o <<e>>
  BY One
<1>6. Path(x, h, y, z) = (a \o y) \o z
  BY <1>1, Zenon DEF Path
<1>7. Path(x, h, SubSeq(y, 1, k), <<e>>) = b \o <<e>>
  BY <1>1, <1>4, Zenon DEF Path
<1>8. b = SubSeq(Path(x, h, y, z), 1, Len(a) + k) /\ Len(a) + k \in 0 .. Len(Path(x, h, y, z))
  BY <1>2, <1>4, <1>6, Zenon
<1> QED
  BY <1>5, <1>7, <1>8, Zenon DEF Breaks
----------------------------------------------------------------------------
(* The parts of the two paths of a connection. *)
Kinds(c) == [e \in Entries |-> IF e.fd = c THEN <<e.kind>> ELSE <<>>]

Sent(c) == [b \in Batches |-> IF c \in b.to THEN <<b.msg>> ELSE <<>>]

UpEnd(c) ==
  IF c \notin broken THEN out[c].held \o send_queue[c]
  ELSE IF serve[c].run THEN <<"EDISCONN">> ELSE <<>>

DownEnd(c) ==
  IF c \notin broken THEN Pending(c, todo)
  ELSE IF in[c].run THEN <<"UM_DISCONN">> ELSE <<>>

LEMMA PathsAre ==
  ASSUME NEW c
  PROVE  /\ UpPath(c) = Path(From(c), serve[c].held, upsock[c], UpEnd(c))
         /\ DownPath(c) = Path(um_queue[c], in[c].held, downsock[c], DownEnd(c))
         /\ From(c) = Flatten(incoming_queue, Kinds(c))
  BY Zenon DEF UpPath, DownPath, Path, UpEnd, DownEnd, From, Kinds

LEMMA PathsAreNext ==
  ASSUME NEW c
  PROVE  /\ UpPath(c)' = Path(From(c)', serve'[c].held, upsock'[c], UpEnd(c)')
         /\ DownPath(c)' = Path(um_queue'[c], in'[c].held, downsock'[c], DownEnd(c)')
         /\ From(c)' = Flatten(incoming_queue', Kinds(c))
  BY Zenon DEF UpPath, DownPath, Path, UpEnd, DownEnd, From, Kinds

LEMMA KindsType ==
  ASSUME NEW c PROVE Kinds(c) \in [Entries -> Seq(UpKinds)]
<1>1. ASSUME NEW e \in Entries PROVE (IF e.fd = c THEN <<e.kind>> ELSE <<>>) \in Seq(UpKinds)
  <2>1. e.kind \in UpKinds
    BY DEF Entries
  <2> HIDE DEF UpKinds
  <2> QED
    BY <2>1
<1> QED
  BY <1>1, Zenon DEF Kinds

LEMMA SentType ==
  ASSUME NEW c
  PROVE  Sent(c) \in [Batches -> Seq(DownKinds)] /\ \A t : Pending(c, t) = Flatten(t, Sent(c))
<1>1. ASSUME NEW b \in Batches PROVE (IF c \in b.to THEN <<b.msg>> ELSE <<>>) \in Seq(DownKinds)
  <2>1. b.msg \in DownKinds
    BY DEF Batches
  <2> HIDE DEF DownKinds
  <2> QED
    BY <2>1
<1>2. Sent(c) \in [Batches -> Seq(DownKinds)]
  BY <1>1, Zenon DEF Sent
<1>3. \A t : Pending(c, t) = Flatten(t, Sent(c))
  BY Zenon DEF Pending, Sent
<1> QED
  BY <1>2, <1>3

LEMMA TodoIs ==
  ASSUME NEW t \in Seq(Todo) PROVE t \in Seq(Batches)
<1>1. \A b \in Todo : b \in Batches
  BY DEF Todo
<1> QED
  BY <1>1

LEMMA PendingType ==
  ASSUME NEW c, NEW t \in Seq(Todo) PROVE Pending(c, t) \in Seq(DownKinds)
<1>1. t \in Seq(Batches)
  BY TodoIs
<1>2. Sent(c) \in [Batches -> Seq(DownKinds)] /\ Pending(c, t) = Flatten(t, Sent(c))
  BY SentType
<1>3. Flatten(t, Sent(c)) \in Seq(DownKinds)
  BY <1>1, <1>2, FlattenType
<1> QED
  BY <1>2, <1>3

UpParts(c) ==
  /\ From(c) \in Seq(UpKinds) /\ serve[c].held \in Seq(UpKinds)
  /\ upsock[c] \in Seq(UpKinds) /\ UpEnd(c) \in Seq(UpKinds)

DownParts(c) ==
  /\ um_queue[c] \in Seq(DownKinds) /\ in[c].held \in Seq(DownKinds)
  /\ downsock[c] \in Seq(DownKinds) /\ DownEnd(c) \in Seq(DownKinds)

LEMMA Parts ==
  ASSUME TransportInv, NEW c \in Clients PROVE UpParts(c) /\ DownParts(c)
<1>0. /\ "EDISCONN" \in UpKinds /\ "UM_DISCONN" \in DownKinds /\ QSIZE \in Nat
      /\ MAX_QUEUE_SIZE \in Nat /\ SockRoom \in Nat
  BY LimitsAssumption DEF UpKinds, DownKinds
<1>1. From(c) \in Seq(UpKinds)
  <2>1. incoming_queue \in UpTo(MAX_QUEUE_SIZE, Entries)
    BY DEF TransportInv, TypeOK
  <2>2. incoming_queue \in Seq(Entries)
    BY <1>0, <2>1, UpToIs
  <2>3. Kinds(c) \in [Entries -> Seq(UpKinds)]
    BY KindsType
  <2>4. Flatten(incoming_queue, Kinds(c)) \in Seq(UpKinds)
    BY <2>2, <2>3, FlattenType
  <2> QED
    BY <2>4, PathsAre
<1>2. serve[c].held \in Seq(UpKinds) /\ in[c].held \in Seq(DownKinds)
  <2>1. serve[c] \in Thread(UpKinds) /\ in[c] \in Thread(DownKinds)
    BY DEF TransportInv, TypeOK
  <2>2. serve[c].held \in Hands(UpKinds) /\ in[c].held \in Hands(DownKinds)
    BY <2>1, ThreadIs
  <2> QED
    BY <2>2, HandsAre
<1>3. upsock[c] \in Seq(UpKinds) /\ downsock[c] \in Seq(DownKinds) /\ um_queue[c] \in Seq(DownKinds)
  <2>1. /\ upsock[c] \in UpTo(SockRoom, UpKinds) /\ downsock[c] \in UpTo(SockRoom, DownKinds)
        /\ um_queue[c] \in UpTo(QSIZE, DownKinds)
    BY DEF TransportInv, TypeOK
  <2> QED
    BY <1>0, <2>1, UpToIs
<1>4. UpEnd(c) \in Seq(UpKinds)
  <2>1. CASE c \notin broken
    <3>1. out[c].held \in Hands(UpKinds) /\ send_queue[c] \in Seq(UpKinds)
      BY <2>1 DEF TransportInv, Clean
    <3>2. out[c].held \in Seq(UpKinds)
      BY <3>1, HandsAre
    <3>3. out[c].held \o send_queue[c] \in Seq(UpKinds)
      BY <3>1, <3>2, ConcatProperties
    <3> QED
      BY <2>1, <3>3, Zenon DEF UpEnd
  <2>2. CASE c \in broken
    <3>1. <<"EDISCONN">> \in Seq(UpKinds) /\ <<>> \in Seq(UpKinds)
      BY <1>0, One
    <3> QED
      BY <2>2, <3>1, Zenon DEF UpEnd
  <2> QED
    BY <2>1, <2>2
<1>5. DownEnd(c) \in Seq(DownKinds)
  <2>1. CASE c \notin broken
    <3>1. todo \in Seq(Todo)
      BY DEF TransportInv
    <3>2. Pending(c, todo) \in Seq(DownKinds)
      BY <3>1, PendingType
    <3> QED
      BY <2>1, <3>2, Zenon DEF DownEnd
  <2>2. CASE c \in broken
    <3>1. <<"UM_DISCONN">> \in Seq(DownKinds) /\ <<>> \in Seq(DownKinds)
      BY <1>0, One
    <3> QED
      BY <2>2, <3>1, Zenon DEF DownEnd
  <2> QED
    BY <2>1, <2>2
<1> QED
  BY <1>1, <1>2, <1>3, <1>4, <1>5 DEF UpParts, DownParts

(* What a step that does not touch the connection of c leaves. *)
LEMMA UpSame ==
  ASSUME NEW c, incoming_queue' = incoming_queue, serve'[c] = serve[c], upsock'[c] = upsock[c],
         c \in broken' <=> c \in broken,
         c \notin broken => out'[c] = out[c] /\ send_queue'[c] = send_queue[c]
  PROVE  UpPath(c)' = UpPath(c)
<1>1. From(c)' = From(c)
  BY PathsAre, PathsAreNext
<1>2. UpEnd(c)' = UpEnd(c)
  BY Zenon DEF UpEnd
<1> QED
  BY <1>1, <1>2, PathsAre, PathsAreNext, Zenon

LEMMA DownSame ==
  ASSUME NEW c, um_queue'[c] = um_queue[c], in'[c] = in[c], downsock'[c] = downsock[c],
         c \in broken' <=> c \in broken,
         c \notin broken => Pending(c, todo') = Pending(c, todo)
  PROVE  DownPath(c)' = DownPath(c)
<1>1. DownEnd(c)' = DownEnd(c)
  BY Zenon DEF DownEnd
<1> QED
  BY <1>1, PathsAre, PathsAreNext, Zenon
----------------------------------------------------------------------------
(* What the handlers send. *)
LEMMA BatchType ==
  ASSUME NEW S \in SUBSET Clients, S # {}, NEW m \in DownKinds
  PROVE  <<Batch(S, m)>> \in Seq(Todo)
<1>1. Batch(S, m) \in Todo
  BY DEF Batch, Todo, Batches
<1> QED
  BY <1>1, One

LEMMA ToType ==
  ASSUME NEW present \in SUBSET Clients
  PROVE  /\ ToAll(present) \in Seq(Todo)
         /\ \A d \in Clients : ToOne(d) \in Seq(Todo)
         /\ \A p \in Clients \X Clients : ToBoth(p) \in Seq(Todo)
<1>1. "UCHANGE" \in DownKinds /\ "REPLY" \in DownKinds
  BY DEF DownKinds
<1>2. ToAll(present) \in Seq(Todo)
  <2>1. present # {} => <<Batch(present, "UCHANGE")>> \in Seq(Todo)
    BY <1>1, BatchType
  <2> QED
    BY <2>1 DEF ToAll
<1>3. ASSUME NEW d \in Clients PROVE ToOne(d) \in Seq(Todo)
  <2>1. {d} \in SUBSET Clients /\ {d} # {}
    OBVIOUS
  <2>2. <<Batch({d}, "REPLY")>> \in Seq(Todo)
    BY <1>1, <2>1, BatchType, Zenon
  <2> QED
    BY <2>2, Zenon DEF ToOne
<1>4. ASSUME NEW p \in Clients \X Clients PROVE ToBoth(p) \in Seq(Todo)
  <2>1. ToOne(p[1]) \in Seq(Todo) /\ ToOne(p[2]) \in Seq(Todo)
    BY <1>3
  <2> QED
    BY <2>1, ConcatProperties DEF ToBoth
<1> QED
  BY <1>2, <1>3, <1>4

LEMMA AnswersType ==
  ASSUME NEW present \in SUBSET Clients, NEW c \in Clients,
         NEW way \in {"none", "one", "all", "turn", "start", "end"},
         NEW t \in Answers(way, c, present)
  PROVE  t \in Seq(Todo)
<1>1. ToAll(present) \in Seq(Todo)
  BY ToType
<1>2. \A d \in present \cup {c} : ToOne(d) \in Seq(Todo)
  BY ToType
<1>3. \A p \in Pairs(c, present) : ToBoth(p) \in Seq(Todo)
  <2>1. \A p \in Pairs(c, present) : p \in Clients \X Clients
    BY DEF Pairs
  <2> QED
    BY <2>1, ToType
<1>4. CASE way = "none"
  <2>1. t = <<>>
    BY <1>4 DEF Answers
  <2> QED
    BY <2>1
<1>5. CASE way = "one"
  <2>1. \E d \in present \cup {c} : t = ToOne(d)
    BY <1>5 DEF Answers
  <2> QED
    BY <1>2, <2>1
<1>6. CASE way = "all"
  <2>1. t = ToAll(present)
    BY <1>6 DEF Answers
  <2> QED
    BY <1>1, <2>1
<1>7. CASE way = "turn"
  <2>1. \E p \in Pairs(c, present) : t = ToBoth(p)
    BY <1>7 DEF Answers
  <2> QED
    BY <1>3, <2>1
<1>8. CASE way = "start"
  <2>1. PICK p \in Pairs(c, present) : t = (ToAll(present) \o ToBoth(p)) \o ToBoth(p)
    BY <1>8 DEF Answers
  <2>2. ToBoth(p) \in Seq(Todo)
    BY <1>3
  <2> QED
    BY <1>1, <2>1, <2>2, Joins
<1>9. CASE way = "end"
  <2>1. PICK p \in Pairs(c, present) : t = ToBoth(p) \o ToAll(present)
    BY <1>9 DEF Answers
  <2>2. ToBoth(p) \in Seq(Todo)
    BY <1>3
  <2> QED
    BY <1>1, <2>1, <2>2, ConcatProperties
<1> QED
  BY <1>4, <1>5, <1>6, <1>7, <1>8, <1>9

LEMMA OutcomesType ==
  ASSUME NEW present \in SUBSET Clients, NEW c \in Clients, NEW kind,
         NEW o \in Outcomes(c, kind, present)
  PROVE  o.todo \in Seq(Todo) /\ o.members \in SUBSET Clients
<1>1. CASE kind = "REQUEST"
  <2>1. PICK way \in Ways : \E t \in Answers(way, c, present) : o = Leaves(t, present)
    BY <1>1 DEF Outcomes, Requests
  <2>2. PICK t \in Answers(way, c, present) : o = Leaves(t, present)
    BY <2>1
  <2>3. t \in Seq(Todo)
    BY WaysAssumption, AnswersType
  <2> QED
    BY <2>2, <2>3 DEF Leaves
<1>2. CASE kind # "REQUEST" /\ c \notin present
  <2>1. o = Leaves(<<>>, present)
    BY <1>2 DEF Outcomes, Quits
  <2> QED
    BY <2>1 DEF Leaves
<1>3. CASE kind # "REQUEST" /\ c \in present
  <2>1. PICK way \in {"none"} \cup (Ways \cap {"end"}) :
          \E t \in Answers(way, c, present) :
            o = Leaves(t \o ToAll(present), present \ {c})
    BY <1>3 DEF Outcomes, Quits
  <2>2. way \in {"none", "one", "all", "turn", "start", "end"}
    BY <2>1
  <2>3. PICK t \in Answers(way, c, present) : o = Leaves(t \o ToAll(present), present \ {c})
    BY <2>1
  <2>4. t \in Seq(Todo)
    BY <2>2, AnswersType
  <2>5. t \o ToAll(present) \in Seq(Todo)
    BY <2>4, ToType, ConcatProperties
  <2> QED
    BY <2>3, <2>5 DEF Leaves
<1> QED
  BY <1>1, <1>2, <1>3

(* Pipe speaks of the same handlers. *)
LEMMA SameHandlers ==
  /\ \A c, kind, present :
       Abstract!Outcomes(c, kind, present) = Outcomes(c, kind, present)
  /\ \A c, t : Abstract!Pending(c, t) = Pending(c, t)
<1>1. \A S, m : Abstract!Batch(S, m) = Batch(S, m)
  BY DEF Batch, Abstract!Batch
<1>2. \A p : Abstract!ToAll(p) = ToAll(p)
  BY <1>1 DEF ToAll, Abstract!ToAll
<1>3. \A d : Abstract!ToOne(d) = ToOne(d)
  BY <1>1 DEF ToOne, Abstract!ToOne
<1>4. \A p : Abstract!ToBoth(p) = ToBoth(p)
  BY <1>3 DEF ToBoth, Abstract!ToBoth
<1>5. \A c, p : Abstract!Pairs(c, p) = Pairs(c, p)
  BY DEF Pairs, Abstract!Pairs
<1>6. \A t, p : Abstract!Leaves(t, p) = Leaves(t, p)
  BY DEF Leaves, Abstract!Leaves
<1>7. \A w, c, p : Abstract!Answers(w, c, p) = Answers(w, c, p)
  BY <1>2, <1>3, <1>4, <1>5 DEF Answers, Abstract!Answers
<1>8. \A c, p : Abstract!Quits(c, p) = Quits(c, p)
  BY <1>2, <1>6, <1>7 DEF Quits, Abstract!Quits
<1>9. \A c, p : Abstract!Requests(c, p) = Requests(c, p)
  BY <1>6, <1>7 DEF Requests, Abstract!Requests
<1>10. \A c, kind, present : Abstract!Outcomes(c, kind, present) = Outcomes(c, kind, present)
  BY <1>8, <1>9 DEF Outcomes, Abstract!Outcomes
<1>11. \A c, t : Abstract!Pending(c, t) = Pending(c, t)
  <2>1. \A s, f : Abstract!Flatten(s, f) = Flatten(s, f)
    BY DEF Flatten, Abstract!Flatten
  <2>2. Abstract!Batches = Batches
    BY DEF Batches, Abstract!Batches, DownKinds, Abstract!DownKinds
  <2> QED
    BY <2>1, <2>2 DEF Pending, Abstract!Pending
<1> QED
  BY <1>10, <1>11
----------------------------------------------------------------------------
(* The steps of the threads: the invariant is kept, and the paths of all   *)
(* connections stay what they are.                                         *)
Stays == \A d \in Clients : UpPath(d)' = UpPath(d) /\ DownPath(d)' = DownPath(d)

Limits == /\ QSIZE \in Nat /\ MAX_QUEUE_SIZE \in Nat /\ SockRoom \in Nat
          /\ "EDISCONN" \in UpKinds /\ "UM_DISCONN" \in DownKinds

LEMMA LimitsHold == Limits
  BY LimitsAssumption DEF Limits, UpKinds, DownKinds

LEMMA OutTakeStep ==
  ASSUME TransportInv, NEW c \in Clients, OutTake(c)
  PROVE  TransportInv' /\ Stays
<1> DEFINE K == UpKinds \cup {"UM_DISCONN"}
           m == Head(send_queue[c])
<1>0. QSIZE \in Nat
  BY LimitsHold DEF Limits
<1>1. /\ out \in [Clients -> Thread(K)] /\ send_queue \in [Clients -> UpTo(QSIZE, K)]
      /\ send_queue[c] # <<>> /\ out' = Holds(out, c, m) /\ send_queue' = Pop(send_queue, c)
      /\ out[c].held = <<>>
  BY DEF TransportInv, TypeOK, OutTake
<1>2. UNCHANGED <<ui, want, upsock, serve, incoming_queue, todo, members, downsock, in, um_queue,
                  broken>>
  BY DEF OutTake, uiVars, handlerVars, downVars
<1> HIDE DEF K
<1>3. /\ send_queue' \in [Clients -> UpTo(QSIZE, K)] /\ send_queue'[c] = Tail(send_queue[c])
      /\ m \in K /\ \A d \in Clients : d # c => send_queue'[d] = send_queue[d]
  <2>1. m \in K /\ Moves(send_queue, send_queue', QSIZE, K, c, Tail(send_queue[c]))
    BY <1>0, <1>1, PopType
  <2> QED
    BY <2>1, Zenon DEF Moves
<1> HIDE DEF m
<1>4. Handles(out, out', K, c, <<m>>) /\ out'[c].run = out[c].run
  BY <1>1, <1>3, HoldsType
<1>5. /\ out' \in [Clients -> Thread(K)] /\ out'[c].held = <<m>>
      /\ \A d \in Clients : d # c => out'[d] = out[d]
  BY <1>4, Zenon DEF Handles
<1>6. TypeOK'
  BY <1>2, <1>3, <1>5 DEF TransportInv, TypeOK, K
<1>7. todo' \in Seq(Todo) /\ \A d \in Clients : want'[d].kind # "EDISCONN"
  BY <1>2 DEF TransportInv
<1>8. Working'
  BY <1>2, <1>4, <1>5, Zenon DEF TransportInv, Working
<1>9. ASSUME c \notin broken
      PROVE  /\ <<m>> \in Hands(UpKinds) /\ Tail(send_queue[c]) \in Seq(UpKinds)
             /\ UpEnd(c)' = UpEnd(c)
  <2>1. send_queue[c] \in Seq(UpKinds)
    BY <1>9 DEF TransportInv, Clean
  <2>2. m \in UpKinds /\ Tail(send_queue[c]) \in Seq(UpKinds)
    BY <1>1, <2>1, HeadTailProperties DEF m
  <2>3. <<m>> \in Hands(UpKinds)
    BY <2>2, Zenon DEF Hands
  <2>4. <<m>> \o Tail(send_queue[c]) = send_queue[c]
    BY <1>1, <2>1, HeadBack DEF m
  <2>5. <<>> \o send_queue[c] = send_queue[c]
    BY <2>1, Empties
  <2>6. out'[c].held \o send_queue'[c] = out[c].held \o send_queue[c]
    BY <1>1, <1>3, <1>5, <2>4, <2>5
  <2> QED
    BY <1>2, <1>9, <2>2, <2>3, <2>6, Zenon DEF UpEnd
<1>10. Clean'
  BY <1>2, <1>3, <1>5, <1>9, Zenon DEF TransportInv, Clean
<1>11. ASSUME NEW d \in Clients PROVE UpPath(d)' = UpPath(d) /\ DownPath(d)' = DownPath(d)
  <2>1. DownPath(d)' = DownPath(d)
    BY <1>2, DownSame, Zenon
  <2>2. CASE d = c /\ c \notin broken
    <3>1. UpEnd(d)' = UpEnd(d) /\ From(d)' = From(d)
      BY <1>2, <1>9, <2>2, PathsAre, PathsAreNext
    <3> QED
      BY <1>2, <2>1, <3>1, PathsAre, PathsAreNext, Zenon
  <2>3. CASE ~ (d = c /\ c \notin broken)
    BY <1>2, <1>3, <1>5, <2>1, <2>3, UpSame, Zenon
  <2> QED
    BY <2>2, <2>3
<1> QED
  BY <1>6, <1>7, <1>8, <1>10, <1>11, Zenon DEF TransportInv, Stays

LEMMA OutSendStep ==
  ASSUME TransportInv, NEW c \in Clients, OutSend(c)
  PROVE  TransportInv' /\ Stays
<1> DEFINE K == UpKinds \cup {"UM_DISCONN"}
           m == out[c].held[1]
<1>0. SockRoom \in Nat /\ "UM_DISCONN" \in K
  BY LimitsHold DEF Limits
<1>1. /\ out \in [Clients -> Thread(K)] /\ upsock \in [Clients -> UpTo(SockRoom, UpKinds)]
      /\ out[c].held # <<>>
  BY DEF TransportInv, TypeOK, OutSend
<1>2. UNCHANGED <<ui, want, send_queue, serve, incoming_queue, todo, members, downsock, in,
                  um_queue, broken>>
  BY DEF OutSend, uiVars, handlerVars, downVars
<1>3. \/ /\ c \notin broken /\ Len(upsock[c]) < SockRoom
         /\ upsock' = Push(upsock, c, m) /\ out' = LetsGo(out, c)
      \/ /\ c \in broken /\ UNCHANGED upsock
         /\ out' = LastHolds(out, c, "UM_DISCONN") \/ out' = LetsGo(out, c)
  BY Zenon DEF OutSend
<1> HIDE DEF K, m
<1>4. ASSUME c \notin broken
      PROVE  /\ m \in UpKinds /\ out[c].held = <<m>> /\ send_queue[c] \in Seq(UpKinds)
             /\ upsock[c] \in Seq(UpKinds)
             /\ Moves(upsock, upsock', SockRoom, UpKinds, c, Append(upsock[c], m))
             /\ Handles(out, out', K, c, <<>>) /\ out'[c].run = out[c].run
  <2>1. out[c].held \in Hands(UpKinds) /\ send_queue[c] \in Seq(UpKinds)
    BY <1>4 DEF TransportInv, Clean
  <2>2. m \in UpKinds /\ out[c].held = <<m>>
    BY <1>1, <2>1, HandsAre DEF m
  <2>3. upsock[c] \in Seq(UpKinds)
        /\ Moves(upsock, upsock', SockRoom, UpKinds, c, Append(upsock[c], m))
    BY <1>0, <1>1, <1>3, <1>4, <2>2, PushType
  <2>4. Handles(out, out', K, c, <<>>) /\ out'[c].run = out[c].run
    BY <1>1, <1>3, <1>4, LetsGoType
  <2> QED
    BY <2>1, <2>2, <2>3, <2>4
<1>5. ASSUME c \in broken
      PROVE  upsock' = upsock
             /\ (Handles(out, out', K, c, <<>>) \/ Handles(out, out', K, c, <<"UM_DISCONN">>))
  <2>1. Handles(out, LetsGo(out, c), K, c, <<>>)
    BY <1>1, LetsGoType
  <2>2. Handles(out, LastHolds(out, c, "UM_DISCONN"), K, c, <<"UM_DISCONN">>)
    BY <1>0, <1>1, LastHoldsType
  <2> QED
    BY <1>3, <1>5, <2>1, <2>2, Zenon
<1>6. out' \in [Clients -> Thread(K)] /\ \A d \in Clients : d # c => out'[d] = out[d]
  BY <1>4, <1>5, Zenon DEF Handles
<1>7. /\ upsock' \in [Clients -> UpTo(SockRoom, UpKinds)]
      /\ \A d \in Clients : d # c => upsock'[d] = upsock[d]
  <2>1. CASE c \notin broken
    BY <1>4, <2>1, Zenon DEF Moves
  <2>2. CASE c \in broken
    BY <1>1, <1>5, <2>2
  <2> QED
    BY <2>1, <2>2
<1>8. TypeOK'
  BY <1>2, <1>6, <1>7 DEF TransportInv, TypeOK, K
<1>9. todo' \in Seq(Todo) /\ \A d \in Clients : want'[d].kind # "EDISCONN"
  BY <1>2 DEF TransportInv
<1>10. Working'
  BY <1>2, <1>4, <1>6, Zenon DEF TransportInv, Working
<1>11. Clean'
  <2>1. c \notin broken => out'[c].held = <<>> /\ <<>> \in Hands(UpKinds)
    BY <1>4, Zenon DEF Handles, Hands
  <2> QED
    BY <1>2, <1>6, <2>1, Zenon DEF TransportInv, Clean
<1>12. ASSUME NEW d \in Clients PROVE UpPath(d)' = UpPath(d) /\ DownPath(d)' = DownPath(d)
  <2>1. DownPath(d)' = DownPath(d)
    BY <1>2, DownSame, Zenon
  <2>2. CASE d = c /\ c \notin broken
    <3>1. /\ From(c)' = From(c) /\ serve'[c].held = serve[c].held
          /\ upsock'[c] = Append(upsock[c], m)
      BY <1>2, <1>4, <2>2, PathsAre, PathsAreNext, Zenon DEF Moves
    <3>2. UpEnd(c)' = send_queue[c] /\ UpEnd(c) = <<m>> \o send_queue[c]
      <4>1. out'[c].held = <<>>
        BY <1>4, <2>2, Zenon DEF Handles
      <4>2. <<>> \o send_queue[c] = send_queue[c]
        BY <1>4, <2>2, Empties
      <4> QED
        BY <1>2, <1>4, <2>2, <4>1, <4>2, Zenon DEF UpEnd
    <3>3. From(c) \in Seq(UpKinds) /\ serve[c].held \in Seq(UpKinds)
      BY Parts, Zenon DEF UpParts
    <3>4. Path(From(c), serve[c].held, Append(upsock[c], m), send_queue[c])
            = Path(From(c), serve[c].held, upsock[c], <<m>> \o send_queue[c])
      BY <1>4, <2>2, <3>3, PathSends
    <3> QED
      BY <2>1, <2>2, <3>1, <3>2, <3>4, PathsAre, PathsAreNext, Zenon
  <2>3. CASE ~ (d = c /\ c \notin broken)
    BY <1>2, <1>5, <1>6, <1>7, <2>1, <2>3, UpSame, Zenon
  <2> QED
    BY <2>2, <2>3
<1> QED
  BY <1>8, <1>9, <1>10, <1>11, <1>12, Zenon DEF TransportInv, Stays

LEMMA OutEndStep ==
  ASSUME TransportInv, NEW c \in Clients, OutEnd(c)
  PROVE  TransportInv' /\ Stays
<1> DEFINE K == UpKinds \cup {"UM_DISCONN"}
           m == out[c].held[1]
<1>0. QSIZE \in Nat
  BY LimitsHold DEF Limits
<1>1. /\ out \in [Clients -> Thread(K)] /\ send_queue \in [Clients -> UpTo(QSIZE, K)]
      /\ out[c].held # <<>> /\ Len(send_queue[c]) < QSIZE
      /\ send_queue' = Push(send_queue, c, m) /\ out' = LetsGo(out, c)
  BY DEF TransportInv, TypeOK, OutEnd
<1>2. UNCHANGED <<ui, want, upsock, serve, incoming_queue, todo, members, downsock, in, um_queue,
                  broken>>
  BY DEF OutEnd, uiVars, handlerVars, downVars
<1>3. c \in broken
  BY Zenon DEF OutEnd, TransportInv, Working
<1> HIDE DEF K, m
<1>4. m \in K
  <2>1. out[c] \in Thread(K)
    BY <1>1
  <2>2. out[c].held \in Hands(K)
    BY <2>1, ThreadIs
  <2> QED
    BY <1>1, <2>2, HandsAre DEF m
<1>5. Moves(send_queue, send_queue', QSIZE, K, c, Append(send_queue[c], m))
  BY <1>0, <1>1, <1>4, PushType
<1>6. Handles(out, out', K, c, <<>>)
  BY <1>1, LetsGoType
<1>7. /\ send_queue' \in [Clients -> UpTo(QSIZE, K)] /\ out' \in [Clients -> Thread(K)]
      /\ \A d \in Clients : d # c => send_queue'[d] = send_queue[d] /\ out'[d] = out[d]
  BY <1>5, <1>6, Zenon DEF Moves, Handles
<1>8. TypeOK'
  BY <1>2, <1>7 DEF TransportInv, TypeOK, K
<1>9. todo' \in Seq(Todo) /\ \A d \in Clients : want'[d].kind # "EDISCONN"
  BY <1>2 DEF TransportInv
<1>10. Working' /\ Clean'
  BY <1>2, <1>3, <1>7, Zenon DEF TransportInv, Working, Clean
<1>11. ASSUME NEW d \in Clients PROVE UpPath(d)' = UpPath(d) /\ DownPath(d)' = DownPath(d)
  <2>1. DownPath(d)' = DownPath(d)
    BY <1>2, DownSame, Zenon
  <2>2. UpPath(d)' = UpPath(d)
    BY <1>2, <1>3, <1>7, UpSame, Zenon
  <2> QED
    BY <2>1, <2>2
<1> QED
  BY <1>8, <1>9, <1>10, <1>11, Zenon DEF TransportInv, Stays

LEMMA InRecvStep ==
  ASSUME TransportInv, NEW c \in Clients, InRecv(c)
  PROVE  TransportInv' /\ Stays
<1> DEFINE m == Head(downsock[c])
<1>0. SockRoom \in Nat /\ "UM_DISCONN" \in DownKinds
  BY LimitsHold DEF Limits
<1>1. /\ in \in [Clients -> Thread(DownKinds)] /\ downsock \in [Clients -> UpTo(SockRoom, DownKinds)]
      /\ in[c].held = <<>>
  BY DEF TransportInv, TypeOK, InRecv
<1>2. UNCHANGED <<ui, want, send_queue, out, upsock, serve, incoming_queue, todo, members,
                  um_queue, broken>>
  BY DEF InRecv, uiVars, upVars, handlerVars
<1>3. \/ /\ downsock[c] # <<>> /\ in' = Holds(in, c, m) /\ downsock' = Pop(downsock, c)
      \/ /\ downsock[c] = <<>> /\ c \in broken /\ in[c].run
         /\ in' = LastHolds(in, c, "UM_DISCONN") /\ UNCHANGED downsock
  BY Zenon DEF InRecv
<1> HIDE DEF m
<1>4. ASSUME downsock[c] # <<>>
      PROVE  /\ Moves(downsock, downsock', SockRoom, DownKinds, c, Tail(downsock[c]))
             /\ Handles(in, in', DownKinds, c, <<m>>) /\ in'[c].run = in[c].run
  <2>1. m \in DownKinds /\ Moves(downsock, downsock', SockRoom, DownKinds, c, Tail(downsock[c]))
    BY <1>0, <1>1, <1>3, <1>4, PopType DEF m
  <2>2. Handles(in, in', DownKinds, c, <<m>>) /\ in'[c].run = in[c].run
    BY <1>1, <1>3, <1>4, <2>1, HoldsType
  <2> QED
    BY <2>1, <2>2
<1>5. ASSUME downsock[c] = <<>>
      PROVE  /\ c \in broken /\ in[c].run /\ downsock' = downsock
             /\ Handles(in, in', DownKinds, c, <<"UM_DISCONN">>) /\ ~ in'[c].run
  <2>1. /\ Handles(in, LastHolds(in, c, "UM_DISCONN"), DownKinds, c, <<"UM_DISCONN">>)
        /\ ~ LastHolds(in, c, "UM_DISCONN")[c].run
    BY <1>0, <1>1, LastHoldsType
  <2> QED
    BY <1>3, <1>5, <2>1, Zenon
<1>6. in' \in [Clients -> Thread(DownKinds)] /\ \A d \in Clients : d # c => in'[d] = in[d]
  BY <1>4, <1>5, Zenon DEF Handles
<1>7. /\ downsock' \in [Clients -> UpTo(SockRoom, DownKinds)]
      /\ \A d \in Clients : d # c => downsock'[d] = downsock[d]
  <2>1. CASE downsock[c] # <<>>
    BY <1>4, <2>1, Zenon DEF Moves
  <2>2. CASE downsock[c] = <<>>
    BY <1>1, <1>5, <2>2
  <2> QED
    BY <2>1, <2>2
<1>8. TypeOK'
  BY <1>2, <1>6, <1>7 DEF TransportInv, TypeOK
<1>9. todo' \in Seq(Todo) /\ \A d \in Clients : want'[d].kind # "EDISCONN"
  BY <1>2 DEF TransportInv
<1>10. Working' /\ Clean'
  BY <1>2, <1>4, <1>5, <1>6, Zenon DEF TransportInv, Working, Clean
<1>11. DownPath(c)' = DownPath(c)
  <2>0. /\ um_queue[c] \in Seq(DownKinds) /\ downsock[c] \in Seq(DownKinds)
        /\ DownEnd(c) \in Seq(DownKinds) /\ um_queue'[c] = um_queue[c]
    BY <1>2, Parts, PathsAre, PathsAreNext, Zenon DEF DownParts
  <2>1. CASE downsock[c] # <<>>
    <3>1. DownEnd(c)' = DownEnd(c)
      BY <1>2, <1>4, <2>1, Zenon DEF DownEnd
    <3>2. Path(um_queue[c], <<m>>, Tail(downsock[c]), DownEnd(c))
            = Path(um_queue[c], <<>>, downsock[c], DownEnd(c))
      BY <2>0, <2>1, PathTakes DEF m
    <3>3. downsock'[c] = Tail(downsock[c]) /\ in'[c].held = <<m>>
      BY <1>4, <2>1, Zenon DEF Moves, Handles
    <3> QED
      BY <1>1, <2>0, <3>1, <3>2, <3>3, PathsAre, PathsAreNext, Zenon
  <2>2. CASE downsock[c] = <<>>
    <3>1. DownEnd(c)' = <<>> /\ DownEnd(c) = <<"UM_DISCONN">>
      BY <1>2, <1>5, <2>2, Zenon DEF DownEnd
    <3>2. Path(um_queue[c], <<"UM_DISCONN">>, <<>>, <<>>) = Path(um_queue[c], <<>>, <<>>, <<"UM_DISCONN">>)
      BY <1>0, <2>0, PathEnds
    <3>3. downsock'[c] = <<>> /\ in'[c].held = <<"UM_DISCONN">>
      BY <1>5, <2>2, Zenon DEF Handles
    <3> QED
      BY <1>1, <2>0, <2>2, <3>1, <3>2, <3>3, PathsAre, PathsAreNext, Zenon
  <2> QED
    BY <2>1, <2>2
<1>12. ASSUME NEW d \in Clients PROVE UpPath(d)' = UpPath(d) /\ DownPath(d)' = DownPath(d)
  <2>1. UpPath(d)' = UpPath(d)
    BY <1>2, UpSame, Zenon
  <2>2. d # c => DownPath(d)' = DownPath(d)
    BY <1>2, <1>6, <1>7, DownSame, Zenon
  <2> QED
    BY <1>11, <2>1, <2>2
<1> QED
  BY <1>8, <1>9, <1>10, <1>12, Zenon DEF TransportInv, Stays

LEMMA ServeRecvStep ==
  ASSUME TransportInv, NEW c \in Clients, ServeRecv(c)
  PROVE  TransportInv' /\ Stays
<1> DEFINE m == Head(upsock[c])
<1>0. SockRoom \in Nat /\ "EDISCONN" \in UpKinds
  BY LimitsHold DEF Limits
<1>1. /\ serve \in [Clients -> Thread(UpKinds)] /\ upsock \in [Clients -> UpTo(SockRoom, UpKinds)]
      /\ serve[c].held = <<>>
  BY DEF TransportInv, TypeOK, ServeRecv
<1>2. UNCHANGED <<ui, want, send_queue, out, incoming_queue, todo, members, downsock, in,
                  um_queue, broken>>
  BY DEF ServeRecv, uiVars, handlerVars, downVars
<1>3. \/ /\ upsock[c] # <<>> /\ serve' = Holds(serve, c, m) /\ upsock' = Pop(upsock, c)
      \/ /\ upsock[c] = <<>> /\ c \in broken /\ serve[c].run
         /\ serve' = LastHolds(serve, c, "EDISCONN") /\ UNCHANGED upsock
  BY Zenon DEF ServeRecv
<1> HIDE DEF m
<1>4. ASSUME upsock[c] # <<>>
      PROVE  /\ Moves(upsock, upsock', SockRoom, UpKinds, c, Tail(upsock[c]))
             /\ Handles(serve, serve', UpKinds, c, <<m>>) /\ serve'[c].run = serve[c].run
  <2>1. m \in UpKinds /\ Moves(upsock, upsock', SockRoom, UpKinds, c, Tail(upsock[c]))
    BY <1>0, <1>1, <1>3, <1>4, PopType DEF m
  <2>2. Handles(serve, serve', UpKinds, c, <<m>>) /\ serve'[c].run = serve[c].run
    BY <1>1, <1>3, <1>4, <2>1, HoldsType
  <2> QED
    BY <2>1, <2>2
<1>5. ASSUME upsock[c] = <<>>
      PROVE  /\ c \in broken /\ serve[c].run /\ upsock' = upsock
             /\ Handles(serve, serve', UpKinds, c, <<"EDISCONN">>) /\ ~ serve'[c].run
  <2>1. /\ Handles(serve, LastHolds(serve, c, "EDISCONN"), UpKinds, c, <<"EDISCONN">>)
        /\ ~ LastHolds(serve, c, "EDISCONN")[c].run
    BY <1>0, <1>1, LastHoldsType
  <2> QED
    BY <1>3, <1>5, <2>1, Zenon
<1>6. serve' \in [Clients -> Thread(UpKinds)] /\ \A d \in Clients : d # c => serve'[d] = serve[d]
  BY <1>4, <1>5, Zenon DEF Handles
<1>7. /\ upsock' \in [Clients -> UpTo(SockRoom, UpKinds)]
      /\ \A d \in Clients : d # c => upsock'[d] = upsock[d]
  <2>1. CASE upsock[c] # <<>>
    BY <1>4, <2>1, Zenon DEF Moves
  <2>2. CASE upsock[c] = <<>>
    BY <1>1, <1>5, <2>2
  <2> QED
    BY <2>1, <2>2
<1>8. TypeOK'
  BY <1>2, <1>6, <1>7 DEF TransportInv, TypeOK
<1>9. todo' \in Seq(Todo) /\ \A d \in Clients : want'[d].kind # "EDISCONN"
  BY <1>2 DEF TransportInv
<1>10. Working' /\ Clean'
  BY <1>2, <1>4, <1>5, <1>6, Zenon DEF TransportInv, Working, Clean
<1>11. UpPath(c)' = UpPath(c)
  <2>0. /\ From(c) \in Seq(UpKinds) /\ upsock[c] \in Seq(UpKinds)
        /\ UpEnd(c) \in Seq(UpKinds) /\ From(c)' = From(c)
    BY <1>2, Parts, PathsAre, PathsAreNext, Zenon DEF UpParts
  <2>1. CASE upsock[c] # <<>>
    <3>1. UpEnd(c)' = UpEnd(c)
      BY <1>2, <1>4, <2>1, Zenon DEF UpEnd
    <3>2. Path(From(c), <<m>>, Tail(upsock[c]), UpEnd(c))
            = Path(From(c), <<>>, upsock[c], UpEnd(c))
      BY <2>0, <2>1, PathTakes DEF m
    <3>3. upsock'[c] = Tail(upsock[c]) /\ serve'[c].held = <<m>>
      BY <1>4, <2>1, Zenon DEF Moves, Handles
    <3> QED
      BY <1>1, <2>0, <3>1, <3>2, <3>3, PathsAre, PathsAreNext, Zenon
  <2>2. CASE upsock[c] = <<>>
    <3>1. UpEnd(c)' = <<>> /\ UpEnd(c) = <<"EDISCONN">>
      BY <1>2, <1>5, <2>2, Zenon DEF UpEnd
    <3>2. Path(From(c), <<"EDISCONN">>, <<>>, <<>>) = Path(From(c), <<>>, <<>>, <<"EDISCONN">>)
      BY <1>0, <2>0, PathEnds
    <3>3. upsock'[c] = <<>> /\ serve'[c].held = <<"EDISCONN">>
      BY <1>5, <2>2, Zenon DEF Handles
    <3> QED
      BY <1>1, <2>0, <2>2, <3>1, <3>2, <3>3, PathsAre, PathsAreNext, Zenon
  <2> QED
    BY <2>1, <2>2
<1>12. ASSUME NEW d \in Clients PROVE UpPath(d)' = UpPath(d) /\ DownPath(d)' = DownPath(d)
  <2>1. DownPath(d)' = DownPath(d)
    BY <1>2, DownSame, Zenon
  <2>2. d # c => UpPath(d)' = UpPath(d)
    BY <1>2, <1>6, <1>7, UpSame, Zenon
  <2> QED
    BY <1>11, <2>1, <2>2
<1> QED
  BY <1>8, <1>9, <1>10, <1>12, Zenon DEF TransportInv, Stays

LEMMA InAddStep ==
  ASSUME TransportInv, NEW c \in Clients, InAdd(c)
  PROVE  TransportInv' /\ Stays
<1> DEFINE m == in[c].held[1]
<1>0. QSIZE \in Nat
  BY LimitsHold DEF Limits
<1>1. /\ in \in [Clients -> Thread(DownKinds)] /\ um_queue \in [Clients -> UpTo(QSIZE, DownKinds)]
      /\ in[c].held # <<>> /\ Len(um_queue[c]) < QSIZE
      /\ um_queue' = Push(um_queue, c, m) /\ in' = LetsGo(in, c)
  BY DEF TransportInv, TypeOK, InAdd
<1>2. UNCHANGED <<ui, want, send_queue, out, upsock, serve, incoming_queue, todo, members,
                  downsock, broken>>
  BY DEF InAdd, uiVars, upVars, handlerVars
<1> HIDE DEF m
<1>3. m \in DownKinds /\ in[c].held = <<m>>
  <2>1. in[c] \in Thread(DownKinds)
    BY <1>1
  <2>2. in[c].held \in Hands(DownKinds)
    BY <2>1, ThreadIs
  <2> QED
    BY <1>1, <2>2, HandsAre DEF m
<1>4. /\ um_queue[c] \in Seq(DownKinds)
      /\ Moves(um_queue, um_queue', QSIZE, DownKinds, c, Append(um_queue[c], m))
  BY <1>0, <1>1, <1>3, PushType
<1>5. Handles(in, in', DownKinds, c, <<>>) /\ in'[c].run = in[c].run
  BY <1>1, LetsGoType
<1>6. /\ um_queue' \in [Clients -> UpTo(QSIZE, DownKinds)] /\ um_queue'[c] = Append(um_queue[c], m)
      /\ in' \in [Clients -> Thread(DownKinds)] /\ in'[c].held = <<>>
      /\ \A d \in Clients : d # c => um_queue'[d] = um_queue[d] /\ in'[d] = in[d]
  BY <1>4, <1>5, Zenon DEF Moves, Handles
<1>7. TypeOK'
  BY <1>2, <1>6 DEF TransportInv, TypeOK
<1>8. todo' \in Seq(Todo) /\ \A d \in Clients : want'[d].kind # "EDISCONN"
  BY <1>2 DEF TransportInv
<1>9. Working' /\ Clean'
  BY <1>2, <1>5, <1>6, Zenon DEF TransportInv, Working, Clean
<1>10. DownPath(c)' = DownPath(c)
  <2>1. DownEnd(c)' = DownEnd(c)
    BY <1>2, <1>5, Zenon DEF DownEnd
  <2>2. Path(Append(um_queue[c], m), <<>>, downsock[c], DownEnd(c))
          = Path(um_queue[c], <<m>>, downsock[c], DownEnd(c))
    BY <1>3, <1>4, PathAdds
  <2> QED
    BY <1>2, <1>3, <1>6, <2>1, <2>2, PathsAre, PathsAreNext, Zenon
<1>11. ASSUME NEW d \in Clients PROVE UpPath(d)' = UpPath(d) /\ DownPath(d)' = DownPath(d)
  <2>1. UpPath(d)' = UpPath(d)
    BY <1>2, UpSame, Zenon
  <2>2. d # c => DownPath(d)' = DownPath(d)
    BY <1>2, <1>6, DownSame, Zenon
  <2> QED
    BY <1>10, <2>1, <2>2
<1> QED
  BY <1>7, <1>8, <1>9, <1>11, Zenon DEF TransportInv, Stays

LEMMA ServeAddStep ==
  ASSUME TransportInv, NEW c \in Clients, ServeAdd(c)
  PROVE  TransportInv' /\ Stays
<1> DEFINE m == serve[c].held[1]
           e == [fd |-> c, kind |-> m]
<1>0. MAX_QUEUE_SIZE \in Nat
  BY LimitsHold DEF Limits
<1>1. /\ serve \in [Clients -> Thread(UpKinds)] /\ incoming_queue \in UpTo(MAX_QUEUE_SIZE, Entries)
      /\ serve[c].held # <<>> /\ Len(incoming_queue) < MAX_QUEUE_SIZE
      /\ incoming_queue' = Append(incoming_queue, e) /\ serve' = LetsGo(serve, c)
  BY DEF TransportInv, TypeOK, ServeAdd
<1>2. UNCHANGED <<ui, want, send_queue, out, upsock, todo, members, downsock, in, um_queue, broken>>
  BY DEF ServeAdd, uiVars, handlerVars, downVars
<1> HIDE DEF m
<1>3. m \in UpKinds /\ serve[c].held = <<m>>
  <2>1. serve[c] \in Thread(UpKinds)
    BY <1>1
  <2>2. serve[c].held \in Hands(UpKinds)
    BY <2>1, ThreadIs
  <2> QED
    BY <1>1, <2>2, HandsAre DEF m
<1>4. e \in Entries /\ e.fd = c /\ e.kind = m
  BY <1>3 DEF Entries
<1> HIDE DEF e
<1>5. incoming_queue \in Seq(Entries)
  BY <1>0, <1>1, UpToIs
<1>6. incoming_queue' \in UpTo(MAX_QUEUE_SIZE, Entries)
  <2>1. /\ incoming_queue' \in Seq(Entries) /\ Len(incoming_queue) \in Nat
        /\ Len(incoming_queue') = Len(incoming_queue) + 1
    BY <1>1, <1>4, <1>5, AppendProperties
  <2>2. Len(incoming_queue') <= MAX_QUEUE_SIZE
    BY <1>0, <1>1, <2>1
  <2> QED
    BY <1>0, <2>1, <2>2, UpToIs
<1>7. Handles(serve, serve', UpKinds, c, <<>>) /\ serve'[c].run = serve[c].run
  BY <1>1, LetsGoType
<1>8. /\ serve' \in [Clients -> Thread(UpKinds)] /\ serve'[c].held = <<>>
      /\ \A d \in Clients : d # c => serve'[d] = serve[d]
  BY <1>7, Zenon DEF Handles
<1>9. TypeOK'
  BY <1>2, <1>6, <1>8 DEF TransportInv, TypeOK
<1>10. todo' \in Seq(Todo) /\ \A d \in Clients : want'[d].kind # "EDISCONN"
  BY <1>2 DEF TransportInv
<1>11. Working' /\ Clean'
  BY <1>2, <1>7, <1>8, Zenon DEF TransportInv, Working, Clean
<1>12. ASSUME NEW d \in Clients PROVE From(d)' = IF d = c THEN Append(From(d), m) ELSE From(d)
  <2>1. From(d)' = Flatten(Append(incoming_queue, e), Kinds(d))
    BY <1>1, PathsAreNext
  <2>2. From(d)' = From(d) \o Kinds(d)[e]
    BY <1>4, <1>5, <2>1, FlattenAppend, PathsAre
  <2>3. Kinds(d)[e] = IF d = c THEN <<m>> ELSE <<>>
    BY <1>4 DEF Kinds
  <2>4. From(d) \in Seq(UpKinds)
    BY Parts, Zenon DEF UpParts
  <2>5. From(d) \o <<m>> = Append(From(d), m) /\ From(d) \o <<>> = From(d)
    BY <1>3, <2>4, One, Empties
  <2> QED
    BY <2>2, <2>3, <2>5, Zenon
<1>13. UpPath(c)' = UpPath(c)
  <2>1. UpEnd(c)' = UpEnd(c)
    BY <1>2, <1>7, Zenon DEF UpEnd
  <2>2. From(c) \in Seq(UpKinds)
    BY Parts, Zenon DEF UpParts
  <2>3. Path(Append(From(c), m), <<>>, upsock[c], UpEnd(c))
          = Path(From(c), <<m>>, upsock[c], UpEnd(c))
    BY <1>3, <2>2, PathAdds
  <2> QED
    BY <1>2, <1>3, <1>8, <1>12, <2>1, <2>3, PathsAre, PathsAreNext, Zenon
<1>14. ASSUME NEW d \in Clients PROVE UpPath(d)' = UpPath(d) /\ DownPath(d)' = DownPath(d)
  <2>1. DownPath(d)' = DownPath(d)
    BY <1>2, DownSame, Zenon
  <2>2. CASE d # c
    <3>1. UpEnd(d)' = UpEnd(d) /\ From(d)' = From(d)
      BY <1>2, <1>8, <1>12, <2>2, Zenon DEF UpEnd
    <3> QED
      BY <1>2, <1>8, <2>1, <2>2, <3>1, PathsAre, PathsAreNext, Zenon
  <2> QED
    BY <1>13, <2>1, <2>2
<1> QED
  BY <1>9, <1>10, <1>11, <1>14, Zenon DEF TransportInv, Stays

(* The interface's own state. *)
UiOK == /\ ui' \in [Clients -> {"poll", "keys", "adding", "done"}]
        /\ want' \in [Clients -> [kind : UpKinds, back : {"poll", "keys", "done"}]]
        /\ \A d \in Clients : want'[d].kind # "EDISCONN"

LEMMA AddsType ==
  ASSUME TransportInv, NEW c \in Clients, NEW kind \in {"REQUEST", "QUIT"},
         NEW phase \in {"poll", "keys", "done"}, Adds(c, kind, phase)
  PROVE  UiOK
<1>1. kind \in UpKinds /\ kind # "EDISCONN"
  BY DEF UpKinds
<1>2. /\ ui \in [Clients -> {"poll", "keys", "adding", "done"}]
      /\ want \in [Clients -> [kind : UpKinds, back : {"poll", "keys", "done"}]]
      /\ \A d \in Clients : want[d].kind # "EDISCONN"
      /\ ui' = [ui EXCEPT ![c] = "adding"]
      /\ want' = [want EXCEPT ![c] = [kind |-> kind, back |-> phase]]
  BY DEF TransportInv, TypeOK, Adds
<1> QED
  BY <1>1, <1>2 DEF UiOK

LEMMA GoesType ==
  ASSUME TransportInv, NEW c \in Clients, NEW phase \in {"poll", "keys", "adding", "done"},
         Goes(c, phase)
  PROVE  UiOK
  BY DEF TransportInv, TypeOK, Goes, UiOK

LEMMA UiSame ==
  ASSUME TransportInv, UNCHANGED uiVars PROVE UiOK
  BY DEF TransportInv, TypeOK, uiVars, UiOK

(* A step of the interface alone: UiTurn, Press. *)
LEMMA UiStep ==
  ASSUME TransportInv, UiOK,
         UNCHANGED <<upVars, incoming_queue, handlerVars, downVars, broken>>
  PROVE  TransportInv' /\ Stays
<1>1. UNCHANGED <<send_queue, out, upsock, serve, incoming_queue, todo, members, downsock, in,
                  um_queue, broken>>
  BY DEF upVars, handlerVars, downVars
<1>2. TypeOK'
  BY <1>1 DEF UiOK, TransportInv, TypeOK
<1>3. todo' \in Seq(Todo) /\ \A d \in Clients : want'[d].kind # "EDISCONN"
  BY <1>1 DEF UiOK, TransportInv
<1>4. Working' /\ Clean'
  BY <1>1, Zenon DEF TransportInv, Working, Clean
<1>5. Stays
  BY <1>1, UpSame, DownSame, Zenon DEF Stays
<1> QED
  BY <1>2, <1>3, <1>4, <1>5, Zenon DEF TransportInv

LEMMA UiTurnStep ==
  ASSUME TransportInv, NEW c \in Clients, UiTurn(c) PROVE TransportInv' /\ Stays
<1>1. Goes(c, "keys") \/ Goes(c, "poll")
  BY DEF UiTurn
<1>2. UiOK
  BY <1>1, GoesType
<1> QED
  BY <1>2, UiStep DEF UiTurn

LEMMA PressStep ==
  ASSUME TransportInv, NEW c \in Clients, Press(c) PROVE TransportInv' /\ Stays
<1>1. Adds(c, "REQUEST", "keys") \/ Adds(c, "QUIT", "done")
  BY DEF Press
<1>2. UiOK
  BY <1>1, AddsType
<1> QED
  BY <1>2, UiStep DEF Press

(* UiAdd puts the message at the end of the path. *)
LEMMA UiAddStep ==
  ASSUME TransportInv, NEW c \in Clients, UiAdd(c)
  PROVE  /\ TransportInv' /\ \A d \in Clients : DownPath(d)' = DownPath(d)
         /\ \A d \in Clients : d # c \/ c \in broken => UpPath(d)' = UpPath(d)
         /\ c \notin broken => UpPath(c)' = Append(UpPath(c), want[c].kind)
         /\ want[c].kind \in UpKinds \ {"EDISCONN"} /\ UNCHANGED <<members, broken>>
<1> DEFINE K == UpKinds \cup {"UM_DISCONN"}
<1>0. QSIZE \in Nat
  BY LimitsHold DEF Limits
<1>1. /\ send_queue \in [Clients -> UpTo(QSIZE, K)] /\ Len(send_queue[c]) < QSIZE
      /\ send_queue' = Push(send_queue, c, want[c].kind)
      /\ want[c].kind \in UpKinds /\ want[c].kind # "EDISCONN"
      /\ want[c].back \in {"poll", "keys", "done"}
  BY DEF TransportInv, TypeOK, UiAdd
<1>2. UNCHANGED <<out, upsock, serve, incoming_queue, todo, members, downsock, in, um_queue, broken>>
  BY DEF UiAdd, handlerVars, downVars
<1>3. UiOK
  <2>1. want[c].back \in {"poll", "keys", "adding", "done"}
    BY <1>1
  <2>2. Goes(c, want[c].back)
    BY DEF UiAdd
  <2> QED
    BY <2>1, <2>2, GoesType
<1>4. PICK m : m = want[c].kind
  OBVIOUS
<1> HIDE DEF K
<1>5. m \in UpKinds /\ m \in K /\ send_queue' = Push(send_queue, c, m)
  BY <1>1, <1>4 DEF K
<1>6. Moves(send_queue, send_queue', QSIZE, K, c, Append(send_queue[c], m))
  BY <1>0, <1>1, <1>5, PushType
<1>7. /\ send_queue' \in [Clients -> UpTo(QSIZE, K)] /\ send_queue'[c] = Append(send_queue[c], m)
      /\ \A d \in Clients : d # c => send_queue'[d] = send_queue[d]
  BY <1>6, Zenon DEF Moves
<1>8. TypeOK'
  BY <1>2, <1>3, <1>7 DEF TransportInv, TypeOK, UiOK, K
<1>9. todo' \in Seq(Todo) /\ \A d \in Clients : want'[d].kind # "EDISCONN"
  BY <1>2, <1>3 DEF TransportInv, UiOK
<1>10. Working'
  BY <1>2, Zenon DEF TransportInv, Working
<1>11. ASSUME c \notin broken
       PROVE  send_queue[c] \in Seq(UpKinds) /\ Append(send_queue[c], m) \in Seq(UpKinds)
              /\ out[c].held \in Seq(UpKinds)
  <2>1. send_queue[c] \in Seq(UpKinds) /\ out[c].held \in Hands(UpKinds)
    BY <1>11 DEF TransportInv, Clean
  <2>2. Append(send_queue[c], m) \in Seq(UpKinds)
    BY <1>5, <2>1, AppendProperties
  <2> QED
    BY <2>1, <2>2, HandsAre
<1>12. Clean'
  BY <1>2, <1>7, <1>11, Zenon DEF TransportInv, Clean
<1>13. ASSUME NEW d \in Clients PROVE DownPath(d)' = DownPath(d)
  BY <1>2, DownSame, Zenon
<1>14. ASSUME NEW d \in Clients, d # c \/ c \in broken PROVE UpPath(d)' = UpPath(d)
  BY <1>2, <1>7, <1>14, UpSame, Zenon
<1>15. ASSUME c \notin broken PROVE UpPath(c)' = Append(UpPath(c), m)
  <2>1. From(c)' = From(c)
    BY <1>2, PathsAre, PathsAreNext
  <2>2. /\ UpEnd(c) = out[c].held \o send_queue[c]
        /\ UpEnd(c)' = out[c].held \o Append(send_queue[c], m)
    BY <1>2, <1>7, <1>15, Zenon DEF UpEnd
  <2>3. UpParts(c)
    BY Parts
  <2>4. Path(From(c), serve[c].held, upsock[c], out[c].held \o Append(send_queue[c], m))
          = Append(Path(From(c), serve[c].held, upsock[c], out[c].held \o send_queue[c]), m)
    <3>1. /\ From(c) \in Seq(UpKinds) /\ serve[c].held \in Seq(UpKinds)
          /\ upsock[c] \in Seq(UpKinds)
      BY <2>3, Zenon DEF UpParts
    <3>2. Grows(From(c), serve[c].held, upsock[c], out[c].held, send_queue[c], m)
      BY <1>5, <1>11, <1>15, <3>1, PathGrows
    <3> QED
      BY <3>2, Zenon DEF Grows
  <2> QED
    BY <1>2, <2>1, <2>2, <2>4, PathsAre, PathsAreNext, Zenon
<1>16. TransportInv'
  BY <1>8, <1>9, <1>10, <1>12, Zenon DEF TransportInv
<1> QED
  BY <1>1, <1>2, <1>4, <1>13, <1>14, <1>15, <1>16

(* UiTake takes the first message of the path. *)
LEMMA UiTakeStep ==
  ASSUME TransportInv, NEW c \in Clients, UiTake(c)
  PROVE  /\ TransportInv' /\ \A d \in Clients : UpPath(d)' = UpPath(d)
         /\ \A d \in Clients : d # c => DownPath(d)' = DownPath(d)
         /\ DownPath(c) # <<>> /\ DownPath(c)' = Tail(DownPath(c))
         /\ UNCHANGED <<members, broken>>
<1>0. QSIZE \in Nat
  BY LimitsHold DEF Limits
<1>1. /\ um_queue \in [Clients -> UpTo(QSIZE, DownKinds)] /\ um_queue[c] # <<>>
      /\ um_queue' = Pop(um_queue, c)
  BY DEF TransportInv, TypeOK, UiTake
<1>2. UNCHANGED <<send_queue, out, upsock, serve, incoming_queue, todo, members, downsock, in,
                  broken>>
  BY DEF UiTake, upVars, handlerVars
<1>3. UiOK
  <2>1. UNCHANGED uiVars \/ Adds(c, "QUIT", "done") \/ Adds(c, "REQUEST", "poll")
    BY DEF UiTake
  <2> QED
    BY <2>1, UiSame, AddsType
<1>4. Moves(um_queue, um_queue', QSIZE, DownKinds, c, Tail(um_queue[c]))
  BY <1>0, <1>1, PopType
<1>5. /\ um_queue' \in [Clients -> UpTo(QSIZE, DownKinds)] /\ um_queue'[c] = Tail(um_queue[c])
      /\ \A d \in Clients : d # c => um_queue'[d] = um_queue[d]
  BY <1>4, Zenon DEF Moves
<1>6. TypeOK'
  BY <1>2, <1>3, <1>5 DEF TransportInv, TypeOK, UiOK
<1>7. todo' \in Seq(Todo) /\ \A d \in Clients : want'[d].kind # "EDISCONN"
  BY <1>2, <1>3 DEF TransportInv, UiOK
<1>8. Working' /\ Clean'
  BY <1>2, Zenon DEF TransportInv, Working, Clean
<1>9. ASSUME NEW d \in Clients
      PROVE  UpPath(d)' = UpPath(d) /\ (d # c => DownPath(d)' = DownPath(d))
  BY <1>2, <1>5, UpSame, DownSame, Zenon
<1>10. DownPath(c) # <<>> /\ DownPath(c)' = Tail(DownPath(c))
  <2>1. DownEnd(c)' = DownEnd(c)
    BY <1>2, Zenon DEF DownEnd
  <2>2. /\ um_queue[c] \in Seq(DownKinds) /\ in[c].held \in Seq(DownKinds)
        /\ downsock[c] \in Seq(DownKinds) /\ DownEnd(c) \in Seq(DownKinds)
    BY Parts, Zenon DEF DownParts
  <2>3. /\ Path(um_queue[c], in[c].held, downsock[c], DownEnd(c)) # <<>>
        /\ Tail(Path(um_queue[c], in[c].held, downsock[c], DownEnd(c)))
             = Path(Tail(um_queue[c]), in[c].held, downsock[c], DownEnd(c))
    <3>1. PICK x, h, y, z : x = um_queue[c] /\ h = in[c].held /\ y = downsock[c] /\ z = DownEnd(c)
      OBVIOUS
    <3>2. /\ x \in Seq(DownKinds) /\ h \in Seq(DownKinds) /\ y \in Seq(DownKinds)
          /\ z \in Seq(DownKinds) /\ x # <<>>
      BY <1>1, <2>2, <3>1, Zenon
    <3>3. Path(x, h, y, z) # <<>> /\ Tail(Path(x, h, y, z)) = Path(Tail(x), h, y, z)
      BY <3>2, PathTaken
    <3> QED
      BY <3>1, <3>3, Zenon
  <2> QED
    BY <1>2, <1>5, <2>1, <2>3, PathsAre, PathsAreNext, Zenon
<1>11. TransportInv'
  BY <1>6, <1>7, <1>8, Zenon DEF TransportInv
<1> QED
  BY <1>2, <1>9, <1>10, <1>11

(* The handler takes the first entry: it leaves the path of its client,    *)
(* and the answers are on their way to everyone at once.                   *)
LEMMA PktTakeStep ==
  ASSUME TransportInv, PktTake
  PROVE  /\ TransportInv' /\ UNCHANGED broken
         /\ \E c \in Clients :
              /\ UpPath(c) # <<>> /\ UpPath(c)' = Tail(UpPath(c))
              /\ \A d \in Clients : d # c => UpPath(d)' = UpPath(d)
              /\ \E o \in Outcomes(c, Head(UpPath(c)), members) :
                   /\ members' = o.members
                   /\ \A d \in Clients :
                        DownPath(d)' = IF d \in broken THEN DownPath(d)
                                       ELSE DownPath(d) \o Pending(d, o.todo)
<1> DEFINE e == Head(incoming_queue)
           q == Tail(incoming_queue)
<1>0. MAX_QUEUE_SIZE \in Nat
  BY LimitsHold DEF Limits
<1>1. /\ incoming_queue \in UpTo(MAX_QUEUE_SIZE, Entries) /\ incoming_queue # <<>>
      /\ members \in SUBSET Clients /\ todo = <<>> /\ incoming_queue' = q
  BY DEF TransportInv, TypeOK, PktTake
<1>2. UNCHANGED <<ui, want, send_queue, out, upsock, serve, downsock, in, um_queue, broken>>
  BY DEF PktTake, uiVars, upVars, downVars
<1>3. PICK o \in Outcomes(e.fd, e.kind, members) : todo' = o.todo /\ members' = o.members
  BY DEF PktTake
<1>4. incoming_queue \in Seq(Entries) /\ Len(incoming_queue) <= MAX_QUEUE_SIZE
  BY <1>0, <1>1, UpToIs
<1>5. e \in Entries /\ q \in Seq(Entries) /\ Len(q) = Len(incoming_queue) - 1
      /\ Len(incoming_queue) \in Nat
  BY <1>1, <1>4, HeadTailProperties
<1> HIDE DEF e, q
<1>6. q \in UpTo(MAX_QUEUE_SIZE, Entries)
  <2>1. Len(q) <= MAX_QUEUE_SIZE
    BY <1>0, <1>4, <1>5
  <2> QED
    BY <1>0, <1>5, <2>1, UpToIs
<1>7. PICK c \in Clients, k \in UpKinds : e.fd = c /\ e.kind = k
  BY <1>5 DEF Entries
<1>8. o.todo \in Seq(Todo) /\ o.members \in SUBSET Clients
  BY <1>1, <1>3, <1>7, OutcomesType
<1>9. TypeOK'
  BY <1>1, <1>2, <1>3, <1>6, <1>8 DEF TransportInv, TypeOK
<1>10. todo' \in Seq(Todo) /\ \A d \in Clients : want'[d].kind # "EDISCONN"
  BY <1>2, <1>3, <1>8 DEF TransportInv
<1>11. Working' /\ Clean'
  BY <1>2, Zenon DEF TransportInv, Working, Clean
<1>12. ASSUME NEW d \in Clients
       PROVE  /\ From(d) = IF d = c THEN <<k>> \o From(d)' ELSE From(d)'
              /\ From(d)' \in Seq(UpKinds)
  <2>1. Kinds(d) \in [Entries -> Seq(UpKinds)]
    BY KindsType
  <2>2. Flatten(incoming_queue, Kinds(d)) = Kinds(d)[e] \o Flatten(q, Kinds(d))
    BY <1>1, <1>4, <2>1, FlattenHead DEF e, q
  <2>3. Flatten(q, Kinds(d)) \in Seq(UpKinds)
    BY <1>5, <2>1, FlattenType
  <2>4. Kinds(d)[e] = IF d = c THEN <<k>> ELSE <<>>
    BY <1>5, <1>7 DEF Kinds
  <2>5. From(d) = Kinds(d)[e] \o From(d)' /\ From(d)' \in Seq(UpKinds)
    BY <1>1, <2>2, <2>3, PathsAre, PathsAreNext, Zenon
  <2>6. <<>> \o From(d)' = From(d)'
    BY <2>5, Empties
  <2> QED
    BY <2>4, <2>5, <2>6, Zenon
<1>13. ASSUME NEW d \in Clients PROVE UpEnd(d)' = UpEnd(d)
  BY <1>2, Zenon DEF UpEnd
<1>14. /\ UpPath(c) # <<>> /\ UpPath(c)' = Tail(UpPath(c)) /\ Head(UpPath(c)) = k
  <2>1. PICK f, h, y, z : /\ f = From(c)' /\ h = serve[c].held /\ y = upsock[c] /\ z = UpEnd(c)
    OBVIOUS
  <2>2. f \in Seq(UpKinds) /\ h \in Seq(UpKinds) /\ y \in Seq(UpKinds) /\ z \in Seq(UpKinds)
    BY <1>12, <2>1, Parts, Zenon DEF UpParts
  <2>3. PICK x : x = <<k>> \o f
    OBVIOUS
  <2>4. x \in Seq(UpKinds) /\ x # <<>> /\ Head(x) = k /\ Tail(x) = f
    <3>1. <<k>> \in Seq(UpKinds) /\ <<k>> # <<>> /\ Head(<<k>>) = k /\ Tail(<<k>>) = <<>>
      OBVIOUS
    <3>2. /\ <<k>> \o f # <<>> /\ Head(<<k>> \o f) = Head(<<k>>)
          /\ Tail(<<k>> \o f) = Tail(<<k>>) \o f
      <4>1. PICK s : s = <<k>>
        OBVIOUS
      <4>2. s \in Seq(UpKinds) /\ s # <<>>
        BY <3>1, <4>1, Zenon
      <4> QED
        BY <2>2, <4>1, <4>2, HeadOfConcat
    <3>3. <<>> \o f = f /\ <<k>> \o f \in Seq(UpKinds)
      BY <2>2, <3>1, Empties, ConcatProperties
    <3> QED
      BY <2>3, <3>1, <3>2, <3>3, Zenon
  <2>5. /\ Path(x, h, y, z) # <<>> /\ Head(Path(x, h, y, z)) = Head(x)
        /\ Tail(Path(x, h, y, z)) = Path(Tail(x), h, y, z)
    BY <2>2, <2>4, PathTaken
  <2>6. UpPath(c) = Path(x, h, y, z)
    BY <1>12, <2>1, <2>3, PathsAre, Zenon
  <2>7. UpPath(c)' = Path(f, h, y, z)
    BY <1>2, <1>13, <2>1, PathsAreNext, Zenon
  <2> QED
    BY <2>4, <2>5, <2>6, <2>7, Zenon
<1>15. ASSUME NEW d \in Clients, d # c PROVE UpPath(d)' = UpPath(d)
  <2>1. From(d)' = From(d) /\ UpEnd(d)' = UpEnd(d)
    BY <1>12, <1>13, <1>15, Zenon
  <2> QED
    BY <1>2, <2>1, PathsAre, PathsAreNext, Zenon
<1>16. ASSUME NEW d \in Clients
       PROVE  DownPath(d)' = IF d \in broken THEN DownPath(d)
                             ELSE DownPath(d) \o Pending(d, o.todo)
  <2>1. CASE d \in broken
    <3>1. DownPath(d)' = DownPath(d)
      BY <1>2, <2>1, DownSame, Zenon
    <3> QED
      BY <2>1, <3>1
  <2>2. CASE d \notin broken
    <3>1. DownEnd(d)' = Pending(d, o.todo) /\ DownEnd(d) = <<>>
      <4>1. Pending(d, <<>>) = <<>>
        BY FlattenEmpty, SentType
      <4> QED
        BY <1>1, <1>2, <1>3, <2>2, <4>1, Zenon DEF DownEnd
    <3>2. PICK a : a = (um_queue[d] \o in[d].held) \o downsock[d]
      OBVIOUS
    <3>3. a \in Seq(DownKinds)
      <4>1. /\ um_queue[d] \in Seq(DownKinds) /\ in[d].held \in Seq(DownKinds)
            /\ downsock[d] \in Seq(DownKinds)
        BY Parts, Zenon DEF DownParts
      <4> QED
        BY <3>2, <4>1, Joins
    <3>4. a \o <<>> = a
      BY <3>3, Empties
    <3>5. DownPath(d) = a \o <<>> /\ DownPath(d)' = a \o Pending(d, o.todo)
      BY <1>2, <3>1, <3>2, PathsAre, PathsAreNext, Zenon DEF Path
    <3> QED
      BY <2>2, <3>4, <3>5, Zenon
  <2> QED
    BY <2>1, <2>2
<1>17. TransportInv'
  BY <1>9, <1>10, <1>11, Zenon DEF TransportInv
<1>18. o \in Outcomes(c, Head(UpPath(c)), members)
  BY <1>3, <1>7, <1>14, Zenon
<1> QED
  BY <1>2, <1>3, <1>14, <1>15, <1>16, <1>17, <1>18, Zenon

LEMMA NewFirst ==
  ASSUME NEW S, NEW s \in Seq(S), s # <<>>, NEW v \in S
  PROVE  LET t == [s EXCEPT ![1] = v]
         IN  t \in Seq(S) /\ t # <<>> /\ Head(t) = v /\ Tail(t) = Tail(s)
<1> DEFINE t == [s EXCEPT ![1] = v]
<1>1. /\ t \in Seq(S) /\ Len(t) = Len(s) /\ t[1] = v /\ Len(s) \in Nat \ {0}
      /\ \A i \in 2 .. Len(s) : t[i] = s[i]
  OBVIOUS
<1> HIDE DEF t
<1>2. t # <<>> /\ Head(t) = v
  BY <1>1
<1>3. PICK p, q : p = Tail(s) /\ q = Tail(t)
  OBVIOUS
<1>4. /\ q \in Seq(S) /\ Len(q) = Len(s) - 1 /\ \A i \in 1 .. Len(s) - 1 : q[i] = t[i + 1]
  BY <1>1, <1>2, <1>3, HeadTailProperties
<1>5. /\ p \in Seq(S) /\ Len(p) = Len(s) - 1 /\ \A i \in 1 .. Len(s) - 1 : p[i] = s[i + 1]
  BY <1>3, HeadTailProperties
<1>6. \A i \in 1 .. Len(s) - 1 : i + 1 \in 2 .. Len(s)
  BY <1>1
<1>7. \A i \in 1 .. Len(p) : q[i] = p[i]
  BY <1>1, <1>4, <1>5, <1>6
<1>8. q = p
  BY <1>4, <1>5, <1>7, SeqEqual
<1> QED
  BY <1>1, <1>2, <1>3, <1>8 DEF t

LEMMA NewTo ==
  ASSUME NEW b \in Batches, NEW S
  PROVE  [b EXCEPT !.to = S] = [to |-> S, msg |-> b.msg]
  BY DEF Batches

(* The first recipient of the first batch, and what is left. *)
Remains(t) ==
  t = IF todo[1].to = {Recipient} THEN Tail(todo) ELSE [todo EXCEPT ![1].to = @ \ {Recipient}]

LEMMA Recipients ==
  ASSUME TransportInv, todo # <<>>, NEW t, Remains(t)
  PROVE  /\ Recipient \in Clients /\ todo[1].msg \in DownKinds /\ t \in Seq(Todo)
         /\ \A d \in Clients :
              Pending(d, todo) = IF d = Recipient THEN <<todo[1].msg>> \o Pending(d, t)
                                 ELSE Pending(d, t)
<1>1. todo \in Seq(Todo)
  BY DEF TransportInv
<1>2. PICK b \in Todo : b = todo[1]
  BY <1>1
<1>3. b = [to |-> b.to, msg |-> b.msg] /\ b.to \in SUBSET Clients /\ b.to # {} /\ b.msg \in DownKinds
  BY DEF Todo, Batches
<1>4. \E c \in b.to : \A d \in b.to : c <= d
  <2>1. b.to \in SUBSET Nat
    BY <1>3, ClientsAssumption
  <2> QED
    BY <1>3, <2>1, Least
<1>5. PICK r : r = Recipient
  OBVIOUS
<1>6. r \in b.to
  BY <1>2, <1>4, <1>5 DEF Recipient
<1>7. /\ todo \in Seq(Batches) /\ Head(todo) = b /\ Tail(todo) \in Seq(Todo)
      /\ Tail(todo) \in Seq(Batches)
  <2>1. Tail(todo) \in Seq(Todo) /\ Head(todo) = todo[1]
    BY <1>1, HeadTailProperties
  <2> QED
    BY <1>1, <1>2, <2>1, TodoIs
<1>8. PICK p : p = Tail(todo)
  OBVIOUS
<1>9. ASSUME NEW d \in Clients
      PROVE  /\ Pending(d, todo) = Sent(d)[b] \o Pending(d, p)
             /\ Sent(d)[b] = IF d \in b.to THEN <<b.msg>> ELSE <<>>
             /\ Pending(d, p) \in Seq(DownKinds) /\ <<>> \o Pending(d, p) = Pending(d, p)
  <2>1. Sent(d) \in [Batches -> Seq(DownKinds)]
    BY SentType
  <2>2. Flatten(todo, Sent(d)) = Sent(d)[Head(todo)] \o Flatten(Tail(todo), Sent(d))
    BY <1>7, <2>1, FlattenHead
  <2>3. Pending(d, todo) = Sent(d)[b] \o Pending(d, p)
    BY <1>7, <1>8, <2>2, SentType
  <2>4. Sent(d)[b] = IF d \in b.to THEN <<b.msg>> ELSE <<>>
    BY DEF Sent, Todo
  <2>5. Pending(d, p) \in Seq(DownKinds)
    BY <1>7, <1>8, PendingType
  <2>6. <<>> \o Pending(d, p) = Pending(d, p)
    BY <2>5, Empties
  <2> QED
    BY <2>3, <2>4, <2>5, <2>6
<1>10. CASE b.to = {r}
  <2>1. t = p /\ t \in Seq(Todo)
    BY <1>2, <1>5, <1>7, <1>8, <1>10, Zenon DEF Remains
  <2>2. ASSUME NEW d \in Clients
        PROVE  Pending(d, todo) = IF d = r THEN <<b.msg>> \o Pending(d, t) ELSE Pending(d, t)
    <3>1. d \in b.to <=> d = r
      BY <1>10
    <3> QED
      BY <1>9, <2>1, <3>1, Zenon
  <2> QED
    BY <1>2, <1>3, <1>5, <1>6, <2>1, <2>2
<1>11. CASE b.to # {r}
  <2> DEFINE v == [to |-> b.to \ {r}, msg |-> b.msg]
  <2>1. v \in Todo /\ v \in Batches /\ v.to = b.to \ {r} /\ v.msg = b.msg
    BY <1>3, <1>6, <1>11 DEF Todo, Batches
  <2>2. t = [todo EXCEPT ![1] = v]
    <3>1. t = [todo EXCEPT ![1].to = @ \ {r}]
      BY <1>2, <1>5, <1>11, Zenon DEF Remains
    <3>2. t = [todo EXCEPT ![1] = [todo[1] EXCEPT !.to = todo[1].to \ {r}]]
      BY <3>1, Zenon
    <3>3. [b EXCEPT !.to = b.to \ {r}] = v
      BY NewTo DEF Todo
    <3> QED
      BY <1>2, <3>2, <3>3, Zenon
  <2> HIDE DEF v
  <2>3. t \in Seq(Todo) /\ t # <<>> /\ Head(t) = v /\ Tail(t) = p
    BY <1>1, <1>8, <2>1, <2>2, NewFirst
  <2>4. ASSUME NEW d \in Clients
        PROVE  Pending(d, t) = Sent(d)[v] \o Pending(d, p)
               /\ Sent(d)[v] = IF d \in b.to /\ d # r THEN <<b.msg>> ELSE <<>>
    <3>1. Sent(d) \in [Batches -> Seq(DownKinds)]
      BY SentType
    <3>2. t \in Seq(Batches)
      BY <2>3, TodoIs
    <3>3. Flatten(t, Sent(d)) = Sent(d)[Head(t)] \o Flatten(Tail(t), Sent(d))
      BY <2>3, <3>1, <3>2, FlattenHead
    <3>4. Pending(d, t) = Sent(d)[v] \o Pending(d, p)
      BY <2>3, <3>3, SentType
    <3>5. Sent(d)[v] = IF d \in v.to THEN <<v.msg>> ELSE <<>>
      BY <2>1 DEF Sent
    <3> QED
      BY <2>1, <3>4, <3>5
  <2>5. ASSUME NEW d \in Clients
        PROVE  Pending(d, todo) = IF d = r THEN <<b.msg>> \o Pending(d, t) ELSE Pending(d, t)
    BY <1>6, <1>9, <2>4, Zenon
  <2> QED
    BY <1>2, <1>3, <1>5, <1>6, <2>3, <2>5
<1> QED
  BY <1>10, <1>11

LEMMA PktSendStep ==
  ASSUME TransportInv, PktSend
  PROVE  TransportInv' /\ Stays /\ UNCHANGED <<members, broken>>
<1>0. SockRoom \in Nat
  BY LimitsHold DEF Limits
<1>1. UNCHANGED <<ui, want, send_queue, out, upsock, serve, incoming_queue, members, in, um_queue,
                  broken>>
  BY DEF PktSend, uiVars, upVars
<1>2. todo # <<>> /\ Remains(todo')
  BY Zenon DEF PktSend, Remains
<1>3. PICK r, m, t : r = Recipient /\ m = todo[1].msg /\ t = todo'
  OBVIOUS
<1>4. /\ r \in Clients /\ m \in DownKinds /\ t \in Seq(Todo)
      /\ \A d \in Clients : Pending(d, todo) = IF d = r THEN <<m>> \o Pending(d, t)
                                               ELSE Pending(d, t)
  <2>1. Remains(t)
    BY <1>2, <1>3
  <2>2. /\ Recipient \in Clients /\ todo[1].msg \in DownKinds /\ t \in Seq(Todo)
        /\ \A d \in Clients :
             Pending(d, todo) = IF d = Recipient THEN <<todo[1].msg>> \o Pending(d, t)
                                ELSE Pending(d, t)
    BY <1>2, <2>1, Recipients
  <2> QED
    BY <1>3, <2>2, Zenon
<1>5. /\ downsock \in [Clients -> UpTo(SockRoom, DownKinds)]
      /\ \/ r \notin broken /\ Len(downsock[r]) < SockRoom /\ downsock' = Push(downsock, r, m)
         \/ r \in broken /\ downsock' = downsock
  BY <1>3, Zenon DEF PktSend, TransportInv, TypeOK
<1>6. ASSUME r \notin broken
      PROVE  /\ downsock[r] \in Seq(DownKinds)
             /\ Moves(downsock, downsock', SockRoom, DownKinds, r, Append(downsock[r], m))
  <2>1. /\ r \in Clients /\ m \in DownKinds /\ Len(downsock[r]) < SockRoom
        /\ downsock \in [Clients -> UpTo(SockRoom, DownKinds)] /\ downsock' = Push(downsock, r, m)
    BY <1>4, <1>5, <1>6, Zenon
  <2> QED
    BY <1>0, <2>1, PushType
<1>7. /\ downsock' \in [Clients -> UpTo(SockRoom, DownKinds)]
      /\ \A d \in Clients : d # r => downsock'[d] = downsock[d]
  <2>1. CASE r \notin broken
    BY <1>6, <2>1, Zenon DEF Moves
  <2>2. CASE r \in broken
    BY <1>5, <2>2
  <2> QED
    BY <2>1, <2>2
<1>8. TypeOK'
  BY <1>1, <1>7 DEF TransportInv, TypeOK
<1>9. todo' \in Seq(Todo) /\ \A d \in Clients : want'[d].kind # "EDISCONN"
  BY <1>1, <1>3, <1>4 DEF TransportInv
<1>10. Working' /\ Clean'
  BY <1>1, Zenon DEF TransportInv, Working, Clean
<1>11. ASSUME r \notin broken PROVE DownPath(r)' = DownPath(r)
  <2>1. DownEnd(r)' = Pending(r, t) /\ DownEnd(r) = <<m>> \o Pending(r, t)
    BY <1>1, <1>3, <1>4, <1>11, Zenon DEF DownEnd
  <2>2. /\ um_queue[r] \in Seq(DownKinds) /\ in[r].held \in Seq(DownKinds)
        /\ downsock[r] \in Seq(DownKinds) /\ Pending(r, t) \in Seq(DownKinds)
    <3>1. DownParts(r)
      BY <1>4, Parts
    <3> QED
      BY <1>4, <3>1, PendingType DEF DownParts
  <2>3. Path(um_queue[r], in[r].held, Append(downsock[r], m), Pending(r, t))
          = Path(um_queue[r], in[r].held, downsock[r], <<m>> \o Pending(r, t))
    BY <1>4, <2>2, PathSends
  <2>4. downsock'[r] = Append(downsock[r], m)
    BY <1>6, <1>11, Zenon DEF Moves
  <2> QED
    BY <1>1, <2>1, <2>3, <2>4, PathsAre, PathsAreNext, Zenon
<1>12. ASSUME NEW d \in Clients PROVE UpPath(d)' = UpPath(d) /\ DownPath(d)' = DownPath(d)
  <2>1. UpPath(d)' = UpPath(d)
    BY <1>1, UpSame, Zenon
  <2>2. CASE d # r
    <3>1. Pending(d, todo') = Pending(d, todo)
      BY <1>3, <1>4, <2>2, Zenon
    <3>2. DownPath(d)' = DownPath(d)
      BY <1>1, <1>7, <2>2, <3>1, DownSame, Zenon
    <3> QED
      BY <2>1, <3>2
  <2>3. CASE d = r /\ r \in broken
    <3>1. downsock' = downsock
      BY <1>5, <2>3, Zenon
    <3>2. DownPath(d)' = DownPath(d)
      BY <1>1, <2>3, <3>1, DownSame, Zenon
    <3> QED
      BY <2>1, <3>2
  <2> QED
    BY <1>11, <2>1, <2>2, <2>3
<1> QED
  BY <1>1, <1>8, <1>9, <1>10, <1>12, Zenon DEF TransportInv, Stays

LEMMA SubSeqType ==
  ASSUME NEW n \in Nat, NEW S, NEW s \in UpTo(n, S), NEW k \in 0 .. Len(s)
  PROVE  SubSeq(s, 1, k) \in UpTo(n, S)
<1>1. s \in Seq(S) /\ Len(s) <= n
  BY UpToIs
<1>2. SubSeq(s, 1, k) \in Seq(S) /\ Len(SubSeq(s, 1, k)) = k /\ k <= n
  <2>1. k \in Nat /\ k <= Len(s) /\ Len(s) \in Nat
    BY <1>1
  <2> QED
    BY <1>1, <2>1, SubSeqProperties
<1> QED
  BY <1>2, UpToIs

LEMMA BreakStep ==
  ASSUME TransportInv, NEW c \in Clients, Break(c)
  PROVE  /\ TransportInv' /\ c \notin broken /\ broken' = broken \cup {c} /\ UNCHANGED members
         /\ \A d \in Clients : d # c => UpPath(d)' = UpPath(d) /\ DownPath(d)' = DownPath(d)
         /\ \E n \in 0 .. Len(UpPath(c)) :
              UpPath(c)' = Append(SubSeq(UpPath(c), 1, n), "EDISCONN")
         /\ \E n \in 0 .. Len(DownPath(c)) :
              DownPath(c)' = Append(SubSeq(DownPath(c), 1, n), "UM_DISCONN")
<1>0. SockRoom \in Nat /\ "EDISCONN" \in UpKinds /\ "UM_DISCONN" \in DownKinds
  BY LimitsHold DEF Limits
<1>1. /\ upsock \in [Clients -> UpTo(SockRoom, UpKinds)] /\ broken \in SUBSET Clients
      /\ downsock \in [Clients -> UpTo(SockRoom, DownKinds)]
      /\ c \notin broken /\ broken' = broken \cup {c}
  BY DEF TransportInv, TypeOK, Break
<1>2. UNCHANGED <<ui, want, send_queue, out, serve, incoming_queue, todo, members, in, um_queue>>
  BY DEF Break, uiVars, handlerVars
<1>3. PICK j \in 0 .. Len(upsock[c]) : upsock' = [upsock EXCEPT ![c] = SubSeq(@, 1, j)]
  BY DEF Break
<1>4. PICK k \in 0 .. Len(downsock[c]) : downsock' = [downsock EXCEPT ![c] = SubSeq(@, 1, k)]
  BY DEF Break
<1>5. SubSeq(upsock[c], 1, j) \in UpTo(SockRoom, UpKinds)
  BY <1>0, <1>1, SubSeqType
<1>6. SubSeq(downsock[c], 1, k) \in UpTo(SockRoom, DownKinds)
  BY <1>0, <1>1, SubSeqType
<1>7. /\ upsock' \in [Clients -> UpTo(SockRoom, UpKinds)] /\ upsock'[c] = SubSeq(upsock[c], 1, j)
      /\ \A d \in Clients : d # c => upsock'[d] = upsock[d]
  BY <1>1, <1>3, <1>5
<1>8. /\ downsock' \in [Clients -> UpTo(SockRoom, DownKinds)]
      /\ downsock'[c] = SubSeq(downsock[c], 1, k)
      /\ \A d \in Clients : d # c => downsock'[d] = downsock[d]
  BY <1>1, <1>4, <1>6
<1>9. TypeOK'
  BY <1>1, <1>2, <1>7, <1>8 DEF TransportInv, TypeOK
<1>10. todo' \in Seq(Todo) /\ \A d \in Clients : want'[d].kind # "EDISCONN"
  BY <1>2 DEF TransportInv
<1>a. \A d \in Clients : d \notin broken' => d \notin broken
  BY <1>1
<1>11. Working' /\ Clean'
  BY <1>2, <1>a, Zenon DEF TransportInv, Working, Clean
<1>12. ASSUME NEW d \in Clients, d # c PROVE UpPath(d)' = UpPath(d) /\ DownPath(d)' = DownPath(d)
  <2>1. d \in broken' <=> d \in broken
    BY <1>1, <1>12
  <2> QED
    BY <1>2, <1>7, <1>8, <1>12, <2>1, UpSame, DownSame, Zenon
<1>13. c \in broken' /\ serve'[c].run /\ in'[c].run
  <2>1. serve[c].run /\ in[c].run
    BY <1>1, Zenon DEF TransportInv, Working
  <2>2. c \in broken'
    BY <1>1
  <2> QED
    BY <1>2, <2>1, <2>2, Zenon
<1>14. \E n \in 0 .. Len(UpPath(c)) : UpPath(c)' = Append(SubSeq(UpPath(c), 1, n), "EDISCONN")
  <2>1. UpEnd(c)' = <<"EDISCONN">> /\ From(c)' = From(c)
    BY <1>2, <1>13, PathsAre, PathsAreNext, Zenon DEF UpEnd
  <2>2. PICK x, h, y, z : x = From(c) /\ h = serve[c].held /\ y = upsock[c] /\ z = UpEnd(c)
    OBVIOUS
  <2>3. /\ x \in Seq(UpKinds) /\ h \in Seq(UpKinds) /\ y \in Seq(UpKinds) /\ z \in Seq(UpKinds)
        /\ j \in 0 .. Len(y)
    BY <1>3, <2>2, Parts, Zenon DEF UpParts
  <2>4. Breaks(x, h, y, z, j, "EDISCONN")
    BY <1>0, <2>3, PathBreaks
  <2>5. UpPath(c)' = Path(x, h, SubSeq(y, 1, j), <<"EDISCONN">>)
    BY <1>2, <1>7, <2>1, <2>2, PathsAreNext, Zenon
  <2>6. UpPath(c) = Path(x, h, y, z)
    BY <2>2, PathsAre, Zenon
  <2> QED
    BY <2>4, <2>5, <2>6, Zenon DEF Breaks
<1>15. \E n \in 0 .. Len(DownPath(c)) :
         DownPath(c)' = Append(SubSeq(DownPath(c), 1, n), "UM_DISCONN")
  <2>1. DownEnd(c)' = <<"UM_DISCONN">>
    BY <1>13, Zenon DEF DownEnd
  <2>2. PICK x, h, y, z : x = um_queue[c] /\ h = in[c].held /\ y = downsock[c] /\ z = DownEnd(c)
    OBVIOUS
  <2>3. /\ x \in Seq(DownKinds) /\ h \in Seq(DownKinds) /\ y \in Seq(DownKinds)
        /\ z \in Seq(DownKinds) /\ k \in 0 .. Len(y)
    BY <1>4, <2>2, Parts, Zenon DEF DownParts
  <2>4. Breaks(x, h, y, z, k, "UM_DISCONN")
    BY <1>0, <2>3, PathBreaks
  <2>5. DownPath(c)' = Path(x, h, SubSeq(y, 1, k), <<"UM_DISCONN">>)
    BY <1>2, <1>8, <2>1, <2>2, PathsAreNext, Zenon
  <2>6. DownPath(c) = Path(x, h, y, z)
    BY <2>2, PathsAre, Zenon
  <2> QED
    BY <2>4, <2>5, <2>6, Zenon DEF Breaks
<1>16. TransportInv'
  BY <1>9, <1>10, <1>11, Zenon DEF TransportInv
<1> QED
  BY <1>1, <1>2, <1>12, <1>14, <1>15, <1>16
----------------------------------------------------------------------------
(* The same steps as steps of Pipe. *)
Ups == [c \in Clients |-> UpPath(c)]
Downs == [c \in Clients |-> DownPath(c)]

LEMMA SameUps ==
  ASSUME \A d \in Clients : UpPath(d)' = UpPath(d) PROVE Ups' = Ups
  BY Zenon DEF Ups

LEMMA SameDowns ==
  ASSUME \A d \in Clients : DownPath(d)' = DownPath(d) PROVE Downs' = Downs
  BY Zenon DEF Downs

LEMMA OneUp ==
  ASSUME NEW c \in Clients, NEW s, UpPath(c)' = s,
         \A d \in Clients : d # c => UpPath(d)' = UpPath(d)
  PROVE  Ups' = [Ups EXCEPT ![c] = s]
<1>1. ASSUME NEW d \in Clients PROVE UpPath(d)' = IF d = c THEN s ELSE UpPath(d)
  OBVIOUS
<1>2. Ups' = [d \in Clients |-> IF d = c THEN s ELSE UpPath(d)]
  BY <1>1, Zenon DEF Ups
<1>3. [Ups EXCEPT ![c] = s] = [d \in Clients |-> IF d = c THEN s ELSE UpPath(d)]
  BY DEF Ups
<1> QED
  BY <1>2, <1>3

LEMMA OneDown ==
  ASSUME NEW c \in Clients, NEW s, DownPath(c)' = s,
         \A d \in Clients : d # c => DownPath(d)' = DownPath(d)
  PROVE  Downs' = [Downs EXCEPT ![c] = s]
<1>1. ASSUME NEW d \in Clients PROVE DownPath(d)' = IF d = c THEN s ELSE DownPath(d)
  OBVIOUS
<1>2. Downs' = [d \in Clients |-> IF d = c THEN s ELSE DownPath(d)]
  BY <1>1, Zenon DEF Downs
<1>3. [Downs EXCEPT ![c] = s] = [d \in Clients |-> IF d = c THEN s ELSE DownPath(d)]
  BY DEF Downs
<1> QED
  BY <1>2, <1>3

LEMMA At ==
  ASSUME NEW c \in Clients PROVE Ups[c] = UpPath(c) /\ Downs[c] = DownPath(c)
  BY DEF Ups, Downs

LEMMA Stutters ==
  ASSUME Stays, UNCHANGED <<members, broken>> PROVE UNCHANGED Abstract!pipeVars
<1>1. Ups' = Ups /\ Downs' = Downs
  BY SameUps, SameDowns, Zenon DEF Stays
<1> QED
  BY <1>1, Zenon DEF Abstract!pipeVars, Ups, Downs

LEMMA ThreadsKept ==
  ASSUME TransportInv, NEW c \in Clients, Threads(c)
  PROVE  TransportInv' /\ UNCHANGED Abstract!pipeVars
<1>1. TransportInv' /\ Stays
  BY OutTakeStep, OutSendStep, OutEndStep, InRecvStep, InAddStep, ServeRecvStep, ServeAddStep
     DEF Threads
<1>2. UNCHANGED <<members, broken>>
  BY Zenon DEF Threads, OutTake, OutSend, OutEnd, InRecv, InAdd, ServeRecv, ServeAdd, handlerVars
<1> QED
  BY <1>1, <1>2, Stutters

LEMMA PutStep ==
  ASSUME TransportInv, NEW c \in Clients, UiAdd(c)
  PROVE  TransportInv' /\ (Abstract!PipeNext \/ UNCHANGED Abstract!pipeVars)
<1>1. /\ TransportInv' /\ \A d \in Clients : DownPath(d)' = DownPath(d)
      /\ \A d \in Clients : d # c \/ c \in broken => UpPath(d)' = UpPath(d)
      /\ c \notin broken => UpPath(c)' = Append(UpPath(c), want[c].kind)
      /\ want[c].kind \in UpKinds \ {"EDISCONN"} /\ UNCHANGED <<members, broken>>
  BY UiAddStep
<1>2. CASE c \in broken
  <2>1. Stays
    BY <1>1, <1>2, Zenon DEF Stays
  <2> QED
    BY <1>1, <2>1, Stutters
<1>3. CASE c \notin broken
  <2>1. PICK kind : kind = want[c].kind
    OBVIOUS
  <2>2. Ups' = [Ups EXCEPT ![c] = Append(UpPath(c), kind)] /\ Downs' = Downs
    BY <1>1, <1>3, <2>1, OneUp, SameDowns
  <2>3. Ups' = [Ups EXCEPT ![c] = Append(@, kind)]
    BY <2>2, At, Zenon
  <2>4. Abstract!Put(c, kind)
    BY <1>1, <1>3, <2>2, <2>3, Zenon DEF Abstract!Put, Ups, Downs
  <2>5. kind \in Abstract!UpKinds \ {"EDISCONN"}
    BY <1>1, <2>1 DEF UpKinds, Abstract!UpKinds
  <2> QED
    BY <1>1, <2>4, <2>5, Zenon DEF Abstract!PipeNext
<1> QED
  BY <1>2, <1>3

LEMMA GetStep ==
  ASSUME TransportInv, NEW c \in Clients, UiTake(c)
  PROVE  TransportInv' /\ Abstract!PipeNext
<1>1. /\ TransportInv' /\ \A d \in Clients : UpPath(d)' = UpPath(d)
      /\ \A d \in Clients : d # c => DownPath(d)' = DownPath(d)
      /\ DownPath(c) # <<>> /\ DownPath(c)' = Tail(DownPath(c))
      /\ UNCHANGED <<members, broken>>
  BY UiTakeStep
<1>2. Ups' = Ups /\ Downs' = [Downs EXCEPT ![c] = Tail(DownPath(c))]
  BY <1>1, OneDown, SameUps
<1>3. Downs' = [Downs EXCEPT ![c] = Tail(@)] /\ Downs[c] # <<>>
  BY <1>1, <1>2, At, Zenon
<1>4. Abstract!Get(c)
  BY <1>1, <1>2, <1>3, Zenon DEF Abstract!Get, Ups, Downs
<1> QED
  BY <1>1, <1>4, Zenon DEF Abstract!PipeNext

LEMMA HandleStep ==
  ASSUME TransportInv, PktTake
  PROVE  TransportInv' /\ Abstract!PipeNext
<1>1. TransportInv' /\ UNCHANGED broken
  BY PktTakeStep
<1>2. PICK c \in Clients :
        /\ UpPath(c) # <<>> /\ UpPath(c)' = Tail(UpPath(c))
        /\ \A d \in Clients : d # c => UpPath(d)' = UpPath(d)
        /\ \E o \in Outcomes(c, Head(UpPath(c)), members) :
             /\ members' = o.members
             /\ \A d \in Clients :
                  DownPath(d)' = IF d \in broken THEN DownPath(d)
                                 ELSE DownPath(d) \o Pending(d, o.todo)
  BY PktTakeStep
<1>3. PICK o \in Outcomes(c, Head(UpPath(c)), members) :
        /\ members' = o.members
        /\ \A d \in Clients :
             DownPath(d)' = IF d \in broken THEN DownPath(d)
                            ELSE DownPath(d) \o Pending(d, o.todo)
  BY <1>2
<1>4. Ups' = [Ups EXCEPT ![c] = Tail(UpPath(c))]
  BY <1>2, OneUp
<1>5. Ups' = [Ups EXCEPT ![c] = Tail(@)] /\ Ups[c] # <<>> /\ Head(Ups[c]) = Head(UpPath(c))
  BY <1>2, <1>4, At, Zenon
<1>6. Downs' = [d \in Clients |-> IF d \in broken THEN Downs[d]
                                  ELSE Downs[d] \o Abstract!Pending(d, o.todo)]
  <2>1. ASSUME NEW d \in Clients
        PROVE  DownPath(d)' = IF d \in broken THEN Downs[d]
                              ELSE Downs[d] \o Abstract!Pending(d, o.todo)
    BY <1>3, At, SameHandlers, Zenon
  <2> QED
    BY <2>1, Zenon DEF Downs
<1>7. o \in Abstract!Outcomes(c, Head(Ups[c]), members)
  BY <1>5, SameHandlers, Zenon
<1>8. Abstract!Handle(c)
  BY <1>1, <1>3, <1>5, <1>6, <1>7, Zenon DEF Abstract!Handle, Ups, Downs
<1> QED
  BY <1>1, <1>8, Zenon DEF Abstract!PipeNext

LEMMA LoseStep ==
  ASSUME TransportInv, NEW c \in Clients, Break(c)
  PROVE  TransportInv' /\ Abstract!PipeNext
<1>1. /\ TransportInv' /\ c \notin broken /\ broken' = broken \cup {c} /\ UNCHANGED members
      /\ \A d \in Clients : d # c => UpPath(d)' = UpPath(d) /\ DownPath(d)' = DownPath(d)
      /\ \E n \in 0 .. Len(UpPath(c)) :
           UpPath(c)' = Append(SubSeq(UpPath(c), 1, n), "EDISCONN")
      /\ \E n \in 0 .. Len(DownPath(c)) :
           DownPath(c)' = Append(SubSeq(DownPath(c), 1, n), "UM_DISCONN")
  BY BreakStep
<1>2. PICK j \in 0 .. Len(UpPath(c)) : UpPath(c)' = Append(SubSeq(UpPath(c), 1, j), "EDISCONN")
  BY <1>1
<1>3. PICK k \in 0 .. Len(DownPath(c)) :
        DownPath(c)' = Append(SubSeq(DownPath(c), 1, k), "UM_DISCONN")
  BY <1>1
<1>4. Ups' = [Ups EXCEPT ![c] = Append(SubSeq(UpPath(c), 1, j), "EDISCONN")]
  BY <1>1, <1>2, OneUp, Zenon
<1>5. Downs' = [Downs EXCEPT ![c] = Append(SubSeq(DownPath(c), 1, k), "UM_DISCONN")]
  BY <1>1, <1>3, OneDown, Zenon
<1>6. j \in 0 .. Len(Ups[c]) /\ Ups' = [Ups EXCEPT ![c] = Append(SubSeq(@, 1, j), "EDISCONN")]
  BY <1>4, At, Zenon
<1>7. /\ k \in 0 .. Len(Downs[c])
      /\ Downs' = [Downs EXCEPT ![c] = Append(SubSeq(@, 1, k), "UM_DISCONN")]
  BY <1>5, At, Zenon
<1>8. Abstract!Break(c)
  BY <1>1, <1>6, <1>7, Zenon DEF Abstract!Break, Ups, Downs
<1> QED
  BY <1>1, <1>8, Zenon DEF Abstract!PipeNext

LEMMA TransportStep ==
  ASSUME TransportInv, [Next]_vars
  PROVE  TransportInv' /\ [Abstract!PipeNext]_(Abstract!pipeVars)
<1>1. CASE PktTake
  BY <1>1, HandleStep, Zenon
<1>2. CASE PktSend
  BY <1>2, PktSendStep, Stutters, Zenon
<1>3. ASSUME NEW c \in Clients, Threads(c)
      PROVE  TransportInv' /\ UNCHANGED Abstract!pipeVars
  BY <1>3, ThreadsKept
<1>4. ASSUME NEW c \in Clients, UiTurn(c) \/ Press(c)
      PROVE  TransportInv' /\ UNCHANGED Abstract!pipeVars
  <2>1. TransportInv' /\ Stays
    BY <1>4, UiTurnStep, PressStep
  <2>2. UNCHANGED <<members, broken>>
    BY <1>4, Zenon DEF UiTurn, Press, handlerVars
  <2> QED
    BY <2>1, <2>2, Stutters
<1>5. ASSUME NEW c \in Clients, UiAdd(c) \/ UiTake(c) \/ Break(c)
      PROVE  TransportInv' /\ (Abstract!PipeNext \/ UNCHANGED Abstract!pipeVars)
  BY <1>5, PutStep, GetStep, LoseStep, Zenon
<1>6. CASE UNCHANGED vars
  <2>1. UNCHANGED <<uiVars, upVars, incoming_queue, handlerVars, downVars, broken>>
    BY <1>6 DEF vars
  <2>2. TransportInv' /\ Stays
    BY <2>1, UiSame, UiStep
  <2>3. UNCHANGED <<members, broken>>
    BY <2>1 DEF handlerVars
  <2> QED
    BY <2>2, <2>3, Stutters, Zenon
<1> QED
  BY <1>1, <1>2, <1>3, <1>4, <1>5, <1>6, Zenon DEF Next, Handler, Interface

LEMMA TransportStart ==
  ASSUME Init PROVE TransportInv /\ Abstract!PipeInit
<1>1. Idle.held = <<>> /\ Idle.run /\ \A K : Idle \in Thread(K)
  <2>1. Idle.held = <<>> /\ Idle.run
    BY Zenon DEF Idle
  <2>2. ASSUME NEW K PROVE Idle \in Thread(K)
    BY Zenon DEF Idle, Thread
  <2> QED
    BY <2>1, <2>2
<1>2. \A S : <<>> \in Seq(S) /\ \A n \in Nat : <<>> \in UpTo(n, S)
  <2>1. ASSUME NEW S, NEW n \in Nat PROVE <<>> \in UpTo(n, S)
    <3>1. <<>> \in Seq(S) /\ Len(<<>>) <= n
      OBVIOUS
    <3> QED
      BY <3>1, UpToIs
  <2> QED
    BY <2>1
<1>3. QSIZE \in Nat /\ MAX_QUEUE_SIZE \in Nat /\ SockRoom \in Nat
  BY LimitsHold DEF Limits
<1>4. TypeOK
  <2>1. ui \in [Clients -> {"poll", "keys", "adding", "done"}]
    BY DEF Init
  <2>2. want \in [Clients -> [kind : UpKinds, back : {"poll", "keys", "done"}]]
    BY DEF Init, UpKinds
  <2>3. /\ send_queue \in [Clients -> UpTo(QSIZE, UpKinds \cup {"UM_DISCONN"})]
        /\ um_queue \in [Clients -> UpTo(QSIZE, DownKinds)]
        /\ upsock \in [Clients -> UpTo(SockRoom, UpKinds)]
        /\ downsock \in [Clients -> UpTo(SockRoom, DownKinds)]
        /\ incoming_queue \in UpTo(MAX_QUEUE_SIZE, Entries)
    BY <1>2, <1>3 DEF Init
  <2>4. /\ out \in [Clients -> Thread(UpKinds \cup {"UM_DISCONN"})]
        /\ in \in [Clients -> Thread(DownKinds)] /\ serve \in [Clients -> Thread(UpKinds)]
    BY <1>1 DEF Init
  <2>5. members \subseteq Clients /\ broken \subseteq Clients
    BY DEF Init
  <2> QED
    BY <2>1, <2>2, <2>3, <2>4, <2>5 DEF TypeOK
<1>5. todo \in Seq(Todo) /\ \A c \in Clients : want[c].kind # "EDISCONN"
  BY DEF Init
<1>6. \A c \in Clients : out[c] = Idle /\ in[c] = Idle /\ serve[c] = Idle /\ send_queue[c] = <<>>
  BY DEF Init
<1>7. Working
  BY <1>1, <1>6, Zenon DEF Working
<1>8. Clean
  <2>1. <<>> \in Hands(UpKinds) /\ <<>> \in Seq(UpKinds)
    BY <1>2, Zenon DEF Hands
  <2> QED
    BY <1>1, <1>6, <2>1, Zenon DEF Clean
<1>9. ASSUME NEW c \in Clients PROVE UpPath(c) = <<>> /\ DownPath(c) = <<>>
  <2>1. From(c) = <<>> /\ Pending(c, todo) = <<>>
    <3>1. incoming_queue = <<>> /\ todo = <<>>
      BY DEF Init
    <3> QED
      BY <3>1, PathsAre, FlattenEmpty, SentType
  <2>2. <<>> \o <<>> = <<>>
    BY Empties
  <2>3. /\ upsock[c] = <<>> /\ downsock[c] = <<>> /\ um_queue[c] = <<>> /\ send_queue[c] = <<>>
        /\ c \notin broken
    BY DEF Init
  <2>4. serve[c].held = <<>> /\ in[c].held = <<>> /\ out[c].held = <<>>
    BY <1>1, <1>6, Zenon
  <2>5. UpEnd(c) = <<>> /\ DownEnd(c) = <<>>
    BY <2>1, <2>2, <2>3, <2>4, Zenon DEF UpEnd, DownEnd
  <2> QED
    BY <2>1, <2>2, <2>3, <2>4, <2>5, PathsAre, Zenon DEF Path
<1>10. Abstract!PipeInit
  <2>1. Ups = [c \in Clients |-> <<>>] /\ Downs = [c \in Clients |-> <<>>]
    BY <1>9, Zenon DEF Ups, Downs
  <2> QED
    BY <2>1, Zenon DEF Abstract!PipeInit, Init, Ups, Downs
<1> QED
  BY <1>4, <1>5, <1>7, <1>8, <1>10 DEF TransportInv

(* TransportInvariant: the inductive invariant holds throughout. *)
THEOREM TransportInvariant == Spec => []TransportInv
<1>1. Init => TransportInv
  BY TransportStart
<1>2. TransportInv /\ [Next]_vars => TransportInv'
  BY TransportStep
<1> QED
  BY <1>1, <1>2, PTL DEF Spec

(* TransportTypeOK: whatever the capacities of the queues and the room in  *)
(* the connections, nothing holds more than it has room for, and every     *)
(* message is where a message of its kind may be.                          *)
THEOREM TransportTypeOK == Spec => []TypeOK
<1>1. TransportInv => TypeOK
  BY DEF TransportInv
<1> QED
  BY <1>1, TransportInvariant, PTL

(* TransportInOrder: the threads, queues and connections are the ordered   *)
(* channels of Pipe: per connection nothing is lost, doubled or reordered, *)
(* the answers to an entry come as if they were all sent at once, and the  *)
(* news of the end of a connection comes once, and last.                   *)
THEOREM TransportInOrder == Spec => InOrder
<1>1. Init => Abstract!PipeInit
  BY TransportStart
<1>2. TransportInv /\ [Next]_vars => [Abstract!PipeNext]_(Abstract!pipeVars)
  BY TransportStep
<1> QED
  BY <1>1, <1>2, TransportInvariant, PTL DEF Spec, InOrder, Abstract!PipeSpec
=============================================================================
